------------------------- MODULE AssignmentsProofs -------------------------
(***************************************************************************)
(* For any school, any number of requests and of goroutines serving them   *)
(* at once, with a disk that may fail at any step: the promises of Publish *)
(* and Unpublish and of joining a class hold of every student whom no      *)
(* other request has disturbed.                                            *)
(*                                                                         *)
(* The argument is by rely and guarantee.  TaskInv(t) says what request t  *)
(* has done so far, of its own steps; a step of another request u either   *)
(* leaves everything alone that TaskInv(t) speaks of, or is recorded by    *)
(* Note: in touched[t] if it changed what t relies on for a student, in    *)
(* crossed if it changed the manifest t has read.  Both excuse t, so every *)
(* step of u keeps TaskInv(t) (OthersTask), and every step of t keeps its  *)
(* own (OwnKeeps).                                                         *)
(***************************************************************************)
EXTENDS Assignments, TLAPS

-----------------------------------------------------------------------------
(* What a handler may have left to do.                                     *)

In(p, x) == \E i \in 1 .. Len(p) : p[i] = x
Cons(x, R) == {p \in Seq(PhaseName) : p # <<>> /\ Head(p) = x /\ Tail(p) \in R}
Stop == {<<>>}
Ends == Stop \cup Cons("dropped", Stop)
Closes == Cons("recall", Cons("reload", Stop))
AfterWrite == Ends \cup Cons("publish", Ends) \cup Closes
Loop == Stop \cup Cons("reconcile", Stop) \cup Cons("takeBack", Stop)
HandingOut == Cons("handOut", Cons("reopen", Ends))
Saves == Cons("save", Cons("write", AfterWrite))
Steps1 == {"user", "target", "give", "snapshot", "remove"}

Rests(h) ==
  CASE h \in {"publish", "reopen"} -> Ends
    [] h = "handOut" -> Cons("reopen", Ends)
    [] h = "copy" -> HandingOut \cup Loop
    [] h = "trySave" -> Cons("tryWrite", Ends)
    [] h = "tryWrite" -> Ends
    [] h = "save" -> Cons("write", AfterWrite)
    [] h = "write" -> AfterWrite
    [] h = "close" -> Closes
    [] h \in {"recall", "collect"} -> Stop \cup Cons("reload", Stop)
    [] h \in Steps1 -> Loop
    [] h = "fill" -> Saves
    [] h = "make" -> Cons("fill", Saves)
    [] h = "wipe" -> Cons("make", Cons("fill", Saves)) \cup Cons("wipeKept", Stop)
    [] OTHER -> Stop

ManifestSet == [file : {"none", "empty", "garbled", "saved"},
                classes : SUBSET Class, closed : BOOLEAN]

Kinds == {"idle", "publish", "unpublish", "recall", "settings", "create", "delete", "enroll"}

Local == [kind : Kinds, prog : Seq(PhaseName), m : ManifestSet, todo : SUBSET Class,
          queue : SUBSET Student, seen : SUBSET Student, cur : SUBSET Student,
          cls : Class \cup {NoClass, NoAccount}, dropped : SUBSET Class]

(* What a request is about to do follows from the step it is at, and the   *)
(* steps for one student have that student.                                *)
ShapeOf(x) ==
  x.prog # <<>> =>
    /\ Tail(x.prog) \in Rests(Head(x.prog))
    /\ Head(x.prog) \in Steps1 \cup {"copy"} => \E s \in Student : x.cur = {s}

TaskTypes ==
  /\ task \in [Task -> Local]
  /\ \A t \in Task : ShapeOf(task[t]) /\ (task[t].prog = <<>> => task[t] = Idle)

Types ==
  /\ manifest \in ManifestSet
  /\ dir \in {"none", "bare", "ready"} /\ (dir = "none" => manifest = Nil)
  /\ class \in [Student -> Class \cup {NoClass, NoAccount}]
  /\ home \in [Student -> Content] /\ kept \in [Student -> Content]
  /\ wasClosed \in BOOLEAN
  /\ crossed \subseteq Task
  /\ touched \in [Task -> SUBSET Student] /\ broke \in [Task -> SUBSET Student]
  /\ TaskTypes

Ahead(t, x) == In(task[t].prog, x)

-----------------------------------------------------------------------------
(* Sequences of steps.                                                     *)

LEMMA EmptySteps == <<>> \in Seq(PhaseName) /\ \A x : ~In(<<>>, x)
BY DEF In

LEMMA FirstStep ==
  ASSUME NEW p \in Seq(PhaseName), p # <<>>
  PROVE  /\ Head(p) \in PhaseName /\ Tail(p) \in Seq(PhaseName)
         /\ \A x : In(p, x) <=> Head(p) = x \/ In(Tail(p), x)
<1>1. /\ Len(p) \in Nat /\ Len(p) > 0 /\ Len(Tail(p)) = Len(p) - 1
      /\ \A i \in 1 .. Len(p) - 1 : Tail(p)[i] = p[i + 1]
      /\ Head(p) = p[1] /\ Tail(p) \in Seq(PhaseName) /\ Head(p) \in PhaseName
  OBVIOUS
<1>2. ASSUME NEW x, In(p, x) PROVE Head(p) = x \/ In(Tail(p), x)
  <2>1. PICK i \in 1 .. Len(p) : p[i] = x
    BY <1>2 DEF In
  <2>2. CASE i = 1
    BY <1>1, <2>1, <2>2
  <2>3. CASE i # 1
    <3>1. i - 1 \in 1 .. Len(Tail(p)) /\ Tail(p)[i - 1] = x
      BY <1>1, <2>1, <2>3
    <3>2. QED BY <3>1 DEF In
  <2>4. QED BY <2>2, <2>3
<1>3. ASSUME NEW x, Head(p) = x \/ In(Tail(p), x) PROVE In(p, x)
  <2>1. CASE Head(p) = x
    <3>1. 1 \in 1 .. Len(p) /\ p[1] = x
      BY <1>1, <2>1
    <3>2. QED BY <3>1 DEF In
  <2>2. CASE In(Tail(p), x)
    <3>1. PICK i \in 1 .. Len(Tail(p)) : Tail(p)[i] = x
      BY <2>2 DEF In
    <3>2. i + 1 \in 1 .. Len(p) /\ p[i + 1] = x
      BY <1>1, <3>1
    <3>3. QED BY <3>2 DEF In
  <2>3. QED BY <1>3, <2>1, <2>2
<1>4. QED BY <1>1, <1>2, <1>3

LEMMA AddStep ==
  ASSUME NEW y \in PhaseName, NEW r \in Seq(PhaseName)
  PROVE  /\ <<y>> \o r \in Seq(PhaseName) /\ <<y>> \o r # <<>>
         /\ Head(<<y>> \o r) = y /\ Tail(<<y>> \o r) = r
         /\ \A x : In(<<y>> \o r, x) <=> y = x \/ In(r, x)
<1>1. /\ <<y>> \o r \in Seq(PhaseName) /\ <<y>> \o r # <<>>
      /\ Head(<<y>> \o r) = y /\ Tail(<<y>> \o r) = r
  OBVIOUS
<1>2. QED BY <1>1, FirstStep

LEMMA AddTwoSteps ==
  ASSUME NEW y \in PhaseName, NEW z \in PhaseName, NEW r \in Seq(PhaseName)
  PROVE  /\ <<y, z>> \o r \in Seq(PhaseName) /\ <<y, z>> \o r # <<>>
         /\ Head(<<y, z>> \o r) = y /\ Tail(<<y, z>> \o r) = <<z>> \o r
         /\ \A x : In(<<y, z>> \o r, x) <=> y = x \/ z = x \/ In(r, x)
<1>1. /\ <<y, z>> \o r \in Seq(PhaseName) /\ <<y, z>> \o r # <<>>
      /\ Head(<<y, z>> \o r) = y /\ Tail(<<y, z>> \o r) = <<z>> \o r
  OBVIOUS
<1>2. \A x : In(<<z>> \o r, x) <=> z = x \/ In(r, x)
  BY AddStep
<1>3. \A x : In(<<y, z>> \o r, x) <=> y = x \/ In(<<z>> \o r, x)
  <2> DEFINE p == <<y, z>> \o r
  <2>1. p \in Seq(PhaseName) /\ p # <<>> /\ Head(p) = y /\ Tail(p) = <<z>> \o r
    BY <1>1
  <2> HIDE DEF p
  <2>2. \A x : In(p, x) <=> y = x \/ In(<<z>> \o r, x)
    BY <2>1, FirstStep
  <2>3. QED BY <2>2 DEF p
<1>4. QED BY <1>1, <1>2, <1>3

LEMMA PrependTwo ==
  ASSUME NEW y \in PhaseName, NEW z \in PhaseName, NEW r \in Seq(PhaseName)
  PROVE  <<y, z>> \o r = <<y>> \o (<<z>> \o r)
<1> DEFINE p == <<y, z>> \o r
           q == <<y>> \o (<<z>> \o r)
<1>1. p \in Seq(PhaseName) /\ q \in Seq(PhaseName) /\ Len(p) = Len(q)
  OBVIOUS
<1>2. \A i \in 1 .. Len(p) : p[i] = q[i]
  OBVIOUS
<1> HIDE DEF p, q
<1>3. p = q
  BY <1>1, <1>2
<1>4. QED BY <1>3 DEF p, q

LEMMA InCons ==
  ASSUME NEW x \in PhaseName, NEW R, NEW r \in R, r \in Seq(PhaseName)
  PROVE  <<x>> \o r \in Cons(x, R)
BY AddStep DEF Cons

(* Which steps can still be ahead, by what is left.                        *)
LEMMA StepsAhead ==
  /\ \A r \in Stop \cup Ends \cup Loop \cup Closes \cup Cons("reload", Stop), x \in {"publish", "reopen", "handOut"} :
       ~In(r, x)
  /\ \A r \in AfterWrite : /\ ~In(r, "reopen") /\ ~In(r, "handOut")
                           /\ In(r, "publish") <=> r # <<>> /\ Head(r) = "publish"
<1>1. \A r \in Stop : \A x : ~In(r, x)
  BY EmptySteps DEF Stop
<1>2. ASSUME NEW y, NEW R, NEW x, x # y, \A r \in R : ~In(r, x)
      PROVE  \A r \in Cons(y, R) : ~In(r, x)
  BY <1>2, FirstStep DEF Cons
<1>3. \A r \in Ends, x \in {"publish", "reopen", "handOut"} : ~In(r, x)
  BY <1>1, <1>2 DEF Ends
<1>4. \A r \in Loop \cup Cons("reload", Stop), x \in {"publish", "reopen", "handOut"} : ~In(r, x)
  BY <1>1, <1>2 DEF Loop
<1>5. \A r \in Closes, x \in {"publish", "reopen", "handOut"} : ~In(r, x)
  BY <1>2, <1>4 DEF Closes
<1>6. \A r \in Cons("publish", Ends) : /\ ~In(r, "reopen") /\ ~In(r, "handOut")
                                       /\ In(r, "publish") /\ r # <<>> /\ Head(r) = "publish"
  BY <1>2, <1>3, FirstStep DEF Cons
<1>7. \A r \in Ends \cup Closes : r # <<>> => Head(r) # "publish"
  BY DEF Ends, Closes, Cons, Stop
<1>8. QED BY <1>1, <1>3, <1>4, <1>5, <1>6, <1>7 DEF AfterWrite

(* What is left after a step is itself something a handler may have left.  *)
Good(p) ==
  /\ p \in Seq(PhaseName)
  /\ p # <<>> => Head(p) \notin Steps1 \cup {"copy"} /\ Tail(p) \in Rests(Head(p))

LEMMA GoodCons ==
  ASSUME NEW x, x \notin Steps1 \cup {"copy"}, NEW R, R \subseteq Rests(x)
  PROVE  \A p \in Cons(x, R) : Good(p)
BY DEF Good, Cons

LEMMA RestsAre ==
  /\ \A h \in {"publish", "reopen"} : Rests(h) = Ends
  /\ Rests("handOut") = Cons("reopen", Ends)
  /\ Rests("copy") = HandingOut \cup Loop
  /\ Rests("trySave") = Cons("tryWrite", Ends) /\ Rests("tryWrite") = Ends
  /\ Rests("save") = Cons("write", AfterWrite)
  /\ Rests("write") = AfterWrite
  /\ Rests("close") = Closes
  /\ \A h \in {"recall", "collect"} : Rests(h) = Stop \cup Cons("reload", Stop)
  /\ \A h \in Steps1 : Rests(h) = Loop
  /\ Rests("fill") = Saves
  /\ Rests("make") = Cons("fill", Saves)
  /\ Rests("wipe") = Cons("make", Cons("fill", Saves)) \cup Cons("wipeKept", Stop)
  /\ \A h \in {"reload", "reconcile", "takeBack", "dropped", "wipeKept", "wipeHomes"} :
       Rests(h) = Stop
BY DEF Rests, Steps1

LEMMA Names ==
  /\ Steps1 \cup Walks \cup {"publish", "copy", "reopen", "save", "trySave", "write", "tryWrite", "close",
       "recall", "reload", "wipe", "make", "fill", "dropped", "wipeKept", "wipeHomes"}
       \subseteq PhaseName
  /\ Walks = {"handOut", "collect", "reconcile", "takeBack"}
  /\ Steps1 = {"user", "target", "give", "snapshot", "remove"}
BY DEF PhaseName, Walks, Steps1

LEMMA TwoSteps ==
  ASSUME NEW y \in PhaseName, NEW z \in PhaseName, NEW R, NEW r \in R, r \in Seq(PhaseName),
         Cons(z, R) \subseteq Rests(y)
  PROVE  /\ <<z>> \o r \in Rests(y) /\ <<y, z>> \o r = <<y>> \o (<<z>> \o r)
         /\ <<y, z>> \o r \in Seq(PhaseName)
<1>1. <<z>> \o r \in Cons(z, R)
  BY InCons
<1>2. <<y, z>> \o r = <<y>> \o (<<z>> \o r)
  BY PrependTwo
<1>3. <<y, z>> \o r \in Seq(PhaseName)
  BY AddTwoSteps
<1>4. QED BY <1>1, <1>2, <1>3

LEMMA RestsAreGood ==
  ASSUME NEW h, NEW r \in Rests(h)
  PROVE  Good(r)
<1>1. \A p \in Stop : Good(p)
  BY EmptySteps DEF Good, Stop
<1>2. \A p \in Ends : Good(p)
  <2>1. Rests("dropped") = Stop
    BY DEF Rests, Steps1
  <2>2. QED BY <1>1, <2>1, GoodCons DEF Ends, Steps1
<1>3. \A p \in Cons("reload", Stop) \cup Cons("reconcile", Stop) \cup Cons("takeBack", Stop)
             \cup Cons("wipeKept", Stop) : Good(p)
  <2>1. \A x \in {"reload", "reconcile", "takeBack", "wipeKept"} : Rests(x) = Stop
    BY DEF Rests, Steps1
  <2>2. QED BY <2>1, GoodCons DEF Steps1
<1>4. \A p \in Closes : Good(p)
  <2>1. Cons("reload", Stop) \subseteq Rests("recall")
    BY DEF Rests, Steps1
  <2>2. QED BY <2>1, GoodCons DEF Closes, Steps1
<1>5. \A p \in Cons("publish", Ends) \cup Cons("reopen", Ends) : Good(p)
  <2>1. Rests("publish") = Ends /\ Rests("reopen") = Ends
    BY DEF Rests, Steps1
  <2>2. QED BY <2>1, GoodCons DEF Steps1
<1>6. \A p \in AfterWrite \cup Loop : Good(p)
  BY <1>1, <1>2, <1>3, <1>4, <1>5 DEF AfterWrite, Loop
<1>7. \A p \in HandingOut : Good(p)
  <2>1. Rests("handOut") = Cons("reopen", Ends)
    BY DEF Rests, Steps1
  <2>2. QED BY <2>1, GoodCons DEF HandingOut, Steps1
<1>8. \A p \in Cons("write", AfterWrite) \cup Cons("tryWrite", Ends) : Good(p)
  <2>1. Rests("write") = AfterWrite /\ Rests("tryWrite") = Ends
    BY DEF Rests, Steps1
  <2>2. QED BY <2>1, GoodCons DEF Steps1
<1>9. \A p \in Saves : Good(p)
  <2>1. Rests("save") = Cons("write", AfterWrite)
    BY DEF Rests, Steps1
  <2>2. QED BY <2>1, GoodCons DEF Saves, Steps1
<1>10. \A p \in Cons("fill", Saves) : Good(p)
  <2>1. Rests("fill") = Saves
    BY DEF Rests, Steps1
  <2>2. QED BY <2>1, GoodCons DEF Steps1
<1>11. \A p \in Cons("make", Cons("fill", Saves)) : Good(p)
  <2>1. Rests("make") = Cons("fill", Saves)
    BY DEF Rests, Steps1
  <2>2. QED BY <2>1, GoodCons DEF Steps1
<1>12. QED
  BY <1>1, <1>2, <1>3, <1>4, <1>5, <1>6, <1>7, <1>8, <1>9, <1>10, <1>11 DEF Rests

(* What the requests have to do.                                           *)
LEMMA FirstOf ==
  ASSUME NEW p \in Seq(PhaseName), NEW h \in PhaseName \ (Steps1 \cup {"copy"}),
         p # <<>>, Head(p) = h, Tail(p) \in Rests(h)
  PROVE  Good(p)
BY DEF Good

LEMMA Listed ==
  ASSUME NEW x \in PhaseName, NEW y \in PhaseName, NEW z \in PhaseName
  PROVE  /\ <<x>> \in Seq(PhaseName) /\ <<x, y>> \in Seq(PhaseName)
         /\ <<x, y, z>> \in Seq(PhaseName)
         /\ <<x>> # <<>> /\ Head(<<x>>) = x /\ Tail(<<x>>) = <<>>
         /\ <<x, y>> # <<>> /\ Head(<<x, y>>) = x /\ Tail(<<x, y>>) = <<y>>
         /\ <<x, y, z>> # <<>> /\ Head(<<x, y, z>>) = x /\ Tail(<<x, y, z>>) = <<y, z>>
OBVIOUS

LEMMA InEnds ==
  /\ <<>> \in Ends /\ <<>> \in Stop /\ <<"dropped">> \in Ends
  /\ <<"reload">> \in Cons("reload", Stop) /\ <<"recall", "reload">> \in Closes
  /\ <<"wipeKept">> \in Cons("wipeKept", Stop)
<1>1. <<>> \in Stop /\ <<>> \in Ends
  BY DEF Stop, Ends
<1>2. ASSUME NEW x \in PhaseName PROVE <<x>> \in Cons(x, Stop)
  BY <1>1, Listed DEF Cons
<1>3. ASSUME NEW x \in PhaseName, NEW y \in PhaseName, NEW R, <<y>> \in R
      PROVE  <<x, y>> \in Cons(x, R)
  BY <1>3, Listed DEF Cons
<1>4. /\ <<"dropped">> \in Cons("dropped", Stop) /\ <<"reload">> \in Cons("reload", Stop)
      /\ <<"wipeKept">> \in Cons("wipeKept", Stop)
  BY <1>2, Names
<1>5. <<"recall", "reload">> \in Cons("recall", Cons("reload", Stop))
  BY <1>3, <1>4, Names
<1>6. QED BY <1>1, <1>4, <1>5 DEF Ends, Closes

LEMMA ShortPrograms ==
  /\ Good(<<"publish">>) /\ Good(<<"close", "recall", "reload">>)
  /\ Good(<<"recall">>) /\ Good(<<"wipe", "wipeKept">>)
<1>1. /\ "publish" \in PhaseName /\ "close" \in PhaseName /\ "recall" \in PhaseName
      /\ "reload" \in PhaseName /\ "wipe" \in PhaseName /\ "wipeKept" \in PhaseName
  BY Names
<1>2. {"publish", "close", "recall", "wipe"} \cap (Steps1 \cup {"copy"}) = {}
  BY Names
<1>3. ASSUME NEW x \in PhaseName \ (Steps1 \cup {"copy"}), <<>> \in Rests(x)
      PROVE  Good(<<x>>)
  <2>1. /\ <<x>> \in Seq(PhaseName) /\ <<x>> # <<>>
        /\ Head(<<x>>) = x /\ Tail(<<x>>) = <<>>
    BY <1>3, Listed
  <2>2. QED BY <1>3, <2>1, FirstOf
<1>4. ASSUME NEW x \in PhaseName \ (Steps1 \cup {"copy"}), NEW y \in PhaseName,
             <<y>> \in Rests(x)
      PROVE  Good(<<x, y>>)
  <2>1. /\ <<x, y>> \in Seq(PhaseName) /\ <<x, y>> # <<>>
        /\ Head(<<x, y>>) = x /\ Tail(<<x, y>>) = <<y>>
    BY <1>4, Listed
  <2>2. QED BY <1>4, <2>1, FirstOf
<1>5. ASSUME NEW x \in PhaseName \ (Steps1 \cup {"copy"}), NEW y \in PhaseName,
             NEW z \in PhaseName, <<y, z>> \in Rests(x)
      PROVE  Good(<<x, y, z>>)
  <2>1. /\ <<x, y, z>> \in Seq(PhaseName) /\ <<x, y, z>> # <<>>
        /\ Head(<<x, y, z>>) = x /\ Tail(<<x, y, z>>) = <<y, z>>
    BY <1>5, Listed
  <2>2. QED BY <1>5, <2>1, FirstOf
<1>6. /\ <<>> \in Rests("publish") /\ <<>> \in Rests("recall")
      /\ <<"recall", "reload">> \in Rests("close") /\ <<"wipeKept">> \in Rests("wipe")
  BY RestsAre, InEnds
<1>7. Good(<<"publish">>) /\ Good(<<"recall">>)
  BY <1>1, <1>2, <1>3, <1>6
<1>8. Good(<<"wipe", "wipeKept">>)
  BY <1>1, <1>2, <1>4, <1>6
<1>9. Good(<<"close", "recall", "reload">>)
  BY <1>1, <1>2, <1>5, <1>6
<1>10. QED BY <1>7, <1>8, <1>9

LEMMA LongPrograms ==
  ASSUME NEW A \in {<<>>, <<"publish">>}
  PROVE  /\ \A B \in {<<>>, <<"dropped">>} :
              /\ A \o B \in AfterWrite
              /\ (<<"save", "write">> \o A) \o B = <<"save", "write">> \o (A \o B)
              /\ Good(<<"save", "write">> \o (A \o B))
         /\ A \in AfterWrite
         /\ Good(<<"wipe", "make", "fill", "save", "write">> \o A)
<1>1. /\ "publish" \in PhaseName /\ "dropped" \in PhaseName /\ "save" \in PhaseName
      /\ "write" \in PhaseName /\ "wipe" \in PhaseName /\ "make" \in PhaseName
      /\ "fill" \in PhaseName
  BY Names
<1>2. ASSUME NEW B \in {<<>>, <<"dropped">>}
      PROVE  A \o B \in AfterWrite /\ A \o B \in Seq(PhaseName)
  <2>1. B \in Ends /\ B \in Seq(PhaseName)
    <3>1. <<"dropped">> \in Seq(PhaseName) /\ <<>> \in Seq(PhaseName)
      BY <1>1
    <3>2. QED BY <3>1, InEnds
  <2>2. CASE A = <<>>
    BY <2>1, <2>2 DEF AfterWrite
  <2>3. CASE A = <<"publish">>
    <3>1. <<"publish">> \o B \in Cons("publish", Ends)
      BY <1>1, <2>1, InCons
    <3>2. <<"publish">> \o B \in Seq(PhaseName)
      BY <1>1, <2>1, AddStep
    <3>3. QED BY <2>3, <3>1, <3>2 DEF AfterWrite
  <2>4. QED BY <2>2, <2>3
<1>3. A \in AfterWrite /\ A \in Seq(PhaseName)
  <2>1. A \o <<>> = A
    BY <1>1
  <2>2. QED BY <1>2, <2>1
<1>4. ASSUME NEW r \in AfterWrite, r \in Seq(PhaseName)
      PROVE  /\ Good(<<"save", "write">> \o r) /\ <<"save", "write">> \o r \in Saves
             /\ <<"save", "write">> \o r \in Seq(PhaseName)
  <2>1. /\ <<"write">> \o r \in Cons("write", AfterWrite)
        /\ <<"save", "write">> \o r = <<"save">> \o (<<"write">> \o r)
        /\ <<"save", "write">> \o r \in Seq(PhaseName)
    <3>1. Cons("write", AfterWrite) \subseteq Rests("save")
      BY RestsAre
    <3>2. QED BY <1>1, <1>4, <3>1, TwoSteps, InCons
  <2>2. <<"write">> \o r \in Seq(PhaseName)
    BY <1>1, <1>4, AddStep
  <2>3. <<"save">> \o (<<"write">> \o r) \in Saves
    BY <1>1, <2>1, <2>2, InCons DEF Saves
  <2>4. <<"save", "write">> \o r \in Rests("fill")
    BY <2>1, <2>3, RestsAre
  <2>5. QED BY <2>1, <2>3, <2>4, RestsAreGood
<1>5. \A B \in {<<>>, <<"dropped">>} :
        (<<"save", "write">> \o A) \o B = <<"save", "write">> \o (A \o B)
  OBVIOUS
<1>6. Good(<<"wipe", "make", "fill", "save", "write">> \o A)
  <2> DEFINE s == <<"save", "write">> \o A
  <2>1. s \in Saves /\ s \in Seq(PhaseName)
    BY <1>3, <1>4
  <2>2. <<"wipe", "make", "fill", "save", "write">> \o A = <<"wipe">> \o (<<"make">> \o (<<"fill">> \o s))
    OBVIOUS
  <2> HIDE DEF s
  <2>3. <<"fill">> \o s \in Cons("fill", Saves) /\ <<"fill">> \o s \in Seq(PhaseName)
    BY <1>1, <2>1, InCons, AddStep
  <2>4. <<"make">> \o (<<"fill">> \o s) \in Rests("wipe")
    BY <1>1, <2>3, InCons, RestsAre
  <2>5. <<"make">> \o (<<"fill">> \o s) \in Seq(PhaseName)
    BY <1>1, <2>3, AddStep
  <2>6. Good(<<"wipe">> \o (<<"make">> \o (<<"fill">> \o s)))
    <3>1. "wipe" \in PhaseName \ (Steps1 \cup {"copy"})
      BY <1>1, Names
    <3> DEFINE v == <<"make">> \o (<<"fill">> \o s)
    <3>2. v \in Rests("wipe") /\ v \in Seq(PhaseName)
      BY <2>4, <2>5
    <3> HIDE DEF v
    <3>3. /\ <<"wipe">> \o v \in Seq(PhaseName) /\ <<"wipe">> \o v # <<>>
          /\ Head(<<"wipe">> \o v) = "wipe" /\ Tail(<<"wipe">> \o v) = v
      BY <3>1, <3>2, AddStep
    <3>4. Good(<<"wipe">> \o v)
      BY <3>1, <3>2, <3>3, FirstOf
    <3>5. QED BY <3>4 DEF v
  <2>7. QED BY <2>2, <2>6
<1>7. QED BY <1>2, <1>3, <1>4, <1>5, <1>6

-----------------------------------------------------------------------------
(* Types.                                                                  *)

LEMMA IdleIsLocal == Idle \in Local /\ Nil \in ManifestSet /\ ShapeOf(Idle) /\ Idle.prog = <<>>
<1>1. Nil \in ManifestSet
  BY DEF Nil, Manifest, ManifestSet
<1>2. QED BY <1>1, EmptySteps DEF Idle, Local, Kinds, ShapeOf

(* The state of a goroutine after a step: what the step says, or gone.     *)
LEMMA Becoming ==
  ASSUME Types, NEW t \in Task, NEW l \in Local, ShapeOf(l), Becomes(t, l)
  PROVE  /\ TaskTypes'
         /\ task'[t].prog = l.prog
         /\ l.prog # <<>> => task'[t] = l
         /\ l.prog = <<>> => task'[t] = Idle
         /\ \A u \in Task : u # t => task'[u] = task[u]
<1>1. /\ task' \in [Task -> Local]
      /\ \A u \in Task : u # t => task'[u] = task[u]
      /\ task'[t] = IF l.prog = <<>> THEN Idle ELSE l
  BY IdleIsLocal DEF Becomes, Types, TaskTypes
<1>2. ShapeOf(task'[t]) /\ task'[t].prog = l.prog /\ (task'[t].prog = <<>> => task'[t] = Idle)
  BY <1>1, IdleIsLocal
<1>3. QED BY <1>1, <1>2 DEF Types, TaskTypes, ShapeOf

(* A goroutine at work, and what it has left.                              *)
LEMMA AtWork ==
  ASSUME Types, NEW t \in Task, Phase(t) # "idle"
  PROVE  /\ task[t] \in Local /\ task[t].prog \in Seq(PhaseName) /\ task[t].prog # <<>>
         /\ Phase(t) \in PhaseName /\ Phase(t) = Head(task[t].prog)
         /\ Rest(t) \in Rests(Phase(t)) /\ Good(Rest(t)) /\ Rest(t) \in Seq(PhaseName)
         /\ Phase(t) \in Steps1 \cup {"copy"} => \E s \in Student : task[t].cur = {s}
         /\ \A x : Ahead(t, x) <=> Phase(t) = x \/ In(Rest(t), x)
<1>1. task[t].prog # <<>> /\ task[t] \in Local /\ Phase(t) = Head(task[t].prog)
  BY DEF Types, TaskTypes, Phase
<1>2. task[t].prog \in Seq(PhaseName)
  BY <1>1 DEF Local
<1>3. ShapeOf(task[t])
  BY DEF Types, TaskTypes
<1>4. Rest(t) \in Rests(Phase(t)) /\ Good(Rest(t)) /\ Rest(t) \in Seq(PhaseName)
  BY <1>1, <1>3, RestsAreGood DEF ShapeOf, Rest, Good
<1>5. \A x : Ahead(t, x) <=> Phase(t) = x \/ In(Rest(t), x)
  BY <1>1, <1>2, FirstStep DEF Ahead, Rest
<1>6. Phase(t) \in PhaseName
  BY <1>1, <1>2, FirstStep
<1>7. QED BY <1>1, <1>2, <1>3, <1>4, <1>5, <1>6 DEF ShapeOf

LEMMA GoodShape ==
  ASSUME NEW l, Good(l.prog)
  PROVE  ShapeOf(l)
BY DEF Good, ShapeOf

(* One step, or one step and another, before what is left.                 *)
LEMMA AddShape ==
  ASSUME NEW l, NEW h \in PhaseName, NEW r \in Rests(h),
         h \in Steps1 \cup {"copy"} => \E s \in Student : l.cur = {s},
         l.prog = <<h>> \o r
  PROVE  ShapeOf(l) /\ l.prog \in Seq(PhaseName) /\ l.prog # <<>> /\ Head(l.prog) = h
         /\ Tail(l.prog) = r
<1>1. r \in Seq(PhaseName)
  BY RestsAreGood DEF Good
<1>2. /\ l.prog \in Seq(PhaseName) /\ l.prog # <<>> /\ Head(l.prog) = h
      /\ Tail(l.prog) = r
  BY <1>1, AddStep
<1>3. QED BY <1>2 DEF ShapeOf

LEMMA Going ==
  ASSUME Types, NEW t \in Task, NEW p, Good(p), Goes(t, p)
  PROVE  /\ TaskTypes' /\ task'[t].prog = p
         /\ p # <<>> => task'[t] = [task[t] EXCEPT !.prog = p]
         /\ p = <<>> => task'[t] = Idle
         /\ \A u \in Task : u # t => task'[u] = task[u]
<1> DEFINE l == [task[t] EXCEPT !.prog = p]
<1>1. task[t] \in Local /\ p \in Seq(PhaseName)
  BY DEF Types, TaskTypes, Good
<1>2. l \in Local /\ l.prog = p
  BY <1>1 DEF Local
<1>3. ShapeOf(l)
  BY <1>2, GoodShape
<1>4. Becomes(t, l)
  BY DEF Goes
<1>5. p # <<>> => l = [task[t] EXCEPT !.prog = p]
  OBVIOUS
<1> HIDE DEF l
<1>6. /\ TaskTypes' /\ task'[t].prog = p
      /\ p # <<>> => task'[t] = l
      /\ p = <<>> => task'[t] = Idle
      /\ \A u \in Task : u # t => task'[u] = task[u]
  BY <1>2, <1>3, <1>4, Becoming
<1>7. QED BY <1>5, <1>6

(* The same for a step before what is left.                                *)
LEMMA GoingOn ==
  ASSUME Types, NEW t \in Task, NEW h \in PhaseName, NEW r \in Rests(h),
         h \in Steps1 \cup {"copy"} => \E s \in Student : task[t].cur = {s},
         Goes(t, <<h>> \o r)
  PROVE  /\ TaskTypes' /\ task'[t].prog = <<h>> \o r
         /\ task'[t] = [task[t] EXCEPT !.prog = <<h>> \o r]
         /\ \A u \in Task : u # t => task'[u] = task[u]
<1> DEFINE l == [task[t] EXCEPT !.prog = <<h>> \o r]
<1>1. task[t] \in Local /\ r \in Seq(PhaseName)
  BY RestsAreGood DEF Types, TaskTypes, Good
<1>2. <<h>> \o r \in Seq(PhaseName) /\ <<h>> \o r # <<>>
  BY <1>1, AddStep
<1>3. l \in Local /\ l.prog = <<h>> \o r /\ l.cur = task[t].cur
  BY <1>1, <1>2 DEF Local
<1>4. Becomes(t, l)
  BY DEF Goes
<1> HIDE DEF l
<1>5. ShapeOf(l)
  BY <1>3, AddShape
<1>6. QED BY <1>2, <1>3, <1>4, <1>5, Becoming DEF l

LEMMA TaskTypesStep ==
  ASSUME Types, NEW t \in Task, TaskStep(t)
  PROVE  TaskTypes'
<1>0. Phase(t) # "idle"
  BY DEF TaskStep, ListClass, WalkEnds, PublishLoad, HandOut, CopyStarter, Reopen, Truncate,
     Write, Close, Recall, Collect, Reload, ReconcileNext, ReconcileUser, ReconcileTarget,
     ReconcileGive, ReconcileSnapshot, ReconcileRemove, WipeDir, MakeDir, FillDir,
     TakeBackDropped, WipeKept, WipeHomes, Walks
<1>1. /\ task[t] \in Local /\ task[t].prog \in Seq(PhaseName) /\ task[t].prog # <<>>
      /\ Phase(t) = Head(task[t].prog) /\ Phase(t) \in PhaseName
      /\ Rest(t) \in Rests(Phase(t)) /\ Good(Rest(t)) /\ Rest(t) \in Seq(PhaseName)
      /\ Phase(t) \in Steps1 \cup {"copy"} => \E s \in Student : task[t].cur = {s}
      /\ Good(<<>>) /\ ShapeOf(task[t])
  BY <1>0, AtWork, EmptySteps DEF Good, Types, TaskTypes
<1>2. /\ Load \in ManifestSet /\ Load.classes \subseteq Class
  BY IdleIsLocal DEF Load, Types, ManifestSet
<1>3. ASSUME NEW l \in Local, Becomes(t, l), l.prog = task[t].prog,
             Phase(t) \notin Steps1 \cup {"copy"}
      PROVE  TaskTypes'
  <2>1. ShapeOf(l)
    BY <1>1, <1>3 DEF ShapeOf
  <2>2. QED BY <1>3, <2>1, Becoming
<1>4. ASSUME NEW h \in PhaseName \ (Steps1 \cup {"copy"}), NEW r \in Rests(h), NEW cs,
             cs \subseteq Class, StartWalk(t, <<h>> \o r, cs)
      PROVE  TaskTypes'
  <2> DEFINE l == [task[t] EXCEPT !.prog = <<h>> \o r, !.todo = cs, !.queue = {}, !.seen = {}]
  <2>1. r \in Seq(PhaseName) /\ <<h>> \o r \in Seq(PhaseName)
    BY <1>4, RestsAreGood, AddStep DEF Good
  <2>2. l \in Local /\ l.prog = <<h>> \o r
    BY <1>1, <1>4, <2>1 DEF Local
  <2>3. Becomes(t, l)
    BY <1>4 DEF StartWalk
  <2> HIDE DEF l
  <2>4. ShapeOf(l)
    BY <1>4, <2>2, AddShape
  <2>5. QED BY <2>2, <2>3, <2>4, Becoming
<1>5. CASE ListClass(t)
  <2>1. PICK c \in task[t].todo :
          Becomes(t, [task[t] EXCEPT
                     !.todo = @ \ {c},
                     !.queue = @ \cup ({s \in Student : class[s] = c} \ task[t].seen),
                     !.seen = IF Phase(t) = "takeBack" THEN @
                              ELSE @ \cup ({s \in Student : class[s] = c} \ task[t].seen)])
    BY <1>5 DEF ListClass
  <2> DEFINE l == [task[t] EXCEPT
                     !.todo = @ \ {c},
                     !.queue = @ \cup ({s \in Student : class[s] = c} \ task[t].seen),
                     !.seen = IF Phase(t) = "takeBack" THEN @
                              ELSE @ \cup ({s \in Student : class[s] = c} \ task[t].seen)]
  <2>2. l \in Local /\ l.prog = task[t].prog
    BY <1>1 DEF Local
  <2>3. Phase(t) \notin Steps1 \cup {"copy"}
    BY <1>5 DEF ListClass, Walks, Steps1
  <2>4. QED BY <1>3, <2>1, <2>2, <2>3
<1>6. CASE WalkEnds(t) \/ CopyStarter(t) \/ ReconcileRemove(t) \/ WipeDir(t) \/ MakeDir(t)
           \/ FillDir(t)
  BY <1>1, <1>6, Going DEF WalkEnds, CopyStarter, ReconcileRemove, WipeDir, MakeDir, FillDir
<1>7. CASE PublishLoad(t)
  <2>1. Phase(t) = "publish" /\ Rest(t) \in Ends
    BY <1>1, <1>7, RestsAre DEF PublishLoad
  <2>2. CASE StartWalk(t, <<"handOut", "reopen">> \o Rest(t), Load.classes)
    <3>1. <<"reopen">> \o Rest(t) \in Rests("handOut")
      BY <1>1, <2>1, RestsAre, Names, InCons
    <3>2. <<"handOut", "reopen">> \o Rest(t) = <<"handOut">> \o (<<"reopen">> \o Rest(t))
      <4>1. "handOut" \in PhaseName /\ "reopen" \in PhaseName
        BY DEF PhaseName, Walks
      <4>2. QED BY <1>1, <4>1, PrependTwo
    <3>3. "handOut" \in PhaseName \ (Steps1 \cup {"copy"})
      BY DEF PhaseName, Walks, Steps1
    <3>4. QED BY <1>2, <1>4, <2>2, <3>1, <3>2, <3>3
  <2>3. CASE Goes(t, Rest(t))
    BY <1>1, <2>3, Going
  <2>4. QED BY <1>7, <2>2, <2>3 DEF PublishLoad
<1>8. ASSUME NEW l \in Local, Becomes(t, l), NEW h \in PhaseName, NEW r \in Rests(h),
             l.prog = <<h>> \o r,
             h \in Steps1 \cup {"copy"} => \E s \in Student : l.cur = {s}
      PROVE  TaskTypes'
  BY <1>8, AddShape, Becoming
<1>9. CASE HandOut(t)
  <2>1. PICK s \in task[t].queue :
       Becomes(t, [task[t] EXCEPT
                     !.queue = @ \ {s},
                     !.cur = {s},
                     !.prog = IF home[s] \in {"none", "bare"} THEN <<"copy">> \o @ ELSE @])
    BY <1>9 DEF HandOut
  <2> DEFINE l == [task[t] EXCEPT
                     !.queue = @ \ {s},
                     !.cur = {s},
                     !.prog = IF home[s] \in {"none", "bare"} THEN <<"copy">> \o @ ELSE @]
  <2>2. Phase(t) = "handOut" /\ Phase(t) \notin Steps1 \cup {"copy"}
    BY <1>9 DEF HandOut, Steps1
  <2>3. task[t].prog \in Rests("copy")
    <3>1. Rest(t) \in Cons("reopen", Ends)
      BY <1>1, <2>2, RestsAre
    <3>2. task[t].prog \in HandingOut
      BY <1>1, <2>2, <3>1 DEF HandingOut, Cons, Rest
    <3>3. QED BY <3>2, RestsAre
  <2>4. s \in Student /\ <<"copy">> \o task[t].prog \in Seq(PhaseName)
    BY <1>1, Names, AddStep DEF Local
  <2>5. /\ l \in Local /\ l.cur = {s}
        /\ l.prog = task[t].prog \/ l.prog = <<"copy">> \o task[t].prog
    BY <1>1, <2>4 DEF Local
  <2> HIDE DEF l
  <2>6. Becomes(t, l)
    BY <2>1 DEF l
  <2>7. CASE l.prog = task[t].prog
    BY <1>3, <2>2, <2>5, <2>6, <2>7
  <2>8. CASE l.prog = <<"copy">> \o task[t].prog
    BY <1>8, <2>3, <2>4, <2>5, <2>6, <2>8, Names
  <2>9. QED BY <2>5, <2>7, <2>8
<1>10. CASE Reopen(t)
  <2>1. CASE Goes(t, Rest(t))
    BY <1>1, <2>1, Going
  <2> DEFINE l == [task[t] EXCEPT !.prog = <<"trySave", "tryWrite">> \o Rest(t),
                                  !.m = [Load EXCEPT !.closed = FALSE]]
  <2>2. CASE Becomes(t, l)
    <3>1. Phase(t) = "reopen" /\ Rest(t) \in Ends
      BY <1>1, <1>10, RestsAre DEF Reopen
    <3>2. /\ <<"tryWrite">> \o Rest(t) \in Rests("trySave")
          /\ <<"trySave", "tryWrite">> \o Rest(t) = <<"trySave">> \o (<<"tryWrite">> \o Rest(t))
          /\ <<"trySave", "tryWrite">> \o Rest(t) \in Seq(PhaseName)
      <4>1. "trySave" \in PhaseName /\ "tryWrite" \in PhaseName
        BY Names
      <4>2. Cons("tryWrite", Ends) \subseteq Rests("trySave")
        BY RestsAre
      <4>3. Rest(t) \in Ends /\ Rest(t) \in Seq(PhaseName)
        BY <1>1, <3>1
      <4>4. QED BY <4>1, <4>2, <4>3, TwoSteps
    <3>3. [Load EXCEPT !.closed = FALSE] \in ManifestSet
      BY <1>2 DEF ManifestSet
    <3>4. l \in Local /\ l.prog = <<"trySave", "tryWrite">> \o Rest(t)
      BY <1>1, <3>2, <3>3 DEF Local
    <3> HIDE DEF l
    <3>5. QED BY <1>8, <2>2, <3>2, <3>4, Names
  <2>3. QED BY <1>10, <2>1, <2>2 DEF Reopen
<1>11. CASE Truncate(t)
  <2>1. Good(Tail(Rest(t)))
    <3>1. Rest(t) \in Cons("write", AfterWrite) \cup Cons("tryWrite", Ends)
      BY <1>1, <1>11, RestsAre DEF Truncate
    <3>2. Tail(Rest(t)) \in AfterWrite
      BY <3>1 DEF Cons, AfterWrite
    <3>3. QED BY <3>2, RestsAre, RestsAreGood
  <2>2. Goes(t, Rest(t)) \/ Goes(t, <<>>) \/ Goes(t, Tail(Rest(t)))
    BY <1>11 DEF Truncate, SaveFails
  <2>3. QED BY <1>1, <2>1, <2>2, Going
<1>22. CASE Write(t)
  <2>1. Goes(t, Rest(t)) \/ Goes(t, <<>>)
    BY <1>22 DEF Write, SaveFails
  <2>2. QED BY <1>1, <2>1, Going
<1>12. CASE Close(t)
  <2>1. CASE Goes(t, <<>>)
    BY <1>1, <2>1, Going
  <2> DEFINE l == [task[t] EXCEPT !.prog = <<"save", "write">> \o Rest(t),
                                  !.m = [Load EXCEPT !.closed = TRUE]]
  <2>2. CASE Becomes(t, l)
    <3>1. Phase(t) = "close" /\ Rest(t) \in AfterWrite
      BY <1>1, <1>12, RestsAre DEF Close, AfterWrite
    <3>2. /\ <<"write">> \o Rest(t) \in Rests("save")
          /\ <<"save", "write">> \o Rest(t) = <<"save">> \o (<<"write">> \o Rest(t))
          /\ <<"save", "write">> \o Rest(t) \in Seq(PhaseName)
      <4>1. "save" \in PhaseName /\ "write" \in PhaseName
        BY Names
      <4>2. Cons("write", AfterWrite) \subseteq Rests("save")
        BY RestsAre
      <4>3. Rest(t) \in AfterWrite /\ Rest(t) \in Seq(PhaseName)
        BY <1>1, <3>1
      <4>4. QED BY <4>1, <4>2, <4>3, TwoSteps
    <3>3. [Load EXCEPT !.closed = TRUE] \in ManifestSet
      BY <1>2 DEF ManifestSet
    <3>4. l \in Local /\ l.prog = <<"save", "write">> \o Rest(t)
      BY <1>1, <3>2, <3>3 DEF Local
    <3> HIDE DEF l
    <3>5. QED BY <1>8, <2>2, <3>2, <3>4, Names
  <2>3. QED BY <1>12, <2>1, <2>2 DEF Close
<1>13. CASE Recall(t) \/ Reload(t) \/ TakeBackDropped(t)
  <2>1. CASE Goes(t, Rest(t))
    BY <1>1, <2>1, Going
  <2>2. ASSUME NEW h \in {"collect", "reconcile", "takeBack"}, NEW cs, cs \subseteq Class,
               Rest(t) \in Rests(h), StartWalk(t, <<h>> \o Rest(t), cs)
        PROVE  TaskTypes'
    BY <1>4, <2>2, Names
  <2>3. task[t].dropped \subseteq Class
    BY <1>1 DEF Local
  <2>4. /\ Phase(t) = "recall" => Rest(t) \in Rests("collect")
        /\ Phase(t) = "reload" => Rest(t) \in Rests("reconcile")
        /\ Phase(t) = "dropped" => Rest(t) \in Rests("takeBack")
    BY <1>1, RestsAre
  <2>5. QED BY <1>2, <1>13, <2>1, <2>2, <2>3, <2>4 DEF Recall, Reload, TakeBackDropped
<1>14. CASE Collect(t) \/ (WipeHomes(t) /\ ~Goes(t, Rest(t)))
  <2>1. PICK s \in task[t].queue : Becomes(t, [task[t] EXCEPT !.queue = @ \ {s}])
    BY <1>14 DEF Collect, WipeHomes
  <2> DEFINE l == [task[t] EXCEPT !.queue = @ \ {s}]
  <2>2. l \in Local /\ l.prog = task[t].prog
    BY <1>1 DEF Local
  <2>3. Phase(t) \notin Steps1 \cup {"copy"}
    BY <1>14 DEF Collect, WipeHomes, Steps1
  <2>4. QED BY <1>3, <2>1, <2>2, <2>3
<1>15. CASE WipeHomes(t) /\ Goes(t, Rest(t))
  BY <1>1, <1>15, Going
<1>16. CASE ReconcileNext(t)
  <2>1. PICK s \in task[t].queue :
       Becomes(t, [task[t] EXCEPT !.queue = @ \ {s}, !.cur = {s}, !.prog = <<"user">> \o @])
    BY <1>16 DEF ReconcileNext
  <2> DEFINE l == [task[t] EXCEPT !.queue = @ \ {s}, !.cur = {s}, !.prog = <<"user">> \o @]
  <2>2. task[t].prog \in Rests("user")
    <3>1. Rest(t) \in Stop
      BY <1>1, <1>16, RestsAre DEF ReconcileNext
    <3>2. task[t].prog \in Loop
      BY <1>1, <1>16, <3>1 DEF ReconcileNext, Loop, Cons, Rest
    <3>3. QED BY <3>2, RestsAre, Names
  <2>3. s \in Student /\ <<"user">> \o task[t].prog \in Seq(PhaseName)
    BY <1>1, Names, AddStep DEF Local
  <2>4. l \in Local /\ l.cur = {s} /\ l.prog = <<"user">> \o task[t].prog
    BY <1>1, <2>3 DEF Local
  <2> HIDE DEF l
  <2>5. Becomes(t, l)
    BY <2>1 DEF l
  <2>6. QED BY <1>8, <2>2, <2>3, <2>4, <2>5, Names
<1>17. ASSUME NEW h \in Steps1 \cup {"copy"}, Phase(t) \in Steps1, Goes(t, <<h>> \o Rest(t))
       PROVE  TaskTypes'
  <2>1. Rest(t) \in Rests(h) /\ h \in PhaseName
    BY <1>1, <1>17, RestsAre, Names
  <2>2. QED BY <1>1, <1>17, <2>1, GoingOn
<1>18. CASE ReconcileUser(t)
  <2>1. CASE Goes(t, Rest(t))
    BY <1>1, <2>1, Going
  <2> DEFINE l == [task[t] EXCEPT !.prog = <<"target">> \o Rest(t), !.cls = class[Cur(t)]]
  <2>2. CASE Becomes(t, l)
    <3>1. Phase(t) \in Steps1 /\ Phase(t) = "user"
      BY <1>18 DEF ReconcileUser, Steps1
    <3>2. Rest(t) \in Rests("target") /\ "target" \in PhaseName
      BY <1>1, <3>1, RestsAre, Names
    <3>3. <<"target">> \o Rest(t) \in Seq(PhaseName)
      BY <1>1, <3>2, AddStep
    <3>4. PICK s \in Student : task[t].cur = {s}
      BY <1>1, <3>1
    <3>5. class[Cur(t)] \in Class \cup {NoClass, NoAccount}
      BY <3>4 DEF Cur, Types
    <3>6. l \in Local /\ l.cur = {s} /\ l.prog = <<"target">> \o Rest(t)
      BY <1>1, <3>3, <3>4, <3>5 DEF Local
    <3> HIDE DEF l
    <3>7. QED BY <1>8, <2>2, <3>2, <3>6
  <2>3. QED BY <1>18, <2>1, <2>2 DEF ReconcileUser
<1>19. CASE ReconcileTarget(t) \/ ReconcileGive(t) \/ ReconcileSnapshot(t)
  <2>1. Phase(t) \in Steps1
    BY <1>19 DEF ReconcileTarget, ReconcileGive, ReconcileSnapshot, Steps1
  <2>2. <<>> \o Rest(t) = Rest(t)
    BY <1>1
  <2>3. CASE ReconcileTarget(t)
    <3>1. Goes(t, <<"give">> \o Rest(t)) \/ Goes(t, <<"snapshot">> \o Rest(t))
      BY <2>3 DEF ReconcileTarget
    <3>2. QED BY <1>17, <2>1, <3>1, Names
  <2>4. CASE ReconcileGive(t)
    <3>1. Goes(t, <<"copy">> \o Rest(t)) \/ Goes(t, Rest(t))
      BY <2>2, <2>4 DEF ReconcileGive
    <3>2. QED BY <1>1, <1>17, <2>1, <3>1, Going
  <2>5. CASE ReconcileSnapshot(t)
    <3>1. Goes(t, <<"remove">> \o Rest(t)) \/ Goes(t, Rest(t))
      BY <2>5 DEF ReconcileSnapshot
    <3>2. QED BY <1>1, <1>17, <2>1, <3>1, Going, Names
  <2>6. QED BY <1>19, <2>3, <2>4, <2>5
<1>20. CASE WipeKept(t)
  <2> DEFINE l == [task[t] EXCEPT !.prog = <<"wipeHomes">> \o Rest(t),
                                  !.queue = {s \in Student : class[s] # NoAccount}]
  <2>1. Rest(t) \in Rests("wipeHomes") /\ "wipeHomes" \in PhaseName
    BY <1>1, <1>20, RestsAre, Names DEF WipeKept
  <2>2. <<"wipeHomes">> \o Rest(t) \in Seq(PhaseName)
    BY <1>1, <2>1, AddStep
  <2>3. l \in Local /\ l.prog = <<"wipeHomes">> \o Rest(t)
    BY <1>1, <2>2 DEF Local
  <2>4. Becomes(t, l)
    BY <1>20 DEF WipeKept
  <2> HIDE DEF l
  <2>5. QED BY <1>8, <2>1, <2>3, <2>4, Names
<1>21. QED
  BY <1>5, <1>6, <1>7, <1>9, <1>10, <1>11, <1>22, <1>12, <1>13, <1>14, <1>15, <1>16, <1>18,
     <1>19, <1>20 DEF TaskStep

(* A goroutine that starts to serve a request.                             *)
LEMMA Serving ==
  ASSUME Types, NEW t \in Task, NEW k \in Kinds, NEW p, p # <<>>, Good(p), Serve(t, k, p)
  PROVE  /\ TaskTypes' /\ task'[t] = [Idle EXCEPT !.kind = k, !.prog = p]
         /\ \A u \in Task : u # t => task'[u] = task[u]
<1> DEFINE l == [Idle EXCEPT !.kind = k, !.prog = p]
<1>1. l \in Local /\ l.prog = p
  BY IdleIsLocal DEF Local, Good, Idle
<1>2. Becomes(t, l)
  BY DEF Serve
<1> HIDE DEF l
<1>3. ShapeOf(l)
  BY <1>1, GoodShape
<1>4. TaskTypes' /\ task'[t] = l /\ \A u \in Task : u # t => task'[u] = task[u]
  BY <1>1, <1>2, <1>3, Becoming
<1>5. QED BY <1>4 DEF l

LEMMA ServingSettings ==
  ASSUME Types, NEW t \in Task, NEW cs \in SUBSET Class, HandleSettings(t, cs)
  PROVE  LET m == IF cs = {} THEN Load ELSE [Load EXCEPT !.classes = cs]
             r == (IF cs # {} /\ ~m.closed THEN <<"publish">> ELSE <<>>)
                    \o (IF cs # {} THEN <<"dropped">> ELSE <<>>) IN
         /\ TaskTypes' /\ m \in ManifestSet /\ r \in AfterWrite
         /\ task'[t] = [Idle EXCEPT !.kind = "settings", !.m = m,
                         !.dropped = Load.classes \ m.classes,
                         !.prog = <<"save", "write">> \o r]
         /\ \A u \in Task : u # t => task'[u] = task[u]
<1> DEFINE m == IF cs = {} THEN Load ELSE [Load EXCEPT !.classes = cs]
           A == IF cs # {} /\ ~m.closed THEN <<"publish">> ELSE <<>>
           B == IF cs # {} THEN <<"dropped">> ELSE <<>>
           l == [Idle EXCEPT !.kind = "settings", !.m = m,
                             !.dropped = Load.classes \ m.classes,
                             !.prog = <<"save", "write">> \o (A \o B)]
<1>1. Load \in ManifestSet /\ m \in ManifestSet /\ Load.classes \subseteq Class
  BY IdleIsLocal DEF Load, Types, ManifestSet
<1>2. A \in {<<>>, <<"publish">>} /\ B \in {<<>>, <<"dropped">>}
  OBVIOUS
<1>3. Becomes(t, [Idle EXCEPT !.kind = "settings", !.m = m,
                              !.dropped = Load.classes \ m.classes,
                              !.prog = (<<"save", "write">> \o A) \o B])
  BY DEF HandleSettings
<1> HIDE DEF A, B, m
<1>4. /\ A \o B \in AfterWrite /\ (<<"save", "write">> \o A) \o B = <<"save", "write">> \o (A \o B)
      /\ Good(<<"save", "write">> \o (A \o B))
  BY <1>2, LongPrograms
<1>5. Becomes(t, l)
  BY <1>3, <1>4
<1>6. A \o B \in Seq(PhaseName)
  <2>1. \A r \in AfterWrite : r \in Seq(PhaseName)
    BY RestsAre, RestsAreGood DEF Good
  <2>2. QED BY <1>4, <2>1
<1>7. /\ <<"save", "write">> \o (A \o B) \in Seq(PhaseName)
      /\ <<"save", "write">> \o (A \o B) # <<>>
  BY <1>6, Names, AddTwoSteps
<1>8. l \in Local /\ l.prog = <<"save", "write">> \o (A \o B)
  BY <1>1, <1>7, IdleIsLocal DEF Local, Idle, Kinds
<1> HIDE DEF l
<1>9. ShapeOf(l)
  BY <1>4, <1>8, GoodShape
<1>10. TaskTypes' /\ task'[t] = l /\ \A u \in Task : u # t => task'[u] = task[u]
  BY <1>5, <1>7, <1>8, <1>9, Becoming
<1>11. QED BY <1>1, <1>4, <1>10 DEF A, B, l, m

LEMMA ServingCreate ==
  ASSUME Types, NEW t \in Task, NEW cs \in SUBSET Class, HandleCreate(t, cs)
  PROVE  LET A == IF Load.closed THEN <<>> ELSE <<"publish">> IN
         /\ TaskTypes'
         /\ task'[t] = [Idle EXCEPT !.kind = "create", !.m = Manifest("saved", cs, Load.closed),
                         !.prog = <<"wipe", "make", "fill", "save", "write">> \o A]
         /\ \A u \in Task : u # t => task'[u] = task[u]
<1> DEFINE A == IF Load.closed THEN <<>> ELSE <<"publish">>
           m == Manifest("saved", cs, Load.closed)
           p == <<"wipe", "make", "fill", "save", "write">> \o A
           l == [Idle EXCEPT !.kind = "create", !.m = m, !.prog = p]
<1>1. m \in ManifestSet /\ m.closed = Load.closed
  BY IdleIsLocal DEF Load, Types, ManifestSet, Manifest
<1>2. Becomes(t, l)
  BY <1>1 DEF HandleCreate, KeepPublishState
<1>3. Good(p) /\ p # <<>>
  <2>1. A \in {<<>>, <<"publish">>}
    OBVIOUS
  <2> HIDE DEF A
  <2>2. Good(p)
    BY <2>1, LongPrograms
  <2>3. p # <<>>
    BY <2>1
  <2>4. QED BY <2>2, <2>3
<1> HIDE DEF p, m
<1>4. l \in Local /\ l.prog = p
  BY <1>1, <1>3, IdleIsLocal DEF Local, Idle, Kinds, Good
<1> HIDE DEF l
<1>5. ShapeOf(l)
  BY <1>3, <1>4, GoodShape
<1>6. TaskTypes' /\ task'[t] = l /\ \A u \in Task : u # t => task'[u] = task[u]
  BY <1>2, <1>3, <1>4, <1>5, Becoming
<1>7. QED BY <1>6 DEF l, p, m

LEMMA ServingEnroll ==
  ASSUME Types, NEW t \in Task, NEW s \in Student, NEW c, HandleEnroll(t, s, c)
  PROVE  /\ TaskTypes'
         /\ task'[t] = [Idle EXCEPT !.kind = "enroll", !.prog = <<"user">>, !.cur = {s}]
         /\ \A u \in Task : u # t => task'[u] = task[u]
<1> DEFINE l == [Idle EXCEPT !.kind = "enroll", !.prog = <<"user">>, !.cur = {s}]
<1>1. Becomes(t, l)
  BY DEF HandleEnroll
<1>2. /\ <<"user">> \in Seq(PhaseName) /\ <<"user">> # <<>>
      /\ Head(<<"user">>) = "user" /\ Tail(<<"user">>) = <<>>
  BY Names, Listed
<1>3. l \in Local /\ l.prog = <<"user">> /\ l.cur = {s}
  BY <1>2, IdleIsLocal DEF Local, Idle, Kinds
<1>4. ShapeOf(l)
  <2>1. <<>> \in Rests("user")
    BY RestsAre, Names, InEnds DEF Loop
  <2> HIDE DEF l
  <2>2. QED BY <1>2, <1>3, <2>1 DEF ShapeOf
<1> HIDE DEF l
<1>5. TaskTypes' /\ task'[t] = l /\ \A u \in Task : u # t => task'[u] = task[u]
  BY <1>1, <1>2, <1>3, <1>4, Becoming
<1>6. QED BY <1>5 DEF l

LEMMA RequestTaskTypes ==
  ASSUME Types, NEW t \in Task, HandleRequest(t)
  PROVE  TaskTypes'
<1>1. CASE HandlePublish(t) \/ HandleUnpublish(t) \/ HandleRecall(t) \/ HandleDelete(t)
  <2>1. \E k \in Kinds : \E p : p # <<>> /\ Good(p) /\ Serve(t, k, p)
    <3>1. /\ <<"publish">> # <<>> /\ <<"close", "recall", "reload">> # <<>>
          /\ <<"recall">> # <<>> /\ <<"wipe", "wipeKept">> # <<>>
      OBVIOUS
    <3>2. {"publish", "unpublish", "recall", "delete"} \subseteq Kinds
      BY DEF Kinds
    <3>3. \/ Serve(t, "publish", <<"publish">>)
          \/ Serve(t, "unpublish", <<"close", "recall", "reload">>)
          \/ Serve(t, "recall", <<"recall">>)
          \/ Serve(t, "delete", <<"wipe", "wipeKept">>)
      BY <1>1 DEF HandlePublish, HandleUnpublish, HandleRecall, HandleDelete
    <3>4. QED BY <3>1, <3>2, <3>3, ShortPrograms
  <2>2. QED BY <2>1, Serving
<1>2. CASE \E cs \in SUBSET Class : HandleSettings(t, cs)
  BY <1>2, ServingSettings
<1>3. CASE \E cs \in SUBSET Class \ {{}} : HandleCreate(t, cs)
  BY <1>3, ServingCreate
<1>4. CASE \E s \in Student, c \in Class \cup {NoClass} : HandleEnroll(t, s, c)
  BY <1>4, ServingEnroll
<1>5. CASE UNCHANGED task
  BY <1>5 DEF Types, TaskTypes, ShapeOf
<1>6. QED
  BY <1>1, <1>2, <1>3, <1>4, <1>5 DEF HandleRequest, HandleDelClass, HandleDelStudent

(* The files, and what the history says of the requests.                   *)
FileTypes ==
  /\ manifest \in ManifestSet
  /\ dir \in {"none", "bare", "ready"} /\ (dir = "none" => manifest = Nil)
  /\ class \in [Student -> Class \cup {NoClass, NoAccount}]
  /\ home \in [Student -> Content] /\ kept \in [Student -> Content]
  /\ wasClosed \in BOOLEAN

LEMMA CopiesAreContent ==
  ASSUME NEW a \in Content, NEW b \in Content, NEW c \in Copies(a, b)
  PROVE  c \in Content
BY DEF Copies, Overlay, Content

LEMMA StarterIsContent == Starter \in Content
BY DEF Starter, Content

LEMMA CurIsStudent ==
  ASSUME Types, NEW t \in Task, Phase(t) \in Steps1 \cup {"copy"}
  PROVE  Cur(t) \in Student /\ task[t].cur = {Cur(t)}
<1>1. Phase(t) # "idle"
  BY Names
<1>2. PICK s \in Student : task[t].cur = {s}
  BY <1>1, AtWork
<1>3. QED BY <1>2 DEF Cur

LEMMA FileTypesStep ==
  ASSUME Types, AssignNext
  PROVE  FileTypes'
<1>1. FileTypes
  BY DEF Types, FileTypes
<1> USE <1>1 DEF FileTypes
<1>2. {"none", "bare", "starter", "work"} \subseteq Content
  BY DEF Content
<1>3. ASSUME UNCHANGED <<fileVars, wasClosed>> PROVE FileTypes'
  BY <1>3 DEF fileVars
<1>4. ASSUME NEW t \in Task, TaskStep(t) PROVE FileTypes'
  <2>1. CASE CopyStarter(t)
    <3>1. Cur(t) \in Student
      BY <2>1, CurIsStudent DEF CopyStarter
    <3>2. PICK c \in Copies(home[Cur(t)], Starter) : home' = [home EXCEPT ![Cur(t)] = c]
      BY <2>1 DEF CopyStarter
    <3>3. home' \in [Student -> Content]
      BY <3>1, <3>2, CopiesAreContent, StarterIsContent
    <3>4. QED BY <2>1, <3>3 DEF CopyStarter
  <2>2. CASE Truncate(t)
    <3>1. Manifest("empty", {}, TRUE) \in ManifestSet
      BY DEF Manifest, ManifestSet
    <3>2. /\ wasClosed' = wasClosed
          /\ \/ manifest' = manifest
             \/ manifest' = Manifest("empty", {}, TRUE) /\ dir # "none"
      BY <2>2 DEF Truncate, SaveFails
    <3>3. QED BY <2>2, <3>1, <3>2 DEF Truncate
  <2>3. CASE Write(t)
    <3>1. Phase(t) # "idle"
      BY <2>3 DEF Write
    <3>2. task[t].m \in ManifestSet
      BY <3>1, AtWork DEF Local
    <3>3. CASE UNCHANGED <<manifest, wasClosed>>
      BY <2>3, <3>3 DEF Write
    <3>4. CASE /\ manifest' \in Written(task[t].m)
               /\ wasClosed' = IF manifest'.file = "saved" THEN manifest'.closed ELSE wasClosed
      <4>1. manifest' \in {manifest, task[t].m, Manifest("garbled", {}, TRUE)}
        BY <3>4 DEF Written
      <4>2. Manifest("garbled", {}, TRUE) \in ManifestSet
        BY DEF Manifest, ManifestSet
      <4>3. manifest' \in ManifestSet
        BY <3>2, <4>1, <4>2
      <4>4. dir = "none" => manifest' = Nil
        BY <3>4 DEF Written, Nil, Manifest
      <4>5. wasClosed' \in BOOLEAN
        BY <3>4, <4>3 DEF ManifestSet
      <4>6. QED BY <2>3, <4>3, <4>4, <4>5 DEF Write
    <3>5. QED BY <2>3, <3>3, <3>4 DEF Write, SaveFails
  <2>4. CASE Recall(t)
    BY <1>2, <2>4 DEF Recall
  <2>5. CASE Collect(t)
    <3>1. PICK s \in task[t].queue : \E c \in Copies(kept[s], home[s]) :
            kept' = [kept EXCEPT ![s] = c]
      BY <2>5 DEF Collect
    <3>2. s \in Student
      BY DEF Types, TaskTypes, Local
    <3>3. PICK c \in Copies(kept[s], home[s]) : kept' = [kept EXCEPT ![s] = c]
      BY <3>1
    <3>4. c \in Content
      BY <3>2, <3>3, CopiesAreContent
    <3>5. kept' \in [Student -> Content]
      BY <3>3, <3>4
    <3>6. QED BY <2>5, <3>5 DEF Collect
  <2>6. CASE ReconcileSnapshot(t)
    <3>1. Cur(t) \in Student
      BY <2>6, CurIsStudent, Names DEF ReconcileSnapshot
    <3>2. kept' \in [Student -> Content]
      BY <2>6, <3>1, CopiesAreContent DEF ReconcileSnapshot
    <3>3. QED BY <2>6, <3>2 DEF ReconcileSnapshot
  <2>7. CASE ReconcileRemove(t) \/ WipeHomes(t) \/ WipeKept(t)
    BY <1>2, <2>7 DEF ReconcileRemove, WipeHomes, WipeKept
  <2>8. CASE WipeDir(t) \/ MakeDir(t) \/ FillDir(t)
    BY <2>8, IdleIsLocal DEF WipeDir, MakeDir, FillDir
  <2>9. QED
    BY <1>3, <1>4, <2>1, <2>2, <2>3, <2>4, <2>5, <2>6, <2>7, <2>8
    DEF TaskStep, ListClass, WalkEnds, PublishLoad, HandOut, Reopen, Close, Reload,
        ReconcileNext, ReconcileUser, ReconcileTarget, ReconcileGive, TakeBackDropped
<1>5. ASSUME NEW t \in Task, HandleRequest(t) PROVE FileTypes'
  <2>1. UNCHANGED <<manifest, dir, home, kept, wasClosed>>
    BY <1>5 DEF HandleRequest, HandlePublish, HandleUnpublish, HandleRecall, HandleDelete,
       HandleSettings, HandleCreate, HandleEnroll, HandleDelClass, HandleDelStudent, fileVars
  <2>2. class' \in [Student -> Class \cup {NoClass, NoAccount}]
    BY <1>5 DEF HandleRequest, HandlePublish, HandleUnpublish, HandleRecall, HandleDelete,
       HandleSettings, HandleCreate, HandleEnroll, HandleDelClass, HandleDelStudent, fileVars
  <2>3. QED BY <2>1, <2>2
<1>6. ASSUME NEW s \in Student, StudentSaves(s) \/ StudentDeletes(s) PROVE FileTypes'
  BY <1>2, <1>6 DEF StudentSaves, StudentDeletes
<1>7. QED BY <1>4, <1>5, <1>6 DEF AssignNext

LEMMA NoteTypes ==
  ASSUME Types, AssignNext
  PROVE  /\ crossed' \subseteq Task
         /\ touched' \in [Task -> SUBSET Student] /\ broke' \in [Task -> SUBSET Student]
<1>1. PICK own : Note(own)
  BY DEF AssignNext
<1>2. Disturbed \subseteq Student
  BY DEF Disturbed
<1>3. \A t \in Task : BreaksOff(t) \subseteq Student
  BY DEF BreaksOff, Types, TaskTypes, Local
<1>4. crossed' \subseteq Task
  BY <1>1 DEF Note
<1>5. touched' \in [Task -> SUBSET Student]
  BY <1>1, <1>2 DEF Note, Types
<1>6. broke' \in [Task -> SUBSET Student]
  BY <1>1, <1>3 DEF Note, Types
<1>7. QED BY <1>4, <1>5, <1>6

LEMMA TypesStep ==
  ASSUME Types, [AssignNext]_assignVars
  PROVE  Types'
<1>1. CASE AssignNext
  <2>1. TaskTypes'
    <3>1. CASE UNCHANGED task
      BY <3>1 DEF Types, TaskTypes, ShapeOf
    <3>2. QED
      BY <1>1, <3>1, TaskTypesStep, RequestTaskTypes DEF AssignNext, StudentSaves, StudentDeletes
  <2>2. FileTypes' /\ Types
    BY <1>1, FileTypesStep
  <2>3. QED BY <1>1, <2>1, <2>2, NoteTypes DEF Types, FileTypes
<1>2. CASE UNCHANGED assignVars
  BY <1>2 DEF assignVars, fileVars, noteVars, Types, TaskTypes, ShapeOf
<1>3. QED BY <1>1, <1>2

LEMMA InitTypes == AssignInit => Types
<1>1. SUFFICES ASSUME AssignInit PROVE Types
  OBVIOUS
<1>2. manifest \in ManifestSet /\ dir \in {"none", "ready"} /\ (dir = "none" => manifest = Nil)
  <2>1. \A cs \in SUBSET Class, closed \in BOOLEAN : Manifest("saved", cs, closed) \in ManifestSet
    BY DEF Manifest, ManifestSet
  <2>2. QED BY <1>1, <2>1, IdleIsLocal DEF AssignInit
<1>5. wasClosed \in BOOLEAN
  BY <1>1, <1>2, IdleIsLocal DEF AssignInit, Load, ManifestSet
<1>3. TaskTypes
  BY <1>1, IdleIsLocal DEF AssignInit, TaskTypes
<1>4. QED BY <1>1, <1>2, <1>3, <1>5 DEF AssignInit, Types, Content

LEMMA TypesAlways == AssignSpec => []Types
BY InitTypes, TypesStep, PTL DEF AssignSpec

(* The variables hold what the code keeps in them, with any number of      *)
(* requests under way at once, as net/http serves them.                    *)
THEOREM AssignTypeCorrect == AssignSpec => []AssignTypeOK
<1>1. Types => AssignTypeOK
  BY DEF Types, TaskTypes, Local, ManifestSet, AssignTypeOK
<1>2. QED BY <1>1, TypesAlways, PTL

-----------------------------------------------------------------------------
(* Any number of requests at once.  What each relies on is that no other   *)
(* step reaches those the history calls undisturbed; so nothing below has  *)
(* to be said of what the other requests are doing.                        *)

Calm(t) == Student \ touched[t]
Sound(t) == Student \ (touched[t] \cup broke[t])

FileInv == manifest.file = "saved" => wasClosed = manifest.closed

CrossInv(t) == t \in crossed => touched[t] = Student

(* Only a request that publishes will write an open manifest where the     *)
(* last one was closed.                                                    *)
SaveInv(t) ==
  t \notin crossed =>
    /\ Phase(t) \in {"write", "tryWrite"} => manifest.file = "empty"
    /\ task[t].kind # "publish" =>
         /\ ~task[t].m.closed => ~wasClosed
         /\ Ahead(t, "publish") \/ Ahead(t, "reopen") => ~task[t].m.closed

(* A student is looked at once.                                            *)
WalkInv(t) == \A s \in task[t].seen \ touched[t] : class[s] \notin task[t].todo

(* Who is still to get the folder.                                         *)
HandInv(t) ==
  Ahead(t, "handOut") /\ dir = "ready" =>
    \A s \in Sound(t) : class[s] \in Load.classes =>
      \/ home[s] \in {"starter", "work"}
      \/ class[s] \in task[t].todo \/ s \in task[t].queue
      \/ Phase(t) = "copy" /\ s \in task[t].cur

(* The steps of Unpublish, and whose folder is still to be taken back.     *)
ForOne == Steps1 \cup {"copy"}

UnpublishSteps(h) ==
  CASE h = "close" -> Closes
    [] h = "save" -> Cons("write", Closes)
    [] h = "write" -> Closes
    [] h \in {"recall", "collect"} -> Cons("reload", Stop)
    [] h \in {"reload", "reconcile"} -> Stop
    [] h \in ForOne -> Cons("reconcile", Stop)
    [] OTHER -> {}

UnpublishFlags(t) ==
  t \notin crossed =>
    /\ Phase(t) \in {"save", "write"} => task[t].m.closed
    /\ Phase(t) \notin {"close", "save", "write"} => Load.closed
    /\ Phase(t) \notin {"give", "copy"}

ToTakeBack(t) ==
  Phase(t) \in {"reconcile"} \cup ForOne =>
    \A s \in Calm(t) : class[s] \in Load.classes =>
      \/ home[s] = "none"
      \/ class[s] \in task[t].todo \/ s \in task[t].queue
      \/ Phase(t) # "reconcile" /\ s \in task[t].cur

UnpublishInv(t) ==
  task[t].kind = "unpublish" =>
    Rest(t) \in UnpublishSteps(Phase(t)) /\ UnpublishFlags(t) /\ ToTakeBack(t)

(* The one student of a request to join, and what is to be done.           *)
Member(s) == ~Load.closed /\ class[s] \in Load.classes

JoinInv(t) ==
  task[t].kind = "enroll" =>
    /\ Phase(t) \in ForOne /\ Rest(t) = <<>>
    /\ \A s \in task[t].cur \cap Sound(t) :
         /\ class[s] # NoAccount
         /\ Phase(t) = "target" => task[t].cls = class[s]
         /\ Phase(t) \in {"give", "copy"} => Member(s)
         /\ Phase(t) \in {"snapshot", "remove"} => ~Member(s)

CopyInv(t) ==
  Phase(t) = "remove" =>
    \A s \in task[t].cur \cap Sound(t) : home[s] # "none" => kept[s] # "none"

TaskInv(t) ==
  /\ CrossInv(t) /\ SaveInv(t) /\ WalkInv(t) /\ HandInv(t)
  /\ UnpublishInv(t) /\ JoinInv(t) /\ CopyInv(t)

SchoolInv ==
  Types /\ FileInv /\ \A t \in Task : Phase(t) # "idle" => TaskInv(t)

-----------------------------------------------------------------------------
(* What the steps of a request do.                                         *)

LEMMA LoadFacts ==
  ASSUME Types, FileInv
  PROVE  /\ Load \in ManifestSet /\ Load.classes \subseteq Class
         /\ Nil.closed /\ Nil.classes = {} /\ Nil.file = "none"
         /\ Load # Nil => /\ Load = manifest /\ manifest.file = "saved"
                          /\ dir # "none" /\ wasClosed = Load.closed
         /\ manifest.file # "saved" => Load = Nil
         /\ {NoClass, NoAccount} \cap Load.classes = {}
<1>1. Nil.closed /\ Nil.classes = {} /\ Nil.file = "none"
  BY DEF Nil, Manifest
<1>2. Load \in ManifestSet /\ Load.classes \subseteq Class
  BY IdleIsLocal DEF Load, Types, ManifestSet
<1>3. QED BY <1>1, <1>2, AssignAssumption DEF Load, FileInv, Types

(* Which step belongs to which action.                                     *)
LEMMA ActionOf ==
  ASSUME NEW t \in Task, TaskStep(t)
  PROVE  \/ ListClass(t) /\ Phase(t) \in Walks
         \/ WalkEnds(t) /\ Phase(t) \in Walks
         \/ PublishLoad(t) /\ Phase(t) = "publish"
         \/ HandOut(t) /\ Phase(t) = "handOut"
         \/ CopyStarter(t) /\ Phase(t) = "copy"
         \/ Reopen(t) /\ Phase(t) = "reopen"
         \/ Truncate(t) /\ Phase(t) \in {"save", "trySave"}
         \/ Write(t) /\ Phase(t) \in {"write", "tryWrite"}
         \/ Close(t) /\ Phase(t) = "close"
         \/ Recall(t) /\ Phase(t) = "recall"
         \/ Collect(t) /\ Phase(t) = "collect"
         \/ Reload(t) /\ Phase(t) = "reload"
         \/ ReconcileNext(t) /\ Phase(t) \in {"reconcile", "takeBack"}
         \/ ReconcileUser(t) /\ Phase(t) = "user"
         \/ ReconcileTarget(t) /\ Phase(t) = "target"
         \/ ReconcileGive(t) /\ Phase(t) = "give"
         \/ ReconcileSnapshot(t) /\ Phase(t) = "snapshot"
         \/ ReconcileRemove(t) /\ Phase(t) = "remove"
         \/ WipeDir(t) /\ Phase(t) = "wipe"
         \/ MakeDir(t) /\ Phase(t) = "make"
         \/ FillDir(t) /\ Phase(t) = "fill"
         \/ TakeBackDropped(t) /\ Phase(t) = "dropped"
         \/ WipeKept(t) /\ Phase(t) = "wipeKept"
         \/ WipeHomes(t) /\ Phase(t) = "wipeHomes"
<1>1. /\ ListClass(t) => Phase(t) \in Walks
      /\ WalkEnds(t) => Phase(t) \in Walks
      /\ PublishLoad(t) => Phase(t) = "publish"
      /\ HandOut(t) => Phase(t) = "handOut"
      /\ CopyStarter(t) => Phase(t) = "copy"
      /\ Reopen(t) => Phase(t) = "reopen"
      /\ Truncate(t) => Phase(t) \in {"save", "trySave"}
      /\ Write(t) => Phase(t) \in {"write", "tryWrite"}
      /\ Close(t) => Phase(t) = "close"
      /\ Recall(t) => Phase(t) = "recall"
      /\ Collect(t) => Phase(t) = "collect"
      /\ Reload(t) => Phase(t) = "reload"
  BY DEF ListClass, WalkEnds, PublishLoad, HandOut, CopyStarter, Reopen, Truncate, Write,
     Close, Recall, Collect, Reload
<1>2. /\ ReconcileNext(t) => Phase(t) \in {"reconcile", "takeBack"}
      /\ ReconcileUser(t) => Phase(t) = "user"
      /\ ReconcileTarget(t) => Phase(t) = "target"
      /\ ReconcileGive(t) => Phase(t) = "give"
      /\ ReconcileSnapshot(t) => Phase(t) = "snapshot"
      /\ ReconcileRemove(t) => Phase(t) = "remove"
      /\ WipeDir(t) => Phase(t) = "wipe"
      /\ MakeDir(t) => Phase(t) = "make"
      /\ FillDir(t) => Phase(t) = "fill"
      /\ TakeBackDropped(t) => Phase(t) = "dropped"
      /\ WipeKept(t) => Phase(t) = "wipeKept"
      /\ WipeHomes(t) => Phase(t) = "wipeHomes"
  BY DEF ReconcileNext, ReconcileUser, ReconcileTarget, ReconcileGive, ReconcileSnapshot,
     ReconcileRemove, WipeDir, MakeDir, FillDir, TakeBackDropped, WipeKept, WipeHomes
<1>3. QED BY <1>1, <1>2 DEF TaskStep

(* Which files a step may change.                                          *)
LEMMA FilesOf ==
  ASSUME NEW t \in Task, TaskStep(t)
  PROVE  /\ class' = class
         /\ Phase(t) \notin {"save", "trySave", "write", "tryWrite", "wipe"} => manifest' = manifest
         /\ Phase(t) \notin {"write", "tryWrite"} => wasClosed' = wasClosed
         /\ Phase(t) \notin {"wipe", "make", "fill"} => dir' = dir
         /\ Phase(t) \notin {"copy", "remove", "wipeHomes"} => home' = home
         /\ Phase(t) \notin {"recall", "collect", "snapshot", "wipeKept"} => kept' = kept
<1>1. CASE UNCHANGED <<fileVars, wasClosed>>
  BY <1>1 DEF fileVars
<1>2. CASE CopyStarter(t) \/ ReconcileRemove(t) \/ WipeHomes(t)
  BY <1>2 DEF CopyStarter, ReconcileRemove, WipeHomes
<1>3. CASE Truncate(t) \/ Write(t)
  BY <1>3 DEF Truncate, Write, SaveFails
<1>4. CASE Recall(t) \/ Collect(t) \/ ReconcileSnapshot(t) \/ WipeKept(t)
  BY <1>4 DEF Recall, Collect, ReconcileSnapshot, WipeKept
<1>5. CASE WipeDir(t) \/ MakeDir(t) \/ FillDir(t)
  BY <1>5 DEF WipeDir, MakeDir, FillDir
<1>6. QED
  BY <1>1, <1>2, <1>3, <1>4, <1>5
  DEF TaskStep, ListClass, WalkEnds, PublishLoad, HandOut, Reopen, Close, Reload,
      ReconcileNext, ReconcileUser, ReconcileTarget, ReconcileGive, TakeBackDropped

LEMMA Busy ==
  ASSUME NEW t \in Task, TaskStep(t)
  PROVE  Phase(t) # "idle"
BY ActionOf DEF Walks

(* A request that is not over is as its step left it.                      *)
LEMMA Stays ==
  ASSUME Types, NEW t \in Task, NEW l, Becomes(t, l), task'[t].prog # <<>>
  PROVE  task'[t] = l
BY IdleIsLocal DEF Becomes, Types, TaskTypes

LEMMA StaysGoing ==
  ASSUME Types, NEW t \in Task, NEW p, Goes(t, p), task'[t].prog # <<>>
  PROVE  /\ task'[t] = [task[t] EXCEPT !.prog = p]
         /\ task'[t].prog = p /\ p # <<>>
         /\ task'[t].kind = task[t].kind /\ task'[t].m = task[t].m
         /\ task'[t].todo = task[t].todo /\ task'[t].queue = task[t].queue
         /\ task'[t].seen = task[t].seen /\ task'[t].cur = task[t].cur
         /\ task'[t].cls = task[t].cls
<1> DEFINE l == [task[t] EXCEPT !.prog = p]
<1>1. Becomes(t, l)
  BY DEF Goes
<1>2. /\ l.prog = p /\ l.kind = task[t].kind /\ l.m = task[t].m /\ l.todo = task[t].todo
      /\ l.queue = task[t].queue /\ l.seen = task[t].seen /\ l.cur = task[t].cur
      /\ l.cls = task[t].cls
  BY DEF Types, TaskTypes, Local
<1>3. l = [task[t] EXCEPT !.prog = p]
  OBVIOUS
<1> HIDE DEF l
<1>4. task'[t] = l
  BY <1>1, Stays
<1>5. QED BY <1>2, <1>3, <1>4

LEMMA StaysSaving ==
  ASSUME Types, NEW t \in Task, NEW p, NEW m,
         Becomes(t, [task[t] EXCEPT !.prog = p, !.m = m]), task'[t].prog # <<>>
  PROVE  task'[t].prog = p /\ task'[t].m = m
<1> DEFINE l == [task[t] EXCEPT !.prog = p, !.m = m]
<1>1. Becomes(t, l)
  OBVIOUS
<1>2. l.prog = p /\ l.m = m
  BY DEF Types, TaskTypes, Local
<1> HIDE DEF l
<1>3. task'[t] = l
  BY <1>1, Stays
<1>4. QED BY <1>2, <1>3

(* The steps it has then, and what it remembers.                           *)
Adds(h) ==
  CASE h = "recall" -> {"collect"}
    [] h = "reload" -> {"reconcile"}
    [] h = "dropped" -> {"takeBack"}
    [] h = "user" -> {"target"}
    [] h = "target" -> {"give", "snapshot"}
    [] h = "give" -> {"copy"}
    [] h = "snapshot" -> {"remove"}
    [] h = "wipeKept" -> {"wipeHomes"}
    [] OTHER -> {}

NextSteps(t, q) ==
  \/ q = Rest(t)
  \/ q = Tail(Rest(t)) /\ Phase(t) = "trySave"
  \/ q = task[t].prog /\ Phase(t) \in Walks \cup {"wipeHomes"}
  \/ \E h \in Adds(Phase(t)) : q = <<h>> \o Rest(t)
  \/ q = <<"copy">> \o task[t].prog /\ Phase(t) = "handOut"
  \/ q = <<"user">> \o task[t].prog /\ Phase(t) \in {"reconcile", "takeBack"}
  \/ q = <<"handOut", "reopen">> \o Rest(t) /\ Phase(t) = "publish"
  \/ q = <<"trySave", "tryWrite">> \o Rest(t) /\ Phase(t) = "reopen"
  \/ q = <<"save", "write">> \o Rest(t) /\ Phase(t) = "close"

LEMMA StepForm ==
  ASSUME Types, NEW t \in Task, TaskStep(t), task'[t].prog # <<>>
  PROVE  /\ NextSteps(t, task'[t].prog)
         /\ task'[t].kind = task[t].kind
         /\ Phase(t) \notin {"reopen", "close"} => task'[t].m = task[t].m
         /\ Phase(t) \notin Walks \cup {"publish", "recall", "reload", "dropped", "wipeKept",
                                       "wipeHomes"} =>
              task'[t].queue = task[t].queue
         /\ Phase(t) \notin {"handOut", "reconcile", "takeBack"} => task'[t].cur = task[t].cur
         /\ Phase(t) # "user" => task'[t].cls = task[t].cls
         /\ \/ ListClass(t)
            \/ task'[t].seen = {} /\ Phase(t) \in {"publish", "recall", "reload", "dropped"}
            \/ task'[t].seen = task[t].seen /\ task'[t].todo = task[t].todo
<1>1. /\ Phase(t) # "idle" /\ task[t] \in Local /\ Rest(t) \in Seq(PhaseName)
  BY Busy, AtWork
<1>2. ASSUME NEW p, Goes(t, p), NextSteps(t, p)
      PROVE  /\ NextSteps(t, task'[t].prog) /\ task'[t].kind = task[t].kind
             /\ task'[t].m = task[t].m /\ task'[t].queue = task[t].queue
             /\ task'[t].cur = task[t].cur /\ task'[t].cls = task[t].cls
             /\ task'[t].seen = task[t].seen /\ task'[t].todo = task[t].todo
  BY <1>2, StaysGoing
<1>3. CASE Goes(t, Rest(t))
  BY <1>2, <1>3 DEF NextSteps
<1>4. ~Goes(t, <<>>)
  BY StaysGoing
<1>5. ASSUME NEW r, NEW cs, StartWalk(t, r, cs), NextSteps(t, r)
      PROVE  /\ NextSteps(t, task'[t].prog) /\ task'[t].kind = task[t].kind
             /\ task'[t].m = task[t].m /\ task'[t].cur = task[t].cur
             /\ task'[t].cls = task[t].cls /\ task'[t].seen = {}
  <2> DEFINE l == [task[t] EXCEPT !.prog = r, !.todo = cs, !.queue = {}, !.seen = {}]
  <2>1. Becomes(t, l)
    BY <1>5 DEF StartWalk
  <2>2. /\ l.prog = r /\ l.kind = task[t].kind /\ l.m = task[t].m /\ l.cur = task[t].cur
        /\ l.cls = task[t].cls /\ l.seen = {}
    BY <1>1 DEF Local
  <2> HIDE DEF l
  <2>3. task'[t] = l
    BY <2>1, Stays
  <2>4. QED BY <1>5, <2>2, <2>3
<1>6. CASE ListClass(t)
  <2>1. PICK c \in task[t].todo :
          Becomes(t, [task[t] EXCEPT
                     !.todo = @ \ {c},
                     !.queue = @ \cup ({s \in Student : class[s] = c} \ task[t].seen),
                     !.seen = IF Phase(t) = "takeBack" THEN @
                              ELSE @ \cup ({s \in Student : class[s] = c} \ task[t].seen)])
    BY <1>6 DEF ListClass
  <2>2. task'[t] = [task[t] EXCEPT
                     !.todo = @ \ {c},
                     !.queue = @ \cup ({s \in Student : class[s] = c} \ task[t].seen),
                     !.seen = IF Phase(t) = "takeBack" THEN @
                              ELSE @ \cup ({s \in Student : class[s] = c} \ task[t].seen)]
    BY <2>1, Stays
  <2>3. /\ task'[t].prog = task[t].prog /\ task'[t].kind = task[t].kind
        /\ task'[t].m = task[t].m /\ task'[t].cur = task[t].cur /\ task'[t].cls = task[t].cls
    BY <1>1, <2>2 DEF Local
  <2>4. Phase(t) \in Walks
    BY <1>6 DEF ListClass
  <2>5. QED BY <1>6, <2>3, <2>4 DEF NextSteps
<1>7. CASE PublishLoad(t)
  <2>1. StartWalk(t, <<"handOut", "reopen">> \o Rest(t), Load.classes) => NextSteps(t, <<"handOut", "reopen">> \o Rest(t))
    BY <1>7 DEF PublishLoad, NextSteps
  <2>2. QED BY <1>3, <1>5, <1>7, <2>1 DEF PublishLoad
<1>8. CASE HandOut(t)
  <2>1. PICK s \in task[t].queue :
       Becomes(t, [task[t] EXCEPT
                     !.queue = @ \ {s},
                     !.cur = {s},
                     !.prog = IF home[s] \in {"none", "bare"} THEN <<"copy">> \o @ ELSE @])
    BY <1>8 DEF HandOut
  <2>2. task'[t] = [task[t] EXCEPT
                     !.queue = @ \ {s},
                     !.cur = {s},
                     !.prog = IF home[s] \in {"none", "bare"} THEN <<"copy">> \o @ ELSE @]
    BY <2>1, Stays
  <2>3. /\ task'[t].prog \in {task[t].prog, <<"copy">> \o task[t].prog}
        /\ task'[t].kind = task[t].kind /\ task'[t].m = task[t].m
        /\ task'[t].cls = task[t].cls
        /\ task'[t].seen = task[t].seen /\ task'[t].todo = task[t].todo
    BY <1>1, <2>2 DEF Local
  <2>4. Phase(t) = "handOut"
    BY <1>8 DEF HandOut
  <2>5. QED BY <2>3, <2>4 DEF NextSteps, Walks
<1>9. ASSUME NEW p, NEW m, Becomes(t, [task[t] EXCEPT !.prog = p, !.m = m]), NextSteps(t, p),
             Phase(t) \in {"reopen", "close"}
      PROVE  /\ NextSteps(t, task'[t].prog) /\ task'[t].kind = task[t].kind
             /\ task'[t].queue = task[t].queue
             /\ task'[t].cur = task[t].cur /\ task'[t].cls = task[t].cls
             /\ task'[t].seen = task[t].seen /\ task'[t].todo = task[t].todo
  <2>1. task'[t] = [task[t] EXCEPT !.prog = p, !.m = m]
    BY <1>9, Stays
  <2>2. QED BY <1>1, <1>9, <2>1 DEF Local
<1>10. CASE Reopen(t) \/ Close(t)
  <2>1. CASE Reopen(t)
    <3>1. NextSteps(t, <<"trySave", "tryWrite">> \o Rest(t)) /\ Phase(t) = "reopen"
      BY <2>1 DEF Reopen, NextSteps
    <3>2. QED BY <1>3, <1>9, <2>1, <3>1 DEF Reopen
  <2>2. CASE Close(t)
    <3>1. NextSteps(t, <<"save", "write">> \o Rest(t)) /\ Phase(t) = "close"
      BY <2>2 DEF Close, NextSteps
    <3>2. QED BY <1>4, <1>9, <2>2, <3>1 DEF Close
  <2>3. QED BY <1>10, <2>1, <2>2
<1>11. CASE Truncate(t)
  <2>1. Phase(t) = "trySave" => NextSteps(t, Tail(Rest(t)))
    BY DEF NextSteps
  <2>2. QED BY <1>2, <1>3, <1>4, <1>11, <2>1 DEF Truncate, SaveFails, Tries
<1>12. CASE Write(t)
  BY <1>3, <1>4, <1>12 DEF Write, SaveFails
<1>13. CASE Recall(t) \/ Reload(t) \/ TakeBackDropped(t)
  <2>1. /\ Phase(t) = "recall" => NextSteps(t, <<"collect">> \o Rest(t))
        /\ Phase(t) = "reload" => NextSteps(t, <<"reconcile">> \o Rest(t))
        /\ Phase(t) = "dropped" => NextSteps(t, <<"takeBack">> \o Rest(t))
    BY DEF NextSteps, Adds
  <2>2. QED BY <1>3, <1>5, <1>13, <2>1 DEF Recall, Reload, TakeBackDropped
<1>14. CASE Collect(t) \/ WipeHomes(t)
  <2>1. CASE \E s \in task[t].queue : Becomes(t, [task[t] EXCEPT !.queue = @ \ {s}])
    <3>1. PICK s \in task[t].queue : task'[t] = [task[t] EXCEPT !.queue = @ \ {s}]
      BY <2>1, Stays
    <3>2. /\ task'[t].prog = task[t].prog /\ task'[t].kind = task[t].kind
          /\ task'[t].m = task[t].m /\ task'[t].cur = task[t].cur
          /\ task'[t].cls = task[t].cls
          /\ task'[t].seen = task[t].seen /\ task'[t].todo = task[t].todo
      BY <1>1, <3>1 DEF Local
    <3>3. Phase(t) \in Walks \cup {"wipeHomes"}
      BY <1>14 DEF Collect, WipeHomes, Walks
    <3>4. QED BY <3>2, <3>3 DEF NextSteps
  <2>2. QED BY <1>3, <1>14, <2>1 DEF Collect, WipeHomes
<1>15. CASE ReconcileNext(t)
  <2>1. PICK s \in task[t].queue :
       task'[t] = [task[t] EXCEPT !.queue = @ \ {s}, !.cur = {s}, !.prog = <<"user">> \o @]
    BY <1>15, Stays DEF ReconcileNext
  <2>2. /\ task'[t].prog = <<"user">> \o task[t].prog /\ task'[t].kind = task[t].kind
        /\ task'[t].m = task[t].m /\ task'[t].cls = task[t].cls
        /\ task'[t].seen = task[t].seen /\ task'[t].todo = task[t].todo
    BY <1>1, <2>1 DEF Local
  <2>3. Phase(t) \in {"reconcile", "takeBack"}
    BY <1>15 DEF ReconcileNext
  <2>4. QED BY <2>2, <2>3 DEF NextSteps, Walks
<1>16. CASE ReconcileUser(t)
  <2>1. CASE Becomes(t, [task[t] EXCEPT !.prog = <<"target">> \o Rest(t), !.cls = class[Cur(t)]])
    <3>1. task'[t] = [task[t] EXCEPT !.prog = <<"target">> \o Rest(t), !.cls = class[Cur(t)]]
      BY <2>1, Stays
    <3>2. /\ task'[t].prog = <<"target">> \o Rest(t) /\ task'[t].kind = task[t].kind
          /\ task'[t].m = task[t].m /\ task'[t].queue = task[t].queue
          /\ task'[t].cur = task[t].cur
          /\ task'[t].seen = task[t].seen /\ task'[t].todo = task[t].todo
      BY <1>1, <3>1 DEF Local
    <3>3. Phase(t) = "user"
      BY <1>16 DEF ReconcileUser
    <3>4. QED BY <3>2, <3>3 DEF NextSteps, Adds
  <2>2. QED BY <1>3, <1>16, <2>1 DEF ReconcileUser
<1>17. CASE ReconcileTarget(t) \/ ReconcileGive(t) \/ ReconcileSnapshot(t)
  <2>1. /\ Phase(t) = "target" => NextSteps(t, <<"give">> \o Rest(t)) /\ NextSteps(t, <<"snapshot">> \o Rest(t))
        /\ Phase(t) = "give" => NextSteps(t, <<"copy">> \o Rest(t))
        /\ Phase(t) = "snapshot" => NextSteps(t, <<"remove">> \o Rest(t))
    BY DEF NextSteps, Adds
  <2>2. <<>> \o Rest(t) = Rest(t)
    BY <1>1
  <2>3. CASE ReconcileTarget(t)
    BY <1>2, <2>1, <2>3 DEF ReconcileTarget
  <2>4. CASE ReconcileGive(t)
    BY <1>2, <1>3, <2>1, <2>2, <2>4 DEF ReconcileGive
  <2>5. CASE ReconcileSnapshot(t)
    BY <1>2, <1>3, <2>1, <2>5 DEF ReconcileSnapshot
  <2>6. QED BY <1>17, <2>3, <2>4, <2>5
<1>18. CASE WipeKept(t)
  <2>1. task'[t] = [task[t] EXCEPT !.prog = <<"wipeHomes">> \o Rest(t),
                                   !.queue = {s \in Student : class[s] # NoAccount}]
    BY <1>18, Stays DEF WipeKept
  <2>2. /\ task'[t].prog = <<"wipeHomes">> \o Rest(t) /\ task'[t].kind = task[t].kind
        /\ task'[t].m = task[t].m /\ task'[t].cur = task[t].cur
        /\ task'[t].cls = task[t].cls
        /\ task'[t].seen = task[t].seen /\ task'[t].todo = task[t].todo
    BY <1>1, <2>1 DEF Local
  <2>3. Phase(t) = "wipeKept"
    BY <1>18 DEF WipeKept
  <2>4. QED BY <2>2, <2>3 DEF NextSteps, Adds
<1>19. QED
  BY <1>3, <1>6, <1>7, <1>8, <1>10, <1>11, <1>12, <1>13, <1>14, <1>15, <1>16, <1>17, <1>18
  DEF TaskStep, WalkEnds, CopyStarter, ReconcileRemove, WipeDir, MakeDir, FillDir

(* What the next step will be, and what is still ahead.                    *)
Follows(h) ==
  CASE h \in {"publish", "reopen", "tryWrite"} -> {"dropped"}
    [] h = "handOut" -> {"reopen"}
    [] h = "copy" -> {"handOut", "reconcile", "takeBack"}
    [] h = "trySave" -> {"tryWrite"}
    [] h = "save" -> {"write"}
    [] h = "write" -> {"dropped", "publish", "recall"}
    [] h = "close" -> {"recall"}
    [] h \in {"recall", "collect"} -> {"reload"}
    [] h \in Steps1 -> {"reconcile", "takeBack"}
    [] h = "fill" -> {"save"}
    [] h = "make" -> {"fill"}
    [] h = "wipe" -> {"make", "wipeKept"}
    [] OTHER -> {}

LEMMA NextPhase ==
  ASSUME NEW h, NEW r \in Rests(h), r # <<>>
  PROVE  Head(r) \in Follows(h)
BY DEF Rests, Follows, Steps1, Stop, Ends, Closes, AfterWrite, Loop, HandingOut, Saves, Cons

LEMMA NotAhead ==
  ASSUME NEW h, NEW r \in Rests(h)
  PROVE  /\ In(r, "handOut") => h = "copy"
         /\ In(r, "reopen") => h \in {"handOut", "copy"}
         /\ In(r, "publish") => h \in {"save", "write", "fill", "make", "wipe"}
<1>1. ASSUME NEW y, NEW R, NEW x, x # y, \A p \in R : ~In(p, x)
      PROVE  \A p \in Cons(y, R) : ~In(p, x)
  BY <1>1, FirstStep DEF Cons
<1>2. \A p \in Stop \cup Ends \cup Loop \cup Closes \cup Cons("reload", Stop),
         x \in {"publish", "reopen", "handOut"} : ~In(p, x)
  BY StepsAhead
<1>3. \A p \in AfterWrite, x \in {"reopen", "handOut"} : ~In(p, x)
  BY StepsAhead
<1>4. \A p \in Cons("write", AfterWrite) \cup Cons("tryWrite", Ends), x \in {"reopen", "handOut"} :
         ~In(p, x)
  BY <1>1, <1>2, <1>3
<1>5. \A p \in Saves, x \in {"reopen", "handOut"} : ~In(p, x)
  BY <1>1, <1>4 DEF Saves
<1>6. \A p \in Cons("fill", Saves), x \in {"reopen", "handOut"} : ~In(p, x)
  BY <1>1, <1>5
<1>7. \A p \in Cons("make", Cons("fill", Saves)), x \in {"reopen", "handOut"} : ~In(p, x)
  BY <1>1, <1>6
<1>8. \A p \in Cons("wipeKept", Stop), x \in {"publish", "reopen", "handOut"} : ~In(p, x)
  BY <1>1, <1>2
<1>9. \A p \in Cons("tryWrite", Ends) : ~In(p, "publish")
  BY <1>1, <1>2
<1>10. \A p \in Cons("reopen", Ends), x \in {"publish", "handOut"} : ~In(p, x)
  BY <1>1, <1>2
<1>11. \A p \in HandingOut : ~In(p, "publish")
  BY <1>1, <1>10 DEF HandingOut
<1>12. QED
  BY <1>2, <1>3, <1>4, <1>5, <1>6, <1>7, <1>8, <1>9, <1>10, <1>11 DEF Rests

LEMMA NextIs ==
  ASSUME Types, NEW t \in Task, TaskStep(t), task'[t].prog # <<>>
  PROVE  LET q == task'[t].prog  p == task[t].prog  r == Rest(t) IN
         /\ Phase(t)' = Head(q) /\ Rest(t)' = Tail(q)
         /\ \A x : Ahead(t, x)' <=> In(q, x)
         /\ p \in Seq(PhaseName) /\ r \in Seq(PhaseName) /\ r \in Rests(Phase(t))
         /\ \A x : Ahead(t, x) <=> Phase(t) = x \/ In(r, x)
         /\ \/ q = r /\ Phase(t)' \in Follows(Phase(t))
            \/ /\ q = Tail(r) /\ Phase(t) = "trySave" /\ Phase(t)' = "dropped"
               /\ \A x : In(q, x) => In(r, x)
            \/ /\ q = p /\ Phase(t) \in Walks \cup {"wipeHomes"}
               /\ Phase(t)' = Phase(t) /\ Rest(t)' = r
            \/ /\ Phase(t)' \in Adds(Phase(t)) /\ Rest(t)' = r
               /\ \A x : In(q, x) <=> Phase(t)' = x \/ In(r, x)
            \/ /\ \/ Phase(t) = "handOut" /\ Phase(t)' = "copy"
                  \/ Phase(t) \in {"reconcile", "takeBack"} /\ Phase(t)' = "user"
               /\ Rest(t)' = p
               /\ \A x : In(q, x) <=> Phase(t)' = x \/ In(p, x)
            \/ \E h, y \in PhaseName :
                 /\ \/ Phase(t) = "publish" /\ h = "handOut" /\ y = "reopen"
                    \/ Phase(t) = "reopen" /\ h = "trySave" /\ y = "tryWrite"
                    \/ Phase(t) = "close" /\ h = "save" /\ y = "write"
                 /\ Phase(t)' = h /\ Rest(t)' = <<y>> \o r
                 /\ \A x : In(q, x) <=> h = x \/ y = x \/ In(r, x)
<1> DEFINE q == task'[t].prog
           p == task[t].prog
           r == Rest(t)
<1>1. /\ p \in Seq(PhaseName) /\ p # <<>> /\ Phase(t) = Head(p)
      /\ r \in Seq(PhaseName) /\ r \in Rests(Phase(t))
      /\ \A x : Ahead(t, x) <=> Phase(t) = x \/ In(r, x)
  BY Busy, AtWork
<1>2. Phase(t)' = Head(q) /\ Rest(t)' = Tail(q) /\ q # <<>> /\ \A x : Ahead(t, x)' <=> In(q, x)
  BY DEF Phase, Rest, Ahead
<1>3. NextSteps(t, q)
  BY StepForm
<1>4. r = Tail(p)
  BY DEF Rest
<1>5. ASSUME NEW h \in PhaseName, NEW v \in Seq(PhaseName), q = <<h>> \o v
      PROVE  /\ Phase(t)' = h /\ Rest(t)' = v
             /\ \A x : In(q, x) <=> h = x \/ In(v, x)
  BY <1>2, <1>5, AddStep
<1>6. ASSUME NEW h \in PhaseName, NEW y \in PhaseName, q = <<h, y>> \o r
      PROVE  /\ Phase(t)' = h /\ Rest(t)' = <<y>> \o r
             /\ \A x : In(q, x) <=> h = x \/ y = x \/ In(r, x)
  <2>1. /\ Head(<<h, y>> \o r) = h /\ Tail(<<h, y>> \o r) = <<y>> \o r
        /\ \A x : In(<<h, y>> \o r, x) <=> h = x \/ y = x \/ In(r, x)
    <3>1. r \in Seq(PhaseName)
      BY <1>1
    <3> HIDE DEF r
    <3>2. QED BY <3>1, AddTwoSteps
  <2> HIDE DEF q, r
  <2>2. QED BY <1>2, <1>6, <2>1
<1>7. Adds(Phase(t)) \cup {"copy", "user", "handOut", "reopen", "trySave", "tryWrite", "save",
                           "write"} \subseteq PhaseName
  BY Names DEF Adds
<1>8. CASE q = r
  BY <1>1, <1>2, <1>8, NextPhase
<1>9. CASE q = Tail(r) /\ Phase(t) = "trySave"
  <2>1. r \in Cons("tryWrite", Ends)
    BY <1>1, <1>9, RestsAre
  <2>2. r # <<>> /\ q \in Ends
    BY <1>9, <2>1 DEF Cons
  <2>3. Head(q) = "dropped"
    BY <1>2, <2>2 DEF Ends, Stop, Cons
  <2>4. \A x : In(q, x) => In(r, x)
    BY <1>1, <1>9, <2>2, FirstStep
  <2>5. QED BY <1>1, <1>2, <1>9, <2>3, <2>4
<1>10. CASE q = p /\ Phase(t) \in Walks \cup {"wipeHomes"}
  BY <1>1, <1>2, <1>4, <1>10
<1>11. CASE \E h \in Adds(Phase(t)) : q = <<h>> \o r
  BY <1>1, <1>2, <1>5, <1>7, <1>11
<1>12. CASE \/ q = <<"copy">> \o p /\ Phase(t) = "handOut"
            \/ q = <<"user">> \o p /\ Phase(t) \in {"reconcile", "takeBack"}
  BY <1>1, <1>2, <1>5, <1>7, <1>12
<1>13. CASE \/ q = <<"handOut", "reopen">> \o r /\ Phase(t) = "publish"
            \/ q = <<"trySave", "tryWrite">> \o r /\ Phase(t) = "reopen"
            \/ q = <<"save", "write">> \o r /\ Phase(t) = "close"
  <2>1. PICK h \in PhaseName, y \in PhaseName :
          /\ q = <<h, y>> \o r
          /\ \/ Phase(t) = "publish" /\ h = "handOut" /\ y = "reopen"
             \/ Phase(t) = "reopen" /\ h = "trySave" /\ y = "tryWrite"
             \/ Phase(t) = "close" /\ h = "save" /\ y = "write"
    BY <1>7, <1>13
  <2>2. /\ Phase(t)' = h /\ Rest(t)' = <<y>> \o r
        /\ \A x : In(q, x) <=> h = x \/ y = x \/ In(r, x)
    BY <1>6, <2>1
  <2> HIDE DEF q, p, r
  <2>3. QED BY <1>1, <1>2, <2>1, <2>2 DEF q, p, r
<1> HIDE DEF q, p, r
<1>14. \/ q = r
       \/ q = Tail(r) /\ Phase(t) = "trySave"
       \/ q = p /\ Phase(t) \in Walks \cup {"wipeHomes"}
       \/ \E h \in Adds(Phase(t)) : q = <<h>> \o r
       \/ q = <<"copy">> \o p /\ Phase(t) = "handOut"
       \/ q = <<"user">> \o p /\ Phase(t) \in {"reconcile", "takeBack"}
       \/ q = <<"handOut", "reopen">> \o r /\ Phase(t) = "publish"
       \/ q = <<"trySave", "tryWrite">> \o r /\ Phase(t) = "reopen"
       \/ q = <<"save", "write">> \o r /\ Phase(t) = "close"
  BY <1>3 DEF NextSteps, q, p, r
<1>15. QED BY <1>8, <1>9, <1>10, <1>11, <1>12, <1>13, <1>14 DEF q, p, r

LEMMA NextAhead ==
  ASSUME Types, NEW t \in Task, TaskStep(t), task'[t].prog # <<>>
  PROVE  /\ Ahead(t, "publish")' => Ahead(t, "publish")
         /\ Ahead(t, "reopen")' => Ahead(t, "reopen") \/ Phase(t) = "publish"
         /\ Ahead(t, "handOut")' =>
              /\ Phase(t) \in {"publish", "handOut", "copy"}
              /\ Ahead(t, "handOut") \/ Phase(t) = "publish"
         /\ Phase(t)' \in {"write", "tryWrite"} => Phase(t) \in {"save", "trySave"}
         /\ Phase(t)' = "target" => Phase(t) = "user"
         /\ Phase(t)' \in {"give", "snapshot"} => Phase(t) = "target"
         /\ Phase(t)' = "remove" => Phase(t) = "snapshot"
         /\ Phase(t)' = "copy" => Phase(t) \in {"give", "handOut"}
         /\ Phase(t)' = "user" => Phase(t) \in {"reconcile", "takeBack"}
<1> DEFINE q == task'[t].prog
           p == task[t].prog
           r == Rest(t)
           h == Phase(t)
<1>1. /\ \A x : Ahead(t, x)' <=> In(q, x)
      /\ \A x : Ahead(t, x) <=> h = x \/ In(r, x)
      /\ \A x : In(p, x) <=> h = x \/ In(r, x)
      /\ r \in Rests(h)
  BY NextIs DEF Ahead
<1>2. In(r, "handOut") => h = "copy"
  BY <1>1, NotAhead
<1>3. /\ Follows(h) \cap {"target", "give", "snapshot", "remove", "copy", "user"} = {}
      /\ Follows(h) \cap {"write", "tryWrite"} # {} => h \in {"save", "trySave"}
  BY DEF Follows, Steps1
<1>4. /\ Adds(h) \cap {"write", "tryWrite", "publish", "reopen", "handOut", "user"} = {}
      /\ "target" \in Adds(h) => h = "user"
      /\ "give" \in Adds(h) \/ "snapshot" \in Adds(h) => h = "target"
      /\ "remove" \in Adds(h) => h = "snapshot"
      /\ "copy" \in Adds(h) => h = "give"
  BY DEF Adds
<1> HIDE DEF q, p, r, h
<1>5. \/ q = r /\ Phase(t)' \in Follows(h)
      \/ /\ q = Tail(r) /\ h = "trySave" /\ Phase(t)' = "dropped"
         /\ \A x : In(q, x) => In(r, x)
      \/ /\ q = p /\ h \in Walks \cup {"wipeHomes"}
         /\ Phase(t)' = h /\ Rest(t)' = r
      \/ /\ Phase(t)' \in Adds(h) /\ Rest(t)' = r
         /\ \A x : In(q, x) <=> Phase(t)' = x \/ In(r, x)
      \/ /\ \/ h = "handOut" /\ Phase(t)' = "copy"
            \/ h \in {"reconcile", "takeBack"} /\ Phase(t)' = "user"
         /\ Rest(t)' = p
         /\ \A x : In(q, x) <=> Phase(t)' = x \/ In(p, x)
      \/ \E g, y \in PhaseName :
           /\ \/ h = "publish" /\ g = "handOut" /\ y = "reopen"
              \/ h = "reopen" /\ g = "trySave" /\ y = "tryWrite"
              \/ h = "close" /\ g = "save" /\ y = "write"
           /\ Phase(t)' = g /\ Rest(t)' = <<y>> \o r
           /\ \A x : In(q, x) <=> g = x \/ y = x \/ In(r, x)
  BY NextIs DEF q, p, r, h
<1>6. CASE q = r /\ Phase(t)' \in Follows(h)
  BY <1>1, <1>2, <1>3, <1>6 DEF h
<1>7. CASE /\ q = Tail(r) /\ h = "trySave" /\ Phase(t)' = "dropped"
           /\ \A x : In(q, x) => In(r, x)
  BY <1>1, <1>2, <1>7 DEF h
<1>8. CASE q = p /\ h \in Walks \cup {"wipeHomes"} /\ Phase(t)' = h
  BY <1>1, <1>2, <1>8 DEF h, Walks
<1>9. CASE /\ Phase(t)' \in Adds(h) /\ \A x : In(q, x) <=> Phase(t)' = x \/ In(r, x)
  BY <1>1, <1>2, <1>4, <1>9 DEF h
<1>10. CASE /\ \/ h = "handOut" /\ Phase(t)' = "copy"
               \/ h \in {"reconcile", "takeBack"} /\ Phase(t)' = "user"
            /\ \A x : In(q, x) <=> Phase(t)' = x \/ In(p, x)
  BY <1>1, <1>2, <1>10 DEF h
<1>11. CASE \E g, y \in PhaseName :
              /\ \/ h = "publish" /\ g = "handOut" /\ y = "reopen"
                 \/ h = "reopen" /\ g = "trySave" /\ y = "tryWrite"
                 \/ h = "close" /\ g = "save" /\ y = "write"
              /\ Phase(t)' = g
              /\ \A x : In(q, x) <=> g = x \/ y = x \/ In(r, x)
  BY <1>1, <1>2, <1>11 DEF h
<1>12. QED BY <1>5, <1>6, <1>7, <1>8, <1>9, <1>10, <1>11

LEMMA UnpublishStepsAre ==
  /\ UnpublishSteps("close") = Closes /\ UnpublishSteps("save") = Cons("write", Closes)
  /\ UnpublishSteps("write") = Closes
  /\ \A h \in {"recall", "collect"} : UnpublishSteps(h) = Cons("reload", Stop)
  /\ \A h \in {"reload", "reconcile"} : UnpublishSteps(h) = Stop
  /\ \A h \in ForOne : UnpublishSteps(h) = Cons("reconcile", Stop)
  /\ \A h : h \notin {"close", "save", "write", "recall", "collect", "reload", "reconcile"}
                     \cup ForOne => UnpublishSteps(h) = {}
BY DEF UnpublishSteps, ForOne, Steps1

(* Unpublish and a join have the steps of their handlers.                  *)
LEMMA UnpublishGoesOn ==
  ASSUME Types, NEW t \in Task, TaskStep(t), task'[t].prog # <<>>,
         Rest(t) \in UnpublishSteps(Phase(t))
  PROVE  /\ Rest(t)' \in UnpublishSteps(Phase(t)')
         /\ Phase(t) \in {"close", "save", "write", "recall", "collect", "reload", "reconcile"}
                         \cup ForOne
         /\ Phase(t)' = "save" => Phase(t) = "close"
         /\ Phase(t)' = "write" => Phase(t) = "save"
         /\ Phase(t)' # "close"
         /\ Phase(t)' = "reconcile" => Phase(t) \in {"reload", "reconcile"} \cup ForOne
<1> DEFINE q == task'[t].prog
           p == task[t].prog
           r == Rest(t)
           h == Phase(t)
           U == {"close", "save", "write", "recall", "collect", "reload", "reconcile"} \cup ForOne
<1>1. /\ Phase(t)' = Head(q) /\ Rest(t)' = Tail(q) /\ q # <<>> /\ p \in Seq(PhaseName)
      /\ r \in Seq(PhaseName)
      /\ p # <<>> /\ h = Head(p) /\ r = Tail(p)
  BY NextIs, Busy, AtWork DEF Rest
<1>2. h \in U
  BY UnpublishStepsAre
<1>3. ForOne = {"user", "target", "give", "snapshot", "remove", "copy"}
  BY DEF ForOne, Steps1
<1> HIDE DEF q, p, r, h
<1>4. \/ q = r
      \/ h = "trySave"
      \/ h \in Walks \cup {"wipeHomes"} /\ Phase(t)' = h /\ Rest(t)' = r
      \/ Phase(t)' \in Adds(h) /\ Rest(t)' = r
      \/ h = "handOut" \/ h = "takeBack"
      \/ h = "reconcile" /\ Phase(t)' = "user" /\ Rest(t)' = p
      \/ h = "publish" \/ h = "reopen"
      \/ h = "close" /\ Phase(t)' = "save" /\ Rest(t)' = <<"write">> \o r
  BY NextIs DEF q, p, r, h
<1>5. CASE q = r
  <2>1. CASE h \in {"close", "write"}
    <3>1. r \in Closes
      BY <2>1, UnpublishStepsAre DEF r, h
    <3>2. Phase(t)' = "recall" /\ Rest(t)' \in Cons("reload", Stop)
      BY <1>1, <1>5, <3>1 DEF Closes, Cons
    <3>3. QED BY <1>2, <1>3, <2>1, <3>2, UnpublishStepsAre DEF h
  <2>2. CASE h = "save"
    <3>1. r \in Cons("write", Closes)
      BY <2>2, UnpublishStepsAre DEF r, h
    <3>2. Phase(t)' = "write" /\ Rest(t)' \in Closes
      BY <1>1, <1>5, <3>1 DEF Cons
    <3>3. QED BY <1>2, <1>3, <2>2, <3>2, UnpublishStepsAre DEF h
  <2>3. CASE h \in {"recall", "collect"} \cup ForOne
    <3>1. \/ h \in {"recall", "collect"} /\ r \in Cons("reload", Stop)
          \/ h \in ForOne /\ r \in Cons("reconcile", Stop)
      BY <2>3, UnpublishStepsAre DEF r, h
    <3>2. \/ Phase(t)' = "reload" /\ Rest(t)' \in Stop
          \/ h \in ForOne /\ Phase(t)' = "reconcile" /\ Rest(t)' \in Stop
      BY <1>1, <1>5, <3>1 DEF Cons
    <3>3. QED BY <1>2, <1>3, <2>3, <3>2, UnpublishStepsAre DEF h
  <2>4. CASE h \in {"reload", "reconcile"}
    BY <1>1, <1>5, <2>4, UnpublishStepsAre DEF Stop, r, h
  <2>5. QED BY <1>2, <2>1, <2>2, <2>3, <2>4
<1>6. CASE h \in Walks \cup {"wipeHomes"} /\ Phase(t)' = h /\ Rest(t)' = r
  BY <1>2, <1>3, <1>6 DEF r, h, Walks
<1>7. CASE Phase(t)' \in Adds(h) /\ Rest(t)' = r
  <2>1. \/ h = "recall" /\ Phase(t)' = "collect"
        \/ h = "reload" /\ Phase(t)' = "reconcile"
        \/ h \in ForOne /\ Phase(t)' \in ForOne
    BY <1>2, <1>3, <1>7 DEF Adds
  <2>2. QED BY <1>2, <1>3, <1>7, <2>1, UnpublishStepsAre DEF r, h
<1>8. CASE h = "reconcile" /\ Phase(t)' = "user" /\ Rest(t)' = p
  <2>1. p \in Cons("reconcile", Stop)
    BY <1>1, <1>8, UnpublishStepsAre DEF Cons, r, h
  <2>2. QED BY <1>2, <1>3, <1>8, <2>1, UnpublishStepsAre DEF h
<1>9. CASE h = "close" /\ Phase(t)' = "save" /\ Rest(t)' = <<"write">> \o r
  <2>1. r \in Closes
    BY <1>9, UnpublishStepsAre DEF r, h
  <2>2. <<"write">> \o r \in Cons("write", Closes)
    BY <1>1, <2>1, InCons, Names
  <2>3. QED BY <1>2, <1>3, <1>9, <2>2, UnpublishStepsAre DEF h
<1>10. QED BY <1>2, <1>3, <1>4, <1>5, <1>6, <1>7, <1>8, <1>9 DEF h

LEMMA JoinGoesOn ==
  ASSUME Types, NEW t \in Task, TaskStep(t), task'[t].prog # <<>>,
         Phase(t) \in ForOne, Rest(t) = <<>>
  PROVE  Phase(t)' \in ForOne /\ Rest(t)' = <<>> /\ Phase(t)' \in Adds(Phase(t))
<1>1. ForOne = {"user", "target", "give", "snapshot", "remove", "copy"}
  BY DEF ForOne, Steps1
<1>2. \/ task'[t].prog = Rest(t)
      \/ Phase(t)' \in Adds(Phase(t)) /\ Rest(t)' = Rest(t)
  BY <1>1, NextIs DEF Walks
<1>3. QED BY <1>1, <1>2 DEF Adds

-----------------------------------------------------------------------------
(* A step of the request itself.                                           *)

Own(t) ==
  /\ Types /\ FileInv /\ TaskInv(t)
  /\ TaskStep(t) /\ task'[t].prog # <<>>
  /\ touched'[t] = touched[t] /\ broke'[t] = broke[t] \cup BreaksOff(t)
  /\ t \in crossed' <=> t \in crossed

LEMMA SaveKept ==
  ASSUME NEW t \in Task, Own(t)
  PROVE  SaveInv(t)'
<1>1. /\ Types /\ FileInv /\ SaveInv(t) /\ TaskStep(t) /\ task'[t].prog # <<>>
      /\ t \in crossed' <=> t \in crossed
  BY DEF Own, TaskInv
<1>2. /\ Phase(t) # "idle" /\ task[t] \in Local /\ Rest(t) \in Rests(Phase(t))
      /\ \A x : Ahead(t, x) <=> Phase(t) = x \/ In(Rest(t), x)
  BY <1>1, Busy, AtWork
<1>3. /\ Ahead(t, "publish")' => Ahead(t, "publish")
      /\ Ahead(t, "reopen")' => Ahead(t, "reopen") \/ Ahead(t, "publish")
      /\ Phase(t)' \in {"write", "tryWrite"} => Phase(t) \in {"save", "trySave"}
      /\ task'[t].kind = task[t].kind
      /\ Phase(t) \notin {"reopen", "close"} => task'[t].m = task[t].m
      /\ Phase(t) \notin {"write", "tryWrite"} => wasClosed' = wasClosed
      /\ Phase(t) \notin {"save", "trySave", "write", "tryWrite", "wipe"} => manifest' = manifest
  BY <1>1, <1>2, NextAhead, StepForm, FilesOf
<1>4. SUFFICES ASSUME t \notin crossed
               PROVE  /\ Phase(t)' \in {"write", "tryWrite"} => manifest'.file = "empty"
                      /\ task[t].kind # "publish" =>
                           /\ ~task'[t].m.closed => ~wasClosed'
                           /\ Ahead(t, "publish")' \/ Ahead(t, "reopen")' => ~task'[t].m.closed
  BY <1>1, <1>3 DEF SaveInv
<1>5. /\ Phase(t) \in {"write", "tryWrite"} => manifest.file = "empty"
      /\ task[t].kind # "publish" =>
           /\ ~task[t].m.closed => ~wasClosed
           /\ Ahead(t, "publish") \/ Ahead(t, "reopen") => ~task[t].m.closed
  BY <1>1, <1>4 DEF SaveInv
<1>6. CASE Phase(t) \in {"save", "trySave"}
  <2>1. Truncate(t)
    BY <1>1, <1>6, ActionOf DEF Walks
  <2>2. CASE manifest' = Manifest("empty", {}, TRUE)
    BY <1>3, <1>5, <1>6, <2>2 DEF Manifest
  <2>3. CASE SaveFails(t, Tail(Rest(t)))
    <3>1. Phase(t) = "trySave" /\ Goes(t, Tail(Rest(t)))
      BY <1>1, <1>6, <2>3, StaysGoing DEF SaveFails, Tries
    <3>2. task'[t].prog = Tail(Rest(t))
      BY <1>1, <3>1, StaysGoing
    <3>3. Tail(Rest(t)) \in Ends
      BY <1>2, <3>1, RestsAre DEF Cons
    <3>4. Phase(t)' = "dropped"
      BY <1>1, <3>2, <3>3 DEF Phase, Ends, Stop, Cons
    <3>5. QED BY <1>3, <1>5, <1>6, <3>4
  <2>4. QED BY <2>1, <2>2, <2>3 DEF Truncate
<1>7. CASE Phase(t) \in {"write", "tryWrite"}
  <2>1. Write(t)
    BY <1>1, <1>7, ActionOf DEF Walks
  <2>2. CASE /\ manifest' \in Written(task[t].m)
             /\ wasClosed' = IF manifest'.file = "saved" THEN manifest'.closed ELSE wasClosed
    <3>1. manifest' = task[t].m
      BY <1>5, <1>7, <2>2 DEF Written
    <3>2. QED BY <1>3, <1>5, <1>7, <2>2, <3>1
  <2>3. CASE wasClosed' = wasClosed
    BY <1>3, <1>5, <1>7, <2>3
  <2>4. QED BY <2>1, <2>2, <2>3 DEF Write, SaveFails
<1>8. CASE Phase(t) = "reopen"
  <2>1. Reopen(t)
    BY <1>1, <1>8, ActionOf DEF Walks
  <2>2. CASE Goes(t, Rest(t))
    <3>1. task'[t].m = task[t].m
      BY <1>1, <2>2, StaysGoing
    <3>2. QED BY <1>3, <1>5, <1>8, <3>1
  <2>3. CASE Becomes(t, [task[t] EXCEPT !.prog = <<"trySave", "tryWrite">> \o Rest(t),
                                        !.m = [Load EXCEPT !.closed = FALSE]])
    <3>1. task'[t].m = [Load EXCEPT !.closed = FALSE]
      BY <1>1, <2>3, StaysSaving
    <3>2. ~task'[t].m.closed
      BY <1>1, <3>1, LoadFacts DEF ManifestSet
    <3>3. Ahead(t, "reopen")
      BY <1>2, <1>8
    <3>4. QED BY <1>3, <1>5, <1>8, <3>2, <3>3
  <2>4. QED BY <2>1, <2>2, <2>3 DEF Reopen
<1>9. CASE Phase(t) = "close"
  <2>1. Close(t)
    BY <1>1, <1>9, ActionOf DEF Walks
  <2>2. ~Goes(t, <<>>)
    BY <1>1, StaysGoing
  <2>3. task'[t].m = [Load EXCEPT !.closed = TRUE]
    BY <1>1, <2>1, <2>2, StaysSaving DEF Close
  <2>4. task'[t].m.closed
    BY <1>1, <2>3, LoadFacts DEF ManifestSet
  <2>5. ~Ahead(t, "publish") /\ ~Ahead(t, "reopen")
    BY <1>2, <1>9, RestsAre, StepsAhead
  <2>6. QED BY <1>3, <1>9, <2>4, <2>5
<1>10. QED BY <1>3, <1>5, <1>6, <1>7, <1>8, <1>9

(* What listing a class does.                                              *)
LEMMA Lists ==
  ASSUME NEW t \in Task, Own(t), ListClass(t)
  PROVE  \E c \in task[t].todo :
           LET found == {s \in Student : class[s] = c} \ task[t].seen IN
           /\ task'[t].todo = task[t].todo \ {c}
           /\ task'[t].queue = task[t].queue \cup found
           /\ task'[t].seen \in {task[t].seen, task[t].seen \cup found}
           /\ Phase(t)' = Phase(t)
<1>1. Types /\ task'[t].prog # <<>> /\ task[t] \in Local
  BY DEF Own, Types, TaskTypes
<1>2. PICK c \in task[t].todo :
          Becomes(t, [task[t] EXCEPT
                     !.todo = @ \ {c},
                     !.queue = @ \cup ({s \in Student : class[s] = c} \ task[t].seen),
                     !.seen = IF Phase(t) = "takeBack" THEN @
                              ELSE @ \cup ({s \in Student : class[s] = c} \ task[t].seen)])
  BY DEF ListClass
<1> DEFINE found == {s \in Student : class[s] = c} \ task[t].seen
<1>3. task'[t] = [task[t] EXCEPT
                     !.todo = @ \ {c},
                     !.queue = @ \cup found,
                     !.seen = IF Phase(t) = "takeBack" THEN @ ELSE @ \cup found]
  BY <1>1, <1>2, Stays
<1> HIDE DEF found
<1>4. /\ task'[t].todo = task[t].todo \ {c}
      /\ task'[t].queue = task[t].queue \cup found
      /\ task'[t].seen \in {task[t].seen, task[t].seen \cup found}
      /\ task'[t].prog = task[t].prog
  BY <1>1, <1>3 DEF Local
<1>5. Phase(t)' = Phase(t)
  BY <1>4 DEF Phase
<1>6. QED BY <1>4, <1>5 DEF found

LEMMA WalkKept ==
  ASSUME NEW t \in Task, Own(t)
  PROVE  WalkInv(t)'
<1>1. /\ Types /\ WalkInv(t) /\ TaskStep(t) /\ task'[t].prog # <<>>
      /\ touched'[t] = touched[t] /\ class' = class
  BY FilesOf DEF Own, TaskInv
<1>2. CASE ListClass(t)
  BY <1>1, <1>2, Lists DEF WalkInv
<1>3. CASE task'[t].seen = {} \/ (task'[t].seen = task[t].seen /\ task'[t].todo = task[t].todo)
  BY <1>1, <1>3 DEF WalkInv
<1>4. QED BY <1>1, <1>2, <1>3, StepForm

LEMMA HandKept ==
  ASSUME NEW t \in Task, Own(t)
  PROVE  HandInv(t)'
<1>1. /\ Types /\ FileInv /\ WalkInv(t) /\ HandInv(t) /\ TaskStep(t) /\ task'[t].prog # <<>>
      /\ touched'[t] = touched[t] /\ broke'[t] = broke[t] \cup BreaksOff(t)
  BY DEF Own, TaskInv
<1>2. /\ Phase(t) # "idle" /\ task[t] \in Local /\ Rest(t) \in Rests(Phase(t))
      /\ \A x : Ahead(t, x) <=> Phase(t) = x \/ In(Rest(t), x)
  BY <1>1, Busy, AtWork
<1>3. SUFFICES ASSUME Ahead(t, "handOut")', dir' = "ready", NEW s \in Sound(t)',
                      class'[s] \in Load'.classes
               PROVE  \/ home'[s] \in {"starter", "work"}
                      \/ class'[s] \in task'[t].todo \/ s \in task'[t].queue
                      \/ Phase(t)' = "copy" /\ s \in task'[t].cur
  BY DEF HandInv
<1>4. Phase(t) \in {"publish", "handOut", "copy"}
  BY <1>1, <1>3, NextAhead
<1>5. UNCHANGED <<manifest, dir, class>> /\ Load' = Load
  BY <1>1, <1>4, FilesOf DEF Load
<1>6. s \in Sound(t) /\ s \notin BreaksOff(t) /\ s \in Student
  BY <1>1, <1>3 DEF Sound
<1>7. CASE Phase(t) = "publish"
  <2>1. PublishLoad(t)
    BY <1>1, <1>7, ActionOf DEF Walks
  <2>2. CASE Goes(t, Rest(t))
    <3>1. task'[t].prog = Rest(t)
      BY <1>1, <2>2, StaysGoing
    <3>2. ~In(Rest(t), "handOut")
      BY <1>2, <1>7, NotAhead
    <3>3. QED BY <1>3, <3>1, <3>2 DEF Ahead
  <2>3. CASE StartWalk(t, <<"handOut", "reopen">> \o Rest(t), Load.classes)
    <3>1. task'[t].todo = Load.classes
      BY <1>1, <1>2, <2>3, Stays DEF StartWalk, Local
    <3>2. QED BY <1>3, <1>5, <3>1
  <2>4. QED BY <2>1, <2>2, <2>3 DEF PublishLoad
<1>8. ASSUME Ahead(t, "handOut")
      PROVE  \/ home[s] \in {"starter", "work"}
             \/ class[s] \in task[t].todo \/ s \in task[t].queue
             \/ Phase(t) = "copy" /\ s \in task[t].cur
  BY <1>1, <1>3, <1>5, <1>6, <1>8 DEF HandInv
<1>9. CASE Phase(t) = "handOut"
  <2>1. Ahead(t, "handOut") /\ home' = home
    BY <1>1, <1>2, <1>9, FilesOf
  <2>2. CASE ListClass(t)
    <3>1. PICK c \in task[t].todo :
             /\ task'[t].todo = task[t].todo \ {c}
             /\ task'[t].queue = task[t].queue \cup ({x \in Student : class[x] = c} \ task[t].seen)
      BY <2>2, Lists
    <3>2. s \in task[t].seen => class[s] \notin task[t].todo
      BY <1>1, <1>6 DEF WalkInv, Sound
    <3>3. QED BY <1>5, <1>6, <1>8, <1>9, <2>1, <3>1, <3>2
  <2>3. CASE WalkEnds(t)
    <3>1. task'[t].prog = Rest(t)
      BY <1>1, <2>3, StaysGoing DEF WalkEnds
    <3>2. ~In(Rest(t), "handOut")
      BY <1>2, <1>9, NotAhead
    <3>3. QED BY <1>3, <3>1, <3>2 DEF Ahead
  <2>4. CASE HandOut(t)
    <3>1. PICK x \in task[t].queue :
       task'[t] = [task[t] EXCEPT
                     !.queue = @ \ {x},
                     !.cur = {x},
                     !.prog = IF home[x] \in {"none", "bare"} THEN <<"copy">> \o @ ELSE @]
      BY <1>1, <2>4, Stays DEF HandOut
    <3>2. /\ task'[t].queue = task[t].queue \ {x} /\ task'[t].cur = {x}
          /\ task'[t].todo = task[t].todo
          /\ task'[t].prog = IF home[x] \in {"none", "bare"} THEN <<"copy">> \o task[t].prog
                             ELSE task[t].prog
      BY <1>2, <3>1 DEF Local
    <3>3. CASE s = x /\ home[x] \in {"none", "bare"}
      <4>1. Phase(t)' = "copy"
        <5>1. task[t].prog \in Seq(PhaseName) /\ "copy" \in PhaseName
          BY <1>2, Names DEF Local
        <5>2. Head(<<"copy">> \o task[t].prog) = "copy" /\ <<"copy">> \o task[t].prog # <<>>
          BY <5>1, AddStep
        <5>3. QED BY <3>2, <3>3, <5>2 DEF Phase
      <4>2. QED BY <3>2, <3>3, <4>1
    <3>4. CASE s = x /\ home[x] \notin {"none", "bare"}
      BY <1>1, <1>6, <2>1, <3>4 DEF Types, Content
    <3>5. CASE s # x
      BY <1>5, <1>8, <1>9, <2>1, <3>2, <3>5
    <3>6. QED BY <3>3, <3>4, <3>5
  <2>5. QED BY <1>1, <1>9, <2>2, <2>3, <2>4, ActionOf
<1>10. CASE Phase(t) = "copy"
  <2>1. CopyStarter(t) /\ Ahead(t, "handOut")
    BY <1>1, <1>3, <1>10, ActionOf, NextAhead DEF Walks
  <2>2. /\ task'[t].queue = task[t].queue /\ task'[t].todo = task[t].todo
    <3>1. Goes(t, Rest(t))
      BY <2>1 DEF CopyStarter
    <3>2. QED BY <1>1, <3>1, StaysGoing
  <2>3. Cur(t) \in Student /\ task[t].cur = {Cur(t)}
    BY <1>1, <1>10, CurIsStudent
  <2>4. CASE s = Cur(t)
    <3>1. home'[s] = Overlay(home[s], Starter)
      BY <1>6, <1>10, <2>3, <2>4 DEF BreaksOff
    <3>2. Starter = "starter"
      BY <1>3, <1>5 DEF Starter
    <3>3. QED BY <3>1, <3>2 DEF Overlay
  <2>5. CASE s # Cur(t)
    <3>1. home'[s] = home[s]
      BY <1>1, <1>6, <2>1, <2>3, <2>5 DEF CopyStarter, Types
    <3>2. QED BY <1>5, <1>8, <2>1, <2>2, <2>3, <2>5, <3>1
  <2>6. QED BY <2>4, <2>5
<1>11. QED BY <1>4, <1>7, <1>9, <1>10

LEMMA FlagsKept ==
  ASSUME NEW t \in Task, Own(t), task[t].kind = "unpublish"
  PROVE  UnpublishFlags(t)'
<1>1. /\ Types /\ FileInv /\ SaveInv(t) /\ TaskStep(t) /\ task'[t].prog # <<>>
      /\ t \in crossed' <=> t \in crossed
      /\ Rest(t) \in UnpublishSteps(Phase(t)) /\ UnpublishFlags(t)
  BY DEF Own, TaskInv, UnpublishInv
<1>2. SUFFICES ASSUME t \notin crossed
               PROVE  /\ Phase(t)' \in {"save", "write"} => task'[t].m.closed
                      /\ Phase(t)' \notin {"close", "save", "write"} => Load'.closed
                      /\ Phase(t)' \notin {"give", "copy"}
  BY <1>1 DEF UnpublishFlags
<1>3. /\ Phase(t) \in {"save", "write"} => task[t].m.closed
      /\ Phase(t) \notin {"close", "save", "write"} => Load.closed
      /\ Phase(t) \notin {"give", "copy"}
      /\ Phase(t) \in {"write", "tryWrite"} => manifest.file = "empty"
  BY <1>1, <1>2 DEF UnpublishFlags, SaveInv
<1>4. /\ Phase(t) \in {"close", "save", "write", "recall", "collect", "reload", "reconcile"}
                      \cup ForOne
      /\ Phase(t)' = "save" => Phase(t) = "close"
      /\ Phase(t)' = "write" => Phase(t) = "save"
      /\ Phase(t)' # "close"
  BY <1>1, UnpublishGoesOn
<1>5. task[t] \in Local /\ Phase(t) # "idle"
  BY <1>1, Busy, AtWork
<1>6. Phase(t)' \notin {"give", "copy"}
  <2>1. SUFFICES ASSUME Phase(t)' \in {"give", "copy"} PROVE FALSE
    OBVIOUS
  <2>2. Phase(t)' = "give" /\ Phase(t) = "target"
    BY <1>1, <1>3, <1>4, <2>1, NextAhead DEF ForOne, Steps1
  <2>3. ReconcileTarget(t) /\ Load.closed
    BY <1>1, <1>3, <2>2, ActionOf DEF Walks
  <2>4. task'[t].prog = <<"snapshot">> \o Rest(t)
    BY <1>1, <2>3, StaysGoing DEF ReconcileTarget
  <2>5. Rest(t) \in Seq(PhaseName) /\ "snapshot" \in PhaseName
    BY <1>1, <1>5, AtWork, Names
  <2>6. Head(<<"snapshot">> \o Rest(t)) = "snapshot" /\ <<"snapshot">> \o Rest(t) # <<>>
    BY <2>5, AddStep
  <2>7. Phase(t)' = "snapshot"
    BY <2>4, <2>6 DEF Phase
  <2>8. QED BY <2>2, <2>7
<1>7. Phase(t)' = "save" => task'[t].m.closed
  <2>1. SUFFICES ASSUME Phase(t) = "close" PROVE task'[t].m.closed
    BY <1>4
  <2>2. Close(t)
    BY <1>1, <2>1, ActionOf DEF Walks
  <2>3. ~Goes(t, <<>>)
    BY <1>1, StaysGoing
  <2>4. task'[t].m = [Load EXCEPT !.closed = TRUE]
    BY <1>1, <2>2, <2>3, StaysSaving DEF Close
  <2>5. QED BY <1>1, <2>4, LoadFacts DEF ManifestSet
<1>8. Phase(t)' = "write" => task'[t].m.closed
  BY <1>1, <1>3, <1>4, StepForm
<1>9. Phase(t)' \notin {"close", "save", "write"} => Load'.closed
  <2>1. SUFFICES ASSUME Phase(t)' \notin {"close", "save", "write"} PROVE Load'.closed
    OBVIOUS
  <2>2. CASE Phase(t) = "close"
    <3>1. Close(t)
      BY <1>1, <2>2, ActionOf DEF Walks
    <3>2. ~Goes(t, <<>>)
      BY <1>1, StaysGoing
    <3>3. task'[t].prog = <<"save", "write">> \o Rest(t)
      BY <1>1, <3>1, <3>2, StaysSaving DEF Close
    <3>4. Rest(t) \in Seq(PhaseName) /\ "save" \in PhaseName /\ "write" \in PhaseName
      BY <1>1, <1>5, AtWork, Names
    <3>5. /\ Head(<<"save", "write">> \o Rest(t)) = "save"
          /\ <<"save", "write">> \o Rest(t) # <<>>
      BY <3>4, AddTwoSteps
    <3>6. QED BY <2>1, <3>3, <3>5 DEF Phase
  <2>3. CASE Phase(t) = "save"
    <3>1. Truncate(t) /\ ~Goes(t, <<>>) /\ ~Tries(t)
      BY <1>1, <2>3, ActionOf, StaysGoing DEF Walks, Tries
    <3>2. task'[t].prog = Rest(t)
      BY <1>1, <3>1, StaysGoing DEF Truncate, SaveFails
    <3>3. Rest(t) \in Cons("write", Closes)
      BY <1>1, <2>3, UnpublishStepsAre
    <3>4. Phase(t)' = "write"
      BY <1>1, <3>2, <3>3 DEF Phase, Cons
    <3>5. QED BY <2>1, <3>4
  <2>4. CASE Phase(t) = "write"
    <3>1. Write(t) /\ ~Goes(t, <<>>) /\ ~Tries(t)
      BY <1>1, <2>4, ActionOf, StaysGoing DEF Walks, Tries
    <3>2. manifest' \in Written(task[t].m)
      BY <3>1 DEF Write, SaveFails
    <3>3. manifest' = task[t].m
      BY <1>3, <2>4, <3>2 DEF Written
    <3>4. QED BY <1>1, <1>3, <2>4, <3>3, LoadFacts DEF Load
  <2>5. CASE Phase(t) \notin {"close", "save", "write"}
    <3>1. manifest' = manifest
      BY <1>1, <1>4, <2>5, FilesOf DEF ForOne, Steps1
    <3>2. QED BY <1>3, <2>5, <3>1 DEF Load
  <2>6. QED BY <2>2, <2>3, <2>4, <2>5
<1>10. QED BY <1>6, <1>7, <1>8, <1>9

(* The steps for one student.                                              *)
LEMMA GoesTo ==
  ASSUME Types, NEW t \in Task, Phase(t) # "idle", NEW h \in PhaseName,
         task'[t].prog = <<h>> \o Rest(t)
  PROVE  Phase(t)' = h
<1>1. Rest(t) \in Seq(PhaseName)
  BY AtWork
<1>2. Head(<<h>> \o Rest(t)) = h /\ <<h>> \o Rest(t) # <<>>
  BY <1>1, AddStep
<1>3. QED BY <1>2 DEF Phase

LEMMA OneStudent ==
  ASSUME Types, NEW t \in Task, TaskStep(t), task'[t].prog # <<>>, Phase(t) \in ForOne
  PROVE  /\ Cur(t) \in Student /\ task[t].cur = {Cur(t)} /\ task'[t].cur = task[t].cur
         /\ task'[t].todo = task[t].todo /\ task'[t].queue = task[t].queue
         /\ UNCHANGED <<manifest, dir, class>> /\ Load' = Load
         /\ \/ task'[t].prog = Rest(t)
            \/ Phase(t)' \in Adds(Phase(t)) /\ Phase(t)' \in ForOne
         /\ Phase(t) = "user" /\ class[Cur(t)] # NoAccount =>
              Phase(t)' = "target" /\ task'[t].cls = class[Cur(t)]
         /\ Phase(t) = "target" =>
              Phase(t)' = IF ~Load.closed /\ task[t].cls \in Load.classes
                          THEN "give" ELSE "snapshot"
         /\ Phase(t) = "snapshot" =>
              \/ home[Cur(t)] = "none" \/ manifest.file = "none"
              \/ Phase(t)' = "remove" /\ home[Cur(t)] # "none"
         /\ Phase(t) = "remove" => home' = [home EXCEPT ![Cur(t)] = "none"]
         /\ \A s \in Student \ {Cur(t)} : home'[s] = home[s]
<1>0. ForOne = {"user", "target", "give", "snapshot", "remove", "copy"}
  BY DEF ForOne, Steps1
<1>1. /\ Phase(t) # "idle" /\ task[t] \in Local
      /\ Cur(t) \in Student /\ task[t].cur = {Cur(t)}
  BY Busy, AtWork, CurIsStudent DEF ForOne
<1>2. /\ task'[t].cur = task[t].cur /\ task'[t].queue = task[t].queue
      /\ task'[t].todo = task[t].todo
  <2>1. ~ListClass(t)
    BY <1>0 DEF ListClass, Walks
  <2>2. QED BY <1>0, <2>1, StepForm DEF Walks
<1>3. UNCHANGED <<manifest, dir, class>> /\ Load' = Load
  BY <1>0, FilesOf DEF Load
<1>4. \/ task'[t].prog = Rest(t)
      \/ Phase(t)' \in Adds(Phase(t)) /\ Phase(t)' \in ForOne
  BY <1>0, NextIs DEF Walks, Adds
<1>5. ASSUME Phase(t) = "user", class[Cur(t)] # NoAccount
      PROVE  Phase(t)' = "target" /\ task'[t].cls = class[Cur(t)]
  <2>1. ReconcileUser(t)
    BY <1>5, ActionOf DEF Walks
  <2>2. Becomes(t, [task[t] EXCEPT !.prog = <<"target">> \o Rest(t), !.cls = class[Cur(t)]])
    BY <1>5, <2>1 DEF ReconcileUser
  <2>3. task'[t] = [task[t] EXCEPT !.prog = <<"target">> \o Rest(t), !.cls = class[Cur(t)]]
    BY <2>2, Stays
  <2>4. task'[t].prog = <<"target">> \o Rest(t) /\ task'[t].cls = class[Cur(t)]
    BY <1>1, <2>3 DEF Local
  <2>5. QED BY <1>1, <2>4, GoesTo, Names
<1>6. ASSUME Phase(t) = "target"
      PROVE  Phase(t)' = IF ~Load.closed /\ task[t].cls \in Load.classes
                          THEN "give" ELSE "snapshot"
  <2>1. ReconcileTarget(t)
    BY <1>6, ActionOf DEF Walks
  <2>2. task'[t].prog = (IF ~Load.closed /\ task[t].cls \in Load.classes
                         THEN <<"give">> ELSE <<"snapshot">>) \o Rest(t)
    BY <2>1, StaysGoing DEF ReconcileTarget
  <2>3. "give" \in PhaseName /\ "snapshot" \in PhaseName
    BY Names
  <2>4. CASE ~Load.closed /\ task[t].cls \in Load.classes
    BY <1>1, <2>2, <2>3, <2>4, GoesTo
  <2>5. CASE ~(~Load.closed /\ task[t].cls \in Load.classes)
    <3>1. task'[t].prog = <<"snapshot">> \o Rest(t)
      BY <2>2, <2>5
    <3>2. Phase(t)' = "snapshot"
      BY <1>1, <2>3, <3>1, GoesTo
    <3>3. QED BY <2>5, <3>2
  <2>6. QED BY <2>4, <2>5
<1>7. ASSUME Phase(t) = "snapshot"
      PROVE  \/ home[Cur(t)] = "none" \/ manifest.file = "none"
             \/ Phase(t)' = "remove" /\ home[Cur(t)] # "none"
  <2>1. ReconcileSnapshot(t)
    BY <1>7, ActionOf DEF Walks
  <2>2. SUFFICES ASSUME ~(home[Cur(t)] = "none" \/ manifest.file = "none")
                 PROVE  Phase(t)' = "remove"
    OBVIOUS
  <2>3. task'[t].prog = <<"remove">> \o Rest(t)
    BY <2>1, <2>2, StaysGoing DEF ReconcileSnapshot
  <2>4. QED BY <1>1, <2>3, GoesTo, Names
<1>8. Phase(t) = "remove" => home' = [home EXCEPT ![Cur(t)] = "none"]
  BY ActionOf DEF Walks, ReconcileRemove
<1>9. ASSUME NEW s \in Student \ {Cur(t)} PROVE home'[s] = home[s]
  <2>1. CASE Phase(t) = "copy"
    <3>1. CopyStarter(t)
      BY <2>1, ActionOf DEF Walks
    <3>2. QED BY <1>1, <1>9, <3>1 DEF CopyStarter, Types
  <2>2. CASE Phase(t) = "remove"
    BY <1>1, <1>8, <1>9, <2>2 DEF Types
  <2>3. CASE Phase(t) \notin {"copy", "remove"}
    BY <1>0, <2>3, FilesOf
  <2>4. QED BY <2>1, <2>2, <2>3
<1>10. QED BY <1>1, <1>2, <1>3, <1>4, <1>5, <1>6, <1>7, <1>8, <1>9

LEMMA ToTakeBackKept ==
  ASSUME NEW t \in Task, Own(t), task[t].kind = "unpublish"
  PROVE  ToTakeBack(t)'
<1>1. /\ Types /\ FileInv /\ CrossInv(t) /\ WalkInv(t) /\ TaskStep(t) /\ task'[t].prog # <<>>
      /\ touched'[t] = touched[t]
      /\ Rest(t) \in UnpublishSteps(Phase(t)) /\ UnpublishFlags(t) /\ ToTakeBack(t)
  BY DEF Own, TaskInv, UnpublishInv
<1>2. SUFFICES ASSUME Phase(t)' \in {"reconcile"} \cup ForOne, NEW s \in Calm(t)',
                      class'[s] \in Load'.classes
               PROVE  \/ home'[s] = "none"
                      \/ class'[s] \in task'[t].todo \/ s \in task'[t].queue
                      \/ Phase(t)' # "reconcile" /\ s \in task'[t].cur
  BY DEF ToTakeBack
<1>3. ForOne = {"user", "target", "give", "snapshot", "remove", "copy"}
  BY DEF ForOne, Steps1
<1>4. Phase(t) \in {"reload", "reconcile"} \cup ForOne
  BY <1>1, <1>2, <1>3, NextAhead, UnpublishGoesOn
<1>5. UNCHANGED <<manifest, dir, class>> /\ Load' = Load
  BY <1>1, <1>3, <1>4, FilesOf DEF Load
<1>6. /\ s \in Calm(t) /\ s \in Student /\ t \notin crossed
      /\ Phase(t) \notin {"give", "copy"}
  BY <1>1, <1>2 DEF Calm, CrossInv, UnpublishFlags
<1>7. ASSUME Phase(t) \in {"reconcile"} \cup ForOne
      PROVE  \/ home[s] = "none"
             \/ class[s] \in task[t].todo \/ s \in task[t].queue
             \/ Phase(t) # "reconcile" /\ s \in task[t].cur
  BY <1>1, <1>2, <1>5, <1>6, <1>7 DEF ToTakeBack
<1>8. Phase(t) \in {"reload", "reconcile"} => ~Goes(t, Rest(t))
  <2>1. Phase(t) \in {"reload", "reconcile"} => Rest(t) = <<>>
    BY <1>1, UnpublishStepsAre DEF Stop
  <2>2. ASSUME Goes(t, Rest(t)) PROVE Rest(t) # <<>>
    BY <1>1, <2>2, StaysGoing
  <2>3. QED BY <2>1, <2>2
<1>9. Phase(t) # "idle" /\ task[t] \in Local
  BY <1>1, Busy, AtWork
<1>10. CASE Phase(t) = "reload"
  <2>1. Reload(t)
    BY <1>1, <1>10, ActionOf DEF Walks
  <2>2. StartWalk(t, <<"reconcile">> \o Rest(t), Load.classes)
    BY <1>8, <1>10, <2>1 DEF Reload
  <2>3. task'[t].todo = Load.classes
    BY <1>1, <1>9, <2>2, Stays DEF StartWalk, Local
  <2>4. QED BY <1>2, <1>5, <2>3
<1>11. CASE Phase(t) = "reconcile"
  <2>1. home' = home
    BY <1>1, <1>11, FilesOf
  <2>2. CASE ListClass(t)
    <3>1. PICK c \in task[t].todo :
             /\ task'[t].todo = task[t].todo \ {c}
             /\ task'[t].queue = task[t].queue \cup ({x \in Student : class[x] = c} \ task[t].seen)
      BY <2>2, Lists
    <3>2. s \in task[t].seen => class[s] \notin task[t].todo
      BY <1>1, <1>6 DEF WalkInv, Calm
    <3>3. QED BY <1>5, <1>6, <1>7, <1>11, <2>1, <3>1, <3>2
  <2>3. CASE ReconcileNext(t)
    <3>1. PICK x \in task[t].queue :
       task'[t] = [task[t] EXCEPT !.queue = @ \ {x}, !.cur = {x}, !.prog = <<"user">> \o @]
      BY <1>1, <2>3, Stays DEF ReconcileNext
    <3>2. /\ task'[t].queue = task[t].queue \ {x} /\ task'[t].cur = {x}
          /\ task'[t].todo = task[t].todo /\ task'[t].prog = <<"user">> \o task[t].prog
      BY <1>9, <3>1 DEF Local
    <3>3. Phase(t)' = "user"
      <4>1. task[t].prog \in Seq(PhaseName) /\ "user" \in PhaseName
        BY <1>9, Names DEF Local
      <4>2. Head(<<"user">> \o task[t].prog) = "user" /\ <<"user">> \o task[t].prog # <<>>
        BY <4>1, AddStep
      <4>3. QED BY <3>2, <4>2 DEF Phase
    <3>4. QED BY <1>5, <1>7, <1>11, <2>1, <3>2, <3>3
  <2>4. QED BY <1>1, <1>8, <1>11, <2>2, <2>3, ActionOf DEF WalkEnds
<1>12. CASE Phase(t) \in ForOne
  <2>1. /\ Cur(t) \in Student /\ task[t].cur = {Cur(t)} /\ task'[t].cur = task[t].cur
        /\ task'[t].todo = task[t].todo /\ task'[t].queue = task[t].queue
        /\ Phase(t) = "user" /\ class[Cur(t)] # NoAccount => Phase(t)' = "target"
        /\ Phase(t) = "target" => Phase(t)' \in {"give", "snapshot"}
        /\ Phase(t) = "snapshot" =>
              \/ home[Cur(t)] = "none" \/ manifest.file = "none"
              \/ Phase(t)' = "remove" /\ home[Cur(t)] # "none"
        /\ Phase(t) = "remove" => home' = [home EXCEPT ![Cur(t)] = "none"]
        /\ \A x \in Student \ {Cur(t)} : home'[x] = home[x]
    BY <1>1, <1>12, OneStudent, Zenon
  <2>2. CASE s # Cur(t)
    BY <1>3, <1>5, <1>6, <1>7, <1>12, <2>1, <2>2
  <2>3. CASE s = Cur(t)
    <3>1. CASE Phase(t)' # "reconcile"
      BY <2>1, <2>3, <3>1
    <3>2. CASE Phase(t) = "user" /\ Phase(t)' = "reconcile"
      BY <1>1, <1>2, <1>5, <2>1, <2>3, <3>2, LoadFacts
    <3>3. CASE Phase(t) = "snapshot" /\ Phase(t)' = "reconcile"
      <4>1. manifest.file # "none"
        BY <1>1, <1>2, <1>5, LoadFacts
      <4>2. home' = home
        BY <1>1, <3>3, FilesOf
      <4>3. QED BY <2>1, <2>3, <3>3, <4>1, <4>2
    <3>4. CASE Phase(t) = "remove"
      BY <1>1, <2>1, <2>3, <3>4 DEF Types
    <3>5. QED BY <1>3, <1>6, <1>12, <2>1, <3>1, <3>2, <3>3, <3>4
  <2>4. QED BY <2>2, <2>3
<1>13. QED BY <1>4, <1>10, <1>11, <1>12

LEMMA UnpublishKept ==
  ASSUME NEW t \in Task, Own(t)
  PROVE  UnpublishInv(t)'
<1>1. Types /\ UnpublishInv(t) /\ TaskStep(t) /\ task'[t].prog # <<>>
  BY DEF Own, TaskInv
<1>2. task'[t].kind = task[t].kind
  BY <1>1, StepForm
<1>3. ASSUME task[t].kind = "unpublish" PROVE Rest(t)' \in UnpublishSteps(Phase(t)')
  BY <1>1, <1>3, UnpublishGoesOn DEF UnpublishInv
<1>4. Rest(t)' \in UnpublishSteps(Phase(t)') => (Rest(t) \in UnpublishSteps(Phase(t)))'
  OBVIOUS
<1>5. QED BY <1>2, <1>3, <1>4, FlagsKept, ToTakeBackKept DEF UnpublishInv

LEMMA JoinKept ==
  ASSUME NEW t \in Task, Own(t)
  PROVE  JoinInv(t)'
<1>1. /\ Types /\ FileInv /\ JoinInv(t) /\ TaskStep(t) /\ task'[t].prog # <<>>
      /\ touched'[t] = touched[t] /\ broke'[t] = broke[t] \cup BreaksOff(t)
      /\ task'[t].kind = task[t].kind
  BY StepForm DEF Own, TaskInv
<1>2. SUFFICES ASSUME task[t].kind = "enroll" PROVE JoinInv(t)'
  BY <1>1 DEF JoinInv
<1>3. Phase(t) \in ForOne /\ Rest(t) = <<>>
  BY <1>1, <1>2 DEF JoinInv
<1>4. Phase(t)' \in ForOne /\ Rest(t)' = <<>> /\ Phase(t)' \in Adds(Phase(t))
  BY <1>1, <1>3, JoinGoesOn
<1>5. /\ Cur(t) \in Student /\ task[t].cur = {Cur(t)} /\ task'[t].cur = task[t].cur
      /\ UNCHANGED <<manifest, dir, class>> /\ Load' = Load
      /\ Phase(t) = "user" /\ class[Cur(t)] # NoAccount => task'[t].cls = class[Cur(t)]
      /\ Phase(t) = "target" =>
           Phase(t)' = IF ~Load.closed /\ task[t].cls \in Load.classes
                       THEN "give" ELSE "snapshot"
  BY <1>1, <1>3, OneStudent, Zenon
<1>6. ASSUME NEW s \in task'[t].cur \cap Sound(t)'
      PROVE  /\ class'[s] # NoAccount
             /\ Phase(t)' = "target" => task'[t].cls = class'[s]
             /\ Phase(t)' \in {"give", "copy"} => Member(s)'
             /\ Phase(t)' \in {"snapshot", "remove"} => ~Member(s)'
  <2>1. s = Cur(t) /\ s \in task[t].cur \cap Sound(t)
    BY <1>1, <1>5, <1>6 DEF Sound
  <2>2. /\ class[s] # NoAccount
        /\ Phase(t) = "target" => task[t].cls = class[s]
        /\ Phase(t) \in {"give", "copy"} => Member(s)
        /\ Phase(t) \in {"snapshot", "remove"} => ~Member(s)
    BY <1>1, <1>2, <2>1 DEF JoinInv
  <2>3. Member(s)' = Member(s)
    BY <1>5 DEF Member
  <2>4. CASE Phase(t) = "user"
    BY <1>4, <1>5, <2>1, <2>2, <2>4 DEF Adds
  <2>5. CASE Phase(t) = "target"
    BY <1>4, <1>5, <2>1, <2>2, <2>3, <2>5 DEF Adds, Member
  <2>6. CASE Phase(t) \in {"give", "snapshot"}
    BY <1>4, <1>5, <2>1, <2>2, <2>3, <2>6 DEF Adds
  <2>7. Phase(t) \in {"user", "target", "give", "snapshot"}
    BY <1>3, <1>4 DEF Adds, ForOne, Steps1
  <2>8. QED BY <2>4, <2>5, <2>6, <2>7
<1>7. QED BY <1>4, <1>6 DEF JoinInv

LEMMA CopyKept ==
  ASSUME NEW t \in Task, Own(t)
  PROVE  CopyInv(t)'
<1>1. /\ Types /\ TaskStep(t) /\ task'[t].prog # <<>>
      /\ touched'[t] = touched[t] /\ broke'[t] = broke[t] \cup BreaksOff(t)
  BY DEF Own, TaskInv
<1>2. SUFFICES ASSUME Phase(t)' = "remove", NEW s \in task'[t].cur \cap Sound(t)',
                      home'[s] # "none"
               PROVE  kept'[s] # "none"
  BY DEF CopyInv
<1>3. Phase(t) = "snapshot" /\ Phase(t) \in ForOne
  BY <1>1, <1>2, NextAhead DEF ForOne, Steps1
<1>4. /\ task[t].cur = {Cur(t)} /\ task'[t].cur = task[t].cur /\ home' = home
  BY <1>1, <1>3, OneStudent, FilesOf
<1>5. kept'[s] = Overlay(kept[s], home[s])
  BY <1>1, <1>2, <1>3, <1>4 DEF Sound, BreaksOff
<1>6. QED BY <1>2, <1>4, <1>5 DEF Overlay

LEMMA OwnKeeps ==
  ASSUME NEW t \in Task, Own(t)
  PROVE  TaskInv(t)'
<1>1. CrossInv(t)'
  BY DEF Own, TaskInv, CrossInv
<1>2. QED
  BY <1>1, SaveKept, WalkKept, HandKept, UnpublishKept, JoinKept, CopyKept DEF TaskInv

-----------------------------------------------------------------------------
(* A step of another request, or of a student.                             *)

LEMMA OthersKeep ==
  ASSUME Types, NEW t \in Task, TaskInv(t), task'[t] = task[t], broke'[t] = broke[t],
         touched'[t] = touched[t] \cup Disturbed,
         t \in crossed' <=> t \in crossed \/ Crosses,
         manifest' = manifest => wasClosed' = wasClosed
  PROVE  TaskInv(t)'
<1>1. /\ Phase(t)' = Phase(t) /\ Rest(t)' = Rest(t)
      /\ \A x : Ahead(t, x)' <=> Ahead(t, x)
  BY DEF Phase, Rest, Ahead
<1>2. /\ CrossInv(t) /\ SaveInv(t) /\ WalkInv(t) /\ HandInv(t)
      /\ UnpublishInv(t) /\ JoinInv(t) /\ CopyInv(t)
  BY DEF TaskInv
<1>3. /\ touched[t] \subseteq Student /\ task[t].seen \subseteq Student
      /\ task[t].cur \subseteq Student /\ Disturbed \subseteq Student
  BY DEF Types, TaskTypes, Local, Disturbed
<1>4. CASE Crosses
  <2>1. touched'[t] = Student /\ t \in crossed'
    BY <1>3, <1>4 DEF Disturbed
  <2>2. Calm(t)' = {} /\ Sound(t)' = {} /\ task'[t].seen \ touched'[t] = {}
    BY <1>3, <2>1 DEF Calm, Sound
  <2>3. CrossInv(t)' /\ SaveInv(t)' /\ WalkInv(t)'
    BY <2>1, <2>2 DEF CrossInv, SaveInv, WalkInv
  <2>4. HandInv(t)' /\ CopyInv(t)'
    BY <2>2 DEF HandInv, CopyInv
  <2>5. UnpublishInv(t)'
    BY <1>1, <1>2, <2>1, <2>2 DEF UnpublishInv, UnpublishFlags, ToTakeBack
  <2>6. JoinInv(t)'
    BY <1>1, <1>2, <2>2 DEF JoinInv
  <2>7. QED BY <2>3, <2>4, <2>5, <2>6 DEF TaskInv
<1>5. CASE ~Crosses
  <2>1. UNCHANGED <<manifest, dir, wasClosed>> /\ Load' = Load /\ (t \in crossed' <=> t \in crossed)
    BY <1>5 DEF Crosses, Load
  <2>2. /\ Calm(t)' \subseteq Calm(t) /\ Sound(t)' \subseteq Sound(t)
        /\ Sound(t)' \subseteq Calm(t)' /\ Calm(t)' \subseteq Student
    BY DEF Calm, Sound
  <2>3. \A s \in Calm(t)' :
          /\ class'[s] = class[s]
          /\ home'[s] = home[s] \/ {home[s], home'[s]} \subseteq {"starter", "work"}
          /\ kept[s] # "none" => kept'[s] # "none"
    BY <1>5 DEF Calm, Disturbed
  <2>4. CrossInv(t)'
    BY <1>2, <1>3, <2>1 DEF CrossInv
  <2>5. SaveInv(t)'
    BY <1>1, <1>2, <2>1 DEF SaveInv
  <2>6. WalkInv(t)'
    BY <1>2, <1>3, <2>3 DEF WalkInv, Calm
  <2>7. HandInv(t)'
    BY <1>1, <1>2, <2>1, <2>2, <2>3 DEF HandInv
  <2>8. UnpublishInv(t)'
    BY <1>1, <1>2, <2>1, <2>2, <2>3 DEF UnpublishInv, UnpublishFlags, ToTakeBack
  <2>9. JoinInv(t)'
    BY <1>1, <1>2, <2>1, <2>2, <2>3 DEF JoinInv, Member
  <2>10. CopyInv(t)'
    BY <1>1, <1>2, <2>2, <2>3 DEF CopyInv
  <2>11. QED BY <2>4, <2>5, <2>6, <2>7, <2>8, <2>9, <2>10 DEF TaskInv
<1>6. QED BY <1>4, <1>5

LEMMA OthersTask ==
  ASSUME NEW u \in Task, TaskStep(u) \/ HandleRequest(u), NEW t \in Task \ {u}, Types
  PROVE  task'[t] = task[t]
<1>1. ASSUME NEW l, Becomes(u, l) PROVE task'[t] = task[t]
  BY <1>1 DEF Becomes, Types, TaskTypes
<1>2. ASSUME NEW p, Goes(u, p) PROVE task'[t] = task[t]
  BY <1>1, <1>2 DEF Goes
<1>3. ASSUME NEW p, NEW cs, StartWalk(u, p, cs) PROVE task'[t] = task[t]
  BY <1>1, <1>3 DEF StartWalk
<1>4. CASE TaskStep(u)
  <2>1. CASE ListClass(u) \/ HandOut(u) \/ Reopen(u) \/ Close(u) \/ ReconcileNext(u)
             \/ ReconcileUser(u) \/ WipeKept(u)
    BY <1>1, <1>2, <2>1 DEF ListClass, HandOut, Reopen, Close, ReconcileNext, ReconcileUser,
       WipeKept
  <2>2. CASE WalkEnds(u) \/ CopyStarter(u) \/ ReconcileTarget(u) \/ ReconcileGive(u)
             \/ ReconcileRemove(u) \/ WipeDir(u) \/ MakeDir(u) \/ FillDir(u)
    BY <1>2, <2>2 DEF WalkEnds, CopyStarter, ReconcileTarget, ReconcileGive, ReconcileRemove,
       WipeDir, MakeDir, FillDir
  <2>3. CASE Truncate(u) \/ Write(u) \/ ReconcileSnapshot(u)
    BY <1>2, <2>3 DEF Truncate, Write, SaveFails, ReconcileSnapshot
  <2>4. CASE PublishLoad(u) \/ Recall(u) \/ Reload(u) \/ TakeBackDropped(u)
    BY <1>2, <1>3, <2>4 DEF PublishLoad, Recall, Reload, TakeBackDropped
  <2>5. CASE Collect(u) \/ WipeHomes(u)
    BY <1>1, <1>2, <2>5 DEF Collect, WipeHomes
  <2>6. QED BY <1>4, <2>1, <2>2, <2>3, <2>4, <2>5 DEF TaskStep
<1>5. CASE HandleRequest(u)
  BY <1>1, <1>5 DEF HandleRequest, HandlePublish, HandleUnpublish, HandleRecall, HandleDelete,
     HandleSettings, HandleCreate, HandleEnroll, HandleDelClass, HandleDelStudent, Serve
<1>6. QED BY <1>4, <1>5

(* The history of the closed flag follows the manifest.                    *)
LEMMA FileKept ==
  ASSUME Types, FileInv, AssignNext
  PROVE  FileInv' /\ (manifest' = manifest => wasClosed' = wasClosed)
<1>1. CASE UNCHANGED <<manifest, wasClosed>>
  BY <1>1 DEF FileInv
<1>2. ASSUME NEW t \in Task, TaskStep(t), ~UNCHANGED <<manifest, wasClosed>>
      PROVE  FileInv' /\ (manifest' = manifest => wasClosed' = wasClosed)
  <2>1. Phase(t) \in {"save", "trySave", "write", "tryWrite", "wipe"}
    BY <1>2, FilesOf
  <2>2. CASE Truncate(t)
    BY <1>2, <2>2 DEF Truncate, SaveFails, FileInv, Manifest
  <2>3. CASE Write(t)
    BY <1>2, <2>3 DEF Write, SaveFails, FileInv
  <2>4. CASE WipeDir(t)
    BY <2>4 DEF WipeDir, FileInv, Nil, Manifest
  <2>5. QED BY <1>2, <2>1, <2>2, <2>3, <2>4, ActionOf DEF Walks
<1>3. ASSUME NEW t \in Task, HandleRequest(t) PROVE UNCHANGED <<manifest, wasClosed>>
  BY <1>3 DEF HandleRequest, HandlePublish, HandleUnpublish, HandleRecall, HandleDelete,
     HandleSettings, HandleCreate, HandleEnroll, HandleDelClass, HandleDelStudent, fileVars
<1>4. QED BY <1>1, <1>2, <1>3 DEF AssignNext, StudentSaves, StudentDeletes

-----------------------------------------------------------------------------
(* A request begins.                                                       *)

(* First what all of them have in common.                                  *)
LEMMA BeginsWith ==
  ASSUME NEW t \in Task, Types', task'[t].prog # <<>>, touched'[t] = {}, t \notin crossed',
         task'[t].seen = {},
         Phase(t)' \in {"publish", "close", "recall", "wipe", "save", "user"},
         task'[t].kind # "publish" =>
           /\ ~task'[t].m.closed => ~wasClosed'
           /\ Ahead(t, "publish")' => ~task'[t].m.closed,
         UnpublishInv(t)', JoinInv(t)'
  PROVE  TaskInv(t)'
<1>1. /\ task'[t].prog \in Seq(PhaseName) /\ Phase(t)' = Head(task'[t].prog)
      /\ Rest(t)' = Tail(task'[t].prog) /\ Rest(t)' \in Rests(Phase(t)')
  BY DEF Types, TaskTypes, Local, ShapeOf, Phase, Rest
<1>2. \A x : Ahead(t, x)' <=> Phase(t)' = x \/ In(Rest(t)', x)
  BY <1>1, FirstStep DEF Ahead
<1>3. ~Ahead(t, "handOut")' /\ ~Ahead(t, "reopen")'
  BY <1>1, <1>2, NotAhead
<1>4. SaveInv(t)'
  BY <1>3 DEF SaveInv
<1>5. CrossInv(t)' /\ WalkInv(t)' /\ HandInv(t)' /\ CopyInv(t)'
  BY <1>3 DEF CrossInv, WalkInv, HandInv, CopyInv
<1>6. QED BY <1>4, <1>5 DEF TaskInv

LEMMA RequestBegins ==
  ASSUME Types, Types', FileInv, NEW t \in Task, HandleRequest(t), task'[t].prog # <<>>,
         touched'[t] = {}, t \notin crossed'
  PROVE  TaskInv(t)'
<1>1. UNCHANGED <<manifest, dir, wasClosed>> /\ Load' = Load
  BY DEF HandleRequest, HandlePublish, HandleUnpublish, HandleRecall, HandleDelete,
     HandleSettings, HandleCreate, HandleEnroll, HandleDelClass, HandleDelStudent, fileVars, Load
<1>2. /\ Idle.seen = {} /\ Idle.m.closed /\ Idle.prog = <<>>
      /\ Idle \in Local /\ \A x : ~In(<<>>, x)
  BY IdleIsLocal, EmptySteps DEF Idle, Nil, Manifest
<1>3. ~Load.closed => ~wasClosed
  BY LoadFacts
<1>4. ASSUME NEW k \in Kinds \ {"enroll"}, NEW h \in PhaseName, NEW p, Serve(t, k, p),
             p \in Seq(PhaseName), p # <<>>, Head(p) = h, h \in {"publish", "close", "recall", "wipe"},
             k = "publish" \/ ~In(p, "publish"),
             k = "unpublish" => h = "close" /\ Tail(p) \in Closes
      PROVE  TaskInv(t)'
  <2> DEFINE l == [Idle EXCEPT !.kind = k, !.prog = p]
  <2>1. Becomes(t, l) /\ l.prog = p
    BY <1>2, <1>4 DEF Serve, Local
  <2>2. l.kind = k /\ l.seen = {} /\ l.m.closed
    BY <1>2 DEF Local
  <2> HIDE DEF l
  <2>3. task'[t] = l
    BY <2>1, Stays
  <2>4. Phase(t)' = h /\ Rest(t)' = Tail(p) /\ (Ahead(t, "publish")' <=> In(p, "publish"))
    BY <1>4, <2>1, <2>3 DEF Phase, Rest, Ahead
  <2>5. JoinInv(t)'
    BY <1>4, <2>2, <2>3 DEF JoinInv
  <2>6. UnpublishInv(t)'
    <3>1. SUFFICES ASSUME k = "unpublish" PROVE UnpublishInv(t)'
      BY <2>2, <2>3 DEF UnpublishInv
    <3>2. Phase(t)' = "close" /\ Rest(t)' \in UnpublishSteps(Phase(t)')
      BY <1>4, <2>4, <3>1, UnpublishStepsAre
    <3>3. UnpublishFlags(t)' /\ ToTakeBack(t)'
      BY <3>2 DEF UnpublishFlags, ToTakeBack, ForOne, Steps1
    <3>4. QED BY <3>2, <3>3 DEF UnpublishInv
  <2>7. QED BY <1>4, <2>2, <2>3, <2>4, <2>5, <2>6, BeginsWith
<1>5. CASE HandlePublish(t)
  <2>1. /\ <<"publish">> \in Seq(PhaseName) /\ <<"publish">> # <<>>
        /\ Head(<<"publish">>) = "publish" /\ "publish" \in PhaseName
        /\ "publish" \in Kinds \ {"enroll"}
    BY Names, Listed DEF Kinds
  <2>2. QED BY <1>4, <1>5, <2>1 DEF HandlePublish
<1>6. CASE HandleUnpublish(t)
  <2>1. "close" \in PhaseName /\ "recall" \in PhaseName /\ "reload" \in PhaseName
    BY Names
  <2>2. /\ <<"close", "recall", "reload">> \in Seq(PhaseName)
        /\ <<"close", "recall", "reload">> # <<>>
        /\ Head(<<"close", "recall", "reload">>) = "close"
        /\ Tail(<<"close", "recall", "reload">>) = <<"recall", "reload">>
        /\ "unpublish" \in Kinds \ {"enroll"}
    BY <2>1, Listed DEF Kinds
  <2>3. ~In(<<"close", "recall", "reload">>, "publish")
    BY DEF In
  <2>4. QED BY <1>4, <1>6, <2>1, <2>2, <2>3, InEnds DEF HandleUnpublish
<1>7. CASE HandleRecall(t)
  <2>1. /\ <<"recall">> \in Seq(PhaseName) /\ <<"recall">> # <<>>
        /\ Head(<<"recall">>) = "recall" /\ "recall" \in PhaseName
        /\ "recall" \in Kinds \ {"enroll"}
    BY Names, Listed DEF Kinds
  <2>2. ~In(<<"recall">>, "publish")
    BY DEF In
  <2>3. QED BY <1>4, <1>7, <2>1, <2>2 DEF HandleRecall
<1>8. CASE HandleDelete(t)
  <2>1. "wipe" \in PhaseName /\ "wipeKept" \in PhaseName
    BY Names
  <2>2. /\ <<"wipe", "wipeKept">> \in Seq(PhaseName) /\ <<"wipe", "wipeKept">> # <<>>
        /\ Head(<<"wipe", "wipeKept">>) = "wipe" /\ "delete" \in Kinds \ {"enroll"}
    BY <2>1, Listed DEF Kinds
  <2>3. ~In(<<"wipe", "wipeKept">>, "publish")
    BY DEF In
  <2>4. QED BY <1>4, <1>8, <2>1, <2>2, <2>3 DEF HandleDelete
<1>9. ASSUME NEW cs \in SUBSET Class, HandleSettings(t, cs) PROVE TaskInv(t)'
  <2> DEFINE m == IF cs = {} THEN Load ELSE [Load EXCEPT !.classes = cs]
             A == IF cs # {} /\ ~m.closed THEN <<"publish">> ELSE <<>>
             B == IF cs # {} THEN <<"dropped">> ELSE <<>>
             r == A \o B
  <2>1. /\ m \in ManifestSet /\ r \in AfterWrite
        /\ task'[t] = [Idle EXCEPT !.kind = "settings", !.m = m,
                         !.dropped = Load.classes \ m.classes,
                         !.prog = <<"save", "write">> \o r]
    BY <1>9, ServingSettings
  <2>2. m.closed = Load.closed
    BY LoadFacts DEF ManifestSet
  <2>3. m.closed => ~In(r, "publish")
    <3>1. m.closed => r = B
      OBVIOUS
    <3>2. B \in Ends
      BY InEnds
    <3>3. ~In(B, "publish")
      BY <3>2, StepsAhead
    <3>4. QED BY <3>1, <3>3
  <2>4. r \in Seq(PhaseName)
    <3>1. A \in Seq(PhaseName) /\ B \in Seq(PhaseName)
      BY Names
    <3>2. QED BY <3>1
  <2> HIDE DEF m, r
  <2>5. /\ task'[t].kind = "settings" /\ task'[t].m = m /\ task'[t].seen = {}
        /\ task'[t].prog = <<"save", "write">> \o r
    BY <1>2, <2>1 DEF Local
  <2>6. /\ Head(<<"save", "write">> \o r) = "save" /\ <<"save", "write">> \o r # <<>>
        /\ \A x : In(<<"save", "write">> \o r, x) <=> "save" = x \/ "write" = x \/ In(r, x)
    BY <2>4, Names, AddTwoSteps
  <2>7. Phase(t)' = "save" /\ (Ahead(t, "publish")' <=> In(r, "publish"))
    BY <2>5, <2>6 DEF Phase, Ahead
  <2>8. UnpublishInv(t)' /\ JoinInv(t)'
    BY <2>5 DEF UnpublishInv, JoinInv
  <2>9. QED BY <1>1, <1>3, <2>2, <2>3, <2>5, <2>7, <2>8, BeginsWith
<1>10. ASSUME NEW cs \in SUBSET Class, HandleCreate(t, cs) PROVE TaskInv(t)'
  <2> DEFINE A == IF Load.closed THEN <<>> ELSE <<"publish">>
             m == Manifest("saved", cs, Load.closed)
             p == <<"wipe", "make", "fill", "save", "write">> \o A
  <2>1. task'[t] = [Idle EXCEPT !.kind = "create", !.m = m, !.prog = p]
    BY <1>10, ServingCreate
  <2>2. m.closed = Load.closed
    BY DEF Manifest
  <2>3. m.closed => ~In(p, "publish")
    <3>1. m.closed => p = <<"wipe", "make", "fill", "save", "write">>
      <4>1. <<"wipe", "make", "fill", "save", "write">> \o <<>> = <<"wipe", "make", "fill", "save", "write">>
        OBVIOUS
      <4>2. m.closed => A = <<>>
        BY <2>2
      <4> HIDE DEF A
      <4>3. QED BY <4>1, <4>2
    <3>2. ~In(<<"wipe", "make", "fill", "save", "write">>, "publish")
      BY DEF In
    <3>3. QED BY <3>1, <3>2
  <2>4. Head(p) = "wipe" /\ p # <<>>
    OBVIOUS
  <2> HIDE DEF m, p
  <2>5. /\ task'[t].kind = "create" /\ task'[t].m = m /\ task'[t].seen = {}
        /\ task'[t].prog = p
    BY <1>2, <2>1 DEF Local
  <2>6. Phase(t)' = "wipe" /\ (Ahead(t, "publish")' <=> In(p, "publish"))
    BY <2>4, <2>5 DEF Phase, Ahead
  <2>7. UnpublishInv(t)' /\ JoinInv(t)'
    BY <2>5 DEF UnpublishInv, JoinInv
  <2>8. QED BY <1>1, <1>3, <2>2, <2>3, <2>5, <2>6, <2>7, BeginsWith
<1>11. ASSUME NEW s \in Student, NEW c \in Class \cup {NoClass}, HandleEnroll(t, s, c)
       PROVE  TaskInv(t)'
  <2>1. task'[t] = [Idle EXCEPT !.kind = "enroll", !.prog = <<"user">>, !.cur = {s}]
    BY <1>11, ServingEnroll
  <2>2. /\ task'[t].kind = "enroll" /\ task'[t].prog = <<"user">> /\ task'[t].cur = {s}
        /\ task'[t].m = Idle.m /\ task'[t].seen = {}
    BY <1>2, <2>1 DEF Local
  <2>3. Phase(t)' = "user" /\ Rest(t)' = <<>> /\ ~Ahead(t, "publish")'
    <3>1. /\ <<"user">> # <<>> /\ Head(<<"user">>) = "user" /\ Tail(<<"user">>) = <<>>
          /\ ~In(<<"user">>, "publish")
      BY Names, Listed DEF In
    <3>2. QED BY <2>2, <3>1 DEF Phase, Rest, Ahead
  <2>4. class'[s] = c /\ c # NoAccount
    BY <1>11, AssignAssumption DEF HandleEnroll, Types
  <2>5. JoinInv(t)'
    BY <2>2, <2>3, <2>4 DEF JoinInv, ForOne, Steps1
  <2>6. UnpublishInv(t)'
    BY <2>2 DEF UnpublishInv
  <2>7. QED BY <1>2, <2>2, <2>3, <2>5, <2>6, BeginsWith
<1>12. CASE UNCHANGED task
  <2>1. Phase(t) = "idle" /\ task[t].prog # <<>> /\ task[t].prog \in Seq(PhaseName)
    BY <1>12 DEF HandleRequest, HandlePublish, HandleUnpublish, HandleRecall, HandleDelete,
       HandleSettings, HandleCreate, HandleEnroll, HandleDelClass, HandleDelStudent, Request,
       Types, TaskTypes, Local
  <2>2. Head(task[t].prog) \in PhaseName
    BY <2>1, FirstStep
  <2>3. "idle" \notin PhaseName
    BY DEF PhaseName, Walks
  <2>4. QED BY <2>1, <2>2, <2>3 DEF Phase
<1>13. QED
  BY <1>5, <1>6, <1>7, <1>8, <1>9, <1>10, <1>11, <1>12
  DEF HandleRequest, HandleDelClass, HandleDelStudent

-----------------------------------------------------------------------------
(* The invariant.                                                          *)

(* What the history says of a request under way, or of one that begins.    *)
LEMMA NoteOf ==
  ASSUME Types, NEW own, Note(own), NEW t \in Task, task'[t].prog # <<>>
  PROVE  /\ Phase(t) = "idle" => touched'[t] = {} /\ t \notin crossed'
         /\ Phase(t) # "idle" /\ t \in own =>
              /\ touched'[t] = touched[t] /\ broke'[t] = broke[t] \cup BreaksOff(t)
              /\ t \in crossed' <=> t \in crossed
         /\ Phase(t) # "idle" /\ t \notin own =>
              /\ touched'[t] = touched[t] \cup Disturbed /\ broke'[t] = broke[t]
              /\ t \in crossed' <=> t \in crossed \/ Crosses
BY DEF Note

LEMMA SchoolStep ==
  ASSUME SchoolInv, [AssignNext]_assignVars
  PROVE  SchoolInv'
<1>1. Types /\ FileInv /\ Types'
  BY TypesStep DEF SchoolInv
<1>2. CASE UNCHANGED assignVars
  <2>1. FileInv'
    BY <1>1, <1>2 DEF FileInv, assignVars, fileVars
  <2>2. ASSUME NEW t \in Task, Phase(t)' # "idle" PROVE TaskInv(t)'
    <3>1. TaskInv(t)
      BY <1>2, <2>2 DEF SchoolInv, assignVars, Phase
    <3>2. QED
      BY <1>2, <3>1 DEF assignVars, fileVars, noteVars, TaskInv, CrossInv, SaveInv, WalkInv,
         HandInv, UnpublishInv, UnpublishFlags, ToTakeBack, JoinInv, CopyInv, Member, Calm,
         Sound, Phase, Rest, Ahead, Load
  <2>3. QED BY <1>1, <2>1, <2>2 DEF SchoolInv
<1>3. CASE AssignNext
  <2>1. FileInv' /\ (manifest' = manifest => wasClosed' = wasClosed)
    BY <1>1, <1>3, FileKept
  <2>2. ASSUME NEW t \in Task, Phase(t)' # "idle" PROVE TaskInv(t)'
    <3>1. task'[t].prog # <<>>
      BY <2>2 DEF Phase
    <3>2. Phase(t) # "idle" => TaskInv(t)
      BY DEF SchoolInv
    <3>3. ASSUME NEW own, Note(own), t \notin own, task'[t] = task[t] PROVE TaskInv(t)'
      <4>1. Phase(t) # "idle"
        BY <2>2, <3>3 DEF Phase
      <4>2. QED BY <1>1, <2>1, <3>1, <3>2, <3>3, <4>1, NoteOf, OthersKeep
    <3>4. CASE \E s \in Student : (StudentSaves(s) \/ StudentDeletes(s)) /\ Note({})
      BY <3>3, <3>4 DEF StudentSaves, StudentDeletes
    <3>5. ASSUME NEW u \in Task, TaskStep(u) \/ HandleRequest(u), Note({u}) PROVE TaskInv(t)'
      <4>1. CASE u # t
        <5>1. task'[t] = task[t]
          BY <1>1, <3>5, <4>1, OthersTask
        <5>2. QED BY <3>3, <3>5, <4>1, <5>1
      <4>2. CASE u = t /\ TaskStep(t)
        <5>1. Phase(t) # "idle"
          BY <4>2, Busy
        <5>2. /\ touched'[t] = touched[t] /\ broke'[t] = broke[t] \cup BreaksOff(t)
              /\ t \in crossed' <=> t \in crossed
          BY <1>1, <3>1, <3>5, <4>2, <5>1, NoteOf
        <5>3. Own(t)
          BY <1>1, <3>1, <3>2, <4>2, <5>1, <5>2 DEF Own
        <5>4. QED BY <5>3, OwnKeeps
      <4>3. CASE u = t /\ HandleRequest(t)
        <5>1. Phase(t) = "idle"
          BY <4>3 DEF HandleRequest, HandlePublish, HandleUnpublish, HandleRecall,
             HandleDelete, HandleSettings, HandleCreate, HandleEnroll, HandleDelClass,
             HandleDelStudent, Request
        <5>2. touched'[t] = {} /\ t \notin crossed'
          BY <1>1, <3>1, <3>5, <5>1, NoteOf
        <5>3. QED BY <1>1, <3>1, <4>3, <5>2, RequestBegins
      <4>4. QED BY <3>5, <4>1, <4>2, <4>3
    <3>6. QED BY <1>3, <3>4, <3>5 DEF AssignNext
  <2>3. QED BY <1>1, <2>1, <2>2 DEF SchoolInv
<1>4. QED BY <1>2, <1>3

LEMMA SchoolAlways == AssignSpec => []SchoolInv
<1>1. AssignInit => SchoolInv
  <2>1. SUFFICES ASSUME AssignInit PROVE SchoolInv
    OBVIOUS
  <2>2. FileInv
    BY <2>1 DEF AssignInit, FileInv, Load
  <2>3. \A t \in Task : Phase(t) = "idle"
    BY <2>1, IdleIsLocal DEF AssignInit, Phase
  <2>4. QED BY <2>1, <2>2, <2>3, InitTypes DEF SchoolInv
<1>2. QED BY <1>1, SchoolStep, PTL DEF AssignSpec

(* A request that is over was at its last step.                            *)
LEMMA EndsNow ==
  ASSUME Types, NEW t \in Task, task'[t].prog = <<>>
  PROVE  /\ \A l : Becomes(t, l) => l.prog = <<>>
         /\ \A p : Goes(t, p) => p = <<>>
<1>1. ASSUME NEW l, Becomes(t, l) PROVE l.prog = <<>>
  BY <1>1 DEF Becomes, Types, TaskTypes
<1>2. ASSUME NEW p, Goes(t, p) PROVE p = <<>>
  <2> DEFINE l == [task[t] EXCEPT !.prog = p]
  <2>1. Becomes(t, l)
    BY <1>2 DEF Goes
  <2>2. l.prog = p
    BY DEF Types, TaskTypes, Local
  <2> HIDE DEF l
  <2>3. QED BY <1>1, <2>1, <2>2
<1>3. QED BY <1>1, <1>2

-----------------------------------------------------------------------------
(* What follows, for any number of requests at once.                       *)

(* A request with a step less to take has something else to do.           *)
LEMMA TailDiffers == \A p \in Seq(PhaseName) : p # <<>> => Tail(p) # p
<1>1. ASSUME NEW p \in Seq(PhaseName), NEW q \in Seq(PhaseName), Len(q) = Len(p) - 1
      PROVE  q # p
  <2>1. ASSUME NEW n \in Nat, NEW k \in Nat, n = k - 1 PROVE n # k
    BY <2>1
  <2>2. Len(p) \in Nat /\ Len(q) \in Nat
    OBVIOUS
  <2>3. Len(q) # Len(p)
    BY <1>1, <2>1, <2>2
  <2>4. QED BY <2>3
<1>2. ASSUME NEW p \in Seq(PhaseName), p # <<>>
      PROVE  Tail(p) \in Seq(PhaseName) /\ Len(Tail(p)) = Len(p) - 1
  BY <1>2
<1>3. QED BY <1>1, <1>2

(* Only Publish opens an assignment that was closed, or a request whose    *)
(* manifest was changed by another after it had read it.                   *)
THEOREM OnlyPublishMayOpen == AssignSpec => OnlyPublishOpens
<1>1. ASSUME SchoolInv, [AssignNext]_assignVars, wasClosed, ~wasClosed'
      PROVE  \E t \in Task : task'[t] # task[t] /\ (task[t].kind = "publish" \/ t \in crossed)
  <2>1. AssignNext /\ wasClosed' # wasClosed
    BY <1>1 DEF assignVars
  <2>2. PICK t \in Task : TaskStep(t)
    BY <2>1 DEF AssignNext, StudentSaves, StudentDeletes, HandleRequest, HandlePublish,
       HandleUnpublish, HandleRecall, HandleDelete, HandleSettings, HandleCreate, HandleEnroll,
       HandleDelClass, HandleDelStudent
  <2>3. Phase(t) \in {"write", "tryWrite"} /\ Write(t)
    BY <2>1, <2>2, FilesOf, ActionOf DEF Walks
  <2>4. /\ manifest' \in Written(task[t].m) /\ Goes(t, Rest(t))
        /\ wasClosed' = IF manifest'.file = "saved" THEN manifest'.closed ELSE wasClosed
    BY <2>1, <2>3 DEF Write, SaveFails
  <2>5. Types /\ TaskInv(t) /\ Phase(t) # "idle"
    BY <1>1, <2>3 DEF SchoolInv
  <2>6. task'[t] # task[t]
    <3>1. task[t].prog \in Seq(PhaseName) /\ task[t].prog # <<>> /\ Rest(t) = Tail(task[t].prog)
      BY <2>5, AtWork DEF Rest
    <3>2. Tail(task[t].prog) # task[t].prog
      BY <3>1, TailDiffers
    <3>3. task'[t].prog # <<>> => task'[t].prog = Rest(t)
      BY <2>4, <2>5, StaysGoing
    <3>4. QED BY <3>1, <3>2, <3>3
  <2>7. ASSUME t \notin crossed, task[t].kind # "publish" PROVE FALSE
    <3>1. manifest.file = "empty" /\ (~task[t].m.closed => ~wasClosed)
      BY <2>3, <2>5, <2>7 DEF TaskInv, SaveInv
    <3>2. manifest' = task[t].m
      BY <2>4, <3>1 DEF Written
    <3>3. QED BY <1>1, <2>4, <3>1, <3>2
  <2>8. QED BY <2>6, <2>7
<1>2. QED BY <1>1, SchoolAlways, PTL DEF AssignSpec, OnlyPublishOpens

(* When Publish has gone through the students of the classes, each of them *)
(* whom no other request has disturbed has the files of the starter.       *)
THEOREM PublishAlwaysReaches == AssignSpec => []PublishReaches
<1>1. SchoolInv => PublishReaches
  <2>1. SUFFICES ASSUME SchoolInv, NEW t \in Task, Walked(t, "handOut"), dir = "ready",
                        NEW s \in Student \ (touched[t] \cup broke[t]),
                        class[s] \in Load.classes
                 PROVE  home[s] \in {"starter", "work"}
    BY DEF PublishReaches
  <2>2. Phase(t) = "handOut" /\ task[t].todo = {} /\ task[t].queue = {}
    BY <2>1 DEF Walked
  <2>3. Types /\ HandInv(t)
    BY <2>1, <2>2 DEF SchoolInv, TaskInv
  <2>4. Ahead(t, "handOut")
    BY <2>2, <2>3, AtWork
  <2>5. QED BY <2>1, <2>2, <2>3, <2>4 DEF HandInv, Sound
<1>2. QED BY <1>1, SchoolAlways, PTL

(* When Unpublish has gone through them, none of those still has it.       *)
THEOREM UnpublishAlwaysTakesBack == AssignSpec => []UnpublishTakesBack
<1>1. SchoolInv => UnpublishTakesBack
  <2>1. SUFFICES ASSUME SchoolInv, NEW t \in Task, task[t].kind = "unpublish",
                        Walked(t, "reconcile"), NEW s \in Student \ touched[t],
                        class[s] \in Load.classes
                 PROVE  home[s] = "none"
    BY DEF UnpublishTakesBack
  <2>2. Phase(t) = "reconcile" /\ task[t].todo = {} /\ task[t].queue = {}
    BY <2>1 DEF Walked
  <2>3. ToTakeBack(t)
    BY <2>1, <2>2 DEF SchoolInv, TaskInv, UnpublishInv
  <2>4. QED BY <2>1, <2>2, <2>3 DEF ToTakeBack, Calm
<1>2. QED BY <1>1, SchoolAlways, PTL

(* What a reconcile takes away has been copied, and the copy is still      *)
(* there, unless it broke off or another request removed it.               *)
THEOREM CopyBeforeRemove == AssignSpec => []TakenBackLeavesCopy
<1>1. SchoolInv => TakenBackLeavesCopy
  <2>1. SUFFICES ASSUME SchoolInv, NEW t \in Task, Phase(t) = "remove",
                        NEW s \in task[t].cur \ (touched[t] \cup broke[t]), home[s] # "none"
                 PROVE  kept[s] # "none"
    BY DEF TakenBackLeavesCopy
  <2>2. Types /\ CopyInv(t)
    BY <2>1 DEF SchoolInv, TaskInv
  <2>3. s \in task[t].cur \cap Sound(t)
    BY <2>1, <2>2 DEF Types, TaskTypes, Local, Sound
  <2>4. QED BY <2>1, <2>2, <2>3 DEF CopyInv
<1>2. QED BY <1>1, SchoolAlways, PTL

(* Whoever joins a class ends up with what the class has, and with nothing *)
(* it has not.                                                             *)
THEOREM JoinersAreServed == AssignSpec => JoinerIsServed
<1>1. ASSUME SchoolInv, [AssignNext]_assignVars, NEW t \in Task,
             task[t].kind = "enroll", task'[t].kind = "idle",
             NEW s \in task[t].cur \ (touched[t] \cup broke[t] \cup BreaksOff(t)),
             manifest.file # "none"
      PROVE  home'[s] # "none" <=> ~Load.closed /\ class[s] \in Load.classes
  <2>1. Types /\ FileInv
    BY <1>1 DEF SchoolInv
  <2>2. Phase(t) # "idle"
    <3>1. task[t].prog # <<>>
      BY <1>1, <2>1 DEF Types, TaskTypes, Idle
    <3>2. task[t].prog \in Seq(PhaseName)
      BY <2>1 DEF Types, TaskTypes, Local
    <3>3. Head(task[t].prog) \in PhaseName
      BY <3>1, <3>2, FirstStep
    <3>4. QED BY <3>1, <3>3 DEF Phase, PhaseName, Walks
  <2>3. /\ AssignNext /\ TaskStep(t)
    <3>1. AssignNext
      BY <1>1 DEF assignVars
    <3>2. \A u \in Task \ {t} : ~(TaskStep(u) \/ HandleRequest(u))
      BY <1>1, <2>1, OthersTask
    <3>3. ~HandleRequest(t)
      BY <2>2 DEF HandleRequest, HandlePublish, HandleUnpublish, HandleRecall, HandleDelete,
         HandleSettings, HandleCreate, HandleEnroll, HandleDelClass, HandleDelStudent, Request
    <3>4. QED BY <1>1, <3>1, <3>2, <3>3 DEF AssignNext, StudentSaves, StudentDeletes
  <2>4. task'[t].prog = <<>>
    BY <1>1, <2>1, <2>3, StepForm
  <2>5. /\ Phase(t) \in ForOne /\ Rest(t) = <<>>
        /\ s \in Student
        /\ class[s] # NoAccount
        /\ Phase(t) \in {"give", "copy"} => Member(s)
        /\ Phase(t) \in {"snapshot", "remove"} => ~Member(s)
    <3>1. JoinInv(t) /\ task[t].cur \subseteq Student
      BY <1>1, <2>1, <2>2 DEF SchoolInv, TaskInv, Types, TaskTypes, Local
    <3>2. s \in task[t].cur \cap Sound(t)
      BY <1>1, <3>1 DEF Sound
    <3>3. QED BY <1>1, <3>1, <3>2 DEF JoinInv
  <2>6. Cur(t) = s
    BY <1>1, <2>1, <2>5, CurIsStudent DEF ForOne
  <2>7. \A h \in PhaseName : ~Goes(t, <<h>> \o Rest(t))
    BY <2>1, <2>4, <2>5, EndsNow
  <2>8. {"target", "give", "snapshot", "remove", "copy"} \subseteq PhaseName
    BY Names
  <2>9. CASE Phase(t) = "user"
    <3>1. ReconcileUser(t)
      BY <2>3, <2>9, ActionOf DEF Walks
    <3>2. Becomes(t, [task[t] EXCEPT !.prog = <<"target">> \o Rest(t), !.cls = class[Cur(t)]])
      BY <2>5, <2>6, <3>1 DEF ReconcileUser
    <3>3. [task[t] EXCEPT !.prog = <<"target">> \o Rest(t), !.cls = class[Cur(t)]].prog = <<>>
      BY <2>1, <2>4, <3>2, EndsNow
    <3>4. <<"target">> \o Rest(t) = <<>>
      BY <2>1, <3>3 DEF Types, TaskTypes, Local
    <3>5. QED BY <2>5, <3>4
  <2>10. CASE Phase(t) = "target"
    <3>1. ReconcileTarget(t)
      BY <2>3, <2>10, ActionOf DEF Walks
    <3>2. Goes(t, <<"give">> \o Rest(t)) \/ Goes(t, <<"snapshot">> \o Rest(t))
      BY <3>1 DEF ReconcileTarget
    <3>3. QED BY <2>7, <2>8, <3>2
  <2>11. CASE Phase(t) = "give"
    <3>1. ReconcileGive(t) /\ home' = home
      BY <2>3, <2>11, ActionOf, FilesOf DEF Walks
    <3>2. home[s] # "none"
      BY <2>6, <2>7, <2>8, <3>1 DEF ReconcileGive
    <3>3. QED BY <2>5, <2>11, <3>1, <3>2 DEF Member
  <2>12. CASE Phase(t) = "copy"
    <3>1. home'[s] = Overlay(home[s], Starter)
      BY <1>1, <2>12 DEF BreaksOff
    <3>2. Member(s) /\ dir # "none"
      BY <2>1, <2>5, <2>12, LoadFacts DEF Member
    <3>3. Starter # "none"
      BY <3>2 DEF Starter
    <3>4. QED BY <3>1, <3>2, <3>3 DEF Overlay, Member
  <2>13. CASE Phase(t) = "snapshot"
    <3>1. ReconcileSnapshot(t) /\ home' = home
      BY <2>3, <2>13, ActionOf, FilesOf DEF Walks
    <3>2. home[s] = "none"
      BY <1>1, <2>6, <2>7, <2>8, <3>1 DEF ReconcileSnapshot
    <3>3. QED BY <2>5, <2>13, <3>1, <3>2 DEF Member
  <2>14. CASE Phase(t) = "remove"
    <3>1. ReconcileRemove(t)
      BY <2>3, <2>14, ActionOf DEF Walks
    <3>2. home'[s] = "none"
      BY <2>1, <2>5, <2>6, <3>1 DEF ReconcileRemove, Types
    <3>3. QED BY <2>5, <2>14, <3>2 DEF Member
  <2>15. QED
    BY <2>5, <2>9, <2>10, <2>11, <2>12, <2>13, <2>14 DEF ForOne, Steps1
<1>2. ASSUME SchoolInv, [AssignNext]_assignVars
      PROVE  \A t \in Task : task[t].kind = "enroll" /\ task'[t].kind = "idle" =>
               \A s \in task[t].cur \ (touched[t] \cup broke[t] \cup BreaksOff(t)) :
                 manifest.file # "none" =>
                   (home'[s] # "none" <=> ~Load.closed /\ class[s] \in Load.classes)
  BY <1>1, <1>2
<1>3. QED BY <1>2, SchoolAlways, PTL DEF AssignSpec, JoinerIsServed
=============================================================================
