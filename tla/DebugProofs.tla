----------------------------- MODULE DebugProofs -----------------------------
(***************************************************************************)
(* For queues of any length and any number of stops and of commands: each  *)
(* queue of a debugging session has one reader, what the editor shows is   *)
(* where the program stands unless a command was given too many, and       *)
(* program and editor take turns as StopAndGo says.                        *)
(***************************************************************************)
EXTENDS Debug, FiniteSetTheorems, TLAPS

dc == "debug-command"
de == "debug-event"

Runs == {"loading", "running"}
Resumes == {Resume(k) : k \in Telling}
Stoppeds == {Stopped(n) : n \in StopNo}
Said == Stoppeds \cup {EvalEvent(n) : n \in StopNo} \cup {Ack}
Message == Command \cup Said

(* What q holds; of the messages in S, each once; stops in their order.    *)
Held(q) == {q[i] : i \in 1 .. Len(q)}
Once(q, S) == \A i, j \in 1 .. Len(q) : q[i] \in S /\ q[i] = q[j] => i = j
Rising(q) ==
  \A i, j \in 1 .. Len(q) :
    i < j /\ q[i] \in Stoppeds /\ q[j] \in Stoppeds => q[i].of < q[j].of

-----------------------------------------------------------------------------
(* Sequences and messages.                                                 *)

LEMMA EmptyQueue ==
  ASSUME NEW S
  PROVE  Held(<<>>) = {} /\ Once(<<>>, S) /\ Rising(<<>>)
BY DEF Held, Once, Rising

LEMMA QueueOps ==
  ASSUME NEW T
  PROVE  /\ <<>> \in Seq(T)
         /\ \A q \in Seq(T), m \in T : Append(q, m) \in Seq(T)
         /\ \A q \in Seq(T) : q # <<>> => Tail(q) \in Seq(T)
OBVIOUS

(* A message at the end of a queue is the last, and no second of its kind  *)
(* if there was none.                                                      *)
LEMMA AppendQueue ==
  ASSUME NEW T, NEW q \in Seq(T), NEW m \in T, NEW S
  PROVE  /\ Held(Append(q, m)) = Held(q) \cup {m}
         /\ Once(q, S) /\ m \notin Held(q) \cap S => Once(Append(q, m), S)
         /\ /\ Rising(q)
            /\ m \in Stoppeds => \A n \in Held(q) \cap Stoppeds : n.of < m.of
            => Rising(Append(q, m))
<1>1. /\ Len(Append(q, m)) = Len(q) + 1 /\ Len(q) \in Nat
      /\ \A i \in 1 .. Len(q) : Append(q, m)[i] = q[i]
      /\ Append(q, m)[Len(q) + 1] = m
  OBVIOUS
<1>2. /\ \A i \in 1 .. Len(q) + 1 : i \in 1 .. Len(q) \/ i = Len(q) + 1
      /\ \A i \in 1 .. Len(q) : i \in 1 .. Len(q) + 1
      /\ Len(q) + 1 \in 1 .. Len(q) + 1
  BY <1>1
<1>3. Held(Append(q, m)) = Held(q) \cup {m}
  BY <1>1, <1>2 DEF Held
<1>4. ASSUME Once(q, S), m \notin Held(q) \cap S
      PROVE  Once(Append(q, m), S)
  BY <1>1, <1>2, <1>4 DEF Once, Held
<1>5. ASSUME Rising(q), m \in Stoppeds => \A n \in Held(q) \cap Stoppeds : n.of < m.of
      PROVE  Rising(Append(q, m))
  <2> SUFFICES ASSUME NEW i \in 1 .. Len(q) + 1, NEW j \in 1 .. Len(q) + 1, i < j,
                      Append(q, m)[i] \in Stoppeds, Append(q, m)[j] \in Stoppeds
               PROVE  Append(q, m)[i].of < Append(q, m)[j].of
    BY <1>1 DEF Rising
  <2>1. i \in 1 .. Len(q)
    BY <1>1
  <2>2. CASE j \in 1 .. Len(q)
    BY <1>1, <1>5, <2>1, <2>2 DEF Rising
  <2>3. CASE j = Len(q) + 1
    BY <1>1, <1>5, <2>1, <2>3 DEF Held
  <2>4. QED BY <1>2, <2>2, <2>3
<1>6. QED BY <1>3, <1>4, <1>5

(* Who takes the head of a queue leaves the rest, and that comes after it. *)
LEMMA TailQueue ==
  ASSUME NEW T, NEW q \in Seq(T), q # <<>>, NEW S
  PROVE  /\ Held(Tail(q)) \subseteq Held(q) /\ Head(q) \in Held(q)
         /\ Once(q, S) => /\ Once(Tail(q), S)
                          /\ Head(q) \in S => Head(q) \notin Held(Tail(q))
         /\ Rising(q) =>
              /\ Rising(Tail(q))
              /\ Head(q) \in Stoppeds =>
                   \A n \in Held(Tail(q)) \cap Stoppeds : Head(q).of < n.of
<1>1. /\ Len(q) \in Nat /\ Len(q) > 0 /\ Len(Tail(q)) = Len(q) - 1
      /\ \A i \in 1 .. Len(q) - 1 : Tail(q)[i] = q[i + 1]
      /\ Head(q) = q[1]
  OBVIOUS
<1>2. /\ \A i \in 1 .. Len(q) - 1 : i + 1 \in 1 .. Len(q) /\ i + 1 > 1
      /\ 1 \in 1 .. Len(q)
  BY <1>1
<1>3. Held(Tail(q)) \subseteq Held(q) /\ Head(q) \in Held(q)
  BY <1>1, <1>2 DEF Held
<1>4. ASSUME Once(q, S)
      PROVE  Once(Tail(q), S) /\ (Head(q) \in S => Head(q) \notin Held(Tail(q)))
  <2>1. Once(Tail(q), S)
    BY <1>1, <1>2, <1>4 DEF Once
  <2>2. ASSUME Head(q) \in S, NEW i \in 1 .. Len(q) - 1, Head(q) = Tail(q)[i]
        PROVE  FALSE
    BY <1>1, <1>2, <1>4, <2>2 DEF Once
  <2>3. QED BY <1>1, <2>1, <2>2 DEF Held
<1>5. ASSUME Rising(q)
      PROVE  /\ Rising(Tail(q))
             /\ Head(q) \in Stoppeds =>
                  \A n \in Held(Tail(q)) \cap Stoppeds : Head(q).of < n.of
  <2>1. Rising(Tail(q))
    BY <1>1, <1>2, <1>5 DEF Rising
  <2>2. ASSUME Head(q) \in Stoppeds, NEW i \in 1 .. Len(q) - 1, Tail(q)[i] \in Stoppeds
        PROVE  Head(q).of < Tail(q)[i].of
    BY <1>1, <1>2, <1>5, <2>2 DEF Rising
  <2>3. QED BY <1>1, <2>1, <2>2 DEF Held
<1>6. QED BY <1>3, <1>4, <1>5

(* The kinds of messages are apart.                                        *)
LEMMA Commands ==
  /\ \A k \in Telling : Resume(k) \in Resumes /\ Resume(k).of = k
  /\ \A n \in StopNo : Evaluate(n) \notin Resumes /\ Evaluate(n) \in Command
  /\ {Breakpoints, StopCmd} \subseteq Command
  /\ {Breakpoints, StopCmd, End, Wait, None} \cap Resumes = {}
  /\ {Wait, End, None} \cap Command = {}
  /\ Resumes \subseteq Command
<1>1. \A k \in Telling : Resume(k) \in Resumes /\ Resume(k).of = k
  BY DEF Resume, Resumes
<1>2. \A m \in Resumes : m.cmd = "resume"
  BY DEF Resumes, Resume
<1>3. \A n \in StopNo : Evaluate(n) \notin Resumes /\ Evaluate(n) \in Command
  BY <1>2 DEF Evaluate, Command
<1>4. {Breakpoints, StopCmd} \subseteq Command
  BY DEF Command
<1>5. {Breakpoints, StopCmd, End, Wait, None} \cap Resumes = {}
  BY <1>2 DEF Breakpoints, StopCmd, End, Wait, None
<1>6. \A m \in Command : m.cmd \in {"resume", "evaluate", "breakpoints", "stop"}
  BY DEF Command, Resume, Evaluate, Breakpoints, StopCmd
<1>7. {Wait, End, None} \cap Command = {}
  BY <1>6 DEF End, Wait, None
<1>8. Resumes \subseteq Command
  BY DEF Resumes, Command
<1>9. QED BY <1>1, <1>3, <1>4, <1>5, <1>7, <1>8

LEMMA Events ==
  /\ \A n \in StopNo : /\ Stopped(n) \in Stoppeds /\ Stopped(n).of = n
                       /\ Stopped(n).t = "stopped"
                       /\ EvalEvent(n) \notin Stoppeds
  /\ {Ack, Nothing} \cap Stoppeds = {}
  /\ Nothing \notin Said /\ Said \cup {Nothing} \subseteq Event
  /\ \A m \in Said \cup {Nothing} : m.t = "stopped" <=> m \in Stoppeds
<1>0. StopNo \subseteq 0 .. MaxStops /\ 0 \in 0 .. MaxStops
  BY DebugAssumption DEF StopNo
<1>1. ASSUME NEW n \in StopNo
      PROVE  /\ Stopped(n) \in Event /\ EvalEvent(n) \in Event
             /\ Stopped(n) \in Stoppeds
             /\ Stopped(n).of = n /\ Stopped(n).t = "stopped"
             /\ EvalEvent(n).t = "eval"
  BY <1>0 DEF Stopped, EvalEvent, Stoppeds, Event
<1>2. \A m \in Stoppeds : m.t = "stopped"
  BY <1>1 DEF Stoppeds
<1>3. Ack.t = "ack" /\ Nothing.t = "none" /\ {Ack, Nothing} \subseteq Event
  BY <1>0 DEF Ack, Nothing, Event
<1>4. \A m \in Said : m.t = "stopped" <=> m \in Stoppeds
  BY <1>1, <1>2, <1>3 DEF Said
<1>5. \A m \in Said : m \in Event /\ m.t # "none"
  BY <1>1, <1>2, <1>3 DEF Said, Stoppeds
<1>6. QED BY <1>1, <1>2, <1>3, <1>4, <1>5

-----------------------------------------------------------------------------
(* The relay.                                                              *)

RelayTypes ==
  /\ queue \in [Channel -> Seq(Message)] /\ orphan \in [Channel -> Seq(Message)]
  /\ wait \in [Channel -> {"no"} \cup Waiting]
  /\ \A c \in Channel : Len(queue[c]) <= QueueMax /\ Len(orphan[c]) <= QueueMax

LEMMA PushOn ==
  ASSUME RelayTypes, NEW c \in Channel, NEW m \in Message, RelayPush(c, m)
  PROVE  /\ RelayTypes'
         /\ orphan' = orphan /\ wait' = wait
         /\ queue'[c] = queue[c] \/ queue'[c] = Append(queue[c], m)
         /\ \A d \in Channel : d # c => queue'[d] = queue[d]
<1>1. CASE Len(queue[c]) < QueueMax
  <2>1. /\ queue' = [queue EXCEPT ![c] = Append(queue[c], m)]
        /\ orphan' = orphan /\ wait' = wait
    BY <1>1, RelayAssumption DEF RelayPush, Full, RelayTypes
  <2>2. Append(queue[c], m) \in Seq(Message) /\ Len(Append(queue[c], m)) <= QueueMax
    BY <1>1, RelayAssumption DEF RelayTypes
  <2>3. queue' \in [Channel -> Seq(Message)]
    BY <2>1, <2>2 DEF RelayTypes
  <2>4. /\ queue'[c] = Append(queue[c], m)
        /\ \A d \in Channel : d # c => queue'[d] = queue[d]
    BY <2>1 DEF RelayTypes
  <2>5. QED BY <2>1, <2>2, <2>3, <2>4 DEF RelayTypes
<1>2. CASE ~(Len(queue[c]) < QueueMax)
  BY <1>2, RelayAssumption DEF RelayPush, Full, RelayTypes
<1>3. QED BY <1>1, <1>2

LEMMA WaitOn ==
  ASSUME RelayTypes, NEW c \in Channel, RelayWait(c)
  PROVE  /\ RelayTypes'
         /\ queue' = queue /\ orphan' = orphan
         /\ wait[c] = "no" /\ wait'[c] = "here"
         /\ \A d \in Channel : d # c => wait'[d] = wait[d]
BY DEF RelayWait, RelayTypes, Waiting

LEMMA ReceiveOn ==
  ASSUME RelayTypes, NEW c \in Channel, RelayReceive(c)
  PROVE  /\ RelayTypes'
         /\ wait[c] \in Waiting /\ wait'[c] = "no"
         /\ \A d \in Channel : d # c => /\ wait'[d] = wait[d] /\ queue'[d] = queue[d]
                                        /\ orphan'[d] = orphan[d]
         /\ \/ /\ wait[c] = "here" /\ queue[c] # <<>> /\ Heard(c) = queue[c]
               /\ queue'[c] = Tail(queue[c]) /\ orphan'[c] = orphan[c]
            \/ /\ wait[c] = "apart" /\ orphan[c] # <<>> /\ Heard(c) = orphan[c]
               /\ queue'[c] = queue[c]
<1>1. wait'[c] = "no" /\ (\A d \in Channel : d # c => wait'[d] = wait[d])
      /\ wait' \in [Channel -> {"no"} \cup Waiting]
      /\ wait[c] \in Waiting
  BY DEF RelayReceive, RelayTypes
<1>2. CASE wait[c] = "here"
  <2>1. /\ queue' = [queue EXCEPT ![c] = Tail(queue[c])] /\ orphan' = orphan
        /\ queue[c] # <<>>
    BY <1>2 DEF RelayReceive, Heard
  <2>2. Tail(queue[c]) \in Seq(Message) /\ Len(Tail(queue[c])) <= QueueMax
    BY <2>1, RelayAssumption DEF RelayTypes
  <2>3. queue' \in [Channel -> Seq(Message)]
    BY <2>1, <2>2 DEF RelayTypes
  <2>4. /\ queue'[c] = Tail(queue[c])
        /\ \A d \in Channel : d # c => queue'[d] = queue[d]
    BY <2>1 DEF RelayTypes
  <2>5. QED BY <1>1, <1>2, <2>1, <2>2, <2>3, <2>4 DEF RelayTypes, Heard
<1>3. CASE wait[c] # "here"
  <2>1. /\ orphan' = [orphan EXCEPT ![c] = Tail(orphan[c])] /\ queue' = queue
        /\ orphan[c] # <<>> /\ wait[c] = "apart"
    BY <1>1, <1>3 DEF RelayReceive, Heard, Waiting
  <2>2. Tail(orphan[c]) \in Seq(Message) /\ Len(Tail(orphan[c])) <= QueueMax
    BY <2>1, RelayAssumption DEF RelayTypes
  <2>3. orphan' \in [Channel -> Seq(Message)]
    BY <2>1, <2>2 DEF RelayTypes
  <2>4. /\ orphan'[c] = Tail(orphan[c])
        /\ \A d \in Channel : d # c => orphan'[d] = orphan[d]
    BY <2>1 DEF RelayTypes
  <2>5. QED BY <1>1, <1>3, <2>1, <2>2, <2>3, <2>4 DEF RelayTypes, Heard
<1>4. QED BY <1>2, <1>3

LEMMA GivesUpOn ==
  ASSUME RelayTypes, NEW c \in Channel, RelayGivesUp(c)
  PROVE  /\ RelayTypes'
         /\ queue' = queue /\ orphan' = orphan
         /\ wait[c] \in Waiting /\ wait'[c] = "no"
         /\ \A d \in Channel : d # c => wait'[d] = wait[d]
BY DEF RelayGivesUp, RelayTypes, Waiting

LEMMA DropOn ==
  ASSUME RelayTypes, DropRelayQueues
  PROVE  /\ RelayTypes'
         /\ \A c \in Channel :
              /\ queue'[c] = <<>>
              /\ orphan'[c] = IF wait[c] = "here" THEN queue[c] ELSE orphan[c]
              /\ wait'[c] = IF wait[c] = "no" THEN "no" ELSE "apart"
<1>1. \A c \in Channel :
        /\ queue'[c] = <<>>
        /\ orphan'[c] = IF wait[c] = "here" THEN queue[c] ELSE orphan[c]
        /\ wait'[c] = IF wait[c] = "no" THEN "no" ELSE "apart"
  BY DEF DropRelayQueues
<1>2. queue' \in [Channel -> Seq(Message)]
  BY DEF DropRelayQueues
<1>3. orphan' \in [Channel -> Seq(Message)]
  BY DEF DropRelayQueues, RelayTypes
<1>4. wait' \in [Channel -> {"no"} \cup Waiting]
  BY DEF DropRelayQueues, Waiting
<1>5. \A c \in Channel : Len(queue'[c]) <= QueueMax /\ Len(orphan'[c]) <= QueueMax
  BY <1>1, RelayAssumption DEF RelayTypes
<1>6. QED BY <1>2, <1>3, <1>4, <1>5 DEF RelayTypes, DropRelayQueues

-----------------------------------------------------------------------------
(* Types.                                                                  *)

QueueTypes ==
  /\ queue[dc] \in Seq(Command) /\ orphan[dc] \in Seq(Command)
  /\ queue[de] \in Seq(Said) /\ orphan[de] \in Seq(Said)

SessionTypes ==
  /\ pc \in Place
  /\ stops \in 0 .. MaxStops
  /\ say \in Said \cup {Nothing}
  /\ ask \in [at : {"no", "sent", "pushed", "waiting", "answered"},
              got : Command \cup {Wait, None}]
  /\ alive \in BOOLEAN
  /\ view \in 0 .. MaxStops /\ seen \in 0 .. MaxStops
  /\ poll \in [at : {"no", "sent", "waiting", "replied"}, got : Said \cup {Nothing}]
  /\ posts \subseteq Command \cup {End}
  /\ killing \in BOOLEAN /\ exiting \in BOOLEAN
  /\ term \in {"ours", "idle", "other"}
  /\ told \in 0 .. MaxCommands /\ missed \in BOOLEAN
  /\ ends \in 0 .. MaxCommands
  /\ extra \in 0 .. MaxCommands

Types == RelayTypes /\ QueueTypes /\ SessionTypes

LEMMA TwoChannels == dc \in Channel /\ de \in Channel /\ dc # de
BY DebugAssumption DEF dc, de

(* A step that leaves the relay alone leaves its types.                    *)
LEMMA RelayAlone ==
  ASSUME RelayTypes, QueueTypes, UNCHANGED relayVars
  PROVE  RelayTypes' /\ QueueTypes'
BY DEF RelayTypes, QueueTypes, relayVars

(* The gateway's and the student's steps keep the types of the queues, and *)
(* so does every other, which leaves them alone.                           *)
LEMMA QueueTypesStep ==
  ASSUME Types, [DebugNext]_debugVars
  PROVE  RelayTypes' /\ QueueTypes'
<1>0. RelayTypes /\ QueueTypes /\ dc \in Channel /\ de \in Channel /\ dc # de
  BY TwoChannels DEF Types
<1>1. CASE PauseArrives
  <2>1. CASE say = Nothing
    BY <1>0, <1>1, <2>1, RelayAlone DEF PauseArrives
  <2>2. CASE say # Nothing
    <3>1. say \in Said /\ RelayPush(de, say)
      BY <1>1, <2>2 DEF PauseArrives, Types, SessionTypes, de
    <3>2. say \in Message
      BY <3>1 DEF Message
    <3>3. /\ RelayTypes' /\ orphan' = orphan /\ queue'[dc] = queue[dc]
          /\ queue'[de] = queue[de] \/ queue'[de] = Append(queue[de], say)
      BY <1>0, <3>1, <3>2, PushOn
    <3>4. Append(queue[de], say) \in Seq(Said)
      BY <1>0, <3>1, QueueOps DEF QueueTypes
    <3>5. QED BY <1>0, <3>3, <3>4 DEF QueueTypes
  <2>3. QED BY <2>1, <2>2
<1>2. CASE PauseWaits
  <2>1. RelayWait(dc)
    BY <1>2 DEF PauseWaits, dc
  <2>2. QED BY <1>0, <2>1, WaitOn DEF QueueTypes
<1>3. CASE PauseEnds
  <2>1. CASE RelayGivesUp(dc)
    BY <1>0, <2>1, GivesUpOn DEF QueueTypes
  <2>2. CASE RelayReceive(dc)
    <3>1. RelayTypes' /\ queue'[de] = queue[de] /\ orphan'[de] = orphan[de]
      BY <1>0, <2>2, ReceiveOn
    <3>2. CASE wait[dc] = "here"
      <4>1. queue[dc] # <<>> /\ queue'[dc] = Tail(queue[dc]) /\ orphan'[dc] = orphan[dc]
        BY <1>0, <2>2, <3>2, ReceiveOn
      <4>2. Tail(queue[dc]) \in Seq(Command)
        BY <1>0, <4>1, QueueOps DEF QueueTypes
      <4>3. QED BY <1>0, <3>1, <4>1, <4>2 DEF QueueTypes
    <3>3. CASE wait[dc] # "here"
      <4>1. orphan[dc] # <<>> /\ queue' = queue
        BY <1>0, <2>2, <3>3 DEF RelayReceive, Heard
      <4>2. orphan'[dc] = Tail(orphan[dc])
        BY <1>0, <2>2, <3>3 DEF RelayReceive, RelayTypes
      <4>3. Tail(orphan[dc]) \in Seq(Command)
        BY <1>0, <4>1, QueueOps DEF QueueTypes
      <4>4. QED BY <1>0, <3>1, <4>1, <4>2, <4>3 DEF QueueTypes
    <3>4. QED BY <3>2, <3>3
  <2>3. QED BY <1>3, <2>1, <2>2 DEF PauseEnds, dc
<1>4. CASE PollArrives
  <2>1. RelayWait(de)
    BY <1>4 DEF PollArrives, de
  <2>2. QED BY <1>0, <2>1, WaitOn DEF QueueTypes
<1>5. CASE PollEnds
  <2>1. CASE RelayGivesUp(de)
    BY <1>0, <2>1, GivesUpOn DEF QueueTypes
  <2>2. CASE RelayReceive(de)
    <3>1. RelayTypes' /\ queue'[dc] = queue[dc] /\ orphan'[dc] = orphan[dc]
      BY <1>0, <2>2, ReceiveOn
    <3>2. CASE wait[de] = "here"
      <4>1. queue[de] # <<>> /\ queue'[de] = Tail(queue[de]) /\ orphan'[de] = orphan[de]
        BY <1>0, <2>2, <3>2, ReceiveOn
      <4>2. Tail(queue[de]) \in Seq(Said)
        BY <1>0, <4>1, QueueOps DEF QueueTypes
      <4>3. QED BY <1>0, <3>1, <4>1, <4>2 DEF QueueTypes
    <3>3. CASE wait[de] # "here"
      <4>1. orphan[de] # <<>> /\ queue' = queue
        BY <1>0, <2>2, <3>3 DEF RelayReceive, Heard
      <4>2. orphan'[de] = Tail(orphan[de])
        BY <1>0, <2>2, <3>3 DEF RelayReceive, RelayTypes
      <4>3. Tail(orphan[de]) \in Seq(Said)
        BY <1>0, <4>1, QueueOps DEF QueueTypes
      <4>4. QED BY <1>0, <3>1, <4>1, <4>2, <4>3 DEF QueueTypes
    <3>4. QED BY <3>2, <3>3
  <2>3. QED BY <1>5, <2>1, <2>2 DEF PollEnds, de
<1>6. ASSUME NEW c \in posts, PostArrives(c)
      PROVE  RelayTypes' /\ QueueTypes'
  <2>1. CASE c = End
    <3>1. DropRelayQueues
      BY <1>6, <2>1 DEF PostArrives
    <3>2. /\ RelayTypes'
          /\ \A d \in Channel :
               /\ queue'[d] = <<>>
               /\ orphan'[d] = queue[d] \/ orphan'[d] = orphan[d]
      BY <1>0, <3>1, DropOn
    <3>3. /\ <<>> \in Seq(Command) /\ <<>> \in Seq(Said)
          /\ queue'[dc] = <<>> /\ queue'[de] = <<>>
          /\ orphan'[dc] = queue[dc] \/ orphan'[dc] = orphan[dc]
          /\ orphan'[de] = queue[de] \/ orphan'[de] = orphan[de]
      BY <1>0, <3>2, QueueOps
    <3>4. QED BY <1>0, <3>2, <3>3 DEF QueueTypes
  <2>2. CASE c # End
    <3>1. c \in Command /\ RelayPush(dc, c)
      BY <1>6, <2>2 DEF PostArrives, Types, SessionTypes, dc
    <3>2. c \in Message
      BY <3>1 DEF Message
    <3>3. /\ RelayTypes' /\ orphan' = orphan /\ queue'[de] = queue[de]
          /\ queue'[dc] = queue[dc] \/ queue'[dc] = Append(queue[dc], c)
      BY <1>0, <3>1, <3>2, PushOn
    <3>4. Append(queue[dc], c) \in Seq(Command)
      BY <1>0, <3>1, QueueOps DEF QueueTypes
    <3>5. QED BY <1>0, <3>3, <3>4 DEF QueueTypes
  <2>3. QED BY <2>1, <2>2
<1>7. CASE UNCHANGED relayVars
  BY <1>0, <1>7, RelayAlone
<1>8. QED
  BY <1>1, <1>2, <1>3, <1>4, <1>5, <1>6, <1>7
     DEF DebugNext, Prepare, StopsAtLine, Finishes, AskFails, KillWorker, AskStep,
         TakeAnswer, PollStep, TakeEvent, PostStep, PostFails, ResumeProgram, SendExtra,
         EventUnreadable, PollFails, PressStop, Disconnect, StopRun, HearExit, debugVars

(* What a waiting handler hears is what the other side puts in its queue.  *)
LEMMA HeardType ==
  ASSUME Types
  PROVE  /\ Heard(dc) \in Seq(Command) /\ Heard(de) \in Seq(Said)
         /\ Heard(de) # <<>> => Head(Heard(de)) \in Said
BY DEF Types, QueueTypes, Heard

(* The program, the session and their requests keep their types.           *)
LEMMA SessionTypesStep ==
  ASSUME Types, [DebugNext]_debugVars
  PROVE  SessionTypes'
<1>0. SessionTypes /\ MaxStops \in Nat /\ MaxCommands \in Nat
  BY DebugAssumption DEF Types
<1>1. CASE Prepare \/ Finishes \/ AskFails
  <2>1. pc' \in Place /\ exiting' \in BOOLEAN
    BY <1>0, <1>1 DEF SessionTypes, Prepare, Finishes, AskFails, Unwinds, Place
  <2>2. UNCHANGED <<stops, say, ask, sessionVars, missed, posts, killing, term>>
    BY <1>1 DEF Prepare, Finishes, AskFails
  <2>3. QED BY <1>0, <2>1, <2>2 DEF SessionTypes, sessionVars
<1>2. CASE StopsAtLine
  <2>1. stops' \in StopNo
    BY <1>0, <1>2 DEF StopsAtLine, StopNo, SessionTypes
  <2>2. say' \in Said \cup {Nothing}
    BY <1>2, <2>1, Events DEF StopsAtLine, Asks, Said
  <2>3. ask' \in [at : {"no", "sent", "pushed", "waiting", "answered"},
                 got : Command \cup {Wait, None}]
    BY <1>2 DEF StopsAtLine, Asks
  <2>4. pc' \in Place /\ missed' \in BOOLEAN
    BY <1>2 DEF StopsAtLine, Place
  <2>5. UNCHANGED <<exiting, sessionVars, posts, killing, term>>
    BY <1>2 DEF StopsAtLine
  <2>6. QED BY <1>0, <2>1, <2>2, <2>3, <2>4, <2>5 DEF SessionTypes, StopNo, sessionVars
<1>3. CASE TakeAnswer
  <2>1. ask' \in [at : {"no", "sent", "pushed", "waiting", "answered"},
                 got : Command \cup {Wait, None}]
    BY <1>3 DEF TakeAnswer, Asks, Silent
  <2>2. say' \in Said \cup {Nothing}
    <3>1. ASSUME NEW n \in StopNo, ask.got = Evaluate(n)
          PROVE  ask.got # Wait /\ ask.got # Breakpoints /\ ask.got.of = n
      BY <3>1 DEF Evaluate, Wait, Breakpoints
    <3>2. say' \in {say, Nothing, Ack} \/ \E n \in StopNo : say' = EvalEvent(n)
      BY <1>3, <3>1 DEF TakeAnswer, Asks
    <3>3. QED BY <1>0, <3>2 DEF SessionTypes, Said
  <2>3. pc' \in Place /\ exiting' \in BOOLEAN
    BY <1>0, <1>3 DEF TakeAnswer, Unwinds, Place, SessionTypes
  <2>4. QED BY <1>0, <1>3, <2>1, <2>2, <2>3 DEF TakeAnswer, SessionTypes, sessionVars
<1>4. CASE KillWorker
  BY <1>0, <1>4 DEF KillWorker, SessionTypes, Place, Silent, sessionVars
<1>5. CASE PauseArrives \/ PauseWaits
  <2>1. missed' \in BOOLEAN
    BY <1>0, <1>5 DEF PauseArrives, PauseWaits, SessionTypes
  <2>2. QED BY <1>0, <1>5, <2>1 DEF PauseArrives, PauseWaits, SessionTypes, sessionVars
<1>6. CASE PauseEnds
  <2>1. ask' \in [at : {"no", "sent", "pushed", "waiting", "answered"},
                 got : Command \cup {Wait, None}]
    BY <1>6 DEF PauseEnds, Silent
  <2>2. QED BY <1>0, <1>6, <2>1 DEF PauseEnds, SessionTypes, sessionVars
<1>7. CASE PollArrives
  BY <1>0, <1>7 DEF PollArrives, SessionTypes, programVars
<1>8. CASE PollEnds
  <2>1. poll' \in [at : {"no", "sent", "waiting", "replied"}, got : Said \cup {Nothing}]
    BY <1>8, HeardType DEF PollEnds, RelayReceive, de
  <2>2. QED BY <1>0, <1>8, <2>1 DEF PollEnds, SessionTypes, programVars
<1>9. CASE PostStep
  BY <1>0, <1>9 DEF PostStep, PostArrives, PostFails, SessionTypes, programVars, sessionVars
<1>10. CASE ResumeProgram
  <2>1. told' \in 0 .. MaxCommands /\ told' \in Telling
    BY <1>0, <1>10, DebugAssumption DEF ResumeProgram, MayCommand, SessionTypes, Telling
  <2>2. Resume(told') \in Command
    BY <2>1, Commands
  <2>3. QED BY <1>0, <1>10, <2>1, <2>2 DEF ResumeProgram, SessionTypes, programVars
<1>11. CASE SendExtra
  <2>1. view # 0 => Evaluate(view) \in Command
    BY <1>0, Commands DEF SessionTypes, StopNo
  <2>2. posts' \subseteq Command \cup {End}
    BY <1>0, <1>11, <2>1, Commands DEF SendExtra, SessionTypes
  <2>3. extra' \in 0 .. MaxCommands
    BY <1>0, <1>11 DEF SendExtra, MayCommand, SessionTypes
  <2>4. QED BY <1>0, <1>11, <2>2, <2>3 DEF SendExtra, SessionTypes, programVars
<1>12. CASE TakeEvent
  <2>1. poll.got.t = "stopped" => poll.got.of \in 0 .. MaxStops
    <3>1. poll.got \in Said \cup {Nothing}
      BY <1>0 DEF SessionTypes
    <3>2. poll.got \in Event
      BY <3>1, Events
    <3>3. QED BY <3>2 DEF Event
  <2>2. poll' \in [at : {"no", "sent", "waiting", "replied"}, got : Said \cup {Nothing}]
    BY <1>12 DEF TakeEvent
  <2>3. QED BY <1>0, <1>12, <2>1, <2>2 DEF TakeEvent, SessionTypes, programVars
<1>17. CASE EventUnreadable
  <2>1. missed' \in BOOLEAN
    BY <1>0, <1>17 DEF EventUnreadable, SessionTypes
  <2>2. QED BY <1>0, <1>17, <2>1 DEF EventUnreadable, SessionTypes, programVars
<1>13. CASE PollFails \/ HearExit
  <2>1. exiting' \in BOOLEAN /\ alive' \in BOOLEAN /\ (alive' => alive)
    BY <1>0, <1>13 DEF PollFails, HearExit, Exited, programVars, SessionTypes
  <2>2. view' \in 0 .. MaxStops /\ term' \in {"ours", "idle", "other"}
    BY <1>0, <1>13 DEF PollFails, HearExit, Exited, SessionTypes
  <2>3. UNCHANGED <<pc, stops, say, ask, seen, told, missed, poll, ends, extra, posts,
                   killing>>
    BY <1>13 DEF PollFails, HearExit, programVars
  <2>4. QED BY <1>0, <2>1, <2>2, <2>3 DEF SessionTypes
<1>14. CASE PressStop \/ Disconnect
  <2>1. alive' = FALSE /\ ends' = ends + 1 /\ killing' \in BOOLEAN
    <3>1. CASE PressStop
      BY <3>1 DEF PressStop, Exited, Cleanup
    <3>2. CASE Disconnect
      <4>1. alive = FALSE
        BY <1>0, <3>2 DEF Disconnect, SessionTypes
      <4>2. QED BY <1>0, <3>2, <4>1 DEF Disconnect, Cleanup, SessionTypes
    <3>3. QED BY <1>14, <3>1, <3>2
  <2>2. posts' \subseteq posts \cup {End, StopCmd}
    BY <1>14 DEF PressStop, Disconnect, Cleanup
  <2>3. view' \in 0 .. MaxStops /\ term' \in {"ours", "idle", "other"}
    BY <1>0, <1>14 DEF PressStop, Disconnect, Exited, Cleanup, SessionTypes
  <2>4. UNCHANGED <<programVars, seen, told, missed, poll, extra>>
    BY <1>14 DEF PressStop, Disconnect
  <2>5. ends' \in 0 .. MaxCommands
    BY <1>0, <1>14, <2>1 DEF PressStop, Disconnect, MayCommand, SessionTypes
  <2>6. posts' \subseteq Command \cup {End}
    BY <1>0, <2>2, Commands DEF SessionTypes
  <2>7. QED BY <1>0, <2>1, <2>3, <2>4, <2>5, <2>6 DEF SessionTypes, programVars
<1>15. CASE StopRun
  <2>1. killing' \in BOOLEAN /\ posts' \subseteq posts \cup {End}
    BY <1>0, <1>15 DEF StopRun, SessionTypes
  <2>2. term' \in {"ours", "idle", "other"}
    BY <1>15 DEF StopRun
  <2>3. UNCHANGED <<programVars, sessionVars, missed>>
    BY <1>15 DEF StopRun
  <2>4. QED BY <1>0, <2>1, <2>2, <2>3 DEF SessionTypes, programVars, sessionVars
<1>16. CASE UNCHANGED debugVars
  BY <1>0, <1>16 DEF debugVars, programVars, sessionVars, SessionTypes
<1>18. QED
  BY <1>1, <1>2, <1>3, <1>4, <1>5, <1>6, <1>7, <1>8, <1>9, <1>10, <1>11, <1>12, <1>13,
     <1>14, <1>15, <1>16, <1>17 DEF DebugNext, AskStep, PollStep

-----------------------------------------------------------------------------
(* Requests and who waits.                                                 *)

(* A handler is in relayWait on a queue exactly while the one request of   *)
(* its side is waiting there; what was said is pushed with the request;    *)
(* only a program that is stopped is answered.                             *)
WaitInv ==
  /\ wait[dc] = "no" <=> ask.at # "waiting"
  /\ wait[de] = "no" <=> poll.at # "waiting"
  /\ ask.at = "answered" => pc = "asking"
  /\ ask.at # "no" => pc \notin Runs
  /\ say # Nothing => ask.at = "sent"
  /\ ask.at # "answered" => ask.got = None
  /\ poll.at # "replied" => poll.got = Nothing

LEMMA WaitStep ==
  ASSUME Types, WaitInv, [DebugNext]_debugVars
  PROVE  WaitInv'
<1>0. /\ RelayTypes /\ SessionTypes
      /\ dc \in Channel /\ de \in Channel /\ dc # de
  BY TwoChannels DEF Types
<1>1. CASE Prepare \/ Finishes
  <2>1. pc' \in Runs => pc \in Runs
    BY <1>1 DEF Prepare, Finishes, Runs
  <2>2. pc # "asking"
    BY <1>1 DEF Prepare, Finishes
  <2>3. wait' = wait /\ UNCHANGED <<say, ask, poll>>
    BY <1>1 DEF Prepare, Finishes, sessionVars, relayVars
  <2>4. QED BY <2>1, <2>2, <2>3 DEF WaitInv
<1>2. CASE StopsAtLine
  <2>1. /\ pc' = "asking" /\ ask' = [at |-> "sent", got |-> None]
        /\ pc = "running" /\ wait' = wait /\ poll' = poll
    BY <1>2 DEF StopsAtLine, Asks, sessionVars, relayVars
  <2>2. QED BY <2>1 DEF WaitInv, Runs
<1>3. CASE AskFails
  <2>1. /\ pc' \in {"over", "loose"} /\ ask.at # "answered"
        /\ wait' = wait /\ UNCHANGED <<say, ask, poll>>
    BY <1>3 DEF AskFails, Unwinds, sessionVars, relayVars
  <2>2. QED BY <2>1 DEF WaitInv, Runs
<1>4. CASE TakeAnswer
  <2>1. /\ ask.at = "answered" /\ pc = "asking" /\ wait' = wait /\ poll' = poll
        /\ \/ ask' = [at |-> "sent", got |-> None] /\ pc' = pc
           \/ ask' = Silent /\ say' = say
    BY <1>4 DEF TakeAnswer, Asks, sessionVars, relayVars
  <2>2. QED BY <2>1 DEF WaitInv, Runs, Silent
<1>5. CASE KillWorker
  <2>1. /\ pc' \in {"over", "killed"} /\ ask' \in {ask, Silent}
        /\ ask.at = "answered" <=> ask' # ask
        /\ wait' = wait /\ poll' = poll /\ say' = say
    BY <1>5 DEF KillWorker, Silent, sessionVars, relayVars
  <2>2. QED BY <2>1 DEF WaitInv, Runs, Silent
<1>6. CASE PauseArrives
  <2>1. wait' = wait
    <3>1. CASE say = Nothing
      BY <1>6, <3>1 DEF PauseArrives, relayVars
    <3>2. CASE say # Nothing
      BY <1>6, <3>2 DEF PauseArrives, RelayPush
    <3>3. QED BY <3>1, <3>2
  <2>2. /\ ask.at = "sent" /\ ask'.at = "pushed" /\ ask'.got = ask.got
        /\ say' = Nothing /\ pc' = pc /\ poll' = poll
    BY <1>0, <1>6 DEF PauseArrives, SessionTypes, sessionVars
  <2>3. QED BY <2>1, <2>2 DEF WaitInv
<1>7. CASE PauseWaits
  <2>1. wait'[dc] = "here" /\ wait'[de] = wait[de]
    BY <1>0, <1>7, WaitOn DEF PauseWaits, dc
  <2>2. /\ ask.at = "pushed" /\ ask'.at = "waiting" /\ ask'.got = ask.got
        /\ say' = say /\ pc' = pc /\ poll' = poll
    BY <1>0, <1>7 DEF PauseWaits, SessionTypes, sessionVars
  <2>3. QED BY <2>1, <2>2 DEF WaitInv
<1>8. CASE PauseEnds
  <2>1. wait'[dc] = "no" /\ wait'[de] = wait[de]
    BY <1>0, <1>8, ReceiveOn, GivesUpOn DEF PauseEnds, dc
  <2>2. /\ ask.at = "waiting" /\ say' = say /\ pc' = pc /\ poll' = poll
        /\ \/ ask'.at = "answered" /\ pc = "asking"
           \/ ask'.at = "no" /\ ask'.got = None
    BY <1>8 DEF PauseEnds, Silent, sessionVars
  <2>3. QED BY <2>1, <2>2 DEF WaitInv
<1>9. CASE PollArrives
  <2>1. wait'[de] = "here" /\ wait'[dc] = wait[dc]
    BY <1>0, <1>9, WaitOn DEF PollArrives, de
  <2>2. /\ poll.at = "sent" /\ poll'.at = "waiting" /\ poll'.got = poll.got
        /\ UNCHANGED <<pc, say, ask>>
    BY <1>0, <1>9 DEF PollArrives, SessionTypes, programVars
  <2>3. QED BY <2>1, <2>2 DEF WaitInv
<1>10. CASE PollEnds
  <2>1. wait'[de] = "no" /\ wait'[dc] = wait[dc]
    BY <1>0, <1>10, ReceiveOn, GivesUpOn DEF PollEnds, de
  <2>2. /\ poll.at = "waiting" /\ poll'.at = "replied"
        /\ UNCHANGED <<pc, say, ask>>
    BY <1>10 DEF PollEnds, programVars
  <2>3. QED BY <2>1, <2>2 DEF WaitInv
<1>11. CASE TakeEvent \/ EventUnreadable
  <2>1. /\ poll.at = "replied" /\ poll'.at # "waiting" /\ poll'.got = Nothing
        /\ wait' = wait /\ UNCHANGED <<pc, say, ask>>
    BY <1>11 DEF TakeEvent, EventUnreadable, programVars, relayVars
  <2>2. QED BY <2>1 DEF WaitInv
<1>12. ASSUME NEW c \in posts, PostArrives(c)
       PROVE  WaitInv'
  <2>1. (wait'[dc] = "no" <=> wait[dc] = "no") /\ (wait'[de] = "no" <=> wait[de] = "no")
    <3>1. CASE c = End
      BY <1>0, <1>12, <3>1, DropOn DEF PostArrives
    <3>2. CASE c # End
      BY <1>12, <3>2 DEF PostArrives, RelayPush
    <3>3. QED BY <3>1, <3>2
  <2>2. UNCHANGED <<pc, say, ask, poll>>
    BY <1>12 DEF PostArrives, programVars, sessionVars
  <2>3. QED BY <2>1, <2>2 DEF WaitInv
<1>13. CASE UNCHANGED <<pc, say, ask, poll, wait>>
  BY <1>13 DEF WaitInv
<1>14. QED
  BY <1>1, <1>2, <1>3, <1>4, <1>5, <1>6, <1>7, <1>8, <1>9, <1>10, <1>11, <1>12, <1>13
     DEF DebugNext, AskStep, PollStep, PostStep, PostFails, ResumeProgram, SendExtra,
         EventUnreadable, PollFails, PressStop, Disconnect, StopRun, HearExit, debugVars, programVars,
         sessionVars, relayVars

-----------------------------------------------------------------------------
(* Commands to go on: where they can be.                                   *)

Posted == posts \cap Resumes
Queued == Held(queue[dc]) \cap Resumes
Apart == IF wait[dc] = "apart" THEN Held(orphan[dc]) \cap Resumes ELSE {}
Got == {ask.got} \cap Resumes

(* Those the program has obeyed.                                           *)
Done(h) == {Resume(k) : k \in h}

Abroad == Posted \cup Queued \cup Apart \cup Got

InOnePlace ==
  /\ Posted \cap (Queued \cup Apart \cup Got) = {}
  /\ Queued \cap (Apart \cup Got) = {}
  /\ Apart \cap Got = {}
  /\ Once(queue[dc], Resumes)
  /\ wait[dc] = "apart" => Once(orphan[dc], Resumes)

(* The program went on from all stops before this one, and from this one   *)
(* if it runs, each time because of another command.                       *)
Obeyed(h) ==
  /\ h \subseteq 1 .. told
  /\ Done(h) \cap Abroad = {}
  /\ stops <= Cardinality(h) + 1
  /\ pc \in Runs => stops <= Cardinality(h)

ResumeInv ==
  /\ Abroad \subseteq Done(1 .. told)
  /\ InOnePlace
  /\ \E h : Obeyed(h)

(* The commands of the program's past are no more than the student gave.   *)
LEMMA ObeyedCount ==
  ASSUME NEW h, NEW t \in Nat, h \subseteq 1 .. t
  PROVE  /\ Cardinality(h) \in Nat /\ Cardinality(h) <= t
         /\ \A k : k \notin h => Cardinality(h \cup {k}) = Cardinality(h) + 1
<1>1. IsFiniteSet(1 .. t) /\ Cardinality(1 .. t) = t
  BY FS_Interval
<1>2. IsFiniteSet(h) /\ Cardinality(h) <= t
  BY <1>1, FS_Subset
<1>3. Cardinality(h) \in Nat
  BY <1>2, FS_CardinalityType
<1>4. \A k : k \notin h => Cardinality(h \cup {k}) = Cardinality(h) + 1
  BY <1>2, FS_AddElement
<1>5. QED BY <1>2, <1>3, <1>4

(* A step that moves commands from place to place, or loses them, keeps    *)
(* the invariant if none is in two places then;                            *)
LEMMA ResumesMoved ==
  ASSUME ResumeInv, Abroad' \subseteq Abroad, InOnePlace',
         stops' = stops, told' = told, pc' \in Runs => pc \in Runs
  PROVE  ResumeInv'
<1>1. PICK h : Obeyed(h)
  BY DEF ResumeInv
<1>2. Done(h) \cap Abroad' = {} /\ Abroad' \subseteq Done(1 .. told)
  BY <1>1 DEF Obeyed, ResumeInv
<1>3. Obeyed(h)'
  BY <1>1, <1>2 DEF Obeyed, Done
<1>4. QED BY <1>2, <1>3 DEF ResumeInv, Done

(* in particular one that brings none to a new place.                      *)
LEMMA ResumesKept ==
  ASSUME ResumeInv,
         Posted' \subseteq Posted, Queued' \subseteq Queued, Got' \subseteq Got,
         Once(queue'[dc], Resumes),
         wait'[dc] = "apart" => wait[dc] = "apart" /\ orphan'[dc] = orphan[dc],
         stops' = stops, told' = told, pc' \in Runs => pc \in Runs
  PROVE  ResumeInv'
<1>1. Apart' \subseteq Apart
  BY DEF Apart
<1>2. Abroad' \subseteq Abroad /\ InOnePlace'
  BY <1>1 DEF Abroad, InOnePlace, ResumeInv
<1>3. QED BY <1>2, ResumesMoved

(* The news of stops: where it can be.                                     *)

StopsQueued == Held(queue[de]) \cap Stoppeds
StopsApart == IF wait[de] = "apart" THEN Held(orphan[de]) \cap Stoppeds ELSE {}
StopGot == {poll.got} \cap Stoppeds
News == StopsQueued \cup StopsApart \cup StopGot

(* It is of stops not shown yet, and in the order of the stops: what was   *)
(* replied is older than what is queued, and so is what is in a queue that *)
(* was dropped; what the program is about to say is newer than all.        *)
StopInv ==
  /\ \A m \in News : seen < m.of /\ m.of <= stops
  /\ Rising(queue[de])
  /\ wait[de] = "apart" => Rising(orphan[de])
  /\ \A m \in StopsApart \cup StopGot, n \in StopsQueued : m.of < n.of
  /\ say \in Stoppeds =>
       /\ say = Stopped(stops)
       /\ seen < stops
       /\ \A m \in News : m.of < stops
  /\ seen <= stops
  /\ view \in {0, seen}

DebugInv == Types /\ WaitInv /\ ResumeInv /\ StopInv

-----------------------------------------------------------------------------
(* Every step keeps the two.                                               *)

LEMMA ResumeStep ==
  ASSUME Types, WaitInv, ResumeInv, [DebugNext]_debugVars
  PROVE  ResumeInv'
<1>0. /\ RelayTypes /\ QueueTypes /\ SessionTypes
      /\ dc \in Channel /\ de \in Channel /\ dc # de
      /\ Once(queue[dc], Resumes)
  BY TwoChannels DEF Types, ResumeInv, InOnePlace
<1>1. CASE Prepare \/ Finishes \/ AskFails \/ KillWorker
  <2>1. pc' \in Runs => pc \in Runs
    BY <1>1 DEF Prepare, Finishes, AskFails, Unwinds, KillWorker, Runs
  <2>2. ask'.got = ask.got \/ ask'.got \notin Resumes
    BY <1>1, Commands DEF Prepare, Finishes, AskFails, KillWorker, Silent
  <2>3. UNCHANGED <<posts, queue, orphan, wait, stops, told>>
    BY <1>1 DEF Prepare, Finishes, AskFails, KillWorker, sessionVars, relayVars
  <2>4. QED BY <1>0, <2>1, <2>2, <2>3, ResumesKept DEF Posted, Queued, Got
<1>2. CASE StopsAtLine
  <2>1. ask'.got \notin Resumes /\ UNCHANGED <<posts, queue, orphan, wait, told>>
    BY <1>2, Commands DEF StopsAtLine, Asks, relayVars, sessionVars
  <2>2. Abroad' \subseteq Abroad /\ InOnePlace'
    BY <2>1 DEF ResumeInv, InOnePlace, Abroad, Posted, Queued, Apart, Got
  <2>3. PICK h : Obeyed(h)
    BY DEF ResumeInv
  <2>4. pc \in Runs /\ pc' \notin Runs /\ stops' = stops + 1 /\ stops \in Nat /\ told \in Nat
    BY <1>0, <1>2, DebugAssumption DEF StopsAtLine, Runs, SessionTypes
  <2>5. stops' <= Cardinality(h) + 1
    <3>1. stops <= Cardinality(h) /\ h \subseteq 1 .. told
      BY <2>3, <2>4 DEF Obeyed
    <3>2. Cardinality(h) \in Nat
      BY <2>4, <3>1, ObeyedCount
    <3>3. QED BY <2>4, <3>1, <3>2
  <2>6. Obeyed(h)'
    BY <2>1, <2>2, <2>3, <2>4, <2>5 DEF Obeyed, Done
  <2>7. QED BY <2>1, <2>2, <2>6 DEF ResumeInv, Done
<1>3. CASE TakeAnswer
  <2>1. /\ ask'.got = None /\ UNCHANGED <<posts, queue, orphan, wait, stops, told>>
        /\ None \notin Resumes
    BY <1>3, Commands DEF TakeAnswer, Asks, Silent, sessionVars, relayVars
  <2>2. CASE ask.got \notin Resumes
    <3>1. pc' \in Runs => pc \in Runs
      BY <1>3, <2>2 DEF TakeAnswer, Unwinds, Runs, Resumes
    <3>2. QED BY <1>0, <2>1, <3>1, ResumesKept DEF Posted, Queued, Got
  <2>3. CASE ask.got \in Resumes
    <3>1. PICK k \in 1 .. told : ask.got = Resume(k)
      BY <2>3 DEF ResumeInv, Abroad, Got, Done
    <3>2. PICK h : Obeyed(h)
      BY DEF ResumeInv
    <3>3. k \notin h /\ ask.got \in Abroad
      BY <2>3, <3>1, <3>2 DEF Obeyed, Done, Abroad, Got
    <3>4. told \in Nat /\ stops \in Nat /\ h \subseteq 1 .. told
      BY <1>0, <3>2, DebugAssumption DEF SessionTypes, Obeyed
    <3>5. Cardinality(h \cup {k}) = Cardinality(h) + 1 /\ Cardinality(h) \in Nat
      BY <3>3, <3>4, ObeyedCount
    <3>6. /\ Abroad' \subseteq Abroad /\ ask.got \notin Abroad' /\ InOnePlace'
      BY <2>1, <2>3 DEF ResumeInv, InOnePlace, Abroad, Posted, Queued, Apart, Got
    <3>7. Done(h \cup {k}) = Done(h) \cup {ask.got}
      BY <3>1 DEF Done
    <3>8. Obeyed(h \cup {k})'
      <4>1. h \cup {k} \subseteq 1 .. told'
        BY <2>1, <3>1, <3>4
      <4>2. Done(h \cup {k}) \cap Abroad' = {}
        BY <3>2, <3>6, <3>7 DEF Obeyed
      <4>3. stops' <= Cardinality(h \cup {k}) /\ stops' <= Cardinality(h \cup {k}) + 1
        BY <2>1, <3>2, <3>4, <3>5 DEF Obeyed
      <4>4. QED BY <4>1, <4>2, <4>3 DEF Obeyed, Done
    <3>9. QED BY <2>1, <3>6, <3>8 DEF ResumeInv, Done
  <2>4. QED BY <2>2, <2>3
<1>4. CASE PauseArrives
  <2>1. queue'[dc] = queue[dc] /\ orphan' = orphan /\ wait' = wait
    <3>1. CASE say = Nothing
      BY <1>4, <3>1 DEF PauseArrives, relayVars
    <3>2. CASE say # Nothing
      <4>1. say \in Message /\ RelayPush(de, say)
        BY <1>0, <1>4, <3>2 DEF PauseArrives, SessionTypes, Message, de
      <4>2. QED BY <1>0, <4>1, PushOn
    <3>3. QED BY <3>1, <3>2
  <2>2. ask'.got = ask.got /\ UNCHANGED <<pc, posts, stops, told>>
    BY <1>0, <1>4 DEF PauseArrives, SessionTypes, sessionVars
  <2>3. QED BY <1>0, <2>1, <2>2, ResumesKept DEF Posted, Queued, Got
<1>5. CASE PauseWaits
  <2>1. queue' = queue /\ wait'[dc] = "here"
    BY <1>0, <1>5, WaitOn DEF PauseWaits, dc
  <2>2. ask'.got = ask.got /\ UNCHANGED <<pc, posts, stops, told>>
    BY <1>0, <1>5 DEF PauseWaits, SessionTypes, sessionVars
  <2>3. QED BY <1>0, <2>1, <2>2, ResumesKept DEF Posted, Queued, Got
<1>6. CASE PauseEnds
  <2>1. /\ wait'[dc] = "no" /\ wait[dc] \in Waiting
        /\ UNCHANGED <<pc, posts, stops, told>>
    BY <1>0, <1>6, ReceiveOn, GivesUpOn DEF PauseEnds, dc, sessionVars
  <2>2. Apart' = {} /\ Posted' = Posted /\ Got = {}
    BY <1>6, <2>1, Commands DEF Apart, Posted, Got, PauseEnds, WaitInv
  <2>3. CASE RelayGivesUp(dc)
    <3>1. queue' = queue
      BY <2>3 DEF RelayGivesUp
    <3>2. ~RelayReceive(dc)
      BY <2>3 DEF RelayGivesUp, RelayReceive
    <3>3. ask'.got \in {Wait, None}
      BY <1>6, <3>2 DEF PauseEnds, Silent, dc
    <3>4. QED BY <1>0, <2>1, <2>2, <3>1, <3>3, ResumesKept, Commands DEF Queued, Got
  <2>4. CASE RelayReceive(dc)
    <3>1. Got' \subseteq {Head(Heard(dc))} \cap Resumes
      BY <1>6, Commands DEF PauseEnds, Silent, dc, Got
    <3>2. ASSUME wait[dc] = "here"
          PROVE  ResumeInv'
      <4>1. queue[dc] # <<>> /\ queue'[dc] = Tail(queue[dc]) /\ Heard(dc) = queue[dc]
        BY <1>0, <2>4, <3>2, ReceiveOn
      <4>2. queue[dc] \in Seq(Command)
        BY <1>0 DEF QueueTypes
      <4>3. /\ Held(queue'[dc]) \subseteq Held(queue[dc])
            /\ Head(queue[dc]) \in Held(queue[dc])
            /\ Once(queue'[dc], Resumes)
            /\ Head(queue[dc]) \in Resumes => Head(queue[dc]) \notin Held(queue'[dc])
        BY <1>0, <4>1, <4>2, TailQueue
      <4>4. /\ Queued' \subseteq Queued /\ Got' \subseteq Queued /\ Got' \cap Queued' = {}
        BY <3>1, <4>1, <4>3 DEF Queued
      <4>5. Abroad' \subseteq Abroad /\ InOnePlace'
        BY <2>1, <2>2, <4>3, <4>4 DEF Abroad, InOnePlace, ResumeInv
      <4>6. QED BY <2>1, <4>5, ResumesMoved
    <3>3. ASSUME wait[dc] = "apart"
          PROVE  ResumeInv'
      <4>1. orphan[dc] # <<>> /\ queue'[dc] = queue[dc] /\ Heard(dc) = orphan[dc]
        BY <1>0, <2>4, <3>3, ReceiveOn
      <4>2. Head(orphan[dc]) \in Held(orphan[dc])
        BY <1>0, <4>1, TailQueue DEF QueueTypes
      <4>3. Queued' = Queued /\ Got' \subseteq Apart
        BY <3>1, <3>3, <4>1, <4>2 DEF Queued, Apart
      <4>4. Abroad' \subseteq Abroad /\ InOnePlace'
        BY <1>0, <2>1, <2>2, <4>1, <4>3 DEF Abroad, InOnePlace, ResumeInv
      <4>5. QED BY <2>1, <4>4, ResumesMoved
    <3>4. QED BY <2>1, <3>2, <3>3 DEF Waiting
  <2>5. QED BY <1>6, <2>3, <2>4 DEF PauseEnds, dc
<1>7. CASE PollArrives \/ PollEnds
  <2>1. queue'[dc] = queue[dc] /\ orphan'[dc] = orphan[dc] /\ wait'[dc] = wait[dc]
    BY <1>0, <1>7, WaitOn, ReceiveOn, GivesUpOn DEF PollArrives, PollEnds, de
  <2>2. UNCHANGED <<ask, pc, posts, stops, told>>
    BY <1>7 DEF PollArrives, PollEnds, programVars
  <2>3. QED BY <1>0, <2>1, <2>2, ResumesKept DEF Posted, Queued, Got
<1>8. ASSUME NEW c \in posts, PostArrives(c)
      PROVE  ResumeInv'
  <2>1. posts' = posts \ {c} /\ UNCHANGED <<pc, stops, ask, told>>
    BY <1>8 DEF PostArrives, programVars, sessionVars
  <2>2. Posted' = Posted \ {c} /\ Got' = Got
    BY <2>1 DEF Posted, Got
  <2>3. CASE c = End
    <3>1. /\ queue'[dc] = <<>>
          /\ orphan'[dc] = IF wait[dc] = "here" THEN queue[dc] ELSE orphan[dc]
          /\ wait'[dc] = IF wait[dc] = "no" THEN "no" ELSE "apart"
      BY <1>0, <1>8, <2>3, DropOn DEF PostArrives
    <3>2. Queued' = {} /\ Once(queue'[dc], Resumes)
      BY <3>1, EmptyQueue DEF Queued
    <3>3. CASE wait[dc] = "here"
      <4>1. Apart' = Queued
        BY <3>1, <3>3 DEF Apart, Queued
      <4>2. Abroad' \subseteq Abroad /\ InOnePlace'
        BY <1>0, <2>2, <3>1, <3>2, <3>3, <4>1 DEF Abroad, InOnePlace, ResumeInv
      <4>3. QED BY <2>1, <4>2, ResumesMoved
    <3>4. CASE wait[dc] # "here"
      <4>1. wait'[dc] = "apart" => wait[dc] = "apart" /\ orphan'[dc] = orphan[dc]
        BY <1>0, <3>1, <3>4 DEF RelayTypes, Waiting
      <4>2. QED BY <1>0, <2>1, <2>2, <3>2, <4>1, ResumesKept
    <3>5. QED BY <3>3, <3>4
  <2>4. CASE c # End
    <3>1. c \in Command /\ RelayPush(dc, c)
      BY <1>0, <1>8, <2>4 DEF PostArrives, SessionTypes, dc
    <3>2. /\ orphan' = orphan /\ wait' = wait
          /\ queue'[dc] = queue[dc] \/ queue'[dc] = Append(queue[dc], c)
      BY <1>0, <3>1, PushOn DEF Message
    <3>3. /\ Held(Append(queue[dc], c)) = Held(queue[dc]) \cup {c}
          /\ c \notin Queued => Once(Append(queue[dc], c), Resumes)
      BY <1>0, <3>1, AppendQueue DEF QueueTypes, Queued
    <3>4. c \notin Queued
      <4>1. c \in Resumes => c \in Posted
        BY DEF Posted
      <4>2. QED BY <4>1 DEF ResumeInv, InOnePlace, Queued
    <3>5. /\ Queued' \subseteq Queued \cup ({c} \cap Resumes)
          /\ Once(queue'[dc], Resumes) /\ Apart' = Apart
      BY <1>0, <3>2, <3>3, <3>4 DEF Queued, Apart
    <3>6. {c} \cap Resumes \subseteq Posted
      BY DEF Posted
    <3>7. Abroad' \subseteq Abroad
      BY <2>2, <3>5, <3>6 DEF Abroad
    <3>8. InOnePlace'
      BY <2>2, <3>2, <3>5, <3>6 DEF InOnePlace, ResumeInv
    <3>9. QED BY <2>1, <3>7, <3>8, ResumesMoved
  <2>5. QED BY <2>3, <2>4
<1>9. CASE ResumeProgram
  <2>1. /\ posts' = posts \cup {Resume(told')} /\ told' = told + 1 /\ told' \in Telling
        /\ told \in Nat
        /\ UNCHANGED <<queue, orphan, wait, ask, pc, stops>>
    BY <1>0, <1>9, DebugAssumption
       DEF ResumeProgram, MayCommand, SessionTypes, Telling, programVars, relayVars
  <2>2. /\ Posted' = Posted \cup {Resume(told')}
        /\ Queued' = Queued /\ Apart' = Apart /\ Got' = Got
    BY <2>1, Commands DEF Posted, Queued, Apart, Got
  <2>3. Resume(told').of = told' /\ \A m \in Done(1 .. told) : m.of # told'
    BY <2>1 DEF Done, Resume
  <2>4. Resume(told') \notin Done(1 .. told)
    BY <2>3
  <2>5. Abroad' = Abroad \cup {Resume(told')} /\ Resume(told') \notin Abroad
    BY <2>2, <2>4 DEF Abroad, ResumeInv
  <2>6. InOnePlace'
    BY <2>1, <2>2, <2>5 DEF InOnePlace, ResumeInv, Abroad
  <2>7. 1 .. told \subseteq 1 .. told' /\ told' \in 1 .. told'
    BY <2>1
  <2>8. Abroad' \subseteq Done(1 .. told')
    BY <2>5, <2>7 DEF ResumeInv, Done
  <2>9. PICK h : Obeyed(h)
    BY DEF ResumeInv
  <2>10. Done(h) \subseteq Done(1 .. told)
    BY <2>9 DEF Obeyed, Done
  <2>11. h \subseteq 1 .. told' /\ Done(h) \cap Abroad' = {}
    BY <2>4, <2>5, <2>7, <2>9, <2>10 DEF Obeyed
  <2>12. Obeyed(h)'
    BY <2>1, <2>9, <2>11 DEF Obeyed, Done
  <2>13. QED BY <2>6, <2>8, <2>12 DEF ResumeInv, Done
<1>10. CASE SendExtra
  <2>1. (IF view # 0 /\ extra' % 2 = 1 THEN Evaluate(view) ELSE Breakpoints) \notin Resumes
    BY <1>0, Commands DEF SessionTypes, StopNo
  <2>2. Posted' \subseteq Posted
    BY <1>10, <2>1 DEF SendExtra, Posted
  <2>3. UNCHANGED <<queue, orphan, wait, ask, pc, stops, told>>
    BY <1>10 DEF SendExtra, programVars, relayVars
  <2>4. QED BY <1>0, <2>2, <2>3, ResumesKept DEF Queued, Got
<1>11. CASE \/ TakeEvent \/ EventUnreadable \/ PollFails \/ PressStop \/ Disconnect
            \/ StopRun \/ HearExit \/ UNCHANGED debugVars
            \/ \E c \in posts : PostFails(c)
  <2>1. posts' \subseteq posts \cup {End, StopCmd}
    BY <1>11 DEF TakeEvent, EventUnreadable, PollFails, PressStop, Disconnect, StopRun,
       HearExit, Cleanup, PostFails, debugVars
  <2>2. Posted' \subseteq Posted
    BY <2>1, Commands DEF Posted
  <2>3. UNCHANGED <<queue, orphan, wait, ask, pc, stops, told>>
    BY <1>11 DEF TakeEvent, EventUnreadable, PollFails, PressStop, Disconnect, StopRun,
       HearExit, PostFails, programVars, sessionVars, relayVars, debugVars
  <2>4. QED BY <1>0, <2>2, <2>3, ResumesKept DEF Queued, Got
<1>12. QED
  BY <1>1, <1>2, <1>3, <1>4, <1>5, <1>6, <1>7, <1>8, <1>9, <1>10, <1>11
     DEF DebugNext, AskStep, PollStep, PostStep

(* News that is neither new nor moved stays in order.                      *)
LEMMA StopsKept ==
  ASSUME StopInv, SessionTypes,
         say' = say \/ say' \notin Stoppeds,
         StopsQueued' \subseteq StopsQueued, Rising(queue'[de]),
         wait'[de] = "apart" => wait[de] = "apart" /\ orphan'[de] = orphan[de],
         StopGot' \subseteq StopGot,
         stops' = stops, seen' = seen, view' \in {0, view}
  PROVE  StopInv'
<1>1. StopsApart' \subseteq StopsApart
  BY DEF StopsApart
<1>2. News' \subseteq News
  BY <1>1 DEF News
<1>3. QED BY <1>1, <1>2 DEF StopInv

LEMMA StopNumbers ==
  \A m \in Stoppeds : m.of \in Nat /\ m = Stopped(m.of)
BY DEF Stoppeds, Stopped, StopNo

LEMMA StopStep ==
  ASSUME Types, WaitInv, StopInv, [DebugNext]_debugVars
  PROVE  StopInv'
<1>0. /\ RelayTypes /\ QueueTypes /\ SessionTypes
      /\ dc \in Channel /\ de \in Channel /\ dc # de
      /\ Rising(queue[de]) /\ stops \in Nat /\ seen \in Nat
  BY TwoChannels, DebugAssumption DEF Types, SessionTypes, StopInv
<1>1. CASE Prepare \/ Finishes \/ AskFails \/ KillWorker
  BY <1>0, <1>1, StopsKept DEF Prepare, Finishes, AskFails, KillWorker, sessionVars,
     relayVars, StopsQueued, StopGot
<1>2. CASE StopsAtLine
  <2>1. /\ stops' = stops + 1 /\ say' = Stopped(stops')
        /\ UNCHANGED <<poll, queue, orphan, wait, seen, view>>
    BY <1>2 DEF StopsAtLine, Asks, sessionVars, relayVars
  <2>2. /\ StopsQueued' = StopsQueued /\ StopsApart' = StopsApart /\ StopGot' = StopGot
        /\ News' = News
    BY <2>1 DEF StopsQueued, StopsApart, StopGot, News
  <2>3. \A m \in News : m.of \in Nat
    BY StopNumbers DEF News, StopsQueued, StopsApart, StopGot
  <2>4. QED BY <1>0, <2>1, <2>2, <2>3 DEF StopInv
<1>3. CASE TakeAnswer
  <2>1. say' = say \/ say' \notin Stoppeds
    <3>1. \A n \in StopNo : Evaluate(n).of = n /\ Evaluate(n) \notin {Wait, Breakpoints}
      BY DEF Evaluate, Wait, Breakpoints
    <3>2. say' \in {say, Nothing, Ack} \/ \E n \in StopNo : say' = EvalEvent(n)
      BY <1>3, <3>1 DEF TakeAnswer, Asks
    <3>3. QED BY <3>2, Events
  <2>2. UNCHANGED <<poll, queue, orphan, wait, stops, seen, view>>
    BY <1>3 DEF TakeAnswer, sessionVars, relayVars
  <2>3. QED BY <1>0, <2>1, <2>2, StopsKept DEF StopsQueued, StopGot
<1>4. CASE PauseArrives
  <2>1. say' = Nothing /\ Nothing \notin Stoppeds /\ UNCHANGED <<poll, stops, seen, view>>
    BY <1>4, Events DEF PauseArrives, sessionVars
  <2>2. CASE say = Nothing
    <3>1. UNCHANGED <<queue, orphan, wait>>
      BY <1>4, <2>2 DEF PauseArrives, relayVars
    <3>2. QED BY <1>0, <2>1, <3>1, StopsKept DEF StopsQueued, StopGot
  <2>3. CASE say # Nothing
    <3>1. say \in Said /\ RelayPush(de, say)
      BY <1>0, <1>4, <2>3 DEF PauseArrives, SessionTypes, de
    <3>2. /\ orphan' = orphan /\ wait' = wait
          /\ queue'[de] = queue[de] \/ queue'[de] = Append(queue[de], say)
      BY <1>0, <3>1, PushOn DEF Message
    <3>3. \A n \in Held(queue[de]) \cap Stoppeds : say \in Stoppeds => n.of < say.of
      <4>1. say \in Stoppeds => say.of = stops
        BY DEF StopInv, Stopped
      <4>2. Held(queue[de]) \cap Stoppeds \subseteq News
        BY DEF News, StopsQueued
      <4>3. QED BY <4>1, <4>2 DEF StopInv
    <3>4. /\ Held(Append(queue[de], say)) = Held(queue[de]) \cup {say}
          /\ Rising(Append(queue[de], say))
      BY <1>0, <3>1, <3>3, AppendQueue DEF QueueTypes
    <3>5. /\ StopsQueued' \subseteq StopsQueued \cup ({say} \cap Stoppeds)
          /\ Rising(queue'[de])
          /\ StopsApart' = StopsApart /\ StopGot' = StopGot
      BY <1>0, <2>1, <3>2, <3>4 DEF StopsQueued, StopsApart, StopGot
    <3>6. CASE say \notin Stoppeds
      BY <1>0, <2>1, <3>2, <3>5, <3>6, StopsKept
    <3>7. CASE say \in Stoppeds
      <4>1. say.of = stops /\ seen < stops /\ \A m \in News : m.of < stops
        BY <3>7 DEF StopInv, Stopped
      <4>2. News' \subseteq News \cup {say}
        BY <3>5 DEF News
      <4>3. \A m \in News' : seen' < m.of /\ m.of <= stops'
        BY <1>0, <2>1, <4>1, <4>2 DEF StopInv
      <4>4. \A m \in StopsApart' \cup StopGot', n \in StopsQueued' : m.of < n.of
        BY <3>5, <4>1 DEF StopInv, News
      <4>5. QED BY <2>1, <3>2, <3>5, <4>3, <4>4 DEF StopInv
    <3>8. QED BY <3>6, <3>7
  <2>4. QED BY <2>2, <2>3
<1>5. CASE PauseWaits \/ PauseEnds
  <2>1. queue'[de] = queue[de] /\ orphan'[de] = orphan[de] /\ wait'[de] = wait[de]
    BY <1>0, <1>5, WaitOn, ReceiveOn, GivesUpOn DEF PauseWaits, PauseEnds, dc
  <2>2. UNCHANGED <<say, poll, stops, seen, view>>
    BY <1>5 DEF PauseWaits, PauseEnds, sessionVars
  <2>3. QED BY <1>0, <2>1, <2>2, StopsKept DEF StopsQueued, StopGot
<1>6. CASE PollArrives
  <2>1. queue' = queue /\ wait'[de] = "here"
    BY <1>0, <1>6, WaitOn DEF PollArrives, de
  <2>2. poll'.got = poll.got /\ UNCHANGED <<say, stops, seen, view>>
    BY <1>0, <1>6 DEF PollArrives, SessionTypes, programVars
  <2>3. QED BY <1>0, <2>1, <2>2, StopsKept DEF StopsQueued, StopGot
<1>7. CASE PollEnds
  <2>1. /\ wait'[de] = "no" /\ wait[de] \in Waiting
        /\ UNCHANGED <<say, stops, seen, view>>
    BY <1>0, <1>7, ReceiveOn, GivesUpOn DEF PollEnds, de, programVars
  <2>2. CASE ~RelayReceive(de)
    <3>1. queue' = queue /\ poll'.got = Nothing
      BY <1>7, <2>2 DEF PollEnds, RelayGivesUp, de
    <3>2. QED BY <1>0, <2>1, <3>1, StopsKept, Events DEF StopsQueued, StopGot
  <2>3. CASE RelayReceive(de)
    <3>0. ~RelayGivesUp(de)
      BY <2>3 DEF RelayGivesUp, RelayReceive
    <3>1. poll'.got = Head(Heard(de)) /\ StopsApart' = {}
      BY <1>7, <2>1, <3>0 DEF PollEnds, de, StopsApart
    <3>2. ASSUME wait[de] = "here"
          PROVE  StopInv'
      <4>1. queue[de] # <<>> /\ queue'[de] = Tail(queue[de]) /\ Heard(de) = queue[de]
        BY <1>0, <2>3, <3>2, ReceiveOn
      <4>2. /\ Held(queue'[de]) \subseteq Held(queue[de])
            /\ Head(queue[de]) \in Held(queue[de])
            /\ Rising(queue'[de])
            /\ Head(queue[de]) \in Stoppeds =>
                 \A n \in Held(queue'[de]) \cap Stoppeds : Head(queue[de]).of < n.of
        BY <1>0, <4>1, TailQueue DEF QueueTypes
      <4>3. /\ StopsQueued' \subseteq StopsQueued /\ StopGot' \subseteq StopsQueued
            /\ \A m \in StopGot', n \in StopsQueued' : m.of < n.of
        BY <3>1, <4>1, <4>2 DEF StopsQueued, StopGot
      <4>4. News' \subseteq News
        BY <3>1, <4>3 DEF News
      <4>5. QED BY <2>1, <3>1, <4>2, <4>3, <4>4 DEF StopInv
    <3>3. ASSUME wait[de] = "apart"
          PROVE  StopInv'
      <4>1. orphan[de] # <<>> /\ queue'[de] = queue[de] /\ Heard(de) = orphan[de]
        BY <1>0, <2>3, <3>3, ReceiveOn
      <4>2. Head(orphan[de]) \in Held(orphan[de])
        BY <1>0, <4>1, TailQueue DEF QueueTypes
      <4>3. StopsQueued' = StopsQueued /\ StopGot' \subseteq StopsApart
        BY <3>1, <3>3, <4>1, <4>2 DEF StopsQueued, StopsApart, StopGot
      <4>4. News' \subseteq News
        BY <3>1, <4>3 DEF News
      <4>5. QED BY <1>0, <2>1, <3>1, <4>1, <4>3, <4>4 DEF StopInv
    <3>4. QED BY <2>1, <3>2, <3>3 DEF Waiting
  <2>4. QED BY <2>2, <2>3
<1>8. CASE TakeEvent
  <2>1. /\ UNCHANGED <<say, queue, orphan, wait, stops>>
        /\ StopGot' = {} /\ StopsQueued' = StopsQueued /\ StopsApart' = StopsApart
    BY <1>8, Events DEF TakeEvent, programVars, relayVars, StopGot, StopsQueued, StopsApart
  <2>2. CASE UNCHANGED <<seen, view>>
    BY <1>0, <2>1, <2>2, StopsKept
  <2>3. CASE ~UNCHANGED <<seen, view>>
    <3>1. poll.got.t = "stopped" /\ seen' = poll.got.of /\ view' = poll.got.of
          /\ poll.at = "replied"
      BY <1>8, <2>3 DEF TakeEvent
    <3>2. poll.got \in StopGot
      BY <1>0, <3>1, Events DEF SessionTypes, StopGot
    <3>3. wait[de] # "apart" /\ StopsApart = {}
      BY <3>1 DEF WaitInv, StopsApart
    <3>4. \A n \in StopsQueued : seen' < n.of
      BY <3>1, <3>2 DEF StopInv
    <3>5. /\ News' = StopsQueued /\ StopsQueued \subseteq News
          /\ poll.got \in News
      BY <2>1, <3>2, <3>3 DEF News
    <3>6. seen' <= stops' /\ (say' \in Stoppeds => seen' < stops')
      BY <2>1, <3>1, <3>5 DEF StopInv
    <3>7. QED BY <2>1, <3>1, <3>3, <3>4, <3>5, <3>6 DEF StopInv
  <2>4. QED BY <2>2, <2>3
<1>9. ASSUME NEW c \in posts, PostArrives(c)
      PROVE  StopInv'
  <2>1. UNCHANGED <<stops, say, poll, seen, view>>
    BY <1>9 DEF PostArrives, programVars, sessionVars
  <2>2. CASE c = End
    <3>1. /\ queue'[de] = <<>>
          /\ orphan'[de] = IF wait[de] = "here" THEN queue[de] ELSE orphan[de]
          /\ wait'[de] = IF wait[de] = "no" THEN "no" ELSE "apart"
      BY <1>0, <1>9, <2>2, DropOn DEF PostArrives
    <3>2. StopsQueued' = {} /\ Rising(queue'[de]) /\ StopGot' = StopGot
      BY <2>1, <3>1, EmptyQueue DEF StopsQueued, StopGot
    <3>3. CASE wait[de] = "here"
      <4>1. StopsApart' = StopsQueued
        BY <3>1, <3>3 DEF StopsApart, StopsQueued
      <4>2. News' \subseteq News
        BY <3>2, <4>1 DEF News
      <4>3. QED BY <1>0, <2>1, <3>1, <3>2, <3>3, <4>2 DEF StopInv
    <3>4. CASE wait[de] # "here"
      <4>1. wait'[de] = "apart" => wait[de] = "apart" /\ orphan'[de] = orphan[de]
        BY <1>0, <3>1, <3>4 DEF RelayTypes, Waiting
      <4>2. QED BY <1>0, <2>1, <3>2, <4>1, StopsKept
    <3>5. QED BY <3>3, <3>4
  <2>3. CASE c # End
    <3>1. c \in Command /\ RelayPush(dc, c)
      BY <1>0, <1>9, <2>3 DEF PostArrives, SessionTypes, dc
    <3>2. orphan' = orphan /\ wait' = wait /\ queue'[de] = queue[de]
      BY <1>0, <3>1, PushOn DEF Message
    <3>3. QED BY <1>0, <2>1, <3>2, StopsKept DEF StopsQueued, StopGot
  <2>4. QED BY <2>2, <2>3
<1>10. CASE EventUnreadable
  <2>1. StopGot' = {} /\ UNCHANGED <<say, queue, orphan, wait, stops, seen, view>>
    BY <1>10, Events DEF EventUnreadable, StopGot, programVars, relayVars
  <2>2. QED BY <1>0, <2>1, StopsKept DEF StopsQueued
<1>11. CASE /\ UNCHANGED <<say, poll, stops, seen, queue, orphan, wait>>
            /\ view' \in {0, view}
  BY <1>0, <1>11, StopsKept DEF StopsQueued, StopGot
<1>12. CASE \/ ResumeProgram \/ SendExtra \/ PollFails \/ PressStop \/ Disconnect
            \/ StopRun \/ HearExit \/ UNCHANGED debugVars
            \/ \E c \in posts : PostFails(c)
  BY <1>11, <1>12 DEF PostFails, ResumeProgram, SendExtra, PollFails, PressStop,
     Disconnect, StopRun, HearExit, Exited, debugVars, programVars, sessionVars, relayVars
<1>13. QED
  BY <1>1, <1>2, <1>3, <1>4, <1>5, <1>6, <1>7, <1>8, <1>9, <1>10, <1>12
     DEF DebugNext, AskStep, PollStep, PostStep

-----------------------------------------------------------------------------
(* The theorems.                                                           *)

LEMMA DebugInvInit == DebugInit => DebugInv
<1> SUFFICES ASSUME DebugInit PROVE DebugInv
  OBVIOUS
<1>1. /\ \A c \in Channel : queue[c] = <<>> /\ orphan[c] = <<>> /\ wait[c] = "no"
      /\ dc \in Channel /\ de \in Channel
  BY TwoChannels DEF DebugInit, RelayInit
<1>2. RelayTypes
  BY <1>1, RelayAssumption DEF DebugInit, RelayInit, RelayTypes
<1>3. QueueTypes
  BY <1>1, QueueOps DEF QueueTypes
<1>4. SessionTypes
  <2>1. ask \in [at : {"no", "sent", "pushed", "waiting", "answered"},
                 got : Command \cup {Wait, None}]
    BY DEF DebugInit, Silent
  <2>2. poll \in [at : {"no", "sent", "waiting", "replied"}, got : Said \cup {Nothing}]
    BY DEF DebugInit
  <2>3. 0 \in 0 .. MaxStops /\ 0 \in 0 .. MaxCommands
    BY DebugAssumption
  <2>4. alive \in BOOLEAN /\ killing \in BOOLEAN /\ exiting \in BOOLEAN
    BY DEF DebugInit
  <2>5. pc \in Place /\ stops = 0 /\ say = Nothing /\ view = 0 /\ seen = 0 /\ told = 0
        /\ missed = FALSE /\ posts = {} /\ term = "ours" /\ ends = 0 /\ extra = 0
    BY DEF DebugInit, Place
  <2>6. QED BY <2>1, <2>2, <2>3, <2>4, <2>5 DEF SessionTypes
<1>5. WaitInv
  BY <1>1 DEF DebugInit, WaitInv, Silent
<1>6. /\ posts = {} /\ ask.got \notin Resumes
      /\ say \notin Stoppeds /\ poll.got \notin Stoppeds
  BY Commands, Events DEF DebugInit, Silent
<1>7. /\ Held(queue[dc]) = {} /\ Once(queue[dc], Resumes)
      /\ Held(queue[de]) = {} /\ Rising(queue[de])
      /\ wait[dc] = "no" /\ wait[de] = "no"
  BY <1>1, EmptyQueue
<1>8. ResumeInv
  <2>1. Abroad = {} /\ InOnePlace
    BY <1>6, <1>7 DEF Abroad, InOnePlace, Posted, Queued, Apart, Got
  <2>2. stops = 0 /\ told = 0
    BY DEF DebugInit
  <2>3. Cardinality({}) = 0
    BY FS_EmptySet
  <2>4. Obeyed({})
    BY <2>1, <2>2, <2>3 DEF Obeyed
  <2>5. QED BY <2>1, <2>4 DEF ResumeInv
<1>9. StopInv
  <2>1. News = {} /\ StopsQueued = {} /\ StopsApart = {} /\ StopGot = {}
    BY <1>6, <1>7 DEF News, StopsQueued, StopsApart, StopGot
  <2>2. stops = 0 /\ seen = 0 /\ view = 0
    BY DEF DebugInit
  <2>3. QED BY <1>6, <1>7, <2>1, <2>2 DEF StopInv
<1>10. QED BY <1>2, <1>3, <1>4, <1>5, <1>8, <1>9 DEF DebugInv, Types

LEMMA DebugInvStep == DebugInv /\ [DebugNext]_debugVars => DebugInv'
BY QueueTypesStep, SessionTypesStep, WaitStep, ResumeStep, StopStep DEF DebugInv, Types

LEMMA DebugInvHolds == DebugSpec => []DebugInv
BY DebugInvInit, DebugInvStep, PTL DEF DebugSpec

(* Every variable of a session and of the relay under it has its type, and *)
(* no queue exceeds its capacity (relayPush's non-blocking send).          *)
THEOREM DebugTypeCorrect == DebugSpec => []DebugTypeOK
<1>1. DebugInv => DebugTypeOK
  <2> SUFFICES ASSUME DebugInv PROVE DebugTypeOK
    OBVIOUS
  <2>1. RelayTypes /\ SessionTypes
    BY DEF DebugInv, Types
  <2>2. say \in Event /\ poll \in [at : {"no", "sent", "waiting", "replied"}, got : Event]
    BY <2>1, Events DEF SessionTypes
  <2>3. QED BY <2>1, <2>2 DEF DebugTypeOK, RelayTypes, SessionTypes
<1>2. QED BY <1>1, DebugInvHolds, PTL

(* A request that is not in relayWait yet finds nobody else there: no      *)
(* command or event is taken by an older request of the same side.         *)
THEOREM OneReaderHolds == DebugSpec => []OneReader
<1>1. DebugInv => OneReader
  BY DEF DebugInv, WaitInv, OneReader, dc, de
<1>2. QED BY <1>1, DebugInvHolds, PTL

(* However many times the student said go on, the program went on no more  *)
(* often.                                                                  *)
LEMMA WentOn ==
  ASSUME DebugInv
  PROVE  stops <= told + 1 /\ (pc \in Runs => stops <= told)
<1>1. PICK h : Obeyed(h)
  BY DEF DebugInv, ResumeInv
<1>2. told \in Nat /\ stops \in Nat /\ h \subseteq 1 .. told
  BY <1>1, DebugAssumption DEF DebugInv, Types, SessionTypes, Obeyed
<1>3. Cardinality(h) \in Nat /\ Cardinality(h) <= told
  BY <1>2, ObeyedCount
<1>4. QED BY <1>1, <1>2, <1>3 DEF Obeyed

(* Where the editor of a living session shows stop n, and fewer than n     *)
(* commands to go on were given, the program stands there, or it got away  *)
(* and will not come back; whatever commands were given when.              *)
THEOREM ViewCorrect == DebugSpec => []ViewIsCurrent
<1>1. ASSUME DebugInv PROVE ViewIsCurrent
  <2>1. seen <= stops /\ view \in {0, seen} /\ stops \in Nat /\ told \in Nat /\ seen \in Nat
    BY <1>1, DebugAssumption DEF DebugInv, StopInv, Types, SessionTypes
  <2>2. stops <= told + 1 /\ (pc \in Runs => stops <= told)
    BY <1>1, WentOn
  <2>3. QED BY <2>1, <2>2 DEF ViewIsCurrent, Runs
<1>2. QED BY <1>1, DebugInvHolds, PTL

(* The session implements StopAndGo: the program goes on once for each     *)
(* command that was given, and stops are shown in their order, none twice. *)
THEOREM TurnsTaken == DebugSpec => TakesTurns
<1>1. DebugInit => Turns!SagInit
  BY DEF DebugInit, Turns!SagInit
<1>2. ASSUME DebugInv, DebugInv', [DebugNext]_debugVars
      PROVE  [\/ Turns!Stops \/ Turns!Shows \/ Turns!Hides \/ Turns!Tells
              \/ Turns!GoesOn \/ Turns!GetsAway]_(Turns!sagVars)
  <2>0. /\ RelayTypes /\ SessionTypes /\ WaitInv /\ ResumeInv /\ StopInv
        /\ told \in Nat /\ stops \in Nat /\ seen \in Nat
    BY <1>2, DebugAssumption DEF DebugInv, Types, SessionTypes
  <2>1. CASE StopsAtLine
    BY <2>1 DEF StopsAtLine, Turns!Stops, sessionVars
  <2>2. CASE TakeEvent
    <3>1. UNCHANGED <<pc, stops, told>>
      BY <2>2 DEF TakeEvent, programVars
    <3>2. CASE UNCHANGED <<seen, view>>
      BY <3>1, <3>2 DEF Turns!sagVars
    <3>3. CASE ~UNCHANGED <<seen, view>>
      <4>1. poll.got.t = "stopped" /\ seen' = poll.got.of /\ view' = seen'
        BY <2>2, <3>3 DEF TakeEvent
      <4>2. poll.got \in News
        BY <2>0, <4>1, Events DEF SessionTypes, StopGot, News
      <4>3. seen < seen' /\ seen' <= stops /\ seen' \in Nat
        <5>1. seen' \in Nat
          BY <1>2, DebugAssumption DEF DebugInv, Types, SessionTypes
        <5>2. QED BY <2>0, <4>1, <4>2, <5>1 DEF StopInv
      <4>4. QED BY <2>0, <3>1, <4>1, <4>3 DEF Turns!Shows
    <3>4. QED BY <3>2, <3>3
  <2>3. CASE TakeAnswer
    <3>1. pc = "asking" /\ UNCHANGED <<stops, seen, view, told>>
      BY <2>3 DEF TakeAnswer, sessionVars
    <3>2. pc' = pc \/ pc' \in {"over", "loose"} \/ pc' = "running"
      BY <2>3 DEF TakeAnswer, Unwinds
    <3>3. pc' = "running" => stops <= told
      <4>1. PICK h : Obeyed(h)'
        BY <1>2 DEF DebugInv, ResumeInv
      <4>2. h \subseteq 1 .. told /\ (pc' = "running" => stops <= Cardinality(h))
        BY <3>1, <4>1 DEF Obeyed, Runs
      <4>3. Cardinality(h) \in Nat /\ Cardinality(h) <= told
        BY <2>0, <4>2, ObeyedCount
      <4>4. QED BY <2>0, <4>2, <4>3
    <3>4. QED BY <3>1, <3>2, <3>3 DEF Turns!GoesOn, Turns!GetsAway, Turns!sagVars
  <2>4. CASE Prepare \/ Finishes \/ AskFails \/ KillWorker
    <3>1. UNCHANGED <<stops, seen, view, told>>
      BY <2>4 DEF Prepare, Finishes, AskFails, KillWorker, sessionVars
    <3>2. \/ pc \in Runs /\ pc' \in Runs
          \/ pc' \in {"over", "loose", "killed"}
      BY <2>4 DEF Prepare, Finishes, AskFails, Unwinds, KillWorker, Runs
    <3>3. QED BY <3>1, <3>2 DEF Runs, Turns!GetsAway, Turns!sagVars
  <2>5. CASE ResumeProgram
    BY <2>5 DEF ResumeProgram, programVars, Turns!Tells
  <2>6. CASE PollFails \/ PressStop \/ HearExit
    <3>1. /\ UNCHANGED <<pc, stops, seen, told>>
          /\ view' = 0 \/ view' = view
      BY <2>6 DEF PollFails, PressStop, HearExit, Exited, programVars
    <3>2. QED BY <3>1 DEF Turns!Hides, Turns!sagVars
  <2>7. CASE UNCHANGED <<pc, stops, seen, view, told>>
    BY <2>7 DEF Turns!sagVars
  <2>8. QED
    BY <1>2, <2>1, <2>2, <2>3, <2>4, <2>5, <2>6, <2>7
       DEF DebugNext, AskStep, PollStep, PostStep, PauseArrives, PauseWaits, PauseEnds,
           PollArrives, PollEnds, PostArrives, PostFails, SendExtra, EventUnreadable,
           Disconnect, StopRun, debugVars, programVars, sessionVars
<1>3. QED
  BY <1>1, <1>2, DebugInvHolds, PTL DEF DebugSpec, TakesTurns, Turns!StopAndGoSpec
=============================================================================
