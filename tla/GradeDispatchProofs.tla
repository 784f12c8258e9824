------------------------- MODULE GradeDispatchProofs -------------------------
(***************************************************************************)
(* For any number of nodes, requests, slots and restarts: the gateway's    *)
(* count of calls is exact, a row is the grade of the one call that was    *)
(* not given up, and the graders of a node are a plain slot pool.          *)
(***************************************************************************)
EXTENDS GradeDispatch, FiniteSetTheorems, TLAPS

(* Whoever calls, or has called, still has the runner in its plan.         *)
HasTarget ==
  \A s \in Submit :
    submit[s].at \in {"calling", "failed", "got", "answered"} => submit[s].plan # <<>>

GradeInv == GradeTypeOK /\ HasTarget

(* A plan of pickRunners is a sequence of hosts.                           *)
LEMMA PlansAreSequences ==
  ASSUME up \in SUBSET (Host \ {Local}), NEW p \in PickRunners
  PROVE  p \in Seq(Host)
<1>1. IsFiniteSet(up)
  <2>1. up \subseteq Host
    OBVIOUS
  <2>2. QED BY <2>1, GradeAssumption, FS_Subset DEF GradeAssumption
<1>2. Cardinality(up) \in Nat
  BY <1>1, FS_CardinalityType
<1>3. PICK q \in SetToSeqs(up) : p = Append(q, Local)
  BY DEF PickRunners
<1>4. q \in [1 .. Cardinality(up) -> up]
  BY <1>3 DEF SetToSeqs
<1>5. q \in Seq(Host)
  BY <1>2, <1>4
<1>6. QED BY <1>3, <1>5, GradeAssumption DEF GradeAssumption

(* The runner a handler is about to call, or has called, is a host.        *)
LEMMA TargetIsHost ==
  ASSUME GradeTypeOK, NEW s \in Submit, submit[s].plan # <<>>
  PROVE  Target(s) \in Host /\ Tail(submit[s].plan) \in Seq(Host)
<1>1. submit[s].plan \in Seq(Host)
  BY DEF GradeTypeOK
<1>2. QED BY <1>1 DEF Target

(* A handler goes on: its place changes and its plan does not.             *)
LEMMA ProceedsStep ==
  ASSUME GradeInv, NEW s \in Submit, NEW from, NEW to \in At,
         Proceeds(s, from, to)
  PROVE  /\ submit' \in [Submit -> [at : At, plan : Seq(Host)]]
         /\ submit[s].at = from
         /\ \A r \in Submit : submit'[r].plan = submit[r].plan
         /\ \A r \in Submit : submit'[r].at = IF r = s THEN to ELSE submit[r].at
<1>1. submit \in [Submit -> [at : At, plan : Seq(Host)]]
  BY DEF GradeInv, GradeTypeOK
<1>2. submit' = [submit EXCEPT ![s].at = to]
  BY DEF Proceeds
<1>3. submit' \in [Submit -> [at : At, plan : Seq(Host)]]
  BY <1>1, <1>2
<1>4. submit'[s].at = to /\ submit'[s].plan = submit[s].plan
  BY <1>1, <1>2
<1>5. \A r \in Submit : r # s => submit'[r] = submit[r]
  BY <1>1, <1>2
<1>6. QED BY <1>3, <1>4, <1>5 DEF Proceeds

(* The loop goes on to the next runner of the plan.                        *)
LEMMA NextRunnerStep ==
  ASSUME GradeInv, NEW s \in Submit, NextRunner(s)
  PROVE  /\ submit' \in [Submit -> [at : At, plan : Seq(Host)]]
         /\ submit[s].at = "failed"
         /\ submit'[s].at = "trying"
         /\ \A r \in Submit : r # s => submit'[r] = submit[r]
<1>1. submit \in [Submit -> [at : At, plan : Seq(Host)]]
  BY DEF GradeInv, GradeTypeOK
<1>2. submit[s].at = "failed" /\ submit' = [submit EXCEPT ![s].at = "trying", ![s].plan = Tail(@)]
  BY DEF NextRunner
<1>3. Tail(submit[s].plan) \in Seq(Host)
  BY <1>2, TargetIsHost DEF GradeInv, HasTarget
<1> DEFINE first == [submit EXCEPT ![s].at = "trying"]
<1>4. first \in [Submit -> [at : At, plan : Seq(Host)]]
  BY <1>1 DEF At
<1>5. /\ first[s].at = "trying" /\ first[s].plan = submit[s].plan
      /\ \A r \in Submit : r # s => first[r] = submit[r]
  BY <1>1
<1>6. submit' = [first EXCEPT ![s].plan = Tail(submit[s].plan)]
  BY <1>1, <1>2
<1> HIDE DEF first
<1>7. submit' \in [Submit -> [at : At, plan : Seq(Host)]]
  BY <1>3, <1>4, <1>6
<1>8. submit'[s].at = "trying" /\ \A r \in Submit : r # s => submit'[r] = submit[r]
  BY <1>4, <1>5, <1>6
<1>9. QED BY <1>2, <1>7, <1>8

(* The gateway restarts: whoever had not been answered is cut off.         *)
LEMMA GatewayRestartsStep ==
  ASSUME GradeInv, GatewayRestarts
  PROVE  /\ submit' \in [Submit -> [at : At, plan : Seq(Host)]]
         /\ \A r \in Submit : submit'[r].plan = submit[r].plan
         /\ \A r \in Submit :
              submit'[r].at = IF submit[r].at \in {"idle"} \cup Closed
                                THEN submit[r].at ELSE "cut"
<1>1. submit \in [Submit -> [at : At, plan : Seq(Host)]]
  BY DEF GradeInv, GradeTypeOK
<1>2. submit' = [s \in Submit |->
                   IF submit[s].at \in {"idle"} \cup Closed THEN submit[s]
                   ELSE [submit[s] EXCEPT !.at = "cut"]]
  BY DEF GatewayRestarts
<1>3. ASSUME NEW r \in Submit
      PROVE  /\ submit'[r] \in [at : At, plan : Seq(Host)]
             /\ submit'[r].plan = submit[r].plan
             /\ submit'[r].at = IF submit[r].at \in {"idle"} \cup Closed
                                  THEN submit[r].at ELSE "cut"
  <2>1. submit[r] \in [at : At, plan : Seq(Host)]
    BY <1>1
  <2>2. [submit[r] EXCEPT !.at = "cut"] \in [at : At, plan : Seq(Host)]
    BY <2>1 DEF At
  <2>3. QED BY <1>2, <2>1, <2>2
<1>4. submit' = [r \in Submit |-> submit'[r]]
  BY <1>2
<1>5. QED BY <1>3, <1>4

(* A thread of a runner goes on.                                           *)
LEMMA JobStep ==
  ASSUME GradeTypeOK, NEW h \in Host, NEW s \in Submit,
         NEW from, NEW to \in JobPhase, JobMoves(h, s, from, to)
  PROVE  /\ job' \in [Host -> [Submit -> JobPhase]]
         /\ job[h][s] = from
         /\ \A g \in Host, r \in Submit :
              job'[g][r] = IF g = h /\ r = s THEN to ELSE job[g][r]
<1>1. job \in [Host -> [Submit -> JobPhase]]
  BY DEF GradeTypeOK
<1>2. QED BY <1>1 DEF JobMoves

(* The counters change on one host; busy_add clamps at 0.                  *)
LEMMA AddInflightStep ==
  ASSUME GradeTypeOK, NEW h \in Host, NEW d \in Int, AddInflight(h, d)
  PROVE  /\ inflight' \in [Host -> Int]
         /\ \A g \in Host : inflight'[g] = IF g = h THEN inflight[g] + d ELSE inflight[g]
BY DEF GradeTypeOK, AddInflight

LEMMA AddBusyStep ==
  ASSUME GradeTypeOK, NEW h \in Host, NEW d \in Int, AddBusy(h, d)
  PROVE  /\ busy' \in [Host -> Nat]
         /\ \A g \in Host : busy'[g] = IF g # h THEN busy[g]
                                        ELSE IF busy[g] + d < 0 THEN 0
                                        ELSE busy[g] + d
BY DEF GradeTypeOK, AddBusy

(* Every step keeps the types and a target for whoever calls.              *)
LEMMA GradeInvStep == GradeInv /\ [GradeNext]_vars => GradeInv'
<1> SUFFICES ASSUME GradeInv, [GradeNext]_vars
             PROVE  GradeInv'
  OBVIOUS
<1>0. /\ up \in SUBSET (Host \ {Local}) /\ inflight \in [Host -> Int]
      /\ submit \in [Submit -> [at : At, plan : Seq(Host)]]
      /\ rows \in SUBSET [of : Student, by : Host]
      /\ sem \in [Host -> Nat] /\ busy \in [Host -> Nat]
      /\ job \in [Host -> [Submit -> JobPhase]] /\ restarts \in Nat
  BY DEF GradeInv, GradeTypeOK
<1>1. ASSUME NEW s \in Submit, HandleSubmit(s)
      PROVE  GradeInv'
  <2>1. PICK p \in PickRunners : submit' = [submit EXCEPT ![s] = [at |-> "trying", plan |-> p]]
    BY <1>1 DEF HandleSubmit
  <2>2. p \in Seq(Host)
    BY <1>0, PlansAreSequences
  <2>3. [at |-> "trying", plan |-> p] \in [at : At, plan : Seq(Host)]
    BY <2>2 DEF At
  <2>4. submit' \in [Submit -> [at : At, plan : Seq(Host)]]
    BY <1>0, <2>1, <2>3
  <2>5. HasTarget'
    BY <1>0, <2>1 DEF HasTarget, GradeInv
  <2>6. GradeTypeOK'
    BY <1>0, <1>1, <2>4 DEF HandleSubmit, graderVars, GradeTypeOK
  <2>7. QED BY <2>5, <2>6 DEF GradeInv
<1>2. ASSUME NEW s \in Submit, CallRunner(s)
      PROVE  GradeInv'
  <2>1. Proceeds(s, "trying", "calling") /\ submit[s].plan # <<>>
    BY <1>2 DEF CallRunner
  <2>2. /\ submit' \in [Submit -> [at : At, plan : Seq(Host)]]
        /\ \A r \in Submit : submit'[r].plan = submit[r].plan
        /\ \A r \in Submit : submit'[r].at = IF r = s THEN "calling" ELSE submit[r].at
    BY <2>1, ProceedsStep DEF At
  <2>3. Target(s) \in Host
    BY <2>1, TargetIsHost DEF GradeInv
  <2>4. inflight' \in [Host -> Int]
    BY <1>2, <2>3, AddInflightStep DEF CallRunner, GradeInv
  <2>5. job' \in [Host -> [Submit -> JobPhase]]
    <3>1. CASE JobMoves(Target(s), s, "none", "waiting")
      BY <3>1, <2>3, JobStep DEF JobPhase, GradeInv
    <3>2. QED BY <3>1, <1>0, <1>2 DEF CallRunner
  <2>6. HasTarget'
    BY <2>1, <2>2 DEF HasTarget, GradeInv
  <2>7. GradeTypeOK'
    BY <1>0, <1>2, <2>2, <2>4, <2>5 DEF CallRunner, GradeTypeOK
  <2>8. QED BY <2>6, <2>7 DEF GradeInv
<1>3. ASSUME NEW s \in Submit, CallFails(s) \/ TakeAnswer(s)
      PROVE  GradeInv'
  <2>1. PICK to \in {"failed", "got"} : Proceeds(s, "calling", to)
    BY <1>3 DEF CallFails, TakeAnswer
  <2>2. /\ submit' \in [Submit -> [at : At, plan : Seq(Host)]]
        /\ submit[s].at = "calling"
        /\ \A r \in Submit : submit'[r].plan = submit[r].plan
        /\ \A r \in Submit : submit'[r].at = IF r = s THEN to ELSE submit[r].at
    BY <2>1, ProceedsStep DEF At
  <2>3. submit[s].plan # <<>>
    BY <2>2 DEF GradeInv, HasTarget
  <2>4. inflight' \in [Host -> Int]
    BY <1>3, <2>3, TargetIsHost, AddInflightStep DEF CallFails, TakeAnswer, GradeInv
  <2>5. HasTarget'
    BY <2>2, <2>3 DEF HasTarget, GradeInv
  <2>6. GradeTypeOK'
    BY <1>0, <1>3, <2>2, <2>4 DEF CallFails, TakeAnswer, graderVars, GradeTypeOK
  <2>7. QED BY <2>5, <2>6 DEF GradeInv
<1>4. ASSUME NEW s \in Submit, NextRunner(s)
      PROVE  GradeInv'
  <2>1. /\ submit' \in [Submit -> [at : At, plan : Seq(Host)]]
        /\ submit'[s].at = "trying"
        /\ \A r \in Submit : r # s => submit'[r] = submit[r]
    BY <1>4, NextRunnerStep
  <2>2. HasTarget'
    BY <2>1 DEF HasTarget, GradeInv
  <2>3. up' \in SUBSET (Host \ {Local})
    BY <1>0, <1>4 DEF NextRunner
  <2>4. GradeTypeOK'
    BY <1>0, <1>4, <2>1, <2>3 DEF NextRunner, graderVars, GradeTypeOK
  <2>5. QED BY <2>2, <2>4 DEF GradeInv
<1>5. ASSUME NEW s \in Submit, Unavailable(s)
      PROVE  GradeInv'
  <2>1. Proceeds(s, "trying", "unavailable")
    BY <1>5 DEF Unavailable
  <2>2. /\ submit' \in [Submit -> [at : At, plan : Seq(Host)]]
        /\ \A r \in Submit : submit'[r].plan = submit[r].plan
        /\ \A r \in Submit : submit'[r].at = IF r = s THEN "unavailable" ELSE submit[r].at
    BY <2>1, ProceedsStep DEF At
  <2>3. HasTarget'
    BY <2>2 DEF HasTarget, GradeInv
  <2>4. GradeTypeOK'
    BY <1>0, <1>5, <2>2 DEF Unavailable, graderVars, GradeTypeOK
  <2>5. QED BY <2>3, <2>4 DEF GradeInv
<1>6. ASSUME NEW s \in Submit, Record(s)
      PROVE  GradeInv'
  <2>1. Proceeds(s, "got", "answered")
    BY <1>6 DEF Record
  <2>2. /\ submit' \in [Submit -> [at : At, plan : Seq(Host)]]
        /\ submit[s].at = "got"
        /\ \A r \in Submit : submit'[r].plan = submit[r].plan
        /\ \A r \in Submit : submit'[r].at = IF r = s THEN "answered" ELSE submit[r].at
    BY <2>1, ProceedsStep DEF At
  <2>3. submit[s].plan # <<>>
    BY <2>2 DEF GradeInv, HasTarget
  <2>4. rows' \in SUBSET [of : Student, by : Host]
    <3>1. Target(s) \in Host
      BY <2>3, TargetIsHost DEF GradeInv
    <3>2. QED BY <1>0, <1>6, <3>1 DEF Record
  <2>5. HasTarget'
    BY <2>2, <2>3 DEF HasTarget, GradeInv
  <2>6. GradeTypeOK'
    BY <1>0, <1>6, <2>2, <2>4 DEF Record, graderVars, GradeTypeOK
  <2>7. QED BY <2>5, <2>6 DEF GradeInv
<1>8. CASE GatewayRestarts
  <2>1. /\ submit' \in [Submit -> [at : At, plan : Seq(Host)]]
        /\ \A r \in Submit : submit'[r].plan = submit[r].plan
        /\ \A r \in Submit :
              submit'[r].at = IF submit[r].at \in {"idle"} \cup Closed
                                THEN submit[r].at ELSE "cut"
    BY <1>8, GatewayRestartsStep
  <2>2. HasTarget'
    BY <2>1 DEF HasTarget, GradeInv, Closed
  <2>3. GradeTypeOK'
    BY <1>0, <1>8, <2>1 DEF GatewayRestarts, graderVars, GradeTypeOK
  <2>4. QED BY <2>2, <2>3 DEF GradeInv
<1>9. ASSUME NEW h \in Host, StatusChanges(h)
      PROVE  GradeInv'
  <2>1. up' \in SUBSET (Host \ {Local})
    BY <1>0, <1>9 DEF StatusChanges
  <2>2. GradeTypeOK'
    BY <1>0, <1>9, <2>1 DEF StatusChanges, graderVars, GradeTypeOK
  <2>3. HasTarget'
    BY <1>9 DEF StatusChanges, HasTarget, GradeInv
  <2>4. QED BY <2>2, <2>3 DEF GradeInv
<1>10. ASSUME NEW h \in Host, RunnerRestarts(h)
       PROVE  GradeInv'
  <2>1. job' \in [Host -> [Submit -> JobPhase]]
    BY <1>0, <1>10 DEF RunnerRestarts, JobPhase
  <2>2. sem' \in [Host -> Nat] /\ busy' \in [Host -> Nat]
    BY <1>0, <1>10, GradeAssumption DEF RunnerRestarts, GradeAssumption
  <2>3. GradeTypeOK'
    BY <1>0, <1>10, <2>1, <2>2 DEF RunnerRestarts, gatewayVars, GradeTypeOK
  <2>4. HasTarget'
    BY <1>10 DEF RunnerRestarts, gatewayVars, HasTarget, GradeInv
  <2>5. QED BY <2>3, <2>4 DEF GradeInv
<1>11. ASSUME NEW h \in Host, NEW s \in Submit, GraderStep(h, s)
       PROVE  GradeInv'
  <2>1. job' \in [Host -> [Submit -> JobPhase]]
    BY <1>11, JobStep DEF GraderStep, Acquire, Grade, GradeEnds, Release, JobPhase, GradeInv
  <2>2. sem' \in [Host -> Nat]
    <3>1. CASE Acquire(h, s)
      BY <1>0, <3>1 DEF Acquire
    <3>2. CASE Release(h, s)
      BY <1>0, <3>2 DEF Release
    <3>3. CASE Grade(h, s) \/ GradeEnds(h, s)
      BY <1>0, <3>3 DEF Grade, GradeEnds
    <3>4. QED BY <1>11, <3>1, <3>2, <3>3 DEF GraderStep
  <2>3. busy' \in [Host -> Nat]
    <3>1. CASE Acquire(h, s) \/ Release(h, s)
      BY <1>0, <3>1 DEF Acquire, Release
    <3>2. CASE Grade(h, s) \/ GradeEnds(h, s)
      BY <3>2, AddBusyStep DEF Grade, GradeEnds, GradeInv
    <3>3. QED BY <1>11, <3>1, <3>2 DEF GraderStep
  <2>4. UNCHANGED <<gatewayVars, restarts>>
    BY <1>11 DEF GraderStep, Acquire, Grade, GradeEnds, Release
  <2>5. GradeTypeOK'
    BY <1>0, <2>1, <2>2, <2>3, <2>4 DEF gatewayVars, GradeTypeOK
  <2>6. HasTarget'
    BY <2>4 DEF gatewayVars, HasTarget, GradeInv
  <2>7. QED BY <2>5, <2>6 DEF GradeInv
<1>12. CASE UNCHANGED vars
  BY <1>0, <1>12 DEF vars, gatewayVars, graderVars, GradeInv, GradeTypeOK, HasTarget
<1>13. QED
  BY <1>1, <1>2, <1>3, <1>4, <1>5, <1>6, <1>8, <1>9, <1>10, <1>11, <1>12
     DEF GradeNext, GatewayStep

LEMMA GradeInvHolds == GradeSpec => []GradeInv
<1>1. GradeInit => GradeInv
  <2> SUFFICES ASSUME GradeInit PROVE GradeInv
    OBVIOUS
  <2>1. [at |-> "idle", plan |-> <<>>] \in [at : At, plan : Seq(Host)]
    BY DEF At
  <2>2. /\ submit \in [Submit -> [at : At, plan : Seq(Host)]]
        /\ \A s \in Submit : submit[s].at = "idle"
    BY <2>1 DEF GradeInit
  <2>3. HasTarget
    BY <2>2 DEF HasTarget
  <2>4. GradeMax \in Nat
    BY GradeAssumption DEF GradeAssumption
  <2>5. GradeTypeOK
    <3>1. /\ inflight \in [Host -> Int] /\ busy \in [Host -> Nat]
          /\ restarts \in Nat
      BY DEF GradeInit
    <3>2. sem \in [Host -> Nat]
      BY <2>4 DEF GradeInit
    <3>3. job \in [Host -> [Submit -> JobPhase]]
      BY DEF GradeInit, JobPhase
    <3>4. up \in SUBSET (Host \ {Local}) /\ rows = {}
      BY DEF GradeInit
    <3>5. QED BY <2>2, <3>1, <3>2, <3>3, <3>4 DEF GradeTypeOK
  <2>6. QED BY <2>3, <2>5 DEF GradeInv
<1>2. QED BY <1>1, GradeInvStep, PTL DEF GradeSpec

(* The variables keep their types.                                         *)
THEOREM GradeTypeCorrect == GradeSpec => []GradeTypeOK
<1>1. GradeInv => GradeTypeOK
  BY DEF GradeInv
<1>2. QED BY <1>1, GradeInvHolds, PTL

-----------------------------------------------------------------------------
(* The gateway's count of calls under way.                                 *)

LEMMA CallsFinite == \A h \in Host : IsFiniteSet(CallsTo(h))
<1>1. \A h \in Host : CallsTo(h) \subseteq Submit
  BY DEF CallsTo
<1>2. QED BY <1>1, GradeAssumption, FS_Subset DEF GradeAssumption

(* No call begins or ends: the sets of calls stay what they are.           *)
LEMMA CallsStay ==
  ASSUME InflightIsCalls, inflight' = inflight,
         \A s \in Submit : submit[s].at = "calling" <=> submit'[s].at = "calling",
         \A s \in Submit : submit[s].at = "calling" => submit'[s].plan = submit[s].plan
  PROVE  InflightIsCalls'
<1>1. \A h \in Host : CallsTo(h)' = CallsTo(h)
  BY DEF CallsTo, Target
<1>2. QED BY <1>1 DEF InflightIsCalls

(* A call begins: its runner has one more.                                 *)
LEMMA CallBegins ==
  ASSUME GradeInv, InflightIsCalls, NEW s \in Submit, CallRunner(s)
  PROVE  InflightIsCalls'
<1> SUFFICES ASSUME NEW g \in Host
             PROVE  inflight'[g] = Cardinality(CallsTo(g)')
  BY DEF InflightIsCalls
<1>1. /\ submit[s].at = "trying"
      /\ \A r \in Submit : submit'[r].plan = submit[r].plan
      /\ \A r \in Submit : submit'[r].at = IF r = s THEN "calling" ELSE submit[r].at
  BY ProceedsStep DEF CallRunner, At
<1>2. Target(s) \in Host
  BY TargetIsHost DEF CallRunner, GradeInv
<1>3. inflight'[g] = IF g = Target(s) THEN inflight[g] + 1 ELSE inflight[g]
  BY <1>2, AddInflightStep DEF CallRunner, GradeInv
<1>4. inflight[g] = Cardinality(CallsTo(g)) /\ IsFiniteSet(CallsTo(g))
  BY CallsFinite DEF InflightIsCalls
<1>5. CASE g = Target(s)
  <2>1. CallsTo(g)' = CallsTo(g) \cup {s} /\ s \notin CallsTo(g)
    BY <1>1, <1>5 DEF CallsTo, Target
  <2>2. QED BY <2>1, <1>3, <1>4, <1>5, FS_AddElement
<1>6. CASE g # Target(s)
  <2>1. CallsTo(g)' = CallsTo(g)
    BY <1>1, <1>6 DEF CallsTo, Target
  <2>2. QED BY <2>1, <1>3, <1>4, <1>6
<1>7. QED BY <1>5, <1>6

(* A call ends, however it does: its runner has one fewer.                 *)
LEMMA CallEnds ==
  ASSUME GradeInv, InflightIsCalls, NEW s \in Submit, NEW to \in At \ {"calling"},
         Proceeds(s, "calling", to), AddInflight(Target(s), -1)
  PROVE  InflightIsCalls'
<1> SUFFICES ASSUME NEW g \in Host
             PROVE  inflight'[g] = Cardinality(CallsTo(g)')
  BY DEF InflightIsCalls
<1>1. /\ submit[s].at = "calling"
      /\ \A r \in Submit : submit'[r].plan = submit[r].plan
      /\ \A r \in Submit : submit'[r].at = IF r = s THEN to ELSE submit[r].at
  BY ProceedsStep
<1>2. Target(s) \in Host
  BY <1>1, TargetIsHost DEF HasTarget, GradeInv
<1>3. inflight'[g] = IF g = Target(s) THEN inflight[g] - 1 ELSE inflight[g]
  <2>1. inflight'[g] = IF g = Target(s) THEN inflight[g] + (-1) ELSE inflight[g]
    BY <1>2, AddInflightStep DEF GradeInv
  <2>2. inflight[g] \in Int
    BY DEF GradeInv, GradeTypeOK
  <2>3. QED BY <2>1, <2>2
<1>4. inflight[g] = Cardinality(CallsTo(g)) /\ IsFiniteSet(CallsTo(g))
  BY CallsFinite DEF InflightIsCalls
<1>5. CASE g = Target(s)
  <2>1. CallsTo(g)' = CallsTo(g) \ {s} /\ s \in CallsTo(g)
    BY <1>1, <1>5 DEF CallsTo, Target
  <2>2. QED BY <2>1, <1>3, <1>4, <1>5, FS_RemoveElement
<1>6. CASE g # Target(s)
  <2>1. CallsTo(g)' = CallsTo(g)
    BY <1>1, <1>6 DEF CallsTo, Target
  <2>2. QED BY <2>1, <1>3, <1>4, <1>6
<1>7. QED BY <1>5, <1>6

(* inflight is the number of calls under way at every moment, whatever     *)
(* times out, restarts or is answered too late.                            *)
THEOREM CallsCounted == GradeSpec => []InflightIsCalls
<1>1. GradeInit => InflightIsCalls
  <2> SUFFICES ASSUME GradeInit, NEW h \in Host
               PROVE  inflight[h] = Cardinality(CallsTo(h))
    BY DEF InflightIsCalls
  <2>1. CallsTo(h) = {} /\ inflight[h] = 0
    BY DEF GradeInit, CallsTo
  <2>2. QED BY <2>1, FS_EmptySet
<1>2. GradeInv /\ InflightIsCalls /\ [GradeNext]_vars => InflightIsCalls'
  <2> SUFFICES ASSUME GradeInv, InflightIsCalls, [GradeNext]_vars
               PROVE  InflightIsCalls'
    OBVIOUS
  <2>0. submit \in [Submit -> [at : At, plan : Seq(Host)]]
    BY DEF GradeInv, GradeTypeOK
  <2>1. ASSUME NEW s \in Submit, HandleSubmit(s)
        PROVE  InflightIsCalls'
    <3>1. PICK p \in PickRunners : submit' = [submit EXCEPT ![s] = [at |-> "trying", plan |-> p]]
      BY <2>1 DEF HandleSubmit
    <3>2. \A r \in Submit : r # s => submit'[r] = submit[r]
      BY <2>0, <3>1
    <3>3. submit[s].at = "idle" /\ submit'[s].at = "trying" /\ inflight' = inflight
      BY <2>0, <2>1, <3>1 DEF HandleSubmit
    <3>4. QED BY <3>2, <3>3, CallsStay
  <2>2. ASSUME NEW s \in Submit, CallRunner(s)
        PROVE  InflightIsCalls'
    BY <2>2, CallBegins
  <2>3. ASSUME NEW s \in Submit, CallFails(s) \/ TakeAnswer(s)
        PROVE  InflightIsCalls'
    <3>1. PICK to \in {"failed", "got"} : Proceeds(s, "calling", to)
      BY <2>3 DEF CallFails, TakeAnswer
    <3>2. AddInflight(Target(s), -1)
      BY <2>3 DEF CallFails, TakeAnswer
    <3>3. QED BY <3>1, <3>2, CallEnds DEF At
  <2>4. ASSUME NEW s \in Submit, NextRunner(s)
        PROVE  InflightIsCalls'
    <3>1. inflight' = inflight
      BY <2>4 DEF NextRunner
    <3>2. /\ submit[s].at = "failed" /\ submit'[s].at = "trying"
          /\ \A r \in Submit : r # s => submit'[r] = submit[r]
      BY <2>4, NextRunnerStep
    <3>3. QED BY <3>1, <3>2, CallsStay
  <2>5. ASSUME NEW s \in Submit, Unavailable(s) \/ Record(s)
        PROVE  InflightIsCalls'
    <3>1. PICK from \in {"trying", "got"}, to \in {"unavailable", "answered"} :
            Proceeds(s, from, to)
      BY <2>5 DEF Unavailable, Record
    <3>2. /\ submit[s].at = from
          /\ \A r \in Submit : submit'[r].plan = submit[r].plan
          /\ \A r \in Submit : submit'[r].at = IF r = s THEN to ELSE submit[r].at
      BY <3>1, ProceedsStep DEF At
    <3>3. inflight' = inflight
      BY <2>5 DEF Unavailable, Record
    <3>4. QED BY <3>2, <3>3, CallsStay
  <2>6. CASE GatewayRestarts
    <3> SUFFICES ASSUME NEW h \in Host
                 PROVE  inflight'[h] = Cardinality(CallsTo(h)')
      BY DEF InflightIsCalls
    <3>1. \A r \in Submit : submit'[r].at # "calling"
      BY <2>6, GatewayRestartsStep DEF Closed
    <3>2. CallsTo(h)' = {} /\ inflight'[h] = 0
      BY <2>6, <3>1 DEF GatewayRestarts, CallsTo
    <3>3. QED BY <3>2, FS_EmptySet
  <2>7. CASE UNCHANGED <<submit, inflight>>
    BY <2>7, CallsStay
  <2>8. QED
    BY <2>1, <2>2, <2>3, <2>4, <2>5, <2>6, <2>7
       DEF GradeNext, GatewayStep, GraderStep, StatusChanges,
           RunnerRestarts, Acquire, Grade, GradeEnds, Release, gatewayVars, vars
<1>3. QED BY <1>1, <1>2, GradeInvHolds, PTL DEF GradeSpec

-----------------------------------------------------------------------------
(* The rows of the submissions table.                                      *)

(* An answer the gateway has taken came from the runner it called last.    *)
GotFromTarget ==
  \A s \in Submit : submit[s].at = "got" => job[Target(s)][s] = "replied"

(* A reply that was given stays given.                                     *)
LEMMA RepliesStay ==
  ASSUME GradeInv, [GradeNext]_vars, NEW h \in Host, NEW s \in Submit,
         job[h][s] = "replied"
  PROVE  job'[h][s] = "replied"
<1>0. job \in [Host -> [Submit -> JobPhase]]
  BY DEF GradeInv, GradeTypeOK
<1>1. ASSUME NEW g \in Host, NEW r \in Submit, NEW from \in JobPhase \ {"replied"},
             NEW to \in JobPhase, JobMoves(g, r, from, to)
      PROVE  job'[h][s] = "replied"
  <2>1. job[g][r] = from /\ job'[h][s] = IF h = g /\ s = r THEN to ELSE job[h][s]
    BY <1>1, JobStep DEF GradeInv
  <2>2. ~(h = g /\ s = r)
    BY <2>1
  <2>3. QED BY <2>1, <2>2
<1>2. ASSUME NEW g \in Host, RunnerRestarts(g)
      PROVE  job'[h][s] = "replied"
  BY <1>0, <1>2 DEF RunnerRestarts
<1>3. ASSUME NEW r \in Submit, CallRunner(r)
      PROVE  job'[h][s] = "replied"
  <2>1. Target(r) \in Host
    BY <1>3, TargetIsHost DEF CallRunner, GradeInv
  <2>2. JobMoves(Target(r), r, "none", "waiting") \/ job' = job
    BY <1>3 DEF CallRunner
  <2>3. QED BY <1>1, <2>1, <2>2 DEF JobPhase
<1>4. ASSUME NEW g \in Host, NEW r \in Submit, GraderStep(g, r)
      PROVE  job'[h][s] = "replied"
  BY <1>1, <1>4 DEF GraderStep, Acquire, Grade, GradeEnds, Release, JobPhase
<1>5. CASE job' = job
  BY <1>5
<1>6. QED
  BY <1>2, <1>3, <1>4, <1>5
     DEF GradeNext, GatewayStep, GatewayRestarts, HandleSubmit,
         CallFails, TakeAnswer, NextRunner, Unavailable, Record, StatusChanges,
         graderVars, vars

(* Whoever has an answer, or has been answered, keeps its runner.          *)
LEMMA AnsweredStay ==
  ASSUME GradeInv, [GradeNext]_vars, NEW s \in Submit
  PROVE  /\ submit[s].at = "answered" =>
              submit'[s].at = "answered" /\ submit'[s].plan = submit[s].plan
         /\ submit[s].at = "got" /\ submit'[s].at = "got" =>
              submit'[s].plan = submit[s].plan
         /\ submit'[s].at = "got" /\ submit[s].at # "got" =>
              TakeAnswer(s) /\ submit'[s].plan = submit[s].plan
<1>0. submit \in [Submit -> [at : At, plan : Seq(Host)]]
  BY DEF GradeInv, GradeTypeOK
<1> DEFINE Goal ==
      /\ submit[s].at = "answered" =>
           submit'[s].at = "answered" /\ submit'[s].plan = submit[s].plan
      /\ submit[s].at = "got" /\ submit'[s].at = "got" =>
           submit'[s].plan = submit[s].plan
      /\ submit'[s].at = "got" /\ submit[s].at # "got" =>
           TakeAnswer(s) /\ submit'[s].plan = submit[s].plan
<1>1. ASSUME NEW r \in Submit, HandleSubmit(r)
      PROVE  Goal
  <2>1. PICK p \in PickRunners : submit' = [submit EXCEPT ![r] = [at |-> "trying", plan |-> p]]
    BY <1>1 DEF HandleSubmit
  <2>2. r # s => submit'[s] = submit[s]
    BY <1>0, <2>1
  <2>3. submit[r].at = "idle" /\ submit'[r].at = "trying"
    BY <1>0, <1>1, <2>1 DEF HandleSubmit
  <2>4. QED BY <2>2, <2>3
<1>2. ASSUME NEW r \in Submit, GatewayStep(r), ~NextRunner(r)
      PROVE  Goal
  <2>1. PICK from \in {"trying", "calling", "got"},
             to \in {"calling", "failed", "got", "unavailable", "answered"} :
          Proceeds(r, from, to) /\ (to = "got" => TakeAnswer(r)) /\ (from = "got" => to # "got")
    BY <1>2 DEF GatewayStep, CallRunner, CallFails, TakeAnswer, Unavailable, Record
  <2>2. /\ submit[r].at = from
        /\ \A q \in Submit : submit'[q].plan = submit[q].plan
        /\ \A q \in Submit : submit'[q].at = IF q = r THEN to ELSE submit[q].at
    BY <2>1, ProceedsStep DEF At
  <2>3. QED BY <2>1, <2>2
<1>3. ASSUME NEW r \in Submit, NextRunner(r)
      PROVE  Goal
  BY <1>3, NextRunnerStep
<1>4. CASE GatewayRestarts
  BY <1>4, GatewayRestartsStep DEF Closed
<1>5. CASE submit' = submit
  BY <1>5
<1>6. Goal
  BY <1>1, <1>2, <1>3, <1>4, <1>5
     DEF GradeNext, StatusChanges, RunnerRestarts, GraderStep, Acquire,
         Grade, GradeEnds, Release, gatewayVars, vars
<1>7. QED BY <1>6

LEMMA GotStep == GradeInv /\ GotFromTarget /\ [GradeNext]_vars => GotFromTarget'
<1> SUFFICES ASSUME GradeInv, GotFromTarget, [GradeNext]_vars,
                    NEW s \in Submit, submit'[s].at = "got"
             PROVE  job'[Target(s)'][s] = "replied"
  BY DEF GotFromTarget
<1>1. submit[s].at = "got" \/ TakeAnswer(s)
  BY AnsweredStay
<1>2. submit'[s].plan = submit[s].plan
  BY AnsweredStay
<1>3. submit[s].plan # <<>>
  BY <1>1 DEF GradeInv, HasTarget, TakeAnswer, Proceeds
<1>4. Target(s) \in Host /\ Target(s)' = Target(s)
  BY <1>2, <1>3, TargetIsHost DEF GradeInv, Target
<1>5. job[Target(s)][s] = "replied"
  BY <1>1 DEF GotFromTarget, TakeAnswer
<1>6. QED BY <1>4, <1>5, RepliesStay

(* A row is the grade of the one call that was not given up.               *)
THEOREM RowsCorrect == GradeSpec => []RowsAreOfTheLastCall
<1>1. GradeInit => GotFromTarget /\ RowsAreOfTheLastCall
  BY DEF GradeInit, GotFromTarget, RowsAreOfTheLastCall
<1>2. GradeInv /\ GotFromTarget /\ RowsAreOfTheLastCall /\ [GradeNext]_vars
        => RowsAreOfTheLastCall'
  <2> SUFFICES ASSUME GradeInv, GotFromTarget, RowsAreOfTheLastCall, [GradeNext]_vars
               PROVE  RowsAreOfTheLastCall'
    OBVIOUS
  <2>0. \A x \in rows : x.of \in Submit /\ x.by \in Host
    BY DEF GradeInv, GradeTypeOK, Submit
  <2>1. ASSUME NEW x \in rows
        PROVE  /\ submit'[x.of].at = "answered"
               /\ x.by = Target(x.of)'
               /\ job'[x.by][x.of] = "replied"
    <3>1. /\ submit[x.of].at = "answered" /\ x.by = Target(x.of)
          /\ job[x.by][x.of] = "replied"
      BY DEF RowsAreOfTheLastCall
    <3>2. x.of \in Submit /\ x.by \in Host
      BY <2>0
    <3>3. submit'[x.of].at = "answered" /\ submit'[x.of].plan = submit[x.of].plan
      BY <3>1, <3>2, AnsweredStay
    <3>4. job'[x.by][x.of] = "replied"
      BY <3>1, <3>2, RepliesStay
    <3>5. QED BY <3>1, <3>3, <3>4 DEF Target
  <2>2. CASE rows' = rows
    BY <2>1, <2>2 DEF RowsAreOfTheLastCall
  <2>3. ASSUME NEW s \in Submit, Record(s), rows' # rows
        PROVE  RowsAreOfTheLastCall'
    <3> DEFINE new == [of |-> s, by |-> Target(s)]
    <3>1. Proceeds(s, "got", "answered") /\ rows' = rows \cup {new}
      BY <2>3 DEF Record
    <3>2. /\ submit[s].at = "got" /\ submit'[s].at = "answered"
          /\ submit'[s].plan = submit[s].plan
      BY <3>1, ProceedsStep DEF At
    <3>3. Target(s)' = Target(s) /\ Target(s) \in Host
      BY <3>2, TargetIsHost DEF GradeInv, HasTarget, Target
    <3>4. job'[Target(s)][s] = "replied"
      BY <3>2, <3>3, RepliesStay DEF GotFromTarget
    <3>5. \A x \in rows : x.of # s
      BY <3>2 DEF RowsAreOfTheLastCall
    <3>6. new.of = s /\ new.by = Target(s)
      OBVIOUS
    <3> HIDE DEF new
    <3>7. \A x \in rows' : /\ submit'[x.of].at = "answered"
                           /\ x.by = Target(x.of)'
                           /\ job'[x.by][x.of] = "replied"
      <4>1. SUFFICES ASSUME NEW x \in rows'
                     PROVE  /\ submit'[x.of].at = "answered"
                            /\ x.by = Target(x.of)'
                            /\ job'[x.by][x.of] = "replied"
        OBVIOUS
      <4>2. CASE x \in rows
        BY <4>2, <2>1
      <4>3. CASE x = new
        BY <4>3, <3>2, <3>3, <3>4, <3>6
      <4>4. QED BY <4>2, <4>3, <3>1
    <3>8. \A x, y \in rows' : y.of = x.of => y = x
      <4>1. \A x, y \in rows : y.of = x.of => y = x
        BY DEF RowsAreOfTheLastCall
      <4>2. QED BY <4>1, <3>1, <3>5, <3>6
    <3>9. QED BY <3>7, <3>8 DEF RowsAreOfTheLastCall
  <2>4. QED
    BY <2>2, <2>3
       DEF GradeNext, GatewayStep, GraderStep, GatewayRestarts,
           HandleSubmit, CallRunner, CallFails, TakeAnswer, NextRunner,
           Unavailable, StatusChanges, RunnerRestarts, Acquire, Grade,
           GradeEnds, Release, gatewayVars, vars
<1>3. QED BY <1>1, <1>2, GotStep, GradeInvHolds, PTL DEF GradeSpec

-----------------------------------------------------------------------------
(* The graders of a node.                                                  *)

LEMMA GradersFinite == \A S, h : IsFiniteSet(JobsIn(S, h))
<1>1. \A S, h : JobsIn(S, h) \subseteq Submit
  BY DEF JobsIn
<1>2. QED BY <1>1, GradeAssumption, FS_Subset DEF GradeAssumption

(* A call that reaches a thread is neither grading nor done.               *)
LEMMA CallIsNoGrader ==
  ASSUME GradeInv, NEW s \in Submit, CallRunner(s), NEW S \in SUBSET (JobPhase \ {"none", "waiting"})
  PROVE  \A g \in Host : JobsIn(S, g)' = JobsIn(S, g)
<1>1. Target(s) \in Host
  BY TargetIsHost DEF CallRunner, GradeInv
<1>2. CASE JobMoves(Target(s), s, "none", "waiting")
  <2>1. /\ job[Target(s)][s] = "none"
        /\ \A g \in Host, r \in Submit :
             job'[g][r] = IF g = Target(s) /\ r = s THEN "waiting" ELSE job[g][r]
    BY <1>1, <1>2, JobStep DEF JobPhase, GradeInv
  <2>2. "none" \notin S /\ "waiting" \notin S
    OBVIOUS
  <2>3. QED BY <2>1, <2>2 DEF JobsIn
<1>3. CASE job' = job
  BY <1>3 DEF JobsIn
<1>4. QED BY <1>2, <1>3 DEF CallRunner

(* The jobs inside the lock, and those that busy counts.                   *)
Counted(h) == JobsIn({"grading"}, h)

(* What GraderAccounting says of one node, without what follows from it.   *)
AddsUp(h) ==
  /\ sem[h] + Cardinality(Holders(h)) = GradeMax
  /\ busy[h] = Cardinality(Counted(h))

(* A grader that busy counts is inside the lock: busy shows no more than   *)
(* the slots that are taken.                                               *)
LEMMA BusyFollows ==
  ASSUME GradeTypeOK, \A h \in Host : AddsUp(h)
  PROVE  GraderAccounting
<1> SUFFICES ASSUME NEW h \in Host PROVE busy[h] <= GradeMax - sem[h]
  BY DEF GraderAccounting, AddsUp, Counted
<1>1. Counted(h) \subseteq Holders(h) /\ IsFiniteSet(Holders(h))
  BY GradersFinite DEF Counted, Holders, JobsIn
<1>2. Cardinality(Counted(h)) <= Cardinality(Holders(h))
  BY <1>1, FS_Subset
<1>3. Cardinality(Holders(h)) \in Nat /\ sem[h] \in Nat /\ GradeMax \in Nat
  BY <1>1, FS_CardinalityType, GradeAssumption DEF GradeAssumption, GradeTypeOK
<1>4. Cardinality(Counted(h)) \in Nat
  BY GradersFinite, FS_CardinalityType DEF Counted
<1>5. QED BY <1>2, <1>3, <1>4 DEF AddsUp

(* The steps of a thread through the lock.                                 *)
LEMMA AcquireKept ==
  ASSUME GradeInv, GraderAccounting, NEW h \in Host, NEW s \in Submit, Acquire(h, s),
         NEW g \in Host
  PROVE  AddsUp(g)'
<1>1. /\ job[h][s] = "waiting"
      /\ \A n \in Host, q \in Submit :
           job'[n][q] = IF n = h /\ q = s THEN "entered" ELSE job[n][q]
  BY JobStep DEF Acquire, JobPhase, GradeInv
<1>2. /\ Holders(g)' = IF g = h THEN Holders(g) \cup {s} ELSE Holders(g)
      /\ s \notin Holders(h)
      /\ Counted(g)' = Counted(g)
  BY <1>1 DEF Holders, Counted, JobsIn
<1>3. sem'[g] = (IF g = h THEN sem[g] - 1 ELSE sem[g]) /\ busy' = busy
  BY DEF Acquire, GradeInv, GradeTypeOK
<1>4. /\ sem[g] + Cardinality(Holders(g)) = GradeMax /\ busy[g] = Cardinality(Counted(g))
      /\ IsFiniteSet(Holders(g))
  BY GradersFinite DEF GraderAccounting, Holders, Counted
<1>5. Cardinality(Holders(g)') = IF g = h THEN Cardinality(Holders(g)) + 1
                                 ELSE Cardinality(Holders(g))
  <2>1. CASE g = h
    BY <2>1, <1>2, <1>4, FS_AddElement
  <2>2. QED BY <2>1, <1>2
<1>6. sem[g] \in Nat /\ Cardinality(Holders(g)) \in Nat
  BY <1>4, FS_CardinalityType DEF GradeInv, GradeTypeOK
<1>7. sem'[g] + Cardinality(Holders(g)') = GradeMax
  BY <1>3, <1>4, <1>5, <1>6
<1>8. QED BY <1>2, <1>3, <1>4, <1>7 DEF AddsUp

LEMMA ReleaseKept ==
  ASSUME GradeInv, GraderAccounting, NEW h \in Host, NEW s \in Submit, Release(h, s),
         NEW g \in Host
  PROVE  AddsUp(g)'
<1>1. /\ job[h][s] = "ended"
      /\ \A n \in Host, q \in Submit :
           job'[n][q] = IF n = h /\ q = s THEN "replied" ELSE job[n][q]
  BY JobStep DEF Release, JobPhase, GradeInv
<1>2. /\ Holders(g)' = IF g = h THEN Holders(g) \ {s} ELSE Holders(g)
      /\ s \in Holders(h)
      /\ Counted(g)' = Counted(g)
  BY <1>1 DEF Holders, Counted, JobsIn
<1>3. sem'[g] = (IF g = h THEN sem[g] + 1 ELSE sem[g]) /\ busy' = busy
  BY DEF Release, GradeInv, GradeTypeOK
<1>4. /\ sem[g] + Cardinality(Holders(g)) = GradeMax /\ busy[g] = Cardinality(Counted(g))
      /\ IsFiniteSet(Holders(g))
  BY GradersFinite DEF GraderAccounting, Holders, Counted
<1>5. Cardinality(Holders(g)') = IF g = h THEN Cardinality(Holders(g)) - 1
                                 ELSE Cardinality(Holders(g))
  <2>1. CASE g = h
    BY <2>1, <1>2, <1>4, FS_RemoveElement
  <2>2. QED BY <2>1, <1>2
<1>6. sem[g] \in Nat /\ Cardinality(Holders(g)) \in Nat
  BY <1>4, FS_CardinalityType DEF GradeInv, GradeTypeOK
<1>7. sem'[g] + Cardinality(Holders(g)') = GradeMax
  BY <1>3, <1>4, <1>5, <1>6
<1>8. QED BY <1>2, <1>3, <1>4, <1>7 DEF AddsUp

LEMMA GradeKept ==
  ASSUME GradeInv, GraderAccounting, NEW h \in Host, NEW s \in Submit, Grade(h, s),
         NEW g \in Host
  PROVE  AddsUp(g)'
<1>1. /\ job[h][s] = "entered"
      /\ \A n \in Host, q \in Submit :
           job'[n][q] = IF n = h /\ q = s THEN "grading" ELSE job[n][q]
  BY JobStep DEF Grade, JobPhase, GradeInv
<1>2. /\ Counted(g)' = IF g = h THEN Counted(g) \cup {s} ELSE Counted(g)
      /\ s \notin Counted(h)
      /\ Holders(g)' = Holders(g)
  BY <1>1 DEF Holders, Counted, JobsIn
<1>3. busy'[g] = IF g = h THEN busy[g] + 1 ELSE busy[g]
  <2>1. busy'[g] = IF g # h THEN busy[g] ELSE IF busy[g] + 1 < 0 THEN 0 ELSE busy[g] + 1
    BY AddBusyStep DEF Grade, GradeInv
  <2>2. busy[g] \in Nat
    BY DEF GradeInv, GradeTypeOK
  <2>3. QED BY <2>1, <2>2
<1>4. busy[g] = Cardinality(Counted(g)) /\ IsFiniteSet(Counted(g))
  BY GradersFinite DEF GraderAccounting, Counted
<1>5. Cardinality(Counted(g)') = IF g = h THEN Cardinality(Counted(g)) + 1
                                 ELSE Cardinality(Counted(g))
  <2>1. CASE g = h
    BY <2>1, <1>2, <1>4, FS_AddElement
  <2>2. QED BY <2>1, <1>2
<1>6. busy'[g] = Cardinality(Counted(g)')
  BY <1>3, <1>4, <1>5
<1>7. QED BY <1>2, <1>6 DEF AddsUp, GraderAccounting, Grade

LEMMA GradeEndsKept ==
  ASSUME GradeInv, GraderAccounting, NEW h \in Host, NEW s \in Submit, GradeEnds(h, s),
         NEW g \in Host
  PROVE  AddsUp(g)'
<1>1. /\ job[h][s] = "grading"
      /\ \A n \in Host, q \in Submit :
           job'[n][q] = IF n = h /\ q = s THEN "ended" ELSE job[n][q]
  BY JobStep DEF GradeEnds, JobPhase, GradeInv
<1>2. /\ Counted(g)' = IF g = h THEN Counted(g) \ {s} ELSE Counted(g)
      /\ s \in Counted(h)
      /\ Holders(g)' = Holders(g)
  BY <1>1 DEF Holders, Counted, JobsIn
<1>3. busy[g] = Cardinality(Counted(g)) /\ IsFiniteSet(Counted(g))
  BY GradersFinite DEF GraderAccounting, Counted
<1>4. g = h => busy[g] # 0
  BY <1>2, <1>3, FS_EmptySet
<1>5. busy'[g] = IF g = h THEN busy[g] - 1 ELSE busy[g]
  <2>1. busy'[g] = IF g # h THEN busy[g] ELSE IF busy[g] + (-1) < 0 THEN 0 ELSE busy[g] + (-1)
    BY AddBusyStep DEF GradeEnds, GradeInv
  <2>2. busy[g] \in Nat
    BY DEF GradeInv, GradeTypeOK
  <2>3. QED BY <2>1, <2>2, <1>4
<1>6. Cardinality(Counted(g)') = IF g = h THEN Cardinality(Counted(g)) - 1
                                 ELSE Cardinality(Counted(g))
  <2>1. CASE g = h
    BY <2>1, <1>2, <1>3, FS_RemoveElement
  <2>2. QED BY <2>1, <1>2
<1>7. busy'[g] = Cardinality(Counted(g)')
  BY <1>3, <1>5, <1>6
<1>8. QED BY <1>2, <1>7 DEF AddsUp, GraderAccounting, GradeEnds

(* The free slots and the jobs inside the lock add up on every node, and   *)
(* busy counts those between their two busy_add: its clamp at zero is      *)
(* never reached, and it never shows more than there are slots.            *)
THEOREM GradersConserved == GradeSpec => []GraderAccounting
<1>1. GradeInit => GraderAccounting
  <2> SUFFICES ASSUME GradeInit, NEW h \in Host
               PROVE  /\ sem[h] + Cardinality(Holders(h)) = GradeMax
                      /\ busy[h] = Cardinality(JobsIn({"grading"}, h))
                      /\ busy[h] <= GradeMax - sem[h]
    BY DEF GraderAccounting
  <2>1. Holders(h) = {} /\ JobsIn({"grading"}, h) = {} /\ sem[h] = GradeMax /\ busy[h] = 0
    BY DEF GradeInit, Holders, JobsIn
  <2>2. QED BY <2>1, FS_EmptySet, GradeAssumption DEF GradeAssumption
<1>2. GradeInv /\ GraderAccounting /\ [GradeNext]_vars => (\A g \in Host : AddsUp(g))'
  <2> SUFFICES ASSUME GradeInv, GraderAccounting, [GradeNext]_vars, NEW g \in Host
               PROVE  AddsUp(g)'
    OBVIOUS
  <2>1. AddsUp(g)
    BY DEF GraderAccounting, AddsUp, Counted
  <2>2. ASSUME NEW s \in Submit, CallRunner(s)
        PROVE  AddsUp(g)'
    <3>1. Holders(g)' = Holders(g) /\ Counted(g)' = Counted(g)
      BY <2>2, CallIsNoGrader DEF Holders, Counted, JobPhase
    <3>2. QED BY <2>1, <2>2, <3>1 DEF CallRunner, AddsUp
  <2>3. ASSUME NEW h \in Host, RunnerRestarts(h)
        PROVE  AddsUp(g)'
    <3>1. CASE g = h
      <4>1. Holders(g)' = {} /\ Counted(g)' = {}
        BY <2>3, <3>1 DEF RunnerRestarts, Holders, Counted, JobsIn, GradeInv, GradeTypeOK
      <4>2. sem'[g] = GradeMax /\ busy'[g] = 0
        BY <2>3, <3>1 DEF RunnerRestarts, GradeInv, GradeTypeOK
      <4>3. QED BY <4>1, <4>2, FS_EmptySet, GradeAssumption DEF GradeAssumption, AddsUp
    <3>2. CASE g # h
      <4>1. Holders(g)' = Holders(g) /\ Counted(g)' = Counted(g)
        BY <2>3, <3>2 DEF RunnerRestarts, Holders, Counted, JobsIn, GradeInv, GradeTypeOK
      <4>2. sem'[g] = sem[g] /\ busy'[g] = busy[g]
        BY <2>3, <3>2 DEF RunnerRestarts, GradeInv, GradeTypeOK
      <4>3. QED BY <2>1, <4>1, <4>2 DEF AddsUp
    <3>3. QED BY <3>1, <3>2
  <2>4. CASE UNCHANGED graderVars
    BY <2>1, <2>4 DEF graderVars, Holders, Counted, JobsIn, AddsUp
  <2>5. QED
    BY <2>2, <2>3, <2>4, AcquireKept, GradeKept, GradeEndsKept, ReleaseKept
       DEF GradeNext, GatewayStep, GraderStep, GatewayRestarts,
           HandleSubmit, CallFails, TakeAnswer, NextRunner, Unavailable, Record,
           StatusChanges, graderVars, vars
<1>3. GradeInv /\ (\A g \in Host : AddsUp(g)) => GraderAccounting
  BY BusyFollows DEF GradeInv
<1>4. QED BY <1>1, <1>2, <1>3, GradeInvHolds, PTL DEF GradeSpec

HeldBar == [h \in Host |-> Holders(h)]
PastBar == [h \in Host |-> JobsIn({"replied", "lost"}, h)]

(* The graders of a node are a plain pool of GradeMax slots: every step is *)
(* a Take, a GiveBack, a NodeRestarts or none of the pool's business.      *)
THEOREM GradersImplementPool == GradeSpec => GradersArePool
<1>1. GradeInit => Pool!PoolInit
  BY DEF GradeInit, Pool!PoolInit, Holders, JobsIn
<1>2. GradeInv /\ GraderAccounting /\ [GradeNext]_vars
        => [Pool!PoolNext]_(Pool!poolVars)
  <2> SUFFICES ASSUME GradeInv, GraderAccounting, [GradeNext]_vars
               PROVE  Pool!PoolNext \/ (HeldBar' = HeldBar /\ PastBar' = PastBar)
    BY DEF Pool!poolVars, HeldBar, PastBar
  <2>1. ASSUME NEW s \in Submit, CallRunner(s)
        PROVE  HeldBar' = HeldBar /\ PastBar' = PastBar
    <3>1. \A g \in Host : Holders(g)' = Holders(g)
      BY <2>1, CallIsNoGrader DEF JobPhase, Holders
    <3>2. \A g \in Host : JobsIn({"replied", "lost"}, g)' = JobsIn({"replied", "lost"}, g)
      BY <2>1, CallIsNoGrader DEF JobPhase
    <3>3. QED BY <3>1, <3>2 DEF HeldBar, PastBar
  <2>2. ASSUME NEW h \in Host, NEW s \in Submit, Acquire(h, s)
        PROVE  Pool!Take(h, s)
    <3>1. /\ job[h][s] = "waiting" /\ sem[h] > 0
          /\ \A n \in Host, q \in Submit :
               job'[n][q] = IF n = h /\ q = s THEN "entered" ELSE job[n][q]
      BY <2>2, JobStep DEF Acquire, JobPhase, GradeInv
    <3>2. /\ \A g \in Host : Holders(g)' = IF g = h THEN Holders(g) \cup {s} ELSE Holders(g)
          /\ \A g \in Host : JobsIn({"replied", "lost"}, g)' = JobsIn({"replied", "lost"}, g)
          /\ s \notin Holders(h) /\ s \notin JobsIn({"replied", "lost"}, h)
      BY <3>1 DEF Holders, JobsIn
    <3>3. HeldBar' = [HeldBar EXCEPT ![h] = @ \cup {s}] /\ PastBar' = PastBar
      BY <3>2 DEF HeldBar, PastBar
    <3>4. Cardinality(HeldBar[h]) < GradeMax
      <4>1. HeldBar[h] = Holders(h)
        BY DEF HeldBar
      <4>2. sem[h] \in Nat /\ sem[h] + Cardinality(Holders(h)) = GradeMax
        BY DEF GraderAccounting, GradeInv, GradeTypeOK
      <4>3. Cardinality(Holders(h)) \in Nat
        BY GradersFinite, FS_CardinalityType DEF Holders
      <4>4. QED BY <4>1, <4>2, <4>3, <3>1
    <3>5. s \notin HeldBar[h] \cup PastBar[h]
      BY <3>2 DEF HeldBar, PastBar
    <3>6. QED
      BY <3>3, <3>4, <3>5
         DEF Pool!Take, HeldBar, PastBar, Cardinality, Pool!Cardinality
  <2>3. ASSUME NEW h \in Host, NEW s \in Submit, Release(h, s)
        PROVE  Pool!GiveBack(h, s)
    <3>1. /\ job[h][s] = "ended"
          /\ \A n \in Host, q \in Submit :
               job'[n][q] = IF n = h /\ q = s THEN "replied" ELSE job[n][q]
      BY <2>3, JobStep DEF Release, JobPhase, GradeInv
    <3>2. /\ \A g \in Host : Holders(g)' = IF g = h THEN Holders(g) \ {s} ELSE Holders(g)
          /\ \A g \in Host :
               JobsIn({"replied", "lost"}, g)' =
                 IF g = h THEN JobsIn({"replied", "lost"}, g) \cup {s}
                 ELSE JobsIn({"replied", "lost"}, g)
          /\ s \in Holders(h)
      BY <3>1 DEF Holders, JobsIn
    <3>3. HeldBar' = [HeldBar EXCEPT ![h] = @ \ {s}]
      BY <3>2 DEF HeldBar
    <3>4. PastBar' = [PastBar EXCEPT ![h] = @ \cup {s}]
      BY <3>2 DEF PastBar
    <3>5. QED BY <3>2, <3>3, <3>4 DEF Pool!GiveBack, HeldBar, PastBar
  <2>4. ASSUME NEW h \in Host, NEW s \in Submit, Grade(h, s) \/ GradeEnds(h, s)
        PROVE  HeldBar' = HeldBar /\ PastBar' = PastBar
    <3>1. PICK from \in {"entered", "grading"}, to \in {"grading", "ended"} :
            /\ job[h][s] = from
            /\ \A n \in Host, q \in Submit :
                 job'[n][q] = IF n = h /\ q = s THEN to ELSE job[n][q]
      BY <2>4, JobStep DEF Grade, GradeEnds, JobPhase, GradeInv
    <3>2. /\ \A g \in Host : Holders(g)' = Holders(g)
          /\ \A g \in Host : JobsIn({"replied", "lost"}, g)' = JobsIn({"replied", "lost"}, g)
      BY <3>1 DEF Holders, JobsIn
    <3>3. QED BY <3>2 DEF HeldBar, PastBar
  <2>5. ASSUME NEW h \in Host, RunnerRestarts(h)
        PROVE  Pool!NodeRestarts(h)
    <3> DEFINE gone == {s \in Submit : job[h][s] \notin {"none", "replied"}}
    <3>1. \A g \in Host, q \in Submit :
            job'[g][q] = IF g # h THEN job[g][q]
                         ELSE IF job[h][q] \in {"none", "replied"} THEN job[h][q]
                         ELSE "lost"
      BY <2>5 DEF RunnerRestarts, GradeInv, GradeTypeOK
    <3>2. HeldBar' = [HeldBar EXCEPT ![h] = {}]
      <4>1. \A g \in Host : Holders(g)' = IF g = h THEN {} ELSE Holders(g)
        BY <3>1 DEF Holders, JobsIn
      <4>2. QED BY <4>1 DEF HeldBar
    <3>3. PastBar' = [PastBar EXCEPT ![h] = @ \cup gone]
      <4>1. \A g \in Host :
              JobsIn({"replied", "lost"}, g)' =
                IF g = h THEN JobsIn({"replied", "lost"}, g) \cup gone
                ELSE JobsIn({"replied", "lost"}, g)
        BY <3>1 DEF JobsIn
      <4>2. QED BY <4>1 DEF PastBar
    <3>4. HeldBar[h] \subseteq gone /\ gone \in SUBSET Submit
      BY DEF HeldBar, Holders, JobsIn
    <3>5. QED BY <3>2, <3>3, <3>4 DEF Pool!NodeRestarts, HeldBar, PastBar
  <2>6. CASE UNCHANGED job
    BY <2>6 DEF HeldBar, PastBar, Holders, JobsIn
  <2>7. QED
    BY <2>1, <2>2, <2>3, <2>4, <2>5, <2>6
       DEF GradeNext, GatewayStep, GraderStep, GatewayRestarts,
           HandleSubmit, CallFails, TakeAnswer, NextRunner, Unavailable, Record,
           StatusChanges, graderVars, vars, Pool!PoolNext
<1>3. QED
  BY <1>1, <1>2, GradeInvHolds, GradersConserved, PTL
     DEF GradeSpec, GradersArePool, Pool!PoolSpec

=============================================================================
