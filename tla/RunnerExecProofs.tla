-------------------------- MODULE RunnerExecProofs --------------------------
(***************************************************************************)
(* For any number of nodes, calls and slots: the slots of a node are       *)
(* conserved, the busy counter never drifts, and the runner implements the *)
(* plain slot pool.                                                        *)
(***************************************************************************)
EXTENDS RunnerExec, FiniteSetTheorems, TLAPS

(* A step of one call changes the set of calls in some phases S by that    *)
(* call at most, and on its own node only.                                 *)
LEMMA MoveCalls ==
  ASSUME NEW S, RunnerTypeOK, NEW h \in Host, NEW r \in Run,
         NEW from, NEW to, Move(h, r, from, to),
         NEW g \in Host, IsFiniteSet(CallsIn(S, g))
  PROVE  /\ IsFiniteSet(CallsIn(S, g)')
         /\ Cardinality(CallsIn(S, g)') =
              IF g = h /\ from \notin S /\ to \in S
                THEN Cardinality(CallsIn(S, g)) + 1
              ELSE IF g = h /\ from \in S /\ to \notin S
                THEN Cardinality(CallsIn(S, g)) - 1
              ELSE Cardinality(CallsIn(S, g))
<1>1. \A q \in Run : job'[g][q] = IF g = h /\ q = r THEN to ELSE job[g][q]
  BY DEF Move, RunnerTypeOK
<1>2. job[h][r] = from
  BY DEF Move
<1>3. CASE g # h
  <2>1. CallsIn(S, g)' = CallsIn(S, g)
    BY <1>1, <1>3 DEF CallsIn
  <2>2. QED BY <2>1, <1>3
<1>4. CASE g = h /\ to \in S
  <2>1. CallsIn(S, g)' = CallsIn(S, g) \cup {r}
    BY <1>1, <1>4 DEF CallsIn
  <2>2. r \in CallsIn(S, g) <=> from \in S
    BY <1>2, <1>4 DEF CallsIn
  <2>3. QED BY <2>1, <2>2, <1>4, FS_AddElement
<1>5. CASE g = h /\ to \notin S
  <2>1. CallsIn(S, g)' = CallsIn(S, g) \ {r}
    BY <1>1, <1>5 DEF CallsIn
  <2>2. r \in CallsIn(S, g) <=> from \in S
    BY <1>2, <1>5 DEF CallsIn
  <2>3. QED BY <2>1, <2>2, <1>5, FS_RemoveElement
<1>6. QED BY <1>3, <1>4, <1>5

(* A move between phases keeps the type of job.                            *)
LEMMA MoveType ==
  ASSUME RunnerTypeOK, NEW h \in Host, NEW r \in Run,
         NEW from, NEW to \in Phase, Move(h, r, from, to)
  PROVE  job' \in [Host -> [Run -> Phase]]
<1>1. job' = [job EXCEPT ![h][r] = to]
  BY DEF Move
<1>2. job \in [Host -> [Run -> Phase]]
  BY DEF RunnerTypeOK
<1>3. QED BY <1>1, <1>2

(* busy_add changes one host's counter, clamped at 0.                      *)
LEMMA AddBusyType ==
  ASSUME RunnerTypeOK, NEW h \in Host, NEW d \in Int, AddBusy(h, d)
  PROVE  /\ busy' \in [Host -> Nat]
         /\ \A g \in Host : busy'[g] = IF g # h THEN busy[g]
                                        ELSE IF busy[g] + d < 0 THEN 0
                                        ELSE busy[g] + d
BY DEF RunnerTypeOK, AddBusy

(* Every step keeps the types; the clamp of busy_add and the guard of the  *)
(* acquire keep both counters natural numbers.                             *)
LEMMA RunnerTypeStep == RunnerTypeOK /\ [RunnerNext]_runnerVars => RunnerTypeOK'
<1> SUFFICES ASSUME RunnerTypeOK, [RunnerNext]_runnerVars
             PROVE  RunnerTypeOK'
  OBVIOUS
<1>0. /\ sem \in [Host -> Nat] /\ busy \in [Host -> Nat]
      /\ job \in [Host -> [Run -> Phase]] /\ restarts \in 0 .. MaxRestarts
  BY DEF RunnerTypeOK
<1>1. ASSUME NEW h \in Host, NEW r \in Run, ExecStart(h, r)
      PROVE  RunnerTypeOK'
  <2>1. job' \in [Host -> [Run -> Phase]]
    BY <1>1, MoveType DEF ExecStart, Phase
  <2>2. QED BY <2>1, <1>0, <1>1 DEF ExecStart, RunnerTypeOK
<1>2. ASSUME NEW h \in Host, NEW r \in Run, ExecKill(h, r)
      PROVE  RunnerTypeOK'
  <2>1. job' \in [Host -> [Run -> Phase]]
    BY <1>0, <1>2 DEF ExecKill, Phase
  <2>2. QED BY <2>1, <1>0, <1>2 DEF ExecKill, RunnerTypeOK
<1>3. ASSUME NEW h \in Host, NEW r \in Run, ThreadStep(h, r)
      PROVE  RunnerTypeOK'
  <2>1. job' \in [Host -> [Run -> Phase]]
    BY <1>3, MoveType
       DEF ThreadStep, AcquireSlot, AcquireTimeout, CountRun, MakeJobDirFails,
           StartFails, UncountFailed, Launch, ProgramExits, ReaderFinish,
           ReaderRelease, ReaderUncount, ForgetSession, Phase
  <2>2. sem' \in [Host -> Nat]
    <3>1. CASE sem' = sem
      BY <3>1, <1>0
    <3>2. CASE sem[h] > 0 /\ sem' = [sem EXCEPT ![h] = @ - 1]
      BY <3>2, <1>0
    <3>3. CASE sem' = [sem EXCEPT ![h] = @ + 1]
      BY <3>3, <1>0
    <3>4. QED
      BY <1>3, <3>1, <3>2, <3>3
         DEF ThreadStep, AcquireSlot, AcquireTimeout, CountRun, MakeJobDirFails,
             StartFails, UncountFailed, Launch, ProgramExits, ReaderFinish,
             ReaderRelease, ReaderUncount, ForgetSession
  <2>3. busy' \in [Host -> Nat]
    <3>1. CASE busy' = busy
      BY <3>1, <1>0
    <3>2. CASE AddBusy(h, 1)
      BY <3>2, AddBusyType
    <3>3. CASE AddBusy(h, -1)
      BY <3>3, AddBusyType
    <3>4. QED
      BY <1>3, <3>1, <3>2, <3>3
         DEF ThreadStep, AcquireSlot, AcquireTimeout, CountRun, MakeJobDirFails,
             StartFails, UncountFailed, Launch, ProgramExits, ReaderFinish,
             ReaderRelease, ReaderUncount, ForgetSession
  <2>4. restarts' = restarts
    BY <1>3 DEF ThreadStep, AcquireSlot, AcquireTimeout, CountRun,
             MakeJobDirFails, StartFails, UncountFailed, Launch, ProgramExits,
             ReaderFinish, ReaderRelease, ReaderUncount, ForgetSession
  <2>5. QED BY <2>1, <2>2, <2>3, <2>4, <1>0 DEF RunnerTypeOK
<1>4. ASSUME NEW h \in Host, Restart(h)
      PROVE  RunnerTypeOK'
  <2>1. job' \in [Host -> [Run -> Phase]]
    BY <1>0, <1>4 DEF Restart, Phase
  <2>2. /\ sem' \in [Host -> Nat] /\ busy' \in [Host -> Nat]
        /\ restarts' \in 0 .. MaxRestarts
    BY <1>0, <1>4, RunnerAssumption DEF Restart, RunnerAssumption
  <2>3. QED BY <2>1, <2>2 DEF RunnerTypeOK
<1>5. CASE UNCHANGED runnerVars
  BY <1>0, <1>5 DEF runnerVars, RunnerTypeOK
<1>6. QED BY <1>1, <1>2, <1>3, <1>4, <1>5 DEF RunnerNext

(* The variables keep their types.                                         *)
THEOREM RunnerTypeCorrect == RunnerSpec => []RunnerTypeOK
<1>1. RunnerInit => RunnerTypeOK
  BY RunnerAssumption DEF RunnerInit, RunnerTypeOK, Phase, RunnerAssumption
<1>2. QED BY <1>1, RunnerTypeStep, PTL DEF RunnerSpec

(* A step of one call that changes the semaphore by as much as it changes  *)
(* the holders keeps the slots conserved.                                  *)
LEMMA SlotStep ==
  ASSUME RunnerTypeOK, SlotAccounting,
         NEW h \in Host, NEW r \in Run, NEW from, NEW to,
         Move(h, r, from, to),
         \A g \in Host :
           sem'[g] = IF g = h /\ from \notin Holding /\ to \in Holding
                       THEN sem[g] - 1
                     ELSE IF g = h /\ from \in Holding /\ to \notin Holding
                       THEN sem[g] + 1
                     ELSE sem[g]
  PROVE  SlotAccounting'
<1> SUFFICES ASSUME NEW g \in Host
             PROVE  /\ IsFiniteSet(Holders(g)')
                    /\ sem'[g] + Cardinality(Holders(g)') = RunMax
  BY DEF SlotAccounting
<1>1. /\ IsFiniteSet(CallsIn(Holding, g))
      /\ sem[g] + Cardinality(CallsIn(Holding, g)) = RunMax
  BY DEF SlotAccounting, Holders
<1>2. /\ sem[g] \in Nat
      /\ Cardinality(CallsIn(Holding, g)) \in Nat
  BY <1>1, FS_CardinalityType DEF RunnerTypeOK
<1>3. /\ IsFiniteSet(CallsIn(Holding, g)')
      /\ Cardinality(CallsIn(Holding, g)') =
           IF g = h /\ from \notin Holding /\ to \in Holding
             THEN Cardinality(CallsIn(Holding, g)) + 1
           ELSE IF g = h /\ from \in Holding /\ to \notin Holding
             THEN Cardinality(CallsIn(Holding, g)) - 1
           ELSE Cardinality(CallsIn(Holding, g))
  BY <1>1, MoveCalls
<1>4. sem'[g] + Cardinality(CallsIn(Holding, g)') = RunMax
  BY <1>1, <1>2, <1>3
<1>5. QED BY <1>3, <1>4 DEF Holders

(* Slots are conserved on every node: the semaphore and the holders add up *)
(* to RUN_MAX in every reachable state.                                    *)
THEOREM SlotsConserved == RunnerSpec => []SlotAccounting
<1>1. RunnerInit => SlotAccounting
  <2> SUFFICES ASSUME RunnerInit, NEW h \in Host
               PROVE  IsFiniteSet(Holders(h)) /\ sem[h] + Cardinality(Holders(h)) = RunMax
    BY DEF SlotAccounting
  <2>1. Holders(h) = {}
    BY DEF RunnerInit, Holders, CallsIn, Holding
  <2>2. sem[h] = RunMax /\ RunMax \in Nat
    BY RunnerAssumption DEF RunnerInit, RunnerAssumption
  <2>3. QED BY <2>1, <2>2, FS_EmptySet
<1>2. RunnerTypeOK /\ SlotAccounting /\ [RunnerNext]_runnerVars => SlotAccounting'
  <2> SUFFICES ASSUME RunnerTypeOK, SlotAccounting, [RunnerNext]_runnerVars
               PROVE  SlotAccounting'
    OBVIOUS
  <2>0. sem \in [Host -> Nat]
    BY DEF RunnerTypeOK
  <2>1. ASSUME NEW h \in Host, NEW r \in Run, ExecStart(h, r)
        PROVE  SlotAccounting'
    BY <2>1, <2>0, SlotStep DEF ExecStart, Holding
  <2>2. ASSUME NEW h \in Host, NEW r \in Run, ExecKill(h, r)
        PROVE  SlotAccounting'
    <3>1. CASE job[h][r] = "running"
      <4>1. Move(h, r, "running", "exited") /\ sem' = sem
        BY <2>2, <3>1 DEF ExecKill, Move
      <4>2. QED BY <4>1, <2>0, SlotStep DEF Holding
    <3>2. CASE job[h][r] # "running"
      BY <2>2, <3>2 DEF ExecKill, SlotAccounting, Holders, CallsIn
    <3>3. QED BY <3>1, <3>2
  <2>3. ASSUME NEW h \in Host, NEW r \in Run, ThreadStep(h, r)
        PROVE  SlotAccounting'
    <3>1. CASE AcquireSlot(h, r)
      BY <3>1, <2>0, SlotStep DEF AcquireSlot, Holding
    <3>2. CASE AcquireTimeout(h, r)
      BY <3>2, <2>0, SlotStep DEF AcquireTimeout, Holding
    <3>3. CASE CountRun(h, r)
      BY <3>3, <2>0, SlotStep DEF CountRun, Holding
    <3>4. CASE MakeJobDirFails(h, r)
      BY <3>4, <2>0, SlotStep DEF MakeJobDirFails, Holding
    <3>5. CASE StartFails(h, r)
      BY <3>5, <2>0, SlotStep DEF StartFails, Holding
    <3>6. CASE UncountFailed(h, r)
      BY <3>6, <2>0, SlotStep DEF UncountFailed, Holding
    <3>7. CASE Launch(h, r)
      BY <3>7, <2>0, SlotStep DEF Launch, Holding
    <3>8. CASE ProgramExits(h, r)
      BY <3>8, <2>0, SlotStep DEF ProgramExits, Holding
    <3>9. CASE ReaderFinish(h, r)
      BY <3>9, <2>0, SlotStep DEF ReaderFinish, Holding
    <3>10. CASE ReaderRelease(h, r)
      BY <3>10, <2>0, SlotStep DEF ReaderRelease, Holding
    <3>11. CASE ReaderUncount(h, r)
      BY <3>11, <2>0, SlotStep DEF ReaderUncount, Holding
    <3>12. CASE ForgetSession(h, r)
      BY <3>12, <2>0, SlotStep DEF ForgetSession, Holding
    <3>13. QED
      BY <2>3, <3>1, <3>2, <3>3, <3>4, <3>5, <3>6, <3>7, <3>8, <3>9, <3>10,
         <3>11, <3>12 DEF ThreadStep
  <2>4. ASSUME NEW h \in Host, Restart(h)
        PROVE  SlotAccounting'
    <3> SUFFICES ASSUME NEW g \in Host
                 PROVE  IsFiniteSet(Holders(g)') /\ sem'[g] + Cardinality(Holders(g)') = RunMax
      BY DEF SlotAccounting
    <3>1. CASE g = h
      <4>1. Holders(g)' = {}
        BY <2>4, <3>1 DEF Restart, Holders, CallsIn, Holding, RunnerTypeOK
      <4>2. sem'[g] = RunMax /\ RunMax \in Nat
        BY <2>4, <3>1, <2>0, RunnerAssumption DEF Restart, RunnerAssumption
      <4>3. QED BY <4>1, <4>2, FS_EmptySet
    <3>2. CASE g # h
      BY <2>4, <3>2, <2>0 DEF Restart, Holders, CallsIn, RunnerTypeOK, SlotAccounting
    <3>3. QED BY <3>1, <3>2
  <2>5. CASE UNCHANGED runnerVars
    BY <2>5 DEF runnerVars, SlotAccounting, Holders, CallsIn
  <2>6. QED BY <2>1, <2>2, <2>3, <2>4, <2>5 DEF RunnerNext
<1>3. QED BY <1>1, <1>2, RunnerTypeCorrect, PTL DEF RunnerSpec

(* A step that counts a call, or stops counting one it had counted, keeps  *)
(* the counter equal to the number of counted calls: the clamp in busy_add *)
(* is never reached.                                                       *)
LEMMA BusyStep ==
  ASSUME RunnerTypeOK, BusyAccounting,
         NEW h \in Host, NEW r \in Run, NEW from, NEW to,
         Move(h, r, from, to),
         \/ (from \in Counting <=> to \in Counting) /\ busy' = busy
         \/ from \notin Counting /\ to \in Counting /\ AddBusy(h, 1)
         \/ from \in Counting /\ to \notin Counting /\ AddBusy(h, -1)
  PROVE  BusyAccounting'
<1> SUFFICES ASSUME NEW g \in Host
             PROVE  /\ IsFiniteSet(Counted(g)')
                    /\ busy'[g] = Cardinality(Counted(g)')
  BY DEF BusyAccounting
<1>1. /\ IsFiniteSet(CallsIn(Counting, g))
      /\ busy[g] = Cardinality(CallsIn(Counting, g))
  BY DEF BusyAccounting, Counted
<1>2. busy[g] \in Nat
  BY DEF RunnerTypeOK
<1>3. /\ IsFiniteSet(CallsIn(Counting, g)')
      /\ Cardinality(CallsIn(Counting, g)') =
           IF g = h /\ from \notin Counting /\ to \in Counting
             THEN Cardinality(CallsIn(Counting, g)) + 1
           ELSE IF g = h /\ from \in Counting /\ to \notin Counting
             THEN Cardinality(CallsIn(Counting, g)) - 1
           ELSE Cardinality(CallsIn(Counting, g))
  BY <1>1, MoveCalls
<1>4. g = h /\ from \in Counting => busy[g] > 0
  <2>1. SUFFICES ASSUME g = h, from \in Counting PROVE busy[g] # 0
    BY <1>2
  <2>2. r \in CallsIn(Counting, g)
    BY <2>1 DEF CallsIn, Move
  <2>3. QED BY <2>2, <1>1, FS_EmptySet
<1>5. CASE (from \in Counting <=> to \in Counting) /\ busy' = busy
  BY <1>5, <1>1, <1>3 DEF Counted
<1>6. CASE from \notin Counting /\ to \in Counting /\ AddBusy(h, 1)
  <2>1. busy'[g] = IF g # h THEN busy[g] ELSE busy[g] + 1
    BY <1>6, <1>2, AddBusyType
  <2>2. QED BY <2>1, <1>6, <1>1, <1>3 DEF Counted
<1>7. CASE from \in Counting /\ to \notin Counting /\ AddBusy(h, -1)
  <2>1. busy'[g] = IF g # h THEN busy[g] ELSE busy[g] - 1
    BY <1>7, <1>2, <1>4, AddBusyType
  <2>2. QED BY <2>1, <1>7, <1>1, <1>3 DEF Counted
<1>8. QED BY <1>5, <1>6, <1>7

(* The counter that /health reports is exactly the number of calls between *)
(* their two busy_add: it never drifts, whatever fails or restarts.        *)
THEOREM BusyNeverDrifts == RunnerSpec => []BusyAccounting
<1>1. RunnerInit => BusyAccounting
  <2> SUFFICES ASSUME RunnerInit, NEW h \in Host
               PROVE  IsFiniteSet(Counted(h)) /\ busy[h] = Cardinality(Counted(h))
    BY DEF BusyAccounting
  <2>1. Counted(h) = {} /\ busy[h] = 0
    BY DEF RunnerInit, Counted, CallsIn, Counting
  <2>2. QED BY <2>1, FS_EmptySet
<1>2. RunnerTypeOK /\ BusyAccounting /\ [RunnerNext]_runnerVars => BusyAccounting'
  <2> SUFFICES ASSUME RunnerTypeOK, BusyAccounting, [RunnerNext]_runnerVars
               PROVE  BusyAccounting'
    OBVIOUS
  <2>1. ASSUME NEW h \in Host, NEW r \in Run, ExecStart(h, r)
        PROVE  BusyAccounting'
    BY <2>1, BusyStep DEF ExecStart, Counting
  <2>2. ASSUME NEW h \in Host, NEW r \in Run, ExecKill(h, r)
        PROVE  BusyAccounting'
    <3>1. CASE job[h][r] = "running"
      <4>1. Move(h, r, "running", "exited") /\ busy' = busy
        BY <2>2, <3>1 DEF ExecKill, Move
      <4>2. QED BY <4>1, BusyStep DEF Counting
    <3>2. CASE job[h][r] # "running"
      BY <2>2, <3>2 DEF ExecKill, BusyAccounting, Counted, CallsIn
    <3>3. QED BY <3>1, <3>2
  <2>3. ASSUME NEW h \in Host, NEW r \in Run, ThreadStep(h, r)
        PROVE  BusyAccounting'
    <3>1. CASE AcquireSlot(h, r)
      BY <3>1, BusyStep DEF AcquireSlot, Counting
    <3>2. CASE AcquireTimeout(h, r)
      BY <3>2, BusyStep DEF AcquireTimeout, Counting
    <3>3. CASE CountRun(h, r)
      BY <3>3, BusyStep DEF CountRun, Counting
    <3>4. CASE MakeJobDirFails(h, r)
      BY <3>4, BusyStep DEF MakeJobDirFails, Counting
    <3>5. CASE StartFails(h, r)
      BY <3>5, BusyStep DEF StartFails, Counting
    <3>6. CASE UncountFailed(h, r)
      BY <3>6, BusyStep DEF UncountFailed, Counting
    <3>7. CASE Launch(h, r)
      BY <3>7, BusyStep DEF Launch, Counting
    <3>8. CASE ProgramExits(h, r)
      BY <3>8, BusyStep DEF ProgramExits, Counting
    <3>9. CASE ReaderFinish(h, r)
      BY <3>9, BusyStep DEF ReaderFinish, Counting
    <3>10. CASE ReaderRelease(h, r)
      BY <3>10, BusyStep DEF ReaderRelease, Counting
    <3>11. CASE ReaderUncount(h, r)
      BY <3>11, BusyStep DEF ReaderUncount, Counting
    <3>12. CASE ForgetSession(h, r)
      BY <3>12, BusyStep DEF ForgetSession, Counting
    <3>13. QED
      BY <2>3, <3>1, <3>2, <3>3, <3>4, <3>5, <3>6, <3>7, <3>8, <3>9, <3>10,
         <3>11, <3>12 DEF ThreadStep
  <2>4. ASSUME NEW h \in Host, Restart(h)
        PROVE  BusyAccounting'
    <3> SUFFICES ASSUME NEW g \in Host
                 PROVE  IsFiniteSet(Counted(g)') /\ busy'[g] = Cardinality(Counted(g)')
      BY DEF BusyAccounting
    <3>1. CASE g = h
      <4>1. Counted(g)' = {} /\ busy'[g] = 0
        BY <2>4, <3>1 DEF Restart, Counted, CallsIn, Counting, RunnerTypeOK
      <4>2. QED BY <4>1, FS_EmptySet
    <3>2. CASE g # h
      BY <2>4, <3>2 DEF Restart, Counted, CallsIn, RunnerTypeOK, BusyAccounting
    <3>3. QED BY <3>1, <3>2
  <2>5. CASE UNCHANGED runnerVars
    BY <2>5 DEF runnerVars, BusyAccounting, Counted, CallsIn
  <2>6. QED BY <2>1, <2>2, <2>3, <2>4, <2>5 DEF RunnerNext
<1>3. QED BY <1>1, <1>2, RunnerTypeCorrect, PTL DEF RunnerSpec

HeldBar == [h \in Host |-> Holders(h)]
PastBar == [h \in Host |-> CallsIn(Released, h)]

(* How a step of one call shows in the sets of the pool.                   *)
LEMMA MoveBars ==
  ASSUME RunnerTypeOK, NEW h \in Host, NEW r \in Run, NEW from, NEW to,
         Move(h, r, from, to)
  PROVE  /\ HeldBar' = [HeldBar EXCEPT ![h] = IF to \in Holding THEN @ \cup {r}
                                             ELSE @ \ {r}]
         /\ PastBar' = [PastBar EXCEPT ![h] = IF to \in Released THEN @ \cup {r}
                                             ELSE @ \ {r}]
<1>1. \A g \in Host, q \in Run :
        job'[g][q] = IF g = h /\ q = r THEN to ELSE job[g][q]
  BY DEF Move, RunnerTypeOK
<1>2. \A S : \A g \in Host :
        CallsIn(S, g)' = IF g # h THEN CallsIn(S, g)
                         ELSE IF to \in S THEN CallsIn(S, g) \cup {r}
                         ELSE CallsIn(S, g) \ {r}
  BY <1>1 DEF CallsIn
<1>3. HeldBar' = [HeldBar EXCEPT ![h] = IF to \in Holding THEN @ \cup {r} ELSE @ \ {r}]
  <2>1. \A g \in Host :
          Holders(g)' = IF g # h THEN Holders(g)
                        ELSE IF to \in Holding THEN Holders(g) \cup {r} ELSE Holders(g) \ {r}
    BY <1>2 DEF Holders
  <2> HIDE DEF Holders
  <2> QED BY <2>1 DEF HeldBar
<1>4. PastBar' = [PastBar EXCEPT ![h] = IF to \in Released THEN @ \cup {r} ELSE @ \ {r}]
  <2>1. \A g \in Host :
          CallsIn(Released, g)' = IF g # h THEN CallsIn(Released, g)
                                  ELSE IF to \in Released THEN CallsIn(Released, g) \cup {r}
                                  ELSE CallsIn(Released, g) \ {r}
    BY <1>2
  <2> QED BY <2>1 DEF PastBar
<1>5. QED BY <1>3, <1>4

(* Steps between two phases that both hold a slot, both have given it back *)
(* or have not had one yet do not show in the pool.                        *)
LEMMA MoveStutters ==
  ASSUME RunnerTypeOK, NEW h \in Host, NEW r \in Run, NEW from, NEW to,
         Move(h, r, from, to),
         from \in Holding <=> to \in Holding,
         from \in Released <=> to \in Released
  PROVE  HeldBar' = HeldBar /\ PastBar' = PastBar
<1>1. \A g \in Host, q \in Run :
        job'[g][q] = IF g = h /\ q = r THEN to ELSE job[g][q]
  BY DEF Move, RunnerTypeOK
<1>2. job[h][r] = from
  BY DEF Move
<1>3. \A g \in Host : /\ CallsIn(Holding, g)' = CallsIn(Holding, g)
                      /\ CallsIn(Released, g)' = CallsIn(Released, g)
  BY <1>1, <1>2 DEF CallsIn
<1>4. QED BY <1>3 DEF HeldBar, PastBar, Holders

(* The runner implements the pool: every step of its threads, sessions and *)
(* readers is a Take, a GiveBack, a NodeRestarts or none of the pool's     *)
(* business.                                                               *)
THEOREM RunnerImplementsPool == RunnerSpec => IsSlotPool
<1>1. RunnerInit => Pool!PoolInit
  BY DEF RunnerInit, Pool!PoolInit, Holders, CallsIn, Holding, Released
<1>2. RunnerTypeOK /\ SlotAccounting /\ [RunnerNext]_runnerVars
        => [Pool!PoolNext]_(Pool!poolVars)
  <2> SUFFICES ASSUME RunnerTypeOK, SlotAccounting, [RunnerNext]_runnerVars
               PROVE  Pool!PoolNext \/ (HeldBar' = HeldBar /\ PastBar' = PastBar)
    BY DEF Pool!poolVars, HeldBar, PastBar
  <2>1. ASSUME NEW h \in Host, NEW r \in Run, ExecStart(h, r)
        PROVE  HeldBar' = HeldBar /\ PastBar' = PastBar
    BY <2>1, MoveStutters DEF ExecStart, Holding, Released
  <2>2. ASSUME NEW h \in Host, NEW r \in Run, ExecKill(h, r)
        PROVE  HeldBar' = HeldBar /\ PastBar' = PastBar
    <3>1. CASE job[h][r] = "running"
      <4>1. Move(h, r, "running", "exited")
        BY <2>2, <3>1 DEF ExecKill, Move
      <4>2. QED BY <4>1, MoveStutters DEF Holding, Released
    <3>2. CASE job[h][r] # "running"
      BY <2>2, <3>2 DEF ExecKill, HeldBar, PastBar, Holders, CallsIn
    <3>3. QED BY <3>1, <3>2
  <2>3. ASSUME NEW h \in Host, NEW r \in Run, AcquireSlot(h, r)
        PROVE  Pool!Take(h, r)
    <3>1. Move(h, r, "acquire", "claimed") /\ sem[h] > 0
      BY <2>3 DEF AcquireSlot
    <3>2. r \notin HeldBar[h] \cup PastBar[h]
      BY <3>1 DEF Move, HeldBar, PastBar, Holders, CallsIn, Holding, Released
    <3>3. Cardinality(HeldBar[h]) < RunMax
      <4>1. sem[h] \in Nat /\ sem[h] + Cardinality(Holders(h)) = RunMax
        BY DEF SlotAccounting, RunnerTypeOK
      <4>2. Cardinality(Holders(h)) \in Nat
        BY FS_CardinalityType DEF SlotAccounting
      <4>3. HeldBar[h] = Holders(h)
        BY DEF HeldBar
      <4>4. QED BY <4>1, <4>2, <4>3, <3>1
    <3>4. HeldBar' = [HeldBar EXCEPT ![h] = @ \cup {r}]
      BY <3>1, MoveBars DEF Holding
    <3>5. PastBar' = PastBar
      <4>1. PastBar' = [PastBar EXCEPT ![h] = @ \ {r}]
        BY <3>1, MoveBars DEF Released
      <4>2. PastBar = [g \in Host |-> PastBar[g]]
        BY DEF PastBar
      <4>3. QED BY <4>1, <4>2, <3>2
    <3>6. QED
      BY <3>2, <3>3, <3>4, <3>5
         DEF Pool!Take, HeldBar, PastBar, Cardinality, Pool!Cardinality
  <2>4. ASSUME NEW h \in Host, NEW r \in Run, StartFails(h, r) \/ ReaderRelease(h, r)
        PROVE  Pool!GiveBack(h, r)
    <3>1. PICK from \in Holding, to \in Released : Move(h, r, from, to)
      BY <2>4 DEF StartFails, ReaderRelease, Holding, Released
    <3>2. r \in HeldBar[h]
      BY <3>1 DEF Move, HeldBar, Holders, CallsIn
    <3>3. to \notin Holding
      BY <3>1 DEF Holding, Released
    <3>4. /\ HeldBar' = [HeldBar EXCEPT ![h] = @ \ {r}]
          /\ PastBar' = [PastBar EXCEPT ![h] = @ \cup {r}]
      BY <3>1, <3>3, MoveBars
    <3>5. QED BY <3>2, <3>4 DEF Pool!GiveBack, HeldBar, PastBar
  <2>5. ASSUME NEW h \in Host, NEW r \in Run, ThreadStep(h, r),
               ~AcquireSlot(h, r), ~StartFails(h, r), ~ReaderRelease(h, r)
        PROVE  HeldBar' = HeldBar /\ PastBar' = PastBar
    BY <2>5, MoveStutters
       DEF ThreadStep, AcquireTimeout, CountRun, MakeJobDirFails, UncountFailed,
           Launch, ProgramExits, ReaderFinish, ReaderUncount, ForgetSession,
           Holding, Released
  <2>6. ASSUME NEW h \in Host, Restart(h)
        PROVE  Pool!NodeRestarts(h)
    <3> DEFINE gone == {r \in Run : job[h][r] # "none"}
    <3>1. \A g \in Host, q \in Run :
            job'[g][q] = IF g # h THEN job[g][q]
                         ELSE IF job[h][q] = "none" THEN "none" ELSE "lost"
      BY <2>6 DEF Restart, RunnerTypeOK
    <3>2. HeldBar' = [HeldBar EXCEPT ![h] = {}]
      <4>1. \A g \in Host : Holders(g)' = IF g = h THEN {} ELSE Holders(g)
        BY <3>1 DEF Holders, CallsIn, Holding
      <4>2. QED BY <4>1 DEF HeldBar
    <3>3. PastBar' = [PastBar EXCEPT ![h] = @ \cup gone]
      <4>1. \A g \in Host :
              CallsIn(Released, g)' =
                IF g = h THEN CallsIn(Released, g) \cup gone ELSE CallsIn(Released, g)
        BY <3>1 DEF CallsIn, Released
      <4>2. QED BY <4>1 DEF PastBar
    <3>4. HeldBar[h] \subseteq gone /\ gone \in SUBSET Run
      BY DEF HeldBar, Holders, CallsIn, Holding
    <3>5. QED BY <3>2, <3>3, <3>4 DEF Pool!NodeRestarts, HeldBar, PastBar
  <2>7. CASE UNCHANGED runnerVars
    BY <2>7 DEF runnerVars, HeldBar, PastBar, Holders, CallsIn
  <2>8. QED
    <3>1. ASSUME NEW h \in Host, NEW r \in Run, ThreadStep(h, r)
          PROVE  Pool!PoolNext \/ (HeldBar' = HeldBar /\ PastBar' = PastBar)
      BY <3>1, <2>3, <2>4, <2>5 DEF Pool!PoolNext
    <3>2. ASSUME NEW h \in Host, Restart(h)
          PROVE  Pool!PoolNext
      BY <3>2, <2>6 DEF Pool!PoolNext
    <3>3. QED BY <2>1, <2>2, <2>7, <3>1, <3>2 DEF RunnerNext
<1>3. QED
  BY <1>1, <1>2, RunnerTypeCorrect, SlotsConserved, PTL
     DEF RunnerSpec, IsSlotPool, Pool!PoolSpec

=============================================================================
