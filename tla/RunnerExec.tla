----------------------------- MODULE RunnerExec -----------------------------
(***************************************************************************)
(* Interactive runs on the worker nodes (worker/runner.py, exec_start to   *)
(* exec_kill).  Every host runs one runner process.  A start call is       *)
(* served by a thread that claims one of RunMax slots from a counting      *)
(* semaphore, prepares and compiles the job, and leaves behind a session   *)
(* whose own reader thread gives the slot back when the program ends.      *)
(*                                                                         *)
(* job[h][r] is where the call of run r to host h has got to; the answer   *)
(* the call returns is determined by it.  One run calls one host at most   *)
(* once (pickExecRunner removes duplicates), so <<h, r>> also names the    *)
(* session the call creates.                                               *)
(***************************************************************************)
EXTENDS Integers, FiniteSets

CONSTANTS
  Host,         \* the nodes with a runner process
  Run,          \* the Run requests made by browsers
  RunMax,       \* LC3_MAX_RUNS: slots per node
  MaxRestarts,  \* bound: how often runner processes restart in a behaviour
  DiskMayFail   \* whether creating the job directory may raise OSError

ASSUME RunnerAssumption ==
  /\ RunMax \in Nat \ {0}
  /\ MaxRestarts \in Nat
  /\ DiskMayFail \in BOOLEAN

VARIABLES
  sem,          \* [Host -> Nat], the value of _run_sem
  busy,         \* [Host -> Nat], _busy["runs"], reported by /health
  job,          \* [Host -> [Run -> Phase]]
  restarts      \* how many restarts there have been

runnerVars == <<sem, busy, job, restarts>>

(* The phases of a start call and of the session it creates, in order.     *)
Phase == {
  "none",       \* no call has arrived
  "acquire",    \* the thread waits in _run_sem.acquire(timeout=15)
  "refused",    \* it gave up and answered busy
  "claimed",    \* it has a slot and has not counted it yet
  "counted",    \* busy is incremented; the job is being prepared and compiled
  "leaked",     \* makedirs raised outside the try: answered error, slot kept
  "uncount",    \* failed inside the try: slot released, busy not yet lowered
  "failed",     \* answered compile_error or error
  "running",    \* session registered, answered running, program alive
  "exited",     \* the program is dead, the reader has not noticed
  "finished",   \* the reader called finish(): polls see done
  "released",   \* the reader released the semaphore
  "listed",     \* the reader lowered busy; the session is kept for 60 s
  "forgotten",  \* the session has been removed from _sessions
  "lost" }      \* the runner process restarted and knows nothing of it

CallsIn(S, h) == {r \in Run : job[h][r] \in S}

(* The calls whose slot the semaphore of h counts as taken.                *)
Holding == {"claimed", "counted", "leaked", "running", "exited", "finished"}
Holders(h) == CallsIn(Holding, h)

(* The calls that had a slot and have none any more.                       *)
Released == {"uncount", "failed", "released", "listed", "forgotten", "lost"}

(* The calls that _busy["runs"] of h counts.                               *)
Counting == {"counted", "leaked", "uncount", "running", "exited", "finished",
             "released"}
Counted(h) == CallsIn(Counting, h)

(* What the call answers: nothing yet, busy, failed (compile_error or      *)
(* error, which every caller treats alike) or running.                     *)
Answer(h, r) ==
  CASE job[h][r] = "refused" -> "busy"
    [] job[h][r] \in {"leaked", "failed"} -> "failed"
    [] job[h][r] \in {"running", "exited", "finished", "released", "listed",
                      "forgotten"} -> "running"
    [] OTHER -> "none"

(* exec_output says done for a finished session, and for an unknown one.   *)
OutputDone(h, r) == job[h][r] \notin {"running", "exited"}

AddBusy(h, d) ==
  busy' = [busy EXCEPT ![h] = IF @ + d < 0 THEN 0 ELSE @ + d]

Move(h, r, from, to) ==
  /\ job[h][r] = from
  /\ job' = [job EXCEPT ![h][r] = to]

-----------------------------------------------------------------------------

RunnerInit ==
  /\ sem = [h \in Host |-> RunMax]
  /\ busy = [h \in Host |-> 0]
  /\ job = [h \in Host |-> [r \in Run |-> "none"]]
  /\ restarts = 0

ExecStart(h, r) ==
  /\ Move(h, r, "none", "acquire")
  /\ UNCHANGED <<sem, busy, restarts>>

(* Mutant: the slot is taken without looking at what is left.              *)
AcquireSlotBlindly(h, r) ==
  /\ sem' = [sem EXCEPT ![h] = @ - 1]
  /\ Move(h, r, "acquire", "claimed")
  /\ UNCHANGED <<busy, restarts>>

AcquireSlot(h, r) ==
  /\ sem[h] > 0
  /\ sem' = [sem EXCEPT ![h] = @ - 1]
  /\ Move(h, r, "acquire", "claimed")
  /\ UNCHANGED <<busy, restarts>>

(* A timed acquire looks at the value once more before it gives up.        *)
AcquireTimeout(h, r) ==
  /\ sem[h] = 0
  /\ Move(h, r, "acquire", "refused")
  /\ UNCHANGED <<sem, busy, restarts>>

CountRun(h, r) ==
  /\ AddBusy(h, 1)
  /\ Move(h, r, "claimed", "counted")
  /\ UNCHANGED <<sem, restarts>>

(* os.makedirs stands before the try: the handler answers error and        *)
(* nothing releases the slot.                                              *)
MakeJobDirFails(h, r) ==
  /\ DiskMayFail
  /\ Move(h, r, "counted", "leaked")
  /\ UNCHANGED <<sem, busy, restarts>>

(* Mutant: the failure path returns before it releases the slot.           *)
StartFailsUnreleased(h, r) ==
  /\ Move(h, r, "counted", "uncount")
  /\ UNCHANGED <<sem, busy, restarts>>

(* The compiler rejects the program, or writing the files, the compile or  *)
(* Popen raises: either way the slot goes back first.                      *)
StartFails(h, r) ==
  /\ sem' = [sem EXCEPT ![h] = @ + 1]
  /\ Move(h, r, "counted", "uncount")
  /\ UNCHANGED <<busy, restarts>>

(* Mutant: the failure path forgets busy_add(-1).                          *)
UncountFailedForgotten(h, r) ==
  /\ Move(h, r, "uncount", "failed")
  /\ UNCHANGED <<sem, busy, restarts>>

UncountFailed(h, r) ==
  /\ AddBusy(h, -1)
  /\ Move(h, r, "uncount", "failed")
  /\ UNCHANGED <<sem, restarts>>

Launch(h, r) ==
  /\ Move(h, r, "counted", "running")
  /\ UNCHANGED <<sem, busy, restarts>>

(* Mutant: no timeout(1) around the program, which waits for ever.         *)
ProgramNeverEnds(h, r) == FALSE

(* The program ends by itself, or timeout(1) ends it after RUN_TIMEOUT.    *)
ProgramExits(h, r) ==
  /\ Move(h, r, "running", "exited")
  /\ UNCHANGED <<sem, busy, restarts>>

(* exec_kill: an unknown session, or a dead process, is left alone.        *)
ExecKill(h, r) ==
  /\ job' = IF job[h][r] = "running"
              THEN [job EXCEPT ![h][r] = "exited"]
              ELSE job
  /\ UNCHANGED <<sem, busy, restarts>>

ReaderFinish(h, r) ==
  /\ Move(h, r, "exited", "finished")
  /\ UNCHANGED <<sem, busy, restarts>>

ReaderRelease(h, r) ==
  /\ sem' = [sem EXCEPT ![h] = @ + 1]
  /\ Move(h, r, "finished", "released")
  /\ UNCHANGED <<busy, restarts>>

ReaderUncount(h, r) ==
  /\ AddBusy(h, -1)
  /\ Move(h, r, "released", "listed")
  /\ UNCHANGED <<sem, restarts>>

ForgetSession(h, r) ==
  /\ Move(h, r, "listed", "forgotten")
  /\ UNCHANGED <<sem, busy, restarts>>

(* The runner process dies and is started again: the semaphore, the        *)
(* counter and the sessions are all in its memory.                         *)
Restart(h) ==
  /\ restarts < MaxRestarts
  /\ restarts' = restarts + 1
  /\ sem' = [sem EXCEPT ![h] = RunMax]
  /\ busy' = [busy EXCEPT ![h] = 0]
  /\ job' = [job EXCEPT ![h] =
               [r \in Run |-> IF @[r] = "none" THEN "none" ELSE "lost"]]

(* The steps of the runner's own threads for one call.                     *)
ThreadStep(h, r) ==
  \/ AcquireSlot(h, r) \/ AcquireTimeout(h, r) \/ CountRun(h, r)
  \/ MakeJobDirFails(h, r) \/ StartFails(h, r) \/ UncountFailed(h, r)
  \/ Launch(h, r) \/ ProgramExits(h, r)
  \/ ReaderFinish(h, r) \/ ReaderRelease(h, r) \/ ReaderUncount(h, r)
  \/ ForgetSession(h, r)

RunnerNext ==
  \E h \in Host :
    \/ Restart(h)
    \/ \E r \in Run : ExecStart(h, r) \/ ExecKill(h, r) \/ ThreadStep(h, r)

RunnerSpec == RunnerInit /\ [][RunnerNext]_runnerVars

-----------------------------------------------------------------------------

(* The variables hold what the code keeps in them.                         *)
RunnerTypeOK ==
  /\ sem \in [Host -> Nat]
  /\ busy \in [Host -> Nat]
  /\ job \in [Host -> [Run -> Phase]]
  /\ restarts \in 0 .. MaxRestarts

(* Slots are neither minted nor lost: what the semaphore has left and what *)
(* the calls and sessions hold always add up to RUN_MAX, so a node never   *)
(* runs more than RUN_MAX programs ("runs are capped per node") and only   *)
(* the calls named in Holders can make it answer busy.                     *)
SlotAccounting ==
  \A h \in Host : /\ IsFiniteSet(Holders(h))
                  /\ sem[h] + Cardinality(Holders(h)) = RunMax

(* The count kept beside the semaphore for /health never drifts from it:   *)
(* it is exactly the calls between their two busy_add, so the max(0, ...)  *)
(* in busy_add never swallows a decrement.                                 *)
BusyAccounting ==
  \A h \in Host : /\ IsFiniteSet(Counted(h))
                  /\ busy[h] = Cardinality(Counted(h))

(* The steps of the runner are those of a plain pool of RunMax slots per   *)
(* node from which every call takes at most one slot, once (SlotPool).     *)
Pool == INSTANCE SlotPool WITH
  Node <- Host, Job <- Run, Capacity <- RunMax,
  held <- [h \in Host |-> Holders(h)],
  past <- [h \in Host |-> CallsIn(Released, h)]

IsSlotPool == Pool!PoolSpec

(* Whoever claimed a slot gives it back, but for the one makedirs can lose *)
(* (MakeJobDirFails): no failing compile, killed or endless program and no *)
(* session whose output nobody reads keeps one.                            *)
SlotsComeBack ==
  \A h \in Host, r \in Run :
    (job[h][r] \in Holding) ~> (job[h][r] \notin Holding \/ job[h][r] = "leaked")
=============================================================================
