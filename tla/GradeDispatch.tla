---------------------------- MODULE GradeDispatch ----------------------------
(***************************************************************************)
(* Grading (server/main.go: pickRunners, callRunner, handleSubmit,         *)
(* handleCompileJava, AddSubmission) over the graders of the worker nodes  *)
(* (worker/runner.py, do_POST).  A request tries the runners that are up,  *)
(* least busy first and the gateway's own last, until one answers.  The    *)
(* gateway gives a call up after 150 s; the runner's thread knows nothing  *)
(* of that, waits for its grader slot without a bound, and grades on.      *)
(*                                                                         *)
(* A plan names a runner once, so job[h][s] is the one call of request s   *)
(* to the runner on h.                                                     *)
(***************************************************************************)
EXTENDS Integers, FiniteSets, Sequences, SequencesExt

CONSTANTS
  Host,         \* the nodes with a runner process
  Local,        \* the gateway's own, 127.0.0.1:9500
  Student,      \* the students' submissions
  Rehearsal,    \* the teachers' submissions, graded but not recorded
  Compile,      \* the requests to compile Java
  GradeMax,     \* LC3_GRADE_CONCURRENCY: grader slots per node
  MaxRestarts   \* bound: how often runners or the gateway restart

Submit == Student \cup Rehearsal \cup Compile

ASSUME GradeAssumption ==
  /\ Local \in Host
  /\ IsFiniteSet(Host)
  /\ IsFiniteSet(Submit)
  /\ GradeMax \in Nat \ {0}
  /\ MaxRestarts \in Nat

VARIABLES
  up,         \* the workers the store has as up, 127.0.0.1 aside
  inflight,   \* [Host -> Int], the gateway's count of calls under way
  submit,     \* [Submit -> [at, plan]], the handlers
  rows,       \* the submissions table
  sem,        \* [Host -> Nat], the value of _grade_lock
  busy,       \* [Host -> Nat], _busy["grades"], reported by /health
  job,        \* [Host -> [Submit -> JobPhase]], the runner's threads
  restarts    \* how many restarts there have been

gatewayVars == <<up, inflight, submit, rows>>
graderVars == <<sem, busy, job>>
vars == <<up, inflight, submit, rows, sem, busy, job, restarts>>

(* Where a handler is.  At trying the head of plan is called next; at      *)
(* calling, failed and got it is the runner called last.                   *)
At == {"idle", "trying", "calling", "failed", "got", "answered",
       "unavailable", "cut"}
Closed == {"answered", "unavailable", "cut"}

JobPhase == {
  "none",      \* no request has arrived
  "waiting",   \* the thread waits in _grade_lock
  "entered",   \* it has a slot, busy does not count it yet
  "grading",   \* busy counts it, the sandbox runs
  "ended",     \* busy counts it no more, it still has its slot
  "replied",   \* the slot is free and the answer sent, to whoever listens
  "lost" }     \* the runner process restarted

JobsIn(S, h) == {s \in Submit : job[h][s] \in S}
Holders(h) == JobsIn({"entered", "grading", "ended"}, h)

Target(s) == Head(submit[s].plan)
CallsTo(h) == {s \in Submit : submit[s].at = "calling" /\ Target(s) = h}

(* Workers that are up, those with fewer calls first (ties either way),    *)
(* then the gateway's own runner, always present.                          *)
PickRunners ==
  {Append(p, Local) :
     p \in {q \in SetToSeqs(up) :
              \A i, j \in DOMAIN q : i < j => inflight[q[i]] <= inflight[q[j]]}}

Proceeds(s, from, to) ==
  /\ submit[s].at = from
  /\ submit' = [submit EXCEPT ![s].at = to]

JobMoves(h, s, from, to) ==
  /\ job[h][s] = from
  /\ job' = [job EXCEPT ![h][s] = to]

AddInflight(h, d) == inflight' = [inflight EXCEPT ![h] = @ + d]
AddBusy(h, d) ==
  busy' = [busy EXCEPT ![h] = IF @ + d < 0 THEN 0 ELSE @ + d]

-----------------------------------------------------------------------------

GradeInit ==
  /\ up = Host \ {Local}
  /\ inflight = [h \in Host |-> 0]
  /\ submit = [s \in Submit |-> [at |-> "idle", plan |-> <<>>]]
  /\ rows = {}
  /\ sem = [h \in Host |-> GradeMax]
  /\ busy = [h \in Host |-> 0]
  /\ job = [h \in Host |-> [s \in Submit |-> "none"]]
  /\ restarts = 0

(* The request arrives, with the files as they are, and is planned.        *)
HandleSubmit(s) ==
  /\ submit[s].at = "idle"
  /\ \E p \in PickRunners :
       submit' = [submit EXCEPT ![s] = [at |-> "trying", plan |-> p]]
  /\ UNCHANGED <<up, inflight, rows, graderVars, restarts>>

(* callRunner counts the call and sends it; a thread of the runner has it, *)
(* or nothing arrives and the call can only fail.                          *)
CallRunner(s) ==
  /\ submit[s].plan # <<>>
  /\ Proceeds(s, "trying", "calling")
  /\ AddInflight(Target(s), 1)
  /\ JobMoves(Target(s), s, "none", "waiting") \/ UNCHANGED job
  /\ UNCHANGED <<up, rows, sem, busy, restarts>>

(* Mutant: only a call that was answered is counted down.                  *)
CallFailsCounted(s) ==
  /\ Proceeds(s, "calling", "failed")
  /\ UNCHANGED <<up, inflight, rows, graderVars, restarts>>

(* Mutant: what was decoded of an unreadable answer is taken for one.      *)
CallFailsDecoded(s) ==
  /\ Proceeds(s, "calling", "failed") \/ Proceeds(s, "calling", "got")
  /\ AddInflight(Target(s), -1)
  /\ UNCHANGED <<up, rows, graderVars, restarts>>

(* No connection, 150 s, a lost or an unreadable answer: at any moment of  *)
(* the call, and alike to the gateway.  What an unreadable answer leaves   *)
(* in result is not kept here: the next answer has a status and tests,     *)
(* all that a row is made of, and overwrites them.                         *)
CallFails(s) ==
  /\ Proceeds(s, "calling", "failed")
  /\ AddInflight(Target(s), -1)
  /\ UNCHANGED <<up, rows, graderVars, restarts>>

TakeAnswer(s) ==
  /\ Proceeds(s, "calling", "got")
  /\ job[Target(s)][s] = "replied"
  /\ AddInflight(Target(s), -1)
  /\ UNCHANGED <<up, rows, graderVars, restarts>>

(* Mutant: the gateway's own runner is tried once more, for good measure.  *)
NextRunnerStays(s) ==
  /\ submit[s].at = "failed"
  /\ submit' = [submit EXCEPT ![s].at = "trying",
                              ![s].plan = IF Len(@) = 1 THEN @ ELSE Tail(@)]
  /\ up' = up \ {Target(s)}
  /\ UNCHANGED <<inflight, rows, graderVars, restarts>>

(* The loop goes on to the next runner; a worker that failed a grading     *)
(* call is marked down first, one that failed a compilation is not.        *)
NextRunner(s) ==
  /\ submit[s].at = "failed"
  /\ submit' = [submit EXCEPT ![s].at = "trying", ![s].plan = Tail(@)]
  /\ up' = IF s \in Compile THEN up ELSE up \ {Target(s)}
  /\ UNCHANGED <<inflight, rows, graderVars, restarts>>

Unavailable(s) ==
  /\ submit[s].plan = <<>>
  /\ Proceeds(s, "trying", "unavailable")
  /\ UNCHANGED <<up, inflight, rows, graderVars, restarts>>

(* The answer leaves; a student's submission is a row first, unless the    *)
(* insert fails, which AddSubmission keeps to itself.                      *)
Record(s) ==
  /\ Proceeds(s, "got", "answered")
  /\ \/ /\ s \in Student
        /\ rows' = rows \cup {[of |-> s, by |-> Target(s)]}
     \/ UNCHANGED rows
  /\ UNCHANGED <<up, inflight, graderVars, restarts>>

(* A worker goes up or down: heartbeats, the sweep, the teacher (Workers). *)
StatusChanges(h) ==
  /\ h # Local
  /\ up' = IF h \in up THEN up \ {h} ELSE up \cup {h}
  /\ UNCHANGED <<inflight, submit, rows, graderVars, restarts>>

(* The gateway restarts: handlers and counts are gone, the table is not,   *)
(* and the runners notice nothing.                                         *)
GatewayRestarts ==
  /\ restarts < MaxRestarts
  /\ restarts' = restarts + 1
  /\ inflight' = [h \in Host |-> 0]
  /\ submit' = [s \in Submit |->
                  IF submit[s].at \in {"idle"} \cup Closed THEN submit[s]
                  ELSE [submit[s] EXCEPT !.at = "cut"]]
  /\ UNCHANGED <<up, rows, graderVars>>

-----------------------------------------------------------------------------
(* The runner: one thread per request, GradeMax of them inside the lock.   *)

(* Mutant: the slot is taken without looking at what is left.              *)
AcquireBlindly(h, s) ==
  /\ JobMoves(h, s, "waiting", "entered")
  /\ sem' = [sem EXCEPT ![h] = @ - 1]
  /\ UNCHANGED <<gatewayVars, busy, restarts>>

(* _grade_lock is free at last.                                            *)
Acquire(h, s) ==
  /\ sem[h] > 0
  /\ JobMoves(h, s, "waiting", "entered")
  /\ sem' = [sem EXCEPT ![h] = @ - 1]
  /\ UNCHANGED <<gatewayVars, busy, restarts>>

Grade(h, s) ==
  /\ JobMoves(h, s, "entered", "grading")
  /\ AddBusy(h, 1)
  /\ UNCHANGED <<gatewayVars, sem, restarts>>

(* Mutant: a grader nobody waits for any more is ended without counting.   *)
GradeEndsUncounted(h, s) ==
  /\ JobMoves(h, s, "grading", "ended")
  /\ IF s \in CallsTo(h) THEN AddBusy(h, -1) ELSE UNCHANGED busy
  /\ UNCHANGED <<gatewayVars, sem, restarts>>

(* The sandbox has a hard limit, and what raises is turned into a result:  *)
(* the job always comes out of the sandbox.                                *)
GradeEnds(h, s) ==
  /\ JobMoves(h, s, "grading", "ended")
  /\ AddBusy(h, -1)
  /\ UNCHANGED <<gatewayVars, sem, restarts>>

(* Mutant: a job whose call was given up keeps its slot.                   *)
ReleaseIfHeard(h, s) ==
  /\ s \in CallsTo(h)
  /\ JobMoves(h, s, "ended", "replied")
  /\ sem' = [sem EXCEPT ![h] = @ + 1]
  /\ UNCHANGED <<gatewayVars, busy, restarts>>

(* It leaves _grade_lock, and answers.                                     *)
Release(h, s) ==
  /\ JobMoves(h, s, "ended", "replied")
  /\ sem' = [sem EXCEPT ![h] = @ + 1]
  /\ UNCHANGED <<gatewayVars, busy, restarts>>

RunnerRestarts(h) ==
  /\ restarts < MaxRestarts
  /\ restarts' = restarts + 1
  /\ sem' = [sem EXCEPT ![h] = GradeMax]
  /\ busy' = [busy EXCEPT ![h] = 0]
  /\ job' = [job EXCEPT ![h] = [s \in Submit |->
               IF @[s] \in {"none", "replied"} THEN @[s] ELSE "lost"]]
  /\ UNCHANGED gatewayVars

GatewayStep(s) ==
  \/ CallRunner(s) \/ CallFails(s) \/ TakeAnswer(s) \/ NextRunner(s)
  \/ Unavailable(s) \/ Record(s)

GraderStep(h, s) ==
  Acquire(h, s) \/ Grade(h, s) \/ GradeEnds(h, s) \/ Release(h, s)

GradeNext ==
  \/ GatewayRestarts
  \/ \E s \in Submit : HandleSubmit(s) \/ GatewayStep(s)
  \/ \E h \in Host : \/ StatusChanges(h) \/ RunnerRestarts(h)
                     \/ \E s \in Submit : GraderStep(h, s)

GradeSpec == GradeInit /\ [][GradeNext]_vars

(* Goroutines run on and the HTTP client ends a call after 150 s; threads  *)
(* run on and the sandbox is ended at its limit.  A request has a bounded  *)
(* number of steps to take, so it is enough that some step is taken.       *)
GradeFairness ==
  WF_vars(\E s \in Submit : GatewayStep(s) \/ \E h \in Host : GraderStep(h, s))

FairGradeSpec == GradeSpec /\ GradeFairness

-----------------------------------------------------------------------------

(* The variables hold what the code keeps in them.                         *)
GradeTypeOK ==
  /\ up \in SUBSET (Host \ {Local})
  /\ inflight \in [Host -> Int]
  /\ submit \in [Submit -> [at : At, plan : Seq(Host)]]
  /\ rows \in SUBSET [of : Student, by : Host]
  /\ sem \in [Host -> Nat]
  /\ busy \in [Host -> Nat]
  /\ job \in [Host -> [Submit -> JobPhase]]
  /\ restarts \in Nat

(* The count pickRunners sorts by, and the teacher sees, is the number of  *)
(* calls under way at every moment: it neither drifts when calls time out  *)
(* nor goes below zero, so no worker is avoided or preferred for ever.     *)
InflightIsCalls == \A h \in Host : inflight[h] = Cardinality(CallsTo(h))

(* A row of the submissions table is the grade given by the one call that  *)
(* was not given up: there is one row at most per student's submission,    *)
(* and no runner tried before it, which may still be grading or may have   *)
(* answered too late, has any part in it.                                  *)
RowsAreOfTheLastCall ==
  \A x \in rows :
    /\ submit[x.of].at = "answered"
    /\ x.by = Target(x.of)
    /\ job[x.by][x.of] = "replied"
    /\ \A y \in rows : y.of = x.of => y = x

(* The free slots and the jobs inside the lock always add up, whatever the *)
(* gateway has given up in the meantime, and busy counts those of them     *)
(* between their two busy_add: it never shows more than GradeMax, and its  *)
(* clamp at zero never swallows a grader.                                  *)
GraderAccounting ==
  \A h \in Host :
    /\ sem[h] + Cardinality(Holders(h)) = GradeMax
    /\ busy[h] = Cardinality(JobsIn({"grading"}, h))
    /\ busy[h] <= GradeMax - sem[h]

(* The grade lock is a plain pool of GradeMax slots per node, of which     *)
(* every request takes one at most once (SlotPool).                        *)
Pool == INSTANCE SlotPool WITH
  Node <- Host, Job <- Submit, Capacity <- GradeMax,
  held <- [h \in Host |-> Holders(h)],
  past <- [h \in Host |-> JobsIn({"replied", "lost"}, h)]

GradersArePool == Pool!PoolSpec

(* Every request is answered, if only with "no grader available", however  *)
(* many runners hang or fail, unless the gateway itself restarts.          *)
SubmitIsAnswered ==
  \A s \in Submit : (submit[s].at = "trying") ~> (submit[s].at \in Closed)

(* Graders come free again and serve what waits for them, although nobody  *)
(* may be waiting for the answer any more.                                 *)
GradersDrain ==
  \A h \in Host, s \in Submit :
    (job[h][s] = "waiting") ~> (job[h][s] \in {"replied", "lost"})
=============================================================================
