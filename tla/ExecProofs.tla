----------------------------- MODULE ExecProofs -----------------------------
(***************************************************************************)
(* For any number of runs, workers and slots: the gateway only uses the    *)
(* runners' endpoints, so everything proved of the runners holds under it; *)
(* runLoad is the number of routes per host; a route leads to the run's    *)
(* own session and is kept while the program is alive.  The editor's       *)
(* terminal is one of the clients the gateway allows, so all of this holds *)
(* under it too; and however Run and Stop are pressed and replies are      *)
(* delayed, its polls and kills of one run never overlap.                  *)
(***************************************************************************)
EXTENDS ExecTerminal, RunnerExecProofs

(* The phases of a session whose program is dead, or that is unknown to a  *)
(* restarted runner: the answer to a poll is, and stays, done.             *)
Over == {"finished", "released", "listed", "forgotten", "lost"}

(* The session of a routed run: once answered running, it only moves on.   *)
Started == {"running", "exited"} \cup Over

(* How far one start request and its run's handlers can be apart.          *)
RunInv(r) ==
  /\ start[r] # "idle" => plan[r] # <<>>
  /\ start[r] = "routed" => r \in routes
  /\ r \in routes => start[r] \in {"routed", "answered"}
  /\ reply[r] # "none" => start[r] = "answered"
  /\ reply[r] \in {"busy", "failed", "unavailable"} => r \notin routes
  /\ \A k \in Handler : op[k][r] \notin Resting => reply[r] = "running"
  /\ \A k \in Handler : op[k][r] = "uncount" => r \notin routes
  /\ op["poll"][r] # "uncount" \/ op["kill"][r] # "uncount"
  /\ r \in routes => job[Ref(r)][r] \in Started
  /\ reply[r] = "running" => job[Ref(r)][r] \in Started
  /\ op["poll"][r] = "drop" => job[Ref(r)][r] \in Over

RouteInv == \A r \in Run : RunInv(r)

ExecInv == RunnerTypeOK /\ GatewayTypeOK /\ RouteInv

-----------------------------------------------------------------------------

(* The orders that pickExecRunner may give are nonempty sequences of hosts *)
(* that end with the local one.                                            *)
LEMMA OrdersType ==
  ASSUME GatewayTypeOK, NEW p \in PickExecRunner
  PROVE  p \in Seq(Host) /\ p # <<>>
<1>1. PICK s \in SetToSeqs(up) : p = Append(s, Local)
  BY DEF PickExecRunner
<1>2. IsFiniteSet(up)
  BY FS_Subset, HostAssumption DEF GatewayTypeOK, HostAssumption
<1>3. Cardinality(up) \in Nat
  BY <1>2, FS_CardinalityType
<1>4. s \in [1 .. Cardinality(up) -> Host]
  BY <1>1 DEF SetToSeqs, GatewayTypeOK
<1>5. s \in Seq(Host)
  BY <1>3, <1>4
<1>6. QED BY <1>1, <1>5, HostAssumption DEF HostAssumption

(* The host a start or a handler talks to is one of the hosts.             *)
LEMMA RefType ==
  ASSUME GatewayTypeOK, NEW r \in Run, plan[r] # <<>>
  PROVE  Ref(r) \in Host
BY DEF GatewayTypeOK, Ref

(* A handler's move shows in its own phase and nowhere else.               *)
LEMMA OpStepType ==
  ASSUME GatewayTypeOK, NEW k \in Handler, NEW r \in Run, NEW to \in OpPhase,
         OpMoves(k, r, to)
  PROVE  /\ op' \in [Handler -> [Run -> OpPhase]]
         /\ \A l \in Handler, q \in Run :
              op'[l][q] = IF l = k /\ q = r THEN to ELSE op[l][q]
<1>1. op \in [Handler -> [Run -> OpPhase]]
  BY DEF GatewayTypeOK
<1>2. op' = [op EXCEPT ![k][r] = to]
  BY DEF OpMoves
<1>3. QED BY <1>1, <1>2

(* The load of one host changes, by the amount asked for, clamped at 0.    *)
LEMMA LoadStepType ==
  ASSUME GatewayTypeOK, NEW h \in Host, NEW d \in Int, AddRunLoad(h, d)
  PROVE  /\ load' \in [Host -> Nat]
         /\ \A g \in Host : load'[g] = IF g # h THEN load[g]
                                        ELSE IF load[g] + d < 0 THEN 0
                                        ELSE load[g] + d
BY DEF GatewayTypeOK, AddRunLoad

(* A run that is past asking, or has a handler at work, has a host.        *)
LEMMA RefOfActive ==
  ASSUME GatewayTypeOK, RouteInv, NEW r \in Run,
         \/ start[r] # "idle"
         \/ \E k \in Handler : op[k][r] \notin Resting
  PROVE  Ref(r) \in Host
<1>1. plan[r] # <<>>
  BY DEF RouteInv, RunInv
<1>2. QED BY <1>1, RefType

(* A started session only moves on, and one that is over stays over.       *)
LEMMA SessionsMoveOn ==
  ASSUME RunnerTypeOK, [RunnerNext]_runnerVars, NEW h \in Host, NEW r \in Run
  PROVE  /\ job[h][r] \in Started => job'[h][r] \in Started
         /\ job[h][r] \in Over => job'[h][r] \in Over
<1> USE DEF Started, Over
<1>1. ASSUME NEW g \in Host, NEW q \in Run, NEW from, NEW to, Move(g, q, from, to),
             from \in Started => to \in Started, from \in Over => to \in Over
      PROVE  /\ job[h][r] \in Started => job'[h][r] \in Started
             /\ job[h][r] \in Over => job'[h][r] \in Over
  <2>1. job'[h][r] = IF h = g /\ r = q THEN to ELSE job[h][r]
    BY <1>1 DEF Move, RunnerTypeOK
  <2>2. job[g][q] = from
    BY <1>1 DEF Move
  <2>3. QED BY <2>1, <2>2, <1>1
<1>2. ASSUME NEW g \in Host, NEW q \in Run, ThreadStep(g, q)
      PROVE  /\ job[h][r] \in Started => job'[h][r] \in Started
             /\ job[h][r] \in Over => job'[h][r] \in Over
  <2>1. PICK from, to : /\ Move(g, q, from, to)
                        /\ from \in Started => to \in Started
                        /\ from \in Over => to \in Over
    BY <1>2 DEF ThreadStep, AcquireSlot, AcquireTimeout, CountRun, MakeJobDirFails,
                StartFails, UncountFailed, Launch, ProgramExits, ReaderFinish,
                ReaderRelease, ReaderUncount, ForgetSession
  <2>2. QED BY <2>1, <1>1
<1>3. ASSUME NEW g \in Host, NEW q \in Run, ExecStart(g, q)
      PROVE  /\ job[h][r] \in Started => job'[h][r] \in Started
             /\ job[h][r] \in Over => job'[h][r] \in Over
  BY <1>3, <1>1 DEF ExecStart
<1>4. ASSUME NEW g \in Host, NEW q \in Run, ExecKill(g, q)
      PROVE  /\ job[h][r] \in Started => job'[h][r] \in Started
             /\ job[h][r] \in Over => job'[h][r] \in Over
  BY <1>4 DEF ExecKill, RunnerTypeOK
<1>5. ASSUME NEW g \in Host, Restart(g)
      PROVE  /\ job[h][r] \in Started => job'[h][r] \in Started
             /\ job[h][r] \in Over => job'[h][r] \in Over
  BY <1>5 DEF Restart, RunnerTypeOK
<1>6. CASE UNCHANGED runnerVars
  BY <1>6 DEF runnerVars
<1>7. QED BY <1>2, <1>3, <1>4, <1>5, <1>6 DEF RunnerNext

(* Whatever the gateway does, a runner sees one of its own steps or none.  *)
LEMMA StepDrivesRunners ==
  ASSUME ExecInv, [ExecNext]_execVars
  PROVE  [RunnerNext]_runnerVars
<1>1. ASSUME NEW r \in Run, CallArrives(r)
      PROVE  RunnerNext
  <2>1. Ref(r) \in Host
    BY <1>1, RefType DEF CallArrives, ExecInv, RouteInv, RunInv
  <2>2. QED BY <1>1, <2>1 DEF CallArrives, RunnerNext
<1>2. ASSUME NEW r \in Run, AskKill(r)
      PROVE  RunnerNext
  <2>1. plan[r] # <<>>
    BY <1>2 DEF AskKill, ExecInv, RouteInv, RunInv, Handler, Resting
  <2>2. Ref(r) \in Host
    BY <2>1, RefType DEF ExecInv
  <2>3. QED BY <1>2, <2>2 DEF AskKill, RunnerNext
<1>3. ASSUME RunnerAlone
      PROVE  RunnerNext
  BY <1>3 DEF RunnerAlone, RunnerNext
<1>4. QED
  BY <1>1, <1>2, <1>3
     DEF ExecNext, ServerStep, ClientRequest, StartCallReturns, OpStep, StatusChanges,
         HandleStart, CallFails, TakeRunning, CountRoute, PassBack, Request,
         LookupRoute, AskOutput, OutputUnreachable, KillUnreachable, DropRoute,
         UncountRoute, execVars, runnerVars

(* The gateway's variables keep their types.                               *)
LEMMA GatewayTypeStep ==
  ASSUME GatewayTypeOK, RouteInv, [ExecNext]_execVars
  PROVE  GatewayTypeOK'
<1>0. /\ up \in SUBSET (Host \ {Local}) /\ start \in [Run -> StartPhase]
      /\ plan \in [Run -> Seq(Host)] /\ reply \in [Run -> Reply]
      /\ routes \in SUBSET Run /\ load \in [Host -> Nat]
      /\ op \in [Handler -> [Run -> OpPhase]]
  BY DEF GatewayTypeOK
<1>2. ASSUME NEW r \in Run, HandleStart(r)
      PROVE  GatewayTypeOK'
  <2>1. PICK p \in PickExecRunner : plan' = [plan EXCEPT ![r] = p]
    BY <1>2 DEF HandleStart
  <2>2. plan' \in [Run -> Seq(Host)]
    BY <2>1, <1>0, OrdersType
  <2>3. QED BY <1>0, <1>2, <2>2 DEF HandleStart, GatewayTypeOK, StartPhase
<1>3. ASSUME NEW r \in Run, CallFails(r)
      PROVE  GatewayTypeOK'
  <2>1. plan' \in [Run -> Seq(Host)]
    <3>1. CASE Len(plan[r]) > 1
      <4>1. Tail(plan[r]) \in Seq(Host)
        BY <1>0, <3>1
      <4>2. QED BY <1>0, <1>3, <3>1, <4>1 DEF CallFails
    <3>2. CASE ~(Len(plan[r]) > 1)
      BY <1>0, <1>3, <3>2 DEF CallFails
    <3>3. QED BY <3>1, <3>2
  <2>2. start' \in [Run -> StartPhase] /\ reply' \in [Run -> Reply]
    BY <1>0, <1>3 DEF CallFails, StartPhase, Reply
  <2>3. QED BY <1>0, <1>3, <2>1, <2>2 DEF CallFails, GatewayTypeOK
<1>4. ASSUME NEW r \in Run, TakeRunning(r) \/ PassBack(r) \/ CallArrives(r)
      PROVE  GatewayTypeOK'
  <2>1. CASE TakeRunning(r)
    BY <1>0, <2>1 DEF TakeRunning, GatewayTypeOK, StartPhase
  <2>2. CASE PassBack(r)
    <3>1. start' \in [Run -> StartPhase] /\ reply' \in [Run -> Reply]
      BY <1>0, <2>2 DEF PassBack, StartPhase, Reply
    <3>2. QED BY <1>0, <2>2, <3>1 DEF PassBack, GatewayTypeOK
  <2>3. CASE CallArrives(r)
    BY <1>0, <2>3 DEF CallArrives, gatewayVars, GatewayTypeOK
  <2>4. QED BY <1>4, <2>1, <2>2, <2>3
<1>5. ASSUME NEW r \in Run, CountRoute(r)
      PROVE  GatewayTypeOK'
  <2>1. load' \in [Host -> Nat]
    BY <1>5, LoadStepType, RefOfActive DEF CountRoute
  <2>2. QED BY <1>0, <1>5, <2>1 DEF CountRoute, GatewayTypeOK, StartPhase, Reply
<1>6. ASSUME NEW k \in Handler, NEW r \in Run, Request(k, r)
      PROVE  GatewayTypeOK'
  BY <1>0, <1>6, OpStepType DEF Request, GatewayTypeOK, OpPhase
<1>7. ASSUME NEW k \in Handler, NEW r \in Run, LookupRoute(k, r)
      PROVE  GatewayTypeOK'
  <2>1. op' \in [Handler -> [Run -> OpPhase]]
    BY <1>7, OpStepType DEF LookupRoute, OpPhase, Resting
  <2>2. QED BY <1>0, <1>7, <2>1 DEF LookupRoute, GatewayTypeOK
<1>8. ASSUME NEW r \in Run, AskOutput(r) \/ OutputUnreachable(r)
      PROVE  GatewayTypeOK'
  <2>1. op' \in [Handler -> [Run -> OpPhase]]
    BY <1>8, OpStepType DEF AskOutput, OutputUnreachable, OpPhase, Resting, Handler
  <2>2. QED BY <1>0, <1>8, <2>1 DEF AskOutput, OutputUnreachable, GatewayTypeOK
<1>9. ASSUME NEW r \in Run, AskKill(r) \/ KillUnreachable(r)
      PROVE  GatewayTypeOK'
  <2>1. op' \in [Handler -> [Run -> OpPhase]]
    BY <1>9, OpStepType DEF AskKill, KillUnreachable, OpPhase, Handler
  <2>2. QED BY <1>0, <1>9, <2>1 DEF AskKill, KillUnreachable, GatewayTypeOK
<1>10. ASSUME NEW k \in Handler, NEW r \in Run, DropRoute(k, r)
       PROVE  GatewayTypeOK'
  <2>1. op' \in [Handler -> [Run -> OpPhase]]
    BY <1>10, OpStepType DEF DropRoute, OpPhase, Resting, Outcome
  <2>2. QED BY <1>0, <1>10, <2>1 DEF DropRoute, GatewayTypeOK
<1>11. ASSUME NEW k \in Handler, NEW r \in Run, UncountRoute(k, r)
       PROVE  GatewayTypeOK'
  <2>1. op' \in [Handler -> [Run -> OpPhase]]
    BY <1>11, OpStepType DEF UncountRoute, OpPhase, Resting, Outcome
  <2>2. load' \in [Host -> Nat]
    BY <1>11, LoadStepType, RefOfActive DEF UncountRoute, Resting
  <2>3. QED BY <1>0, <1>11, <2>1, <2>2 DEF UncountRoute, GatewayTypeOK
<1>12. ASSUME NEW h \in Host, StatusChanges(h)
       PROVE  GatewayTypeOK'
  BY <1>0, <1>12 DEF StatusChanges, GatewayTypeOK
<1>13. CASE RunnerAlone \/ UNCHANGED execVars
  BY <1>0, <1>13 DEF RunnerAlone, gatewayVars, execVars, GatewayTypeOK
<1>14. QED
  BY <1>2, <1>3, <1>4, <1>5, <1>6, <1>7, <1>8, <1>9, <1>10, <1>11, <1>12, <1>13
     DEF ExecNext, ServerStep, ClientRequest, StartCallReturns, OpStep

(* The sessions that routes lead to move on whatever step is taken.        *)
LEMMA RoutedSessionsMoveOn ==
  ASSUME ExecInv, [ExecNext]_execVars, NEW r \in Run, plan[r] # <<>>
  PROVE  /\ job[Ref(r)][r] \in Started => job'[Ref(r)][r] \in Started
         /\ job[Ref(r)][r] \in Over => job'[Ref(r)][r] \in Over
<1>1. [RunnerNext]_runnerVars
  BY StepDrivesRunners
<1>2. Ref(r) \in Host
  BY RefType DEF ExecInv
<1>3. QED BY <1>1, <1>2, SessionsMoveOn DEF ExecInv

(* A step that leaves a run's request, route and handlers alone keeps its  *)
(* invariant, even if its session moves.                                   *)
LEMMA OtherRuns ==
  ASSUME ExecInv, [ExecNext]_execVars, NEW r \in Run,
         start'[r] = start[r], plan'[r] = plan[r], reply'[r] = reply[r],
         r \in routes' <=> r \in routes,
         \A k \in Handler : op'[k][r] = op[k][r]
  PROVE  RunInv(r)'
<1>1. RunInv(r)
  BY DEF ExecInv, RouteInv
<1>2. Ref(r)' = Ref(r)
  BY DEF Ref
<1>3. "poll" \in Handler /\ "kill" \in Handler
  BY DEF Handler
<1>4. CASE plan[r] # <<>>
  <2>1. /\ job[Ref(r)][r] \in Started => job'[Ref(r)][r] \in Started
        /\ job[Ref(r)][r] \in Over => job'[Ref(r)][r] \in Over
    BY <1>4, RoutedSessionsMoveOn
  <2>2. QED BY <1>1, <1>2, <1>3, <2>1 DEF RunInv
<1>5. CASE plan[r] = <<>>
  <2>1. start[r] = "idle" /\ r \notin routes /\ reply[r] = "none"
    BY <1>1, <1>5 DEF RunInv
  <2>2. \A k \in Handler : op[k][r] \in Resting
    BY <1>1, <2>1 DEF RunInv
  <2>3. \A k \in Handler : op[k][r] # "drop" /\ op[k][r] # "uncount"
    BY <2>2 DEF Resting
  <2>4. QED BY <1>1, <1>3, <2>1, <2>2, <2>3 DEF RunInv
<1>6. QED BY <1>4, <1>5

(* One step of a handler keeps the invariant of its run.  The cases say    *)
(* what the step may do to the route.                                      *)
LEMMA HandlerKeepsRun ==
  ASSUME ExecInv, [ExecNext]_execVars,
         NEW k \in Handler, NEW r \in Run, NEW to \in OpPhase, OpMoves(k, r, to),
         start' = start, plan' = plan, reply' = reply, reply[r] = "running",
         to = "uncount" => /\ r \notin routes'
                           /\ r \in routes,
         r \in routes' => r \in routes,
         k = "poll" /\ to = "drop" => job[Ref(r)][r] \in Over
  PROVE  RunInv(r)'
<1>1. RunInv(r)
  BY DEF ExecInv, RouteInv
<1>2. Ref(r)' = Ref(r)
  BY DEF Ref
<1>3. /\ job[Ref(r)][r] \in Started => job'[Ref(r)][r] \in Started
      /\ job[Ref(r)][r] \in Over => job'[Ref(r)][r] \in Over
  BY <1>1, RoutedSessionsMoveOn DEF RunInv
<1>4. \A l \in Handler : op'[l][r] = IF l = k THEN to ELSE op[l][r]
  BY OpStepType DEF ExecInv
<1>5. "poll" \in Handler /\ "kill" \in Handler
  BY DEF Handler
<1>6. QED BY <1>1, <1>2, <1>3, <1>4, <1>5 DEF RunInv

(* Every step of the gateway and the runners keeps the invariant of every  *)
(* run: one case per action, the run it is about and the others.           *)
LEMMA RouteInvStep ==
  ASSUME ExecInv, [ExecNext]_execVars
  PROVE  RouteInv'
<1> SUFFICES ASSUME NEW q \in Run PROVE RunInv(q)'
  BY DEF RouteInv
<1>0. /\ RunInv(q)
      /\ start \in [Run -> StartPhase] /\ plan \in [Run -> Seq(Host)]
      /\ reply \in [Run -> Reply] /\ routes \in SUBSET Run
      /\ op \in [Handler -> [Run -> OpPhase]]
      /\ "poll" \in Handler /\ "kill" \in Handler
  BY DEF ExecInv, RouteInv, GatewayTypeOK, Handler
<1>1. ASSUME NEW r \in Run, HandleStart(r)
      PROVE  RunInv(q)'
  <2>1. CASE q = r
    <3>1. PICK p \in PickExecRunner : plan' = [plan EXCEPT ![r] = p]
      BY <1>1 DEF HandleStart
    <3>2. plan'[r] # <<>>
      BY <3>1, <1>0, OrdersType DEF ExecInv
    <3>3. /\ start'[r] = "asking" /\ reply'[r] = "none" /\ r \notin routes'
          /\ op' = op
      BY <1>0, <1>1, <2>1 DEF HandleStart, RunInv, Reply
    <3>4. \A k \in Handler : op[k][r] \in Resting
      BY <1>0, <1>1, <2>1 DEF HandleStart, RunInv
    <3>5. QED BY <1>0, <2>1, <3>2, <3>3, <3>4 DEF RunInv, Resting
  <2>2. CASE q # r
    BY <1>0, <1>1, <2>2, OtherRuns DEF HandleStart
  <2>3. QED BY <2>1, <2>2
<1>2. ASSUME NEW r \in Run, CallFails(r)
      PROVE  RunInv(q)'
  <2>1. CASE q = r
    <3>1. reply[r] = "none" /\ r \notin routes
      BY <1>0, <1>2, <2>1 DEF CallFails, RunInv
    <3>2. \A k \in Handler : op[k][r] \in Resting
      BY <1>0, <2>1, <3>1 DEF RunInv
    <3>3. plan'[r] # <<>>
      BY <1>0, <1>2, <2>1 DEF CallFails, RunInv
    <3>4. /\ \/ start'[r] = "asking" /\ reply'[r] = "none"
             \/ start'[r] = "answered" /\ reply'[r] = "unavailable"
          /\ routes' = routes /\ op' = op
      BY <1>0, <1>2, <3>1 DEF CallFails
    <3>5. QED BY <1>0, <2>1, <3>1, <3>2, <3>3, <3>4 DEF RunInv, Resting
  <2>2. CASE q # r
    BY <1>0, <1>2, <2>2, OtherRuns DEF CallFails
  <2>3. QED BY <2>1, <2>2
<1>3. ASSUME NEW r \in Run, TakeRunning(r)
      PROVE  RunInv(q)'
  <2>1. CASE q = r
    <3>1. reply[r] = "none" /\ start'[r] = "routed" /\ r \in routes'
          /\ reply' = reply /\ op' = op /\ plan' = plan /\ job' = job
      BY <1>0, <1>3, <2>1 DEF TakeRunning, RunInv, runnerVars
    <3>2. job[Ref(r)][r] \in Started
      BY <1>3 DEF TakeRunning, Answer, Started, Over
    <3>3. \A k \in Handler : op[k][r] \in Resting
      BY <1>0, <2>1, <3>1 DEF RunInv
    <3>4. plan[r] # <<>>
      BY <1>0, <1>3, <2>1 DEF TakeRunning, RunInv
    <3>5. QED BY <1>0, <2>1, <3>1, <3>2, <3>3, <3>4 DEF RunInv, Resting, Ref
  <2>2. CASE q # r
    BY <1>0, <1>3, <2>2, OtherRuns DEF TakeRunning
  <2>3. QED BY <2>1, <2>2
<1>4. ASSUME NEW r \in Run, CountRoute(r)
      PROVE  RunInv(q)'
  <2>1. CASE q = r
    <3>1. /\ reply[r] = "none" /\ start'[r] = "answered" /\ reply'[r] = "running"
          /\ r \in routes /\ routes' = routes /\ op' = op /\ plan' = plan /\ job' = job
      BY <1>0, <1>4, <2>1 DEF CountRoute, RunInv, runnerVars
    <3>2. \A k \in Handler : op[k][r] \in Resting
      BY <1>0, <2>1, <3>1 DEF RunInv
    <3>3. QED BY <1>0, <1>4, <2>1, <3>1, <3>2 DEF RunInv, Resting, Ref, CountRoute
  <2>2. CASE q # r
    BY <1>0, <1>4, <2>2, OtherRuns DEF CountRoute
  <2>3. QED BY <2>1, <2>2
<1>5. ASSUME NEW r \in Run, PassBack(r)
      PROVE  RunInv(q)'
  <2>1. CASE q = r
    <3>1. /\ reply[r] = "none" /\ start'[r] = "answered"
          /\ reply'[r] \in {"busy", "failed"}
          /\ r \notin routes /\ routes' = routes /\ op' = op /\ plan' = plan
      BY <1>0, <1>5, <2>1 DEF PassBack, RunInv
    <3>2. \A k \in Handler : op[k][r] \in Resting
      BY <1>0, <2>1, <3>1 DEF RunInv
    <3>3. plan[r] # <<>>
      BY <1>0, <1>5, <2>1 DEF PassBack, RunInv
    <3>4. QED BY <1>0, <2>1, <3>1, <3>2, <3>3 DEF RunInv, Resting
  <2>2. CASE q # r
    BY <1>0, <1>5, <2>2, OtherRuns DEF PassBack
  <2>3. QED BY <2>1, <2>2
<1>6. ASSUME NEW k \in Handler, NEW r \in Run, Request(k, r)
      PROVE  RunInv(q)'
  <2>1. CASE q = r
    <3>1. "called" \in OpPhase
      BY DEF OpPhase
    <3>2. QED BY <1>6, <2>1, <3>1, HandlerKeepsRun DEF Request
  <2>2. CASE q # r
    <3>1. \A l \in Handler : op'[l][q] = op[l][q]
      BY <1>0, <1>6, <2>2 DEF Request, OpMoves
    <3>2. QED BY <1>6, <2>2, <3>1, OtherRuns DEF Request
  <2>3. QED BY <2>1, <2>2
<1>7. ASSUME NEW k \in Handler, NEW r \in Run, OpStep(k, r)
      PROVE  RunInv(q)'
  <2>1. PICK to \in OpPhase :
          /\ OpMoves(k, r, to)
          /\ to = "uncount" => r \notin routes' /\ r \in routes
          /\ k = "poll" /\ to = "drop" => OutputDone(Ref(r), r)
    <3>1. CASE LookupRoute(k, r)
      BY <3>1 DEF LookupRoute, OpPhase, Resting
    <3>2. CASE DropRoute(k, r)
      BY <3>2 DEF DropRoute, OpPhase, Resting, Outcome
    <3>3. CASE UncountRoute(k, r)
      BY <3>3 DEF UncountRoute, OpPhase, Resting, Outcome
    <3>4. CASE k = "poll" /\ (AskOutput(r) \/ OutputUnreachable(r))
      BY <3>4 DEF AskOutput, OutputUnreachable, OpPhase, Resting
    <3>5. CASE k = "kill" /\ (AskKill(r) \/ KillUnreachable(r))
      BY <3>5 DEF AskKill, KillUnreachable, OpPhase, Resting
    <3>6. QED BY <1>7, <3>1, <3>2, <3>3, <3>4, <3>5 DEF OpStep
  <2>2. /\ start' = start /\ plan' = plan /\ reply' = reply
        /\ \A x \in Run : x \in routes' => x \in routes
        /\ \A x \in Run : x # r => (x \in routes' <=> x \in routes)
        /\ op[k][r] \notin Resting
    BY <1>7 DEF OpStep, LookupRoute, DropRoute, UncountRoute, AskOutput,
                OutputUnreachable, AskKill, KillUnreachable, Resting
  <2>3. CASE q = r
    <3>1. reply[r] = "running" /\ job[Ref(r)][r] \in Started
      BY <1>0, <2>2, <2>3 DEF RunInv
    <3>2. OutputDone(Ref(r), r) => job[Ref(r)][r] \in Over
      BY <3>1 DEF OutputDone, Started
    <3>3. QED BY <2>1, <2>2, <2>3, <3>1, <3>2, HandlerKeepsRun
  <2>4. CASE q # r
    <3>1. \A l \in Handler : op'[l][q] = op[l][q]
      BY <1>0, <2>1, <2>4 DEF OpMoves
    <3>2. QED BY <2>2, <2>4, <3>1, OtherRuns
  <2>5. QED BY <2>3, <2>4
<1>8. CASE \/ RunnerAlone
           \/ \E h \in Host : StatusChanges(h)
           \/ \E r \in Run : CallArrives(r)
           \/ UNCHANGED execVars
  BY <1>8, OtherRuns DEF RunnerAlone, StatusChanges, CallArrives, gatewayVars, execVars
<1>9. QED
  BY <1>1, <1>2, <1>3, <1>4, <1>5, <1>6, <1>7, <1>8
     DEF ExecNext, ServerStep, ClientRequest, StartCallReturns


-----------------------------------------------------------------------------

(* The initial state satisfies the inductive invariant.                    *)
LEMMA ExecInvInit ==
  ASSUME ExecInit
  PROVE  ExecInv
<1>1. RunnerTypeOK
  BY RunnerAssumption DEF ExecInit, RunnerInit, RunnerTypeOK, RunnerAssumption, Phase
<1>2. GatewayTypeOK
  BY DEF ExecInit, GatewayInit, GatewayTypeOK, StartPhase, Reply, OpPhase, Resting
<1>3. RouteInv
  BY DEF ExecInit, GatewayInit, RouteInv, RunInv, Resting, Handler
<1>4. QED BY <1>1, <1>2, <1>3 DEF ExecInv

(* Every step keeps the inductive invariant.                               *)
LEMMA ExecInvStep ==
  ASSUME ExecInv, [ExecNext]_execVars
  PROVE  ExecInv'
<1>1. RunnerTypeOK'
  BY StepDrivesRunners, RunnerTypeStep DEF ExecInv
<1>2. QED BY <1>1, GatewayTypeStep, RouteInvStep DEF ExecInv

(* The inductive invariant holds in every reachable state.                 *)
LEMMA ExecInvariant == ExecSpec => []ExecInv
<1>1. ExecInit => ExecInv
  BY ExecInvInit
<1>2. ExecInv /\ [ExecNext]_execVars => ExecInv'
  BY ExecInvStep
<1>3. QED BY <1>1, <1>2, PTL DEF ExecSpec

(* The gateway's variables always hold values of their types.              *)
THEOREM GatewayTypeCorrect == ExecSpec => []GatewayTypeOK
<1>1. ExecInv => GatewayTypeOK
  BY DEF ExecInv
<1>2. QED BY <1>1, ExecInvariant, PTL

(* The gateway drives the runners only through their endpoints: with it    *)
(* around them they still behave as RunnerExec says (run.go calls nothing  *)
(* but /exec/start, /exec/output and /exec/kill on them).                  *)
THEOREM GatewayDrivesRunners == ExecSpec => DrivesRunners
<1>1. ExecInit => RunnerInit
  BY DEF ExecInit
<1>2. ExecInv /\ [ExecNext]_execVars => [RunnerNext]_runnerVars
  BY StepDrivesRunners
<1>3. QED BY <1>1, <1>2, ExecInvariant, PTL DEF ExecSpec, DrivesRunners, RunnerSpec

(* So what holds of the runners alone holds of the runners behind the      *)
(* gateway: slots are conserved and the counter of /health never drifts.   *)
THEOREM SlotsConservedInSystem == ExecSpec => [](SlotAccounting /\ BusyAccounting)
BY GatewayDrivesRunners, SlotsConserved, BusyNeverDrifts, PTL DEF DrivesRunners

(* A route leads to the session the run's own start call created, or to a  *)
(* runner that has restarted since (run.go:147-150 stores the route of the *)
(* runner that answered running).                                          *)
THEOREM RoutesAreOurs == ExecSpec => []RouteIsOurs
<1>1. ASSUME ExecInv
      PROVE  RouteIsOurs
  <2> SUFFICES ASSUME NEW r \in routes
               PROVE  /\ plan[r] # <<>>
                      /\ Answer(Ref(r), r) = "running" \/ job[Ref(r)][r] = "lost"
    BY DEF RouteIsOurs
  <2>1. r \in Run /\ RunInv(r)
    BY <1>1 DEF ExecInv, RouteInv, GatewayTypeOK
  <2>2. plan[r] # <<>> /\ job[Ref(r)][r] \in Started
    BY <2>1 DEF RunInv
  <2>3. job[Ref(r)][r] # "lost" => Answer(Ref(r), r) = "running"
    BY <2>2 DEF Started, Over, Answer
  <2>4. QED BY <2>2, <2>3
<1>2. QED BY <1>1, ExecInvariant, PTL

(* A route is dropped only for a run whose session is over, or after a     *)
(* kill: the two callers of dropRoute.                                     *)
THEOREM RoutesKept == ExecSpec => RouteKeptWhileRunning
<1>1. ASSUME ExecInv, [ExecNext]_execVars, NEW r \in Run, r \in routes, r \notin routes'
      PROVE  OutputDone(Ref(r), r) \/ op["kill"][r] = "drop"
  <2>1. PICK k \in Handler : op[k][r] = "drop"
    <3>1. PICK k \in Handler, q \in Run : DropRoute(k, q)
      BY <1>1 DEF ExecNext, ServerStep, ClientRequest, RunnerAlone, StatusChanges,
             CallArrives, StartCallReturns, TakeRunning, PassBack, CallFails,
             CountRoute, OpStep, LookupRoute, UncountRoute, AskOutput,
             OutputUnreachable, AskKill, KillUnreachable, HandleStart, Request,
             execVars, gatewayVars
    <3>2. q = r
      BY <1>1, <3>1 DEF DropRoute
    <3>3. QED BY <3>1, <3>2 DEF DropRoute
  <2>2. CASE k = "poll"
    <3>1. job[Ref(r)][r] \in Over
      BY <1>1, <2>1, <2>2 DEF ExecInv, RouteInv, RunInv
    <3>2. QED BY <3>1 DEF Over, OutputDone
  <2>3. QED BY <2>1, <2>2 DEF Handler
<1>2. ExecInv /\ [ExecNext]_execVars
        => [\A r \in Run : r \in routes /\ r \notin routes'
              => OutputDone(Ref(r), r) \/ op["kill"][r] = "drop"]_execVars
  BY <1>1
<1>3. QED BY <1>2, ExecInvariant, PTL DEF ExecSpec, RouteKeptWhileRunning

-----------------------------------------------------------------------------

(* The step that answers a routed run adds it to the loaded runs of its    *)
(* host and raises that host's load.                                       *)
LEMMA CountRouteLoads ==
  ASSUME ExecInv, LoadAccounting, NEW r \in Run, CountRoute(r)
  PROVE  LoadAccounting'
<1>1. start[r] = "routed" /\ r \in routes /\ plan[r] # <<>>
  BY DEF CountRoute, ExecInv, RouteInv, RunInv
<1>2. Ref(r) \in Host
  BY <1>1, RefType DEF ExecInv
<1>3. start' = [start EXCEPT ![r] = "answered"] /\ start \in [Run -> StartPhase]
  BY DEF CountRoute, ExecInv, GatewayTypeOK
<1>4. /\ plan' = plan /\ routes' = routes /\ op' = op
      /\ \A q \in Run : Ref(q)' = Ref(q)
  BY DEF CountRoute, Ref
<1>5. \A h \in Host : r \notin LoadedBy(h)
  BY <1>1 DEF LoadedBy
<1>6. \A h \in Host : LoadedBy(h)' = IF h = Ref(r) THEN LoadedBy(h) \cup {r}
                                     ELSE LoadedBy(h)
  BY <1>1, <1>3, <1>4 DEF LoadedBy
<1>7. \A h \in Host : load'[h] = IF h = Ref(r) THEN load[h] + 1 ELSE load[h]
  BY <1>2, LoadStepType DEF CountRoute, ExecInv, GatewayTypeOK
<1>8. SUFFICES ASSUME NEW h \in Host
               PROVE  IsFiniteSet(LoadedBy(h)') /\ load'[h] = Cardinality(LoadedBy(h)')
  BY DEF LoadAccounting, Cardinality, Pool!Cardinality
<1>9. IsFiniteSet(LoadedBy(h)) /\ load[h] = Cardinality(LoadedBy(h))
  BY DEF LoadAccounting
<1>10. /\ IsFiniteSet(LoadedBy(h) \cup {r})
       /\ Cardinality(LoadedBy(h) \cup {r}) = load[h] + 1
  BY <1>5, <1>9, FS_AddElement
<1>11. QED BY <1>6, <1>7, <1>9, <1>10

(* The handler that deleted the route takes the run out of the loaded runs *)
(* and lowers the load, which is at least 1.                               *)
LEMMA UncountRouteUnloads ==
  ASSUME ExecInv, LoadAccounting, NEW k \in Handler, NEW r \in Run, UncountRoute(k, r)
  PROVE  LoadAccounting'
<1>1. /\ op[k][r] = "uncount" /\ r \notin routes /\ plan[r] # <<>>
      /\ start[r] = "answered" /\ RunInv(r)
  BY DEF UncountRoute, ExecInv, RouteInv, RunInv, Resting
<1>2. Ref(r) \in Host
  BY <1>1, RefType DEF ExecInv
<1>3. /\ start' = start /\ plan' = plan /\ routes' = routes
      /\ \A q \in Run : Ref(q)' = Ref(q)
  BY DEF UncountRoute, Ref
<1>4. \A l \in Handler, q \in Run :
        op'[l][q] = IF l = k /\ q = r THEN Outcome(k) ELSE op[l][q]
  BY OpStepType DEF UncountRoute, ExecInv, OpPhase, Resting, Outcome
<1>5. \A l \in Handler : op'[l][r] # "uncount"
  BY <1>1, <1>4 DEF RunInv, Handler, Outcome
<1>6. \A h \in Host : LoadedBy(h)' = LoadedBy(h) \ {r}
  BY <1>1, <1>3, <1>4, <1>5 DEF LoadedBy
<1>7. \A h \in Host : r \in LoadedBy(h) <=> h = Ref(r)
  BY <1>1 DEF LoadedBy
<1>8. \A h \in Host : load'[h] = IF h # Ref(r) THEN load[h]
                                 ELSE IF load[h] + (-1) < 0 THEN 0 ELSE load[h] + (-1)
  BY <1>2, LoadStepType DEF UncountRoute, ExecInv
<1>9. SUFFICES ASSUME NEW h \in Host
               PROVE  IsFiniteSet(LoadedBy(h)') /\ load'[h] = Cardinality(LoadedBy(h)')
  BY DEF LoadAccounting, Cardinality, Pool!Cardinality
<1>10. /\ IsFiniteSet(LoadedBy(h)) /\ load[h] = Cardinality(LoadedBy(h))
       /\ load[h] \in Nat
  BY DEF LoadAccounting, ExecInv, GatewayTypeOK
<1>11. /\ IsFiniteSet(LoadedBy(h) \ {r})
       /\ Cardinality(LoadedBy(h) \ {r}) =
            IF r \in LoadedBy(h) THEN load[h] - 1 ELSE load[h]
       /\ Cardinality(LoadedBy(h) \ {r}) \in Nat
  BY <1>10, FS_RemoveElement, FS_CardinalityType
<1>12. load'[h] = IF r \in LoadedBy(h) THEN load[h] - 1 ELSE load[h]
  <2>1. CASE r \in LoadedBy(h)
    <3>1. load[h] - 1 \in Nat
      BY <1>11, <2>1
    <3>2. h = Ref(r)
      BY <1>7, <2>1
    <3>3. QED BY <1>8, <1>10, <2>1, <3>1, <3>2
  <2>2. CASE r \notin LoadedBy(h)
    BY <1>7, <1>8, <2>2
  <2>3. QED BY <2>1, <2>2
<1>13. LoadedBy(h)' = LoadedBy(h) \ {r}
  BY <1>6
<1>14. QED BY <1>11, <1>12, <1>13

(* Any other step leaves the loads and the loaded runs as they are: a      *)
(* dropped route counts until its handler has lowered the load.            *)
LEMMA OtherStepsKeepLoads ==
  ASSUME ExecInv, LoadAccounting, load' = load, NEW r \in Run,
         \A q \in Run \ {r} :
           /\ start'[q] = start[q] /\ plan'[q] = plan[q]
           /\ q \in routes' <=> q \in routes
           /\ \A k \in Handler : op'[k][q] = op[k][q],
         \A h \in Host : r \in LoadedBy(h)' <=> r \in LoadedBy(h)
  PROVE  LoadAccounting'
<1>1. \A q \in Run \ {r} : Ref(q)' = Ref(q)
  BY DEF Ref
<1>2. \A h \in Host : LoadedBy(h)' = LoadedBy(h)
  BY <1>1 DEF LoadedBy
<1>3. SUFFICES ASSUME NEW h \in Host
               PROVE  IsFiniteSet(LoadedBy(h)') /\ load'[h] = Cardinality(LoadedBy(h)')
  BY DEF LoadAccounting, Cardinality, Pool!Cardinality
<1>4. IsFiniteSet(LoadedBy(h)) /\ load[h] = Cardinality(LoadedBy(h))
  BY DEF LoadAccounting
<1>5. LoadedBy(h)' = LoadedBy(h)
  BY <1>2
<1>6. QED BY <1>4, <1>5

(* runLoad stays the number of routes per host under every step.           *)
LEMMA LoadStep ==
  ASSUME ExecInv, LoadAccounting, [ExecNext]_execVars
  PROVE  LoadAccounting'
<1>0. /\ start \in [Run -> StartPhase] /\ plan \in [Run -> Seq(Host)]
      /\ routes \in SUBSET Run /\ op \in [Handler -> [Run -> OpPhase]]
      /\ "poll" \in Handler /\ "kill" \in Handler
      /\ \A r \in Run : RunInv(r)
  BY DEF ExecInv, RouteInv, GatewayTypeOK, Handler
<1>1. ASSUME NEW r \in Run, CountRoute(r)
      PROVE  LoadAccounting'
  BY <1>1, CountRouteLoads
<1>2. ASSUME NEW k \in Handler, NEW r \in Run, UncountRoute(k, r)
      PROVE  LoadAccounting'
  BY <1>2, UncountRouteUnloads
<1>3. ASSUME NEW r \in Run, HandleStart(r) \/ TakeRunning(r)
      PROVE  LoadAccounting'
  <2>1. start[r] # "answered" /\ start'[r] # "answered"
    BY <1>0, <1>3 DEF HandleStart, TakeRunning
  <2>2. \A h \in Host : r \notin LoadedBy(h) /\ r \notin LoadedBy(h)'
    BY <2>1 DEF LoadedBy
  <2>3. load' = load /\ \A q \in Run \ {r} :
           /\ start'[q] = start[q] /\ plan'[q] = plan[q]
           /\ q \in routes' <=> q \in routes
           /\ \A k \in Handler : op'[k][q] = op[k][q]
    BY <1>0, <1>3 DEF HandleStart, TakeRunning
  <2>4. QED BY <2>2, <2>3, OtherStepsKeepLoads
<1>4. ASSUME NEW r \in Run, CallFails(r) \/ PassBack(r)
      PROVE  LoadAccounting'
  <2>1. start[r] = "asking" /\ routes' = routes /\ op' = op /\ load' = load
    BY <1>4 DEF CallFails, PassBack
  <2>2. r \notin routes /\ \A k \in Handler : op[k][r] # "uncount"
    BY <1>0, <2>1 DEF RunInv, Resting
  <2>3. \A h \in Host : r \notin LoadedBy(h) /\ r \notin LoadedBy(h)'
    BY <2>1, <2>2 DEF LoadedBy
  <2>4. \A q \in Run \ {r} : start'[q] = start[q] /\ plan'[q] = plan[q]
    <3>1. CASE CallFails(r)
      BY <1>0, <3>1 DEF CallFails
    <3>2. CASE PassBack(r)
      BY <1>0, <3>2 DEF PassBack
    <3>3. QED BY <1>4, <3>1, <3>2
  <2>5. QED BY <2>1, <2>3, <2>4, OtherStepsKeepLoads
<1>5. ASSUME NEW k \in Handler, NEW r \in Run,
             Request(k, r) \/ (OpStep(k, r) /\ ~UncountRoute(k, r))
      PROVE  LoadAccounting'
  <2>1. start' = start /\ plan' = plan /\ load' = load /\ Ref(r)' = Ref(r)
    BY <1>5 DEF Request, OpStep, LookupRoute, DropRoute, AskOutput,
                OutputUnreachable, AskKill, KillUnreachable, Ref
  <2>2. PICK to \in OpPhase :
          /\ OpMoves(k, r, to)
          /\ op[k][r] # "uncount"
          /\ \/ to # "uncount" /\ routes' = routes
             \/ r \in routes /\ to = "uncount" /\ routes' = routes \ {r}
             \/ r \notin routes /\ to # "uncount" /\ routes' = routes \ {r}
    <3>1. CASE Request(k, r) \/ LookupRoute(k, r)
      BY <3>1 DEF Request, LookupRoute, OpPhase, Resting
    <3>2. CASE DropRoute(k, r)
      BY <3>2 DEF DropRoute, OpPhase, Resting, Outcome
    <3>3. CASE k = "poll" /\ (AskOutput(r) \/ OutputUnreachable(r))
      BY <3>3 DEF AskOutput, OutputUnreachable, OpPhase, Resting
    <3>4. CASE k = "kill" /\ (AskKill(r) \/ KillUnreachable(r))
      BY <3>4 DEF AskKill, KillUnreachable, OpPhase, Resting
    <3>5. QED BY <1>5, <3>1, <3>2, <3>3, <3>4 DEF OpStep
  <2>3. \A l \in Handler, q \in Run :
          op'[l][q] = IF l = k /\ q = r THEN to ELSE op[l][q]
    BY <2>2, OpStepType DEF ExecInv
  <2>4. \A h \in Host : r \in LoadedBy(h)' <=> r \in LoadedBy(h)
    BY <2>1, <2>2, <2>3 DEF LoadedBy
  <2>5. \A q \in Run \ {r} :
           /\ start'[q] = start[q] /\ plan'[q] = plan[q]
           /\ q \in routes' <=> q \in routes
           /\ \A l \in Handler : op'[l][q] = op[l][q]
    BY <2>1, <2>2, <2>3
  <2>6. QED BY <2>1, <2>4, <2>5, OtherStepsKeepLoads
<1>6. CASE \/ RunnerAlone
           \/ \E h \in Host : StatusChanges(h)
           \/ \E r \in Run : CallArrives(r)
           \/ UNCHANGED execVars
  <2>1. /\ start' = start /\ plan' = plan /\ routes' = routes /\ op' = op
        /\ load' = load /\ \A q \in Run : Ref(q)' = Ref(q)
    BY <1>6 DEF RunnerAlone, StatusChanges, CallArrives, gatewayVars, execVars, Ref
  <2>2. \A h \in Host : LoadedBy(h)' = LoadedBy(h)
    BY <2>1 DEF LoadedBy
  <2>3. SUFFICES ASSUME NEW h \in Host
               PROVE  IsFiniteSet(LoadedBy(h)') /\ load'[h] = Cardinality(LoadedBy(h)')
    BY DEF LoadAccounting, Cardinality, Pool!Cardinality
  <2>4. IsFiniteSet(LoadedBy(h)) /\ load[h] = Cardinality(LoadedBy(h))
    BY DEF LoadAccounting
  <2>5. QED BY <2>1, <2>2, <2>4
<1>7. QED
  BY <1>1, <1>2, <1>3, <1>4, <1>5, <1>6
     DEF ExecNext, ServerStep, ClientRequest, StartCallReturns

(* runLoad is the number of routes per host, less the starts not counted   *)
(* yet and plus the drops not uncounted yet, in every reachable state,     *)
(* however polls, kills and starts interleave between the two locks of     *)
(* run.go (execRoutesMu and runLoadMu).                                    *)
THEOREM LoadConserved == ExecSpec => []LoadAccounting
<1>1. ExecInit => LoadAccounting
  <2> SUFFICES ASSUME ExecInit, NEW h \in Host
               PROVE  IsFiniteSet(LoadedBy(h)) /\ load[h] = Cardinality(LoadedBy(h))
    BY DEF LoadAccounting, Cardinality, Pool!Cardinality
  <2>1. LoadedBy(h) = {}
    BY DEF LoadedBy, ExecInit, GatewayInit
  <2>2. load[h] = 0
    BY DEF ExecInit, GatewayInit
  <2>3. QED BY <2>1, <2>2, FS_EmptySet
<1>2. ExecInv /\ LoadAccounting /\ [ExecNext]_execVars => LoadAccounting'
  BY LoadStep
<1>3. QED BY <1>1, <1>2, ExecInvariant, PTL DEF ExecSpec

-----------------------------------------------------------------------------
(* The editor's terminal.                                                  *)

(* How far the terminal and the gateway can be apart about one run: while  *)
(* its start is unanswered nothing else was sent for it; the terminal is   *)
(* attached only to a run that was given out and that nobody is killing.   *)
RequestInv(r) ==
  /\ <<"start", r>> \in awaiting =>
       /\ execRun # r
       /\ <<"poll", r>> \notin awaiting
       /\ \A k \in Handler : <<k, r>> \notin sent /\ op[k][r] \in Resting
  /\ execRun = r =>
       /\ reply[r] = "running"
       /\ <<"kill", r>> \notin sent /\ op["kill"][r] \in Resting
  /\ <<"poll", r>> \in awaiting => reply[r] = "running"
  /\ \A k \in Handler :
       <<k, r>> \in sent => reply[r] = "running" /\ op[k][r] \in Resting

PageTypeOK ==
  /\ execRun \in Run \cup {NoRun}
  /\ sent \in SUBSET (Kind \X Run)
  /\ awaiting \in SUBSET ({"start", "poll"} \X Run)
  /\ lost \in SUBSET (Kind \X Run)
  /\ told \in BOOLEAN
  /\ pageOpen \in BOOLEAN

TerminalInv == ExecInv /\ PageTypeOK /\ \A r \in Run : RequestInv(r)

-----------------------------------------------------------------------------

(* Whatever the terminal does, gateway and runners see a step of a client  *)
(* that ExecGateway allows, or none.                                       *)
LEMMA StepIsExecStep == [TerminalNext]_allVars => [ExecNext]_execVars
<1> SUFFICES ASSUME [TerminalNext]_allVars PROVE [ExecNext]_execVars
  OBVIOUS
<1>1. ASSUME NEW kind \in Kind, NEW r \in Run, Arrives(kind, r)
      PROVE  ExecNext
  BY <1>1 DEF Arrives, ExecNext, ClientRequest
<1>2. ASSUME NEW r \in Run, TerminalStep(r)
      PROVE  UNCHANGED execVars
  BY <1>2 DEF TerminalStep, PressRun, StartReplied, PollReplied, StartRejected, PollRejected
<1>3. CASE PressStop \/ ClosePage
  BY <1>3 DEF PressStop, ClosePage
<1>4. CASE ServerStep /\ UNCHANGED terminalVars
  BY <1>4 DEF ExecNext
<1>5. CASE UNCHANGED allVars
  BY <1>5 DEF allVars, execVars
<1>6. ASSUME NEW kind \in Kind, NEW r \in Run, Loses(kind, r)
      PROVE  UNCHANGED execVars
  BY <1>6 DEF Loses
<1>7. QED BY <1>1, <1>2, <1>3, <1>4, <1>5, <1>6 DEF TerminalNext

(* The page's variables keep their types.                                  *)
LEMMA PageTypeStep ==
  ASSUME PageTypeOK, [TerminalNext]_allVars
  PROVE  PageTypeOK'
<1>1. ASSUME NEW r \in Run, PressRun(r)
      PROVE  PageTypeOK'
  <2>1. told' \in BOOLEAN
    BY <1>1 DEF PressRun, PageTypeOK
  <2>2. QED BY <1>1, <2>1 DEF PressRun, PageTypeOK, KillOfAttached, Kind
<1>2. CASE PressStop
  <2>1. told' \in BOOLEAN
    BY <1>2 DEF PressStop, PageTypeOK
  <2>2. QED BY <1>2, <2>1 DEF PressStop, PageTypeOK, KillOfAttached, Kind
<1>3. ASSUME NEW r \in Run, StartReplied(r)
      PROVE  PageTypeOK'
  <2>1. told' \in BOOLEAN
    BY <1>3 DEF StartReplied, PageTypeOK
  <2>2. QED BY <1>3, <2>1 DEF StartReplied, PageTypeOK, Kind
<1>4. ASSUME NEW r \in Run, PollReplied(r)
      PROVE  PageTypeOK'
  BY <1>4 DEF PollReplied, PageTypeOK, Kind
<1>5. CASE ClosePage
  BY <1>5 DEF ClosePage, PageTypeOK
<1>6. ASSUME NEW kind \in Kind, NEW r \in Run, Arrives(kind, r)
      PROVE  PageTypeOK'
  BY <1>6 DEF Arrives, PageTypeOK
<1>7. CASE UNCHANGED terminalVars
  BY <1>7 DEF terminalVars, PageTypeOK
<1>8. ASSUME NEW kind \in Kind, NEW r \in Run, Loses(kind, r)
      PROVE  PageTypeOK'
  BY <1>8 DEF Loses, PageTypeOK
<1>9. ASSUME NEW r \in Run, StartRejected(r) \/ PollRejected(r)
      PROVE  PageTypeOK'
  BY <1>9 DEF StartRejected, PollRejected, PageTypeOK
<1>10. QED
  BY <1>1, <1>2, <1>3, <1>4, <1>5, <1>6, <1>7, <1>8, <1>9
     DEF TerminalNext, TerminalStep, allVars, terminalVars

(* What gateway and runners do by themselves: an answer that was given     *)
(* stays, and only a handler that works on a run moves.                    *)
LEMMA ServerKeepsRequests ==
  ASSUME ExecInv, ServerStep, NEW r \in Run
  PROVE  /\ reply[r] = "running" => reply'[r] = "running"
         /\ \A k \in Handler : op[k][r] \in Resting => op'[k][r] \in Resting
<1>0. /\ RunInv(r)
      /\ reply \in [Run -> Reply] /\ op \in [Handler -> [Run -> OpPhase]]
  BY DEF ExecInv, RouteInv, GatewayTypeOK
<1>1. CASE RunnerAlone
  BY <1>1 DEF RunnerAlone, gatewayVars
<1>2. ASSUME NEW h \in Host, StatusChanges(h)
      PROVE  reply' = reply /\ op' = op
  BY <1>2 DEF StatusChanges
<1>3. ASSUME NEW q \in Run,
             CallArrives(q) \/ StartCallReturns(q) \/ CountRoute(q)
      PROVE  /\ reply[r] = "running" => reply'[r] = "running"
             /\ op' = op
  <2>1. CASE q = r
    <3>1. start[r] # "answered" /\ reply[r] = "none"
      BY <1>0, <1>3, <2>1 DEF CallArrives, StartCallReturns, TakeRunning,
                              PassBack, CallFails, CountRoute, RunInv
    <3>2. op' = op
      BY <1>3 DEF CallArrives, StartCallReturns, TakeRunning, PassBack,
                  CallFails, CountRoute, gatewayVars
    <3>3. QED BY <3>1, <3>2
  <2>2. CASE q # r
    BY <1>0, <1>3, <2>2 DEF CallArrives, StartCallReturns, TakeRunning,
                            PassBack, CallFails, CountRoute, gatewayVars
  <2>3. QED BY <2>1, <2>2
<1>4. ASSUME NEW k \in Handler, NEW q \in Run, OpStep(k, q)
      PROVE  /\ reply' = reply
             /\ \A l \in Handler : op[l][r] \in Resting => op'[l][r] \in Resting
  <2>1. reply' = reply /\ op[k][q] \notin Resting
    BY <1>4 DEF OpStep, LookupRoute, DropRoute, UncountRoute, AskOutput,
                OutputUnreachable, AskKill, KillUnreachable, Resting
  <2>2. PICK to : OpMoves(k, q, to)
    BY <1>4 DEF OpStep, LookupRoute, DropRoute, UncountRoute, AskOutput,
                OutputUnreachable, AskKill, KillUnreachable
  <2>3. QED BY <1>0, <2>1, <2>2 DEF OpMoves
<1>5. QED BY <1>1, <1>2, <1>3, <1>4 DEF ServerStep

(* Every step keeps the invariant of every run: one case per action, the   *)
(* run it is about and the others.                                         *)
LEMMA RequestInvStep ==
  ASSUME TerminalInv, [TerminalNext]_allVars, NEW q \in Run
  PROVE  RequestInv(q)'
<1>0. /\ RequestInv(q) /\ RunInv(q) /\ PageTypeOK
      /\ NoRun # q
      /\ op \in [Handler -> [Run -> OpPhase]]
      /\ "poll" \in Handler /\ "kill" \in Handler
      /\ \A k \in Handler : k # "start"
  BY NoRunAssumption
     DEF TerminalInv, ExecInv, RouteInv, GatewayTypeOK, Handler
<1>1. ASSUME NEW r \in Run, PressRun(r)
      PROVE  RequestInv(q)'
  <2>1. op' = op /\ reply' = reply /\ execRun' # q
    BY <1>0, <1>1 DEF PressRun, execVars
  <2>2. \A k \in Handler :
          <<k, q>> \in sent' <=> \/ <<k, q>> \in sent
                                 \/ k = "kill" /\ execRun = q
    BY <1>0, <1>1 DEF PressRun, KillOfAttached
  <2>3. /\ <<"poll", q>> \in awaiting' <=> <<"poll", q>> \in awaiting
        /\ <<"start", q>> \in awaiting' <=> <<"start", q>> \in awaiting \/ q = r
    BY <1>1 DEF PressRun
  <2>4. CASE q = r
    <3>1. reply[q] = "none"
      BY <1>0, <1>1, <2>4 DEF PressRun, Untouched, RunInv
    <3>2. /\ execRun # q /\ <<"poll", q>> \notin awaiting
          /\ \A k \in Handler : <<k, q>> \notin sent /\ op[k][q] \in Resting
      BY <1>0, <3>1 DEF RequestInv, RunInv
    <3>3. QED BY <2>1, <2>2, <2>3, <3>2 DEF RequestInv
  <2>5. CASE q # r
    BY <1>0, <2>1, <2>2, <2>3, <2>5 DEF RequestInv
  <2>6. QED BY <2>4, <2>5
<1>2. CASE PressStop
  <2>1. op' = op /\ reply' = reply /\ execRun' # q /\ awaiting' = awaiting
    BY <1>0, <1>2 DEF PressStop, execVars
  <2>2. \A k \in Handler :
          <<k, q>> \in sent' <=> \/ <<k, q>> \in sent
                                 \/ k = "kill" /\ execRun = q
    BY <1>0, <1>2 DEF PressStop, KillOfAttached
  <2>3. QED BY <1>0, <2>1, <2>2 DEF RequestInv
<1>3. ASSUME NEW r \in Run, StartReplied(r)
      PROVE  RequestInv(q)'
  <2>1. op' = op /\ reply' = reply
    BY <1>3 DEF StartReplied, execVars
  <2>2. CASE q = r
    <3>1. /\ <<"start", q>> \notin awaiting'
          /\ <<"poll", q>> \in awaiting' => reply[q] = "running"
          /\ execRun' = q => reply[q] = "running"
          /\ \A k \in Handler :
               <<k, q>> \in sent' => k = "poll" /\ reply[q] = "running"
      BY <1>0, <1>3, <2>2 DEF StartReplied, RequestInv
    <3>2. \A k \in Handler : op[k][q] \in Resting
      BY <1>0, <1>3, <2>2 DEF StartReplied, RequestInv
    <3>3. QED BY <1>0, <2>1, <3>1, <3>2 DEF RequestInv
  <2>3. CASE q # r
    <3>1. /\ \A k \in Handler : <<k, q>> \in sent' <=> <<k, q>> \in sent
          /\ \A k \in {"start", "poll"} : <<k, q>> \in awaiting' <=> <<k, q>> \in awaiting
          /\ execRun' = q => execRun = q
      BY <1>3, <2>3 DEF StartReplied
    <3>2. QED BY <1>0, <2>1, <3>1 DEF RequestInv
  <2>4. QED BY <2>2, <2>3
<1>4. ASSUME NEW r \in Run, PollReplied(r)
      PROVE  RequestInv(q)'
  <2>1. op' = op /\ reply' = reply
    BY <1>4 DEF PollReplied, execVars
  <2>2. /\ <<"kill", q>> \in sent' <=> <<"kill", q>> \in sent
        /\ <<"start", q>> \in awaiting' <=> <<"start", q>> \in awaiting
        /\ <<"poll", q>> \in awaiting' => <<"poll", q>> \in awaiting
        /\ execRun' = q => execRun = q
    BY <1>0, <1>4 DEF PollReplied
  <2>3. <<"poll", q>> \in sent' =>
          \/ <<"poll", q>> \in sent
          \/ q = r /\ <<"poll", q>> \in awaiting /\ op["poll"][q] \in Resting
    BY <1>4 DEF PollReplied
  <2>4. \A k \in Handler : k = "poll" \/ k = "kill"
    BY DEF Handler
  <2>5. QED BY <1>0, <2>1, <2>2, <2>3, <2>4 DEF RequestInv
<1>5. CASE ClosePage
  <2>1. op' = op /\ reply' = reply /\ execRun' # q /\ awaiting' = {} /\ sent' = sent
    BY <1>0, <1>5 DEF ClosePage, execVars
  <2>2. QED BY <1>0, <2>1 DEF RequestInv
<1>6. ASSUME NEW kind \in Kind, NEW r \in Run, Arrives(kind, r)
      PROVE  RequestInv(q)'
  <2>1. /\ execRun' = execRun /\ awaiting' = awaiting
        /\ sent' = sent \ {<<kind, r>>} /\ <<kind, r>> \in sent
        /\ reply' = reply
    BY <1>6 DEF Arrives, HandleStart, Request
  <2>2. CASE kind = "start"
    <3>1. op' = op
      BY <1>6, <2>2 DEF Arrives, HandleStart, Handler
    <3>2. \A k \in Handler : <<k, q>> \in sent' <=> <<k, q>> \in sent
      BY <1>0, <2>1, <2>2
    <3>3. QED BY <1>0, <2>1, <3>1, <3>2 DEF RequestInv
  <2>3. CASE kind \in Handler
    <3>1. OpMoves(kind, r, "called")
      BY <1>0, <1>6, <2>3 DEF Arrives, Request
    <3>2. \A k \in Handler : k # kind \/ q # r => op'[k][q] = op[k][q]
      BY <1>0, <3>1 DEF OpMoves
    <3>3. CASE q = r
      <4>1. /\ <<"start", q>> \notin awaiting
            /\ <<kind, q>> \notin sent'
            /\ kind = "kill" => execRun # q
        BY <1>0, <2>1, <2>3, <3>3 DEF RequestInv
      <4>2. \A k \in Handler : k # kind => (<<k, q>> \in sent' <=> <<k, q>> \in sent)
        BY <2>1
      <4>3. <<"kill", q>> \in sent' => <<"kill", q>> \in sent
        BY <2>1
      <4>4. QED BY <1>0, <2>1, <3>2, <4>1, <4>2, <4>3 DEF RequestInv
    <3>4. CASE q # r
      <4>1. \A k \in Handler : <<k, q>> \in sent' <=> <<k, q>> \in sent
        BY <2>1, <3>4
      <4>2. QED BY <1>0, <2>1, <3>2, <3>4, <4>1 DEF RequestInv
    <3>5. QED BY <3>3, <3>4
  <2>4. QED BY <2>2, <2>3 DEF Kind, Handler
<1>7. CASE ServerStep /\ UNCHANGED terminalVars
  <2>1. execRun' = execRun /\ sent' = sent /\ awaiting' = awaiting
    BY <1>7 DEF terminalVars
  <2>2. /\ reply[q] = "running" => reply'[q] = "running"
        /\ \A k \in Handler : op[k][q] \in Resting => op'[k][q] \in Resting
    BY <1>7, ServerKeepsRequests DEF TerminalInv
  <2>3. QED BY <1>0, <2>1, <2>2 DEF RequestInv
<1>8. CASE UNCHANGED allVars
  BY <1>0, <1>8 DEF allVars, RequestInv
<1>9. ASSUME NEW kind \in Kind, NEW r \in Run, Loses(kind, r)
      PROVE  RequestInv(q)'
  <2>1. /\ op' = op /\ reply' = reply /\ execRun' = execRun /\ awaiting' = awaiting
        /\ sent' \subseteq sent
    BY <1>9 DEF Loses, execVars
  <2>2. QED BY <1>0, <2>1 DEF RequestInv
<1>10. ASSUME NEW r \in Run, StartRejected(r) \/ PollRejected(r)
       PROVE  RequestInv(q)'
  <2>1. /\ op' = op /\ reply' = reply /\ execRun' = execRun /\ sent' = sent
        /\ awaiting' \subseteq awaiting
    BY <1>10 DEF StartRejected, PollRejected, execVars
  <2>2. QED BY <1>0, <2>1 DEF RequestInv
<1>11. QED
  BY <1>1, <1>2, <1>3, <1>4, <1>5, <1>6, <1>7, <1>8, <1>9, <1>10
     DEF TerminalNext, TerminalStep

-----------------------------------------------------------------------------

(* The inductive invariant holds in every reachable state.                 *)
LEMMA TerminalInvariant == TerminalSpec => []TerminalInv
<1>1. TerminalInit => TerminalInv
  <2> SUFFICES ASSUME TerminalInit PROVE TerminalInv
    OBVIOUS
  <2>1. ExecInv
    BY ExecInvInit DEF TerminalInit
  <2>2. PageTypeOK
    BY DEF TerminalInit, PageTypeOK
  <2>3. ASSUME NEW r \in Run PROVE RequestInv(r)
    BY NoRunAssumption DEF TerminalInit, RequestInv
  <2>4. QED BY <2>1, <2>2, <2>3 DEF TerminalInv
<1>2. TerminalInv /\ [TerminalNext]_allVars => TerminalInv'
  <2> SUFFICES ASSUME TerminalInv, [TerminalNext]_allVars PROVE TerminalInv'
    OBVIOUS
  <2>1. ExecInv'
    BY ExecInvStep, StepIsExecStep DEF TerminalInv
  <2>2. PageTypeOK'
    BY PageTypeStep DEF TerminalInv
  <2>3. ASSUME NEW r \in Run PROVE RequestInv(r)'
    BY RequestInvStep
  <2>4. QED BY <2>1, <2>2, <2>3 DEF TerminalInv
<1>3. QED BY <1>1, <1>2, PTL DEF TerminalSpec

(* Runners, gateway and page keep their variables' types.                  *)
THEOREM TerminalTypeCorrect == TerminalSpec => []TerminalTypeOK
<1>1. TerminalInv => TerminalTypeOK
  BY DEF TerminalInv, ExecInv, PageTypeOK, TerminalTypeOK
<1>2. QED BY <1>1, TerminalInvariant, PTL

(* The polls of pump-java, and the kills of stop-run, for one run never    *)
(* overlap, and name a run the gateway has given out.                      *)
THEOREM RequestsApart == TerminalSpec => []RequestsDoNotOverlap
<1>1. TerminalInv => RequestsDoNotOverlap
  BY DEF TerminalInv, RequestInv, RequestsDoNotOverlap
<1>2. QED BY <1>1, TerminalInvariant, PTL

(* The terminal implements the open client of ExecGateway.                 *)
THEOREM TerminalIsClient == TerminalSpec => ExecSpec
<1>1. TerminalInit => ExecInit
  BY DEF TerminalInit
<1>2. QED BY <1>1, StepIsExecStep, PTL DEF TerminalSpec, ExecSpec

(* So with the editor's terminal as the client, too, routes are the run's  *)
(* own and are counted once (execRoutes and runLoad), and slots add up.    *)
THEOREM AccountsHoldUnderTerminal ==
  TerminalSpec => [](RouteIsOurs /\ LoadAccounting /\ SlotAccounting /\ BusyAccounting)
BY TerminalIsClient, RoutesAreOurs, LoadConserved, SlotsConservedInSystem, PTL

(* Nor does the terminal, however its requests are delayed, make a runner  *)
(* more or less than a pool of slots, or lose the route of a live program  *)
(* it has not killed (dropRoute's two callers in run.go).                  *)
THEOREM PromisesHoldUnderTerminal == TerminalSpec => IsSlotPool /\ RouteKeptWhileRunning
<1>1. ExecSpec => IsSlotPool
  BY GatewayDrivesRunners, RunnerImplementsPool, PTL DEF DrivesRunners
<1>2. QED BY <1>1, TerminalIsClient, RoutesKept, PTL
=============================================================================
