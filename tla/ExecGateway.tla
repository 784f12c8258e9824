---------------------------- MODULE ExecGateway ----------------------------
(***************************************************************************)
(* The gateway's side of interactive runs (server/run.go), over the        *)
(* runners of RunnerExec.  A start request tries the runners in the order  *)
(* pickExecRunner gave it; the one that answers running gets a route, and  *)
(* the host's load is counted under a second lock.  Output polls and kills *)
(* look the route up, call the runner without any lock, and may drop it.   *)
(* The client is open here: it polls and kills as it likes, or not at all  *)
(* (ExecTerminal puts the editor's terminal in its place).                 *)
(***************************************************************************)
EXTENDS RunnerExec, Sequences, SequencesExt

CONSTANTS Local       \* the gateway's own runner, 127.0.0.1:9500

ASSUME HostAssumption == Local \in Host /\ IsFiniteSet(Host)

VARIABLES
  up,        \* the workers the store has as up, 127.0.0.1 aside
  start,     \* [Run -> StartPhase], handleRunExecStart of each run
  plan,      \* [Run -> Seq(Host)], the runners still to try; the head is the
             \* one being called and, once routed, the route's runner
  reply,     \* [Run -> Reply], what the start request was answered
  routes,    \* the runs with an entry in execRoutes
  load,      \* [Host -> Nat], runLoad
  op         \* [{"poll", "kill"} -> [Run -> OpPhase]], the request handlers

gatewayVars == <<up, start, plan, reply, routes, load, op>>
execVars == <<sem, busy, job, restarts, up, start, plan, reply, routes, load, op>>

StartPhase == {"idle", "asking", "routed", "answered"}
Reply == {"none", "running", "busy", "failed", "unavailable"}

Handler == {"poll", "kill"}
Resting == {"idle", "ended", "error"}   \* between requests; how a poll stopped
OpPhase == Resting \cup {"called", "asked", "drop", "uncount"}

Ref(r) == Head(plan[r])

(* Workers that are up, least loaded first (UpWorkers has no ORDER BY and  *)
(* the sort is stable, so ties may fall either way), then the local one.   *)
PickExecRunner ==
  {Append(s, Local) :
     s \in {t \in SetToSeqs(up) :
              \A i, j \in DOMAIN t : i < j => load[t[i]] <= load[t[j]]}}

AddRunLoad(h, d) ==
  load' = [load EXCEPT ![h] = IF @ + d < 0 THEN 0 ELSE @ + d]

OpMoves(k, r, to) == op' = [op EXCEPT ![k][r] = to]

-----------------------------------------------------------------------------

GatewayInit ==
  /\ up = Host \ {Local}
  /\ start = [r \in Run |-> "idle"]
  /\ plan = [r \in Run |-> <<>>]
  /\ reply = [r \in Run |-> "none"]
  /\ routes = {}
  /\ load = [h \in Host |-> 0]
  /\ op = [k \in Handler |-> [r \in Run |-> "idle"]]

HandleStart(r) ==
  /\ start[r] = "idle"
  /\ start' = [start EXCEPT ![r] = "asking"]
  /\ \E p \in PickExecRunner : plan' = [plan EXCEPT ![r] = p]
  /\ UNCHANGED <<runnerVars, up, reply, routes, load, op>>

CallArrives(r) ==
  /\ start[r] = "asking"
  /\ ExecStart(Ref(r), r)
  /\ UNCHANGED gatewayVars

(* Mutant: when no runner is left, the handler does not answer.            *)
CallFailsSilently(r) ==
  /\ start[r] = "asking"
  /\ up' = up \ {Ref(r)}
  /\ plan' = IF Len(plan[r]) > 1 THEN [plan EXCEPT ![r] = Tail(@)] ELSE plan
  /\ UNCHANGED <<runnerVars, start, reply, routes, load, op>>

(* No connection, no answer within 40 s, a broken connection or an answer  *)
(* other than 200: a worker is marked down and the next runner is tried.   *)
CallFails(r) ==
  /\ start[r] = "asking"
  /\ up' = up \ {Ref(r)}
  /\ IF Len(plan[r]) > 1
       THEN /\ plan' = [plan EXCEPT ![r] = Tail(@)]
            /\ UNCHANGED <<start, reply>>
       ELSE /\ start' = [start EXCEPT ![r] = "answered"]
            /\ reply' = [reply EXCEPT ![r] = "unavailable"]
            /\ UNCHANGED plan
  /\ UNCHANGED <<runnerVars, routes, load, op>>

(* Mutant: whatever status came back, its session gets a route.            *)
TakeAnyAnswer(r) ==
  /\ start[r] = "asking"
  /\ Answer(Ref(r), r) # "none"
  /\ routes' = routes \cup {r}
  /\ start' = [start EXCEPT ![r] = "routed"]
  /\ UNCHANGED <<runnerVars, up, plan, reply, load, op>>

TakeRunning(r) ==
  /\ start[r] = "asking"
  /\ Answer(Ref(r), r) = "running"
  /\ routes' = routes \cup {r}
  /\ start' = [start EXCEPT ![r] = "routed"]
  /\ UNCHANGED <<runnerVars, up, plan, reply, load, op>>

(* The run is answered only after its load is counted.                     *)
CountRoute(r) ==
  /\ start[r] = "routed"
  /\ AddRunLoad(Ref(r), 1)
  /\ start' = [start EXCEPT ![r] = "answered"]
  /\ reply' = [reply EXCEPT ![r] = "running"]
  /\ UNCHANGED <<runnerVars, up, plan, routes, op>>

(* Any other status is passed straight back, with no further runner tried. *)
PassBack(r) ==
  /\ start[r] = "asking"
  /\ Answer(Ref(r), r) \in {"busy", "failed"}
  /\ start' = [start EXCEPT ![r] = "answered"]
  /\ reply' = [reply EXCEPT ![r] = Answer(Ref(r), r)]
  /\ UNCHANGED <<runnerVars, up, plan, routes, load, op>>

(* A client that was given the run id sends a poll or a kill.              *)
Request(k, r) ==
  /\ reply[r] = "running"
  /\ op[k][r] \in Resting
  /\ OpMoves(k, r, "called")
  /\ UNCHANGED <<runnerVars, up, start, plan, reply, routes, load>>

LookupRoute(k, r) ==
  /\ op[k][r] = "called"
  /\ OpMoves(k, r, IF r \in routes THEN "asked"
                   ELSE IF k = "poll" THEN "error" ELSE "idle")
  /\ UNCHANGED <<runnerVars, up, start, plan, reply, routes, load>>

(* The runner's answer to a poll: more to come, or done.                   *)
AskOutput(r) ==
  /\ op["poll"][r] = "asked"
  /\ OpMoves("poll", r, IF OutputDone(Ref(r), r) THEN "drop" ELSE "idle")
  /\ UNCHANGED <<runnerVars, up, start, plan, reply, routes, load>>

(* Mutant: an unreachable runner is taken for a finished run.              *)
OutputUnreachableEnds(r) ==
  /\ op["poll"][r] = "asked"
  /\ OpMoves("poll", r, "drop")
  /\ UNCHANGED <<runnerVars, up, start, plan, reply, routes, load>>

(* 502: the route stays.                                                   *)
OutputUnreachable(r) ==
  /\ op["poll"][r] = "asked"
  /\ OpMoves("poll", r, "error")
  /\ UNCHANGED <<runnerVars, up, start, plan, reply, routes, load>>

AskKill(r) ==
  /\ op["kill"][r] = "asked"
  /\ ExecKill(Ref(r), r)
  /\ OpMoves("kill", r, "drop")
  /\ UNCHANGED <<up, start, plan, reply, routes, load>>

(* Mutant: a kill that fails leaves the route to the next poll.            *)
KillUnreachableGivesUp(r) ==
  /\ op["kill"][r] = "asked"
  /\ OpMoves("kill", r, "idle")
  /\ UNCHANGED <<runnerVars, up, start, plan, reply, routes, load>>

(* The error of the call is ignored.                                       *)
KillUnreachable(r) ==
  /\ op["kill"][r] = "asked"
  /\ OpMoves("kill", r, "drop")
  /\ UNCHANGED <<runnerVars, up, start, plan, reply, routes, load>>

Outcome(k) == IF k = "poll" THEN "ended" ELSE "idle"

(* Mutant: the load is lowered even when the entry was already gone.       *)
DropRouteTwice(k, r) ==
  /\ op[k][r] = "drop"
  /\ routes' = routes \ {r}
  /\ OpMoves(k, r, "uncount")
  /\ UNCHANGED <<runnerVars, up, start, plan, reply, load>>

(* dropRoute: whoever deletes the entry, and nobody else, lowers the load. *)
DropRoute(k, r) ==
  /\ op[k][r] = "drop"
  /\ routes' = routes \ {r}
  /\ OpMoves(k, r, IF r \in routes THEN "uncount" ELSE Outcome(k))
  /\ UNCHANGED <<runnerVars, up, start, plan, reply, load>>

UncountRoute(k, r) ==
  /\ op[k][r] = "uncount"
  /\ AddRunLoad(Ref(r), -1)
  /\ OpMoves(k, r, Outcome(k))
  /\ UNCHANGED <<runnerVars, up, start, plan, reply, routes>>

(* Heartbeats, stale marking and the other dispatchers change the status.  *)
StatusChanges(h) ==
  /\ h # Local
  /\ up' = IF h \in up THEN up \ {h} ELSE up \cup {h}
  /\ UNCHANGED <<runnerVars, start, plan, reply, routes, load, op>>

StartCallReturns(r) ==
  TakeRunning(r) \/ PassBack(r) \/ CallFails(r)

OpStep(k, r) ==
  \/ LookupRoute(k, r) \/ DropRoute(k, r) \/ UncountRoute(k, r)
  \/ k = "poll" /\ (AskOutput(r) \/ OutputUnreachable(r))
  \/ k = "kill" /\ (AskKill(r) \/ KillUnreachable(r))

RunnerAlone ==
  /\ \E h \in Host : Restart(h) \/ \E r \in Run : ThreadStep(h, r)
  /\ UNCHANGED gatewayVars

(* Everything but the client's requests.                                   *)
ServerStep ==
  \/ RunnerAlone
  \/ \E h \in Host : StatusChanges(h)
  \/ \E r \in Run : \/ CallArrives(r) \/ StartCallReturns(r) \/ CountRoute(r)
                    \/ \E k \in Handler : OpStep(k, r)

ClientRequest ==
  \E r \in Run : HandleStart(r) \/ \E k \in Handler : Request(k, r)

ExecInit == RunnerInit /\ GatewayInit
ExecNext == ServerStep \/ ClientRequest
ExecSpec == ExecInit /\ [][ExecNext]_execVars

-----------------------------------------------------------------------------

(* The variables hold what the code keeps in them.                         *)
GatewayTypeOK ==
  /\ up \in SUBSET (Host \ {Local})
  /\ start \in [Run -> StartPhase]
  /\ plan \in [Run -> Seq(Host)]
  /\ reply \in [Run -> Reply]
  /\ routes \in SUBSET Run
  /\ load \in [Host -> Nat]
  /\ op \in [Handler -> [Run -> OpPhase]]

(* The runs whose load on h is counted: routed and answered, or dropped by *)
(* a handler that has not lowered the load yet.                            *)
LoadedBy(h) ==
  {r \in Run : /\ start[r] = "answered"
               /\ plan[r] # <<>> /\ Ref(r) = h
               /\ r \in routes \/ \E k \in Handler : op[k][r] = "uncount"}

(* runLoad is the number of routes per host, however polls that see the    *)
(* end and kills race each other: no route is counted twice, uncounted     *)
(* twice or left behind in the count, and the clamp at 0 never acts.       *)
LoadAccounting ==
  \A h \in Host : /\ IsFiniteSet(LoadedBy(h))
                  /\ load[h] = Cardinality(LoadedBy(h))

(* A route leads to the session its own start created on that runner, and  *)
(* to nothing else, whatever happened to slower answers of other runners.  *)
RouteIsOurs ==
  \A r \in routes : /\ plan[r] # <<>>
                    /\ \/ Answer(Ref(r), r) = "running"
                       \/ job[Ref(r)][r] = "lost"

(* The gateway loses sight of a program that still runs only after a kill  *)
(* was sent for it: a poll never drops the route of a live program.        *)
RouteKeptWhileRunning ==
  [][\A r \in Run : r \in routes /\ r \notin routes'
       => OutputDone(Ref(r), r) \/ op["kill"][r] = "drop"]_execVars

(* The runners are driven only through their four endpoints: seen from     *)
(* them, the gateway does nothing a runner does not expect.                *)
DrivesRunners == RunnerSpec

(* Every start request is answered, whatever the runners do.               *)
StartIsAnswered == \A r \in Run : (start[r] = "asking") ~> (reply[r] # "none")
=============================================================================
