---------------------------- MODULE ExecTerminal ----------------------------
(***************************************************************************)
(* The editor's Run terminal (ext/lc3/extension.ls, run-command,           *)
(* run-java-cluster, pump-java, stop-run) as the client of ExecGateway:    *)
(* one terminal that starts Java programs, polls the output of the one it  *)
(* is attached to and kills it on Stop or on the next Run.  Requests       *)
(* travel: what is sent has not reached the gateway yet, and may be lost   *)
(* on the way there or on the way back.  Nobody hears of a lost kill: it   *)
(* is sent and forgotten.                                                  *)
(***************************************************************************)
EXTENDS ExecGateway

CONSTANTS NoRun,      \* pty.execRun = null
          MaxLost     \* bound: requests that never reach the gateway

ASSUME NoRunAssumption == NoRun \notin Run

VARIABLES
  execRun,    \* pty.execRun: the run the terminal is attached to
  sent,       \* the requests on their way, pairs <<kind, run>>
  awaiting,   \* the pairs <<kind, run>> whose reply the page waits for
  lost,       \* history: the requests that never reached the gateway
  told,       \* the terminal shows that the attached run's output broke off
  pageOpen    \* the page exists

terminalVars == <<execRun, sent, awaiting, lost, told, pageOpen>>
allVars == <<sem, busy, job, restarts, up, start, plan, reply, routes, load, op,
             execRun, sent, awaiting, lost, told, pageOpen>>

Kind == {"start", "poll", "kill"}

(* stop-run: the kill is sent for the attached run, if there is one.       *)
KillOfAttached == IF execRun = NoRun THEN {} ELSE {<<"kill", execRun>>}

Untouched(r) == start[r] = "idle" /\ <<"start", r>> \notin sent \cup lost

TerminalInit ==
  /\ ExecInit
  /\ execRun = NoRun
  /\ sent = {}
  /\ awaiting = {}
  /\ lost = {}
  /\ told = FALSE
  /\ pageOpen = TRUE

(* run-command: stop the active run, then ask for the new one.             *)
PressRun(r) ==
  /\ pageOpen
  /\ Untouched(r)
  /\ sent' = sent \cup KillOfAttached \cup {<<"start", r>>}
  /\ awaiting' = awaiting \cup {<<"start", r>>}
  /\ execRun' = NoRun
  /\ told' = FALSE
  /\ UNCHANGED <<execVars, lost, pageOpen>>

(* Mutant: Stop waits for the answer to its kill.                          *)
PressStopAndWait ==
  /\ pageOpen
  /\ execRun # NoRun
  /\ sent' = sent \cup KillOfAttached
  /\ awaiting' = awaiting \cup KillOfAttached
  /\ execRun' = NoRun
  /\ told' = FALSE
  /\ UNCHANGED <<execVars, lost, pageOpen>>

(* Stop, Ctrl+C or closing the terminal.                                   *)
PressStop ==
  /\ pageOpen
  /\ execRun # NoRun
  /\ sent' = sent \cup KillOfAttached
  /\ execRun' = NoRun
  /\ told' = FALSE
  /\ UNCHANGED <<execVars, awaiting, lost, pageOpen>>

(* Mutant: the callback of a start may run a second time.                  *)
StartRepliedAgain(r) ==
  /\ pageOpen
  /\ <<"start", r>> \in awaiting
  /\ reply[r] = "running"
  /\ execRun' = r
  /\ told' = FALSE
  /\ sent' = sent \cup {<<"poll", r>>}
  /\ awaiting' = awaiting \cup {<<"poll", r>>}
  /\ UNCHANGED <<execVars, lost, pageOpen>>

(* The answer to a start attaches the terminal, whatever it was attached   *)
(* to, and the first poll goes out.                                        *)
StartReplied(r) ==
  /\ pageOpen
  /\ <<"start", r>> \in awaiting
  /\ reply[r] # "none"
  /\ IF reply[r] = "running"
       THEN /\ execRun' = r
            /\ told' = FALSE
            /\ sent' = sent \cup {<<"poll", r>>}
            /\ awaiting' = (awaiting \ {<<"start", r>>}) \cup {<<"poll", r>>}
       ELSE /\ awaiting' = awaiting \ {<<"start", r>>}
            /\ UNCHANGED <<execRun, sent, told>>
  /\ UNCHANGED <<execVars, lost, pageOpen>>

(* Mutant: after the first answer no further poll goes out.                *)
PollRepliedOnce(r) ==
  /\ pageOpen
  /\ <<"poll", r>> \in awaiting
  /\ <<"poll", r>> \notin sent
  /\ op["poll"][r] \in Resting
  /\ awaiting' = awaiting \ {<<"poll", r>>}
  /\ execRun' = IF op["poll"][r] = "ended" /\ execRun = r THEN NoRun ELSE execRun
  /\ told' = (told \/ (execRun = r /\ op["poll"][r] = "error"))
  /\ UNCHANGED <<execVars, sent, lost, pageOpen>>

(* The answer to a poll: go on while attached, detach when done, stop at   *)
(* an error.                                                               *)
PollReplied(r) ==
  /\ pageOpen
  /\ <<"poll", r>> \in awaiting
  /\ <<"poll", r>> \notin sent
  /\ op["poll"][r] \in Resting
  /\ IF op["poll"][r] = "idle" /\ execRun = r
       THEN /\ sent' = sent \cup {<<"poll", r>>}
            /\ UNCHANGED awaiting
       ELSE /\ awaiting' = awaiting \ {<<"poll", r>>}
            /\ UNCHANGED sent
  /\ execRun' = IF op["poll"][r] = "ended" /\ execRun = r THEN NoRun ELSE execRun
  /\ told' = (told \/ (execRun = r /\ op["poll"][r] = "error"))
  /\ UNCHANGED <<execVars, lost, pageOpen>>

(* The request for a start was rejected, "could not reach a runner": the   *)
(* terminal is not attached, whatever the gateway did or is yet to do.     *)
StartRejected(r) ==
  /\ pageOpen
  /\ <<"start", r>> \in awaiting
  /\ <<"start", r>> \notin sent
  /\ awaiting' = awaiting \ {<<"start", r>>}
  /\ UNCHANGED <<execVars, execRun, sent, lost, told, pageOpen>>

(* A poll was rejected, "lost connection to the runner": nothing polls for *)
(* this run any more, and the terminal stays attached to it.               *)
PollRejected(r) ==
  /\ pageOpen
  /\ <<"poll", r>> \in awaiting
  /\ <<"poll", r>> \notin sent
  /\ awaiting' = awaiting \ {<<"poll", r>>}
  /\ told' = (told \/ execRun = r)
  /\ UNCHANGED <<execVars, execRun, sent, lost, pageOpen>>

(* The page is reloaded or the laptop shut: nothing more is sent.          *)
ClosePage ==
  /\ pageOpen
  /\ pageOpen' = FALSE
  /\ execRun' = NoRun
  /\ told' = FALSE
  /\ awaiting' = {}
  /\ UNCHANGED <<execVars, sent, lost>>

(* A request that was sent reaches the gateway.                            *)
Arrives(kind, r) ==
  /\ <<kind, r>> \in sent
  /\ sent' = sent \ {<<kind, r>>}
  /\ \/ kind = "start" /\ HandleStart(r)
     \/ kind \in Handler /\ Request(kind, r)
  /\ UNCHANGED <<execRun, awaiting, lost, told, pageOpen>>

(* A request that was sent does not reach the gateway.                     *)
Loses(kind, r) ==
  /\ <<kind, r>> \in sent
  /\ Cardinality(lost) < MaxLost
  /\ sent' = sent \ {<<kind, r>>}
  /\ lost' = lost \cup {<<kind, r>>}
  /\ UNCHANGED <<execVars, execRun, awaiting, told, pageOpen>>

TerminalStep(r) ==
  \/ PressRun(r) \/ StartReplied(r) \/ PollReplied(r)
  \/ StartRejected(r) \/ PollRejected(r)

TerminalNext ==
  \/ PressStop \/ ClosePage
  \/ \E r \in Run : \/ TerminalStep(r)
                    \/ \E kind \in Kind : Arrives(kind, r) \/ Loses(kind, r)
  \/ ServerStep /\ UNCHANGED terminalVars

TerminalSpec == TerminalInit /\ [][TerminalNext]_allVars

(* The page's event loop goes on, a request that was sent arrives or is    *)
(* lost, and the browser rejects one that was lost; a runner's thread goes *)
(* on (the acquire has a 15 s timeout, the compile COMPILE_TIMEOUT + 30 s, *)
(* the program RUN_TIMEOUT); the user owes nothing.                        *)
TerminalFairness ==
  /\ \A r \in Run : /\ WF_allVars(StartReplied(r))
                    /\ WF_allVars(PollReplied(r))
                    /\ WF_allVars(<<"start", r>> \in lost /\ StartRejected(r))
                    /\ WF_allVars(<<"poll", r>> \in lost /\ PollRejected(r))
                    /\ \A kind \in Kind : WF_allVars(Arrives(kind, r))
  /\ \A h \in Host, r \in Run :
       WF_allVars(ThreadStep(h, r) /\ UNCHANGED <<gatewayVars, terminalVars>>)
  /\ \A r \in Run :
       /\ WF_allVars(CallArrives(r) /\ UNCHANGED terminalVars)
       /\ WF_allVars(StartCallReturns(r) /\ UNCHANGED terminalVars)
       /\ WF_allVars(CountRoute(r) /\ UNCHANGED terminalVars)
       /\ \A k \in Handler : WF_allVars(OpStep(k, r) /\ UNCHANGED terminalVars)

FairTerminalSpec == TerminalSpec /\ TerminalFairness

-----------------------------------------------------------------------------

(* The variables hold what the runners, the gateway and the page keep in   *)
(* them: a semaphore never below zero nor above RunMax, routes and plans   *)
(* over known hosts, a kill never awaited.                                 *)
TerminalTypeOK ==
  /\ RunnerTypeOK
  /\ GatewayTypeOK
  /\ execRun \in Run \cup {NoRun}
  /\ sent \in SUBSET (Kind \X Run)
  /\ awaiting \in SUBSET ({"start", "poll"} \X Run)
  /\ lost \in SUBSET (Kind \X Run)
  /\ told \in BOOLEAN
  /\ pageOpen \in BOOLEAN

(* What the terminal sends never overlaps an unanswered request of the     *)
(* same kind for the same run, and names a run the gateway has given out:  *)
(* pump-java has one poll under way, whose offset is that of the answer    *)
(* before it, and a run is killed once, however Run and Stop are pressed.  *)
RequestsDoNotOverlap ==
  \A r \in Run, k \in Handler :
    <<k, r>> \in sent => reply[r] = "running" /\ op[k][r] \in Resting

(* Stop, and the kill it sends, end with the route gone and so with the    *)
(* run no longer counted, reachable runner or not, unless the request      *)
(* itself is lost: then the code leaves route and load for good, for       *)
(* stop-run neither waits for an answer nor keeps the run.                 *)
KillFreesRoute ==
  \A r \in Run :
    (<<"kill", r>> \in sent) ~> (r \notin routes \/ <<"kill", r>> \in lost)

(* A terminal attached to a program that has ended learns it, or says that *)
(* its output broke off, unless the page goes away or moves on: the poll   *)
(* loop never just stops.                                                  *)
AttachedLearnsEnd ==
  \A r \in Run :
    (execRun = r /\ OutputDone(Ref(r), r)) ~> (execRun # r \/ told)
=============================================================================
