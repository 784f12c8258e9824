-------------------------------- MODULE Shell --------------------------------
(***************************************************************************)
(* The teacher's shells on one worker: the terminals of the page           *)
(* (ext/lc3/extension.ls, ShellTerminal), the gateway's routes             *)
(* (server/shell.go) and the runner's shells (worker/runner.py,            *)
(* ShellSession to shell_kill) with their cap and the reaper.  A terminal  *)
(* starts one shell at most, so the shell goes by its name.                *)
(*                                                                         *)
(* Left out: the bytes of output and input, and resizing.                  *)
(***************************************************************************)
EXTENDS Integers, FiniteSets

CONSTANTS
  Term,         \* the terminals the teacher opens on the worker
  ShellMax,     \* SHELL_MAX of runner.py
  MaxRestarts   \* bound: how often the runner or the gateway restarts

ASSUME ShellAssumption ==
  /\ IsFiniteSet(Term)
  /\ ShellMax \in Nat \ {0}
  /\ MaxRestarts \in Nat

VARIABLES
  shell,      \* [Term -> ShellPhase], the runner's shells and their readers
  busy,       \* _busy["shells"]
  read,       \* [Term -> BOOLEAN], touched less than SHELL_IDLE_SEC ago
  start,      \* [Term -> ...], the request that starts the shell
  routes,     \* the terminals with an entry in shellRoutes
  term,       \* [Term -> ...], the terminals
  poll,       \* [Term -> ...], their requests for output
  killing,    \* the terminals whose kill is under way
  pageOpen,   \* the teacher's page is there
  restarts    \* how many restarts there have been

runnerVars == <<shell, busy, read>>
pageVars == <<term, pageOpen>>
shellVars == <<runnerVars, start, routes, pageVars, poll, killing, restarts>>

ShellPhase == {
  "none",        \* no request has arrived
  "refused",     \* SHELL_MAX shells already, or the start failed
  "claimed",     \* counted, not yet in _shells
  "open",        \* in _shells, the process runs
  "signalled",   \* the same, killed or hung up
  "finished",    \* the reader has set done
  "uncounted",   \* busy_add has run; in _shells for 60 s more
  "forgotten",   \* popped
  "unlisted",    \* the start failed, but its process runs on
  "stray",       \* the same, and it is in _shells, with no reader
  "abandoned",   \* the process of either has ended, nobody waits for it
  "lost" }       \* the runner process restarted

Counted == {"claimed", "open", "signalled", "finished"}
Listed == {"open", "signalled", "finished", "uncounted", "stray"}
ShellsIn(S) == {t \in Term : shell[t] \in S}

ShellMoves(t, from, to) ==
  /\ shell[t] \in from
  /\ shell' = [shell EXCEPT ![t] = to]

AddBusy(d) == busy' = IF busy + d < 0 THEN 0 ELSE busy + d

ShellInit ==
  /\ shell = [t \in Term |-> "none"]
  /\ busy = 0
  /\ read = [t \in Term |-> TRUE]
  /\ start = [t \in Term |-> "no"]
  /\ routes = {}
  /\ term = [t \in Term |-> "none"]
  /\ poll = [t \in Term |-> "no"]
  /\ killing = {}
  /\ pageOpen = TRUE
  /\ restarts = 0

-----------------------------------------------------------------------------
(* The runner.                                                             *)

(* Mutant: the cap is looked at without the lock, before it is claimed.    *)
ShellStartBlindly(t) ==
  /\ start[t] = "calling"
  /\ ShellMoves(t, {"none"}, "claimed")
  /\ AddBusy(1)
  /\ UNCHANGED <<read, start, routes, pageVars, poll, killing, restarts>>

(* shell_start compares and claims under one lock.                         *)
ShellStart(t) ==
  /\ start[t] = "calling"
  /\ IF busy >= ShellMax
       THEN ShellMoves(t, {"none"}, "refused") /\ UNCHANGED busy
       ELSE ShellMoves(t, {"none"}, "claimed") /\ AddBusy(1)
  /\ UNCHANGED <<read, start, routes, pageVars, poll, killing, restarts>>

(* The pty, the process and the reader are there, the session is listed.   *)
ShellOpens(t) ==
  /\ ShellMoves(t, {"claimed"}, "open")
  /\ UNCHANGED <<busy, read, start, routes, pageVars, poll, killing, restarts>>

(* Any of them raises: the place is given back, and what there is already  *)
(* stays, the process (Popen) and its entry in _shells.                    *)
ShellFails(t) ==
  /\ \E to \in {"refused", "unlisted", "stray"} : ShellMoves(t, {"claimed"}, to)
  /\ AddBusy(-1)
  /\ UNCHANGED <<read, start, routes, pageVars, poll, killing, restarts>>

(* A process without a reader ends: nobody notices.                        *)
StrayEnds(t) ==
  /\ ShellMoves(t, {"unlisted", "stray"}, "abandoned")
  /\ UNCHANGED <<busy, read, start, routes, pageVars, poll, killing, restarts>>

(* The process ends, of itself or by a signal, and the reader notices.     *)
ShellEnds(t) ==
  /\ ShellMoves(t, {"open", "signalled"}, "finished")
  /\ UNCHANGED <<busy, read, start, routes, pageVars, poll, killing, restarts>>

(* The reader closes the pty and gives the place back.                     *)
ReaderUncounts(t) ==
  /\ ShellMoves(t, {"finished"}, "uncounted")
  /\ AddBusy(-1)
  /\ UNCHANGED <<read, start, routes, pageVars, poll, killing, restarts>>

ForgetShell(t) ==
  /\ ShellMoves(t, {"uncounted"}, "forgotten")
  /\ UNCHANGED <<busy, read, start, routes, pageVars, poll, killing, restarts>>

(* SHELL_IDLE_SEC without a poll.  One that the runner has is answered     *)
(* within 25 s; the next follows as soon as the page gets to it.           *)
IdlePasses(t) ==
  /\ read[t]
  /\ shell[t] \in {"open", "stray"}
  /\ poll[t] # "asking"
  /\ read' = [read EXCEPT ![t] = FALSE]
  /\ UNCHANGED <<shell, busy, start, routes, pageVars, poll, killing, restarts>>

(* Mutant: a shell whose start was never answered is not the reaper's.     *)
ReapRouted(t) ==
  /\ ~read[t]
  /\ t \in routes
  /\ ShellMoves(t, {"open"}, "signalled")
  /\ UNCHANGED <<busy, read, start, routes, pageVars, poll, killing, restarts>>

(* The reaper, every 30 s: SIGHUP to what nobody has read for so long.     *)
Reap(t) ==
  /\ ~read[t]
  /\ ShellMoves(t, {"open"}, "signalled") \/ ShellMoves(t, {"stray"}, "abandoned")
  /\ UNCHANGED <<busy, read, start, routes, pageVars, poll, killing, restarts>>

RunnerRestarts ==
  /\ restarts < MaxRestarts
  /\ restarts' = restarts + 1
  /\ shell' = [t \in Term |-> IF shell[t] = "none" THEN "none" ELSE "lost"]
  /\ busy' = 0
  /\ UNCHANGED <<read, start, routes, pageVars, poll, killing>>

-----------------------------------------------------------------------------
(* The gateway.                                                            *)

(* handleAdminShellStart, up to the call.                                  *)
StartArrives(t) ==
  /\ start[t] = "sent"
  /\ start' = [start EXCEPT ![t] = "calling"]
  /\ UNCHANGED <<runnerVars, routes, pageVars, poll, killing, restarts>>

StartAnswered(t) ==
  /\ start[t] = "calling"
  /\ \/ /\ shell[t] \in (Listed \cup {"forgotten"}) \ {"stray"}
        /\ routes' = routes \cup {t}
        /\ start' = [start EXCEPT ![t] = "running"]
     \/ /\ shell[t] \in {"refused", "unlisted", "stray", "abandoned"}
        /\ start' = [start EXCEPT ![t] = "failed"]
        /\ UNCHANGED routes
  /\ UNCHANGED <<runnerVars, pageVars, poll, killing, restarts>>

(* The request or the call is lost, or takes longer than 40 s.             *)
StartFails(t) ==
  /\ start[t] \in {"sent", "calling"}
  /\ start' = [start EXCEPT ![t] = "failed"]
  /\ UNCHANGED <<runnerVars, routes, pageVars, poll, killing, restarts>>

(* shellRelay: without a route the answer is 404.                          *)
PollArrives(t) ==
  /\ poll[t] = "sent"
  /\ IF t \in routes
       THEN /\ poll' = [poll EXCEPT ![t] = "asking"]
            /\ read' = [read EXCEPT ![t] = @ \/ shell[t] \in Listed]
       ELSE poll' = [poll EXCEPT ![t] = "error"] /\ UNCHANGED read
  /\ UNCHANGED <<shell, busy, start, routes, pageVars, killing, restarts>>

(* Mutant: what the runner says of the shell is taken for the answer.      *)
PollAnsweredRaw(t) ==
  /\ poll[t] = "asking"
  /\ poll' = [poll EXCEPT ![t] = shell[t]]
  /\ UNCHANGED <<runnerVars, start, routes, pageVars, killing, restarts>>

(* The runner answers: after output, 25 s, or the end.  A session it does  *)
(* not know is done.                                                       *)
PollAnswered(t) ==
  /\ poll[t] = "asking"
  /\ \/ /\ shell[t] \in {"open", "signalled"}
        /\ poll' = [poll EXCEPT ![t] = "more"]
        /\ UNCHANGED routes
     \/ /\ shell[t] \notin {"open", "signalled"}
        /\ poll' = [poll EXCEPT ![t] = "done"]
        /\ routes' = routes \ {t}
  /\ UNCHANGED <<runnerVars, start, pageVars, killing, restarts>>

PollFails(t) ==
  /\ poll[t] \in {"sent", "asking"}
  /\ poll' = [poll EXCEPT ![t] = "error"]
  /\ UNCHANGED <<runnerVars, start, routes, pageVars, killing, restarts>>

(* Mutant: a kill forgets the route, as it does for runs.                  *)
KillForgetsRoute(t) ==
  /\ t \in killing
  /\ killing' = killing \ {t}
  /\ routes' = routes \ {t}
  /\ \/ t \in routes /\ ShellMoves(t, {"open"}, "signalled")
     \/ UNCHANGED shell
  /\ UNCHANGED <<busy, read, start, pageVars, poll, restarts>>

(* The kill reaches the shell, if there is a route, or nothing does.       *)
KillArrives(t) ==
  /\ t \in killing
  /\ killing' = killing \ {t}
  /\ IF t \in routes
       THEN \/ ShellMoves(t, {"open"}, "signalled")
            \/ UNCHANGED shell
       ELSE UNCHANGED shell
  /\ UNCHANGED <<busy, read, start, routes, pageVars, poll, restarts>>

GatewayRestarts ==
  /\ restarts < MaxRestarts
  /\ restarts' = restarts + 1
  /\ routes' = {}
  /\ start' = [t \in Term |-> IF start[t] = "calling" THEN "failed" ELSE start[t]]
  /\ poll' = [t \in Term |-> IF poll[t] = "asking" THEN "error" ELSE poll[t]]
  /\ UNCHANGED <<runnerVars, pageVars, killing>>

-----------------------------------------------------------------------------
(* The page.                                                               *)

OpenShell(t) ==
  /\ pageOpen
  /\ term[t] = "none"
  /\ term' = [term EXCEPT ![t] = "opening"]
  /\ start' = [start EXCEPT ![t] = "sent"]
  /\ UNCHANGED <<runnerVars, routes, poll, killing, pageOpen, restarts>>

(* The callback of the start request runs whether or not the terminal has  *)
(* been closed meanwhile: it sets run and alive, and pumps.                *)
StartReplied(t) ==
  /\ pageOpen
  /\ term[t] \in {"opening", "closedEarly"}
  /\ \/ /\ start[t] = "running"
        /\ term' = [term EXCEPT ![t] = IF @ = "opening" THEN "open" ELSE "unseen"]
        /\ poll' = [poll EXCEPT ![t] = "sent"]
     \/ /\ start[t] = "failed"
        /\ term' = [term EXCEPT ![t] = "over"]
        /\ UNCHANGED poll
  /\ UNCHANGED <<runnerVars, start, routes, killing, pageOpen, restarts>>

(* The next poll, or the end of the terminal: the shell is done, or a      *)
(* poll failed.                                                            *)
PollReplied(t) ==
  /\ pageOpen
  /\ poll[t] \in {"more", "done", "error"}
  /\ IF poll[t] = "more" /\ term[t] # "over"
       THEN poll' = [poll EXCEPT ![t] = "sent"] /\ UNCHANGED term
       ELSE poll' = [poll EXCEPT ![t] = "no"] /\ term' = [term EXCEPT ![t] = "over"]
  /\ UNCHANGED <<runnerVars, start, routes, killing, pageOpen, restarts>>

(* close: there is something to kill only once the start was answered.     *)
CloseTerminal(t) ==
  /\ pageOpen
  /\ \/ /\ term[t] = "opening"
        /\ term' = [term EXCEPT ![t] = "closedEarly"]
        /\ UNCHANGED killing
     \/ /\ term[t] = "open"
        /\ term' = [term EXCEPT ![t] = "over"]
        /\ killing' = killing \cup {t}
  /\ UNCHANGED <<runnerVars, start, routes, poll, pageOpen, restarts>>

(* The tab goes, and with it every callback; requests under way do not.    *)
ClosePage ==
  /\ pageOpen
  /\ pageOpen' = FALSE
  /\ UNCHANGED <<runnerVars, start, routes, term, poll, killing, restarts>>

(* What nobody listens to any more ends all the same.                      *)
PollUnheard(t) ==
  /\ ~pageOpen
  /\ poll[t] \in {"more", "done", "error"}
  /\ poll' = [poll EXCEPT ![t] = "no"]
  /\ UNCHANGED <<runnerVars, start, routes, pageVars, killing, restarts>>

RunnerStep(t) ==
  \/ ShellStart(t) \/ ShellOpens(t) \/ ShellFails(t) \/ ReaderUncounts(t)
  \/ ShellEnds(t) /\ shell[t] = "signalled"
  \/ IdlePasses(t) \/ Reap(t)

RelayStep(t) ==
  \/ StartArrives(t) \/ StartAnswered(t) \/ StartFails(t)
  \/ PollArrives(t) \/ PollAnswered(t) \/ PollFails(t) \/ KillArrives(t)
  \/ StartReplied(t) \/ PollReplied(t) \/ PollUnheard(t)

ShellNext ==
  \/ ClosePage \/ RunnerRestarts \/ GatewayRestarts
  \/ \E t \in Term : \/ RunnerStep(t) \/ RelayStep(t)
                     \/ ShellEnds(t) \/ StrayEnds(t) \/ ForgetShell(t)
                     \/ OpenShell(t) \/ CloseTerminal(t)

ShellSpec == ShellInit /\ [][ShellNext]_shellVars

(* Calls are ended by their time-outs, callbacks run, the reader and the   *)
(* reaper go on, time passes, and a process ends when it is told to.  The  *)
(* teacher and the shell itself owe nothing.                               *)
ShellFairness ==
  \A t \in Term : WF_shellVars(RunnerStep(t)) /\ WF_shellVars(RelayStep(t))

FairShellSpec == ShellSpec /\ ShellFairness

-----------------------------------------------------------------------------

(* The variables hold what terminals, gateway and runner keep in them.     *)
ShellTypeOK ==
  /\ shell \in [Term -> ShellPhase]
  /\ busy \in Nat
  /\ read \in [Term -> BOOLEAN]
  /\ start \in [Term -> {"no", "sent", "calling", "running", "failed"}]
  /\ routes \subseteq Term
  /\ term \in [Term -> {"none", "opening", "closedEarly", "open", "unseen", "over"}]
  /\ poll \in [Term -> {"no", "sent", "asking", "more", "done", "error"}]
  /\ killing \subseteq Term
  /\ pageOpen \in BOOLEAN
  /\ restarts \in 0 .. MaxRestarts

(* The count that is compared with SHELL_MAX is the number of shells that  *)
(* have not been given back, so the cap neither lets one more in nor locks *)
(* a place up.  A process that a failed start left behind is not counted.  *)
ShellAccounting ==
  /\ busy = Cardinality(ShellsIn(Counted))
  /\ busy <= ShellMax

(* A terminal that shows its shell has a way to it as long as the shell    *)
(* lives, unless the gateway restarted: only the poll that reports the     *)
(* end takes the route away.                                               *)
ShellKeepsRoute ==
  [][\A t \in Term : (t \in routes /\ t \notin routes')
       => shell[t] \notin {"open", "signalled"} \/ restarts' # restarts]_shellVars

(* A shell nobody reads any more is closed: the start was given up or has  *)
(* failed on its way, the page is gone, a poll has failed, or a kill was   *)
(* lost.  One that never got into _shells is not the reaper's to find.     *)
Unread(t) == poll[t] = "no" /\ (~pageOpen \/ term[t] = "over")
UnreadIsReaped ==
  \A t \in Term :
    (Unread(t) /\ shell[t] \in Counted \cup {"stray"})
      ~> (shell[t] \notin Counted \cup {"stray"})

(* _shell_reaper of runner.py: "an orphaned root shell should not outlive" *)
(* the terminal its teacher closed.                                        *)
ClosedIsReaped ==
  \A t \in Term :
    (term[t] \in {"closedEarly", "unseen", "over"})
      ~> (shell[t] \notin Counted \/ ~pageOpen)
=============================================================================
