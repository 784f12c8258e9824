-------------------------------- MODULE Debug --------------------------------
(***************************************************************************)
(* One debugging session of a Python program, from the moment the editor   *)
(* has asked for it (ext/lc3/extension.ls, Lc3PythonDebug; web/runtime/    *)
(* pyodide-worker.ls, _Lc3Debugger and lc3DebugAsk; web/runtime/           *)
(* index.html).  The program runs in a worker of the page, which blocks    *)
(* while it is stopped; it therefore talks to the editor through the       *)
(* gateway's relay (Relay), and only start, stop and exit go over the      *)
(* page's BroadcastChannel.                                                *)
(***************************************************************************)
EXTENDS Relay

CONSTANTS
  MaxStops,     \* bound: how often the program stops
  MaxCommands   \* bound: how many commands the student gives, Stop and
                \* Disconnect among them

ASSUME DebugAssumption ==
  /\ {"debug-event", "debug-command"} \subseteq Channel
  /\ MaxStops \in Nat
  /\ MaxCommands \in Nat

VARIABLES
  pc,       \* where the program is
  stops,    \* how often it has stopped
  say,      \* the body of its request, until that has arrived
  ask,      \* that request: [at, got]
  alive,    \* the session's own flag
  view,     \* the stop the editor shows, 0: running, or terminated
  seen,     \* the last stop it has shown (history)
  told,     \* how often it told the program to go on
  missed,   \* the news of the last stop was forgotten or unreadable (history)
  poll,     \* the request for events: [at, got]
  posts,    \* the POSTs to /command and /stdin?end=1 under way
  killing,  \* "stop" is under way to the page
  exiting,  \* "exit" is under way to the editor
  term,     \* "ours", "idle", or "other": another run's, or closed
  ends,     \* how often the session cleaned up
  extra     \* how many other commands it sent

programVars == <<pc, stops, say, ask, exiting>>
sessionVars == <<alive, view, seen, told, poll, ends, extra>>
debugVars == <<programVars, sessionVars, missed, posts, killing, term, relayVars>>

Place == {
  "loading",   \* the worker compiles itself, loads Python and the files
  "running",   \* under the trace hook
  "asking",    \* stopped, inside lc3DebugAsk
  "loose",     \* the hook raised and the program caught it: no hook any more
  "over",      \* finished, "exit" posted
  "killed" }   \* the worker was terminated

StopNo == 1 .. MaxStops
Telling == 1 .. MaxCommands
Resume(k) == [cmd |-> "resume", of |-> k]     \* continue, next, stepIn, stepOut
Evaluate(n) == [cmd |-> "evaluate", of |-> n]
Breakpoints == [cmd |-> "breakpoints", of |-> 0]
StopCmd == [cmd |-> "stop", of |-> 0]
Wait == [cmd |-> "wait", of |-> 0]
End == [cmd |-> "end", of |-> 0]              \* the query end=1, no command
Command == {Resume(k) : k \in Telling} \cup {Evaluate(n) : n \in StopNo}
             \cup {Breakpoints, StopCmd}
None == [cmd |-> "none", of |-> 0]

Stopped(n) == [t |-> "stopped", of |-> n]
EvalEvent(n) == [t |-> "eval", of |-> n]
Ack == [t |-> "ack", of |-> 0]
Nothing == [t |-> "none", of |-> 0]           \* an empty body, or a 204
Event == [t : {"stopped", "eval", "ack", "none"}, of : 0 .. MaxStops]

Silent == [at |-> "no", got |-> None]

DebugInit ==
  /\ RelayInit
  /\ pc = "loading" /\ stops = 0 /\ say = Nothing /\ exiting = FALSE
  /\ ask = Silent
  /\ alive = TRUE /\ view = 0 /\ seen = 0 /\ ends = 0 /\ extra = 0
  /\ told = 0 /\ missed = FALSE
  /\ poll = [at |-> "sent", got |-> Nothing]
  /\ posts = {} /\ killing = FALSE /\ term = "ours"

Asks(m) ==
  /\ say' = m
  /\ ask' = [at |-> "sent", got |-> None]

-----------------------------------------------------------------------------
(* The program, in the worker.                                             *)

(* The files arrive and the program starts, or the run ends here.  A       *)
(* worker that cannot fetch or compile its own source throws, and nobody   *)
(* is told: it never gets to this.                                         *)
Prepare ==
  /\ pc = "loading"
  /\ \/ pc' = "running" /\ UNCHANGED exiting
     \/ pc' = "over" /\ exiting' = TRUE
  /\ UNCHANGED <<stops, say, ask, sessionVars, missed, posts, killing, term,
                 relayVars>>

(* A breakpoint, or the end of a step.                                     *)
StopsAtLine ==
  /\ pc = "running"
  /\ stops < MaxStops
  /\ pc' = "asking"
  /\ stops' = stops + 1
  /\ Asks(Stopped(stops'))
  /\ missed' = FALSE
  /\ UNCHANGED <<exiting, sessionVars, posts, killing, term, relayVars>>

Finishes ==
  /\ pc \in {"running", "loose"}
  /\ pc' = "over"
  /\ exiting' = TRUE
  /\ UNCHANGED <<stops, say, ask, sessionVars, missed, posts, killing, term,
                 relayVars>>

(* _Lc3Stop unwinds the program, unless the program catches it.            *)
Unwinds ==
  \/ pc' = "over" /\ exiting' = TRUE
  \/ pc' = "loose" /\ UNCHANGED exiting

(* Any failure of the request reads as stop.  The gateway may be at work   *)
(* on it, and go on.                                                       *)
AskFails ==
  /\ pc = "asking"
  /\ ask.at # "answered"
  /\ Unwinds
  /\ UNCHANGED <<stops, say, ask, sessionVars, missed, posts, killing, term,
                 relayVars>>

(* Mutant: the stop is announced again with every request.                 *)
TakeAnswerAgain ==
  /\ pc = "asking"
  /\ ask.at = "answered"
  /\ IF ask.got = Wait
       THEN Asks(Stopped(stops)) /\ UNCHANGED <<pc, exiting>>
       ELSE pc' = "running" /\ ask' = Silent
            /\ UNCHANGED <<say, exiting>>
  /\ UNCHANGED <<stops, sessionVars, missed, posts, killing, term, relayVars>>

(* The loop of pause: answered, it goes on, ends, or asks again with what  *)
(* it has to say now.                                                      *)
TakeAnswer ==
  /\ pc = "asking"
  /\ ask.at = "answered"
  /\ LET c == ask.got IN
     \/ /\ c \in {Wait, Breakpoints} \cup {Evaluate(n) : n \in StopNo}
        /\ Asks(CASE c = Wait -> Nothing
                  [] c = Breakpoints -> Ack
                  [] OTHER -> EvalEvent(c.of))
        /\ UNCHANGED <<pc, exiting>>
     \/ /\ c \in {Resume(k) : k \in Telling}
        /\ pc' = "running"
        /\ ask' = Silent
        /\ UNCHANGED <<say, exiting>>
     \/ /\ c = StopCmd
        /\ Unwinds
        /\ ask' = Silent
        /\ UNCHANGED say
  /\ UNCHANGED <<stops, sessionVars, missed, posts, killing, term, relayVars>>

(* The page terminates the worker, whatever it does, and boots another.    *)
(* There is nobody left to post "exit".                                    *)
KillWorker ==
  /\ killing
  /\ killing' = FALSE
  /\ pc' = IF pc = "over" THEN "over" ELSE "killed"
  /\ ask' = IF ask.at = "answered" THEN Silent ELSE ask
  /\ UNCHANGED <<stops, say, exiting, sessionVars, missed, posts, term, relayVars>>

-----------------------------------------------------------------------------
(* The gateway.                                                            *)

(* handleRunDebugPause pushes what the program says, if anything,          *)
PauseArrives ==
  /\ ask.at = "sent"
  /\ ask' = [ask EXCEPT !.at = "pushed"]
  /\ IF say = Nothing THEN UNCHANGED relayVars ELSE RelayPush("debug-event", say)
  /\ missed' = (missed \/ (say = Stopped(stops) /\ Full("debug-event")))
  /\ say' = Nothing
  /\ UNCHANGED <<pc, stops, exiting, sessionVars, posts, killing, term>>

(* and then looks for the queue of commands and waits on it,               *)
PauseWaits ==
  /\ ask.at = "pushed"
  /\ ask' = [ask EXCEPT !.at = "waiting"]
  /\ RelayWait("debug-command")
  /\ UNCHANGED <<pc, stops, say, exiting, sessionVars, missed, posts, killing, term>>

(* until there is one, or for 90 s, or until the worker is gone.           *)
PauseEnds ==
  /\ ask.at = "waiting"
  /\ \E c \in Command \cup {Wait} :
       /\ IF c = Wait THEN RelayGivesUp("debug-command")
          ELSE /\ RelayReceive("debug-command")
               /\ c = Head(Heard("debug-command"))
       /\ ask' = IF pc = "asking" THEN [at |-> "answered", got |-> c]
                 ELSE Silent
  /\ UNCHANGED <<pc, stops, say, exiting, sessionVars, missed, posts, killing, term>>

PollArrives ==
  /\ poll.at = "sent"
  /\ poll' = [poll EXCEPT !.at = "waiting"]
  /\ RelayWait("debug-event")
  /\ UNCHANGED <<programVars, alive, view, seen, told, missed, ends, extra,
                 posts, killing, term>>

PollEnds ==
  /\ poll.at = "waiting"
  /\ \/ /\ RelayGivesUp("debug-event")
        /\ poll' = [at |-> "replied", got |-> Nothing]
     \/ /\ RelayReceive("debug-event")
        /\ poll' = [at |-> "replied", got |-> Head(Heard("debug-event"))]
  /\ UNCHANGED <<programVars, alive, view, seen, told, missed, ends, extra,
                 posts, killing, term>>

(* Mutant: a POST whose answer is late is sent again.                      *)
PostArrivesAgain(c) ==
  /\ c \in posts
  /\ IF c = End THEN DropRelayQueues ELSE RelayPush("debug-command", c)
  /\ UNCHANGED <<programVars, sessionVars, missed, posts, killing, term>>

(* POSTs are sent without waiting for each other: they arrive in any       *)
(* order.                                                                  *)
PostArrives(c) ==
  /\ c \in posts
  /\ posts' = posts \ {c}
  /\ IF c = End THEN DropRelayQueues ELSE RelayPush("debug-command", c)
  /\ UNCHANGED <<programVars, sessionVars, missed, killing, term>>

(* One that fails is not sent again, and nobody is told.                   *)
PostFails(c) ==
  /\ c \in posts
  /\ posts' = posts \ {c}
  /\ UNCHANGED <<programVars, sessionVars, missed, killing, term, relayVars>>

-----------------------------------------------------------------------------
(* The editor.                                                             *)

MayCommand == told + extra + ends < MaxCommands

(* continue, next, stepIn or stepOut: nothing asks whether a stop is shown *)
(* or the session alive.                                                   *)
ResumeProgram ==
  /\ MayCommand
  /\ told' = told + 1
  /\ view' = 0
  /\ posts' = posts \cup {Resume(told')}
  /\ UNCHANGED <<programVars, alive, seen, missed, poll, ends, extra, killing,
                 term, relayVars>>

(* Hovers, the watch window, the console; and breakpoints at any time.     *)
SendExtra ==
  /\ MayCommand
  /\ extra' = extra + 1
  /\ posts' = posts \cup {IF view # 0 /\ extra' % 2 = 1 THEN Evaluate(view) ELSE Breakpoints}
  /\ UNCHANGED <<programVars, alive, view, seen, told, missed, poll, ends,
                 killing, term, relayVars>>

(* Mutant: a poll that brought nothing is the last.                        *)
TakeEventOnce ==
  /\ poll.at = "replied"
  /\ poll' = [at |-> IF poll.got = Nothing THEN "no" ELSE "sent", got |-> Nothing]
  /\ IF alive /\ poll.got.t = "stopped"
       THEN view' = poll.got.of /\ seen' = poll.got.of
       ELSE UNCHANGED <<view, seen>>
  /\ UNCHANGED <<programVars, alive, told, missed, ends, extra, posts, killing,
                 term, relayVars>>

(* The callback of a poll: what came is shown, and the next poll is sent.  *)
(* A session that is over listens no more.                                 *)
TakeEvent ==
  /\ poll.at = "replied"
  /\ IF ~alive
       THEN poll' = [at |-> "no", got |-> Nothing] /\ UNCHANGED <<view, seen>>
       ELSE /\ poll' = [at |-> "sent", got |-> Nothing]
            /\ IF poll.got.t = "stopped"
                 THEN view' = poll.got.of /\ seen' = poll.got.of
                 ELSE UNCHANGED <<view, seen>>
  /\ UNCHANGED <<programVars, alive, told, missed, ends, extra, posts, killing,
                 term, relayVars>>

(* A body that is not JSON, because the gateway cut it at 4 MiB or the     *)
(* reply broke off: it is consumed, shows nothing, and the next poll goes  *)
(* out.                                                                    *)
EventUnreadable ==
  /\ poll.at = "replied"
  /\ poll.got # Nothing
  /\ alive
  /\ poll' = [at |-> "sent", got |-> Nothing]
  /\ missed' = (missed \/ poll.got = Stopped(stops))
  /\ UNCHANGED <<programVars, alive, view, seen, told, ends, extra, posts,
                 killing, term, relayVars>>

(* Mutant: a poll that failed is simply sent again.                        *)
PollFailsRetry ==
  /\ alive
  /\ poll.at # "replied"
  /\ poll' = [at |-> "sent", got |-> Nothing]
  /\ UNCHANGED <<programVars, alive, view, seen, told, missed, ends, extra,
                 posts, killing, term, relayVars>>

Exited == alive' = FALSE /\ view' = 0

(* "lost contact with the program": a poll that fails ends the session,    *)
(* though not its request in the gateway, if it got there.                 *)
PollFails ==
  /\ alive
  /\ Exited
  /\ UNCHANGED <<programVars, seen, told, missed, poll, ends, extra, posts,
                 killing, term, relayVars>>

(* The session's cleanup, once stopped or exited; the workbench asks for   *)
(* it with disconnect, and again when it disposes of the adapter.          *)
Cleanup(more) ==
  /\ ends' = ends + 1
  /\ posts' = posts \cup {End} \cup more
  /\ term' = IF term = "ours" THEN "idle" ELSE term

PressStop ==
  /\ alive
  /\ MayCommand
  /\ Exited
  /\ killing' = TRUE
  /\ Cleanup({StopCmd})
  /\ UNCHANGED <<programVars, seen, told, missed, poll, extra, relayVars>>

Disconnect ==
  /\ ~alive
  /\ MayCommand
  /\ Cleanup({})
  /\ UNCHANGED <<programVars, alive, view, seen, told, missed, poll, extra,
                 killing, relayVars>>

(* Ctrl+C in the terminal, or the terminal closed, or another Run or       *)
(* debug started: stop-run.                                                *)
StopRun ==
  /\ term' \in {"idle", "other"} \ {term}
  /\ IF term = "ours"
       THEN killing' = TRUE /\ posts' = posts \cup {End}
       ELSE term' = "other" /\ UNCHANGED <<killing, posts>>
  /\ UNCHANGED <<programVars, sessionVars, missed, relayVars>>

(* on-runtime-message: dropped when the terminal is gone or another run's. *)
HearExit ==
  /\ exiting
  /\ exiting' = FALSE
  /\ IF term \in {"ours", "idle"}
       THEN term' = "idle" /\ Exited
       ELSE UNCHANGED <<term, alive, view>>
  /\ UNCHANGED <<pc, stops, say, ask, seen, told, missed, poll, ends, extra,
                 posts, killing, relayVars>>

-----------------------------------------------------------------------------

AskStep == PauseArrives \/ PauseWaits \/ PauseEnds \/ TakeAnswer
PollStep == PollArrives \/ PollEnds \/ TakeEvent
PostStep == \E c \in posts : PostArrives(c) \/ PostFails(c)

DebugNext ==
  \/ Prepare \/ StopsAtLine \/ Finishes \/ AskFails \/ KillWorker
  \/ AskStep \/ PollStep \/ PostStep
  \/ ResumeProgram \/ SendExtra \/ EventUnreadable \/ PollFails \/ PressStop \/ Disconnect
  \/ StopRun \/ HearExit

DebugSpec == DebugInit /\ [][DebugNext]_debugVars

(* Handlers are ended by their time-outs, callbacks and messages of the    *)
(* page are delivered.  The program and the student owe nothing.           *)
LoopFairness ==
  /\ WF_debugVars(AskStep)
  /\ WF_debugVars(PollStep)
  /\ WF_debugVars(KillWorker \/ HearExit)

LoopSpec == DebugSpec /\ LoopFairness

(* Even if every POST reached the gateway or failed, and the workbench     *)
(* disconnected from every session that is over.                           *)
FairDebugSpec ==
  LoopSpec /\ WF_debugVars(PostStep) /\ WF_debugVars(Disconnect)

-----------------------------------------------------------------------------

(* The variables hold what program, gateway and editor keep in them, and   *)
(* no queue holds more than it can.                                        *)
DebugTypeOK ==
  /\ \A c \in Channel : Len(queue[c]) <= QueueMax /\ Len(orphan[c]) <= QueueMax
  /\ wait \in [Channel -> {"no"} \cup Waiting]
  /\ pc \in Place
  /\ stops \in 0 .. MaxStops
  /\ say \in Event
  /\ ask \in [at : {"no", "sent", "pushed", "waiting", "answered"},
              got : Command \cup {Wait, None}]
  /\ alive \in BOOLEAN
  /\ {view, seen} \subseteq 0 .. MaxStops
  /\ poll \in [at : {"no", "sent", "waiting", "replied"}, got : Event]
  /\ told \in 0 .. MaxCommands
  /\ missed \in BOOLEAN
  /\ posts \subseteq Command \cup {End}
  /\ {killing, exiting} \subseteq BOOLEAN
  /\ term \in {"ours", "idle", "other"}
  /\ ends \in 0 .. MaxCommands
  /\ extra \in 0 .. MaxCommands

(* Each queue has one reader at a time: nothing the program or the editor  *)
(* waits for is taken by an older request of theirs that was given up.     *)
OneReader ==
  /\ ask.at \in {"sent", "pushed"} => wait["debug-command"] = "no"
  /\ poll.at = "sent" => wait["debug-event"] = "no"

(* While the editor shows the program stopped at stop n, and it was told   *)
(* to go on fewer than n times, the program is there and will stay there   *)
(* until it is told, unless it got away: what the student inspects is      *)
(* where the program stands.  Whoever gives a command too many, twice in a *)
(* hurry or before the stop is shown, may be shown a stop the program has  *)
(* left; a command never counts for more than one stop.                    *)
ViewIsCurrent ==
  (alive /\ view # 0 /\ told < view) =>
    /\ view = stops
    /\ pc \notin {"loading", "running"}

(* Program and editor, with two long polls, unordered POSTs and queues     *)
(* that may be dropped in between, take their turns as StopAndGo says: the *)
(* program goes on once for each command, stops are shown in their order   *)
(* and none twice.                                                         *)
Turns == INSTANCE StopAndGo WITH
  state <- IF pc = "asking" THEN "stopped"
           ELSE IF pc \in {"loading", "running"} THEN "runs" ELSE "gone",
  asked <- told

TakesTurns == Turns!StopAndGoSpec

(* A program that waits at a stop while a command to go on is in its queue *)
(* goes on, though the queue may be dropped under the request that waits   *)
(* on it, or the session is being ended.                                   *)
ResumeReaches ==
  /\ pc = "asking"
  /\ \E k \in Telling : Resume(k) \in ToSet(queue["debug-command"])
  ~> (pc # "asking" \/ ~alive)

(* A stop of the program is shown, or the program or the session is over,  *)
(* unless its own news found the queue full or could not be read: then the *)
(* program waits, and the editor shows it running, for as long as both     *)
(* live.                                                                   *)
PauseIsSeen ==
  pc = "asking" ~> (seen = stops \/ pc # "asking" \/ ~alive \/ missed)

(* extension.ls:911: "A debug session ends when its program does".         *)
SessionEnds == (pc \in {"over", "killed"}) ~> ~alive
=============================================================================
