------------------------------ MODULE StopAndGo ------------------------------
(***************************************************************************)
(* What a debugger promises.  The program stops; stops are shown in their  *)
(* order, none twice and none before it happened; and the program goes on  *)
(* only when it was told to, once for every time it was told.  A stop may  *)
(* stay unshown, and at any time the program may get away from the         *)
(* debugger for good.                                                      *)
(***************************************************************************)
EXTENDS Naturals

CONSTANT MaxStops   \* bound: how often the program stops

VARIABLES
  state,   \* "runs", "stopped", "gone"
  stops,   \* how often it has stopped
  seen,    \* the last stop that was shown
  view,    \* the stop that is shown now, 0: none
  asked    \* how often the program was told to go on

sagVars == <<state, stops, seen, view, asked>>

SagInit ==
  /\ state \in {"runs", "gone"}
  /\ stops = 0 /\ seen = 0 /\ view = 0 /\ asked = 0

Stops ==
  /\ state = "runs"
  /\ stops < MaxStops
  /\ state' = "stopped"
  /\ stops' = stops + 1
  /\ UNCHANGED <<seen, view, asked>>

Shows ==
  /\ seen' \in (seen + 1) .. stops
  /\ view' = seen'
  /\ UNCHANGED <<state, stops, asked>>

Hides ==
  /\ view' = 0
  /\ UNCHANGED <<state, stops, seen, asked>>

Tells ==
  /\ asked' = asked + 1
  /\ view' = 0
  /\ UNCHANGED <<state, stops, seen>>

(* It went on stops - 1 times before.                                      *)
GoesOn ==
  /\ state = "stopped"
  /\ stops <= asked
  /\ state' = "runs"
  /\ UNCHANGED <<stops, seen, view, asked>>

GetsAway ==
  /\ state' = "gone"
  /\ UNCHANGED <<stops, seen, view, asked>>

StopAndGoSpec ==
  SagInit /\ [][Stops \/ Shows \/ Hides \/ Tells \/ GoesOn \/ GetsAway]_sagVars
=============================================================================
