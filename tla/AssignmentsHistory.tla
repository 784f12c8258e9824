------------------------- MODULE AssignmentsHistory -------------------------
(***************************************************************************)
(* Two promises of the README that the requests of Assignments do not      *)
(* keep, and the history they are about.                                   *)
(***************************************************************************)
EXTENDS Assignments

VARIABLES
  gaveUp,     \* the students who deleted the folder and have not got it back
  takenBack   \* those whose work was taken back with their class, a copy of it
              \* having been kept

HistoryInit == AssignInit /\ gaveUp = {} /\ takenBack = {}

(* A student's own step leaves the requests alone.                         *)
Deletes(s) == UNCHANGED task /\ home[s] # "none"

(* A change of the classes of an open assignment takes the work of s back. *)
TakesWork(s) ==
  /\ ~Load.closed
  /\ \E t \in Task : /\ task[t].kind = "settings" /\ Phase(t) = "remove"
                     /\ s \in task[t].cur /\ task'[t] # task[t]

HistoryNext ==
  /\ AssignNext
  /\ gaveUp' = {s \in Student : home'[s] = "none" /\ (s \in gaveUp \/ Deletes(s))}
  /\ takenBack' = {s \in Student : kept'[s] = "work" /\ (s \in takenBack \/ TakesWork(s))}

HistorySpec ==
  HistoryInit /\ [][HistoryNext]_<<assignVars, gaveUp, takenBack>>

Quiescent == \A t \in Task : Phase(t) = "idle"

(* README.md: "Whoever joins a class gets whatever that class already has. *)
(* That holds however they arrive", "with nothing to republish".  So once  *)
(* no request is under way, every student of a class an open assignment is *)
(* for has its folder, but for those who deleted it themselves.            *)
JoinersHaveWork ==
  Quiescent /\ ~Load.closed =>
    \A s \in Student \ gaveUp : class[s] \in Load.classes => home[s] # "none"

(* README.md: removing a class takes its work back, "keeping a copy of     *)
(* what they had done".  Only deleting the assignment deletes that copy.   *)
SnapshotsAreKept ==
  [][\A s \in takenBack :
       \/ kept'[s] = "work"
       \/ \E t \in Task : Phase(t) = "wipeKept"]_<<assignVars, gaveUp, takenBack>>
=============================================================================
