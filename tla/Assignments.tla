---------------------------- MODULE Assignments ----------------------------
(***************************************************************************)
(* The life of one assignment on the gateway (server/main.go): created,    *)
(* published, unpublished, recalled, given to other classes and deleted,   *)
(* while students save their work and join, change and leave classes.      *)
(*                                                                         *)
(* Every request is served by a goroutine (a task) that takes no lock: its *)
(* reads and writes of the manifest, the user table and the directories    *)
(* are steps of their own, interleaved with those of the other tasks and   *)
(* with the students' saves.  A folder is abstracted to what it holds.     *)
(* The loops over assignments treat each one by itself, so one is enough.  *)
(*                                                                         *)
(* With no lock, what a request promises depends on the others.  Three     *)
(* history variables say which: what is promised holds of the students     *)
(* that no other step disturbed while the request was under way.           *)
(***************************************************************************)
EXTENDS Integers, Sequences

CONSTANTS
  Student, Class,
  NoClass,       \* the class '' of a student who is in none
  NoAccount,     \* no row in the users table
  Task,          \* the requests that may be under way at once
  DiskMayFail,   \* whether a file may fail to be written
  MaxRequests    \* bound: the requests made in a behaviour

ASSUME AssignAssumption ==
  /\ {NoClass, NoAccount} \cap Class = {}
  /\ NoClass # NoAccount
  /\ DiskMayFail \in BOOLEAN
  /\ MaxRequests \in Nat

VARIABLES
  manifest,   \* manifest.json
  dir,        \* the assignment's directory: none, bare (files lack), ready
  class,      \* [Student -> Class], the users table
  home,       \* [Student -> Content], the student's folder for the assignment
  kept,       \* [Student -> Content], the student's folder under collected/
  task,       \* [Task -> the state of the request being served]
  requests,   \* how many requests there have been
  wasClosed,  \* history: the closed flag of the last manifest written
  crossed,    \* history: the requests under way since whose beginning
              \* another has changed the manifest or the directory
  touched,    \* history: [Task -> SUBSET Student], those whose class, folder
              \* or kept copy another step has changed, or all if crossed
  broke       \* history: [Task -> SUBSET Student], those for whom a copy of
              \* the request itself broke off

fileVars == <<manifest, dir, class, home, kept>>
noteVars == <<crossed, touched, broke>>
assignVars == <<fileVars, task, requests, wasClosed, noteVars>>

(* bare: not all files that belong in it.                                  *)
Content == {"none", "bare", "starter", "work"}

(* manifest.json is missing, truncated by a writer, garbled by two, or     *)
(* there to be read; only then do the other fields mean anything.          *)
Manifest(file, cs, closed) == [file |-> file, classes |-> cs, closed |-> closed]
Nil == Manifest("none", {}, TRUE)

(* loadManifest: nil unless the file can be read and parsed.               *)
Load == IF manifest.file = "saved" THEN manifest ELSE Nil

(* What a task still has to do, and its local variables.                   *)
Idle == [kind |-> "idle", prog |-> <<>>, m |-> Nil, todo |-> {}, queue |-> {},
         seen |-> {}, cur |-> {}, cls |-> NoClass, dropped |-> {}]

Phase(t) == IF task[t].prog = <<>> THEN "idle" ELSE Head(task[t].prog)
Rest(t) == Tail(task[t].prog)

Becomes(t, local) ==
  task' = [task EXCEPT ![t] = IF local.prog = <<>> THEN Idle ELSE local]
Goes(t, prog) == Becomes(t, [task[t] EXCEPT !.prog = prog])

Cur(t) == CHOOSE s \in task[t].cur : TRUE

(* copyTree into a directory that may hold something already.              *)
Overlay(old, new) ==
  IF new = "none" \/ (new = "bare" /\ old # "none") THEN old ELSE new

(* What is there afterwards.  A copy that breaks off has not begun, or     *)
(* leaves some files missing or cut short; the callers ignore its error.   *)
Copies(old, new) ==
  {Overlay(old, new)} \cup
    (IF DiskMayFail /\ new # "none" THEN {old, "bare"} ELSE {})

-----------------------------------------------------------------------------

(* Before the requests of a run: there is no assignment, or it is closed,  *)
(* or published to the students of its classes.                            *)
AssignInit ==
  /\ \/ manifest = Nil /\ dir = "none"
     \/ dir = "ready" /\ \E cs \in SUBSET Class \ {{}}, closed \in BOOLEAN :
                            manifest = Manifest("saved", cs, closed)
  /\ class \in [Student -> Class \cup {NoClass, NoAccount}]
  /\ home = [s \in Student |-> IF ~Load.closed /\ class[s] \in Load.classes
                               THEN "starter" ELSE "none"]
  /\ kept = [s \in Student |-> "none"]
  /\ task = [t \in Task |-> Idle]
  /\ requests = 0
  /\ wasClosed = Load.closed
  /\ crossed = {}
  /\ touched = [t \in Task |-> {}]
  /\ broke = [t \in Task |-> {}]

-----------------------------------------------------------------------------
(* The walk over the students of some classes.  Publish lists every class  *)
(* before it copies anything; the other walks go class by class.           *)

Walks == {"handOut", "collect", "reconcile", "takeBack"}

ListClass(t) ==
  /\ Phase(t) \in Walks
  /\ Phase(t) = "handOut" \/ task[t].queue = {}
  /\ \E c \in task[t].todo :
       LET found == {s \in Student : class[s] = c} \ task[t].seen IN
       Becomes(t, [task[t] EXCEPT
                     !.todo = @ \ {c},
                     !.queue = @ \cup found,
                     !.seen = IF Phase(t) = "takeBack" THEN @ ELSE @ \cup found])
  /\ UNCHANGED <<fileVars, requests, wasClosed>>

WalkEnds(t) ==
  /\ Phase(t) \in Walks
  /\ task[t].todo = {} /\ task[t].queue = {}
  /\ Goes(t, Rest(t))
  /\ UNCHANGED <<fileVars, requests, wasClosed>>

StartWalk(t, prog, cs) ==
  Becomes(t, [task[t] EXCEPT !.prog = prog, !.todo = cs, !.queue = {}, !.seen = {}])

-----------------------------------------------------------------------------
(* publishAssignment *)

PublishLoad(t) ==
  /\ Phase(t) = "publish"
  /\ IF dir # "none" /\ Load # Nil
       THEN StartWalk(t, <<"handOut", "reopen">> \o Rest(t), Load.classes)
       ELSE Goes(t, Rest(t))
  /\ UNCHANGED <<fileVars, requests, wasClosed>>

(* Mutant: whoever has the folder has its files.                           *)
HandOutFolders(t) ==
  /\ Phase(t) = "handOut"
  /\ task[t].todo = {}
  /\ \E s \in task[t].queue :
       Becomes(t, [task[t] EXCEPT
                     !.queue = @ \ {s},
                     !.cur = {s},
                     !.prog = IF home[s] = "none" THEN <<"copy">> \o @ ELSE @])
  /\ UNCHANGED <<fileVars, requests, wasClosed>>

(* copyMissing looks for the student's copy of a file ...                  *)
HandOut(t) ==
  /\ Phase(t) = "handOut"
  /\ task[t].todo = {}
  /\ \E s \in task[t].queue :
       Becomes(t, [task[t] EXCEPT
                     !.queue = @ \ {s},
                     !.cur = {s},
                     !.prog = IF home[s] \in {"none", "bare"} THEN <<"copy">> \o @ ELSE @])
  /\ UNCHANGED <<fileVars, requests, wasClosed>>

(* What a copy of the starter takes its files from.                        *)
Starter == CASE dir = "none" -> "none" [] dir = "bare" -> "bare" [] OTHER -> "starter"

(* ... and writes it, whatever is there by now, as copyTree does.          *)
CopyStarter(t) ==
  /\ Phase(t) = "copy"
  /\ \E c \in Copies(home[Cur(t)], Starter) : home' = [home EXCEPT ![Cur(t)] = c]
  /\ Goes(t, Rest(t))
  /\ UNCHANGED <<manifest, dir, class, kept, requests, wasClosed>>

(* setAssignmentClosed(id, false), its error ignored.                      *)
Reopen(t) ==
  /\ Phase(t) = "reopen"
  /\ IF Load = Nil
       THEN Goes(t, Rest(t))
       ELSE Becomes(t, [task[t] EXCEPT !.prog = <<"trySave", "tryWrite">> \o Rest(t),
                                       !.m = [Load EXCEPT !.closed = FALSE]])
  /\ UNCHANGED <<fileVars, requests, wasClosed>>

-----------------------------------------------------------------------------
(* saveManifest: os.WriteFile truncates the file, then writes it.  If it   *)
(* fails the request ends there, but publishAssignment ignores the error.  *)

Tries(t) == Phase(t) \in {"trySave", "tryWrite"}

SaveFails(t, rest) ==
  /\ Goes(t, IF Tries(t) THEN rest ELSE <<>>)
  /\ UNCHANGED <<manifest, wasClosed>>

Truncate(t) ==
  /\ Phase(t) \in {"save", "trySave"}
  /\ \/ dir # "none" /\ manifest' = Manifest("empty", {}, TRUE)
        /\ Goes(t, Rest(t)) /\ UNCHANGED wasClosed
     \/ (dir = "none" \/ DiskMayFail) /\ SaveFails(t, Tail(Rest(t)))
  /\ UNCHANGED <<dir, class, home, kept, requests>>

(* Where another writer was in between, its longer text shows behind ours. *)
Written(m) ==
  CASE manifest.file = "none"  -> {manifest}
    [] manifest.file = "empty" -> {m}
    [] OTHER -> {m} \cup (IF manifest = m THEN {} ELSE {Manifest("garbled", {}, TRUE)})

Write(t) ==
  /\ Phase(t) \in {"write", "tryWrite"}
  /\ \/ /\ manifest' \in Written(task[t].m)
        /\ wasClosed' = IF manifest'.file = "saved" THEN manifest'.closed ELSE wasClosed
        /\ Goes(t, Rest(t))
     \/ DiskMayFail /\ SaveFails(t, Rest(t))
  /\ UNCHANGED <<dir, class, home, kept, requests>>

-----------------------------------------------------------------------------
(* handleAdminUnpublish and recallAssignment *)

Close(t) ==
  /\ Phase(t) = "close"
  /\ IF Load = Nil
       THEN Goes(t, <<>>)
       ELSE Becomes(t, [task[t] EXCEPT !.prog = <<"save", "write">> \o Rest(t),
                                       !.m = [Load EXCEPT !.closed = TRUE]])
  /\ UNCHANGED <<fileVars, requests, wasClosed>>

(* The snapshots of every student go before the new ones are taken.        *)
Recall(t) ==
  /\ Phase(t) = "recall"
  /\ IF Load = Nil
       THEN Goes(t, Rest(t)) /\ UNCHANGED kept
       ELSE /\ kept' = [s \in Student |-> "none"]
            /\ StartWalk(t, <<"collect">> \o Rest(t), Load.classes)
  /\ UNCHANGED <<manifest, dir, class, home, requests, wasClosed>>

Collect(t) ==
  /\ Phase(t) = "collect"
  /\ \E s \in task[t].queue :
       /\ \E c \in Copies(kept[s], home[s]) : kept' = [kept EXCEPT ![s] = c]
       /\ Becomes(t, [task[t] EXCEPT !.queue = @ \ {s}])
  /\ UNCHANGED <<manifest, dir, class, home, requests, wasClosed>>

Reload(t) ==
  /\ Phase(t) = "reload"
  /\ IF Load = Nil THEN Goes(t, Rest(t))
     ELSE StartWalk(t, <<"reconcile">> \o Rest(t), Load.classes)
  /\ UNCHANGED <<fileVars, requests, wasClosed>>

-----------------------------------------------------------------------------
(* reconcileStudent *)

ReconcileNext(t) ==
  /\ Phase(t) \in {"reconcile", "takeBack"}
  /\ \E s \in task[t].queue :
       Becomes(t, [task[t] EXCEPT !.queue = @ \ {s}, !.cur = {s},
                                  !.prog = <<"user">> \o @])
  /\ UNCHANGED <<fileVars, requests, wasClosed>>

ReconcileUser(t) ==
  /\ Phase(t) = "user"
  /\ IF class[Cur(t)] = NoAccount
       THEN Goes(t, Rest(t))
       ELSE Becomes(t, [task[t] EXCEPT !.prog = <<"target">> \o Rest(t),
                                       !.cls = class[Cur(t)]])
  /\ UNCHANGED <<fileVars, requests, wasClosed>>

(* Mutant: closed assignments are given to those who join.                 *)
ReconcileTargetAny(t) ==
  /\ Phase(t) = "target"
  /\ Goes(t, (IF task[t].cls \in Load.classes
              THEN <<"give">> ELSE <<"snapshot">>) \o Rest(t))
  /\ UNCHANGED <<fileVars, requests, wasClosed>>

(* Mutant: the folder goes without a snapshot.                             *)
ReconcileTargetRemoves(t) ==
  /\ Phase(t) = "target"
  /\ Goes(t, (IF ~Load.closed /\ task[t].cls \in Load.classes
              THEN <<"give">> ELSE <<"remove">>) \o Rest(t))
  /\ UNCHANGED <<fileVars, requests, wasClosed>>

ReconcileTarget(t) ==
  /\ Phase(t) = "target"
  /\ Goes(t, (IF ~Load.closed /\ task[t].cls \in Load.classes
              THEN <<"give">> ELSE <<"snapshot">>) \o Rest(t))
  /\ UNCHANGED <<fileVars, requests, wasClosed>>

ReconcileGive(t) ==
  /\ Phase(t) = "give"
  /\ Goes(t, (IF home[Cur(t)] = "none" THEN <<"copy">> ELSE <<>>) \o Rest(t))
  /\ UNCHANGED <<fileVars, requests, wasClosed>>

(* Whether the snapshot succeeded or not, the folder goes.                 *)
ReconcileSnapshot(t) ==
  /\ Phase(t) = "snapshot"
  /\ IF home[Cur(t)] = "none" \/ manifest.file = "none"
       THEN Goes(t, Rest(t)) /\ UNCHANGED kept
       ELSE /\ \E c \in Copies(kept[Cur(t)], home[Cur(t)]) :
                 kept' = [kept EXCEPT ![Cur(t)] = c]
            /\ Goes(t, <<"remove">> \o Rest(t))
  /\ UNCHANGED <<manifest, dir, class, home, requests, wasClosed>>

ReconcileRemove(t) ==
  /\ Phase(t) = "remove"
  /\ home' = [home EXCEPT ![Cur(t)] = "none"]
  /\ Goes(t, Rest(t))
  /\ UNCHANGED <<manifest, dir, class, kept, requests, wasClosed>>

-----------------------------------------------------------------------------
(* Upload, create from a folder, change the settings, delete *)

(* Mutant: the files go and the manifest stays.                            *)
WipeDirOnly(t) ==
  /\ Phase(t) = "wipe"
  /\ dir' = "none"
  /\ Goes(t, Rest(t))
  /\ UNCHANGED <<manifest, class, home, kept, requests, wasClosed>>

WipeDir(t) ==
  /\ Phase(t) = "wipe"
  /\ dir' = "none" /\ manifest' = Nil
  /\ Goes(t, Rest(t))
  /\ UNCHANGED <<class, home, kept, requests, wasClosed>>

(* The errors of these two are ignored.                                    *)
MakeDir(t) ==
  /\ Phase(t) = "make"
  /\ dir' \in {IF dir = "none" THEN "bare" ELSE dir} \cup (IF DiskMayFail THEN {dir} ELSE {})
  /\ Goes(t, Rest(t))
  /\ UNCHANGED <<manifest, class, home, kept, requests, wasClosed>>

FillDir(t) ==
  /\ Phase(t) = "fill"
  /\ dir' \in {"ready"} \cup (IF DiskMayFail THEN {dir} ELSE {})
  /\ Goes(t, Rest(t))
  /\ UNCHANGED <<manifest, class, home, kept, requests, wasClosed>>

TakeBackDropped(t) ==
  /\ Phase(t) = "dropped"
  /\ StartWalk(t, <<"takeBack">> \o Rest(t), task[t].dropped)
  /\ UNCHANGED <<fileVars, requests, wasClosed>>

WipeKept(t) ==
  /\ Phase(t) = "wipeKept"
  /\ kept' = [s \in Student |-> "none"]
  /\ Becomes(t, [task[t] EXCEPT
                   !.prog = <<"wipeHomes">> \o Rest(t),
                   !.queue = {s \in Student : class[s] # NoAccount}])
  /\ UNCHANGED <<manifest, dir, class, home, requests, wasClosed>>

WipeHomes(t) ==
  /\ Phase(t) = "wipeHomes"
  /\ \/ /\ task[t].queue = {}
        /\ Goes(t, Rest(t))
        /\ UNCHANGED home
     \/ \E s \in task[t].queue :
          /\ home' = [home EXCEPT ![s] = "none"]
          /\ Becomes(t, [task[t] EXCEPT !.queue = @ \ {s}])
  /\ UNCHANGED <<manifest, dir, class, kept, requests, wasClosed>>

-----------------------------------------------------------------------------
(* The requests of the teacher, and of a student who signs up.             *)

Request(t) ==
  /\ Phase(t) = "idle"
  /\ requests < MaxRequests
  /\ requests' = requests + 1

Serve(t, kind, prog) == Becomes(t, [Idle EXCEPT !.kind = kind, !.prog = prog])

HandlePublish(t) ==
  /\ Request(t)
  /\ Serve(t, "publish", <<"publish">>)
  /\ UNCHANGED <<fileVars, wasClosed>>

(* Mutant: the manifest is closed after the folders are taken back.        *)
HandleUnpublishLate(t) ==
  /\ Request(t)
  /\ Serve(t, "unpublish", <<"recall", "reload", "close">>)
  /\ UNCHANGED <<fileVars, wasClosed>>

HandleUnpublish(t) ==
  /\ Request(t)
  /\ Serve(t, "unpublish", <<"close", "recall", "reload">>)
  /\ UNCHANGED <<fileVars, wasClosed>>

HandleRecall(t) ==
  /\ Request(t)
  /\ Serve(t, "recall", <<"recall">>)
  /\ UNCHANGED <<fileVars, wasClosed>>

(* cs = {} stands for a request that names no classes.                     *)
HandleSettings(t, cs) ==
  /\ Request(t)
  /\ Load # Nil
  /\ LET m == IF cs = {} THEN Load ELSE [Load EXCEPT !.classes = cs] IN
     Becomes(t, [Idle EXCEPT
                   !.kind = "settings",
                   !.m = m,
                   !.dropped = Load.classes \ m.classes,
                   !.prog = <<"save", "write">>
                              \o (IF cs # {} /\ ~m.closed THEN <<"publish">> ELSE <<>>)
                              \o (IF cs # {} THEN <<"dropped">> ELSE <<>>)])
  /\ UNCHANGED <<fileVars, wasClosed>>

(* Mutant: a new assignment starts open.                                   *)
NewIsOpen(cs) == Manifest("saved", cs, Load # Nil /\ Load.closed)

(* keepPublishState: what exists keeps its state, a new one starts closed. *)
KeepPublishState(cs) == Manifest("saved", cs, Load.closed)

HandleCreate(t, cs) ==
  /\ Request(t)
  /\ LET m == KeepPublishState(cs) IN
     Becomes(t, [Idle EXCEPT
                   !.kind = "create",
                   !.m = m,
                   !.prog = <<"wipe", "make", "fill", "save", "write">>
                              \o (IF m.closed THEN <<>> ELSE <<"publish">>)])
  /\ UNCHANGED <<fileVars, wasClosed>>

HandleDelete(t) ==
  /\ Request(t)
  /\ Serve(t, "delete", <<"wipe", "wipeKept">>)
  /\ UNCHANGED <<fileVars, wasClosed>>

(* A sign-up, a student added by the teacher, or moved to another class.   *)
HandleEnroll(t, s, c) ==
  /\ Request(t)
  /\ class' = [class EXCEPT ![s] = c]
  /\ Becomes(t, [Idle EXCEPT !.kind = "enroll", !.prog = <<"user">>, !.cur = {s}])
  /\ UNCHANGED <<manifest, dir, home, kept, wasClosed>>

(* One statement each, and no reconcile.                                   *)
HandleDelClass(t, c) ==
  /\ Request(t)
  /\ class' = [s \in Student |-> IF class[s] = c THEN NoClass ELSE class[s]]
  /\ UNCHANGED <<manifest, dir, home, kept, task, wasClosed>>

HandleDelStudent(t, s) ==
  /\ Request(t)
  /\ class' = [class EXCEPT ![s] = NoAccount]
  /\ UNCHANGED <<manifest, dir, home, kept, task, wasClosed>>

-----------------------------------------------------------------------------
(* The student's own files. *)

StudentSaves(s) ==
  /\ class[s] # NoAccount
  /\ home' = [home EXCEPT ![s] = "work"]
  /\ UNCHANGED <<manifest, dir, class, kept, task, requests, wasClosed>>

StudentDeletes(s) ==
  /\ class[s] # NoAccount
  /\ home[s] # "none"
  /\ home' = [home EXCEPT ![s] = "none"]
  /\ UNCHANGED <<manifest, dir, class, kept, task, requests, wasClosed>>

-----------------------------------------------------------------------------
(* History: what a step means to the requests it is not a step of.  It is  *)
(* forgotten when the request is over.                                     *)

Crosses == <<manifest', dir'>> # <<manifest, dir>>

Disturbed ==
  IF Crosses THEN Student
  ELSE {s \in Student :
          \/ class'[s] # class[s]
          \/ home'[s] # home[s] /\ ~({home[s], home'[s]} \subseteq {"starter", "work"})
          \/ kept[s] # "none" /\ kept'[s] = "none"}

(* The student of a copy of t that breaks off in this step.                *)
BreaksOff(t) ==
  CASE Phase(t) = "copy" ->
         {s \in task[t].cur : home'[s] # Overlay(home[s], Starter)}
    [] Phase(t) = "collect" ->
         {s \in task[t].queue \ task'[t].queue : kept'[s] # Overlay(kept[s], home[s])}
    [] Phase(t) = "snapshot" ->
         {s \in task[t].cur : kept'[s] # Overlay(kept[s], home[s])}
    [] OTHER -> {}

(* own: whose step it is, if it is not a student's.                        *)
Note(own) ==
  LET under == {t \in Task : Phase(t) # "idle" /\ task'[t].prog # <<>>} IN
  /\ crossed' = {t \in under : t \in crossed \/ (t \notin own /\ Crosses)}
  /\ touched' = [t \in Task |-> IF t \notin under THEN {}
                                ELSE IF t \in own THEN touched[t]
                                ELSE touched[t] \cup Disturbed]
  /\ broke' = [t \in Task |-> IF t \notin under THEN {}
                              ELSE IF t \in own THEN broke[t] \cup BreaksOff(t)
                              ELSE broke[t]]

-----------------------------------------------------------------------------

TaskStep(t) ==
  \/ ListClass(t) \/ WalkEnds(t) \/ PublishLoad(t) \/ HandOut(t)
  \/ CopyStarter(t) \/ Reopen(t) \/ Truncate(t) \/ Write(t) \/ Close(t)
  \/ Recall(t) \/ Collect(t) \/ Reload(t) \/ ReconcileNext(t)
  \/ ReconcileUser(t) \/ ReconcileTarget(t) \/ ReconcileGive(t)
  \/ ReconcileSnapshot(t) \/ ReconcileRemove(t) \/ WipeDir(t) \/ MakeDir(t)
  \/ FillDir(t) \/ TakeBackDropped(t) \/ WipeKept(t) \/ WipeHomes(t)

HandleRequest(t) ==
  \/ HandlePublish(t) \/ HandleUnpublish(t) \/ HandleRecall(t) \/ HandleDelete(t)
  \/ \E cs \in SUBSET Class : HandleSettings(t, cs)
  \/ \E cs \in SUBSET Class \ {{}} : HandleCreate(t, cs)
  \/ \E c \in Class : HandleDelClass(t, c)
  \/ \E s \in Student : \/ HandleDelStudent(t, s)
                        \/ \E c \in Class \cup {NoClass} : HandleEnroll(t, s, c)

AssignNext ==
  \/ \E t \in Task : (TaskStep(t) \/ HandleRequest(t)) /\ Note({t})
  \/ \E s \in Student : (StudentSaves(s) \/ StudentDeletes(s)) /\ Note({})

AssignSpec == AssignInit /\ [][AssignNext]_assignVars

-----------------------------------------------------------------------------

PhaseName == Walks \cup
  {"publish", "copy", "reopen", "save", "trySave", "write", "tryWrite", "close", "recall",
   "reload", "user", "target", "give", "snapshot", "remove", "wipe", "make",
   "fill", "dropped", "wipeKept", "wipeHomes"}

(* The variables hold what the code keeps in them.                         *)
AssignTypeOK ==
  /\ manifest \in [file : {"none", "empty", "garbled", "saved"},
                   classes : SUBSET Class, closed : BOOLEAN]
  /\ dir \in {"none", "bare", "ready"}
  /\ dir = "none" => manifest = Nil
  /\ class \in [Student -> Class \cup {NoClass, NoAccount}]
  /\ home \in [Student -> Content]
  /\ kept \in [Student -> Content]
  /\ \A t \in Task : /\ task[t].prog \in Seq(PhaseName)
                     /\ task[t].queue \in SUBSET Student
                     /\ task[t].cur \in SUBSET Student

(* main.go:1897: an unpublished assignment stays unpublished; changing who *)
(* it is for, or writing it anew, does not open it.  Only Publish does, or *)
(* a request that read the manifest before another one changed it.         *)
OnlyPublishOpens ==
  [][wasClosed /\ ~wasClosed' =>
       \E t \in Task : task'[t] # task[t] /\ (task[t].kind = "publish" \/ t \in crossed)
    ]_assignVars

(* A walk over the students of some classes has come to its end.           *)
Walked(t, walk) == Phase(t) = walk /\ task[t].todo = {} /\ task[t].queue = {}

(* README.md: publishing reaches every student of the classes, with all    *)
(* that is in the starter, whoever saves, joins or leaves meanwhile; but   *)
(* for those for whom the copy broke off, which nobody is told.            *)
PublishReaches ==
  \A t \in Task : Walked(t, "handOut") /\ dir = "ready" =>
    \A s \in Student \ (touched[t] \cup broke[t]) :
      class[s] \in Load.classes => home[s] \in {"starter", "work"}

(* README.md: whoever joins a class gets whatever that class already has,  *)
(* and loses what it has not.                                              *)
JoinerIsServed ==
  [][\A t \in Task : task[t].kind = "enroll" /\ task'[t].kind = "idle" =>
       \A s \in task[t].cur \ (touched[t] \cup broke[t] \cup BreaksOff(t)) :
         manifest.file # "none" =>
           (home'[s] # "none" <=> ~Load.closed /\ class[s] \in Load.classes)
    ]_assignVars

(* When Unpublish is done the folder is out of the home of every student   *)
(* of the assignment's classes.                                            *)
UnpublishTakesBack ==
  \A t \in Task : task[t].kind = "unpublish" /\ Walked(t, "reconcile") =>
    \A s \in Student \ touched[t] : class[s] \in Load.classes => home[s] = "none"

(* main.go:1433: a folder that a reconcile takes away has been snapshotted *)
(* first, and the snapshot is still there when the folder goes, unless     *)
(* the copy broke off or another request removed it in between.            *)
TakenBackLeavesCopy ==
  \A t \in Task : Phase(t) = "remove" =>
    \A s \in task[t].cur \ (touched[t] \cup broke[t]) : home[s] # "none" => kept[s] # "none"
=============================================================================
