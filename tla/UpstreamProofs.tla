--------------------------- MODULE UpstreamProofs ---------------------------
(***************************************************************************)
(* nginx balances over the workers that are up, whatever handlers overlap. *)
(* Besides the types and placement of WorkersProofs the invariant says who *)
(* may be inside regenUpstream (RewritersWait), that no two devices report *)
(* under one id and none under an id not yet handed out (IdsApart), what   *)
(* the two statements of Heartbeat see of one row (BeatsAgree), that       *)
(* regenUpstream is overlapped only where that is recorded (OneWriter),    *)
(* and that the newest list, wherever it has got to, is current unless     *)
(* somebody is still to read the table (NewestIsCurrent).                  *)
(***************************************************************************)
EXTENDS Upstream, WorkersProofs

RewritersWait ==
  /\ \A d \in Device : beat[d].at = "looked" => d \notin rewriting
  /\ \A t \in Task : t \in rewriting => task[t].at = "done"

(* The device goes by the id, or will once it is rebooted.                 *)
Reports(d, i) ==
  device[d].id = i \/ device[d].unit = i \/ (beat[d].at = "looked" /\ beat[d].id = i)

IdsApart ==
  /\ \A i \in Id : \A d, e \in Device : Reports(d, i) /\ Reports(e, i) => d = e
  /\ \A t \in Task : task[t].at \in {"idle", "setup"} => \A d \in Device : ~Reports(d, t)
  /\ \A t \in Task : task[t].at = "idle" => row[t].status = "absent"

BeatsAgree ==
  \A d \in Device : beat[d].at = "looked" /\ ~beat[d].changed =>
    row[beat[d].id].status = "absent" \/ row[beat[d].id].host = beat[d].host

OneWriter ==
  ~spoilt => /\ \A c, e \in Caller : Writing(c) /\ Writing(e) => c = e
             /\ \A c \in Caller : regen[c].at = "written"
                  => file = [whole |-> TRUE, list |-> regen[c].list]

Settling ==
  \/ \E c \in rewriting : ~Writing(c)
  \/ \E t \in Task : task[t].at = "checking"

Current(s) == s \ unlisted = UpHosts \ unlisted

NewestIsCurrent ==
  ~spoilt /\ ~Settling =>
    /\ \A c \in Caller : Writing(c) => Current(regen[c].list)
    /\ (\A c \in Caller : ~Writing(c)) => Current(nginx)

RegistryInv == WorkersInv /\ RewritersWait /\ IdsApart /\ BeatsAgree

UpstreamInv ==
  /\ RegistryInv
  /\ regen \in [Caller -> [at : {"begin", "read", "written"}, list : SUBSET Address]]
  /\ file \in [whole : BOOLEAN, list : SUBSET Address]
  /\ nginx \subseteq Address /\ unlisted \subseteq Address /\ spoilt \in BOOLEAN
  /\ \A c \in Caller : Writing(c) => c \in rewriting
  /\ OneWriter
  /\ NewestIsCurrent

(* UpHosts depends on who is up where, and on nothing else of the table.   *)
LEMMA UpHostsSame ==
  ASSUME \A i \in Id : /\ (row'[i].status = "up") = (row[i].status = "up")
                       /\ row[i].status = "up" => row'[i].host = row[i].host
  PROVE  UpHosts' = UpHosts
  BY DEF UpHosts

(* A list that was current stays so while nobody goes up or down, and      *)
(* while those who do are noted as unlisted.                               *)
LEMMA CurrentStays ==
  ASSUME NEW s, NEW s1, s1 = s,
         \/ UpHosts' = UpHosts /\ unlisted' = unlisted
         \/ unlisted' = unlisted \cup (UpHosts \ UpHosts') \cup (UpHosts' \ UpHosts),
         s \ unlisted = UpHosts \ unlisted
  PROVE  s1 \ unlisted' = UpHosts' \ unlisted'
  OBVIOUS

(* Heartbeats, and devices coming and going: a heartbeat is handled by the *)
(* goroutine of its device alone, and only its own upsert moves its row.   *)
LEMMA DeviceKeepsApart ==
  ASSUME RegistryInv, DeviceNext
  PROVE  RewritersWait' /\ IdsApart' /\ BeatsAgree'
  <1> USE WorkersAssumption DEF RegistryInv, RewritersWait
  <1>0. /\ WorkersTypeOK
        /\ \A d \in Device : beat[d].at = "looked" => beat[d].id \in Id
    BY DEF WorkersInv, Placed
  <1> PICK d \in Device : \/ \E a \in Address : Joins(d, a)
                          \/ Leaves(d)
                          \/ MirrorDone(d)
                          \/ HeartbeatArrives(d)
                          \/ HeartbeatRecorded(d)
    BY DEF DeviceNext
  <1>1. CASE (\E a \in Address : Joins(d, a)) \/ Leaves(d) \/ MirrorDone(d)
    <2>1. UNCHANGED <<row, beat, task, rewriting, restarts>>
      BY <1>1 DEF Joins, Leaves, MirrorDone
    <2>2. \A e \in Device : /\ device'[e].unit = device[e].unit
                            /\ device'[e].id \in {device[e].id, device[e].unit}
      <3>1. CASE \E a \in Address : Joins(d, a)
        <4> PICK a \in Address, m \in {device[d].mirrored, FALSE},
                 i \in {device[d].id, device[d].unit} :
              device' = [device EXCEPT ![d].host = a, ![d].mirrored = m, ![d].id = i]
          BY <3>1 DEF Joins
        <4> QED
          BY <1>0 DEF WorkersTypeOK
      <3>2. CASE Leaves(d)
        BY <1>0, <3>2 DEF Leaves, WorkersTypeOK
      <3>3. CASE MirrorDone(d)
        <4>1. device' = [device EXCEPT ![d].mirrored = TRUE]
          BY <3>3 DEF MirrorDone
        <4> QED
          BY <1>0, <4>1 DEF WorkersTypeOK
      <3> QED
        BY <1>1, <3>1, <3>2, <3>3
    <2>3. \A e \in Device, j \in Id : Reports(e, j)' => Reports(e, j)
      BY <2>1, <2>2 DEF Reports
    <2>4. IdsApart'
      BY <2>1, <2>3 DEF IdsApart, Id
    <2> QED
      BY <2>1, <2>4 DEF BeatsAgree
  <1>2. CASE HeartbeatArrives(d)
    <2> DEFINE i == device[d].id
               b == [at |-> "looked", host |-> device[d].host, id |-> i,
                     changed |-> row[i].status = "absent" \/ row[i].host # device[d].host]
    <2>1. /\ beat' = [beat EXCEPT ![d] = b] /\ d \notin rewriting
          /\ UNCHANGED <<row, device, task, rewriting, restarts>>
      BY <1>2 DEF HeartbeatArrives
    <2>2. beat'[d] = b /\ \A e \in Device : e # d => beat'[e] = beat[e]
      BY <1>0, <2>1 DEF WorkersTypeOK
    <2>3. \A e \in Device, j \in Id : Reports(e, j)' => Reports(e, j)
      BY <2>1, <2>2 DEF Reports
    <2>4. IdsApart'
      BY <2>1, <2>3 DEF IdsApart, Id
    <2>5. b.at = "looked" /\ b.host = device[d].host /\ b.id = i
      OBVIOUS
    <2>6. ~b.changed => row[i].host = device[d].host
      OBVIOUS
    <2>7. BeatsAgree'
      BY <2>1, <2>2, <2>5, <2>6 DEF BeatsAgree
    <2> QED
      BY <2>1, <2>2, <2>4, <2>7
  <1>3. CASE HeartbeatRecorded(d)
    <2> DEFINE i == beat[d].id
    <2>1. /\ beat[d].at = "looked" /\ i \in Id
          /\ row' = [row EXCEPT ![i] = Upsert(i, beat[d].host)]
          /\ beat' = [beat EXCEPT ![d] = NoBeat]
          /\ rewriting' \in {rewriting, rewriting \cup {d}}
          /\ UNCHANGED <<device, task, restarts>>
      BY <1>0, <1>3 DEF HeartbeatRecorded, RegenUpstream
    <2>2. /\ beat'[d].at = "idle"
          /\ \A e \in Device : e # d => beat'[e] = beat[e]
      BY <1>0, <2>1 DEF WorkersTypeOK, NoBeat
    <2>3. \A j \in Id : j # i => row'[j] = row[j]
      BY <1>0, <2>1 DEF WorkersTypeOK
    <2>4. \A e \in Device, j \in Id : Reports(e, j)' => Reports(e, j)
      BY <2>1, <2>2 DEF Reports
    <2>5. Reports(d, i)
      BY <2>1 DEF Reports
    <2>6. \A t \in Task : task[t].at = "idle" => t # i
      BY <2>5 DEF IdsApart
    <2>7. IdsApart'
      BY <2>1, <2>3, <2>4, <2>6 DEF IdsApart, Id
    <2>8. \A e \in Device : e # d /\ beat[e].at = "looked" => beat[e].id # i
      BY <2>1, <2>5 DEF IdsApart, Reports
    <2>9. BeatsAgree'
      BY <1>0, <2>2, <2>3, <2>8 DEF BeatsAgree
    <2> QED
      BY <2>1, <2>2, <2>7, <2>9 DEF Device
  <1> QED
    BY <1>1, <1>2, <1>3

(* A request that sets a status by address moves no row and makes none, so *)
(* it disturbs no heartbeat under way.                                     *)
LEMMA StatusKeepsApart ==
  ASSUME RegistryInv, NEW t \in Task, NEW h \in Address, NEW s,
         SetWorkerStatus(h, s),
         task[t].at \notin {"idle", "done"},
         \A u \in Task : u # t => task'[u].at = task[u].at,
         task'[t].at \notin {"idle", "setup"} \/ task'[t].at = task[t].at,
         \/ UNCHANGED rewriting
         \/ rewriting' = rewriting \cup {t} /\ task'[t].at = "done",
         UNCHANGED <<device, beat, restarts>>
  PROVE  RewritersWait' /\ IdsApart' /\ BeatsAgree'
  <1> USE WorkersAssumption DEF RegistryInv, RewritersWait
  <1>0. /\ row \in [Id -> Row]
        /\ \A i \in Id : row[i].status = "absent" => row[i].host = "nowhere"
        /\ \A d \in Device : beat[d].at = "looked" => beat[d].id \in Id
    BY DEF WorkersInv, WorkersTypeOK, Placed
  <1>1. \A i \in Id : row'[i].host = row[i].host
    <2>1. \A i \in Id : row[i] \in Row
      BY <1>0
    <2>2. \A i \in Id : row'[i] = row[i] \/ row'[i] = [row[i] EXCEPT !.status = s]
      BY DEF SetWorkerStatus
    <2> HIDE DEF RegistryInv, RewritersWait
    <2> SUFFICES ASSUME NEW i \in Id PROVE row'[i].host = row[i].host
      OBVIOUS
    <2>3. [row[i] EXCEPT !.status = s].host = row[i].host
      BY <2>1 DEF Row
    <2> QED
      BY <2>2, <2>3
  <1>2. \A i \in Id : row[i].status = "absent" => row'[i].status = "absent"
    <2>1. \A i \in Id : row[i].host # h => row'[i] = row[i]
      BY DEF SetWorkerStatus
    <2> QED
      BY <1>0, <2>1
  <1>3. t \notin rewriting
    OBVIOUS
  <1>4. t \notin Device
    BY DEF Device
  <1>5. \A d \in Device : beat'[d].at = "looked" => d \notin rewriting'
    BY <1>4
  <1>6. \A u \in Task : u \in rewriting' => task'[u].at = "done"
    BY <1>3
  <1>7. \A u \in Task : task'[u].at \in {"idle", "setup"} => task[u].at = task'[u].at
    OBVIOUS
  <1>8. IdsApart'
    <2>1. \A d \in Device, j \in Id : Reports(d, j)' <=> Reports(d, j)
      BY DEF Reports
    <2> QED
      BY <1>2, <1>7, <2>1 DEF IdsApart, Id
  <1>9. BeatsAgree'
    BY <1>0, <1>1, <1>2 DEF BeatsAgree
  <1> QED
    BY <1>5, <1>6, <1>8, <1>9

(* The requests: ids are handed out once, and a request that is inside     *)
(* regenUpstream has nothing else left to do.                              *)
LEMMA TaskKeepsApart ==
  ASSUME RegistryInv, TaskNext
  PROVE  RewritersWait' /\ IdsApart' /\ BeatsAgree'
  <1> USE WorkersAssumption DEF RegistryInv, RewritersWait
  <1>0. /\ WorkersTypeOK /\ Placed
        /\ task \in [Task -> [at : TaskPhase, host : Host, left : SUBSET Address]]
        /\ row \in [Id -> Row]
    BY DEF WorkersInv, WorkersTypeOK
  <1> PICK t \in Task :
        \/ \E h \in Address : \/ CallStarts(t, h)
                              \/ HandleAdminDelWorker(t, h)
                              \/ HandleAdminAddWorker(t, h)
        \/ HandleAdminRecheck(t)
        \/ CallFails(t)
        \/ ProvisionNote(t)
        \/ TaskProceeds(t)
    BY DEF TaskNext
  <1>1. t \notin Device /\ t \in Id
    BY DEF Device, Id
  <1>2. CASE (\E h \in Address : CallStarts(t, h)) \/ HandleAdminRecheck(t)
    <2>1. /\ task[t].at = "idle" /\ task'[t].at \in {"calling", "checking"}
          /\ \A u \in Task : u # t => task'[u] = task[u]
          /\ UNCHANGED <<row, device, beat, rewriting, restarts>>
      BY <1>0, <1>2 DEF CallStarts, HandleAdminRecheck
    <2>2. t \notin rewriting
      BY <2>1
    <2> QED
      BY <2>1, <2>2 DEF IdsApart, BeatsAgree, Reports
  <1>3. CASE RecheckEnds(t)
    <2>1. /\ task[t].at = "checking" /\ task'[t].at = "done"
          /\ \A u \in Task : u # t => task'[u] = task[u]
          /\ rewriting' = rewriting \cup {t}
          /\ UNCHANGED <<row, device, beat, restarts>>
      BY <1>0, <1>3 DEF RecheckEnds, TaskMoves, RegenUpstream
    <2> QED
      BY <1>1, <2>1 DEF IdsApart, BeatsAgree, Reports
  <1>4. CASE \E h \in Address : HandleAdminDelWorker(t, h)
    <2> PICK h \in Address : HandleAdminDelWorker(t, h)
      BY <1>4
    <2>1. /\ task[t].at = "idle" /\ task'[t].at = "done"
          /\ \A u \in Task : u # t => task'[u] = task[u]
          /\ rewriting' = rewriting \cup {t}
          /\ UNCHANGED <<device, beat, restarts>>
      BY <1>0 DEF HandleAdminDelWorker, TaskMoves, RegenUpstream
    <2>2. \A i \in Id : row'[i] = row[i] \/ row'[i].status = "absent"
      BY DEF HandleAdminDelWorker, Absent
    <2>3. IdsApart'
      BY <1>1, <2>1, <2>2 DEF IdsApart, Reports, Id
    <2>4. BeatsAgree'
      BY <1>0, <2>1, <2>2 DEF BeatsAgree, Placed
    <2> QED
      BY <1>1, <2>1, <2>3, <2>4
  <1>5. CASE \E h \in Address : HandleAdminAddWorker(t, h)
    <2> PICK h \in Address : HandleAdminAddWorker(t, h)
      BY <1>5
    <2>1. /\ task[t].at = "idle" /\ task'[t].at = "setup"
          /\ \A u \in Task : u # t => task'[u] = task[u]
          /\ \A i \in Id : i # t => row'[i] = row[i]
          /\ UNCHANGED <<device, beat, rewriting, restarts>>
      BY <1>0 DEF HandleAdminAddWorker
    <2>2. \A d \in Device : ~Reports(d, t)
      BY <2>1 DEF IdsApart
    <2>3. \A d \in Device : beat[d].at = "looked" => beat[d].id # t
      BY <2>2 DEF Reports
    <2>4. IdsApart'
      <3>1. \A d \in Device, j \in Id : Reports(d, j)' <=> Reports(d, j)
        BY <2>1 DEF Reports
      <3> QED
        BY <1>1, <2>1, <2>2, <3>1 DEF IdsApart, Id
    <2>5. BeatsAgree'
      BY <1>0, <2>1, <2>3 DEF BeatsAgree, Placed
    <2>6. t \notin rewriting
      BY <2>1
    <2> QED
      BY <2>1, <2>4, <2>5, <2>6
  <1>6. CASE ProvisionPushes(t)
    <2> PICK d \in Reachable : device' = [device EXCEPT ![d].unit = t]
      BY <1>6 DEF ProvisionPushes
    <2>1. /\ task[t].at = "setup" /\ task'[t].at = "pushed"
          /\ \A u \in Task : u # t => task'[u] = task[u]
          /\ UNCHANGED <<row, beat, rewriting, restarts>>
      BY <1>0, <1>6 DEF ProvisionPushes, TaskMoves
    <2>2. /\ d \in Device /\ device'[d].unit = t
          /\ \A e \in Device : /\ e # d => device'[e].unit = device[e].unit
                               /\ device'[e].id = device[e].id
      BY <1>0 DEF WorkersTypeOK, Device
    <2>3. \A e \in Device : ~Reports(e, t)
      BY <2>1 DEF IdsApart
    <2>4. \A e \in Device, j \in Id : Reports(e, j)' => Reports(e, j) \/ (e = d /\ j = t)
      BY <2>1, <2>2 DEF Reports
    <2>5. IdsApart'
      BY <1>1, <2>1, <2>3, <2>4 DEF IdsApart, Id
    <2>6. t \notin rewriting
      BY <2>1
    <2> QED
      BY <2>1, <2>5, <2>6 DEF BeatsAgree
  <1>8. CASE ProvisionInstalls(t)
    <2> PICK d \in Reachable : /\ device[d].unit = t
                               /\ device' = [device EXCEPT ![d].id = t, ![d].mirrored = TRUE]
      BY <1>8 DEF ProvisionInstalls
    <2>1. /\ task[t].at = "pushed" /\ task'[t].at = "installed"
          /\ \A u \in Task : u # t => task'[u] = task[u]
          /\ UNCHANGED <<row, beat, rewriting, restarts>>
      BY <1>0, <1>8 DEF ProvisionInstalls, TaskMoves
    <2>2. /\ d \in Device /\ device'[d].id = t
          /\ \A e \in Device : /\ e # d => device'[e].id = device[e].id
                               /\ device'[e].unit = device[e].unit
      BY <1>0 DEF WorkersTypeOK, Device
    <2>3. \A e \in Device, j \in Id : Reports(e, j)' => Reports(e, j)
      BY <2>1, <2>2 DEF Reports
    <2>4. IdsApart'
      BY <1>1, <2>1, <2>3 DEF IdsApart, Id
    <2>5. t \notin rewriting
      BY <2>1
    <2> QED
      BY <2>1, <2>4, <2>5 DEF BeatsAgree
  <1>7. CASE \/ CallFails(t)
             \/ ProvisionNote(t)
             \/ \E h \in Address : RecheckOne(t, h)
             \/ ProvisionVerifies(t)
             \/ ProvisionSucceeds(t)
             \/ ProvisionFails(t)
    <2>1. task[t].at \in Provisioning \cup {"calling"} => task[t].host \in Address
      BY <1>0 DEF Placed
    <2>2. \E h \in Address : \E s \in {"up", "down", "provisioning", "error"} :
            SetWorkerStatus(h, s)
      BY <1>7, <2>1 DEF CallFails, ProvisionNote, RecheckOne, ProvisionVerifies,
                        ProvisionSucceeds, ProvisionFails, Provisioning
    <2>3. /\ task[t].at \notin {"idle", "done"}
          /\ \A u \in Task : u # t => task'[u].at = task[u].at
          /\ task'[t].at \notin {"idle", "setup"} \/ task'[t].at = task[t].at
          /\ \/ UNCHANGED rewriting
             \/ rewriting' = rewriting \cup {t} /\ task'[t].at = "done"
          /\ UNCHANGED <<device, beat, restarts>>
      BY <1>0, <1>7 DEF CallFails, ProvisionNote, RecheckOne, ProvisionVerifies,
                        ProvisionSucceeds, ProvisionFails, Provisioning, TaskMoves,
                        RegenUpstream
    <2> HIDE DEF RegistryInv
    <2> QED
      BY <2>2, <2>3, StatusKeepsApart
  <1> QED
    BY <1>2, <1>3, <1>4, <1>5, <1>6, <1>7, <1>8 DEF TaskProceeds

(* Time and the sweep move no row.                                         *)
LEMMA SweepKeepsApart ==
  ASSUME RegistryInv, (\E i \in Id : MinutePasses(i)) \/ MarkStaleWorkers
  PROVE  RewritersWait' /\ IdsApart' /\ BeatsAgree'
  <1> USE WorkersAssumption DEF RegistryInv, RewritersWait
  <1>0. row \in [Id -> Row] /\ \A d \in Device : beat[d].at = "looked" => beat[d].id \in Id
    BY DEF WorkersInv, WorkersTypeOK, Placed
  <1>1. \A i \in Id : /\ row'[i].host = row[i].host
                      /\ row[i].status = "absent" => row'[i].status = "absent"
    <2>1. CASE \E i \in Id : MinutePasses(i)
      <3> PICK i \in Id : row' = [row EXCEPT ![i].seen = "long ago"]
        BY <2>1 DEF MinutePasses
      <3> QED
        BY <1>0 DEF Row
    <2>2. CASE MarkStaleWorkers
      <3> row' = [i \in Id |-> IF Stale(i) THEN [row[i] EXCEPT !.status = "down"] ELSE row[i]]
        BY <2>2 DEF MarkStaleWorkers, Sweep
      <3> QED
        BY <1>0 DEF Row, Stale
    <2> QED
      BY <2>1, <2>2
  <1>2. /\ UNCHANGED <<device, beat, task>>
        /\ rewriting' \in {rewriting, rewriting \cup {"sweep"}}
    BY DEF MinutePasses, MarkStaleWorkers, Sweep, RegenUpstream
  <1>3. IdsApart'
    BY <1>1, <1>2 DEF IdsApart, Reports, Id
  <1>4. BeatsAgree'
    BY <1>0, <1>1, <1>2 DEF BeatsAgree
  <1> QED
    BY <1>2, <1>3, <1>4 DEF Device

(* A handler is only ever added to those inside regenUpstream.             *)
LEMMA RewritingGrows == RegistryNext => rewriting \subseteq rewriting'
  BY DEF RegistryNext, DeviceNext, TaskNext, TaskProceeds, Joins, Leaves, MirrorDone,
         HeartbeatArrives, HeartbeatRecorded, MinutePasses, MarkStaleWorkers, Sweep,
         CallStarts, CallFails, HandleAdminDelWorker, HandleAdminAddWorker,
         HandleAdminRecheck, RecheckOne, RecheckEnds, ProvisionNote, ProvisionPushes,
         ProvisionInstalls, ProvisionVerifies, ProvisionSucceeds, ProvisionFails, RegenUpstream

(* So every step of the registry's handlers keeps its part.                *)
LEMMA RegistryKeepsInv == RegistryInv /\ RegistryNext => RegistryInv'
  <1> SUFFICES ASSUME RegistryInv, RegistryNext PROVE RegistryInv'
    OBVIOUS
  <1>1. WorkersInv'
    BY WorkersStepInv DEF RegistryInv, WorkersNext
  <1>2. RewritersWait' /\ IdsApart' /\ BeatsAgree'
    BY DeviceKeepsApart, SweepKeepsApart, TaskKeepsApart DEF RegistryNext
  <1> QED
    BY <1>1, <1>2 DEF RegistryInv

(* Whoever changes the set of workers that are up enters regenUpstream in  *)
(* the same step, or is a Recheck that will, or is noted as unlisted; and  *)
(* a Recheck ends by entering it.                                          *)
LEMMA ChangesAreAnnounced ==
  ASSUME RegistryInv, RegistryNext
  PROVE  \/ \E c \in Caller \ rewriting : rewriting' = rewriting \cup {c}
         \/ \E t \in Task : task'[t].at = "checking"
         \/ /\ rewriting' = rewriting
            /\ \A t \in Task : task[t].at = "checking" => task'[t].at = "checking"
            /\ Unannounced \/ UpHosts' = UpHosts
  <1> USE WorkersAssumption DEF RegistryInv, RewritersWait
  <1>0. /\ WorkersTypeOK /\ Placed
        /\ row \in [Id -> Row]
        /\ task \in [Task -> [at : TaskPhase, host : Host, left : SUBSET Address]]
    BY DEF WorkersInv, WorkersTypeOK
  <1>1. CASE DeviceNext
    <2> PICK d \in Device : \/ \E a \in Address : Joins(d, a)
                           \/ Leaves(d)
                           \/ MirrorDone(d)
                           \/ HeartbeatArrives(d)
                           \/ HeartbeatRecorded(d)
      BY <1>1 DEF DeviceNext
    <2>1. CASE ~HeartbeatRecorded(d)
      <3>1. UNCHANGED <<row, task, rewriting>>
        BY <2>1 DEF Joins, Leaves, MirrorDone, HeartbeatArrives
      <3> QED
        BY <3>1 DEF UpHosts
    <2>2. CASE HeartbeatRecorded(d) /\ beat[d].changed
      <3>1. d \in Caller \ rewriting /\ rewriting' = rewriting \cup {d}
        BY <2>2 DEF HeartbeatRecorded, RegenUpstream, Caller
      <3> QED
        BY <3>1
    <2>3. CASE HeartbeatRecorded(d) /\ ~beat[d].changed
      <3>1. UNCHANGED <<task, rewriting>> /\ beat[d].at = "looked"
        BY <2>3 DEF HeartbeatRecorded
      <3>2. Unannounced
        BY <2>3, <3>1 DEF BeatsAgree, Unannounced
      <3> QED
        BY <3>1, <3>2
    <2> QED
      BY <2>1, <2>2, <2>3
  <1>2. CASE \E i \in Id : MinutePasses(i)
    <2> PICK i \in Id : MinutePasses(i)
      BY <1>2
    <2>1. UNCHANGED <<task, rewriting>> /\ row' = [row EXCEPT ![i].seen = "long ago"]
      BY DEF MinutePasses
    <2>2. \A j \in Id : row'[j].status = row[j].status /\ row'[j].host = row[j].host
      <3>1. \A j \in Id : row[j] \in Row
        BY <1>0
      <3>2. \A j \in Id : row'[j] = row[j] \/ row'[j] = [row[j] EXCEPT !.seen = "long ago"]
        BY <1>0, <2>1
      <3> HIDE DEF RegistryInv, RewritersWait
      <3> SUFFICES ASSUME NEW j \in Id
                   PROVE  row'[j].status = row[j].status /\ row'[j].host = row[j].host
        OBVIOUS
      <3>3. /\ [row[j] EXCEPT !.seen = "long ago"].status = row[j].status
            /\ [row[j] EXCEPT !.seen = "long ago"].host = row[j].host
        BY <3>1 DEF Row
      <3> QED
        BY <3>2, <3>3
    <2> QED
      BY <2>1, <2>2, UpHostsSame
  <1>3. CASE MarkStaleWorkers
    BY <1>3 DEF MarkStaleWorkers, Sweep, RegenUpstream, Caller
  <1>4. CASE TaskNext
    <2> PICK t \in Task :
          \/ \E h \in Address : \/ CallStarts(t, h)
                                \/ HandleAdminDelWorker(t, h)
                                \/ HandleAdminAddWorker(t, h)
          \/ HandleAdminRecheck(t)
          \/ CallFails(t)
          \/ ProvisionNote(t)
          \/ TaskProceeds(t)
      BY <1>4 DEF TaskNext
    <2>1. CASE \/ \E h \in Address : HandleAdminDelWorker(t, h)
               \/ CallFails(t)
               \/ RecheckEnds(t)
               \/ ProvisionSucceeds(t)
      <3>1. task[t].at # "done" /\ rewriting' = rewriting \cup {t}
        BY <2>1 DEF HandleAdminDelWorker, CallFails, RecheckEnds, ProvisionSucceeds,
                    RegenUpstream
      <3>2. t \in Caller \ rewriting
        BY <3>1 DEF Caller
      <3> QED
        BY <3>1, <3>2
    <2>2. CASE HandleAdminRecheck(t) \/ \E h \in Address : RecheckOne(t, h)
      <3>1. task'[t].at = "checking"
        BY <1>0, <2>2 DEF HandleAdminRecheck, RecheckOne
      <3> QED
        BY <3>1
    <2>3. CASE \/ \E h \in Address : CallStarts(t, h) \/ HandleAdminAddWorker(t, h)
               \/ ProvisionPushes(t) \/ ProvisionInstalls(t)
      <3>1. /\ UNCHANGED rewriting /\ task[t].at # "checking"
            /\ \A u \in Task : u # t => task'[u] = task[u]
        BY <1>0, <2>3 DEF CallStarts, HandleAdminAddWorker, ProvisionPushes, ProvisionInstalls, TaskMoves
      <3>2. UpHosts' = UpHosts
        <4>1. CASE ~\E h \in Address : HandleAdminAddWorker(t, h)
          BY <2>3, <4>1 DEF CallStarts, ProvisionPushes, ProvisionInstalls, UpHosts
        <4>2. CASE \E h \in Address : HandleAdminAddWorker(t, h)
          <5> PICK h \in Address :
                /\ task[t].at = "idle"
                /\ row' = [row EXCEPT ![t] = [host |-> h, status |-> "provisioning",
                                              seen |-> "never"]]
            BY <4>2 DEF HandleAdminAddWorker
          <5>1. row[t].status = "absent" /\ t \in Id
            BY DEF IdsApart, Id
          <5>2. row'[t].status = "provisioning" /\ \A i \in Id : i # t => row'[i] = row[i]
            BY <1>0, <5>1
          <5> QED
            BY <5>1, <5>2, UpHostsSame
        <4> QED
          BY <4>1, <4>2
      <3> QED
        BY <3>1, <3>2
    <2>4. CASE ProvisionNote(t) \/ ProvisionVerifies(t) \/ ProvisionFails(t)
      <3>1. /\ UNCHANGED rewriting /\ task[t].at # "checking"
            /\ \A u \in Task : u # t => task'[u] = task[u]
        BY <1>0, <2>4 DEF ProvisionNote, ProvisionVerifies, ProvisionFails, Provisioning,
                          TaskMoves
      <3> QED
        BY <2>4, <3>1 DEF Unannounced
    <2> QED
      BY <2>1, <2>2, <2>3, <2>4 DEF TaskProceeds
  <1> QED
    BY <1>1, <1>2, <1>3, <1>4 DEF RegistryNext

(* The addresses of workers that are up are addresses.                     *)
LEMMA UpHostsPlaced == WorkersInv => UpHosts \subseteq Address
  BY DEF WorkersInv, Placed, UpHosts

(* Leaving regenUpstream, or a step within it, keeps the registry's part.  *)
LEMMA WithinKeepsRegistry ==
  ASSUME RegistryInv, UNCHANGED workersVars \/ \E c \in Caller : Rewritten(c)
  PROVE  RegistryInv' /\ UpHosts' = UpHosts
  <1>1. WorkersInv'
    BY WorkersStepInv DEF RegistryInv, WorkersNext
  <1>2. UNCHANGED <<row, device, beat, task, restarts>> /\ rewriting' \subseteq rewriting
    BY DEF workersVars, Rewritten
  <1> QED
    BY <1>1, <1>2 DEF RegistryInv, RewritersWait, IdsApart, Reports, BeatsAgree, UpHosts

(* The registry's steps: either somebody is now to read the table, or the  *)
(* newest list is as current as it was.                                    *)
LEMMA RegistryMovesStep == UpstreamInv /\ RegistryMoves => UpstreamInv'
  <1> SUFFICES ASSUME UpstreamInv, RegistryMoves PROVE UpstreamInv'
    OBVIOUS
  <1> USE DEF UpstreamInv
  <1>1. /\ RegistryNext /\ UNCHANGED <<regen, file, nginx, spoilt>>
        /\ unlisted' = IF Unannounced
                         THEN unlisted \cup (UpHosts \ UpHosts') \cup (UpHosts' \ UpHosts)
                         ELSE unlisted
    BY DEF RegistryMoves
  <1>2. RegistryInv'
    BY <1>1, RegistryKeepsInv
  <1>3. UpHosts \subseteq Address /\ UpHosts' \subseteq Address
    BY <1>2 DEF RegistryInv, WorkersInv, Placed, UpHosts
  <1>4. unlisted' \subseteq Address
    BY <1>1, <1>3
  <1>5. \A c \in Caller : Writing(c)' <=> Writing(c)
    BY <1>1 DEF Writing
  <1>6. rewriting \subseteq rewriting'
    BY <1>1, ChangesAreAnnounced, RewritingGrows
  <1>7. OneWriter'
    BY <1>1, <1>5 DEF OneWriter
  <1>8. NewestIsCurrent'
    <2> SUFFICES ASSUME ~spoilt', ~Settling'
                 PROVE  /\ \A c \in Caller : Writing(c)' => Current(regen[c].list)'
                        /\ (\A c \in Caller : ~Writing(c)') => Current(nginx)'
      BY DEF NewestIsCurrent
    <2>1. \A t \in Task : task'[t].at # "checking"
      BY DEF Settling
    <2>2. ~\E c \in Caller \ rewriting : rewriting' = rewriting \cup {c}
      BY <1>5 DEF Settling
    <2>3. /\ rewriting' = rewriting
          /\ \A t \in Task : task[t].at # "checking"
          /\ Unannounced \/ UpHosts' = UpHosts
      BY <1>1, <2>1, <2>2, ChangesAreAnnounced
    <2>4. ~Settling
      BY <1>5, <2>3 DEF Settling, RegistryInv, WorkersInv, WorkersTypeOK
    <2>5. \/ UpHosts' = UpHosts /\ unlisted' = unlisted
          \/ unlisted' = unlisted \cup (UpHosts \ UpHosts') \cup (UpHosts' \ UpHosts)
      BY <1>1, <2>3
    <2>6. \A s : Current(s) => s \ unlisted' = UpHosts' \ unlisted'
      BY <2>5, CurrentStays DEF Current
    <2>7. /\ \A c \in Caller : Writing(c) => Current(regen[c].list)
          /\ (\A c \in Caller : ~Writing(c)) => Current(nginx)
      BY <1>1, <2>4 DEF NewestIsCurrent
    <2> QED
      BY <1>1, <1>5, <2>6, <2>7 DEF Current
  <1> QED
    BY <1>1, <1>2, <1>4, <1>5, <1>6, <1>7, <1>8

(* The table is read: unless somebody else is inside, the newest list is   *)
(* the one just read.                                                      *)
LEMMA ReadStep ==
  ASSUME UpstreamInv, NEW c \in Caller, ReadUpWorkers(c) PROVE UpstreamInv'
  <1> USE DEF UpstreamInv
  <1>1. /\ c \in rewriting /\ ~Writing(c)
        /\ regen' = [regen EXCEPT ![c] = [at |-> "read", list |-> UpHosts]]
        /\ spoilt' = \E e \in Caller : Writing(e)
        /\ unlisted' = {}
        /\ UNCHANGED <<workersVars, file, nginx>>
    BY DEF ReadUpWorkers
  <1>2. RegistryInv' /\ UpHosts' = UpHosts /\ UpHosts \subseteq Address
    BY <1>1, WithinKeepsRegistry, UpHostsPlaced DEF RegistryInv
  <1>3. /\ regen'[c] = [at |-> "read", list |-> UpHosts]
        /\ \A e \in Caller : e # c => regen'[e] = regen[e]
        /\ regen' \in [Caller -> [at : {"begin", "read", "written"}, list : SUBSET Address]]
    BY <1>1, <1>2
  <1>4. Writing(c)' /\ \A e \in Caller : e # c => (Writing(e)' <=> Writing(e))
    BY <1>3 DEF Writing
  <1>5. \A e \in Caller : Writing(e)' => e \in rewriting'
    BY <1>1, <1>4 DEF workersVars
  <1>6. ~spoilt' => \A e \in Caller : Writing(e)' => e = c
    BY <1>1, <1>4
  <1>7. OneWriter'
    BY <1>3, <1>4, <1>6 DEF OneWriter, Writing
  <1>8. NewestIsCurrent'
    BY <1>2, <1>3, <1>4, <1>6 DEF NewestIsCurrent, Current
  <1> QED
    BY <1>1, <1>2, <1>3, <1>5, <1>7, <1>8

(* The file is written: alone, it is written whole.                        *)
LEMMA WriteStep ==
  ASSUME UpstreamInv, NEW c \in Caller, WriteUpstream(c) PROVE UpstreamInv'
  <1> USE DEF UpstreamInv
  <1>1. /\ regen[c].at = "read"
        /\ regen' = [regen EXCEPT ![c].at = "written"]
        /\ \/ file' = [whole |-> TRUE, list |-> regen[c].list]
           \/ /\ \E e \in Caller \ {c} : Writing(e)
              /\ file' = [whole |-> FALSE, list |-> {}]
        /\ UNCHANGED <<workersVars, nginx, spoilt, unlisted>>
    BY DEF WriteUpstream
  <1>2. RegistryInv' /\ UpHosts' = UpHosts
    BY <1>1, WithinKeepsRegistry
  <1>3. /\ regen'[c].at = "written"
        /\ \A e \in Caller : regen'[e].list = regen[e].list
        /\ \A e \in Caller : e # c => regen'[e] = regen[e]
        /\ regen' \in [Caller -> [at : {"begin", "read", "written"}, list : SUBSET Address]]
    BY <1>1
  <1>4. \A e \in Caller : Writing(e)' <=> Writing(e)
    BY <1>1, <1>3 DEF Writing
  <1>5. file' \in [whole : BOOLEAN, list : SUBSET Address]
    <2>1. \A w \in BOOLEAN, l \in SUBSET Address :
            [whole |-> w, list |-> l] \in [whole : BOOLEAN, list : SUBSET Address]
      OBVIOUS
    <2>2. regen[c].list \in SUBSET Address /\ {} \in SUBSET Address
      OBVIOUS
    <2>3. TRUE \in BOOLEAN /\ FALSE \in BOOLEAN
      OBVIOUS
    <2> QED
      BY <1>1, <2>1, <2>2, <2>3
  <1>6. Writing(c)
    BY <1>1 DEF Writing
  <1>7. OneWriter'
    <2> SUFFICES ASSUME ~spoilt'
                 PROVE  /\ \A d, e \in Caller : Writing(d)' /\ Writing(e)' => d = e
                        /\ \A e \in Caller : regen'[e].at = "written"
                             => file' = [whole |-> TRUE, list |-> regen'[e].list]
      BY DEF OneWriter
    <2>1. \A e \in Caller : Writing(e) => e = c
      BY <1>1, <1>6 DEF OneWriter
    <2>2. file' = [whole |-> TRUE, list |-> regen[c].list]
      BY <1>1, <2>1
    <2>3. \A e \in Caller : regen'[e].at = "written" => e = c
      BY <1>3, <2>1 DEF Writing
    <2> QED
      BY <1>3, <1>4, <2>1, <2>2, <2>3
  <1>8. Settling' <=> Settling
    BY <1>1, <1>4 DEF Settling, workersVars, RegistryInv, WorkersInv, WorkersTypeOK
  <1>9. NewestIsCurrent'
    BY <1>1, <1>2, <1>3, <1>4, <1>8 DEF NewestIsCurrent, Current
  <1> QED
    BY <1>1, <1>2, <1>3, <1>4, <1>5, <1>7, <1>9 DEF workersVars

(* A write that fails is remembered as such.                               *)
LEMMA FailStep ==
  ASSUME UpstreamInv, NEW c \in Caller, WriteFails(c) PROVE UpstreamInv'
  <1> USE DEF UpstreamInv
  <1>1. /\ Rewritten(c)
        /\ regen' = [regen EXCEPT ![c] = NotBegun]
        /\ file' = [whole |-> FALSE, list |-> {}]
        /\ spoilt' = TRUE
        /\ UNCHANGED <<nginx, unlisted>>
    BY DEF WriteFails
  <1>2. RegistryInv'
    BY <1>1, WithinKeepsRegistry
  <1>3. /\ regen' \in [Caller -> [at : {"begin", "read", "written"}, list : SUBSET Address]]
        /\ \A e \in Caller : Writing(e)' => e # c /\ Writing(e)
    BY <1>1 DEF NotBegun, Writing
  <1>4. \A e \in Caller : Writing(e)' => e \in rewriting'
    BY <1>1, <1>3 DEF Rewritten
  <1>5. OneWriter' /\ NewestIsCurrent'
    BY <1>1 DEF OneWriter, NewestIsCurrent
  <1>6. file' \in [whole : BOOLEAN, list : SUBSET Address]
    BY <1>1
  <1> QED
    BY <1>1, <1>2, <1>3, <1>4, <1>5, <1>6

(* nginx is reloaded: alone, it gets the list of the one that wrote it.    *)
LEMMA ReloadStep ==
  ASSUME UpstreamInv, NEW c \in Caller, ReloadNginx(c) PROVE UpstreamInv'
  <1> USE DEF UpstreamInv
  <1>1. /\ regen[c].at = "written"
        /\ Rewritten(c)
        /\ regen' = [regen EXCEPT ![c] = NotBegun]
        /\ nginx' = IF file.whole THEN file.list ELSE nginx
        /\ UNCHANGED <<file, spoilt, unlisted>>
    BY DEF ReloadNginx
  <1>2. RegistryInv' /\ UpHosts' = UpHosts
    BY <1>1, WithinKeepsRegistry
  <1>3. /\ regen' \in [Caller -> [at : {"begin", "read", "written"}, list : SUBSET Address]]
        /\ \A e \in Caller : e # c => regen'[e] = regen[e]
        /\ \A e \in Caller : Writing(e)' <=> e # c /\ Writing(e)
    BY <1>1 DEF NotBegun, Writing
  <1>4. /\ rewriting' = rewriting \ {c}
        /\ UNCHANGED task
    BY <1>1 DEF Rewritten
  <1>5. \A e \in Caller : Writing(e)' => e \in rewriting'
    BY <1>3, <1>4
  <1>6. nginx' \subseteq Address
    BY <1>1
  <1>7. OneWriter'
    BY <1>1, <1>3 DEF OneWriter, Writing
  <1>8. NewestIsCurrent'
    <2> SUFFICES ASSUME ~spoilt', ~Settling'
                 PROVE  /\ \A e \in Caller : Writing(e)' => Current(regen[e].list)'
                        /\ (\A e \in Caller : ~Writing(e)') => Current(nginx)'
      BY DEF NewestIsCurrent
    <2>1. Writing(c) /\ ~spoilt
      BY <1>1 DEF Writing
    <2>2. \A e \in Caller : Writing(e) => e = c
      BY <2>1 DEF OneWriter
    <2>3. file = [whole |-> TRUE, list |-> regen[c].list]
      BY <1>1, <2>1 DEF OneWriter
    <2>4. ~Settling
      BY <1>3, <1>4, <2>1 DEF Settling, RegistryInv, WorkersInv, WorkersTypeOK
    <2>5. Current(regen[c].list)
      BY <2>1, <2>4 DEF NewestIsCurrent
    <2>6. nginx' = regen[c].list
      BY <1>1, <2>3
    <2> QED
      BY <1>1, <1>2, <1>3, <2>2, <2>5, <2>6 DEF Current
  <1> QED
    BY <1>1, <1>2, <1>3, <1>5, <1>6, <1>7, <1>8

(* A restart drops every handler; what it cut off is remembered.           *)
LEMMA GatewayRestartStep ==
  ASSUME UpstreamInv, GatewayRestarts PROVE UpstreamInv'
  <1> USE WorkersAssumption DEF UpstreamInv
  <1>1. /\ Restart
        /\ regen' = [c \in Caller |-> NotBegun]
        /\ spoilt' = (spoilt \/ rewriting # {} \/ \E t \in Task : task[t].at = "checking")
        /\ UNCHANGED <<file, nginx, unlisted>>
    BY DEF GatewayRestarts
  <1>2. /\ WorkersInv' /\ rewriting' = {}
        /\ \A d \in Device : beat'[d].at = "idle"
        /\ \A t \in Task : task'[t].at \in {"idle", "setup"} => task[t].at = "idle"
        /\ UNCHANGED <<row, device>>
    <2>1. task \in [Task -> [at : TaskPhase, host : Host, left : SUBSET Address]]
      BY DEF RegistryInv, WorkersInv, WorkersTypeOK
    <2>2. \A t \in Task : task'[t].at \in {"idle", "setup"} => task[t].at = "idle"
      BY <1>1, <2>1 DEF Restart, Provisioning
    <2>3. WorkersInv'
      BY <1>1, WorkersStepInv DEF RegistryInv, WorkersNext
    <2> QED
      BY <1>1, <2>2, <2>3 DEF Restart, NoBeat
  <1>3. RegistryInv'
    BY <1>2 DEF RegistryInv, RewritersWait, IdsApart, Reports, BeatsAgree
  <1>4. /\ regen' \in [Caller -> [at : {"begin", "read", "written"}, list : SUBSET Address]]
        /\ \A c \in Caller : ~Writing(c)'
    BY <1>1 DEF NotBegun, Writing
  <1>5. OneWriter'
    BY <1>1, <1>4 DEF OneWriter, Writing
  <1>6. NewestIsCurrent'
    <2> SUFFICES ASSUME ~spoilt' PROVE Current(nginx)'
      BY <1>4 DEF NewestIsCurrent
    <2>1. ~spoilt /\ ~Settling /\ \A c \in Caller : ~Writing(c)
      BY <1>1 DEF Settling
    <2>2. Current(nginx)
      BY <2>1 DEF NewestIsCurrent
    <2> QED
      BY <1>1, <1>2, <2>2 DEF Current, UpHosts
  <1>7. spoilt' \in BOOLEAN
    BY <1>1
  <1> QED
    BY <1>1, <1>3, <1>4, <1>5, <1>6, <1>7

(* Nobody is up, nobody is at work, and nginx has no list.                 *)
LEMMA UpstreamInitInv == UpstreamInit => UpstreamInv
  <1> SUFFICES ASSUME UpstreamInit PROVE UpstreamInv
    OBVIOUS
  <1> USE WorkersAssumption DEF UpstreamInit
  <1>1. WorkersInv
    BY WorkersInitInv
  <1>2. /\ rewriting = {} /\ row = [i \in Id |-> Absent]
        /\ \A d \in Device : beat[d].at = "idle"
        /\ \A d \in Device : device[d].id = IF d \in Enrolled THEN d ELSE "none"
        /\ \A d \in Device : device[d].unit = device[d].id
        /\ \A t \in Task : task[t].at = "idle"
    BY DEF WorkersInit, NoBeat
  <1>3. RewritersWait /\ BeatsAgree
    BY <1>2 DEF RewritersWait, BeatsAgree
  <1>4. \A d \in Device : \A i \in Id : Reports(d, i) => d = i /\ d \in Enrolled
    BY <1>2 DEF Reports, Id
  <1>5. IdsApart
    BY <1>2, <1>4 DEF IdsApart, Id, Absent
  <1>6. \A c \in Caller : ~Writing(c)
    BY DEF Writing, NotBegun
  <1>7. OneWriter
    BY <1>6 DEF OneWriter, Writing
  <1>8. UpHosts = {}
    BY <1>2 DEF UpHosts, Absent
  <1>9. NewestIsCurrent
    BY <1>6, <1>8 DEF NewestIsCurrent, Current
  <1> QED
    BY <1>1, <1>3, <1>5, <1>6, <1>7, <1>9 DEF UpstreamInv, RegistryInv, NotBegun

(* The invariant is kept by every step.                                    *)
LEMMA UpstreamStepInv == UpstreamInv /\ [UpstreamNext]_vars => UpstreamInv'
  <1> SUFFICES ASSUME UpstreamInv, [UpstreamNext]_vars PROVE UpstreamInv'
    OBVIOUS
  <1>1. CASE UNCHANGED vars
    <2>1. UNCHANGED workersVars /\ UNCHANGED upstreamVars
      BY <1>1 DEF vars
    <2>2. RegistryInv' /\ UpHosts' = UpHosts
      BY <2>1, WithinKeepsRegistry DEF UpstreamInv
    <2>3. \A c \in Caller : Writing(c)' <=> Writing(c)
      BY <2>1 DEF upstreamVars, Writing
    <2>4. OneWriter'
      BY <2>1, <2>3 DEF UpstreamInv, upstreamVars, OneWriter
    <2>5. Settling' <=> Settling
      BY <2>1, <2>3 DEF workersVars, Settling, UpstreamInv, RegistryInv, WorkersInv,
                        WorkersTypeOK
    <2>6. NewestIsCurrent'
      BY <2>1, <2>2, <2>3, <2>5 DEF UpstreamInv, upstreamVars, NewestIsCurrent, Current
    <2> QED
      BY <2>1, <2>2, <2>3, <2>4, <2>6 DEF UpstreamInv, workersVars, upstreamVars
  <1> QED
    BY <1>1, RegistryMovesStep, ReadStep, WriteStep, FailStep, ReloadStep, GatewayRestartStep
       DEF UpstreamNext

(* The variables of regenUpstream keep their types, and a handler that has *)
(* begun is one that was to rewrite the file, with any number of workers   *)
(* and handlers (regenUpstream of server/main.go).                         *)
THEOREM UpstreamTypeCorrect == UpstreamSpec => []UpstreamTypeOK
  <1>1. UpstreamInv => UpstreamTypeOK
    BY DEF UpstreamInv, RegistryInv, WorkersInv, UpstreamTypeOK
  <1> QED
    BY <1>1, UpstreamInitInv, UpstreamStepInv, PTL DEF UpstreamSpec

(* When no handler is at work and the last rewrite had the file to itself  *)
(* and succeeded, nginx balances over the addresses of the workers that    *)
(* are up, but for the changes nobody rewrites the file for, with any      *)
(* number of workers and handlers (the callers of regenUpstream).          *)
THEOREM UpstreamCurrent == UpstreamSpec => []UpstreamIsCurrent
  <1>1. UpstreamInv => UpstreamIsCurrent
    <2> SUFFICES ASSUME UpstreamInv, Quiet, ~spoilt
                 PROVE  nginx \ unlisted = UpHosts \ unlisted
      BY DEF UpstreamIsCurrent
    <2>1. ~Settling /\ \A c \in Caller : ~Writing(c)
      BY DEF UpstreamInv, Quiet, Settling
    <2> QED
      BY <2>1 DEF UpstreamInv, NewestIsCurrent, Current
  <1> QED
    BY <1>1, UpstreamInitInv, UpstreamStepInv, PTL DEF UpstreamSpec
=============================================================================
