--------------------------- MODULE WorkersProofs ---------------------------
(***************************************************************************)
(* The registry keeps its types and strands no row in provisioning, for    *)
(* any number of devices, addresses and requests.  The invariant adds to   *)
(* the types where addresses are known: a row that exists has one, a       *)
(* heartbeat that was looked up has one and an id, and so does a request   *)
(* that was made for one.                                                  *)
(***************************************************************************)
EXTENDS Workers, TLAPS

Placed ==
  /\ \A i \in Id : row[i].status # "absent" => row[i].host \in Address
  /\ \A i \in Id : row[i].status = "absent" => row[i].host = "nowhere"
  /\ \A d \in Device : beat[d].at = "looked" => beat[d].host \in Address /\ beat[d].id \in Id
  /\ \A t \in Task : task[t].at \in Provisioning \cup {"calling"} => task[t].host \in Address

WorkersInv == WorkersTypeOK /\ Placed /\ ProvisioningHasOwner

(* What requests assign to their own record.                               *)
LEMMA TaskEdits ==
  ASSUME task \in [Task -> [at : TaskPhase, host : Host, left : SUBSET Address]],
         NEW t \in Task, NEW to \in TaskPhase, NEW h \in Host, NEW l \in SUBSET Address,
         \/ task' = [task EXCEPT ![t].at = to, ![t].host = h]
         \/ task' = [task EXCEPT ![t].at = to, ![t].left = l]
  PROVE  task' \in [Task -> [at : TaskPhase, host : Host, left : SUBSET Address]]
  <1>1. task[t] \in [at : TaskPhase, host : Host, left : SUBSET Address]
    OBVIOUS
  <1>2. /\ [task[t] EXCEPT !.at = to, !.host = h] \in [at : TaskPhase, host : Host, left : SUBSET Address]
        /\ [task[t] EXCEPT !.at = to, !.left = l] \in [at : TaskPhase, host : Host, left : SUBSET Address]
    BY <1>1
  <1>3. \/ task' = [task EXCEPT ![t] = [task[t] EXCEPT !.at = to, !.host = h]]
        \/ task' = [task EXCEPT ![t] = [task[t] EXCEPT !.at = to, !.left = l]]
    OBVIOUS
  <1> QED
    BY <1>2, <1>3

(* What the network, the mirror and provisioning assign to a device.       *)
DeviceState == [host : Host, mirrored : BOOLEAN, id : Id \cup {"none"}, unit : Id \cup {"none"}]

LEMMA DeviceEdits ==
  ASSUME device \in [Device -> DeviceState], NEW d \in Device
  PROVE  /\ \A h \in Host : [device EXCEPT ![d].host = h] \in [Device -> DeviceState]
         /\ [device EXCEPT ![d].mirrored = TRUE] \in [Device -> DeviceState]
         /\ \A i \in Id : [device EXCEPT ![d].unit = i] \in [Device -> DeviceState]
         /\ \A i \in Id : [device EXCEPT ![d].id = i, ![d].mirrored = TRUE] \in [Device -> DeviceState]
  <1>1. \A h \in Host : [device[d] EXCEPT !.host = h] \in DeviceState
    BY DEF DeviceState
  <1>2. [device[d] EXCEPT !.mirrored = TRUE] \in DeviceState
    BY DEF DeviceState
  <1>3. \A i \in Id : [device[d] EXCEPT !.unit = i] \in DeviceState
    BY DEF DeviceState
  <1>4. \A i \in Id : [device[d] EXCEPT !.id = i, !.mirrored = TRUE] \in DeviceState
    BY DEF DeviceState
  <1>5. \A i \in Id : [device EXCEPT ![d].id = i, ![d].mirrored = TRUE]
                       = [device EXCEPT ![d] = [device[d] EXCEPT !.id = i, !.mirrored = TRUE]]
    OBVIOUS
  <1>6. \A x \in DeviceState : [device EXCEPT ![d] = x] \in [Device -> DeviceState]
    OBVIOUS
  <1> QED
    BY <1>1, <1>2, <1>3, <1>4, <1>5, <1>6

(* What a statement "UPDATE workers SET status=? WHERE host=?" leaves of   *)
(* the table's part of the invariant (SetWorkerStatus of server/store.go). *)
LEMMA StatusKeepsRows ==
  ASSUME row \in [Id -> Row],
         \A i \in Id : row[i].status # "absent" => row[i].host \in Address,
         \A i \in Id : row[i].status = "absent" => row[i].host = "nowhere",
         NEW h \in Address, "nowhere" \notin Address,
         NEW s \in {"up", "down", "provisioning", "error"},
         SetWorkerStatus(h, s)
  PROVE  /\ row' \in [Id -> Row]
         /\ \A i \in Id : row'[i].status # "absent" => row'[i].host \in Address
         /\ \A i \in Id : row'[i].status = "absent" => row'[i].host = "nowhere"
         /\ \A i \in Id : row'[i].host = row[i].host
         /\ \A i \in Id : row'[i].status = "provisioning"
                            => (IF row[i].host = h THEN s = "provisioning"
                                                   ELSE row[i].status = "provisioning")
  <1> DEFINE new(i) == [row[i] EXCEPT !.status = s]
  <1>1. \A i \in Id : row'[i] = IF row[i].host = h THEN new(i) ELSE row[i]
    BY DEF SetWorkerStatus
  <1>2. \A i \in Id : new(i) \in Row /\ new(i).status = s /\ new(i).host = row[i].host
    <2> SUFFICES ASSUME NEW i \in Id
                 PROVE  new(i) \in Row /\ new(i).status = s /\ new(i).host = row[i].host
      OBVIOUS
    <2>1. row[i] \in Row
      OBVIOUS
    <2> QED
      BY <2>1 DEF Row
  <1>3. \A i \in Id : row[i] \in Row
    OBVIOUS
  <1> HIDE DEF new
  <1>4. row' = [i \in Id |-> row'[i]]
    BY DEF SetWorkerStatus
  <1>5. \A i \in Id : row'[i] \in Row
    BY <1>1, <1>2, <1>3
  <1>6. row' \in [Id -> Row]
    BY <1>4, <1>5
  <1>7. s # "absent" /\ h # "nowhere"
    OBVIOUS
  <1> QED
    BY <1>1, <1>2, <1>6, <1>7

(* The initial table is empty and no handler is at work.                   *)
LEMMA WorkersInitInv == WorkersInit => WorkersInv
  <1> SUFFICES ASSUME WorkersInit PROVE WorkersInv
    OBVIOUS
  <1> USE WorkersAssumption DEF WorkersInit
  <1>1. WorkersTypeOK
    BY DEF WorkersTypeOK, Row, Absent, Beat, NoBeat, TaskPhase, Provisioning, Host, Device, Id
  <1>2. Placed
    BY DEF Placed, Absent, NoBeat, Provisioning, Device
  <1>3. ProvisioningHasOwner
    BY DEF ProvisioningHasOwner, Absent
  <1> QED
    BY <1>1, <1>2, <1>3 DEF WorkersInv

(* A step that leaves table and requests alone, or moves a request to a    *)
(* phase in which it still owns what it owned, strands no row.             *)
LEMMA OwnersStay ==
  ASSUME ProvisioningHasOwner,
         \A i \in Id : row'[i].status = "provisioning"
           => row[i].status = "provisioning" /\ row'[i].host = row[i].host,
         \A t \in Task : task[t].at \in Provisioning \cup {"lost"}
           => /\ task'[t].at \in Provisioning \cup {"lost"}
              /\ task'[t].host = task[t].host
  PROVE  ProvisioningHasOwner'
  BY DEF ProvisioningHasOwner

(* The devices' own steps: the table changes only by Heartbeat's upsert.   *)
LEMMA DeviceStep ==
  ASSUME WorkersInv, DeviceNext PROVE WorkersInv'
  <1> USE WorkersAssumption DEF WorkersInv
  <1> PICK d \in Device : \/ \E a \in Address : Joins(d, a)
                         \/ Leaves(d)
                         \/ MirrorDone(d)
                         \/ HeartbeatArrives(d)
                         \/ HeartbeatRecorded(d)
    BY DEF DeviceNext
  <1>1. CASE \/ \E a \in Address : Joins(d, a)
             \/ Leaves(d)
             \/ MirrorDone(d)
    <2>1. UNCHANGED <<row, beat, task, rewriting, restarts>>
      BY <1>1 DEF Joins, Leaves, MirrorDone
    <2>2. device' \in [Device -> DeviceState]
      <3>0. device \in [Device -> DeviceState]
        BY DEF WorkersTypeOK, DeviceState
      <3>1. CASE \E a \in Address : Joins(d, a)
        <4> PICK a \in Address, m \in {device[d].mirrored, FALSE}, i \in {device[d].id, device[d].unit} :
              device' = [device EXCEPT ![d].host = a, ![d].mirrored = m, ![d].id = i]
          BY <3>1 DEF Joins
        <4>1. m \in BOOLEAN /\ i \in Id \cup {"none"}
          BY <3>0 DEF DeviceState
        <4>2. [device[d] EXCEPT !.host = a, !.mirrored = m, !.id = i] \in DeviceState
          BY <3>0, <4>1 DEF DeviceState, Host
        <4>3. device' = [device EXCEPT ![d] = [device[d] EXCEPT !.host = a, !.mirrored = m, !.id = i]]
          BY <3>0
        <4> QED
          BY <3>0, <4>2, <4>3
      <3>2. CASE Leaves(d)
        BY <3>0, <3>2, DeviceEdits DEF Leaves, Host
      <3>3. CASE MirrorDone(d)
        BY <3>0, <3>3, DeviceEdits DEF MirrorDone
      <3> QED
        BY <1>1, <3>1, <3>2, <3>3
    <2> QED
      BY <2>1, <2>2 DEF WorkersTypeOK, Placed, ProvisioningHasOwner, DeviceState
  <1>2. CASE HeartbeatArrives(d)
    <2> USE <1>2 DEF HeartbeatArrives
    <2>1. device[d].host \in Address /\ device[d].id \in Id
      BY DEF Beating, On, WorkersTypeOK, Host
    <2>2. beat' \in [Device -> Beat]
      BY <2>1 DEF WorkersTypeOK, Beat, Host
    <2>3. \A e \in Device : beat'[e].at = "looked" => beat'[e].host \in Address /\ beat'[e].id \in Id
      BY <2>1 DEF WorkersTypeOK, Placed
    <2> QED
      BY <2>2, <2>3 DEF WorkersTypeOK, Placed, ProvisioningHasOwner
  <1>3. CASE HeartbeatRecorded(d)
    <2> USE <1>3 DEF HeartbeatRecorded
    <2>1. beat[d].host \in Address /\ beat[d].id \in Id
      BY DEF Placed
    <2>2. row' \in [Id -> Row]
      <3>1. Upsert(beat[d].id, beat[d].host) \in Row
        BY <2>1 DEF Upsert, Row, Host
      <3> QED
        BY <2>1, <3>1 DEF WorkersTypeOK
    <2>3. \A i \in Id : \/ row'[i] = row[i]
                        \/ row'[i].status = "up" /\ row'[i].host \in Address
      <3>1. /\ row' = [row EXCEPT ![beat[d].id] = Upsert(beat[d].id, beat[d].host)]
            /\ row \in [Id -> Row]
        BY DEF WorkersTypeOK
      <3>2. /\ Upsert(beat[d].id, beat[d].host).status = "up"
            /\ Upsert(beat[d].id, beat[d].host).host = beat[d].host
        BY DEF Upsert
      <3>3. row'[beat[d].id].status = "up" /\ row'[beat[d].id].host \in Address
        BY <2>1, <3>1, <3>2
      <3>4. \A i \in Id : i # beat[d].id => row'[i] = row[i]
        BY <3>1
      <3> QED
        BY <3>3, <3>4
    <2>4. beat' \in [Device -> Beat] /\ \A e \in Device : beat'[e] \in {beat[e], NoBeat}
      BY DEF WorkersTypeOK, Beat, NoBeat, Host
    <2>5. rewriting' \subseteq Caller
      BY DEF WorkersTypeOK, RegenUpstream, Caller
    <2>6. WorkersTypeOK'
      BY <2>2, <2>4, <2>5 DEF WorkersTypeOK
    <2>7. Placed'
      BY <2>3, <2>4 DEF Placed, NoBeat
    <2>8. ProvisioningHasOwner'
      BY <2>3, OwnersStay
    <2> QED
      BY <2>6, <2>7, <2>8
  <1> QED
    BY <1>1, <1>2, <1>3

(* Time and the sweep bring nothing into provisioning.                     *)
LEMMA SweepStep ==
  ASSUME WorkersInv, (\E i \in Id : MinutePasses(i)) \/ MarkStaleWorkers PROVE WorkersInv'
  <1> USE DEF WorkersInv
  <1>0. row \in [Id -> Row]
    BY DEF WorkersTypeOK
  <1>1. /\ row' \in [Id -> Row]
        /\ \A i \in Id : /\ row'[i].host = row[i].host
                         /\ \/ row'[i].status = row[i].status
                            \/ row[i].status = "up" /\ row'[i].status = "down"
    <2>1. CASE \E i \in Id : MinutePasses(i)
      <3> PICK i \in Id : row' = [row EXCEPT ![i].seen = "long ago"]
        BY <2>1 DEF MinutePasses
      <3> QED
        BY <1>0 DEF Row
    <2>2. CASE MarkStaleWorkers
      <3> row' = [i \in Id |-> IF Stale(i) THEN [row[i] EXCEPT !.status = "down"] ELSE row[i]]
        BY <2>2 DEF MarkStaleWorkers, Sweep
      <3> QED
        BY <1>0 DEF Row, Stale
    <2> QED
      BY <2>1, <2>2
  <1>3. UNCHANGED <<device, beat, task, restarts>> /\ rewriting' \subseteq Caller
    BY DEF MinutePasses, MarkStaleWorkers, Sweep, RegenUpstream, Caller, WorkersTypeOK
  <1>4. WorkersTypeOK'
    BY <1>1, <1>3 DEF WorkersTypeOK
  <1>5. Placed'
    BY <1>1, <1>3 DEF Placed
  <1>6. ProvisioningHasOwner'
    BY <1>1, <1>3, OwnersStay
  <1> QED
    BY <1>4, <1>5, <1>6

(* A request that sets a status by address keeps the invariant: if it is   *)
(* provisioning it stays the owner of every row at that address, and any   *)
(* other status disowns nobody else's.                                     *)
LEMMA StatusStep ==
  ASSUME WorkersInv, NEW t \in Task,
         task[t].at # "idle", task[t].at # "done",
         NEW h \in Address, NEW s \in {"up", "down", "provisioning", "error"},
         SetWorkerStatus(h, s),
         task' \in [Task -> [at : TaskPhase, host : Host, left : SUBSET Address]],
         \A u \in Task : task'[u].host = task[u].host,
         \A u \in Task : u # t => task'[u].at = task[u].at,
         task'[t].at \in Provisioning \cup {"calling"}
           => task[t].at \in Provisioning \cup {"calling"},
         task[t].at \in Provisioning \cup {"lost"} =>
           h = task[t].host /\ (s = "provisioning" => task'[t].at \in Provisioning)
                            /\ (s # "provisioning" => task'[t].at = "done"),
         s = "provisioning" => task[t].at \in Provisioning,
         rewriting' \in {rewriting, rewriting \cup {t}},
         UNCHANGED <<device, beat, restarts>>
  PROVE  WorkersInv'
  <1> USE WorkersAssumption DEF WorkersInv
  <1>1. /\ row' \in [Id -> Row]
        /\ \A i \in Id : row'[i].status # "absent" => row'[i].host \in Address
        /\ \A i \in Id : row'[i].status = "absent" => row'[i].host = "nowhere"
        /\ \A i \in Id : row'[i].host = row[i].host
        /\ \A i \in Id : row'[i].status = "provisioning"
                           => (IF row[i].host = h THEN s = "provisioning"
                                                  ELSE row[i].status = "provisioning")
    BY StatusKeepsRows DEF WorkersTypeOK, Placed
  <1>2. WorkersTypeOK'
    BY <1>1 DEF WorkersTypeOK, Caller
  <1>3. Placed'
    BY <1>1 DEF Placed
  <1>4. ProvisioningHasOwner'
    <2> SUFFICES ASSUME NEW i \in Id, row'[i].status = "provisioning"
                 PROVE  \E u \in Task : /\ task'[u].at \in Provisioning \cup {"lost"}
                                        /\ task'[u].host = row'[i].host
      BY DEF ProvisioningHasOwner
    <2>1. CASE row[i].host = h
      <3>1. s = "provisioning" /\ task[t].at \in Provisioning
        BY <1>1, <2>1
      <3>2. task'[t].at \in Provisioning /\ h = task[t].host
        BY <3>1
      <3> QED
        BY <1>1, <2>1, <3>2
    <2>2. CASE row[i].host # h
      <3>1. row[i].status = "provisioning"
        BY <1>1, <2>2
      <3> PICK u \in Task : task[u].at \in Provisioning \cup {"lost"} /\ task[u].host = row[i].host
        BY <3>1 DEF ProvisioningHasOwner
      <3>2. u # t
        BY <2>2
      <3> QED
        BY <1>1, <3>2
    <2> QED
      BY <2>1, <2>2
  <1> QED
    BY <1>2, <1>3, <1>4

(* A request that moves on has its fields where they were.                 *)
LEMMA MoveKeepsTasks ==
  ASSUME WorkersTypeOK, NEW t \in Task, NEW to \in TaskPhase, TaskMoves(t, to)
  PROVE  /\ task' \in [Task -> [at : TaskPhase, host : Host, left : SUBSET Address]]
         /\ task'[t].at = to
         /\ \A u \in Task : task'[u].host = task[u].host
         /\ \A u \in Task : u # t => task'[u].at = task[u].at
  BY DEF WorkersTypeOK, TaskMoves

(* The steps of dispatchers, of the teacher's requests and of provisioning *)
(* that set a status by address.                                           *)
LEMMA StatusSteps ==
  ASSUME WorkersInv, NEW t \in Task,
         \/ CallFails(t)
         \/ \E h \in Address : RecheckOne(t, h)
         \/ ProvisionNote(t)
         \/ ProvisionVerifies(t)
         \/ ProvisionSucceeds(t)
         \/ ProvisionFails(t)
  PROVE  WorkersInv'
  <1> USE DEF WorkersInv
  <1> TaskPhase = {"setup", "pushed", "installed", "verifying", "idle", "calling", "checking", "done", "lost"}
    BY DEF TaskPhase, Provisioning
  <1>0. task[t].at \in Provisioning \cup {"calling"} => task[t].host \in Address
    BY DEF Placed
  <1>1. CASE CallFails(t)
    <2>1. /\ task[t].at = "calling" /\ TaskMoves(t, "done")
          /\ SetWorkerStatus(task[t].host, "down")
          /\ rewriting' = rewriting \cup {t}
          /\ UNCHANGED <<device, beat, restarts>>
      BY <1>1 DEF CallFails, RegenUpstream
    <2> QED
      BY <1>0, <2>1, MoveKeepsTasks, StatusStep DEF Provisioning
  <1>2. CASE \E h \in Address : RecheckOne(t, h)
    <2> PICK h \in Address, s \in {"up", "down"} :
          /\ task[t].at = "checking"
          /\ SetWorkerStatus(h, s)
          /\ task' = [task EXCEPT ![t].left = @ \ {h}]
          /\ UNCHANGED <<device, beat, rewriting, restarts>>
      BY <1>2 DEF RecheckOne
    <2>1. /\ task' \in [Task -> [at : TaskPhase, host : Host, left : SUBSET Address]]
          /\ task'[t].at = "checking"
          /\ \A u \in Task : task'[u].host = task[u].host
          /\ \A u \in Task : u # t => task'[u].at = task[u].at
      BY DEF WorkersTypeOK
    <2>2. s \in {"up", "down", "provisioning", "error"} /\ s # "provisioning"
      OBVIOUS
    <2>3. /\ task[t].at # "idle" /\ task[t].at # "done"
          /\ task[t].at \notin Provisioning \cup {"lost"}
          /\ task'[t].at \notin Provisioning \cup {"calling"}
      BY <2>1 DEF Provisioning
    <2>4. /\ SetWorkerStatus(h, s)
          /\ rewriting' = rewriting /\ UNCHANGED <<device, beat, restarts>>
      OBVIOUS
    <2> HIDE DEF WorkersInv
    <2> QED
      BY <2>1, <2>2, <2>3, <2>4, StatusStep
  <1>3. CASE ProvisionNote(t)
    <2>1. /\ task[t].at \in {"setup", "pushed"} /\ UNCHANGED task
          /\ SetWorkerStatus(task[t].host, "provisioning")
          /\ UNCHANGED <<device, beat, rewriting, restarts>>
      BY <1>3 DEF ProvisionNote
    <2>2. task' \in [Task -> [at : TaskPhase, host : Host, left : SUBSET Address]]
      BY <2>1 DEF WorkersTypeOK
    <2> QED
      BY <1>0, <2>1, <2>2, StatusStep DEF Provisioning
  <1>4. CASE ProvisionVerifies(t)
    <2>1. /\ task[t].at = "installed" /\ TaskMoves(t, "verifying")
          /\ SetWorkerStatus(task[t].host, "provisioning")
          /\ UNCHANGED <<device, beat, rewriting, restarts>>
      BY <1>4 DEF ProvisionVerifies
    <2> QED
      BY <1>0, <2>1, MoveKeepsTasks, StatusStep DEF Provisioning
  <1>5. CASE ProvisionSucceeds(t)
    <2>1. /\ task[t].at = "verifying" /\ TaskMoves(t, "done")
          /\ SetWorkerStatus(task[t].host, "up")
          /\ rewriting' = rewriting \cup {t}
          /\ UNCHANGED <<device, beat, restarts>>
      BY <1>5 DEF ProvisionSucceeds, RegenUpstream
    <2> QED
      BY <1>0, <2>1, MoveKeepsTasks, StatusStep DEF Provisioning
  <1>6. CASE ProvisionFails(t)
    <2>1. /\ task[t].at \in Provisioning /\ TaskMoves(t, "done")
          /\ SetWorkerStatus(task[t].host, "error")
          /\ UNCHANGED <<device, beat, rewriting, restarts>>
      BY <1>6 DEF ProvisionFails
    <2> QED
      BY <1>0, <2>1, MoveKeepsTasks, StatusStep DEF Provisioning
  <1> QED
    BY <1>1, <1>2, <1>3, <1>4, <1>5, <1>6

(* The steps of requests that set no status by address.                    *)
LEMMA OtherTaskSteps ==
  ASSUME WorkersInv, NEW t \in Task,
         \/ \E h \in Address : \/ CallStarts(t, h)
                               \/ HandleAdminDelWorker(t, h)
                               \/ HandleAdminAddWorker(t, h)
         \/ HandleAdminRecheck(t)
         \/ RecheckEnds(t)
         \/ ProvisionPushes(t)
         \/ ProvisionInstalls(t)
  PROVE  WorkersInv'
  <1> USE WorkersAssumption DEF WorkersInv
  <1> DEFINE TaskType == [Task -> [at : TaskPhase, host : Host, left : SUBSET Address]]
  <1> TaskPhase = {"setup", "pushed", "installed", "verifying", "idle", "calling", "checking", "done", "lost"}
    BY DEF TaskPhase, Provisioning
  <1>0. row \in [Id -> Row] /\ task \in TaskType
    BY DEF WorkersTypeOK
  <1>1. CASE \E h \in Address : CallStarts(t, h)
    <2> PICK h \in Address : CallStarts(t, h)
      BY <1>1
    <2>0. /\ task' = [task EXCEPT ![t].at = "calling", ![t].host = h]
          /\ task[t].at = "idle"
          /\ UNCHANGED <<row, device, beat, rewriting, restarts>>
      BY DEF CallStarts
    <2>1. task' \in TaskType
      BY <1>0, <2>0, TaskEdits DEF Host
    <2>2. /\ task'[t].at = "calling" /\ task'[t].host = h
          /\ \A u \in Task : u # t => task'[u] = task[u]
      BY <1>0, <2>0
    <2>3. WorkersTypeOK' /\ Placed'
      BY <2>0, <2>1, <2>2 DEF WorkersTypeOK, Placed, Provisioning
    <2>4. ProvisioningHasOwner'
      BY <2>0, <2>2, OwnersStay DEF Provisioning
    <2> QED
      BY <2>3, <2>4
  <1>2. CASE \E h \in Address : HandleAdminDelWorker(t, h)
    <2> PICK h \in Address : HandleAdminDelWorker(t, h)
      BY <1>2
    <2>1. /\ row' = [i \in Id |-> IF row[i].host = h THEN Absent ELSE row[i]]
          /\ task[t].at = "idle" /\ TaskMoves(t, "done")
          /\ rewriting' = rewriting \cup {t}
          /\ UNCHANGED <<device, beat, restarts>>
      BY DEF HandleAdminDelWorker, RegenUpstream
    <2>2. Absent \in Row /\ Absent.status = "absent" /\ Absent.host = "nowhere"
      BY DEF Absent, Row, Host
    <2>3. row' \in [Id -> Row] /\ \A i \in Id : row'[i] = row[i] \/ row'[i] = Absent
      BY <1>0, <2>1, <2>2
    <2>4. /\ task' \in TaskType /\ task'[t].at = "done"
          /\ \A u \in Task : task'[u].host = task[u].host
          /\ \A u \in Task : u # t => task'[u].at = task[u].at
      BY <2>1, MoveKeepsTasks
    <2>5. WorkersTypeOK'
      BY <2>1, <2>3, <2>4 DEF WorkersTypeOK, Caller
    <2>6. Placed'
      BY <2>1, <2>2, <2>3, <2>4 DEF Placed, Provisioning
    <2>7. ProvisioningHasOwner'
      BY <2>1, <2>2, <2>3, <2>4, OwnersStay DEF Provisioning
    <2> QED
      BY <2>5, <2>6, <2>7
  <1>3. CASE \E h \in Address : HandleAdminAddWorker(t, h)
    <2> PICK h \in Address : HandleAdminAddWorker(t, h)
      BY <1>3
    <2> DEFINE new == [host |-> h, status |-> "provisioning", seen |-> "never"]
    <2>1. /\ row' = [row EXCEPT ![t] = new]
          /\ task' = [task EXCEPT ![t].at = "setup", ![t].host = h]
          /\ task[t].at = "idle"
          /\ UNCHANGED <<device, beat, rewriting, restarts>>
      BY DEF HandleAdminAddWorker
    <2>2. new \in Row /\ new.host = h /\ new.status = "provisioning" /\ t \in Id
      BY DEF Row, Host, Id
    <2> HIDE DEF new
    <2>3. /\ row' \in [Id -> Row] /\ row'[t] = new
          /\ \A i \in Id : i # t => row'[i] = row[i]
      BY <1>0, <2>1, <2>2
    <2>a. task' \in TaskType
      BY <1>0, <2>1, TaskEdits DEF Host
    <2>4. /\ task' \in TaskType /\ task'[t].at = "setup" /\ task'[t].host = h
          /\ \A u \in Task : u # t => task'[u] = task[u]
      BY <1>0, <2>1, <2>a
    <2>5. WorkersTypeOK'
      BY <2>1, <2>3, <2>4 DEF WorkersTypeOK
    <2>6. Placed'
      BY <2>1, <2>2, <2>3, <2>4 DEF Placed, Provisioning
    <2>7. ProvisioningHasOwner'
      <3> SUFFICES ASSUME NEW i \in Id, row'[i].status = "provisioning"
                   PROVE  \E u \in Task : /\ task'[u].at \in Provisioning \cup {"lost"}
                                          /\ task'[u].host = row'[i].host
        BY DEF ProvisioningHasOwner
      <3>1. CASE i = t
        BY <2>2, <2>3, <2>4, <3>1 DEF Provisioning
      <3>2. CASE i # t
        <4> PICK u \in Task : task[u].at \in Provisioning \cup {"lost"} /\ task[u].host = row[i].host
          BY <2>3, <3>2 DEF ProvisioningHasOwner
        <4>1. u # t
          BY <2>1 DEF Provisioning
        <4> QED
          BY <2>3, <2>4, <3>2, <4>1
      <3> QED
        BY <3>1, <3>2
    <2> QED
      BY <2>5, <2>6, <2>7
  <1>4. CASE HandleAdminRecheck(t)
    <2>1. /\ task[t].at = "idle"
          /\ task' = [task EXCEPT ![t].at = "checking", ![t].left = Rechecked]
          /\ UNCHANGED <<row, device, beat, rewriting, restarts>>
      BY <1>4 DEF HandleAdminRecheck
    <2>2. Rechecked \in SUBSET Address
      BY DEF Rechecked, Placed
    <2>3. task' \in TaskType
      BY <1>0, <2>1, <2>2, TaskEdits DEF Host
    <2>4. task'[t].at = "checking" /\ \A u \in Task : u # t => task'[u] = task[u]
      BY <1>0, <2>1
    <2>5. WorkersTypeOK' /\ Placed'
      BY <2>1, <2>3, <2>4 DEF WorkersTypeOK, Placed, Provisioning
    <2>6. ProvisioningHasOwner'
      BY <2>1, <2>4, OwnersStay DEF Provisioning
    <2> QED
      BY <2>5, <2>6
  <1>5. CASE RecheckEnds(t)
    <2>1. /\ task[t].at = "checking" /\ TaskMoves(t, "done")
          /\ rewriting' = rewriting \cup {t}
          /\ UNCHANGED <<row, device, beat, restarts>>
      BY <1>5 DEF RecheckEnds, RegenUpstream
    <2>2. /\ task' \in TaskType /\ task'[t].at = "done"
          /\ \A u \in Task : task'[u].host = task[u].host
          /\ \A u \in Task : u # t => task'[u].at = task[u].at
      BY <2>1, MoveKeepsTasks
    <2>3. WorkersTypeOK' /\ Placed'
      BY <2>1, <2>2 DEF WorkersTypeOK, Placed, Provisioning, Caller
    <2>4. ProvisioningHasOwner'
      BY <2>1, <2>2, OwnersStay DEF Provisioning
    <2> QED
      BY <2>3, <2>4
  <1>6. CASE ProvisionPushes(t) \/ ProvisionInstalls(t)
    <2> PICK from \in {"setup", "pushed"}, to \in {"pushed", "installed"}, d \in Reachable :
          /\ task[t].at = from /\ TaskMoves(t, to)
          /\ \/ device' = [device EXCEPT ![d].unit = t]
             \/ device' = [device EXCEPT ![d].id = t, ![d].mirrored = TRUE]
      BY <1>6 DEF ProvisionPushes, ProvisionInstalls
    <2>1. UNCHANGED <<row, beat, rewriting, restarts>>
      BY <1>6 DEF ProvisionPushes, ProvisionInstalls
    <2>2. /\ task' \in TaskType /\ task'[t].at = to
          /\ \A u \in Task : task'[u].host = task[u].host
          /\ \A u \in Task : u # t => task'[u].at = task[u].at
      BY MoveKeepsTasks
    <2>3. device' \in [Device -> DeviceState]
      <3>1. device \in [Device -> DeviceState] /\ d \in Device /\ t \in Id
        BY DEF WorkersTypeOK, DeviceState, Device, Id
      <3>2. CASE device' = [device EXCEPT ![d].unit = t]
        BY <3>1, <3>2, DeviceEdits
      <3>3. CASE device' = [device EXCEPT ![d].id = t, ![d].mirrored = TRUE]
        <4> HIDE DEF WorkersInv
        <4>1. \A i \in Id : [device EXCEPT ![d].id = i, ![d].mirrored = TRUE] \in [Device -> DeviceState]
          BY <3>1, DeviceEdits
        <4> QED
          BY <3>1, <3>3, <4>1
      <3> QED
        BY <3>2, <3>3
    <2>4. WorkersTypeOK' /\ Placed'
      BY <2>1, <2>2, <2>3 DEF WorkersTypeOK, DeviceState, Placed, Provisioning
    <2>5. ProvisioningHasOwner'
      BY <2>1, <2>2, OwnersStay DEF Provisioning
    <2> QED
      BY <2>4, <2>5
  <1> QED
    BY <1>1, <1>2, <1>3, <1>4, <1>5, <1>6

(* A restart ends every request; what was being provisioned is lost.       *)
LEMMA RestartStep ==
  ASSUME WorkersInv, Restart PROVE WorkersInv'
  <1> USE WorkersAssumption DEF WorkersInv, Restart
  <1>0. task \in [Task -> [at : TaskPhase, host : Host, left : SUBSET Address]]
    BY DEF WorkersTypeOK
  <1>1. /\ task' \in [Task -> [at : TaskPhase, host : Host, left : SUBSET Address]]
        /\ \A t \in Task :
             /\ task'[t].host = task[t].host
             /\ task[t].at \in Provisioning \cup {"lost"} => task'[t].at = "lost"
             /\ task'[t].at \notin Provisioning \cup {"calling"}
    <2> DEFINE Rec == [at : TaskPhase, host : Host, left : SUBSET Address]
               new(t) == CASE task[t].at \in Provisioning -> [task[t] EXCEPT !.at = "lost"]
                           [] task[t].at \in {"calling", "checking"} ->
                                [task[t] EXCEPT !.at = "done", !.left = {}]
                           [] OTHER -> task[t]
    <2>1. task' = [t \in Task |-> new(t)]
      OBVIOUS
    <2> SUFFICES ASSUME NEW t \in Task
                 PROVE  /\ new(t) \in Rec
                        /\ new(t).host = task[t].host
                        /\ task[t].at \in Provisioning \cup {"lost"} => new(t).at = "lost"
                        /\ new(t).at \notin Provisioning \cup {"calling"}
      BY <2>1
    <2> HIDE DEF WorkersInv, Restart
    <2>2. task[t] \in Rec /\ "lost" \in TaskPhase /\ "done" \in TaskPhase
      BY <1>0 DEF TaskPhase
    <2>3. CASE task[t].at \in Provisioning
      <3>1. new(t) = [task[t] EXCEPT !.at = "lost"]
        BY <2>3 DEF Provisioning
      <3> HIDE DEF new
      <3> QED
        BY <2>2, <2>3, <3>1 DEF Provisioning
    <2>4. CASE task[t].at \in {"calling", "checking"}
      <3>1. new(t) = [task[t] EXCEPT !.at = "done", !.left = {}]
        BY <2>4 DEF Provisioning
      <3> HIDE DEF new
      <3> QED
        BY <2>2, <2>4, <3>1 DEF Provisioning
    <2>5. CASE task[t].at \notin Provisioning \cup {"calling", "checking"}
      <3>1. new(t) = task[t]
        BY <2>5
      <3> HIDE DEF new
      <3> QED
        BY <2>2, <2>5, <3>1
    <2> QED
      BY <2>3, <2>4, <2>5
  <1>2. beat' \in [Device -> Beat] /\ \A d \in Device : beat'[d].at = "idle"
    BY DEF NoBeat, Beat, Host
  <1>3. restarts' \in 0..MaxRestarts
    <2>1. restarts \in 0..MaxRestarts /\ MaxRestarts \in Nat
      BY DEF WorkersTypeOK
    <2>2. restarts < MaxRestarts /\ restarts' = restarts + 1
      OBVIOUS
    <2> HIDE DEF Restart
    <2> QED
      BY <2>1, <2>2
  <1>4. WorkersTypeOK'
    BY <1>1, <1>2, <1>3 DEF WorkersTypeOK
  <1>5. Placed'
    BY <1>1, <1>2 DEF Placed
  <1>6. ProvisioningHasOwner'
    BY <1>1, OwnersStay
  <1> QED
    BY <1>4, <1>5, <1>6

(* The registry's invariant is kept by every step.                         *)
LEMMA WorkersStepInv == WorkersInv /\ [WorkersNext]_workersVars => WorkersInv'
  <1> SUFFICES ASSUME WorkersInv, [WorkersNext]_workersVars PROVE WorkersInv'
    OBVIOUS
  <1>1. CASE DeviceNext
    BY <1>1, DeviceStep
  <1>2. CASE (\E i \in Id : MinutePasses(i)) \/ MarkStaleWorkers
    BY <1>2, SweepStep
  <1>3. CASE TaskNext
    BY <1>3, StatusSteps, OtherTaskSteps DEF TaskNext, TaskProceeds
  <1>4. CASE \E c \in Caller : Rewritten(c)
    BY <1>4 DEF Rewritten, WorkersInv, WorkersTypeOK, Placed, ProvisioningHasOwner
  <1>5. CASE Restart
    BY <1>5, RestartStep
  <1>6. CASE UNCHANGED workersVars
    BY <1>6 DEF workersVars, WorkersInv, WorkersTypeOK, Placed, ProvisioningHasOwner
  <1> QED
    BY <1>1, <1>2, <1>3, <1>4, <1>5, <1>6 DEF WorkersNext, RegistryNext

(* The variables of the registry keep their types, with any number of      *)
(* devices, addresses and overlapping handlers (the workers table and the  *)
(* handlers of server/main.go that write it).                              *)
THEOREM WorkersTypeCorrect == WorkersSpec => []WorkersTypeOK
  <1>1. WorkersInv => WorkersTypeOK
    BY DEF WorkersInv
  <1> QED
    BY <1>1, WorkersInitInv, WorkersStepInv, PTL DEF WorkersSpec

(* A row in provisioning always has a provisioner at its address, or the   *)
(* gateway was restarted under it (ProvisionWorker, handleAdminAddWorker). *)
THEOREM ProvisioningOwned == WorkersSpec => []ProvisioningHasOwner
  <1>1. WorkersInv => ProvisioningHasOwner
    BY DEF WorkersInv
  <1> QED
    BY <1>1, WorkersInitInv, WorkersStepInv, PTL DEF WorkersSpec
=============================================================================
