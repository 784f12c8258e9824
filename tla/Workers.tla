------------------------------ MODULE Workers ------------------------------
(***************************************************************************)
(* The worker registry of the gateway.  A worker reports itself by         *)
(* heartbeat under a stable id, and its address is taken from the          *)
(* connection (Heartbeat of server/store.go); a worker not heard of for a  *)
(* minute is marked down.  Failed calls and the teacher's Recheck, Delete  *)
(* and Add worker change the table too, by address and not by id.  Every   *)
(* handler is a goroutine of its own and one SQL statement is one step.    *)
(* A handler that ends in regenUpstream stays in rewriting until that is   *)
(* done; its steps are those of module Upstream.  The row of the gateway's *)
(* own runner is left out: regenUpstream lists its address in any case.    *)
(***************************************************************************)
EXTENDS Integers, FiniteSets

CONSTANTS
  Enrolled,     \* devices whose runner has an id and sends heartbeats
  Reachable,    \* devices the teacher can provision over SSH
  Address,      \* IP addresses the network can hand out
  Task,         \* requests of teachers and dispatchers, each made once
  MaxRestarts   \* bound on restarts of the gateway process

ASSUME WorkersAssumption ==
  /\ MaxRestarts \in Nat
  /\ (Enrolled \cup Reachable) \cap Task = {}
  /\ "nowhere" \notin Address /\ "none" \notin Enrolled \cup Task
  /\ "sweep" \notin Enrolled \cup Reachable \cup Task

VARIABLES
  row,        \* [Id -> Row], the workers table
  device,     \* [Device -> its address, whether its mirror is complete, the id
              \*  its runner was started with and the one it will start with]
  beat,       \* [Device -> Beat], the handler of its heartbeat
  task,       \* [Task -> phase, address it is about, addresses to recheck]
  rewriting,  \* the callers inside regenUpstream
  restarts    \* restarts of the gateway so far

workersVars == <<row, device, beat, task, rewriting, restarts>>

Device == Enrolled \cup Reachable
Id == Enrolled \cup Task           \* a task that adds a worker makes a new id
Caller == Device \cup Task \cup {"sweep"}

Host == Address \cup {"nowhere"}
Row == [host : Host, seen : {"never", "lately", "long ago"},       \* last_seen
        status : {"absent", "up", "down", "provisioning", "error"}]
Absent == [host |-> "nowhere", status |-> "absent", seen |-> "never"]

Beat == [at : {"idle", "looked"}, host : Host, id : Id \cup {"none"}, changed : BOOLEAN]
NoBeat == [at |-> "idle", host |-> "nowhere", id |-> "none", changed |-> FALSE]

Provisioning == {"setup", "pushed", "installed", "verifying"}
TaskPhase == Provisioning \cup {"idle", "calling", "checking", "done", "lost"}

UpHosts == {row[i].host : i \in {j \in Id : row[j].status = "up"}}

SetWorkerStatus(h, s) ==
  row' = [i \in Id |-> IF row[i].host = h THEN [row[i] EXCEPT !.status = s]
                                          ELSE row[i]]

RegenUpstream(c) == rewriting' = rewriting \cup {c}
TaskMoves(t, to) == task' = [task EXCEPT ![t].at = to]

On(d) == device[d].host # "nowhere"
Answering(h) == {d \in Device : device[d].host = h /\ device[d].id # "none"}
Beating(d) == On(d) /\ device[d].id # "none" /\ device[d].mirrored

WorkersInit ==
  /\ row = [i \in Id |-> Absent]
  /\ device = [d \in Device |->
       LET i == IF d \in Enrolled THEN d ELSE "none" IN
       [host |-> "nowhere", mirrored |-> d \in Enrolled \cap Reachable,
        id |-> i, unit |-> i]]
  /\ beat = [d \in Device |-> NoBeat]
  /\ task = [t \in Task |-> [at |-> "idle", host |-> "nowhere", left |-> {}]]
  /\ rewriting = {}
  /\ restarts = 0

-----------------------------------------------------------------------------
(* The devices.                                                            *)

(* A device comes onto the network, at any free address.  A balena device  *)
(* that was rebooted checks its mirror again (rm -f .ready in start.sh); a *)
(* device provisioned over SSH never does.  Where the runner's service is  *)
(* enabled, rebooting starts it with the id its unit has now.              *)
Joins(d, a) ==
  /\ ~On(d)
  /\ \A e \in Device : device[e].host # a
  /\ \E m \in {device[d].mirrored, FALSE}, i \in {device[d].id, device[d].unit} :
       /\ d \in Reachable => m = device[d].mirrored
       /\ device[d].id = "none" => i = "none"
       /\ device' = [device EXCEPT ![d].host = a, ![d].mirrored = m, ![d].id = i]
  /\ UNCHANGED <<row, beat, task, rewriting, restarts>>

Leaves(d) ==
  /\ On(d)
  /\ device' = [device EXCEPT ![d].host = "nowhere"]
  /\ UNCHANGED <<row, beat, task, rewriting, restarts>>

MirrorDone(d) ==
  /\ d \notin Reachable /\ On(d) /\ ~device[d].mirrored
  /\ device' = [device EXCEPT ![d].mirrored = TRUE]
  /\ UNCHANGED <<row, beat, task, rewriting, restarts>>

-----------------------------------------------------------------------------
(* Heartbeats and the sweep.                                               *)

(* The SELECT of Heartbeat.  The runner's loop sends one every 30 s, by    *)
(* when the last is taken to be handled, and only while its mirror answers *)
(* that it is complete.                                                    *)
HeartbeatArrives(d) ==
  /\ Beating(d)
  /\ beat[d].at = "idle" /\ d \notin rewriting
  /\ LET i == device[d].id IN
       beat' = [beat EXCEPT ![d] =
         [at |-> "looked", host |-> device[d].host, id |-> i,
          changed |-> row[i].status = "absent" \/ row[i].host # device[d].host]]
  /\ UNCHANGED <<row, device, task, rewriting, restarts>>

(* Mutant: the upsert leaves the address of a known worker alone.          *)
UpsertKeepsHost(i, h) ==
  [host |-> IF row[i].status = "absent" THEN h ELSE row[i].host,
   status |-> "up", seen |-> "lately"]

Upsert(i, h) == [host |-> h, status |-> "up", seen |-> "lately"]

(* The upsert; the upstream is rewritten only for a new id or address.     *)
HeartbeatRecorded(d) ==
  LET b == beat[d] IN
  /\ b.at = "looked"
  /\ row' = [row EXCEPT ![b.id] = Upsert(b.id, b.host)]
  /\ beat' = [beat EXCEPT ![d] = NoBeat]
  /\ IF b.changed THEN RegenUpstream(d) ELSE UNCHANGED rewriting
  /\ UNCHANGED <<device, task, restarts>>

(* A minute passes in which nothing is heard of the worker (of one that is *)
(* not up, nobody asks).                                                   *)
MinutePasses(i) ==
  /\ row[i].status = "up" /\ row[i].seen = "lately"
  /\ row' = [row EXCEPT ![i].seen = "long ago"]
  /\ UNCHANGED <<device, beat, task, rewriting, restarts>>

(* Mutant: a worker that was never heard of is not stale.                  *)
StaleIfHeard(i) == row[i].status = "up" /\ row[i].seen = "long ago"

Stale(i) == row[i].status = "up" /\ row[i].seen # "lately"

Sweep ==
  /\ "sweep" \notin rewriting
  /\ \E i \in Id : Stale(i)
  /\ row' = [i \in Id |-> IF Stale(i) THEN [row[i] EXCEPT !.status = "down"] ELSE row[i]]
  /\ UNCHANGED <<device, beat, task, restarts>>

(* Mutant: the loop in main forgets to rewrite the file.                   *)
SweepSilently == Sweep /\ UNCHANGED rewriting

MarkStaleWorkers == Sweep /\ RegenUpstream("sweep")

-----------------------------------------------------------------------------
(* A dispatcher whose call to a worker fails (handleSubmit and             *)
(* handleRunExecStart): it picked the worker earlier, by address.          *)

CallStarts(t, h) ==
  /\ task[t].at = "idle"
  /\ h \in UpHosts
  /\ task' = [task EXCEPT ![t].at = "calling", ![t].host = h]
  /\ UNCHANGED <<row, device, beat, rewriting, restarts>>

CallFails(t) ==
  /\ task[t].at = "calling"
  /\ SetWorkerStatus(task[t].host, "down")
  /\ TaskMoves(t, "done")
  /\ RegenUpstream(t)
  /\ UNCHANGED <<device, beat, restarts>>

-----------------------------------------------------------------------------
(* The teacher's requests.                                                 *)

HandleAdminDelWorker(t, h) ==
  /\ task[t].at = "idle"
  /\ row' = [i \in Id |-> IF row[i].host = h THEN Absent ELSE row[i]]
  /\ TaskMoves(t, "done")
  /\ RegenUpstream(t)
  /\ UNCHANGED <<device, beat, restarts>>

(* Mutant: nothing is skipped.                                             *)
RecheckedAll == {row[i].host : i \in Id}

Rechecked ==
  {row[i].host : i \in {j \in Id : row[j].status \notin {"absent", "provisioning"}}}

HandleAdminRecheck(t) ==
  /\ task[t].at = "idle"
  /\ task' = [task EXCEPT ![t].at = "checking", ![t].left = Rechecked]
  /\ UNCHANGED <<row, device, beat, rewriting, restarts>>

(* Whatever answers at the address brings up every row that has it, and    *)
(* the runner answers /health whether or not its mirror is complete.       *)
RecheckOne(t, h) ==
  /\ task[t].at = "checking"
  /\ h \in task[t].left
  /\ \/ Answering(h) # {} /\ SetWorkerStatus(h, "up")
     \/ SetWorkerStatus(h, "down")
  /\ task' = [task EXCEPT ![t].left = @ \ {h}]
  /\ UNCHANGED <<device, beat, rewriting, restarts>>

RecheckEnds(t) ==
  /\ task[t].at = "checking"
  /\ task[t].left = {}
  /\ TaskMoves(t, "done")
  /\ RegenUpstream(t)
  /\ UNCHANGED <<row, device, beat, restarts>>

HandleAdminAddWorker(t, h) ==
  /\ task[t].at = "idle"
  /\ row' = [row EXCEPT ![t] = [host |-> h, status |-> "provisioning", seen |-> "never"]]
  /\ task' = [task EXCEPT ![t].at = "setup", ![t].host = h]
  /\ UNCHANGED <<device, beat, rewriting, restarts>>

(* note() of ProvisionWorker, by address and any number of times.          *)
ProvisionNote(t) ==
  /\ task[t].at \in {"setup", "pushed"}
  /\ SetWorkerStatus(task[t].host, "provisioning")
  /\ UNCHANGED <<device, beat, task, rewriting, restarts>>

(* The runner's unit is written with the new id.                           *)
ProvisionPushes(t) ==
  /\ task[t].at = "setup"
  /\ \E d \in Reachable :
       /\ device[d].host = task[t].host
       /\ device' = [device EXCEPT ![d].unit = t]
  /\ TaskMoves(t, "pushed")
  /\ UNCHANGED <<row, beat, rewriting, restarts>>

(* The mirror is copied and the services are enabled and restarted.        *)
ProvisionInstalls(t) ==
  /\ task[t].at = "pushed"
  /\ \E d \in Reachable :
       /\ device[d].host = task[t].host /\ device[d].unit = t
       /\ device' = [device EXCEPT ![d].id = t, ![d].mirrored = TRUE]
  /\ TaskMoves(t, "installed")
  /\ UNCHANGED <<row, beat, rewriting, restarts>>

ProvisionVerifies(t) ==
  /\ task[t].at = "installed"
  /\ SetWorkerStatus(task[t].host, "provisioning")
  /\ TaskMoves(t, "verifying")
  /\ UNCHANGED <<device, beat, rewriting, restarts>>

ProvisionSucceeds(t) ==
  /\ task[t].at = "verifying"
  /\ Answering(task[t].host) # {}
  /\ SetWorkerStatus(task[t].host, "up")
  /\ TaskMoves(t, "done")
  /\ RegenUpstream(t)
  /\ UNCHANGED <<device, beat, restarts>>

(* Mutant: an error ends provisioning without a word.                      *)
ProvisionQuits(t) ==
  /\ task[t].at \in Provisioning
  /\ TaskMoves(t, "done")
  /\ UNCHANGED <<row, device, beat, rewriting, restarts>>

ProvisionFails(t) ==
  /\ task[t].at \in Provisioning
  /\ SetWorkerStatus(task[t].host, "error")
  /\ TaskMoves(t, "done")
  /\ UNCHANGED <<device, beat, rewriting, restarts>>

-----------------------------------------------------------------------------

Rewritten(c) ==
  /\ c \in rewriting
  /\ rewriting' = rewriting \ {c}
  /\ UNCHANGED <<row, device, beat, task, restarts>>

(* The process restarts: the table stays, goroutines do not.               *)
Restart ==
  /\ restarts < MaxRestarts
  /\ restarts' = restarts + 1
  /\ beat' = [d \in Device |-> NoBeat]
  /\ task' = [t \in Task |->
       CASE task[t].at \in Provisioning -> [task[t] EXCEPT !.at = "lost"]
         [] task[t].at \in {"calling", "checking"} ->
              [task[t] EXCEPT !.at = "done", !.left = {}]
         [] OTHER -> task[t]]
  /\ rewriting' = {}
  /\ UNCHANGED <<row, device>>

DeviceNext ==
  \E d \in Device :
    \/ \E a \in Address : Joins(d, a)
    \/ Leaves(d)
    \/ MirrorDone(d)
    \/ HeartbeatArrives(d)
    \/ HeartbeatRecorded(d)

TaskProceeds(t) ==
  \/ \E h \in Address : RecheckOne(t, h)
  \/ RecheckEnds(t)
  \/ ProvisionPushes(t)
  \/ ProvisionInstalls(t)
  \/ ProvisionVerifies(t)
  \/ ProvisionSucceeds(t)
  \/ ProvisionFails(t)

TaskNext ==
  \E t \in Task :
    \/ \E h \in Address : \/ CallStarts(t, h)
                          \/ HandleAdminDelWorker(t, h)
                          \/ HandleAdminAddWorker(t, h)
    \/ HandleAdminRecheck(t)
    \/ CallFails(t)
    \/ ProvisionNote(t)
    \/ TaskProceeds(t)

RegistryNext ==
  \/ DeviceNext
  \/ \E i \in Id : MinutePasses(i)
  \/ MarkStaleWorkers
  \/ TaskNext

WorkersNext ==
  \/ RegistryNext
  \/ \E c \in Caller : Rewritten(c)
  \/ Restart

(* The goroutines of one device's heartbeats, of one request, and the      *)
(* sweep's.                                                                *)
BeatSteps(d) == HeartbeatArrives(d) \/ HeartbeatRecorded(d) \/ Rewritten(d)
TaskSteps(t) == TaskProceeds(t) \/ Rewritten(t)
SweepSteps == MarkStaleWorkers \/ Rewritten("sweep")

(* The runner's loop keeps sending and the network keeps delivering, time  *)
(* passes, the sweep runs every 20 s and goroutines run on.  Devices,      *)
(* teachers and failing calls owe nothing.                                 *)
WorkersFairness ==
  /\ \A d \in Device : WF_workersVars(BeatSteps(d))
  /\ \A i \in Id : WF_workersVars(MinutePasses(i))
  /\ \A t \in Task : WF_workersVars(TaskSteps(t))
  /\ WF_workersVars(SweepSteps)

WorkersSpec == WorkersInit /\ [][WorkersNext]_workersVars
FairWorkersSpec == WorkersSpec /\ WorkersFairness

-----------------------------------------------------------------------------

(* Every variable of the registry has its type.                            *)
WorkersTypeOK ==
  /\ row \in [Id -> Row]
  /\ device \in [Device -> [host : Host, mirrored : BOOLEAN, id : Id \cup {"none"},
                         unit : Id \cup {"none"}]]
  /\ beat \in [Device -> Beat]
  /\ task \in [Task -> [at : TaskPhase, host : Host, left : SUBSET Address]]
  /\ rewriting \subseteq Caller
  /\ restarts \in 0..MaxRestarts

(* A row that says it is being provisioned has a provisioner at work on    *)
(* its address, unless the gateway was restarted under it: no handler that *)
(* touches the table by address, no error and no heartbeat strands a row   *)
(* in the one status that neither the sweep nor Recheck ends               *)
(* (ProvisionWorker and the goroutine of handleAdminAddWorker).            *)
ProvisioningHasOwner ==
  \A i \in Id : row[i].status = "provisioning" =>
    \E t \in Task : task[t].at \in Provisioning \cup {"lost"}
                    /\ task[t].host = row[i].host

(* A device that stays at an address with its mirror complete is found     *)
(* there again and again, whatever address it had before and whatever      *)
(* other devices, failed calls or teachers do ("re-found automatically as  *)
(* long as it keeps the same id", handleWorkerHeartbeat).                  *)
FoundAgain ==
  \A d \in Device, a \in Address :
    <>[](device[d].host = a /\ Beating(d))
      => []<>(\E i \in Id : device[d].id = i /\ row[i].host = a /\ row[i].status = "up")

(* An id that no device reports any more does not stay up, not even when   *)
(* another device took over its address (MarkStaleWorkers).                *)
DeadIsMarkedDown ==
  \A i \in Id :
    <>[](\A d \in Device : device[d].id = i => ~On(d)) => <>[](row[i].status # "up")
=============================================================================
