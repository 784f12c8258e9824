# TLA+ models of the LC3 classroom cluster

A school runs one gateway (`server/`, Go: nginx in front, SQLite and files
behind), a number of worker nodes that compile, run and grade student programs
(`worker/runner.py`), and one VS Code web page per student or teacher
(`ext/lc3/extension.ls`). These modules model the parts of that system whose
correctness depends on order: who holds a slot, who counts it, whose answer is
recorded, which command a stopped program gets, who gets a folder and who takes
it back. They are checked by TLC on small instances, and the
central ones are proved for every instance with TLAPS.

## Inventory

| component | state | operations | talks to |
|---|---|---|---|
| interactive runs, runner (`runner.py:463-630`) | `_run_sem`, `_busy`, `_sessions`, one reader thread per session | `exec_start`, `exec_output`, `exec_input`, `exec_kill`; the reader; a restart | called by the gateway over HTTP, a thread per call |
| interactive runs, gateway (`run.go`) | `execRoutes`, `runLoad`, each under its own mutex | start with fall-over, output poll, input, kill | reads `store.UpWorkers`, calls runners with time-outs |
| Run terminal (`extension.ls:95-195, 436-500`) | the attached run, the poll loop | Run, Stop, Ctrl+C, close, typed input | the gateway's `/api/run/exec/*`, or the page's Pyodide worker |
| assignments (`main.go:395-464, 936-1102, 1117-1912`, `signup.go:176-196`) | `manifest.json`, `starter/`, each student's folder, `collected/`, the users table | upload, create from folder, publish, unpublish, recall, settings, delete, enrol, move, delete class or student | one goroutine per request, no lock over the files |
| worker registry, CDN upstream (`store.go:339-417`, `main.go:1923-2170`) | the workers table, `upstream.conf` | heartbeat, stale marking, recheck, add, delete, provisioning, regenUpstream | read by the dispatchers |
| grade dispatch (`main.go:500-760`, `runner.py:430-445, 936-947`) | `inflight` per host, the submissions table, the runner's grade lock and count | submit, compile, pick, call, retry, record | runners, a thread per call |
| input and debug relay (`main.go:763-911`, `pyodide-worker.ls:129-380`, `extension.ls:600-915`) | 256-message queues keyed by user, run and channel; the debugging session; the program in its worker | push, long poll, drop; stop, ask, resume, evaluate, stop the session | the terminal, the debugger, a stopped program |
| sign-up (`signup.go`) | tallies per address, the users table | sign up, clear, open and close a class | assignments (reconcile) |
| accounts and sessions (`main.go`, `store.go`) | users, sessions | login, logout, passwords | - |
| student files (`main.go:240-390`) | the student's tree | list, read, write, rename, delete | shares its directories with assignments |
| worker shell (`shell.go`, `runner.py:640-830`, `extension.ls:225-310`) | `shellRoutes`, shell sessions, a cap, the shell terminals | start, output, input, resize, kill, reap | a second copy of the run design |
| run output (`runner.py:482-508`) | one byte buffer per session | append, finish, read from an offset | reader thread and polls |
| test harness (`lc3_pyharness.py`, `LC3Runner.java`) | none between runs | run the tests, write the report | started by the runner |
| pure helpers (`meta.go`, `template.go`) | none | parse and format metadata, due dates, starter templates | - |
| provisioning (`provision.go`), seeding (`seed.go`), relay agent, CDN mirror, login page, deployment | - | - | shells, SSH, nginx |

What makes each of them correct:

- *runs on a runner*: the semaphore and the calls that hold it always add up to
  `RUN_MAX`; the count reported to the teacher does not drift from it; every
  slot comes back.
- *runs on the gateway*: a route leads to the session that this start created;
  it is counted once and uncounted once whoever drops it; it stays while the
  program lives; every start is answered.
- *terminal*: one poll at a time, the end of the program is learned or the user told
  that the connection is lost, a kill that arrives frees the route.
- *assignments*: publishing reaches the students of the classes, unpublishing takes the
  folder back, whoever joins gets what the class has; what is taken back is copied
  first; only Publish opens.
- *registry*: a device that stays is found, one that is gone goes down, no row is
  stranded in provisioning, and the upstream lists exactly the workers that are up
  once the events stop.
- *grading*: a row is the grade of the one call that was not given up, `inflight`
  is the number of calls under way, every request is answered, every grader
  comes free.
- *debugging*: what the editor shows is where the program stands, a resume reaches
  the stop it was given for, a stop is shown, the session ends with its program.
- *shell*: the cap counts what lives, a living shell stays reachable, one nobody
  reads is closed.
- *not modelled yet*: sign-up (one account per name, the caps hold) and run output
  (polls show every byte once, in order).

Every hazard found while reading is listed, with its line, under `hazards` in
`PROJECT.json`.

## Modules

| module | models |
|---|---|
| `SlotPool` | what a cap on interactive runs promises: a plain pool of slots per node |
| `RunnerExec` | the runner's side: semaphore, counter, session table, reader threads, restarts |
| `ExecGateway` (extends `RunnerExec`) | the gateway's side: fall-over, routes, load, polls and kills, with open clients |
| `ExecTerminal` (extends `ExecGateway`) | the editor's Run terminal in place of the open clients |
| `Assignments` | one assignment with its students, classes and overlapping requests |
| `AssignmentsHistory` (extends `Assignments`) | two promises of the repository's README, and the history they speak of |
| `Workers` | the registry: heartbeats, the sweep, failed calls, teachers' requests, provisioning |
| `Upstream` (extends `Workers`) | `regenUpstream` by overlapping callers, the file and nginx |
| `GradeDispatch` | submissions and compilations over the graders of the nodes, with calls given up at any moment |
| `Relay` | the gateway's queues between a program in the browser and the editor |
| `StopAndGo` | what a debugger promises: stops are shown in order, and the program goes on once for each command |
| `Debug` (extends `Relay`) | one debugging session: the program in its worker, the handlers, the editor |
| `Shell` | the teacher's shells on one worker: terminals, routes, sessions, cap and reaper |
| `RunnerExecProofs`, `WorkersProofs`, `UpstreamProofs`, `GradeDispatchProofs`, `DebugProofs`, `ShellProofs`, `AssignmentsProofs` | theorems about the modules they are named for |
| `ExecProofs` | theorems about `ExecGateway` and `ExecTerminal` |
| `MCExecTerminal`, `MCAssignments`, `MCAssignmentsHistory`, `MCWorkers`, `MCUpstream`, `MCGradeDispatch`, `MCDebug`, `MCShell` | the instances TLC checks |

### RunnerExec

`job[h][r]` is the program counter of call `r` on host `h` and of the session it
leaves behind. Its phases are the points of `exec_start` and `_reader` between
which another thread may run: after `acquire`, after `busy_add(1)`, after
`_run_sem.release()`, after `busy_add(-1)`, after the session is popped. The
answer of the call and the answer of a poll (`Answer`, `OutputDone`) are
functions of the phase. `MakeJobDirFails` is the exception of `os.makedirs`
outside the `try`, which loses the slot; it happens only when the constant
`DiskMayFail` allows it. `Restart` clears everything a runner process keeps in
memory; a call it was serving is `lost`. Output bytes and input are left out.

`SlotPool` has two operations, take and give back, and a restart. `RunnerExec`
implements it with `held` mapped to the calls in a holding phase and `past` to
those that will not hold a slot again.

### ExecGateway

One start request is `HandleStart` (the order of `pickExecRunner`, every
least-loaded-first order the sort and the database may give), then for each
runner in turn `CallArrives` and one of `TakeRunning`, `PassBack`, `CallFails`.
`CallFails` may happen before the call arrives, while the runner works on it, or
after it has answered: no connection, a time-out and a lost answer look the same
to `execCall`. A runner that was given up can therefore still start the program.
`TakeRunning` (the route, under `execRoutesMu`) and `CountRoute` (the load, under
`runLoadMu`) are two steps, as are `DropRoute` and `UncountRoute`. A poll and a
kill are handlers with a phase each in `op`: looked up, asked, dropping. At most
one poll and one kill per run are under way; `ExecTerminal` shows that the editor
sends no more (`RequestsDoNotOverlap`).
`StatusChanges` lets any worker go up or down at any time, which covers
everything module `Workers` does.

### ExecTerminal

`sent` holds requests on their way (in any order of arrival), `awaiting` the
replies whose callback has not run. The callbacks `StartReplied` and
`PollReplied` run whenever the event loop gets to them, so a reply may be old
when it is handled. A request may be lost before the gateway has it (`Loses`, at most
`MaxLost` times, remembered in `lost`), and a start or a poll may be rejected at any
time after it was sent, whatever the gateway does with it (`StartRejected`,
`PollRejected`: the two handlers at `extension.ls:454` and `478`); after the second
the terminal shows a lost connection, `told`, and polls no more. A lost kill has no
handler at all (`extension.ls:186`). One terminal is modelled; Python runs, typed input
and a terminal that is closed and replaced while a start is unanswered are not.

### Assignments

A request is a task with a list of steps still to do (`prog`) and the local
variables of its goroutine. Each step is what happens between two points where
another request or a student's save can intervene: reading the manifest, one
query, one student's copy, `os.WriteFile`'s truncate and its write. `net/http` runs the
requests side by side and no lock orders them, so any number of tasks may be under way.
A directory is abstracted to what it holds: nothing, directories or files with something
missing or cut short (`bare`), the starter, the student's work. `manifest.json` can be
missing, truncated, garbled by two writers, or saved. Where `DiskMayFail`, every write
may fail: a copy breaks off before it began or part-way (`Copies`), whose error
`reconcileStudent`, `publishAssignment` and `recallAssignment` all ignore; a manifest is
not truncated or not written, which ends the request, but not in `publishAssignment`
(`trySave`, `tryWrite`); a directory is not made or filled. The loops over assignments
treat each alone, so one assignment stands for all. A class always exists: creating one
again after it was deleted changes nothing here.

What a request promises it can only promise to those whom nobody else touched
meanwhile. Three history variables, written by `Note` in every step, say who that is.
`crossed` are the requests since whose beginning another one changed the manifest or
the assignment's directory. `touched[t]` are the students whose class, folder or kept
copy a step not of `t` changed since `t` began, everybody if `t` is crossed; a save into
a folder that is there does not count. `broke[t]` are those for whom a copy of `t` itself
broke off. The properties excuse these and nobody else, so an unpublish, say, answers
for every student of the class but those who were moved, or got the folder from
somebody else, while it walked.

`AssignmentsHistory` states two promises of the repository's README without excuses, and
adds the history that takes: `gaveUp`, the students who deleted the folder themselves,
and `takenBack`, those whose work was taken back with their class.

### Workers

`row` is the workers table, keyed by id; a worker added by the teacher gets the
task's name as its id, since `newWorkerID` makes one for each request. What is
written by address (`SetWorkerStatus`, `DeleteWorker`) touches every row with
that address. `device` says where each device is, whether its mirror is complete
and under which id it reports. Devices join and leave at any free address, so an
address may pass to another device (DHCP). A device in `Enrolled` is a balena
device with an id of its own; one in `Reachable` accepts the SSH of
`ProvisionWorker`; a device may be both.

`Heartbeat` is two statements, hence two steps (`HeartbeatArrives`,
`HeartbeatRecorded`). Time is three values of `seen`: never (`last_seen` 0, as
`PutWorker` leaves it), less than a minute ago, longer. The sweep marks both the
first and the last down: a worker that has just been provisioned goes down at the
next sweep unless its first heartbeat came before. A failed call of a dispatcher
(`CallFails`) uses an address it picked earlier. Recheck goes through the addresses
it listed, one request each, and brings an address up on any answer of the runner.
`ProvisionWorker` is its status writes (`ProvisionNote`, `ProvisionVerifies`), what
it leaves on the device and its ends; everything between is SSH and may fail at any
point. It leaves two things at two times: the unit file with the new id
(`ProvisionPushes`, `unit`), which a runner that restarts takes up, and, if it gets that
far, the mirror and the running services (`ProvisionInstalls`). `Restart` keeps the table
and drops every goroutine;
a provisioning cut off this way is `lost`. A caller of `regenUpstream` is in
`rewriting` until that has returned.

### Upstream

Each caller in `rewriting` reads the table, writes the file, and has nginx test and
load it (`ReadUpWorkers`, `WriteUpstream`, `ReloadNginx`); callers interleave, for
there is no lock. `os.WriteFile` alone is whole; overlapped it may leave a mixed
file, which `nginx -t` refuses. `WriteFails` leaves it truncated. Two history
variables say where the code gives no guarantee, and the invariant excuses only
that: `spoilt`, when the last reader overlapped another, its write failed, or a
restart cut a rewrite off; and `unlisted`, the addresses that changed since the last
read in one of the steps that rewrite nothing.

### GradeDispatch

`submit[s]` is the handler of one request: its place `at` and the runners still to
try, `plan`, in an order `pickRunners` may give. `CallRunner` counts the call in
`inflight` and hands it to a thread of that runner, or nothing arrives; `CallFails`
may come at any moment of it, before the job starts, while it waits or grades, and
after it has answered, since no connection, 150 s and an unreadable answer look alike to
`callRunner`. (All attempts decode into one `result`, `main.go:663`. What an unreadable
answer left there is overwritten by the next, which always has a status and tests; only
the `reason` shown to a teacher who rehearses could be an older runner's.) The runner's
thread notices nothing of that: it waits in `_grade_lock` without a bound (`Acquire`),
raises the count (`Grade`), grades, lowers the count (`GradeEnds`), and leaves the lock and
answers (`Release`), four steps between which other threads run. A plan names a runner
once, so `job[h][s]` is the one call of request `s` on host `h`. `NextRunner` marks a
worker down that failed a grading, and leaves one alone that failed a compilation, as the
two handlers do. `Record` writes the row or not (`AddSubmission` drops its error). Either
side may restart. What is graded and whether it was late is data; the listings of
submissions read only. `SlotPool` is implemented here too, with `Holders(h)` held; that is proved
(`GradersImplementPool`), and not among the run's properties.

### Relay, StopAndGo and Debug

A queue is a Go channel made by whoever comes first. `DropRelayQueues` removes the
entry while a handler may be waiting on the channel: it then waits `apart`, on a
channel no later push reaches, until it gives up. `RelayPush` drops what finds the
channel full. It looks the channel up and sends outside the lock; the two are one step,
because a channel dropped in between makes the push what it would have been before the
drop, or a lost one.

`Debug` follows the program (`pc`) from the start of its worker through stops, where
it is inside `lc3DebugAsk` and blocks the worker with one request at a time (`ask`:
sent, event pushed, waiting, answered), to its end. The editor's session keeps one
poll (`poll`) under way; its commands are POSTs that do not wait for each other
(`posts`, a set, taken out in any order, each may fail). A command to go on is given at
any moment (`ResumeProgram`), for `continue`, `next` and the others ask neither whether a
stop is shown nor whether the session is alive (`extension.ls:705-716, 783-787`): two in
a hurry are two POSTs, and the second may answer the next stop. An event that cannot be
parsed is consumed without being shown, and the polling goes on (`EventUnreadable`,
`extension.ls:811`); `missed` remembers that the news of the last stop went this way, or
found its queue full. `start`, `stop` and `exit` go over the page's channel: `killing` and
`exiting`. Evaluations and new breakpoints are `SendExtra`. A student program may catch
the exception that is to stop it (`loose`). A worker that never gets through its own
boot stays in `loading`. Values, frames, lines and conditions are data. The channel
`stdin` is the same relay with one sender and one reader, and is not instantiated.

`StopAndGo` is an abstract debugger: a program stops (`Stops`), stops are shown in their
order, none before it happened and none twice, though some may be left out (`Shows`), or
shown no more (`Hides`); a program is told to go on (`Tells`) and goes on, once for each
time it was told (`GoesOn`); it may get away for good (`GetsAway`). `Debug` implements it
with `state` mapped from `pc`, `asked` from `told`, and `stops`, `seen` and `view` those of
program and session.

### Shell

One worker, whose terminals start one shell each at most, so that a shell has its
terminal's name. `shell[t]` is the phase of the session at the runner (claimed under
the lock, listed, signalled, finished, given back, popped), `start`, `poll` and
`killing` are the requests, `routes` the gateway's table, `term` what the page thinks.
`IdlePasses` is `SHELL_IDLE_SEC` without a poll, which may pass whenever the runner is
not holding one. `StartReplied` runs whether or not the
terminal has been closed meanwhile, as its callback does. A start may fail before there
is a process (`refused`), or after `Popen`, with the session not yet in `_shells`
(`unlisted`) or in it without a reader (`stray`, when the thread cannot be started): the
count is then given back while the process lives. The reaper finds the second, nobody
finds the first. Bytes, resizing and the input coalescing are left out.

## Runs

| run | instance | shows |
|---|---|---|
| `terminal` | local, 2 programs, 1 slot, 1 restart, failing disk, every request arrives | types, slot and busy accounting, the pool refinement, requests never overlap, load accounting |
| `terminal_live` | local and 1 worker, 1 program, 1 slot, 1 restart, failing disk, 1 lost request | route ownership, routes of live programs, slots come back, starts are answered, kills free routes, the end is learned |
| `assignments` | 1 student, 2 classes, 2 tasks, 2 requests, failing disk | types, and each request's promise to whoever was not disturbed: publish reaches, unpublish takes back, joiners are served, a copy before a removal, only Publish opens |
| `workers` | 1 enrolled and 1 reachable device, 2 addresses, 1 request, 1 restart | types, provisioning has an owner, devices are found again, dead ids go down |
| `upstream` | 1 enrolled device, 2 addresses, 1 request, 1 restart | types, nginx follows the table |
| `grading` | local and 1 worker, 1 submission, 1 compilation, 1 grader slot, 1 restart | types, calls counted, rows, graders accounted for, requests answered, graders drain |
| `debug` | 2 stops, 2 commands, queues of 1 | types, one reader per queue, the view is current, program and editor take turns, a resume reaches its stop, a stop is shown |
| `shell` | 2 terminals, a cap of 1, 1 restart | types, the cap, routes of living shells, the unread are reaped |
| `assignments_join` | 1 student, 1 class, 2 tasks, 2 requests | *violation*: who joins while the manifest is written gets nothing |
| `assignments_snapshots` | 1 student, 2 classes, 1 task, 2 requests | *violation*: a recall destroys the copy of work whose class was removed |
| `debug_session` | 1 stop, 1 command, queues of 1 | *violation*: a session outlives its program |
| `shell_closed` | 1 terminal, a cap of 1 | *violation*: a closed terminal keeps its shell |

The bounds. Two programs for one slot are the least where one waits or is refused and
a released slot is taken again, and where two runs share a load; a worker and the
local runner are the least where a start falls over and a late answer meets its
successor. With one submission and one compilation two calls meet at one slot, one
given up and one not; the compilation is the request that leaves the status alone.
In `assignments` two requests of any kind overlap at every step, which is the least
where one disturbs the other; the run starts from every state a finished history of
requests leaves (no assignment, closed, published, any class for the student), so that two
requests are not the first two of a school's life. One student suffices there: a request
treats students one after another and independently, and who is disturbed is recorded for
each; two classes let the student move and one class be dropped while the other stays. Any
number of students, classes and requests at once is what the proofs add. `assignments_join`
needs no failing disk, `assignments_snapshots` not even a second task. One lost request is
enough for each kind of request to be the lost one; `terminal`, whose accounts do not
depend on who hears what, has none, because `StartRejected` and `PollRejected` already
cover replies that are lost. Two devices and two addresses are the least with which an
address passes from one device to another and a device moves. One request at a time is
enough for a request to overlap heartbeats, the sweep and its own rewriting; that
two requests do no more is what the proofs add. In `upstream` the
device's heartbeats, the sweep and a request are three callers inside `regenUpstream`
at once; provisioning runs in `workers`, where the device to be provisioned is one that
has no id yet; its part in `regenUpstream`, and the provisioning of a device that already
reports under an id, are covered by the proofs. `QueueMax` is 256 in the code; with 1
a queue is full as soon as a message is not fetched, and two stops and two commands are
the least where a command for the first may be late for the second, or one too many.
`MaxCommands` counts what the student does in a session: steps, evaluations, new
breakpoints, Stop, disconnecting. Two terminals for one
place are the least where one is refused, or waits for what the other holds.
`MaxRestarts`, `MaxRequests`, `MaxLost`, `MaxStops` and `MaxCommands` bound only how
often, never when. Deadlock is not checked where the system rests once every run has been served or
the bound is reached; the registry never rests, and there it is checked. Symmetry
(runs; classes, tasks; addresses) is used only where no liveness is checked.

### Fairness

Weak fairness is assumed of what is bound by a time-out in the code and of
nothing else: a runner's thread goes on (`acquire(timeout=15)`, the compile's
time-out, `timeout(1)` around the program), the gateway's call returns (the HTTP
client's 40 s) and its handler continues, the page's event loop runs its callbacks, and
a request that was sent reaches the gateway or is lost; the browser rejects a start or a
poll that was lost. Nothing makes up for a lost kill, so `KillFreesRoute` promises nothing
then: route and load stay for as long as the gateway lives. In `Workers` the heartbeat loop keeps
sending while the mirror is complete (every 30 s), time passes, the sweep runs
(every 20 s) and each request's goroutine runs on; both liveness properties speak of
a device that is settled, or gone, for good. In `GradeDispatch` one weak fairness
over all steps of handlers and graders suffices, since each request has a bounded
number of them. In `Debug` the long polls end (90 s and 60 s) and messages of the page are
delivered (`LoopFairness`), which is all the two liveness properties of `debug` need; that
POSTs arrive or fail and that the workbench disconnects from a session that is over is
granted to `debug_session` as well, to show that even then it does not end; in `Shell` the
reader, the reaper and time go
on, calls end (40 s), and a shell that was signalled ends. The user, a student's
program while it runs, restarts, devices, status changes and failures owe nothing.
Nothing prevents failures from going on for ever.

## Proofs

Proved for any finite or infinite set of runs, any finite set of hosts, any
`RUN_MAX`:

- `RunnerTypeCorrect`, `SlotsConserved`, `BusyNeverDrifts`, `RunnerImplementsPool`;
- `GatewayTypeCorrect`, `GatewayDrivesRunners`, `SlotsConservedInSystem`,
  `RoutesAreOurs`, `RoutesKept`, `LoadConserved`;
- `TerminalTypeCorrect`, `RequestsApart`, `TerminalIsClient`,
  `AccountsHoldUnderTerminal`, `PromisesHoldUnderTerminal`;

for any school, finite or not, any number of requests under way at once, and a disk that
may fail:

- `AssignTypeCorrect`, `OnlyPublishMayOpen`, `PublishAlwaysReaches`,
  `JoinersAreServed`, `UnpublishAlwaysTakesBack`, `CopyBeforeRemove`;

for any finite sets of nodes, submissions and compilations and any number of slots:

- `GradeTypeCorrect`, `CallsCounted`, `RowsCorrect`, `GradersConserved`,
  `GradersImplementPool`;

for any length of the queues and any number of stops and commands:

- `DebugTypeCorrect`, `OneReaderHolds`, `ViewCorrect`, `TurnsTaken`;

for any finite set of terminals and any cap:

- `ShellTypeCorrect`, `ShellCapHolds`, `RoutesKept` (of `ShellProofs`);

and for any sets of devices, addresses and requests:

- `WorkersTypeCorrect`, `ProvisioningOwned`;
- `UpstreamTypeCorrect`, `UpstreamCurrent`.

The runner's accounting is inductive beside the type invariant. Each action
moves one call from one phase to another, and a lemma about moves says how the
set of calls in a set of phases changes: it gains the call, loses it or stays;
with the cardinality of a set with one element more or less, each action is two
arithmetic facts. A restart empties both sets. The refinement to `SlotPool`
maps each action to a take, a give-back, a restart or a stutter; it needs the
accounting, because `Take` is allowed only below the capacity.

The gateway's step is a step of the runners, or leaves them alone: that is
`GatewayDrivesRunners`, and it carries the runner's invariants over to the whole
system. `RouteIsOurs` is not inductive: one has to know that a run has a route
only from the moment its start took an answer, that the head of `plan` does not
change afterwards, that a handler works only on an answered run, and that only
one of the poll and the kill found the route to drop. `RouteInv` says this; with
the two type invariants it is `ExecInv`, which is inductive. `LoadConserved` uses
the clause that the two handlers cannot both be about to lower the load: the sets
`LoadedBy(h)` then change by one element when, and only when, `load[h]` changes.

The terminal implements the open client of `ExecGateway` (`TerminalIsClient`: every
step of it is a request that module allows, or leaves gateway and runners alone), so
all of the above holds of the terminal's runs as well. That its requests do not
overlap needs `RequestInv`: as long as a start is unanswered nothing else was sent for
that run, and the terminal is attached only to a run that was given out and that nobody
is killing.

Requests to assignments overlap, so the argument is one of rely and guarantee.
`TaskInv(t)` says what request `t` has achieved so far, for the students outside
`touched[t]` (and outside `broke[t]` where a copy is involved). A step of another request, or
of a student, either leaves alone what `TaskInv(t)` speaks of or is recorded by `Note`, which
takes the students concerned out of it (`OthersTask`); a step of `t` itself carries it on
(`OwnKeeps`). No condition on how requests are scheduled is assumed.

Underneath are the types, which need to know what a handler may still have to do: the type
of `prog` is not inductive, because a step takes the head off the list and another action
then looks at the new head. `Rests(h)` says for every step `h` what may follow it, and
`ShapeOf` that each task's list is of that form and that the steps for one student have that
student. Every action then leaves a list of the right form.

The parts of `TaskInv`: `SaveInv` says that an uncrossed request that is to write an open
manifest, and does not publish, read an open one (with `FileInv`, which ties `wasClosed` to
the file, that is `OnlyPublishOpens`). `WalkInv` says that no student of a class still to be
listed has been looked at. `HandInv` says where a publish is that will yet bring a student
the folder: in a class to be listed, in the queue, or at that student's copy;
`UnpublishInv` says the same of the folders to be taken back, and that an uncrossed
unpublish keeps the manifest closed from the moment it was written. `JoinInv` says that
reconcile's answer for its student is still true when it acts on it, and `CopyInv` that the
copy is in `kept` before the removal. The file and the classes are common to all requests, which
is why one that another has crossed can be held to nothing (`CrossInv`).

Grading rests on two clauses beside its types: a handler that calls, or has an answer,
has a runner at the head of its plan (`HasTarget`), and one that got an answer got it
from there (`GotFromTarget`). A count of calls changes by one exactly when `CallsTo(h)`
gains or loses one
request; a lemma about the set of jobs in a phase does the same for the lock, and, because
the count moves inside the lock, for the count. A row
stays correct because an answered request never moves again and a job that has
replied stays replied, restarts included.

A debugging session takes turns because commands are counted. A command to go on is
posted, in the gateway's queue, in a removed queue somebody still waits on, or in the
program's hands; `ResumeInv` says that each is in one of these places at most and once
there, and that the program has gone on from each stop because of a command of its own,
which is in none of them any more (`Obeyed`). So it stands at stop `n` only after `n - 1`
commands, and while fewer than `n` were given it stays there, which is `ViewIsCurrent`: no
order of arrival, no dropped queue and no hurried student makes one command count twice.
`StopInv` says that the news of the stops is on its way in their order, each once, and that
what the session has shown is older. Each step moves one such message, loses it, or keeps
all of them where they are (`ResumesMoved`, `ResumesKept`, `StopsKept`), whichever queues are
removed meanwhile; what a queue gains and loses at its ends are two lemmas on sequences. That
the waiting handler is the only reader (`WaitInv`) is what makes a received message the only
one.

For the shells the count changes with the set of sessions between claim and give-back,
and the cap follows because compare and claim are one step under one lock; a route
goes only in the poll that reports the end, or in a restart of the gateway.

In the registry a status written by address disowns no row of somebody else's
provisioning: whoever writes another status at that address is either not
provisioning, and the row is then no longer in provisioning, or is the one that
ends. `ProvisioningHasOwner` is inductive beside the types and beside `Placed`,
which says who has an address.

`UpstreamIsCurrent` is far from inductive. `NewestIsCurrent` says where the newest
list is: with the single caller inside, or in nginx, unless somebody is yet to read
the table (`Settling`). It needs that callers overlap only where `spoilt` says so
(`OneWriter`), that a handler that enters `regenUpstream` was not inside already
(`RewritersWait`), and the heart of it, `ChangesAreAnnounced`: every step that
changes who is up enters `regenUpstream`, or belongs to a Recheck that will, or is
counted in `unlisted`. One case of that is delicate: a heartbeat that found its row
unchanged and is recorded after other requests wrote to the table. No two devices
report under one id and an id is used once (`IdsApart`), so in between the row can
only have changed status or been removed, never moved (`BeatsAgree`); its upsert
therefore changes at most its own address, which is noted.

Assumed are only the named assumptions on the constants (`RunnerAssumption`,
`HostAssumption`, `NoRunAssumption`, `WorkersAssumption`, `GradeAssumption`,
`RelayAssumption`, `DebugAssumption`, `ShellAssumption`, `AssignAssumption`), which TLC
evaluates in the runs.

Only model-checked: liveness (`SlotsComeBack`, `StartIsAnswered`, `KillFreesRoute`,
`AttachedLearnsEnd`, `FoundAgain`, `DeadIsMarkedDown`, `SubmitIsAnswered`,
`GradersDrain`, `ResumeReaches`, `PauseIsSeen`, `UnreadIsReaped`), since the prover
does not handle fairness and ENABLED. Every invariant and action property of a passing
run is stated by a theorem; the four properties that the code violates
(`JoinersHaveWork`, `SnapshotsAreKept`, `SessionEnds`, `ClosedIsReaped`) stay with their runs.

## What the checks found

1. A recall or an unpublish wipes `collected/<id>` and snapshots only the
   students of the classes the assignment has then: work that was copied when its class
   was removed from an open assignment is destroyed (`assignments_snapshots`, against
   the repository's `README.md:33-34`).
2. A debugging session does not end when its program is ended by Ctrl+C, by closing
   the terminal or by another Run: the page terminates the worker, which posts no
   `exit`, and an `exit` that was posted is dropped when the terminal is another run's.
   The session goes on polling and shows a running program (`debug_session`).
3. A shell terminal that is closed before its start was answered has nothing to kill;
   the answer then makes it read on, unseen, so that the reaper never finds the shell
   idle while the page is open (`shell_closed`).
4. `saveManifest` empties `manifest.json` before it writes it. A student who is enrolled in
   between finds no assignment, gets no folder, and stays without it although the
   assignment is open before and after (`assignments_join`, against `README.md:36-39`).

Reading and modelling also showed, without a run of its own:

*Runs*
- Run pressed again before the first start is answered does not end the first program:
  the answer that comes second attaches the terminal, the other program runs on
  (`StartReplied`, `extension.ls:489`).
- A runner that is full answers `busy`, and the gateway hands that to the browser
  without trying the next one (`PassBack`), although `run.go:9-12` says that the
  local runner takes over when the workers are full.
- When the page is closed before the program ends, nobody polls again: the route
  and the load stay for as long as the gateway lives (`ClosePage`). So they do when the one
  request of a kill is lost (`Loses`).
- A poll that is rejected leaves the terminal attached and silent; the program runs on, and
  only Stop or another Run ends it (`PollRejected`).
- A full disk costs the node one slot per start until it restarts (`MakeJobDirFails`).
- A poll decodes the bytes it has (`runner.py:602`), so a character that is cut at the
  boundary of two polls is garbled; the shell uses a streaming decoder.

*Grading*
- `late` is decided when the grade is stored, not when the student submitted
  (`main.go:692-693`): a submission made in time may be late because the graders were slow.

*Debugging and input*
- Breakpoints set while the program runs reach it only when it next stops: nothing
  reads the queue before (`TakeAnswer`), though `extension.ls:676` says that they
  still count.
- After one failed poll the session is over ("lost contact"), but the stopped program
  asks on, and each request makes a queue again that nobody will drop
  (`PollFails`, against `main.go:780-781`); its worker stays blocked until Ctrl+C or
  another Run.
- A student's `except Exception` catches the exception that ends the program; it runs on
  without the debugger (`loose`).
- A worker whose boot fails is silent for good: no run and no session hears of it (it stays
  in `loading`).
- An evaluation that a resume has overtaken is answered at a later stop.
- Two quick steps are two commands: the second answers the next stop before it is shown, and
  the editor then shows a stop the program has left (`ResumeProgram`; `ViewIsCurrent` says
  `told < view`).
- A stop whose state is larger than 4 MiB is cut by the gateway (`main.go:872`), cannot be
  parsed, and is skipped (`extension.ls:811`): the program waits and the editor shows it
  running, although "Everything the program has to say arrives here" (`extension.ls:802`;
  `EventUnreadable`, `missed`). A queue that is full loses a stop in the same way.
- A typed line waited for longer than 100 s reads as the end of input
  (`main.go:848-850`); lines typed fast are POSTs that may arrive out of order.

*Shells*
- A shell that ends when nobody polls keeps its route until the gateway restarts
  (`KillArrives` leaves it; `shell.go:154`).
- The reader closes the pty while the session stays listed for a minute
  (`runner.py:718`): input that comes then is written to whatever has that number.
- A start that fails after `Popen` leaves a live shell that is not counted, so there may be
  more than `SHELL_MAX`; one that did not get into `_shells` is not the reaper's to find
  (`ShellFails`, `unlisted`).

*Assignments*
- A student who joins between the listing and the opening of a publish is left without the
  assignment: one more way to violate `JoinersHaveWork`.
- A settings request that read the manifest before an unpublish writes it back after
  and reopens the assignment (`OnlyPublishOpens` names it: `crossed`).
- A recall that starts between the snapshot and the removal of one student's folder
  wipes the copy just made; the removal then takes the only other one (`TakenBackLeavesCopy`
  names it: `touched`).
- A snapshot that breaks off, on a full disk or at a file that cannot be read, is ignored, and
  the folder is removed all the same (`main.go:1447-1448`; `broke`).
- A publish whose copy to a student breaks off counts nobody out and opens the assignment
  (`main.go:1332`; `broke`).
- A student who enters a class while an unpublish walks over it is not taken back by
  the unpublish, only by the reconcile of the enrolment, later (`touched`).

*Registry*
- A worker that was marked down, and taken out of the CDN upstream, is up again with its
  next heartbeat, but nothing rewrites the upstream (`runner.py:963-965` against
  `store.go:359`): it serves no assets until another worker's event does. A worker
  provisioned over SSH meets this at once when the sweep comes before its first
  heartbeat. `UpstreamIsCurrent` excuses exactly these addresses (`unlisted`).
- Recheck asks only the runner (`RecheckOne`), so it puts a worker whose mirror is
  incomplete into the CDN upstream, which the heartbeat's gate avoids
  (`balena/cdn/start.sh:4-7`).
- Two overlapping calls of `regenUpstream` may leave the older list in nginx, until
  the next call (`spoilt`).
- A gateway restarted under a provisioning leaves its row in `provisioning`, which
  only a heartbeat of that worker or a removal ends (`lost`).

## Plan

Done: interactive runs from the terminal to the runner, the registry with its
upstream, grading, debugging sessions, the shells and assignments, each with its
proofs. Next, in this order:

1. `RunOutput` (offsets, the condition variable, the UTF-8 boundary) with an abstract
   append-only log that it implements.
2. `Signup` (caps and check-then-insert).

## Not modelled

- *Sign-up and run output*: planned, see above. What sign-up does to a student's
  folders is `HandleEnroll` of `Assignments`.
- *Accounts and sessions, the file API's other folders, seeding*: single SQL statements
  or single file operations, no order to get wrong.
- *Harness, metadata, due dates, templates*: sequential and pure.
- *The SSH commands of provisioning, the download of the CDN mirror, the relay agent,
  nginx itself, installation*: I/O; `Workers` and `Upstream` model what they leave
  behind and that they may fail anywhere.
- *`web/runtime/livescript.js`, `java-format.js`, `java-parser.js`,
  `vendor/`*: bundles of third-party code (the LiveScript compiler, a formatter, a
  parser). They are pure functions on text that the page calls; the system's own logic
  is in the `.go`, `.py` and `.ls` files. `ext/lc3/extension.js` and the rest of
  `pyodide-worker.js` compile and evaluate the `.ls` file beside them; what can go
  wrong there is a boot that
  never ends (`loading` of `Debug`).
- *Login page and page layout*.
