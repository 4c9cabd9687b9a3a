# Philharmonic: verification project

Philharmonic is a container orchestrator in Go. A manager process accepts
tasks over HTTP, places them on worker nodes and restarts them; a worker
process on each node runs them as docker containers. Nothing but HTTP requests
connects the two, and each keeps its own record of a task.

## 1. Inventory

### Worker (`src/worker`)

State: `Db` (one record per task), `LogDb` (captured output), `Queue` (accepted
events), and the docker daemon's containers. Goroutines: the run loop
(`RunTasks`) that carries out one queued event at a time, the updater
(`UpdateTasks`) that inspects Running tasks and enforces timeouts, one
goroutine per HTTP request (`POST /tasks`, `DELETE /tasks/{id}`, `GET /tasks`).
Hard: `dbMu` and `logMu` protect single critical sections, never a docker call,
so every operation reads, waits for docker, and writes; a restart, a stop, a
forget, a timeout and an inspection of one task can all be in flight. A crash
loses the queue and keeps the containers.
Correct when: every container ID held for a task is that task's, no container
runs that nobody will stop, accepted events take effect, and stored logs belong
to the lifecycle they are served for.

### Manager (`src/manager`)

State: `TaskDb`, `EventDb`, `Assignments` (task to worker), the `pending` queue,
the reservation table (worker, protocol:port to task), the set of running
health checkers. Goroutines: dispatcher (`ProcessTasks`/`SendWork`), sync
(`UpdateTasks`), restart loop (`DoHealthChecks`/`restartFailedTasks`), one
checker per health-checked task, stats refresh, one goroutine per request.
Hard: every operation reads the record, sends an HTTP request that may be lost
on the way there or back, and commits under `mu`, with compensation when the
commit fails; the user may stop or delete the task at any point in between, and
the sync copies the worker's state over the record at any time. After a crash
only the bolt stores remain.
Correct when: an accepted task is queued, placed, ended or being retried; a
task the user stopped stays stopped; a task does not run on two workers; restarts
are bounded; ports are reserved exactly for the tasks that hold them.

### Parts of the manager

*Placement* (`scheduling.go`, `ports.go`, `reservations.go`, `src/scheduler`,
`src/node`). State: the table of reserved host ports, round robin's index, the
last resource sample of each worker. A selection holds the table's lock while it
asks one worker after the other for its ports over HTTP, so what it learned may
be old when it decides, and reservations are given back between selections by
attempts that failed, moves and stops.
Correct when: a task reserves all its ports or none, a reservation does not fail
after the choice, no worker is told to start two tasks on one port, a task is
ended only if no worker could take it, and several workers take turns.

*Health checkers* (`checkers.go`, `healthcheck.go`). State: a registry of
cancel functions by task, one goroutine each. A cancelled checker goes on until
it looks, and its task may have a new one by then.
Correct when: a task has at most one checker that has not been told to stop, a
running task is watched again and again, and a shutdown ends them all.

*Requests* (`handlers.go`, `records.go`, `src/auth`, `src/task/validate.go`,
`src/task/resolve.go`). A request authenticates, resolves a name or an ID on a
snapshot and then works on what it found, while others do the same.
Correct when: only admins change the cluster, stored tasks are sound, a name
means one task, a Pending task has its start queued, and a stop is marked
before it can take effect.

*Settings* (`src/cmd/config.go`, `src/cmd/manager.go`, `src/cmd/worker.go`).
Flags, file and defaults are merged and checked section by section before a
process does anything.
Correct when: it runs with what was asked for, refuses only what is wrong, and
what it computes from its settings (backoff, tickers) survives machine words.

### Shared and small parts

Task state machine and restart policies (`src/task`): pure. Queue and wake-up
channel (`src/queue`, `src/wake`): FIFO with removal; a one-slot signal that
must not be lost. Store (`src/store`): map or bbolt bucket behind a mutex. HTTP
client and retry, image pulls, statistics and the client commands keep no
orchestration state.

## 2. Modules and plan

| Module | Extends | What it is |
|---|---|---|
| `TaskLifecycle` | | transition table and restart policies, shared |
| `Worker` | `TaskLifecycle` | one worker node with its docker daemon |
| `MCWorker` | `Worker` | instances for TLC |
| `WorkerProofs` | `Worker`, TLAPS | type correctness, container ownership; no start lost, no container leaked, when requests do not overlap |
| `Manager` | `TaskLifecycle` | the manager, with workers as it sees them |
| `TaskService` | | what a user may count on for a task; `Manager` implements it |
| `MCManager` | `Manager` | instances for TLC |
| `ManagerProofs` | `Manager`, TLAPS | type correctness and the bound on restarts |
| `ManagerServiceProofs` | `ManagerProofs` | every step is one of the service's; no pending task is forgotten; no reserved port leaks; a stop is final |
| `Data` | | what filtering leaves of a list, powers of two |
| `DataProofs` | `Data`, TLAPS | the lemmas on data that the proofs share: filtered lists, induction over a range, recursive functions, powers |
| `TasksAndWorkers` | `Data` | tasks and workers, shared by the parts below |
| `Placement` | `TasksAndWorkers` | selection, reservations, schedulers, what workers report |
| `PlacementProofs` | `Placement`, `DataProofs` | reservations are whole, selections keep their worker, no port is booked twice, no task given up that could run, round robin takes turns |
| `Checkers` | `TasksAndWorkers` | registry and goroutines of the health checkers |
| `CheckersProofs` | `Checkers`, TLAPS | types, and one checker per task |
| `Admission` | `TasksAndWorkers` | tokens, validation, names and references, overlapping requests |
| `AdmissionProofs` | `Admission`, `DataProofs` | one start per submission, marked stops, unique names, only admins, only sound tasks stored |
| `Settings` | `Data` | configuration at startup and what is computed from it |
| `SettingsProofs` | `Settings`, `DataProofs` | it runs as configured, refuses for cause, its backoff is exact, its tickers run |
| `MCParts` | the four parts | one instance of all of them for TLC |

`Manager` composes the procedures that share records: dispatcher, restart loop,
checkers, sync and stop handlers. The four parts are where it is coarse, each
with as much of the rest as acts on it: `Placement` has several tasks, ports and
inventories instead of one port; `Checkers` has registration and teardown
instead of a check that fails; `Admission` has names, used IDs and overlapping
requests. `MCParts` checks them in one run: a behaviour is one of the part
chosen at its start, and the others stay in their initial states.

## 3. How the models correspond to the code

**A step** is one critical section (`dbMu`, `logMu`, `mu`, the queue's or the
table's mutex), or one docker call or HTTP request. Whatever a goroutine keeps
in local variables between two of them is its local state: `job[p]` and `upd`
in `Worker`, `job[p]`, `todo` and `sync` in `Manager`. `job[p].pc` names the
step it will take next, `job[p].snap` the record it read.

**Worker.** `db`, `logs`, `queue` are `Db`, `LogDb`, `Queue`; `docker` the
daemon. `AddStart`/`AddStop`/`Enqueue` are the handler and `AddTask` (the record
is written before the event is queued); `Dequeue`, `Merge`, `ClearLogs`,
`HaltOld`, `RemoveOld`, `Create`, `StartCommit`, `StartFailed` are `runTask` and
`StartTask`; `StopHalt` to `StopStore` are `StopTask`, run by the run loop and
by `ForgetTask` alike; `ForgetRead`, `ForgetDrop`, `ForgetDelete` the rest of
`ForgetTask`; `Snapshot` to `TimeoutMark` the updater; `ContainerChanges` and
`Crash` the environment. Container IDs are numbered in the order of creation, so
that who a container belongs to and which lifecycle it served can be compared.

**Manager.** `rec`, `asg`, `pending`, `res` are `TaskDb`, `Assignments`, the
queue and the reservation table. The dispatcher, the restart loop, the checkers
and the stop handlers share `deleteTask`, `markFailed`, `stopTaskTerminal` and
the rollback, hence one function `job` over all of them: `Dequeue` to `Commit`
are `SendWork`; `RestartOwner` to `Move` are `restartTask`; `LoopSnapshot`,
`LoopVisit`, `LoopBackoff` are `restartFailedTasks`; `CheckFails` is the end of
`runChecker`; `SyncFetch`, `SyncApply`, `SyncForget` are `updateTasks`;
`Submit`, `Queue` are `AddTask`; `StopRead` to `StopQueue` are
`StopTaskHandler`; `Crash` is a crash followed by `New` and
`reconcileOnStartup` on the same bolt file. A worker is `wdb` and `wq`, its
records and its accepted orders; `WorkerRun` is one order carried out, the inner
steps being `Worker`'s. Every request has its outcomes as disjuncts: answered,
refused, rejected, not arrived, and arrived with the reply lost (`Strikes`
counts the faults of the kinds a configuration allows).

**TaskService** has a phase per task and the set of tasks the user stopped.
`Manager` implements it with `PhaseOf(t)`, what a task's record means to a user,
as the phase and `stopped`, the stops that were recorded, as `final`. `Restart`
is refused for a final task, so the refinement says of every interleaving of
restart loop, checkers, sync and rollbacks that a user's stop is the end.
`Revive` is in the promise because the code does it (`manager_resurrect`).
`FollowsService` is the step relation of the service alone, which also holds
under faults and overlapping procedures: there a restart may place a task once
more that ended, or was stopped, while the restart was under way (`LateRestart`).

**Placement.** `table`, `holder` are `byWorker` and its mutex; `attempt[t]` the
goroutine that starts, restarts or stops `t`: `Begin`, `Keep`, `Scan`, `Pick`
are `selectAndReserveWorker` under the lock (`Keep` the owner's branch, `Scan`
one candidate with its request), `Judge` and `Probe` the classification of a
failure, `Send`, `Fail`, `Settle`, `Leave`, `End` what `restartTask`, `SendWork`
and `stopTaskTerminal` do to table, owner and worker. `Busy` is the inventory of
`GET /ports`: listening sockets, running containers, accepted starts.
`Reboot` claims what `reconcileOnStartup` claims, for any set of records that
may be live. Of E-PVM only the filter is modelled: its cost may favour anybody.
A task has one goroutine here; `Manager` has several.

**Checkers.** `byTask` is the registry, `monitor[m]` a goroutine of
`runChecker`, `pass` the local state of `reconcileCheckers`, whose visits of the
tasks it listed are steps. `RecordChanges` stands for the rest of the manager.

**Admission.** A request's sections under `mu` are steps of `work[q]`; the
dispatcher and the restart loop write records from what they read before. An
entry of the token file is user, role and hash, a token its hash; a submission
is reduced to whether it is sound once `Validate` has let it pass (`Sound` says
independently what the rest relies on). IDs of deleted tasks may come again.

**Settings.** `ApplyConfig` merges the options, `ApplySection` checks and stores
one section, `Create` is `New`. Settings with the same check look the same, so
strings that must not be empty and the CPU fraction are left out. An empty
string in the file counts as absent (`config.go:244`). Words are `Width` bits.

**Data** is what the properties tell apart: a record has its state, restart
count and the flags for a stop by the user, a finish time, a container and a
failure reason. In `Worker` an event knows only whether it is a restart.

## 4. What the runs show

Passing runs:

| Run | Instance | Properties |
|---|---|---|
| `worker_overlap` | two tasks with timeouts and a container name, failing docker, overlapping requests, a crash | `TypeOK`, `OwnContainers`: no goroutine, event, record or stored log holds another task's container |
| `worker_serial` | one task, requests one at a time, three events, a crash | `ScheduledIffStarting`: an accepted start is not lost or disturbed by updater or timeout; `NoLeak`; `StopTakesEffect`; `GoneContainerNoticed` |
| `manager_faults` | a checked task with policy always; a lost reply, lost request, rejection or failing container; a crash; a dead node | `TypeOK`; `PendingHasEvent`: a Pending task always has a start on the way; `CountBounded`: the cap holds although loop, checker and dispatcher decide on records read earlier; `FollowsService`: each step moves a task as the service allows |
| `manager_ports` | two nodes, a pinned port, two stops, two faults without lost replies | `NoPortLeak`: a reserved port belongs to the owner or to a goroutine that will commit or release it; `FollowsService`, with stops; `StopsFinal`: no attempt of a task is recorded after its stop, and none that failed or was deleted is revived |
| `manager_live` | two nodes, a pinned port, a stop, no faults | `OrphanForgotten`: a worker's record of a deleted task goes away; `StoppedStaysStopped`: a task whose stop was recorded ends up running nowhere, for good; `ImplementsService`: every accepted task is placed, ended or deleted, and none is placed again after its stop |
| `manager_parts`, placement | two tasks with contended ports on two workers, both schedulers, a taken port, a full worker, one outage, unheard reply or restart | `AllOrNothing`, `RaceNeverLost`: the case `scheduling.go:145` calls impossible is; `NoDoubleBooking`; `NotGivenUpLightly`: a task is ended only if no worker was able to take it all along; `TakesTurns` |
| `manager_parts`, checkers | a task that starts, ends, loses its worker and is deleted, two goroutines, two failures make unhealthy, a shutdown at any time | `CheckersTypeOK`; `OneMonitor`: the checkers not told to stop are the registered ones; `Watched`, `EndsWhenTold` |
| `manager_parts`, admission | two clients, three requests, a name, a failing store operation, good and bad token files and submissions | `AdminByEveryEntry`, `StoredSound`, `NamesUnique`, `PendingHasStart`, `StopsMarked` |
| `manager_parts`, settings | all three kinds of commands, files with every setting at and around its boundary, alone and together | `RunsAsConfigured`, `RefusedForCause`; `BackoffExact`: base * 2^(n-1) up to the cap although the doubling overflows; `TickersPositive` |

Some of these hold with exceptions that the code makes necessary; each is named
in the property:

* `NoDoubleBooking` exempts two tasks that both gave a reservation back or lost
  it to a restart of the manager. A
  failed restart releases the ports of the container that is still up
  (`restart.go:97`), and the restart on the owner disregards the ports its
  record names (`ports.go:37`); after two of those both may be started.
* `NamesUnique` exempts a task stored while the names could not be listed
  (`records.go:78` lets it pass), one that `stopTaskTerminal` wrote back after
  its deletion (`restart.go:334`), and an ID used again.
* `PendingHasStart` and `StopsMarked` exempt IDs used again: the purge after a
  deletion (`records.go:123`) may take the start of the new life.
* `StopsMarked` exempts a Completed event submitted as such (`records.go:21`),
  which is a stop that nothing marks.
* `TickersPositive` excludes intervals whose seconds overflow a word:
  `healthcheck.go:152` multiplies what a submission says, unchecked.

Violation runs, each a comment of the code that the code does not keep
(PROJECT.json "findings" has the full account):

| Run | What TLC finds |
|---|---|
| `worker_timeout_race` | `timeoutTask` says a restart that raced the timeout wins; a restart that commits while the old container is being stopped leaves the record Running, and the timeout marks the new lifecycle Failed |
| `worker_forget_leak` | the manager counts on a worker stopping a still-active container before it forgets a task; a record left Failed or Completed over a running container is deleted with the container still running |
| `worker_stale_logs` | `StartTask` drops the old logs so they are not served as the new lifecycle's; the updater may have read them before and stores them after |
| `manager_stop_race` | a stop during a check-triggered restart: the rollback leaves worker and manager with different restart counts, the sync ignores the worker, the record stays Running and the checker restarts the stopped task for ever |
| `manager_terminal` | a restart of a cleanly exited task fails; the sync copies the finish time of the clean exit over the retryable failure, which then counts as terminal and is never retried |
| `manager_resurrect` | a task deleted at its cap comes back because `stopTaskTerminal` writes the restart loop's older record |

## 5. Bounds

* Worker: `MaxEvents` (2 or 3) bounds accepted events, hence containers. Two
  are a start and a restart, stop or second start; three let a stop of the first
  lifecycle meet a restart while the updater still holds the first container.
  Two tasks are enough to confuse one task's container with another's. One
  crash separates the states with a lost queue.
* Manager: one task, since the procedures of different tasks share only the
  queue's order and the port table (two tasks on one port are the subject of
  `Placement`). One node is enough where only the fate of
  requests matters; two where an owner and another candidate differ. A cap of 1
  allows one restart and then the end of the task. `MaxFaults`, `MaxCrashes`,
  `MaxDown`, `MaxStops` bound the environment; `MaxQueue` (2) bounds orders a
  worker has accepted and not run: `Accepts` waits beyond it.
* Placement: two tasks on two workers; three selections with E-PVM and two with
  round robin let one task lose its port, another take it and the first come
  back; one trouble is one lost reply, outage or restart. With three selections
  for both schedulers nothing else was found.
* Checkers: one task, since tasks share only the pass; two goroutines are an
  old checker and its successor. A third would only wait for a free one.
* Admission: two clients and three requests are a submission, its deletion and
  a submission of the same ID or name between two steps of the deletion; one
  store operation fails.
* Settings: 8 bits with a second of 20 units put every overflow within ten
  restarts or seconds (`MaxCount`). Values are the boundaries of each check and
  their neighbours.
* Nodes and tasks are symmetric where a run uses `SYMMETRY`; no run that checks
  liveness does.
* `CHECK_DEADLOCK FALSE` throughout: once the bounded environment is used up and
  all tasks have ended, the system rests.

## 6. Fairness and assumptions of the runs

The loops of both programs run on tickers (at most 10 s) for as long as the
process lives, and a procedure once begun runs to its end, since every docker
call and request has a timeout. That is weak fairness of each goroutine's next
step. Strong fairness is assumed of `SyncFetch(n)` (the sync visits every worker
in each round) and of the loop's `LoopVisit` of a task (a record's backoff ends,
so that it is not passed over in every round). In `Checkers` the pass is fair
until the shutdown and each goroutine always: tickers tick and a probe has a
timeout. A probe that the cancellation cuts off counts as a failure
(`healthcheck.go:166`), so a cancelled checker may still act once. Nothing is
assumed of clients,
checks, containers that exit, crashes and failing nodes.

`ManagerAssumption` has a positive cap; `max_restarts: 0` is accepted by the
configuration and means that nothing is restarted.

Three assumptions delimit what the passing runs say:

* `Overlap = FALSE` in `worker_serial`: the manager has one request per task in
  flight. Restart, stop and forget of one task can in fact overlap, and
  `worker_overlap` and the worker findings cover what then remains true.
* `Hasty = FALSE`: a failed task's backoff outlasts the request that made it
  run. `restart_backoff_base` and `http.client_timeout` are both 10 s by default
  (`cmd/config.go`) and set independently, which is the boundary; with a longer timeout or a lost
  reply a first dispatch's late commit can overwrite a restart
  (hazard at `dispatch.go:240`). `manager_faults` runs with `Hasty = TRUE`.
* `manager_ports` loses no reply and no store write, `manager_live` has no
  faults and no health check. The hazards list says where these properties fail
  otherwise.

## 7. What is proved

All proofs are checked by TLAPS for any sets of tasks, nodes, goroutines, ports
and any bounds, from the modules' named assumptions, which say only that the
special values are distinct, that caps and bounds are natural numbers, that
policies are policies and that there are finitely many tasks.

**Worker.** `WorkerProofs!TypeCorrect`, `WorkerProofs!ContainersOwned`. The
inductive invariant is `IInv == TypeOK /\ OwnContainers`. Ownership has to be
carried through everything that holds a container ID (queued events, local state
of the goroutines, the updater's snapshot, stored logs, what the manager last
read), because any of them can be written back to a record. The argument is
that docker only grows (`DockerGrows`: a container never changes its task and
is never unmade), so what was owned stays owned, and each action writes only
IDs owned before or just created.

`WorkerProofs!StartsNotLost` needs requests that do not overlap, and
nothing of docker: `SerialInv` adds to `ScheduledIffStarting` that a start on its way is
the first of its task's requests in the queue (`Alone`) with no goroutine
working on the task beside it. A stop may follow a start and will find it done,
since tickets are taken in order; a forget may not. Then nobody but the run loop
ever writes a record that is Scheduled: stops and forgets work on other tasks
(`NoStartBeside`), and the updater looks for Running before it writes.
`WorkerProofs!NothingLeaks` assumes moreover that docker does what it is
asked. `Tidy` says what each goroutine knows at each of its steps: up to the
halt that at most its container is up, after it that none is, and between
creation and commit that only the new one is. Restart, stop and forget all name
the recorded container, which is where a start with a stale ID would break it.
Both are stated until the first crash, which keeps containers and drops the
queue.

**Manager.** `ManagerProofs!TypeCorrect`: `TypeOK` is inductive; the part that
needs an argument is that a goroutine that is not idle works on a task, and that
the queue and the table survive `RemoveAllFunc` and a crash.

`ManagerProofs!RestartsBounded`: `CountBounded` alone is not inductive, since
a restart writes a count computed from a record read long before. `CountInv`
adds that every record in the loop's snapshot and every `snap` respects the
cap, and that a goroutine at a stage that may still add one (`Tested`) has
read a count strictly below it. `AtCap` gives the strict bound when
`restartFailedTasks` or a checker begins, the reports of workers never change
a count, and only `Recommit` and `MarkFailed` add one, each from a `Tested`
stage. Two goroutines restarting at once each write one more than what they
read, so the bound holds although their writes do not add up.

`ManagerServiceProofs!ServiceFollowed`: initial states map to initial states,
and every step of the manager, with its faults and crashes, maps to a step of
`TaskService`, to a `LateRestart`, or to a stutter. The invariant `LifeInv` says
that whatever names a task (queue, list, goroutine) names one that was
submitted, that a submitted task without a record was deleted, that a task which a goroutine has
seen out of the queue, or is about to delete, is still out of it when the
goroutine writes, and that no worker reports a task it has no record of. Without
it a write could put a task back into a phase it has left.

`ManagerServiceProofs!OnlyWritesForget`: `EventInv` says that a Pending record is
in `adding`, has its start in the queue, or the dispatcher has taken it and is
at a stage from which it commits, requeues or ends the task (`Carrying`). The
theorem assumes only that no step is a `WriteLost`, the failing write by which
`SendWork` gives a task up (`restart.go:243`); this is a statement about
behaviours, not about the constants, and `PendingNotForgotten` is its instance
for a store that does not fail.

`ManagerServiceProofs!OnlyOverwritesLeak`: `NoPortLeak` says that a reserved
port is the owner's or on a node some goroutine of the task names, which is too
weak to survive a step. `PortInv` says which stages of which goroutine account
for a port on which of its two nodes (`Holds`): from the selection to the commit
the node it picked (`Sending`, `Keeping` for the dispatcher's starts), after a
move, a deletion or an end the one it is leaving (`Leaving`). Each step that
takes a port begins such a stage and each that leaves one gives the port back or
makes the node the owner. That fails in one step only: `Commit` writing its node
over another owner (`Overwrites`), whose port nobody has in hand. The theorem is
about all behaviours without that step, with all faults, crashes and backoffs.

`ManagerServiceProofs!PortsNotLeaked` is about the constants alone. `Orderly` is
the cluster of `manager_ports`: a request is answered within the backoff, no
reply and no write is lost, the manager does not crash, and a task with a pinned
port is not restarted after a clean exit, which has no backoff. `StartInv` then
follows the first start of a task: it is in one place at a time (`StartOnce`),
and until a worker accepts it no worker, report, snapshot, restart or check
knows of the task (`Untouched`), so that between the acceptance and the commit
nobody assigns it (`Awaited`) and no commit overwrites. Each part of `Orderly` is
needed: with a lost reply, a failed write, a crash, a short backoff or policy
"always" for a pinned task TLC finds a commit that overwrites.

`ManagerServiceProofs!StopsAreFinal` proves `StopsFinal` in the same cluster, where
moreover tasks are `Ordinary`: not health-checked, and not restarted after a
clean exit. What it must exclude is that a restart in flight, a snapshot of the
restart loop or a late report revives a task. Two invariants of a task do that.

* `AttemptInv` follows its attempts, numbered by the restart count. Each is
  ordered from one worker and tried by one (`Apart`); who reports it failed has
  its only record (`Reported`); so a retryable failure in the manager's record
  means that nothing can run that attempt any more (`Spent`, in `Recorded`), and
  what the loop has read and is working on is the last attempt there was (`Below`,
  in `Retried`), although records, snapshots and reports are written at
  different times.
* `StopInv` says that a recorded stop is still there (`manual`), or the task is
  deleted, or it failed for good and the loop is not about to try it again
  (`Over`); and that no stop is recorded while the first start is on its way
  (`Starting`), whose commit would overwrite it.

With them `Recommit` refuses a stopped task where it looks at `ManuallyStopped`,
`MarkFailed` is not reached by one that is over, and a report of a failed attempt
cannot say that it runs. `FirstStarts` and `CheckersOwn` say which tasks the
dispatcher and the checkers work on. Each hypothesis is needed: with a checked
task, policy "always", a short backoff, a lost reply, a failed write or a crash
TLC finds a stopped task revived: for instance, with a short backoff or policy
"always", by the late commit of a deleted task whose record an `End` has brought
back, and with a health check by a report of the attempt that a failed restart has
marked Failed while its container runs on. What the theorem leaves open is whether
a report may turn a `Completed` record back into `Running` at the same restart
count; in `manager_live` it does not (`ImplementsService`).

**Placement.** `ReservationsWhole`, `SelectionKeepsItsWorker`:
the inductive invariant `PInv` has the table's type, both properties, and that
a goroutine between `Keep` and `Pick` holds the lock (`Locked`). `AllOrNothing` is
preserved because a claim writes all of a task's ports after none of them was
found to be another's, a release takes back exactly the task's own, and the
claims of a restart come from tasks whose ports on one worker are disjoint.
Since only the holder of the lock claims, and everybody else can only release,
a worker found able stays able.

`NotDoublyBooked`: `BookInv` ties three things together for a task that never
gave a reservation back. Where it is waiting, up or owned it holds its ports
(`Owns`), and where it holds them no rival is present; the reservation of a
selection lasts until its owner is recorded (`HeldPost`); and at a worker found
able no rival has appeared since (`Clear`), because a rival can only come with a
reservation, which needs the lock. The proof showed a flaw in the model: the
history `surrendered` did not record the tasks that lose their reservation when
the manager restarts, for which the invariant fails. `Reboot` now records them.

`GivenUpForCause`: `TryInv` follows each worker that has been able since the
selection began: it is still to be asked or was found able (`Watched`), so that
`Pick` has a choice. `TurnsTaken`: the two lists of a scan have no worker twice
(`Asked`) and the index points to the last choice (`Indexed`). Its hypothesis,
that no worker is configured twice, is the reader's to check: the code does not,
and with two entries of one worker a turn may go to the same worker again.

**Admission.** `PendingStartKept`, `StartedOnce`, `StopMarked` rest on `LivesInv`:
for an ID in its first life, `InFlight` says where its start is, `Sole` that there
is only one, and the other parts what each request knows of a task that it found,
marked or is deleting, so that neither a purge nor a write-back of an older
record can meet a start of the same life. `PendingHasStart` alone says nothing
of the purge that is still to come. `NamesAreUnique` adds that a name was free
in the state in which the record was written. `OnlyAdmins` follows from the hash
of a token occurring once in a list that parses.

`OnlySoundStored`: `ValidatePortMappings` goes down the list of ports and keeps
what it has seen (`seen`, a function of the number of ports read). `SeenExists`
is that this recursion defines a function at all, `PassedIsClean` by induction
over that number that a list it passes has no host port twice and only ports in
range, and `ValidIsSound` that a submission which passes every check is sound.
The invariant then says that what a request has in hand after validation, and
what is stored, has been through it: an order to restart, and the marks and
merges of the other handlers, write records made of stored ones.

**Settings.** The four theorems share `SettingsInv`, over a start that reads
options, flags and file and then one section after the other: what is merged is
what was asked for, the sections read have legal values and those to come still
have the built in ones. So the process that runs has what was asked for, and
the one that stops does so at a section whose value is wrong. `BackoffIsExact`
compares the repeated doubling of machine words, with its early return at the
maximum, to `min(base * 2^n, max)` in the natural numbers: by induction over the
rounds (`DoublingExact`) the doubled word is below the maximum or the function
has returned, so no round wraps. `TickersRun` needs that a legal duration is
positive as a word.

**Lemmas on data.** The library's induction theorems take an operator, which the
provers cannot instantiate. `DataProofs!Induction` states the same over a set: a
set of numbers that has 0 and is closed under successor up to `n` has all numbers
up to `n`. It follows from `Smallest`, that a nonempty set of numbers has a least
one, which is first order (`WFMin`). `RecursionExists` says, by the same
induction, that a recursion over `0 .. n` defines a function, which is what a
proof needs before it can unfold one.

**Checkers.** `CheckersTyped`, `OneCheckerPerTask`. `CInv` adds
to both properties that a checker that has not yet declared its task unhealthy
has failures left (`Patient`), without which the count could leave its type.
A late exit removes only its own registration, because by `OneMonitor` a
cancelled checker is never the registered one.

**Definitions changed for the proofs.** Filtered lists (`Kept`) are given by
what they contain instead of `SelectSeq`, whose recursive definition the provers
cannot unfold. `Pick`, `Watch` and `Verdict` had CASEs with overlapping guards,
which TLA+ leaves open and TLC resolves by order; they are disjoint now.
`ValidatePortMappings` and the doubling of the backoff were folds or `RECURSIVE`
and are recursive functions over `0 .. n`, as is `Power2` (the prover's `^` has no
facts); `Sound` says that ports are pairwise distinct where it counted them.
TLC compares `Power2` with `^` (`PowersOfTwo` in `MCParts`).
`TasksAndWorkersAssumption`, `AdmissionAssumption` and `SettingsAssumption` name what the
proofs use of the constants: that there are no special values among tasks and
workers, that every worker is configured, that the fields of a submission are
integers, and that durations and numbers in a file or a flag have been parsed to
machine words.

## 8. What is only model-checked

* Liveness under fairness, out of the prover's reach: `StopTakesEffect`,
  `GoneContainerNoticed`, `OrphanForgotten`, `StoppedStaysStopped`, `Watched`,
  `EndsWhenTold`, and `ImplementsService`, of which `ServiceFollowed` proves the
  steps and `StopsAreFinal` that no new attempt follows a stop, under its
  hypotheses; that no report makes a stopped task's record `Running` once it was
  `Completed`, and the service's fairness, are TLC's.

Every invariant that a passing run checks is proved.

## 9. What is not modelled

* In `Manager` a task is submitted once, with a restart count of 0, and clients
  stop through `DELETE /tasks/{id}`; `Admission` has IDs used again and stops
  posted as events. Fields of a submission that the manager stores as they come
  (times, counts, container IDs) are zero.
* The set of workers is fixed by the configuration. In `Manager` each has one
  host port and each task at most one checker, and inventories decide
  nondeterministically; `Placement` and `Checkers` have the details.
* `markFailed`'s release of the port is one step with the write that follows.
* `Manager` crashes on bolt stores; the in-memory stores lose everything, which
  is a new start from `Init` with containers left on the workers.
* The event store is written and never read back. The read-only handlers (tasks,
  nodes, log relay) change no state.
* `ValidateEnv` and `ValidateSecurity`: strings and limits handed to docker.
* Store: atomic reads and writes, which may fail, in the models of its users;
  bbolt is third party. HTTP transport, `HTTPWithRetry` (repeats a GET of
  statistics, of which `Placement` sees the outcome), TLS, image pulls,
  statistics, the E-PVM cost (floating point), address parsing and the client
  commands are I/O, arithmetic on reals or third-party code.
* The wake-up channels shorten the wait for the next tick: fairness of the loops
  stands for both.
