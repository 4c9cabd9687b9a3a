------------------------------ MODULE Manager ------------------------------
(***************************************************************************)
(* The manager: package manager without its port inventory and scoring.    *)
(*                                                                         *)
(* Goroutines: the dispatcher (SendWork), the restart loop                 *)
(* (restartFailedTasks), one health checker per checked task, the sync     *)
(* with the workers (updateTasks) and one goroutine per stop request.      *)
(* All but the sync run the same procedures (restartTask, deleteTask,      *)
(* stopTaskTerminal), so one function holds their local states.  A step is *)
(* one critical section of mu, of the reservation table or of the queue,   *)
(* or one request as the worker handles it; the reply of a request is      *)
(* acted upon in a later step.                                             *)
(*                                                                         *)
(* Workers are modelled as the manager sees them: a record per task and    *)
(* the accepted events still to be run, one step per event.  Worker.tla    *)
(* has their inner steps.                                                  *)
(***************************************************************************)
EXTENDS TaskLifecycle, Sequences, FiniteSets

CONSTANTS
    Task,           \* task IDs, each submitted once
    NoTask,         \* the owner of a free port
    Node,           \* worker addresses
    NoNode,         \* "" as a worker address
    Dispatcher,     \* the goroutine of ProcessTasks
    Loop,           \* the goroutine of DoHealthChecks
    Stopper,        \* goroutines of StopTaskHandler
    Checked,        \* tasks with an http or tcp health check
    Pinned,         \* tasks that pin the (one) host port
    PolicyOf,       \* restart policy of each task
    OwnCap,         \* Task.MaxRestarts of each task
    MaxRestarts,    \* the cluster's restart cap
    Hasty,          \* is the restart backoff shorter than a request may take?
    Fault,          \* what may go wrong, see FaultKinds
    MaxFaults,      \* bound: how often they do
    MaxCrashes,     \* bound: crashes of the manager process
    MaxDown,        \* bound: nodes that go down for good
    MaxStops,       \* bound: stop requests
    MaxQueue        \* bound: events queued on a worker for one task

\* The reply of a request is lost, the request does not arrive, the worker
\* answers with an error, a store write fails, no worker can take a task, a
\* worker cannot start a container.
FaultKinds == {"lost", "unreachable", "rejected", "store", "starved", "start"}

ASSUME ManagerAssumption ==
    /\ IsFiniteSet(Task) /\ NoTask \notin Task
    /\ NoNode \notin Node
    /\ Checked \subseteq Task
    /\ Pinned \subseteq Task
    /\ PolicyOf \in [Task -> Policy]
    /\ OwnCap \in [Task -> Nat]
    /\ MaxRestarts \in Nat \ {0}
    /\ Hasty \in BOOLEAN
    /\ Fault \subseteq FaultKinds
    /\ {MaxFaults, MaxCrashes, MaxDown, MaxStops, MaxQueue} \subseteq Nat
    /\ Dispatcher \notin {Loop} \union Stopper \union Checked
    /\ Loop \notin Stopper \union Checked
    /\ Stopper \intersect Checked = {}

VARIABLES
    rec,        \* TaskDb
    asg,        \* Assignments: the worker that owns a task
    pending,    \* the queue of events to dispatch
    res,        \* the reservation table: who holds the port on a worker
    wdb,        \* the workers' records of the tasks
    wq,         \* orders a worker accepted for a task and has not run yet
    job,        \* local state of the goroutines
    todo,       \* rest of the restart loop's snapshot of the records
    sync,       \* local state of updateTasks
    adding,     \* tasks stored by AddTask and not yet queued
    submitted,  \* tasks ever submitted
    stopped,    \* history: tasks whose stop was recorded or that were deleted
    stops,      \* number of stop requests
    down,       \* nodes that are gone
    crashes,
    faults      \* number of faults so far

stores  == <<rec, asg>>
workers == <<wdb, wq>>
client  == <<adding, submitted, stops>>
vars == <<stores, workers, client, pending, res, job, todo, sync, stopped, down, crashes, faults>>

Proc == {Dispatcher, Loop} \union Checked \union Stopper
Node0 == Node \union {NoNode}

\* count is RestartCount, manual ManuallyStopped; fin, con and why tell
\* whether FinishTime, ContainerID and FailureReason are set.
Record == [state : State \union {"Absent"}, count : Nat, manual : BOOLEAN,
           fin : BOOLEAN, con : BOOLEAN, why : BOOLEAN]
Fresh  == [state |-> "Pending", count |-> 0, manual |-> FALSE, fin |-> FALSE,
           con |-> FALSE, why |-> FALSE]
NoRecord == [Fresh EXCEPT !.state = "Absent"]

\* What a TaskEvent carries; a start that has not been placed is always Fresh.
Order == [kind : {"start", "stop"}, count : Nat, why : BOOLEAN]
Event == [task : Task, order : Order]
Start(n) == [kind |-> "start", count |-> n, why |-> FALSE]
Stop(n, why) == [kind |-> "stop", count |-> n, why |-> why]

\* A worker's record of a task, and the orders queued for it.
WorkerRecord == [state : (State \ {"Pending"}) \union {"Absent"}, count : Nat, fin : BOOLEAN, con : BOOLEAN]
Unknown == [state |-> "Absent", count |-> 0, fin |-> FALSE, con |-> FALSE]

Pc == {"idle",
       "route", "unowned", "place", "post", "commit", "release", "retry",  \* SendWork
       "owner", "pick", "restart", "recommit", "move",       \* restartTask
       "undo",                                               \* rollbackAcceptedWorkerTask
       "fail", "burn",                                       \* markFailed
       "end", "kill",                                        \* stopTaskTerminal
       "delete", "drop", "clean",                            \* deleteTask
       "decide", "mark", "queue"}                            \* StopTaskHandler

\* snap is the record the goroutine read, order the order it carries out,
\* node the worker it talks to, old an owner it read, again whether the
\* event is retried after a rollback.
Job  == [pc : Pc, task : Task \union {NoTask}, order : Order, snap : Record,
         node : Node0, old : Node0, again : BOOLEAN]
Idle == [pc |-> "idle", task |-> NoTask, order |-> Start(0), snap |-> NoRecord,
         node |-> NoNode, old |-> NoNode, again |-> FALSE]

\* updateTasks: the worker it reads, the reports of that worker it has not
\* handled yet, the task it is about to have forgotten.
Report   == [task : Task, rec : WorkerRecord]
SyncIdle == [node |-> NoNode, list |-> {}, forget |-> NoTask]

-----------------------------------------------------------------------------
(* Helpers *)

Known(t) == rec[t].state # "Absent"
Cap(t) == EffectiveMaxRestarts(OwnCap[t], MaxRestarts)

\* Mutant of AtCap: off by one.
PastCap(t, r) == r.count > Cap(t)
AtCap(t, r) == AtRestartCap(r.count, OwnCap[t], MaxRestarts)

Become(p, j) == job' = [job EXCEPT ![p] = j]
Goto(p, pc)  == Become(p, [job[p] EXCEPT !.pc = pc])
Finish(p)    == Become(p, Idle)
At(p, pc)    == job[p].pc = pc

\* RemoveAllFunc: q without the events of t, in the same order.
Removed(q, t, rest) ==
    LET keep == {i \in DOMAIN q : q[i].task # t}
    IN  /\ Len(rest) = Cardinality(keep)
        /\ \A i \in keep : rest[Cardinality({j \in keep : j <= i})] = q[i]
UpTo(n, S) == UNION {[1 .. k -> S] : k \in 0 .. n}

Enqueued(t, o) == pending' = Append(pending, [task |-> t, order |-> o])

\* Every fault is one of the kinds configured and counts.
Strikes(kind) == kind \in Fault /\ faults < MaxFaults /\ faults' = faults + 1
NoFault == faults' = faults

\* ReservationTable: Conflicts, TryReserve and Release of the one port.
Conflicts(n, t, allowOwn) ==
    n \in Node /\ t \in Pinned /\ res[n] # NoTask /\ (res[n] # t \/ ~allowOwn)
Reserved(n, t) == IF t \in Pinned THEN [res EXCEPT ![n] = t] ELSE res
Released(n, t) == IF n \in Node /\ res[n] = t THEN [res EXCEPT ![n] = NoTask] ELSE res

\* Mutant of Vacated: the port on the new node is released.
VacatedNew(j) == Released(j.node, j.task)

\* The port on the node the task had.
Vacated(j) == Released(j.old, j.task)

\* A request to node n that does not arrive, or is answered with an error.
Fails(n)   == (n \in down /\ NoFault) \/ Strikes("unreachable")
Rejects(n) == n \notin down /\ Strikes("rejected")

\* Mutant of Stored: the state is left as the client submitted it.
StoredAsSubmitted(w, o) == [w EXCEPT !.state = "Pending", !.count = o.count, !.fin = FALSE]

\* A start overwrites the worker's record, except for the container it knows of.
Stored(w, o) == [w EXCEPT !.state = "Scheduled", !.count = o.count, !.fin = FALSE]

\* The worker's AddTask; a stop is refused when there is no record.
Accepts(n, t, o) ==
    /\ n \notin down /\ Len(wq[n][t]) < MaxQueue
    /\ o.kind = "stop" => wdb[n][t] # Unknown
    /\ wq' = [wq EXCEPT ![n][t] = Append(@, o)]
    /\ wdb' = IF o.kind = "stop" THEN wdb ELSE [wdb EXCEPT ![n][t] = Stored(@, o)]
Refuses(n, t, o) == n \notin down /\ o.kind = "stop" /\ wdb[n][t] = Unknown /\ NoFault

\* A stop whose failure is only logged: bestEffortStopWorkerTask and the
\* request of stopTaskTerminal.
BestEffortStop(n, t, o) ==
    \/ n = NoNode /\ UNCHANGED workers /\ NoFault
    \/ n # NoNode /\ Accepts(n, t, o) /\ NoFault
    \/ n # NoNode /\ (Refuses(n, t, o) \/ Fails(n) \/ Rejects(n)) /\ UNCHANGED workers

-----------------------------------------------------------------------------
(* Clients: POST /tasks and DELETE /tasks/{id} *)

\* AddTask stores the record under mu and queues the event after the unlock.
Submit(t) ==
    /\ t \notin submitted
    /\ rec' = [rec EXCEPT ![t] = Fresh]
    /\ submitted' = submitted \union {t}
    /\ adding' = adding \union {t}
    /\ UNCHANGED <<asg, workers, stops, pending, res, job, todo, sync, stopped, down, crashes, faults>>

Queue(t) ==
    /\ t \in adding
    /\ adding' = adding \ {t}
    /\ Enqueued(t, Start(0))
    /\ UNCHANGED <<stores, workers, submitted, stops, res, job, todo, sync, stopped, down, crashes, faults>>

\* StopTaskHandler: the record it resolves is the one it acts upon.
StopRead(s, t) ==
    /\ At(s, "idle") /\ stops < MaxStops
    /\ Known(t)
    /\ stops' = stops + 1
    /\ Become(s, [Idle EXCEPT !.pc = "decide", !.task = t, !.snap = rec[t]])
    /\ UNCHANGED <<stores, workers, adding, submitted, pending, res, todo, sync, stopped, down, crashes, faults>>

\* A task without a life to stop is deleted: pending, completed, unowned, or
\* failed for good.
Deletable(t, snap) ==
    \/ snap.state \in {"Pending", "Completed"}
    \/ asg[t] = NoNode
    \/ snap.state = "Failed" /\ (AtCap(t, snap) \/ IsTerminal(snap.state, snap.fin))

StopDecide(s) ==
    /\ At(s, "decide")
    /\ Goto(s, IF Deletable(job[s].task, job[s].snap) THEN "delete" ELSE "mark")
    /\ UNCHANGED <<stores, workers, client, pending, res, todo, sync, stopped, down, crashes, faults>>

\* markStopRequested, before the stop is queued.
StopMark(s) ==
    /\ At(s, "mark")
    /\ LET t == job[s].task
       IN  \/ /\ Known(t)
              /\ rec' = [rec EXCEPT ![t].manual = TRUE]
              /\ stopped' = stopped \union {t}
              /\ Goto(s, "queue")
              /\ NoFault
           \/ /\ (~Known(t) /\ NoFault) \/ Strikes("store")
              /\ Finish(s)
              /\ UNCHANGED <<rec, stopped>>
    /\ UNCHANGED <<asg, workers, client, pending, res, todo, sync, down, crashes>>

StopQueue(s) ==
    /\ At(s, "queue")
    /\ Enqueued(job[s].task, Stop(job[s].snap.count, job[s].snap.why))
    /\ Finish(s)
    /\ UNCHANGED <<stores, workers, client, res, todo, sync, stopped, down, crashes, faults>>

Stopping(s) == StopDecide(s) \/ StopMark(s) \/ StopQueue(s)

-----------------------------------------------------------------------------
(* deleteTask *)

\* Record and assignment go in one critical section.
Delete(p) ==
    /\ At(p, "delete")
    /\ LET t == job[p].task
       IN  \/ /\ rec' = [rec EXCEPT ![t] = NoRecord]
              /\ asg' = [asg EXCEPT ![t] = NoNode]
              /\ stopped' = stopped \union {t}
              /\ Become(p, [job[p] EXCEPT !.pc = "drop", !.old = asg[t]])
              /\ NoFault
           \/ /\ Strikes("store")
              /\ IF p = Dispatcher THEN Goto(p, "retry") ELSE Finish(p)
              /\ UNCHANGED <<stores, stopped>>
    /\ UNCHANGED <<workers, client, pending, res, todo, sync, down, crashes>>

\* Queued events and the reservation go after the unlock; the container of a
\* failed task is stopped last.
Drop(p) ==
    /\ At(p, "drop")
    /\ LET j == job[p]
       IN  /\ \E q \in UpTo(Len(pending), {pending[i] : i \in DOMAIN pending}) :
                  Removed(pending, j.task, q) /\ pending' = q
           /\ res' = Vacated(j)
           /\ IF j.snap.state = "Failed" /\ j.snap.con /\ j.old # NoNode
              THEN Goto(p, "clean") ELSE Finish(p)
    /\ UNCHANGED <<stores, workers, client, todo, sync, stopped, down, crashes, faults>>

Clean(p) ==
    /\ At(p, "clean")
    /\ BestEffortStop(job[p].old, job[p].task, Stop(job[p].snap.count, job[p].snap.why))
    /\ Finish(p)
    /\ UNCHANGED <<stores, client, pending, res, todo, sync, stopped, down, crashes>>

Deleting(p) == Delete(p) \/ Drop(p) \/ Clean(p)

-----------------------------------------------------------------------------
(* markFailed and stopTaskTerminal *)

\* Retryable failure: the terminal stamp is cleared.
Retryable(r, count) == [r EXCEPT !.state = "Failed", !.count = count, !.fin = FALSE, !.why = TRUE]

\* A failed attempt gives the reserved port back and marks the task; only a
\* rejection burns a restart slot.  A deleted task stays deleted.
MarkFailed(p) ==
    /\ At(p, "fail") \/ At(p, "burn")
    /\ LET t == job[p].task
           n == IF At(p, "burn") THEN job[p].snap.count + 1 ELSE job[p].snap.count
       IN  /\ \/ Known(t) /\ rec' = [rec EXCEPT ![t] = Retryable(@, n)] /\ NoFault
              \/ rec' = rec /\ ((~Known(t) /\ NoFault) \/ Strikes("store"))
           /\ res' = Released(job[p].node, t)
    /\ Finish(p)
    /\ UNCHANGED <<asg, workers, client, pending, todo, sync, stopped, down, crashes>>

\* The record as read is written back with the stamp, whatever is stored now.
Terminal(r) == [r EXCEPT !.state = "Failed", !.fin = TRUE, !.why = TRUE]

End(p) ==
    /\ At(p, "end")
    /\ LET t == job[p].task
       IN  /\ \/ rec' = [rec EXCEPT ![t] = Terminal(job[p].snap)] /\ NoFault
              \/ rec' = rec /\ Strikes("store")
           /\ Become(p, [job[p] EXCEPT !.pc = "kill", !.old = asg[t]])
    /\ UNCHANGED <<asg, workers, client, pending, res, todo, sync, stopped, down, crashes>>

Kill(p) ==
    /\ At(p, "kill")
    /\ res' = Vacated(job[p])
    /\ BestEffortStop(job[p].old, job[p].task, Stop(job[p].snap.count, TRUE))
    /\ Finish(p)
    /\ UNCHANGED <<stores, client, pending, todo, sync, stopped, down, crashes>>

-----------------------------------------------------------------------------
(* selectAndReserveWorker, without resources and scores *)

\* A node that is gone has no stats, hence is no candidate.
CanTake(n, t) == n \notin down /\ ~Conflicts(n, t, FALSE)

\* The owner is kept when its port is free or the task's own; a pinned port
\* may also be taken on the machine, or its inventory be unavailable.
Keeps(n, t) == n # NoNode /\ ~Conflicts(n, t, TRUE) /\ (t \in Pinned => n \notin down)
Leaves(n, t) == n = NoNode \/ Conflicts(n, t, TRUE) \/ t \in Pinned

\* No worker answers (or none has been asked yet): worth another try.
Transient == (down = Node /\ NoFault) \/ Strikes("unreachable")
\* Workers answer and none can take the task.
NoneAble(t) == \/ down # Node /\ (\A n \in Node : ~CanTake(n, t)) /\ NoFault
               \/ Strikes("starved")

Select(p, t, owner, next) ==
    \E n \in Node :
        /\ (n = owner /\ Keeps(n, t)) \/ (Leaves(owner, t) /\ CanTake(n, t))
        /\ res' = Reserved(n, t)
        /\ Become(p, [job[p] EXCEPT !.pc = next, !.node = n])
        /\ NoFault

-----------------------------------------------------------------------------
(* SendWork *)

Dequeue ==
    /\ At(Dispatcher, "idle")
    /\ pending # <<>>
    /\ pending' = Tail(pending)
    /\ LET e == Head(pending)
       IN  Become(Dispatcher, [Idle EXCEPT !.pc = "route", !.task = e.task, !.order = e.order,
                                           !.snap = Fresh])
    /\ UNCHANGED <<stores, workers, client, res, todo, sync, stopped, down, crashes, faults>>

\* An owned task's event goes to its owner, a start only if the owner's port
\* can be reserved.  What has no owner is placed, or deleted if to be stopped.
Route ==
    /\ At(Dispatcher, "route")
    /\ LET t == job[Dispatcher].task
           n == asg[t]
           stop == job[Dispatcher].order.kind = "stop"
           go(pc) == Become(Dispatcher, [job[Dispatcher] EXCEPT !.pc = pc, !.node = n])
       IN  CASE n = NoNode -> res' = res /\ Goto(Dispatcher, IF stop THEN "unowned" ELSE "place")
             [] n # NoNode /\ stop -> res' = res /\ go("post")
             [] n # NoNode /\ ~stop /\ ~Conflicts(n, t, TRUE) -> res' = Reserved(n, t) /\ go("post")
             [] OTHER -> res' = res /\ Goto(Dispatcher, "fail")
    /\ UNCHANGED <<stores, workers, client, pending, todo, sync, stopped, down, crashes, faults>>

Unowned ==
    /\ At(Dispatcher, "unowned")
    /\ LET t == job[Dispatcher].task
       IN  IF Known(t)
           THEN Become(Dispatcher, [job[Dispatcher] EXCEPT !.pc = "delete", !.snap = rec[t]])
           ELSE Finish(Dispatcher)
    /\ UNCHANGED <<stores, workers, client, pending, res, todo, sync, stopped, down, crashes, faults>>

\* Mutant of Cancelled: nobody looks.
CancelledNever(t) == FALSE

\* A task deleted while it was queued or sent.
Cancelled(t) == ~Known(t)

\* A cancelled task is skipped.
Place ==
    /\ At(Dispatcher, "place")
    /\ LET t == job[Dispatcher].task
       IN  \/ Cancelled(t) /\ Finish(Dispatcher) /\ UNCHANGED <<res, pending>> /\ NoFault
           \/ ~Cancelled(t) /\ Select(Dispatcher, t, NoNode, "post") /\ UNCHANGED pending
           \/ ~Cancelled(t) /\ Transient /\ Enqueued(t, Start(0)) /\ Finish(Dispatcher) /\ res' = res
           \/ ~Cancelled(t) /\ NoneAble(t) /\ Goto(Dispatcher, "end") /\ UNCHANGED <<res, pending>>
    /\ UNCHANGED <<stores, workers, client, todo, sync, stopped, down, crashes>>

\* Where the reply of the worker leads: accepted, accepted but unheard, not
\* arrived, refused (404), answered with an error.
Post ==
    /\ At(Dispatcher, "post")
    /\ LET t == job[Dispatcher].task
           n == job[Dispatcher].node
           o == job[Dispatcher].order
           stop == o.kind = "stop"
       IN  \/ Accepts(n, t, o) /\ Goto(Dispatcher, IF stop THEN "release" ELSE "commit") /\ NoFault
           \/ Strikes("lost") /\ Accepts(n, t, o) /\ Goto(Dispatcher, "retry")
           \/ Fails(n) /\ Goto(Dispatcher, "retry") /\ UNCHANGED workers
           \/ Refuses(n, t, o) /\ Goto(Dispatcher, "release") /\ UNCHANGED workers
           \/ /\ Rejects(n) /\ UNCHANGED workers
              /\ IF stop THEN Finish(Dispatcher) ELSE Goto(Dispatcher, "burn")
    /\ UNCHANGED <<stores, client, pending, res, todo, sync, stopped, down, crashes>>

\* A stop that reached the owner, or was not needed, frees the port.
Release ==
    /\ At(Dispatcher, "release")
    /\ res' = Released(job[Dispatcher].node, job[Dispatcher].task)
    /\ Finish(Dispatcher)
    /\ UNCHANGED <<stores, workers, client, pending, todo, sync, stopped, down, crashes, faults>>

\* The event goes back to the queue; only a start holds a reservation, and a
\* rollback has given it back already.
Retry ==
    /\ At(Dispatcher, "retry")
    /\ LET j == job[Dispatcher]
       IN  /\ Enqueued(j.task, j.order)
           /\ res' = IF j.order.kind = "start" /\ ~j.again THEN Released(j.node, j.task) ELSE res
    /\ Finish(Dispatcher)
    /\ UNCHANGED <<stores, workers, client, todo, sync, stopped, down, crashes, faults>>

\* After the 201: the assignment and the record as sent, unless the task was
\* deleted meanwhile.  A failed write is rolled back and the start retried.
Commit ==
    /\ At(Dispatcher, "commit")
    /\ LET t == job[Dispatcher].task
           undo(again) == /\ Become(Dispatcher, [job[Dispatcher] EXCEPT !.pc = "undo", !.again = again])
                          /\ UNCHANGED stores
       IN  \/ /\ ~Cancelled(t)
              /\ asg' = [asg EXCEPT ![t] = job[Dispatcher].node]
              /\ rec' = [rec EXCEPT ![t] = [Fresh EXCEPT !.state = "Scheduled"]]
              /\ Finish(Dispatcher)
              /\ NoFault
           \/ Cancelled(t) /\ undo(FALSE) /\ NoFault
           \/ Strikes("store") /\ undo(TRUE)
    /\ UNCHANGED <<workers, client, pending, res, todo, sync, stopped, down, crashes>>

\* rollbackAcceptedWorkerTask: the port is given back, the worker asked to
\* stop what it accepted.
Undo(p) ==
    /\ At(p, "undo")
    /\ LET j == job[p]
           count == IF p = Dispatcher THEN 0 ELSE j.snap.count + 1
       IN  /\ res' = Released(j.node, j.task)
           /\ BestEffortStop(j.node, j.task, Stop(count, FALSE))
           /\ IF j.again THEN Goto(p, "retry") ELSE Finish(p)
    /\ UNCHANGED <<stores, client, pending, todo, sync, stopped, down, crashes>>

SendWork == Dequeue \/ Route \/ Unowned \/ Place \/ Post \/ Release \/ Retry \/ Commit

-----------------------------------------------------------------------------
(* restartTask *)

RestartOwner(p) ==
    /\ At(p, "owner")
    /\ Become(p, [job[p] EXCEPT !.pc = "pick", !.old = asg[job[p].task]])
    /\ UNCHANGED <<stores, workers, client, pending, res, todo, sync, stopped, down, crashes, faults>>

RestartPick(p) ==
    /\ At(p, "pick")
    /\ LET t == job[p].task
           owner == job[p].old
       IN  \/ Select(p, t, owner, "restart")
           \/ Leaves(owner, t) /\ Transient /\ Goto(p, "fail") /\ res' = res
           \/ Leaves(owner, t) /\ NoneAble(t) /\ Goto(p, "end") /\ res' = res
    /\ UNCHANGED <<stores, workers, client, pending, todo, sync, stopped, down, crashes>>

\* The request that restarts the task on the node picked.
RestartPost(p) ==
    /\ At(p, "restart")
    /\ LET j == job[p]
           o == Start(j.snap.count + 1)
       IN  \/ Accepts(j.node, j.task, o) /\ Goto(p, "recommit") /\ NoFault
           \/ Strikes("lost") /\ Accepts(j.node, j.task, o) /\ Goto(p, "fail")
           \/ Fails(j.node) /\ Goto(p, "fail") /\ UNCHANGED workers
           \/ Rejects(j.node) /\ Goto(p, "burn") /\ UNCHANGED workers
    /\ UNCHANGED <<stores, client, pending, res, todo, sync, stopped, down, crashes>>

\* The record a restart stores; a container on another node is not its own.
Next1(j) == [j.snap EXCEPT !.state = "Scheduled", !.count = @ + 1, !.fin = FALSE, !.why = FALSE,
                           !.con = @ /\ j.old = j.node]

\* Mutant of Wanted: the user's stop is not looked at.
StillKnown(t) == Known(t)

\* A task deleted or stopped by the user meanwhile is not restarted.
Wanted(t) == Known(t) /\ ~rec[t].manual

Recommit(p) ==
    /\ At(p, "recommit")
    /\ LET j == job[p]
           t == j.task
           was == asg[t]
       IN  \/ /\ Wanted(t)
              /\ asg' = [asg EXCEPT ![t] = j.node]
              /\ rec' = [rec EXCEPT ![t] = Next1(j)]
              /\ IF was \notin {NoNode, j.node}
                 THEN Become(p, [j EXCEPT !.pc = "move", !.old = was]) ELSE Finish(p)
              /\ NoFault
           \/ /\ (~Wanted(t) /\ NoFault) \/ Strikes("store")
              /\ Goto(p, "undo")
              /\ UNCHANGED stores
    /\ UNCHANGED <<workers, client, pending, res, todo, sync, stopped, down, crashes>>

\* The previous owner's port and container.
Move(p) ==
    /\ At(p, "move")
    /\ LET j == job[p]
       IN  /\ res' = Vacated(j)
           /\ IF j.snap.con THEN BestEffortStop(j.old, j.task, Stop(j.snap.count, j.snap.why))
              ELSE UNCHANGED workers /\ NoFault
    /\ Finish(p)
    /\ UNCHANGED <<stores, client, pending, todo, sync, stopped, down, crashes>>

Restarting(p) == RestartOwner(p) \/ RestartPick(p) \/ RestartPost(p) \/ Recommit(p) \/ Move(p)
Ending(p) == MarkFailed(p) \/ End(p) \/ Kill(p) \/ Undo(p)

-----------------------------------------------------------------------------
(* restartFailedTasks *)

Ended(r) == r.state \in {"Failed", "Completed"}

\* Records in other states are passed over.
LoopSnapshot ==
    /\ At(Loop, "idle") /\ todo = {}
    /\ todo' = {e \in {[task |-> t, rec |-> rec[t]] : t \in Task} : Ended(e.rec)}
    /\ todo' # {}
    /\ UNCHANGED <<stores, workers, client, pending, res, job, sync, stopped, down, crashes, faults>>

\* Mutant of Verdict: the user's stop is not looked at.
VerdictForgetsStop(t, r) ==
    CASE r.state = "Completed" ->
             IF ShouldRestartOnSuccess(PolicyOf[t]) /\ ~AtCap(t, r) THEN "owner" ELSE "skip"
      [] r.state # "Completed" /\ IsTerminal(r.state, r.fin) -> "skip"
      [] OTHER -> IF ShouldRestart(PolicyOf[t]) /\ ~AtCap(t, r) THEN "owner" ELSE "end"

\* What restartFailedTasks does with a record: nothing, end it, restart it.
Verdict(t, r) ==
    CASE r.manual -> "skip"
      [] ~r.manual /\ r.state = "Completed" ->
             IF ShouldRestartOnSuccess(PolicyOf[t]) /\ ~AtCap(t, r) THEN "owner" ELSE "skip"
      [] ~r.manual /\ r.state # "Completed" /\ IsTerminal(r.state, r.fin) -> "skip"
      [] OTHER -> IF ShouldRestart(PolicyOf[t]) /\ ~AtCap(t, r) THEN "owner" ELSE "end"

Visit(e, pc) == Become(Loop, [Idle EXCEPT !.pc = pc, !.task = e.task, !.snap = e.rec])

\* A failure arms a backoff (a clean exit does not).  By default it is as long
\* as a request may take, so when it is over the dispatch that made the task
\* run has been answered; exact as long as no reply is lost.
InBackoff(e) ==
    /\ ~Hasty /\ e.rec.state = "Failed"
    /\ job[Dispatcher].task = e.task /\ job[Dispatcher].order.kind = "start"
    /\ job[Dispatcher].pc \in {"post", "commit"}

\* The next record of the snapshot; one still in its backoff is passed over.
LoopVisit(e) ==
    /\ At(Loop, "idle") /\ e \in todo
    /\ ~InBackoff(e)
    /\ todo' = todo \ {e}
    /\ IF Verdict(e.task, e.rec) = "skip" THEN job' = job ELSE Visit(e, Verdict(e.task, e.rec))
    /\ UNCHANGED <<stores, workers, client, pending, res, sync, stopped, down, crashes, faults>>
LoopBackoff(e) ==
    /\ At(Loop, "idle") /\ e \in todo /\ Verdict(e.task, e.rec) = "owner"
    /\ todo' = todo \ {e}
    /\ UNCHANGED <<stores, workers, client, pending, res, job, sync, stopped, down, crashes, faults>>

-----------------------------------------------------------------------------
(* runChecker: the checks of a running, assigned task have failed too often.
   A checker that meets the backoff just returns. *)

CheckFails(t) ==
    /\ At(t, "idle")
    /\ rec[t].state = "Running" /\ asg[t] # NoNode
    /\ Become(t, [Idle EXCEPT !.task = t, !.snap = rec[t],
                   !.pc = IF ~AtCap(t, rec[t]) /\ ShouldRestart(PolicyOf[t]) THEN "owner" ELSE "end"])
    /\ UNCHANGED <<stores, workers, client, pending, res, todo, sync, stopped, down, crashes, faults>>

-----------------------------------------------------------------------------
(* updateTasks *)

\* A worker's answer is a snapshot of its records.
SyncFetch(n) ==
    /\ sync = SyncIdle
    /\ n \notin down
    /\ LET list == {e \in {[task |-> t, rec |-> wdb[n][t]] : t \in Task} : e.rec # Unknown}
       IN  list # {} /\ sync' = [SyncIdle EXCEPT !.node = n, !.list = list]
    /\ UNCHANGED <<stores, workers, client, pending, res, job, todo, stopped, down, crashes, faults>>

\* A report's finish time is copied whatever its state; a terminal record
\* keeps its state, any other takes the worker's.
Merged(r, w) ==
    LET seen == [r EXCEPT !.con = w.con, !.fin = @ \/ w.fin]
    IN  CASE w.state = "Failed" -> [seen EXCEPT !.state = "Failed", !.why = TRUE]
          [] w.state # "Failed" /\ ~IsTerminal(seen.state, seen.fin) -> [seen EXCEPT !.state = w.state]
          [] OTHER -> seen

\* Reports of another restart attempt are ignored; who reports is not
\* compared with the assignment.
Synced(t, w) == IF w.count = rec[t].count THEN [rec EXCEPT ![t] = Merged(@, w)] ELSE rec

\* The worker is left when its last report has been handled.
Left(s) == IF s.list = {} /\ s.forget = NoTask THEN SyncIdle ELSE s

\* Mutant of Orphan: a report of an unknown task is passed over.
OrphanKept(t) == NoTask

\* The task to be forgotten after a report of t.
Orphan(t) == IF Known(t) THEN NoTask ELSE t

SyncApply ==
    /\ sync.forget = NoTask
    /\ \E e \in sync.list :
           /\ \/ /\ rec' = IF Known(e.task) THEN Synced(e.task, e.rec) ELSE rec
                 /\ NoFault
              \/ rec' = rec /\ Strikes("store")
           /\ sync' = Left([sync EXCEPT !.list = @ \ {e}, !.forget = Orphan(e.task)])
    /\ UNCHANGED <<asg, workers, client, pending, res, job, todo, stopped, down, crashes>>

\* DELETE /tasks/{id} of the worker: events, container and record go.
SyncForget ==
    /\ sync.forget # NoTask
    /\ LET n == sync.node
           t == sync.forget
       IN  \/ /\ n \notin down /\ NoFault
              /\ wdb' = [wdb EXCEPT ![n][t] = Unknown]
              /\ wq' = [wq EXCEPT ![n][t] = <<>>]
           \/ (Fails(n) \/ Rejects(n)) /\ UNCHANGED workers
    /\ sync' = Left([sync EXCEPT !.forget = NoTask])
    /\ UNCHANGED <<stores, client, pending, res, job, todo, stopped, down, crashes>>

-----------------------------------------------------------------------------
(* The workers, as Worker.tla specifies them in detail *)

\* runTask: what an order makes of a record; the transition was validated.
Ran(w, o) ==
    IF o.kind = "start"
    THEN [state |-> "Running", count |-> o.count, fin |-> FALSE, con |-> TRUE]
    ELSE [state |-> IF o.why \/ w.state = "Failed" THEN "Failed" ELSE "Completed",
          count |-> o.count, fin |-> TRUE, con |-> w.con]

WorkerRun(n, t) ==
    /\ n \notin down /\ wq[n][t] # <<>>
    /\ LET o == Head(wq[n][t])
           valid == ValidStateTransition(wdb[n][t].state,
                                         IF o.kind = "start" THEN "Scheduled" ELSE "Completed")
       IN  \/ valid /\ wdb' = [wdb EXCEPT ![n][t] = Ran(@, o)] /\ NoFault
           \/ ~valid /\ wdb' = wdb /\ NoFault
           \/ /\ valid /\ o.kind = "start" /\ Strikes("start")
              /\ \E c \in BOOLEAN :
                     wdb' = [wdb EXCEPT ![n][t] = [Ran(@, o) EXCEPT !.state = "Failed", !.con = c]]
    /\ wq' = [wq EXCEPT ![n][t] = Tail(@)]
    /\ UNCHANGED <<stores, client, pending, res, job, todo, sync, stopped, down, crashes>>

\* A container exits on its own: cleanly, or not, or it times out.
WorkerExit(n, t) ==
    /\ n \notin down /\ wdb[n][t].state = "Running"
    /\ \E ok \in BOOLEAN :
           wdb' = [wdb EXCEPT ![n][t].state = IF ok THEN "Completed" ELSE "Failed",
                              ![n][t].fin = @ \/ ok]
    /\ UNCHANGED <<stores, wq, client, pending, res, job, todo, sync, stopped, down, crashes, faults>>

\* A node goes down for good, with its containers.
NodeDies(n) ==
    /\ n \notin down /\ Cardinality(down) < MaxDown
    /\ down' = down \union {n}
    /\ wdb' = [wdb EXCEPT ![n] = [t \in Task |-> Unknown]]
    /\ wq' = [wq EXCEPT ![n] = [t \in Task |-> <<>>]]
    /\ UNCHANGED <<stores, client, pending, res, job, todo, sync, stopped, crashes, faults>>

-----------------------------------------------------------------------------
(* Crash of the manager and New on the same bolt file *)

\* A commit writes the assignment first: a crash may fall between its writes.
HalfCommits == {p \in Proc : \/ At(p, "commit") /\ ~Cancelled(job[p].task)
                             \/ At(p, "recommit") /\ Wanted(job[p].task)}
Survives == {asg} \union {[asg EXCEPT ![job[p].task] = job[p].node] : p \in HalfCommits}

\* reconcileOnStartup reserves the ports of live tasks again.
Claims(n, a) == {t \in Pinned : rec[t].state \in {"Running", "Scheduled"} /\ a[t] = n}

\* Mutant of Recovered: pending tasks are not queued again.
RecoveredNothing(q) == q = <<>>

\* Pending tasks are queued again, in any order.
Recovered(q) ==
    LET ids == {t \in Task : rec[t].state = "Pending"}
    IN  /\ Len(q) = Cardinality(ids)
        /\ {q[i] : i \in DOMAIN q} = {[task |-> t, order |-> Start(0)] : t \in ids}

\* Of two claims to a port the first listed wins.
Crash ==
    /\ crashes < MaxCrashes
    /\ crashes' = crashes + 1
    /\ asg' \in Survives
    /\ \E claimed \in [Node -> Task \union {NoTask}] :
           /\ \A n \in Node : IF Claims(n, asg') = {} THEN claimed[n] = NoTask
                              ELSE claimed[n] \in Claims(n, asg')
           /\ res' = claimed
    /\ \E q \in UpTo(Cardinality(Task), {[task |-> t, order |-> Start(0)] : t \in Task}) :
           Recovered(q) /\ pending' = q
    /\ job' = [p \in Proc |-> Idle]
    /\ todo' = {} /\ sync' = SyncIdle /\ adding' = {}
    /\ UNCHANGED <<rec, workers, submitted, stops, stopped, down, faults>>

-----------------------------------------------------------------------------
(* The specification *)

Init ==
    /\ rec = [t \in Task |-> NoRecord]
    /\ asg = [t \in Task |-> NoNode]
    /\ pending = <<>>
    /\ res = [n \in Node |-> NoTask]
    /\ wdb = [n \in Node |-> [t \in Task |-> Unknown]]
    /\ wq = [n \in Node |-> [t \in Task |-> <<>>]]
    /\ job = [p \in Proc |-> Idle]
    /\ todo = {} /\ sync = SyncIdle
    /\ adding = {} /\ submitted = {} /\ stopped = {} /\ down = {}
    /\ stops = 0 /\ crashes = 0 /\ faults = 0

Restarter == {Loop} \union Checked
Routine(p) == Deleting(p) \/ Ending(p) \/ Restarting(p)
LoopNext == LoopSnapshot \/ \E e \in todo : LoopVisit(e) \/ LoopBackoff(e)

Next ==
    \/ \E t \in Task : Submit(t) \/ Queue(t)
    \/ \E s \in Stopper : Stopping(s) \/ \E t \in Task : StopRead(s, t)
    \/ \E p \in Proc : Deleting(p) \/ Ending(p)
    \/ SendWork
    \/ \E p \in Restarter : Restarting(p)
    \/ LoopNext
    \/ \E t \in Checked : CheckFails(t)
    \/ \E n \in Node : SyncFetch(n)
    \/ SyncApply \/ SyncForget
    \/ \E n \in Node, t \in Task : WorkerRun(n, t) \/ WorkerExit(n, t)
    \/ \E n \in Node : NodeDies(n)
    \/ Crash

Spec == Init /\ [][Next]_vars

\* Every goroutine keeps going and the loops tick every 10 seconds; a record
\* comes out of its backoff.  Nothing makes clients stop, containers exit,
\* checks fail, nodes die or the manager crash.
Fairness ==
    /\ \A t \in Task : WF_vars(Queue(t))
    /\ \A s \in Stopper : WF_vars(Stopping(s))
    /\ WF_vars(SendWork)
    /\ \A p \in Proc : WF_vars(Routine(p))
    /\ WF_vars(LoopNext)
    /\ \A t \in Task : SF_vars(\E e \in todo : e.task = t /\ LoopVisit(e))
    /\ \A n \in Node : SF_vars(SyncFetch(n))
    /\ WF_vars(SyncApply \/ SyncForget)
    /\ \A n \in Node, t \in Task : WF_vars(WorkerRun(n, t))

FairSpec == Spec /\ Fairness

-----------------------------------------------------------------------------
(* Properties *)

\* A goroutine that is not idle works on a real task.
JobTypes == /\ job \in [Proc -> Job]
            /\ \A p \in Proc : job[p].pc # "idle" => job[p].task \in Task

WorkerTypes == /\ wdb \in [Node -> [Task -> WorkerRecord]]
               /\ wq \in [Node -> [Task -> Seq(Order)]]

\* Stores, queues and local state keep their types.
TypeOK ==
    /\ rec \in [Task -> Record]
    /\ asg \in [Task -> Node0]
    /\ pending \in Seq(Event)
    /\ res \in [Node -> Task \union {NoTask}]
    /\ WorkerTypes /\ JobTypes
    /\ todo \subseteq [task : Task, rec : Record]
    /\ sync \in [node : Node0, list : SUBSET Report, forget : Task \union {NoTask}]
    /\ adding \subseteq Task /\ submitted \subseteq Task /\ stopped \subseteq Task
    /\ down \subseteq Node
    /\ stops \in Nat /\ crashes \in Nat /\ faults \in Nat

\* A start of t is on its way through AddTask, the queue and SendWork.
StartInFlight(t) ==
    \/ t \in adding
    \/ \E i \in DOMAIN pending : pending[i].task = t /\ pending[i].order.kind = "start"
    \/ job[Dispatcher].task = t /\ job[Dispatcher].order.kind = "start"

\* A Pending task is never forgotten: until it leaves that state there is an
\* event that will place it, whatever happened to the requests made for it
\* and whenever the manager crashed.
PendingHasEvent == \A t \in Task : rec[t].state = "Pending" => StartInFlight(t)

\* Lost, failed and rejected restarts included, no record ever counts more
\* restarts than its cap.
CountBounded == \A t \in Task : rec[t].count <= Cap(t)

\* CountBounded is inductive with what the goroutines have read, and with
\* their having tested the cap before they restart or burn a slot.
Tested == {"route", "unowned", "place", "post", "commit", "owner", "pick", "restart", "recommit", "burn"}
ReadCounted == \A e \in todo : e.rec.count <= Cap(e.task)
JobCounted(j) == j.pc # "idle" => /\ j.snap.count <= Cap(j.task)
                                  /\ j.pc \in Tested => j.snap.count < Cap(j.task)
CountInv == CountBounded /\ ReadCounted /\ \A p \in Proc : JobCounted(job[p])

\* A reserved port belongs to the task's owner or to a goroutine that will
\* either commit or release it.
NoPortLeak ==
    \A n \in Node : res[n] # NoTask =>
        \/ asg[res[n]] = n
        \/ \E p \in Proc : job[p].task = res[n] /\ n \in {job[p].node, job[p].old}

\* A worker's record of a deleted task goes away.
OrphanForgotten ==
    \A n \in Node, t \in Task :
        (wdb[n][t] # Unknown /\ ~Known(t)) ~> (wdb[n][t] = Unknown \/ Known(t))

\* Once the user's stop is recorded the task ends up not running anywhere,
\* for good: no policy, check or restart in flight revives it.
StoppedStaysStopped ==
    \A t \in Task : (t \in stopped) ~> [](\A n \in Node : wdb[n][t].state # "Running")

\* restart.go, restartFailedTasks: "a terminal stamp means stopTaskTerminal
\* already ended this task. retryable failures always carry FinishTime = 0".
\* Where a worker is always found, a task ends at its cap or by its policy.
TerminalMeansEnded ==
    \A t \in Task : IsTerminal(rec[t].state, rec[t].fin) =>
        AtCap(t, rec[t]) \/ ~ShouldRestart(PolicyOf[t]) \/ t \in stopped

\* SendWork: "a cancellation may have deleted the task [...] if so, don't
\* resurrect it".  A deleted task stays deleted.
NotResurrected == [][\A t \in Task : t \in submitted /\ ~Known(t) => rec'[t] = NoRecord]_vars

\* Once the user's stop is recorded no further attempt of the task is, and one
\* that failed or was deleted stays so, whatever restart of it is in flight.
StopsFinal ==
    [][\A t \in stopped : rec'[t].state \in {"Scheduled", "Running"} =>
           rec[t].state \notin {"Absent", "Failed"} /\ rec'[t].count = rec[t].count]_vars

-----------------------------------------------------------------------------
(* The manager implements TaskService *)

\* What a record means to the user.
PhaseOf(t) ==
    CASE t \notin submitted -> "new"
      [] t \in submitted /\ ~Known(t) -> "gone"
      [] rec[t].state = "Pending" -> "waiting"
      [] rec[t].state \in {"Scheduled", "Running"} -> "placed"
      [] OTHER -> "ended"

Service == INSTANCE TaskService WITH phase <- [t \in Task |-> PhaseOf(t)], final <- stopped

\* All the goroutines together move a task only as the service promises: a
\* task the user stopped is never placed again, whatever restart was in
\* flight, a deleted one comes back only as an ended one, and every accepted
\* task is placed, ended or deleted in the end.
ImplementsService == Service!Spec

\* The one thing that the service does not allow and the manager may do, when
\* a stop races a restart: an ended task is placed after the user stopped it.
LateRestart(t) == Service!Move(t, {"ended"}, "placed") /\ stopped' = stopped

\* Whatever fails, crashes and races, every other step is one the service
\* allows: a task that left the queue never waits again, a deleted one is
\* never placed, and no task skips a phase.
FollowsService ==
    Service!Init /\ [][Service!Next \/ \E t \in Task : LateRestart(t)]_(Service!service)

=============================================================================
