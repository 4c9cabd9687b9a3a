------------------------------- MODULE Worker -------------------------------
(***************************************************************************)
(* One worker node: worker/worker.go and the handlers that call it.        *)
(*                                                                         *)
(* Goroutines: the run loop (RunTasks) takes one queued event at a time    *)
(* and starts or stops a container; the updater (UpdateTasks) inspects     *)
(* what is recorded Running; every HTTP request runs on its own goroutine  *)
(* (adders accept starts and stops, forgetters delete a task).  dbMu,      *)
(* logMu and the queue's mutex protect single critical sections only, so   *)
(* each docker call and each critical section is a step of its own.        *)
(***************************************************************************)
EXTENDS TaskLifecycle, FiniteSets

CONSTANTS
    Task,           \* task IDs
    NoTask,         \* "no task" in the local state of an idle goroutine
    Runner,         \* the run loop's goroutine
    Forgetter,      \* goroutines of ForgetTaskHandler
    Adder,          \* goroutines of StartTaskHandler
    MaxEvents,      \* bound: events ever enqueued, hence containers created
    Timed,          \* tasks that declare a timeout
    Named,          \* tasks whose containers carry the task's name
    DockerFaults,   \* may docker calls fail?
    Overlap,        \* may the manager's requests for one task overlap?
    Durable,        \* bolt stores survive a crash, in-memory ones do not
    MaxCrashes      \* bound: crashes of the worker process

ASSUME WorkerAssumption ==
    /\ NoTask \notin Task
    /\ Runner \notin Forgetter
    /\ MaxEvents \in Nat
    /\ MaxCrashes \in Nat
    /\ Timed \subseteq Task
    /\ Named \subseteq Task
    /\ DockerFaults \in BOOLEAN
    /\ Overlap \in BOOLEAN
    /\ Durable \in BOOLEAN

VARIABLES
    db,        \* Worker.Db: the record of every task
    queue,     \* Worker.Queue, as a set of ticketed events
    ticket,    \* the next ticket: queue order is ticket order
    adding,    \* event each adder has accepted and not yet enqueued
    docker,    \* the daemon's containers
    logs,      \* Worker.LogDb: whose output is stored for a task
    job,       \* local state of the run loop and of the forgetters
    upd,       \* local state of the updater
    todo,      \* what is left of the updater's snapshot of Running tasks
    reported,  \* container ID the manager last read from GET /tasks
    crashes

vars == <<db, queue, ticket, adding, docker, logs, job, upd, todo, reported, crashes>>

Proc == {Runner} \union Forgetter
Cid  == 1 .. MaxEvents
NoCid == 0                       \* ContainerID == ""
Cid0 == Cid \union {NoCid}
NoLogs == 0                      \* no stored record
Empty  == MaxEvents + 1      \* a stored record without output
LogVal == Cid \union {NoLogs, Empty}

\* Statuses a container goes through; "None" is an ID not used yet.
Status == {"None", "Running", "Unhealthy", "ExitedOk", "ExitedErr", "Removed"}
Containers == [Cid -> [task : Task \union {NoTask}, status : Status]]
Live   == {"Running", "Unhealthy"}
Exited == {"ExitedOk", "ExitedErr"}

Record   == [state : State \union {"Absent"}, cid : Cid0, fin : BOOLEAN]
NoRecord == [state |-> "Absent", cid |-> NoCid, fin |-> FALSE]

\* A task.TaskEvent: again stands for RestartCount > 0, why for a
\* FailureReason the manager attached to a stop.
Event   == [task : Task, kind : {"start", "stop"}, cid : Cid0,
            again : BOOLEAN, why : BOOLEAN]
NoEvent == [task |-> NoTask, kind |-> "stop", cid |-> NoCid,
            again |-> FALSE, why |-> FALSE]

\* How a docker removal went.
Result == {"ok", "error"}

Pc  == {"idle", "merge", "clear", "haltOld", "removeOld", "create", "fail",
        "commit", "halt", "remove", "decide", "write", "store", "drop", "delete"}
Job == [pc : Pc, ev : Event \union {NoEvent}, log : LogVal, res : Result,
        out : {"Completed", "Failed"}]
Idle == [pc |-> "idle", ev |-> NoEvent, log |-> NoLogs, res |-> "ok",
         out |-> "Completed"]

UpdPc == {"idle", "mark", "peek", "store", "remove", "keep", "timeout"}
Upd == [pc : UpdPc, task : Task \union {NoTask}, cid : Cid0, saw : Status,
        log : LogVal]
UpdIdle == [pc |-> "idle", task |-> NoTask, cid |-> NoCid, saw |-> "None",
            log |-> NoLogs]

-----------------------------------------------------------------------------
(* Docker, as the worker uses it *)

StatusOf(c)  == IF c \in Cid THEN docker[c].status ELSE "None"
Present(c)   == StatusOf(c) \notin {"None", "Removed"}
WithStatus(c, s) == [docker EXCEPT ![c].status = s]

\* ContainerStop: a graceful stop may still exit 0.  An error only matters
\* if the removal that follows fails as well.
HaltOutcomes(c) ==
    IF StatusOf(c) \in Live
    THEN {WithStatus(c, s) : s \in Exited} \union
         (IF DockerFaults THEN {docker} ELSE {})
    ELSE {docker}

\* ContainerLogs before a stop: nothing from a container that is gone or if
\* the daemon fails.  Every container is taken to print something.
OutputOf(c) == (IF Present(c) THEN {c} ELSE {NoLogs}) \union
               (IF DockerFaults THEN {NoLogs} ELSE {})

\* ContainerRemove with Force: a missing container is a success, an empty
\* ID an error, and the daemon may fail.
RemoveOutcomes(c) ==
    {[docker |-> IF Present(c) THEN WithStatus(c, "Removed") ELSE docker,
      res    |-> IF c = NoCid THEN "error" ELSE "ok"]} \union
    (IF DockerFaults THEN {[docker |-> docker, res |-> "error"]} ELSE {})

\* The ID docker gives the next container.
Fresh(c) == /\ c \in Cid /\ docker[c].status = "None"
            /\ \A d \in Cid : d < c => docker[d].status # "None"

\* ContainerCreate fails while another container holds the task's name.
NameTaken(t) == t \in Named /\ \E c \in Cid : docker[c].task = t /\ Present(c)

-----------------------------------------------------------------------------
(* Queue and store helpers *)

Known(t)  == db[t].state # "Absent"
Active(r) == r.state \in {"Scheduled", "Running"}

Enqueued(ev)   == queue \union {[n |-> ticket, ev |-> ev]}
QueueHead(q)   == q \in queue /\ \A r \in queue : q.n <= r.n
Without(t)     == {q \in queue : q.ev.task # t}

StoredIfAbsent(t, lg) ==
    IF t \in Task /\ logs[t] = NoLogs /\ lg # NoLogs
    THEN [logs EXCEPT ![t] = lg] ELSE logs

\* Is a request about t still being carried out?
StartPending(t) ==
    \/ \E a \in Adder : adding[a].task = t /\ adding[a].kind = "start"
    \/ \E q \in queue : q.ev.task = t /\ q.ev.kind = "start"
    \/ job[Runner].pc # "idle" /\ job[Runner].ev.task = t
                               /\ job[Runner].ev.kind = "start"
StopPending(t) ==
    \/ \E a \in Adder : adding[a].task = t /\ adding[a].kind = "stop"
    \/ \E q \in queue : q.ev.task = t /\ q.ev.kind = "stop"
    \/ job[Runner].pc # "idle" /\ job[Runner].ev.task = t
                               /\ job[Runner].ev.kind = "stop"
ForgetPending(t) == \E f \in Forgetter : job[f].ev.task = t

Become(p, j) == job' = [job EXCEPT ![p] = j]
Goto(p, pc)  == Become(p, [job[p] EXCEPT !.pc = pc])
Finish(p)    == Become(p, Idle)
-----------------------------------------------------------------------------
(* StartTaskHandler and AddTask: the store is written under dbMu, the       *)
(* event is enqueued after the unlock.                                      *)

Room == ticket + Cardinality({a \in Adder : adding[a] # NoEvent}) <= MaxEvents

\* What a start persists: the event as sent, its container ID filled in
\* from the record when it carries none.
Scheduled(t, cid) ==
    [state |-> "Scheduled", cid |-> IF cid = NoCid THEN db[t].cid ELSE cid, fin |-> FALSE]

\* The manager's requests.  With Overlap it may repeat a start whose reply
\* was lost and so name a container ID it read before.  Without, it waits for
\* one request to finish, names the current container or none, a restart has
\* RestartCount > 0, and it has an ended task's container stopped before it
\* forgets the task.
MaySendStart(t, cid, again) ==
    IF Overlap THEN cid \in {NoCid, reported[t], db[t].cid}
    ELSE /\ ~StartPending(t) /\ ~StopPending(t) /\ ~ForgetPending(t)
         /\ cid \in {NoCid, db[t].cid}
         /\ Known(t) => again
MaySendStop(t) ==
    Overlap \/ ~(\E a \in Adder : adding[a].task = t)
MaySendForget(t) ==
    \/ Overlap
    \/ /\ ~StartPending(t) /\ ~StopPending(t)
       /\ Active(db[t]) \/ StatusOf(db[t].cid) \notin Live

AddStart(a, t, cid, again) ==
    /\ adding[a] = NoEvent /\ Room
    /\ MaySendStart(t, cid, again)
    /\ db' = [db EXCEPT ![t] = Scheduled(t, cid)]
    /\ adding' = [adding EXCEPT ![a] = [task |-> t, kind |-> "start",
                       cid |-> Scheduled(t, cid).cid, again |-> again, why |-> FALSE]]
    /\ UNCHANGED <<queue, ticket, docker, logs, job, upd, todo, reported, crashes>>

\* A stop persists nothing and is refused (404) for an unknown task.
AddStop(a, t, why) ==
    /\ adding[a] = NoEvent /\ Room
    /\ MaySendStop(t)
    /\ Known(t)
    /\ adding' = [adding EXCEPT ![a] = [task |-> t, kind |-> "stop",
                       cid |-> reported[t], again |-> FALSE, why |-> why]]
    /\ UNCHANGED <<db, queue, ticket, docker, logs, job, upd, todo, reported, crashes>>

Enqueue(a) ==
    /\ adding[a] # NoEvent
    /\ queue' = Enqueued(adding[a])
    /\ ticket' = ticket + 1
    /\ adding' = [adding EXCEPT ![a] = NoEvent]
    /\ UNCHANGED <<db, docker, logs, job, upd, todo, reported, crashes>>

\* GetTasksHandler: the manager copies the container IDs it is told.
GetTasks ==
    /\ Overlap
    /\ reported' = [t \in Task |-> IF Known(t) THEN db[t].cid ELSE reported[t]]
    /\ UNCHANGED <<db, queue, ticket, adding, docker, logs, job, upd, todo, crashes>>

-----------------------------------------------------------------------------
(* RunTasks and runTask *)

Dequeue ==
    /\ job[Runner].pc = "idle"
    /\ \E q \in queue :
          /\ QueueHead(q)
          /\ queue' = queue \ {q}
          /\ Become(Runner, [Idle EXCEPT !.pc = "merge", !.ev = q.ev])
    /\ UNCHANGED <<db, ticket, adding, docker, logs, upd, todo, reported, crashes>>

\* Mutant of MergedCid: the event's container ID is taken as it is.
MergedCidAsSent(ev, rec) == ev.cid

\* mergeQueuedWithPersisted: a stop targets the recorded container.
MergedCid(ev, rec) ==
    IF ev.cid = NoCid \/ (ev.kind = "stop" /\ rec.cid # NoCid) THEN rec.cid ELSE ev.cid

\* The state a queued event asks for.
Wanted(ev) == IF ev.kind = "start" THEN "Scheduled" ELSE "Completed"

\* Mutant of Recorded: a start of an unknown task is stored as Running.
RecordedRunning(ev) ==
    IF Known(ev.task) \/ ev.kind = "stop" THEN db[ev.task]
    ELSE [state |-> "Running", cid |-> ev.cid, fin |-> FALSE]

\* A start of an unknown task is stored first, a stop of one is refused.
Recorded(ev) ==
    IF Known(ev.task) \/ ev.kind = "stop" THEN db[ev.task]
    ELSE [state |-> "Scheduled", cid |-> ev.cid, fin |-> FALSE]

\* Where an accepted event goes on: clearStoredLogs runs on restarts only.
FirstStep(ev) ==
    IF ev.kind = "stop" THEN "halt"
    ELSE IF ev.again \/ ev.cid # NoCid THEN "clear" ELSE "create"

Merge ==
    /\ job[Runner].pc = "merge"
    /\ LET ev  == job[Runner].ev
           rec == Recorded(ev)
           run == [ev EXCEPT !.cid = MergedCid(ev, rec)]
       IN  /\ db' = [db EXCEPT ![ev.task] = rec]
           /\ IF ValidStateTransition(rec.state, Wanted(ev))
              THEN Become(Runner, [job[Runner] EXCEPT !.pc = FirstStep(run), !.ev = run])
              ELSE Finish(Runner)
    /\ UNCHANGED <<queue, ticket, adding, docker, logs, upd, todo, reported, crashes>>

-----------------------------------------------------------------------------
(* StartTask, on the run loop *)

ClearLogs ==
    /\ job[Runner].pc = "clear"
    /\ logs' = [logs EXCEPT ![job[Runner].ev.task] = NoLogs]
    /\ Goto(Runner, IF job[Runner].ev.cid # NoCid THEN "haltOld" ELSE "create")
    /\ UNCHANGED <<db, queue, ticket, adding, docker, upd, todo, reported, crashes>>

HaltOld ==
    /\ job[Runner].pc = "haltOld"
    /\ docker' \in HaltOutcomes(job[Runner].ev.cid)
    /\ Goto(Runner, "removeOld")
    /\ UNCHANGED <<db, queue, ticket, adding, logs, upd, todo, reported, crashes>>

\* The run loop goes on with container c in hand.
GotoWith(pc, c) ==
    Become(Runner, [job[Runner] EXCEPT !.pc = pc, !.ev = [job[Runner].ev EXCEPT !.cid = c]])

\* A container that cannot be removed stays recorded on the failed task.
RemoveOld ==
    /\ job[Runner].pc = "removeOld"
    /\ \E o \in RemoveOutcomes(job[Runner].ev.cid) :
          /\ docker' = o.docker
          /\ IF o.res = "error" THEN Goto(Runner, "fail") ELSE GotoWith("create", NoCid)
    /\ UNCHANGED <<db, queue, ticket, adding, logs, upd, todo, reported, crashes>>

Created(c, t, s) == [docker EXCEPT ![c] = [task |-> t, status |-> s]]

\* Docker.Run succeeds, fails leaving nothing behind, or fails to clean up
\* after itself and hands back the ID of what is left.
Create ==
    /\ job[Runner].pc = "create"
    /\ LET t == job[Runner].ev.task
       IN  \/ \E c \in Cid :
                /\ Fresh(c) /\ ~NameTaken(t)
                /\ docker' = Created(c, t, "Running")
                /\ GotoWith("commit", c)
           \/ \E c \in Cid, s \in {"Running", "ExitedErr"} :
                /\ DockerFaults /\ Fresh(c) /\ ~NameTaken(t)
                /\ docker' = Created(c, t, s)
                /\ GotoWith("fail", c)
           \/ /\ DockerFaults \/ NameTaken(t)
              /\ docker' = docker
              /\ Goto(Runner, "fail")
    /\ UNCHANGED <<db, queue, ticket, adding, logs, upd, todo, reported, crashes>>

\* setTask does not look whether the record still exists.
Stored(t, s, c, f) == [db EXCEPT ![t] = [state |-> s, cid |-> c, fin |-> f]]

StartFailed ==
    /\ job[Runner].pc = "fail"
    /\ db' = Stored(job[Runner].ev.task, "Failed", job[Runner].ev.cid, FALSE)
    /\ Finish(Runner)
    /\ UNCHANGED <<queue, ticket, adding, docker, logs, upd, todo, reported, crashes>>

StartCommit ==
    /\ job[Runner].pc = "commit"
    /\ db' = Stored(job[Runner].ev.task, "Running", job[Runner].ev.cid, FALSE)
    /\ Finish(Runner)
    /\ UNCHANGED <<queue, ticket, adding, docker, logs, upd, todo, reported, crashes>>

-----------------------------------------------------------------------------
(* StopTask, on the run loop or on a forgetter *)

\* The container's output is read before it is stopped.
StopHalt(p) ==
    /\ job[p].pc = "halt"
    /\ \E lg \in OutputOf(job[p].ev.cid) :
          Become(p, [job[p] EXCEPT !.pc = "remove", !.log = lg])
    /\ docker' \in HaltOutcomes(job[p].ev.cid)
    /\ UNCHANGED <<db, queue, ticket, adding, logs, upd, todo, reported, crashes>>

StopRemove(p) ==
    /\ job[p].pc = "remove"
    /\ \E o \in RemoveOutcomes(job[p].ev.cid) :
          /\ docker' = o.docker
          /\ Become(p, [job[p] EXCEPT !.pc = "decide", !.res = o.res])
    /\ UNCHANGED <<db, queue, ticket, adding, logs, upd, todo, reported, crashes>>

\* A stop ends Failed if the manager gave a reason or the record already
\* failed, and Completed otherwise, whether or not docker stopped anything.
StopOutcome(ev, rec) ==
    IF ev.why \/ rec.state = "Failed" THEN "Failed" ELSE "Completed"

StopDecide(p) ==
    /\ job[p].pc = "decide"
    /\ LET t == job[p].ev.task
       IN  IF Known(t)
           THEN Become(p, [job[p] EXCEPT !.pc = "write", !.out = StopOutcome(job[p].ev, db[t])])
           ELSE Finish(p)
    /\ UNCHANGED <<db, queue, ticket, adding, docker, logs, upd, todo, reported, crashes>>

StopWrite(p) ==
    /\ job[p].pc = "write"
    /\ db' = Stored(job[p].ev.task, job[p].out, job[p].ev.cid, TRUE)
    /\ Goto(p, "store")
    /\ UNCHANGED <<queue, ticket, adding, docker, logs, upd, todo, reported, crashes>>

\* ForgetTask goes on after a stop that succeeded.
StopStore(p) ==
    /\ job[p].pc = "store"
    /\ logs' = StoredIfAbsent(job[p].ev.task, job[p].log)
    /\ IF p = Runner \/ job[p].res = "error" THEN Finish(p) ELSE Goto(p, "delete")
    /\ UNCHANGED <<db, queue, ticket, adding, docker, upd, todo, reported, crashes>>

-----------------------------------------------------------------------------
(* ForgetTask *)

\* Only an active task with a container has to be stopped first.
ForgetEvent(t) == [task |-> t, kind |-> "stop", again |-> FALSE, why |-> FALSE,
                   cid |-> IF Active(db[t]) THEN db[t].cid ELSE NoCid]

\* A task the worker does not know is a 404 and changes nothing.
ForgetRead(f, t) ==
    /\ job[f].pc = "idle"
    /\ MaySendForget(t)
    /\ Known(t)
    /\ Become(f, [Idle EXCEPT !.pc = "drop", !.ev = ForgetEvent(t)])
    /\ UNCHANGED <<db, queue, ticket, adding, docker, logs, upd, todo, reported, crashes>>

ForgetDrop(f) ==
    /\ job[f].pc = "drop"
    /\ queue' = Without(job[f].ev.task)
    /\ Goto(f, IF job[f].ev.cid # NoCid THEN "halt" ELSE "delete")
    /\ UNCHANGED <<db, ticket, adding, docker, logs, upd, todo, reported, crashes>>

\* Refused if the task became active again; log record and task go together.
Reactivated(rec) == rec.cid # NoCid /\ Active(rec)

ForgetDelete(f) ==
    /\ job[f].pc = "delete"
    /\ LET t == job[f].ev.task
       IN  IF Known(t) /\ ~Reactivated(db[t])
           THEN /\ db' = [db EXCEPT ![t] = NoRecord]
                /\ logs' = [logs EXCEPT ![t] = NoLogs]
           ELSE UNCHANGED <<db, logs>>
    /\ Finish(f)
    /\ UNCHANGED <<queue, ticket, adding, docker, upd, todo, reported, crashes>>

-----------------------------------------------------------------------------
(* updateTasks and timeoutTask *)

Snapshot ==
    /\ upd.pc = "idle" /\ todo = {}
    /\ todo' = {<<t, db[t].cid>> : t \in {u \in Task : db[u].state = "Running"}}
    /\ UNCHANGED <<db, queue, ticket, adding, docker, logs, job, upd, reported, crashes>>

\* InspectTask; an error counts as "no container".
Inspect ==
    /\ upd.pc = "idle"
    /\ \E e \in todo :
       \E s \in {StatusOf(e[2])} \union (IF DockerFaults THEN {"None"} ELSE {}) :
          /\ todo' = todo \ {e}
          /\ upd' = [pc |-> "mark", task |-> e[1], cid |-> e[2], saw |-> s, log |-> NoLogs]
    /\ UNCHANGED <<db, queue, ticket, adding, docker, logs, job, reported, crashes>>

\* Mutants of Inspected: docker's status is copied into the record; a
\* container that is gone is taken for one that runs.
InspectedRaw(rec, s) == [rec EXCEPT !.state = s]
InspectedKeepsGone(rec, s) ==
    CASE s = "ExitedOk"                 -> [rec EXCEPT !.state = "Completed", !.fin = TRUE]
      [] s \in {"ExitedErr", "Unhealthy"} -> [rec EXCEPT !.state = "Failed"]
      [] OTHER                          -> rec

\* What the record becomes after an inspection that saw s.
Inspected(rec, s) ==
    CASE s = "Running"  -> rec
      [] s = "ExitedOk" -> [rec EXCEPT !.state = "Completed", !.fin = TRUE]
      [] OTHER          -> [rec EXCEPT !.state = "Failed"]

\* The record is read again under dbMu; logs of a container that ended are
\* captured after the unlock, from the container the record names by then.
Mark ==
    /\ upd.pc = "mark"
    /\ LET t == upd.task
       IN  IF db[t].state = "Running"
           THEN /\ db' = [db EXCEPT ![t] = Inspected(db[t], upd.saw)]
                /\ upd' = IF upd.saw \in Exited \union {"Unhealthy"}
                          THEN [upd EXCEPT !.pc = "peek", !.cid = db[t].cid] ELSE UpdIdle
           ELSE db' = db /\ upd' = UpdIdle
    /\ UNCHANGED <<queue, ticket, adding, docker, logs, job, todo, reported, crashes>>

\* captureLogs: the first capture wins; a container that is gone yields an
\* empty capture, a docker error none.
CaptureRead ==
    /\ upd.pc = "peek"
    /\ \/ /\ logs[upd.task] = NoLogs
          /\ upd' = [upd EXCEPT !.pc = "store",
                                !.log = IF Present(upd.cid) THEN upd.cid ELSE Empty]
       \/ /\ logs[upd.task] # NoLogs \/ DockerFaults
          /\ upd' = UpdIdle
    /\ UNCHANGED <<db, queue, ticket, adding, docker, logs, job, todo, reported, crashes>>

CaptureStore ==
    /\ upd.pc = "store"
    /\ logs' = StoredIfAbsent(upd.task, upd.log)
    /\ upd' = UpdIdle
    /\ UNCHANGED <<db, queue, ticket, adding, docker, job, todo, reported, crashes>>

\* taskTimedOut may hold of any snapshot of a task with a timeout.
TimeoutHalt ==
    /\ upd.pc = "idle"
    /\ \E e \in todo :
       \E lg \in OutputOf(e[2]) :
          /\ e[1] \in Timed
          /\ todo' = todo \ {e}
          /\ docker' \in HaltOutcomes(e[2])
          /\ upd' = [pc |-> "remove", task |-> e[1], cid |-> e[2], saw |-> "None",
                     log |-> lg]
    /\ UNCHANGED <<db, queue, ticket, adding, logs, job, reported, crashes>>

TimeoutRemove ==
    /\ upd.pc = "remove"
    /\ \E o \in RemoveOutcomes(upd.cid) : docker' = o.docker
    /\ upd' = [upd EXCEPT !.pc = "keep"]
    /\ UNCHANGED <<db, queue, ticket, adding, logs, job, todo, reported, crashes>>

TimeoutStore ==
    /\ upd.pc = "keep"
    /\ logs' = StoredIfAbsent(upd.task, upd.log)
    /\ upd' = [upd EXCEPT !.pc = "timeout", !.log = NoLogs]
    /\ UNCHANGED <<db, queue, ticket, adding, docker, job, todo, reported, crashes>>

\* Mutant of TimedOut: the record is not checked again.
TimedOutUnchecked(rec) == [rec EXCEPT !.state = "Failed"]

\* No finish time: a task that timed out stays restartable.
TimedOut(rec) ==
    IF rec.state = "Running" THEN [rec EXCEPT !.state = "Failed"] ELSE rec

TimeoutMark ==
    /\ upd.pc = "timeout"
    /\ db' = [db EXCEPT ![upd.task] = TimedOut(db[upd.task])]
    /\ upd' = UpdIdle
    /\ UNCHANGED <<queue, ticket, adding, docker, logs, job, todo, reported, crashes>>

-----------------------------------------------------------------------------
(* The environment *)

\* A container ends or turns unhealthy on its own.
ContainerChanges(c, s) ==
    /\ StatusOf(c) = "Running" \/ (StatusOf(c) = "Unhealthy" /\ s # "Unhealthy")
    /\ docker' = WithStatus(c, s)
    /\ UNCHANGED <<db, queue, ticket, adding, logs, job, upd, todo, reported, crashes>>

\* The worker process dies and starts again: worker.New reconciles nothing.
Crash ==
    /\ crashes < MaxCrashes
    /\ crashes' = crashes + 1
    /\ db' = IF Durable THEN db ELSE [t \in Task |-> NoRecord]
    /\ logs' = IF Durable THEN logs ELSE [t \in Task |-> NoLogs]
    /\ queue' = {}
    /\ adding' = [a \in Adder |-> NoEvent]
    /\ job' = [p \in Proc |-> Idle]
    /\ upd' = UpdIdle
    /\ todo' = {}
    /\ UNCHANGED <<ticket, docker, reported>>

-----------------------------------------------------------------------------
Init ==
    /\ db = [t \in Task |-> NoRecord]
    /\ queue = {}
    /\ ticket = 1
    /\ adding = [a \in Adder |-> NoEvent]
    /\ docker = [c \in Cid |-> [task |-> NoTask, status |-> "None"]]
    /\ logs = [t \in Task |-> NoLogs]
    /\ job = [p \in Proc |-> Idle]
    /\ upd = UpdIdle
    /\ todo = {}
    /\ reported = [t \in Task |-> NoCid]
    /\ crashes = 0

RunLoop == Dequeue \/ Merge \/ ClearLogs \/ HaltOld \/ RemoveOld \/ Create
           \/ StartFailed \/ StartCommit
Stopping(p) == StopHalt(p) \/ StopRemove(p) \/ StopDecide(p) \/ StopWrite(p) \/ StopStore(p)
Forgetting(f) == ForgetDrop(f) \/ ForgetDelete(f)
Updater == Snapshot \/ Inspect \/ Mark \/ CaptureRead \/ CaptureStore
           \/ TimeoutHalt \/ TimeoutRemove \/ TimeoutStore \/ TimeoutMark

Next ==
    \/ \E a \in Adder, t \in Task :
          \/ \E cid \in Cid0, again \in BOOLEAN : AddStart(a, t, cid, again)
          \/ \E why \in BOOLEAN : AddStop(a, t, why)
    \/ \E a \in Adder : Enqueue(a)
    \/ GetTasks
    \/ RunLoop
    \/ \E p \in Proc : Stopping(p)
    \/ \E f \in Forgetter, t \in Task : ForgetRead(f, t)
    \/ \E f \in Forgetter : Forgetting(f)
    \/ Updater
    \/ \E c \in Cid, s \in Exited \union {"Unhealthy"} : ContainerChanges(c, s)
    \/ Crash

Spec == Init /\ [][Next]_vars

\* Both loops are woken by a 10s ticker, and a handler once entered runs to
\* its end: every goroutine keeps taking its steps.  Requests, container
\* exits, timeouts and crashes are not owed.
Fairness ==
    /\ WF_vars(RunLoop) /\ WF_vars(Updater)
    /\ \A a \in Adder : WF_vars(Enqueue(a))
    /\ \A p \in Proc : WF_vars(Stopping(p))
    /\ \A f \in Forgetter : WF_vars(Forgetting(f))

FairSpec == Spec /\ Fairness

-----------------------------------------------------------------------------
(* Properties *)

\* A goroutine that is not idle works on a real task: no step of the run loop
\* or of ForgetTask uses local state that its first step did not set.
JobTypes == /\ job \in [Proc -> Job]
            /\ \A p \in Proc : job[p].pc # "idle" => job[p].ev \in Event

\* Stores, queue and local state keep their types; in particular nothing but
\* a state of the task state machine is ever written to a record.
TypeOK ==
    /\ db \in [Task -> Record]
    /\ queue \subseteq [n : Nat, ev : Event]
    /\ ticket \in Nat
    /\ adding \in [Adder -> Event \union {NoEvent}]
    /\ docker \in Containers
    /\ logs \in [Task -> LogVal]
    /\ JobTypes
    /\ upd \in Upd
    /\ upd.pc # "idle" => upd.task \in Task
    /\ todo \subseteq Task \X Cid0
    /\ reported \in [Task -> Cid0]
    /\ crashes \in 0 .. MaxCrashes

\* c is no container at all, or one docker created for t.
Owns(t, c) == c \in Cid => docker[c].task = t /\ docker[c].status # "None"

RecordsOwn ==
    \A t \in Task : /\ Owns(t, db[t].cid) /\ Owns(t, reported[t]) /\ Owns(t, logs[t])
                    /\ db[t].state = "Running" => db[t].cid \in Cid
EventsOwn ==
    /\ \A q \in queue : Owns(q.ev.task, q.ev.cid)
    /\ \A a \in Adder : Owns(adding[a].task, adding[a].cid)
JobsOwn ==
    /\ \A p \in Proc : Owns(job[p].ev.task, job[p].ev.cid) /\ Owns(job[p].ev.task, job[p].log)
    /\ job[Runner].pc = "commit" => job[Runner].ev.cid \in Cid
UpdaterOwns ==
    /\ \A e \in todo : Owns(e[1], e[2])
    /\ Owns(upd.task, upd.cid) /\ Owns(upd.task, upd.log)

\* Every container ID any goroutine, event, record or stored log holds for a
\* task is a container created for that task, and a Running record has one:
\* no interleaving makes the worker stop, inspect or serve the output of
\* another task's container.
OwnContainers == RecordsOwn /\ EventsOwn /\ JobsOwn /\ UpdaterOwns

\* When requests do not overlap and until a crash, a record is Scheduled
\* exactly while its start is on the way through AddTask, the queue and the
\* run loop: an accepted start is never lost, and neither the updater nor a
\* stop still running disturbs a restart.
ScheduledIffStarting ==
    crashes = 0 => \A t \in Task : db[t].state = "Scheduled" <=> StartPending(t)

\* When requests do not overlap and docker does not fail, every container
\* still running is recorded or in the hands of the goroutine working on its
\* task, and a task never has two: nothing leaks, even while the updater acts
\* on old snapshots.
NoLeak ==
    crashes = 0 => \A c \in Cid : StatusOf(c) \in Live =>
        LET t == docker[c].task
        IN  /\ db[t].cid = c \/ \E p \in Proc : job[p].ev.task = t /\ job[p].ev.cid = c
            /\ \A d \in Cid : docker[d].task = t /\ StatusOf(d) \in Live => d = c

\* A stop the worker accepted ends the task: by then it is Completed, Failed
\* or forgotten.
StopTakesEffect ==
    \A t \in Task : StopPending(t) ~> (~Active(db[t]) \/ crashes > 0)

\* A record that stays Running on a container that was removed behind its
\* back (by a timeout, a stop of an old lifecycle, a stale restart) does not
\* stay so: the updater notices.
GoneContainerNoticed ==
    \A t \in Task, c \in Cid :
        (db[t].state = "Running" /\ db[t].cid = c /\ docker[c].status = "Removed")
            ~> ~(db[t].state = "Running" /\ db[t].cid = c)

\* OwnContainers is inductive relative to the types.
IInv == TypeOK /\ OwnContainers

-----------------------------------------------------------------------------
(* What comments of the code promise and the code does not keep *)

\* timeoutTask: "a stop or restart raced the timeout, its outcome wins".
\* A timeout fails only the lifecycle whose container it stopped.
TimeoutSparesRestart ==
    [][upd.pc = "timeout" /\ upd' = UpdIdle /\ db' # db => db[upd.task].cid = upd.cid]_vars

\* forgetTaskOnWorker: "the worker stops a still-active container before
\* forgetting".  No record is deleted while its container still runs.
ForgetStopsContainer ==
    [][\A t \in Task : Known(t) /\ db'[t] = NoRecord => StatusOf(db[t].cid) \notin Live]_vars

\* StartTask: "drop the previous lifecycle's captured logs so they aren't
\* served as the new one's".  What is stored for a Running task comes from
\* its current container.
StoredLogsFresh ==
    \A t \in Task : db[t].state = "Running" => logs[t] \in {NoLogs, Empty, db[t].cid}
=============================================================================
