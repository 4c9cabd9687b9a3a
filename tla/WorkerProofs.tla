---------------------------- MODULE WorkerProofs ----------------------------
(***************************************************************************)
(* The worker's type invariant and the ownership of containers, for any    *)
(* set of tasks and handlers, any number of events and crashes, with       *)
(* failing docker calls and overlapping requests; then what the worker     *)
(* guarantees when the requests for one task do not overlap.               *)
(***************************************************************************)
EXTENDS Worker, TLAPS

\* The types, one fact per shape.
LEMMA Types ==
    /\ Cid0 = Cid \union {NoCid} /\ NoCid \notin Cid /\ NoLogs \notin Cid /\ Empty \notin Cid
    /\ NoRecord \in Record /\ NoEvent \notin Event /\ Idle \in Job /\ UpdIdle \in Upd
    /\ Runner \in Proc
<1>1. NoEvent \notin Event
  BY WorkerAssumption DEF NoEvent, Event
<1>2. NoCid \notin Cid /\ NoLogs \notin Cid /\ Empty \notin Cid
  BY WorkerAssumption DEF NoCid, Cid, NoLogs, Empty
<1>. QED
  BY <1>1, <1>2 DEF Cid0, NoRecord, Record, Idle, Job, UpdIdle, Upd, Pc, UpdPc, Result, Status, LogVal, Proc

\* Docker's answers are containers again.
LEMMA DockerTypes ==
    ASSUME TypeOK, NEW c \in Cid0
    PROVE  /\ StatusOf(c) \in Status
           /\ HaltOutcomes(c) \subseteq Containers
           /\ \A o \in RemoveOutcomes(c) : o.docker \in Containers /\ o.res \in Result
           /\ OutputOf(c) \subseteq LogVal
<1>1. StatusOf(c) \in Status
  BY DEF TypeOK, StatusOf, Status, Containers
<1>2. \A s \in Status : WithStatus(c, s) \in Containers
  BY DEF TypeOK, WithStatus, Containers
<1>3. docker \in Containers
  BY DEF TypeOK
<1>4. HaltOutcomes(c) \subseteq Containers
  <2>1. \A s \in Exited : WithStatus(c, s) \in Containers
    BY <1>2 DEF Exited, Status
  <2>. QED
    BY <2>1, <1>3 DEF HaltOutcomes
<1>5. \A o \in RemoveOutcomes(c) : o.docker \in Containers /\ o.res \in Result
  <2>1. WithStatus(c, "Removed") \in Containers
    BY <1>2 DEF Status
  <2>. QED
    BY <2>1, <1>3 DEF RemoveOutcomes, Result
<1>6. OutputOf(c) \subseteq LogVal
  BY <1>1 DEF OutputOf, LogVal, Present, StatusOf
<1>. QED
  BY <1>1, <1>4, <1>5, <1>6

LEMMA InitTypes == Init => TypeOK
  BY WorkerAssumption, Types DEF Init, TypeOK, JobTypes, Containers, Status, LogVal, NoLogs, Idle, UpdIdle, Cid0, Result

LEMMA AddStartTypes ==
    ASSUME TypeOK, NEW a \in Adder, NEW t \in Task, NEW cid \in Cid0, NEW again \in BOOLEAN,
           AddStart(a, t, cid, again)
    PROVE  TypeOK'
<1>1. Scheduled(t, cid) \in Record
  BY DEF Scheduled, TypeOK, Record, State, Cid0
<1>. QED
  BY <1>1 DEF TypeOK, JobTypes, AddStart, Event, Record

LEMMA AddStopTypes ==
    ASSUME TypeOK, NEW a \in Adder, NEW t \in Task, NEW why \in BOOLEAN, AddStop(a, t, why)
    PROVE  TypeOK'
  BY DEF TypeOK, JobTypes, AddStop, Event

LEMMA EnqueueTypes ==
    ASSUME TypeOK, NEW a \in Adder, Enqueue(a)
    PROVE  TypeOK'
  BY DEF TypeOK, JobTypes, Enqueue, Enqueued

LEMMA GetTasksTypes == ASSUME TypeOK, GetTasks PROVE TypeOK'
  BY DEF TypeOK, JobTypes, GetTasks, Record

\* A goroutine's next local state only has to be a job itself.
LEMMA BecomeTypes ==
    ASSUME TypeOK, NEW p \in Proc, NEW j \in Job, j.pc # "idle" => j.ev \in Event, Become(p, j)
    PROVE  JobTypes'
  BY DEF TypeOK, JobTypes, Become

LEMMA BusyJob ==
    ASSUME TypeOK, NEW p \in Proc, job[p].pc # "idle"
    PROVE  /\ job[p] \in Job /\ job[p].ev \in Event
           /\ job[p].ev.task \in Task /\ job[p].ev.cid \in Cid0
  BY DEF TypeOK, JobTypes, Event

LEMMA GotoTypes ==
    ASSUME TypeOK, NEW p \in Proc, job[p].pc # "idle", NEW pc \in Pc, Goto(p, pc)
    PROVE  JobTypes'
<1>1. [job[p] EXCEPT !.pc = pc] \in Job /\ [job[p] EXCEPT !.pc = pc].ev \in Event
  BY BusyJob DEF Job
<1>. QED
  BY <1>1, BecomeTypes DEF Goto

LEMMA FinishTypes == ASSUME TypeOK, NEW p \in Proc, Finish(p) PROVE JobTypes'
  BY BecomeTypes, Types DEF Finish, Idle

LEMMA GotoWithTypes ==
    ASSUME TypeOK, job[Runner].pc # "idle", NEW pc \in Pc, NEW c \in Cid0, GotoWith(pc, c)
    PROVE  JobTypes'
<1> DEFINE ev == [job[Runner].ev EXCEPT !.cid = c]
           j  == [job[Runner] EXCEPT !.pc = pc, !.ev = ev]
<1>1. ev \in Event
  BY BusyJob, Types DEF Event
<1>2. j \in Job /\ j.ev \in Event
  BY <1>1, BusyJob, Types DEF Job
<1>. QED
  BY <1>2, BecomeTypes, Types DEF GotoWith

LEMMA DequeueTypes == ASSUME TypeOK, Dequeue PROVE TypeOK'
<1>1. PICK q \in queue :
         /\ queue' = queue \ {q}
         /\ Become(Runner, [Idle EXCEPT !.pc = "merge", !.ev = q.ev])
  BY DEF Dequeue
<1> DEFINE j == [Idle EXCEPT !.pc = "merge", !.ev = q.ev]
<1>2. q.ev \in Event
  BY DEF TypeOK
<1>3. j \in Job /\ j.ev \in Event
  BY <1>2, Types DEF TypeOK, JobTypes, Job, Pc
<1>4. JobTypes'
  BY <1>1, <1>3, BecomeTypes, Types
<1>. QED
  BY <1>1, <1>4 DEF TypeOK, Dequeue

LEMMA MergeTypes == ASSUME TypeOK, Merge PROVE TypeOK'
<1> DEFINE ev  == job[Runner].ev
           rec == Recorded(ev)
           run == [ev EXCEPT !.cid = MergedCid(ev, rec)]
           j   == [job[Runner] EXCEPT !.pc = FirstStep(run), !.ev = run]
<1>1. ev \in Event /\ job[Runner] \in Job
  BY Types, BusyJob DEF Merge
<1>2. rec \in Record
  BY <1>1 DEF TypeOK, Recorded, Event, Record, State
<1>3. run \in Event /\ FirstStep(run) \in Pc
  BY <1>1, <1>2 DEF MergedCid, Event, Record, FirstStep, Pc
<1>4. db' \in [Task -> Record]
  BY <1>2 DEF TypeOK, Merge
<1>5. j \in Job /\ j.ev \in Event
  BY <1>1, <1>3 DEF Job
<1>6. JobTypes'
  BY <1>5, BecomeTypes, FinishTypes, Types DEF Merge
<1>. QED
  BY <1>4, <1>6 DEF TypeOK, Merge

LEMMA ClearLogsTypes == ASSUME TypeOK, ClearLogs PROVE TypeOK'
<1>1. JobTypes'
  BY GotoTypes, Types DEF ClearLogs, Pc
<1>. QED
  BY <1>1 DEF TypeOK, ClearLogs, LogVal

LEMMA HaltOldTypes == ASSUME TypeOK, HaltOld PROVE TypeOK'
<1>1. docker' \in Containers
  BY BusyJob, DockerTypes, Types DEF HaltOld
<1>2. JobTypes'
  BY GotoTypes, Types DEF HaltOld, Pc
<1>. QED
  BY <1>1, <1>2 DEF TypeOK, HaltOld

LEMMA RemoveOldTypes == ASSUME TypeOK, RemoveOld PROVE TypeOK'
<1>1. docker' \in Containers
  BY BusyJob, DockerTypes, Types DEF RemoveOld
<1>2. JobTypes'
  BY GotoTypes, GotoWithTypes, Types DEF RemoveOld, Pc
<1>. QED
  BY <1>1, <1>2 DEF TypeOK, RemoveOld

LEMMA CreateTypes == ASSUME TypeOK, Create PROVE TypeOK'
<1>1. job[Runner].ev.task \in Task
  BY BusyJob, Types DEF Create
<1>2. \A c \in Cid, s \in Status : Created(c, job[Runner].ev.task, s) \in Containers
  BY <1>1 DEF TypeOK, Created, Containers
<1>3. docker' \in Containers
  BY <1>2 DEF Create, TypeOK, Status
<1>4. JobTypes'
  BY GotoTypes, GotoWithTypes, Types DEF Create, Pc
<1>. QED
  BY <1>3, <1>4 DEF TypeOK, Create

\* What setTask writes is a record.
LEMMA StoredTypes ==
    ASSUME TypeOK, NEW t \in Task, NEW s \in State, NEW c \in Cid0, NEW f \in BOOLEAN
    PROVE  Stored(t, s, c, f) \in [Task -> Record]
  BY DEF TypeOK, Stored, Record

LEMMA StartEndsTypes == ASSUME TypeOK, StartFailed \/ StartCommit PROVE TypeOK'
<1>1. /\ job[Runner].ev.task \in Task /\ job[Runner].ev.cid \in Cid0
      /\ Finish(Runner) /\ {"Failed", "Running"} \subseteq State
  BY Types, BusyJob DEF StartFailed, StartCommit, State
<1>2. db' \in [Task -> Record]
  <2>1. CASE StartFailed
    BY <2>1, <1>1, StoredTypes DEF StartFailed
  <2>2. CASE StartCommit
    BY <2>2, <1>1, StoredTypes DEF StartCommit
  <2>. QED
    BY <2>1, <2>2
<1>3. JobTypes'
  BY <1>1, FinishTypes, Types
<1>. QED
  BY <1>2, <1>3 DEF TypeOK, StartFailed, StartCommit

LEMMA StopTypes == ASSUME TypeOK, NEW p \in Proc, Stopping(p) PROVE TypeOK'
<1>0. /\ job[p] \in Job /\ job[p].ev \in Event
      /\ job[p].ev.task \in Task /\ job[p].ev.cid \in Cid0
  BY BusyJob DEF Stopping, StopHalt, StopRemove, StopDecide, StopWrite, StopStore
<1>1. CASE StopHalt(p)
  <2>1. docker' \in Containers
    BY <1>0, <1>1, DockerTypes DEF StopHalt
  <2>2. PICK lg \in LogVal : Become(p, [job[p] EXCEPT !.pc = "remove", !.log = lg])
    BY <1>0, <1>1, DockerTypes DEF StopHalt
  <2> DEFINE j == [job[p] EXCEPT !.pc = "remove", !.log = lg]
  <2>3. j \in Job /\ j.ev \in Event
    BY <1>0 DEF Job, Pc
  <2>4. JobTypes'
    BY <2>2, <2>3, BecomeTypes
  <2>. QED
    BY <1>1, <2>1, <2>4 DEF TypeOK, StopHalt
<1>2. CASE StopRemove(p)
  <2>1. PICK o \in RemoveOutcomes(job[p].ev.cid) :
           /\ docker' = o.docker
           /\ Become(p, [job[p] EXCEPT !.pc = "decide", !.res = o.res])
    BY <1>2 DEF StopRemove
  <2> DEFINE j == [job[p] EXCEPT !.pc = "decide", !.res = o.res]
  <2>2. o.docker \in Containers /\ o.res \in Result
    BY <1>0, DockerTypes
  <2>3. j \in Job /\ j.ev \in Event
    BY <1>0, <2>2 DEF Job, Pc
  <2>4. JobTypes'
    BY <2>1, <2>3, BecomeTypes
  <2>. QED
    BY <1>2, <2>1, <2>2, <2>4 DEF TypeOK, StopRemove
<1>3. CASE StopDecide(p)
  <2> DEFINE o == StopOutcome(job[p].ev, db[job[p].ev.task])
             j == [job[p] EXCEPT !.pc = "write", !.out = o]
  <2>1. o \in {"Completed", "Failed"}
    BY DEF StopOutcome
  <2>2. j \in Job /\ j.ev \in Event
    BY <1>0, <2>1 DEF Job, Pc
  <2>3. JobTypes'
    BY <1>3, <2>2, BecomeTypes, FinishTypes DEF StopDecide
  <2>. QED
    BY <1>3, <2>3 DEF TypeOK, StopDecide
<1>4. CASE StopWrite(p)
  <2>1. db' \in [Task -> Record]
    BY <1>0, <1>4, StoredTypes DEF StopWrite, Job, State
  <2>2. JobTypes'
    BY <1>4, GotoTypes DEF StopWrite, Pc
  <2>. QED
    BY <1>4, <2>1, <2>2 DEF TypeOK, StopWrite
<1>5. CASE StopStore(p)
  <2>1. logs' \in [Task -> LogVal]
    BY <1>0, <1>5 DEF TypeOK, StopStore, StoredIfAbsent, Job
  <2>2. JobTypes'
    BY <1>5, GotoTypes, FinishTypes DEF StopStore, Pc
  <2>. QED
    BY <1>5, <2>1, <2>2 DEF TypeOK, StopStore
<1>. QED
  BY <1>1, <1>2, <1>3, <1>4, <1>5 DEF Stopping

LEMMA ForgetReadTypes ==
    ASSUME TypeOK, NEW f \in Forgetter, NEW t \in Task, ForgetRead(f, t)
    PROVE  TypeOK'
<1> DEFINE j == [Idle EXCEPT !.pc = "drop", !.ev = ForgetEvent(t)]
<1>1. ForgetEvent(t) \in Event
  BY DEF TypeOK, ForgetEvent, Event, Record, Cid0
<1>2. j \in Job /\ j.ev \in Event
  BY <1>1, Types DEF Job, Pc
<1>3. JobTypes'
  BY <1>2, BecomeTypes DEF ForgetRead, Proc
<1>. QED
  BY <1>3 DEF TypeOK, ForgetRead

LEMMA ForgettingTypes == ASSUME TypeOK, NEW f \in Forgetter, Forgetting(f) PROVE TypeOK'
<1>0. f \in Proc
  BY DEF Proc
<1>1. CASE ForgetDrop(f)
  <2>1. JobTypes'
    BY <1>0, <1>1, GotoTypes DEF ForgetDrop, Pc
  <2>. QED
    BY <1>1, <2>1 DEF TypeOK, ForgetDrop, Without
<1>2. CASE ForgetDelete(f)
  <2>1. db' \in [Task -> Record] /\ logs' \in [Task -> LogVal]
    BY <1>2, Types DEF TypeOK, ForgetDelete, LogVal
  <2>. QED
    BY <1>0, <1>2, <2>1, FinishTypes DEF TypeOK, ForgetDelete
<1>. QED
  BY <1>1, <1>2 DEF Forgetting

\* An inspection writes the state and the finish time.
LEMMA InspectedTypes ==
    ASSUME NEW r \in Record, NEW s \in Status
    PROVE  /\ Inspected(r, s) \in Record /\ Inspected(r, s).cid = r.cid
           /\ Inspected(r, s).state = "Running" => r.state = "Running"
<1>1. CASE s = "Running"
  BY <1>1 DEF Inspected
<1>2. CASE s = "ExitedOk"
  BY <1>2 DEF Inspected, Record, State
<1>3. CASE s \notin {"Running", "ExitedOk"}
  BY <1>3 DEF Inspected, Record, State
<1>. QED
  BY <1>1, <1>2, <1>3

LEMMA UpdaterTypes == ASSUME TypeOK, Updater PROVE TypeOK'
<1>1. CASE Snapshot
  BY <1>1 DEF TypeOK, JobTypes, Snapshot, Record
<1>2. CASE Inspect
  <2>1. PICK e \in todo, s \in Status :
           /\ todo' = todo \ {e}
           /\ upd' = [pc |-> "mark", task |-> e[1], cid |-> e[2], saw |-> s, log |-> NoLogs]
    BY <1>2, DockerTypes DEF Inspect, TypeOK, Status
  <2>2. upd' \in Upd /\ upd'.task \in Task
    BY <2>1 DEF TypeOK, Upd, UpdPc, LogVal
  <2>. QED
    BY <1>2, <2>1, <2>2 DEF TypeOK, JobTypes, Inspect
<1>3. CASE Mark
  <2>1. upd.task \in Task /\ upd.saw \in Status
    BY <1>3 DEF TypeOK, Mark, Upd
  <2>2. Inspected(db[upd.task], upd.saw) \in Record
    BY <2>1, InspectedTypes DEF TypeOK
  <2>3. db' \in [Task -> Record]
    BY <1>3, <2>1, <2>2 DEF TypeOK, Mark
  <2>4. upd' \in Upd /\ (upd'.pc # "idle" => upd'.task \in Task)
    <3>1. db[upd.task].cid \in Cid0
      BY <2>1 DEF TypeOK, Record
    <3>2. CASE upd' = UpdIdle
      BY <3>2, Types DEF UpdIdle
    <3>3. CASE upd' = [upd EXCEPT !.pc = "peek", !.cid = db[upd.task].cid]
      BY <3>1, <3>3, <2>1 DEF TypeOK, Upd, UpdPc
    <3>. QED
      BY <1>3, <3>2, <3>3 DEF Mark
  <2>. QED
    BY <1>3, <2>3, <2>4 DEF TypeOK, JobTypes, Mark
<1>4. CASE CaptureRead
  <2>1. upd \in Upd /\ upd.task \in Task
    BY <1>4 DEF TypeOK, CaptureRead
  <2>2. (IF Present(upd.cid) THEN upd.cid ELSE Empty) \in LogVal
    BY <2>1 DEF Present, StatusOf, Upd, LogVal
  <2>3. upd' \in Upd /\ (upd'.pc # "idle" => upd'.task \in Task)
    <3>1. CASE upd' = UpdIdle
      BY <3>1, Types DEF UpdIdle
    <3>2. CASE upd' = [upd EXCEPT !.pc = "store", !.log = IF Present(upd.cid) THEN upd.cid ELSE Empty]
      BY <2>1, <2>2, <3>2 DEF Upd, UpdPc
    <3>. QED
      BY <1>4, <3>1, <3>2 DEF CaptureRead
  <2>. QED
    BY <1>4, <2>3 DEF TypeOK, JobTypes, CaptureRead
<1>5. CASE CaptureStore \/ TimeoutStore
  <2>1. logs' \in [Task -> LogVal]
    BY <1>5 DEF TypeOK, CaptureStore, TimeoutStore, StoredIfAbsent, Upd
  <2>2. upd' \in Upd /\ (upd'.pc # "idle" => upd'.task \in Task)
    BY <1>5, Types DEF TypeOK, CaptureStore, TimeoutStore, Upd, UpdPc, UpdIdle, LogVal
  <2>. QED
    BY <1>5, <2>1, <2>2 DEF TypeOK, JobTypes, CaptureStore, TimeoutStore
<1>6. CASE TimeoutHalt
  <2>1. PICK e \in todo, lg \in LogVal :
           /\ todo' = todo \ {e}
           /\ docker' \in HaltOutcomes(e[2])
           /\ upd' = [pc |-> "remove", task |-> e[1], cid |-> e[2], saw |-> "None", log |-> lg]
    BY <1>6, DockerTypes DEF TimeoutHalt, TypeOK
  <2>2. e[1] \in Task /\ e[2] \in Cid0
    BY DEF TypeOK
  <2>3. upd' \in Upd /\ upd'.task \in Task
    BY <2>1, <2>2 DEF Upd, UpdPc, LogVal, Cid0, NoCid, NoLogs, Status
  <2>4. docker' \in Containers
    BY <2>1, <2>2, DockerTypes
  <2>. QED
    BY <1>6, <2>1, <2>3, <2>4 DEF TypeOK, JobTypes, TimeoutHalt
<1>7. CASE TimeoutRemove
  <2>1. docker' \in Containers
    BY <1>7, DockerTypes DEF TypeOK, TimeoutRemove, Upd
  <2>2. upd' \in Upd /\ upd'.task \in Task
    BY <1>7 DEF TypeOK, TimeoutRemove, Upd, UpdPc
  <2>. QED
    BY <1>7, <2>1, <2>2 DEF TypeOK, JobTypes, TimeoutRemove
<1>8. CASE TimeoutMark
  <2>1. TimedOut(db[upd.task]) \in Record
    BY <1>8 DEF TypeOK, TimeoutMark, TimedOut, Record, State
  <2>. QED
    BY <1>8, <2>1, Types DEF TypeOK, JobTypes, TimeoutMark, UpdIdle
<1>. QED
  BY <1>1, <1>2, <1>3, <1>4, <1>5, <1>6, <1>7, <1>8 DEF Updater

LEMMA EnvironmentTypes ==
    ASSUME TypeOK, \/ \E c \in Cid, s \in Exited \union {"Unhealthy"} : ContainerChanges(c, s)
                   \/ Crash
    PROVE  TypeOK'
<1>1. CASE \E c \in Cid, s \in Exited \union {"Unhealthy"} : ContainerChanges(c, s)
  BY <1>1 DEF TypeOK, JobTypes, ContainerChanges, WithStatus, Containers, Exited, Status
<1>2. CASE Crash
  <2>1. crashes' \in 0 .. MaxCrashes
    BY <1>2, WorkerAssumption DEF TypeOK, Crash
  <2>2. db' \in [Task -> Record] /\ logs' \in [Task -> LogVal]
    BY <1>2, Types DEF TypeOK, Crash, LogVal
  <2>. QED
    BY <1>2, <2>1, <2>2, Types DEF TypeOK, JobTypes, Crash, Idle, UpdIdle
<1>. QED
  BY <1>1, <1>2

LEMMA NextTypes == ASSUME TypeOK, [Next]_vars PROVE TypeOK'
<1>1. CASE RunLoop
  BY <1>1, DequeueTypes, MergeTypes, ClearLogsTypes, HaltOldTypes, RemoveOldTypes,
     CreateTypes, StartEndsTypes DEF RunLoop
<1>2. CASE UNCHANGED vars
  BY <1>2 DEF vars, TypeOK, JobTypes
<1>. QED
  BY <1>1, <1>2, AddStartTypes, AddStopTypes, EnqueueTypes, GetTasksTypes, StopTypes,
     ForgetReadTypes, ForgettingTypes, UpdaterTypes, EnvironmentTypes DEF Next

\* Every variable keeps its type: the store holds records with a state and a
\* container ID or none, and a goroutine that is busy works on a real task.
THEOREM TypeCorrect == Spec => []TypeOK
<1>1. TypeOK /\ [Next]_vars => TypeOK'
  BY NextTypes
<1>. QED
  BY <1>1, InitTypes, PTL DEF Spec

-----------------------------------------------------------------------------
(* Ownership of containers *)

OwnsNext(t, c) == c \in Cid => docker'[c].task = t /\ docker'[c].status # "None"

\* A container that exists stays the task's: docker's IDs are not reused.
DockerGrows ==
    \A c \in Cid : docker[c].status # "None" =>
        docker'[c].task = docker[c].task /\ docker'[c].status # "None"

LEMMA StatusGrows ==
    ASSUME TypeOK, NEW c, NEW s \in Status \ {"None"}, docker' = WithStatus(c, s)
    PROVE  DockerGrows
  BY DEF TypeOK, Containers, WithStatus, DockerGrows

LEMMA HaltGrows ==
    ASSUME TypeOK, NEW c, docker' \in HaltOutcomes(c)
    PROVE  DockerGrows
<1>1. CASE docker' = docker
  BY <1>1 DEF DockerGrows
<1>2. CASE \E s \in Exited : docker' = WithStatus(c, s)
  BY <1>2, StatusGrows DEF Exited, Status
<1>. QED
  BY <1>1, <1>2 DEF HaltOutcomes

LEMMA RemoveGrows ==
    ASSUME TypeOK, NEW c, NEW o \in RemoveOutcomes(c), docker' = o.docker
    PROVE  DockerGrows
<1>1. docker' = docker \/ docker' = WithStatus(c, "Removed")
  BY DEF RemoveOutcomes
<1>2. CASE docker' = docker
  BY <1>2 DEF DockerGrows
<1>3. CASE docker' = WithStatus(c, "Removed")
  BY <1>3, StatusGrows DEF Status
<1>. QED
  BY <1>1, <1>2, <1>3

LEMMA CreatedGrows ==
    ASSUME TypeOK, NEW c \in Cid, Fresh(c), NEW t, NEW s \in Status, docker' = Created(c, t, s),
           s # "None"
    PROVE  DockerGrows /\ OwnsNext(t, c)
  BY DEF TypeOK, Containers, Fresh, Created, DockerGrows, OwnsNext

LEMMA SameDocker == ASSUME UNCHANGED docker PROVE DockerGrows
  BY DEF DockerGrows

LEMMA Kept == ASSUME DockerGrows, NEW t, NEW c, Owns(t, c) PROVE OwnsNext(t, c)
  BY DEF DockerGrows, Owns, OwnsNext

\* What a step leaves alone it leaves owned.
LEMMA KeptGroups ==
    ASSUME OwnContainers, DockerGrows
    PROVE  /\ UNCHANGED <<db, reported, logs>> => RecordsOwn'
           /\ UNCHANGED <<queue, adding>> => EventsOwn'
           /\ UNCHANGED job => JobsOwn'
           /\ UNCHANGED <<todo, upd>> => UpdaterOwns'
<1>1. UNCHANGED <<db, reported, logs>> => RecordsOwn'
  BY Kept DEF OwnContainers, RecordsOwn, OwnsNext, Owns
<1>2. UNCHANGED <<queue, adding>> => EventsOwn'
  BY Kept DEF OwnContainers, EventsOwn, OwnsNext, Owns
<1>3. UNCHANGED job => JobsOwn'
  BY Kept DEF OwnContainers, JobsOwn, OwnsNext, Owns
<1>4. UNCHANGED <<todo, upd>> => UpdaterOwns'
  BY Kept DEF OwnContainers, UpdaterOwns, OwnsNext, Owns
<1>. QED
  BY <1>1, <1>2, <1>3, <1>4

\* One task's record or stored log changes to something it owns.
LEMMA RecordChanges ==
    ASSUME TypeOK, OwnContainers, DockerGrows, NEW t \in Task, NEW r \in Record,
           db' = [db EXCEPT ![t] = r], UNCHANGED reported, logs' = logs,
           OwnsNext(t, r.cid), r.state = "Running" => r.cid \in Cid
    PROVE  RecordsOwn'
<1>1. \A u \in Task : db'[u] = IF u = t THEN r ELSE db[u]
  BY DEF TypeOK
<1>2. \A u \in Task : /\ OwnsNext(u, db[u].cid) /\ OwnsNext(u, reported[u]) /\ OwnsNext(u, logs[u])
                      /\ db[u].state = "Running" => db[u].cid \in Cid
  BY Kept DEF OwnContainers, RecordsOwn
<1>. QED
  BY <1>1, <1>2 DEF RecordsOwn, OwnsNext, Owns

LEMMA LogChanges ==
    ASSUME TypeOK, OwnContainers, DockerGrows, NEW t \in Task, NEW lg \in LogVal,
           logs' = [logs EXCEPT ![t] = lg], UNCHANGED <<db, reported>>, OwnsNext(t, lg)
    PROVE  RecordsOwn'
<1>1. \A u \in Task : logs'[u] = IF u = t THEN lg ELSE logs[u]
  BY DEF TypeOK
<1>2. \A u \in Task : /\ OwnsNext(u, db[u].cid) /\ OwnsNext(u, reported[u]) /\ OwnsNext(u, logs[u])
                      /\ db[u].state = "Running" => db[u].cid \in Cid
  BY Kept DEF OwnContainers, RecordsOwn
<1>. QED
  BY <1>1, <1>2 DEF RecordsOwn, OwnsNext, Owns

LEMMA LogStores ==
    ASSUME TypeOK, OwnContainers, DockerGrows, NEW t \in Task, NEW lg \in LogVal,
           logs' = StoredIfAbsent(t, lg), UNCHANGED <<db, reported>>, OwnsNext(t, lg)
    PROVE  RecordsOwn'
<1>1. CASE logs' = logs
  BY <1>1, KeptGroups
<1>2. CASE logs' = [logs EXCEPT ![t] = lg]
  BY <1>2, LogChanges
<1>. QED
  BY <1>1, <1>2 DEF StoredIfAbsent

\* A goroutine goes on with containers of its own task.
LEMMA BecomeOwns ==
    ASSUME TypeOK, OwnContainers, DockerGrows, NEW p \in Proc, NEW j \in Job, Become(p, j),
           OwnsNext(j.ev.task, j.ev.cid), OwnsNext(j.ev.task, j.log),
           j.pc = "commit" => j.ev.cid \in Cid
    PROVE  JobsOwn'
<1>1. \A q \in Proc : Owns(job[q].ev.task, job[q].ev.cid) /\ Owns(job[q].ev.task, job[q].log)
  BY DEF OwnContainers, JobsOwn
<1>2. \A q \in Proc : job'[q] = IF q = p THEN j ELSE job[q]
  BY DEF TypeOK, JobTypes, Become
<1>3. \A q \in Proc : OwnsNext(job'[q].ev.task, job'[q].ev.cid) /\ OwnsNext(job'[q].ev.task, job'[q].log)
  BY <1>1, <1>2, Kept
<1>4. job'[Runner].pc = "commit" => job'[Runner].ev.cid \in Cid
  BY <1>2, Types DEF OwnContainers, JobsOwn
<1>. QED
  BY <1>3, <1>4 DEF JobsOwn, Owns, OwnsNext

LEMMA GotoOwns ==
    ASSUME TypeOK, OwnContainers, DockerGrows, NEW p \in Proc, job[p].pc # "idle",
           NEW pc \in Pc \ {"commit"}, Goto(p, pc)
    PROVE  JobsOwn'
<1> DEFINE j == [job[p] EXCEPT !.pc = pc]
<1>1. j \in Job /\ j.pc = pc /\ j.ev = job[p].ev /\ j.log = job[p].log
  BY BusyJob DEF Job
<1>2. OwnsNext(j.ev.task, j.ev.cid) /\ OwnsNext(j.ev.task, j.log)
  BY <1>1, Kept DEF OwnContainers, JobsOwn
<1>. QED
  BY <1>1, <1>2, BecomeOwns DEF Goto

LEMMA FinishOwns ==
    ASSUME TypeOK, OwnContainers, DockerGrows, NEW p \in Proc, Finish(p)
    PROVE  JobsOwn'
  BY BecomeOwns, Types DEF Finish, Idle, NoEvent, OwnsNext

LEMMA GotoWithOwns ==
    ASSUME TypeOK, OwnContainers, DockerGrows, job[Runner].pc # "idle",
           NEW pc \in Pc, NEW c \in Cid0, GotoWith(pc, c),
           OwnsNext(job[Runner].ev.task, c), pc = "commit" => c \in Cid
    PROVE  JobsOwn'
<1> DEFINE ev == [job[Runner].ev EXCEPT !.cid = c]
           j  == [job[Runner] EXCEPT !.pc = pc, !.ev = ev]
<1>1. ev \in Event /\ ev.cid = c /\ ev.task = job[Runner].ev.task
  BY BusyJob, Types DEF Event
<1>2. j \in Job /\ j.ev = ev /\ j.pc = pc /\ j.log = job[Runner].log
  BY <1>1, BusyJob, Types DEF Job
<1>3. OwnsNext(j.ev.task, j.log)
  BY <1>1, <1>2, Kept, Types DEF OwnContainers, JobsOwn
<1>. QED
  BY <1>1, <1>2, <1>3, BecomeOwns, Types DEF GotoWith

LEMMA InitOwns == Init => OwnContainers
  BY Types DEF Init, OwnContainers, RecordsOwn, EventsOwn, JobsOwn, UpdaterOwns, Owns,
     NoRecord, NoEvent, Idle, UpdIdle, NoLogs, NoCid

LEMMA AddStartOwns ==
    ASSUME IInv, NEW a \in Adder, NEW t \in Task, NEW cid \in Cid0, NEW again \in BOOLEAN,
           AddStart(a, t, cid, again)
    PROVE  OwnContainers'
<1>. USE DEF IInv
<1>1. DockerGrows
  BY SameDocker DEF AddStart
<1> DEFINE r == Scheduled(t, cid)
<1>2. r \in Record /\ r.state = "Scheduled" /\ r.cid \in {cid, db[t].cid}
  BY DEF Scheduled, TypeOK, Record, State, Cid0
<1>3. cid \in {NoCid, reported[t], db[t].cid}
  BY DEF AddStart, MaySendStart
<1>4. Owns(t, r.cid)
  BY <1>2, <1>3, Types DEF OwnContainers, RecordsOwn, Owns
<1>5. OwnsNext(t, r.cid)
  BY <1>1, <1>4, Kept
<1>6. RecordsOwn'
  BY <1>1, <1>2, <1>5, RecordChanges DEF AddStart
<1>7. EventsOwn'
  <2>1. \A b \in Adder : adding'[b] = IF b = a THEN [task |-> t, kind |-> "start", cid |-> r.cid,
                                                    again |-> again, why |-> FALSE] ELSE adding[b]
    BY DEF TypeOK, AddStart
  <2>2. \A b \in Adder : OwnsNext(adding'[b].task, adding'[b].cid)
    BY <2>1, <1>1, <1>5, Kept DEF OwnContainers, EventsOwn
  <2>3. \A q \in queue' : OwnsNext(q.ev.task, q.ev.cid)
    BY <1>1, Kept DEF OwnContainers, EventsOwn, AddStart
  <2>. QED
    BY <2>2, <2>3 DEF EventsOwn, Owns, OwnsNext
<1>. QED
  BY <1>1, <1>6, <1>7, KeptGroups DEF OwnContainers, AddStart

LEMMA AddStopOwns ==
    ASSUME IInv, NEW a \in Adder, NEW t \in Task, NEW why \in BOOLEAN, AddStop(a, t, why)
    PROVE  OwnContainers'
<1>. USE DEF IInv
<1>1. DockerGrows
  BY SameDocker DEF AddStop
<1>2. EventsOwn'
  <2>1. \A b \in Adder : adding'[b] = IF b = a THEN [task |-> t, kind |-> "stop", cid |-> reported[t],
                                                    again |-> FALSE, why |-> why] ELSE adding[b]
    BY DEF TypeOK, AddStop
  <2>2. \A b \in Adder : OwnsNext(adding'[b].task, adding'[b].cid)
    BY <2>1, <1>1, Kept DEF OwnContainers, EventsOwn, RecordsOwn
  <2>3. \A q \in queue' : OwnsNext(q.ev.task, q.ev.cid)
    BY <1>1, Kept DEF OwnContainers, EventsOwn, AddStop
  <2>. QED
    BY <2>2, <2>3 DEF EventsOwn, Owns, OwnsNext
<1>. QED
  BY <1>1, <1>2, KeptGroups DEF OwnContainers, AddStop

LEMMA EnqueueOwns ==
    ASSUME IInv, NEW a \in Adder, Enqueue(a)
    PROVE  OwnContainers'
<1>. USE DEF IInv
<1>1. DockerGrows
  BY SameDocker DEF Enqueue
<1>2. EventsOwn'
  BY Types DEF OwnContainers, EventsOwn, TypeOK, Enqueue, Enqueued, Owns, NoEvent
<1>. QED
  BY <1>1, <1>2, KeptGroups DEF OwnContainers, Enqueue

LEMMA GetTasksOwns == ASSUME IInv, GetTasks PROVE OwnContainers'
<1>. USE DEF IInv
<1>1. DockerGrows
  BY SameDocker DEF GetTasks
<1>2. RecordsOwn'
  BY DEF OwnContainers, RecordsOwn, GetTasks, Owns
<1>. QED
  BY <1>1, <1>2, KeptGroups DEF OwnContainers, GetTasks

LEMMA DequeueOwns == ASSUME IInv, Dequeue PROVE OwnContainers'
<1>. USE DEF IInv
<1>1. DockerGrows
  BY SameDocker DEF Dequeue
<1>2. PICK q \in queue : /\ queue' = queue \ {q}
                         /\ Become(Runner, [Idle EXCEPT !.pc = "merge", !.ev = q.ev])
  BY DEF Dequeue
<1>3. EventsOwn'
  BY <1>2 DEF OwnContainers, EventsOwn, Dequeue, Owns
<1> DEFINE j == [Idle EXCEPT !.pc = "merge", !.ev = q.ev]
<1>4. j \in Job /\ j.ev = q.ev /\ j.log = NoLogs /\ j.pc = "merge"
  BY DEF TypeOK, Idle, Job, Pc, LogVal, Result
<1>5. OwnsNext(j.ev.task, j.ev.cid) /\ OwnsNext(j.ev.task, j.log)
  BY <1>1, <1>4, Kept, Types DEF OwnContainers, EventsOwn, OwnsNext
<1>6. JobsOwn'
  BY <1>1, <1>2, <1>4, <1>5, BecomeOwns, Types
<1>. QED
  BY <1>1, <1>3, <1>6, KeptGroups DEF OwnContainers, Dequeue

LEMMA MergeOwns == ASSUME IInv, Merge PROVE OwnContainers'
<1>. USE DEF IInv
<1>1. DockerGrows
  BY SameDocker DEF Merge
<1> DEFINE ev  == job[Runner].ev
           t   == ev.task
           rec == Recorded(ev)
           run == [ev EXCEPT !.cid = MergedCid(ev, rec)]
           j   == [job[Runner] EXCEPT !.pc = FirstStep(run), !.ev = run]
<1>2. ev \in Event /\ t \in Task /\ job[Runner] \in Job
  BY BusyJob, Types DEF Merge
<1>3. rec \in Record /\ rec.cid \in {ev.cid, db[t].cid} /\ (rec.state = "Running" => rec.cid \in Cid)
  BY <1>2 DEF TypeOK, OwnContainers, RecordsOwn, Recorded, Event, Record, State
<1>4. Owns(t, ev.cid) /\ Owns(t, db[t].cid) /\ Owns(t, job[Runner].log)
  BY <1>2, Types DEF OwnContainers, JobsOwn, RecordsOwn
<1>5. RecordsOwn'
  <2>1. OwnsNext(t, rec.cid)
    BY <1>1, <1>3, <1>4, Kept
  <2>2. db' = [db EXCEPT ![t] = rec]
    BY DEF Merge
  <2>. QED
    BY <2>1, <2>2, <1>1, <1>2, <1>3, RecordChanges DEF Merge
<1>6. JobsOwn'
  <2>1. run \in Event /\ run.task = t /\ run.cid \in {ev.cid, rec.cid}
    BY <1>2, <1>3 DEF MergedCid, Event, Record
  <2>2. FirstStep(run) \in Pc \ {"commit"}
    BY DEF FirstStep, Pc
  <2>3. j \in Job /\ j.ev = run /\ j.log = job[Runner].log /\ j.pc # "commit"
    BY <1>2, <2>1, <2>2 DEF Job
  <2>4. OwnsNext(j.ev.task, j.ev.cid) /\ OwnsNext(j.ev.task, j.log)
    BY <1>1, <1>3, <1>4, <2>1, <2>3, Kept
  <2>5. Become(Runner, j) \/ Finish(Runner)
    BY DEF Merge
  <2>. QED
    BY <1>1, <2>3, <2>4, <2>5, BecomeOwns, FinishOwns, Types
<1>. QED
  BY <1>1, <1>5, <1>6, KeptGroups DEF OwnContainers, Merge

LEMMA ClearLogsOwns == ASSUME IInv, ClearLogs PROVE OwnContainers'
<1>. USE DEF IInv
<1>1. DockerGrows
  BY SameDocker DEF ClearLogs
<1>2. RecordsOwn'
  BY <1>1, LogChanges, BusyJob, Types DEF ClearLogs, LogVal, OwnsNext
<1>3. JobsOwn'
  BY <1>1, GotoOwns, Types DEF ClearLogs, Pc
<1>. QED
  BY <1>1, <1>2, <1>3, KeptGroups DEF OwnContainers, ClearLogs

LEMMA HaltOldOwns == ASSUME IInv, HaltOld PROVE OwnContainers'
<1>. USE DEF IInv
<1>1. DockerGrows
  BY HaltGrows DEF HaltOld
<1>2. JobsOwn'
  BY <1>1, GotoOwns, Types DEF HaltOld, Pc
<1>. QED
  BY <1>1, <1>2, KeptGroups DEF OwnContainers, HaltOld

LEMMA RemoveOldOwns == ASSUME IInv, RemoveOld PROVE OwnContainers'
<1>. USE DEF IInv
<1>1. DockerGrows
  BY RemoveGrows DEF RemoveOld
<1>2. JobsOwn'
  BY <1>1, GotoOwns, GotoWithOwns, Types DEF RemoveOld, Pc, OwnsNext
<1>. QED
  BY <1>1, <1>2, KeptGroups DEF OwnContainers, RemoveOld

LEMMA CreateOwns == ASSUME IInv, Create PROVE OwnContainers'
<1>. USE DEF IInv
<1> DEFINE t == job[Runner].ev.task
<1>1. DockerGrows /\ JobsOwn'
  <2>1. ASSUME NEW c \in Cid, NEW s \in {"Running", "ExitedErr"}, Fresh(c),
               docker' = Created(c, t, s), NEW pc \in {"commit", "fail"}, GotoWith(pc, c)
        PROVE  DockerGrows /\ JobsOwn'
    <3>1. DockerGrows /\ OwnsNext(t, c)
      BY <2>1, CreatedGrows DEF Status
    <3>2. job[Runner].pc # "idle" /\ c \in Cid0 /\ pc \in Pc
      BY Types DEF Create, Pc
    <3>. QED
      BY <2>1, <3>1, <3>2, GotoWithOwns
  <2>2. CASE docker' = docker /\ Goto(Runner, "fail")
    BY <2>2, SameDocker, GotoOwns, Types DEF Create, Pc
  <2>. QED
    BY <2>1, <2>2 DEF Create
<1>. QED
  BY <1>1, KeptGroups DEF OwnContainers, Create

LEMMA StartEndsOwns == ASSUME IInv, StartFailed \/ StartCommit PROVE OwnContainers'
<1>. USE DEF IInv
<1>1. DockerGrows
  BY SameDocker DEF StartFailed, StartCommit
<1> DEFINE t == job[Runner].ev.task
           c == job[Runner].ev.cid
<1>2. t \in Task /\ c \in Cid0 /\ OwnsNext(t, c)
  BY <1>1, BusyJob, Types, Kept DEF StartFailed, StartCommit, OwnContainers, JobsOwn
<1>3. StartCommit => c \in Cid
  BY DEF StartCommit, OwnContainers, JobsOwn
<1>4. CASE StartCommit
  <2> DEFINE rr == [state |-> "Running", cid |-> c, fin |-> FALSE]
  <2>1. rr \in Record /\ db' = [db EXCEPT ![t] = rr]
    BY <1>2, <1>4 DEF StartCommit, Stored, Record, State
  <2>2. RecordsOwn'
    BY <1>1, <1>2, <1>3, <1>4, <2>1, RecordChanges DEF StartCommit
  <2>. QED
    BY <1>1, <1>4, <2>2, FinishOwns, Types, KeptGroups DEF OwnContainers, StartCommit
<1>5. CASE StartFailed
  <2> DEFINE rr == [state |-> "Failed", cid |-> c, fin |-> FALSE]
  <2>1. rr \in Record /\ db' = [db EXCEPT ![t] = rr]
    BY <1>2, <1>5 DEF StartFailed, Stored, Record, State
  <2>2. RecordsOwn'
    BY <1>1, <1>2, <1>5, <2>1, RecordChanges DEF StartFailed
  <2>. QED
    BY <1>1, <1>5, <2>2, FinishOwns, Types, KeptGroups DEF OwnContainers, StartFailed
<1>. QED
  BY <1>4, <1>5

LEMMA StopHaltOwns == ASSUME IInv, NEW p \in Proc, StopHalt(p) PROVE OwnContainers'
<1>. USE DEF IInv
<1>1. DockerGrows
  BY HaltGrows DEF StopHalt
<1>2. job[p] \in Job /\ job[p].ev.cid \in Cid0
  BY BusyJob DEF StopHalt
<1>3. PICK lg \in OutputOf(job[p].ev.cid) : Become(p, [job[p] EXCEPT !.pc = "remove", !.log = lg])
  BY DEF StopHalt
<1> DEFINE j == [job[p] EXCEPT !.pc = "remove", !.log = lg]
<1>4. lg \in LogVal /\ lg \in {job[p].ev.cid, NoLogs}
  BY <1>2, <1>3, DockerTypes DEF OutputOf
<1>5. j \in Job /\ j.ev = job[p].ev /\ j.log = lg /\ j.pc = "remove"
  BY <1>2, <1>4 DEF Job, Pc
<1>6. OwnsNext(j.ev.task, job[p].ev.cid)
  BY <1>1, <1>5, Kept DEF OwnContainers, JobsOwn
<1>7. OwnsNext(j.ev.task, j.log)
  BY <1>4, <1>5, <1>6, Types DEF OwnsNext
<1>8. JobsOwn'
  BY <1>1, <1>3, <1>5, <1>6, <1>7, BecomeOwns
<1>. QED
  BY <1>1, <1>8, KeptGroups DEF OwnContainers, StopHalt

LEMMA StopRemoveOwns == ASSUME IInv, NEW p \in Proc, StopRemove(p) PROVE OwnContainers'
<1>. USE DEF IInv
<1>1. PICK o \in RemoveOutcomes(job[p].ev.cid) :
         /\ docker' = o.docker
         /\ Become(p, [job[p] EXCEPT !.pc = "decide", !.res = o.res])
  BY DEF StopRemove
<1>2. DockerGrows
  BY <1>1, RemoveGrows
<1>3. job[p] \in Job /\ o.res \in Result
  BY <1>1, BusyJob, DockerTypes DEF StopRemove
<1> DEFINE j == [job[p] EXCEPT !.pc = "decide", !.res = o.res]
<1>4. j \in Job /\ j.ev = job[p].ev /\ j.log = job[p].log /\ j.pc = "decide"
  BY <1>3 DEF Job, Pc
<1>5. OwnsNext(j.ev.task, j.ev.cid) /\ OwnsNext(j.ev.task, j.log)
  BY <1>2, <1>4, Kept DEF OwnContainers, JobsOwn
<1>6. JobsOwn'
  BY <1>1, <1>2, <1>4, <1>5, BecomeOwns
<1>. QED
  BY <1>2, <1>6, KeptGroups DEF OwnContainers, StopRemove

LEMMA StopDecideOwns == ASSUME IInv, NEW p \in Proc, StopDecide(p) PROVE OwnContainers'
<1>. USE DEF IInv
<1>1. DockerGrows
  BY SameDocker DEF StopDecide
<1>2. job[p] \in Job
  BY BusyJob DEF StopDecide
<1> DEFINE o == StopOutcome(job[p].ev, db[job[p].ev.task])
           j == [job[p] EXCEPT !.pc = "write", !.out = o]
<1>3. o \in {"Completed", "Failed"}
  BY DEF StopOutcome
<1>4. j \in Job /\ j.ev = job[p].ev /\ j.log = job[p].log /\ j.pc = "write"
  BY <1>2, <1>3 DEF Job, Pc
<1>5. OwnsNext(j.ev.task, j.ev.cid) /\ OwnsNext(j.ev.task, j.log)
  BY <1>1, <1>4, Kept DEF OwnContainers, JobsOwn
<1>6. Become(p, j) \/ Finish(p)
  BY DEF StopDecide
<1>7. JobsOwn'
  BY <1>1, <1>4, <1>5, <1>6, BecomeOwns, FinishOwns
<1>. QED
  BY <1>1, <1>7, KeptGroups DEF OwnContainers, StopDecide

LEMMA StopWriteOwns == ASSUME IInv, NEW p \in Proc, StopWrite(p) PROVE OwnContainers'
<1>. USE DEF IInv
<1>1. DockerGrows
  BY SameDocker DEF StopWrite
<1> DEFINE t == job[p].ev.task
           r == [state |-> job[p].out, cid |-> job[p].ev.cid, fin |-> TRUE]
<1>2. /\ t \in Task /\ OwnsNext(t, r.cid)
      /\ r \in Record /\ r.state # "Running"
  BY <1>1, BusyJob, Kept DEF StopWrite, OwnContainers, JobsOwn, Job, Record, State
<1>3. db' = [db EXCEPT ![t] = r]
  BY DEF StopWrite, Stored
<1>4. RecordsOwn'
  BY <1>1, <1>2, <1>3, RecordChanges DEF StopWrite
<1>5. JobsOwn'
  BY <1>1, GotoOwns DEF StopWrite, Pc
<1>. QED
  BY <1>1, <1>4, <1>5, KeptGroups DEF OwnContainers, StopWrite

LEMMA StopStoreOwns == ASSUME IInv, NEW p \in Proc, StopStore(p) PROVE OwnContainers'
<1>. USE DEF IInv
<1>1. DockerGrows
  BY SameDocker DEF StopStore
<1>2. /\ job[p].ev.task \in Task /\ job[p].log \in LogVal
      /\ OwnsNext(job[p].ev.task, job[p].log)
  BY <1>1, BusyJob, Kept DEF StopStore, OwnContainers, JobsOwn, Job
<1>3. RecordsOwn'
  BY <1>1, <1>2, LogStores DEF StopStore
<1>4. JobsOwn'
  BY <1>1, GotoOwns, FinishOwns DEF StopStore, Pc
<1>. QED
  BY <1>1, <1>3, <1>4, KeptGroups DEF OwnContainers, StopStore

LEMMA ForgetReadOwns ==
    ASSUME IInv, NEW f \in Forgetter, NEW t \in Task, ForgetRead(f, t)
    PROVE  OwnContainers'
<1>. USE DEF IInv
<1>1. DockerGrows
  BY SameDocker DEF ForgetRead
<1> DEFINE j == [Idle EXCEPT !.pc = "drop", !.ev = ForgetEvent(t)]
<1>2. ForgetEvent(t) \in Event /\ ForgetEvent(t).task = t /\ ForgetEvent(t).cid \in {db[t].cid, NoCid}
  BY DEF TypeOK, ForgetEvent, Event, Record, Cid0
<1>3. j \in Job /\ j.ev = ForgetEvent(t) /\ j.log = NoLogs /\ j.pc = "drop"
  BY <1>2 DEF Idle, Job, Pc, LogVal, Result
<1>4. OwnsNext(t, db[t].cid)
  BY <1>1, Kept DEF OwnContainers, RecordsOwn
<1>5. OwnsNext(j.ev.task, j.ev.cid) /\ OwnsNext(j.ev.task, j.log)
  BY <1>2, <1>3, <1>4, Types DEF OwnsNext
<1>6. f \in Proc /\ Become(f, j)
  BY DEF ForgetRead, Proc
<1>7. JobsOwn'
  BY <1>1, <1>3, <1>5, <1>6, BecomeOwns
<1>. QED
  BY <1>1, <1>7, KeptGroups DEF OwnContainers, ForgetRead

LEMMA ForgetDropOwns == ASSUME IInv, NEW f \in Forgetter, ForgetDrop(f) PROVE OwnContainers'
<1>. USE DEF IInv
<1>1. DockerGrows
  BY SameDocker DEF ForgetDrop
<1>2. EventsOwn'
  BY DEF OwnContainers, EventsOwn, ForgetDrop, Without, Owns
<1>3. JobsOwn'
  BY <1>1, GotoOwns DEF ForgetDrop, Pc, Proc
<1>. QED
  BY <1>1, <1>2, <1>3, KeptGroups DEF OwnContainers, ForgetDrop

LEMMA ForgetDeleteOwns == ASSUME IInv, NEW f \in Forgetter, ForgetDelete(f) PROVE OwnContainers'
<1>. USE DEF IInv
<1>1. DockerGrows
  BY SameDocker DEF ForgetDelete
<1>2. RecordsOwn'
  <2>1. \A u \in Task : /\ db'[u] \in {db[u], NoRecord}
                        /\ logs'[u] \in {logs[u], NoLogs}
                        /\ reported'[u] = reported[u]
    BY DEF TypeOK, ForgetDelete
  <2>2. \A u \in Task : /\ Owns(u, db[u].cid) /\ Owns(u, reported[u]) /\ Owns(u, logs[u])
                        /\ db[u].state = "Running" => db[u].cid \in Cid
    BY DEF OwnContainers, RecordsOwn
  <2>3. NoRecord.cid \notin Cid /\ NoRecord.state # "Running" /\ NoLogs \notin Cid
    BY Types DEF NoRecord
  <2>. QED
    BY <2>1, <2>2, <2>3 DEF RecordsOwn, Owns, ForgetDelete
<1>3. JobsOwn'
  BY <1>1, FinishOwns DEF ForgetDelete, Proc
<1>. QED
  BY <1>1, <1>2, <1>3, KeptGroups DEF OwnContainers, ForgetDelete

LEMMA SnapshotOwns == ASSUME IInv, Snapshot PROVE OwnContainers'
<1>. USE DEF IInv
<1>1. DockerGrows
  BY SameDocker DEF Snapshot
<1>2. \A e \in todo' : \E t \in Task : e[1] = t /\ e[2] = db[t].cid
  BY DEF Snapshot
<1>3. \A e \in todo' : Owns(e[1], e[2])
  BY <1>2 DEF OwnContainers, RecordsOwn
<1>4. UpdaterOwns'
  BY <1>3 DEF OwnContainers, UpdaterOwns, Snapshot, Owns
<1>. QED
  BY <1>1, <1>4, KeptGroups DEF OwnContainers, Snapshot

LEMMA InspectOwns == ASSUME IInv, Inspect PROVE OwnContainers'
<1>. USE DEF IInv
<1>1. DockerGrows
  BY SameDocker DEF Inspect
<1>2. UpdaterOwns'
  BY Types DEF OwnContainers, UpdaterOwns, Inspect, Owns
<1>. QED
  BY <1>1, <1>2, KeptGroups DEF OwnContainers, Inspect

LEMMA MarkOwns == ASSUME IInv, Mark PROVE OwnContainers'
<1>. USE DEF IInv
<1>1. DockerGrows
  BY SameDocker DEF Mark
<1> DEFINE t == upd.task
           r == Inspected(db[t], upd.saw)
<1>2. t \in Task /\ upd \in Upd /\ Owns(t, db[t].cid)
  BY DEF TypeOK, Mark, OwnContainers, RecordsOwn
<1>3. RecordsOwn'
  <2>1. r \in Record /\ r.cid = db[t].cid /\ (r.state = "Running" => db[t].state = "Running")
    <3>1. db[t] \in Record /\ upd.saw \in Status
      BY <1>2 DEF TypeOK, Upd
    <3>. QED
      BY <3>1, InspectedTypes
  <2>2. OwnsNext(t, r.cid) /\ (r.state = "Running" => r.cid \in Cid)
    BY <1>1, <1>2, <2>1, Kept DEF OwnContainers, RecordsOwn
  <2>3. CASE db' = [db EXCEPT ![t] = r]
    BY <1>1, <1>2, <2>1, <2>2, <2>3, RecordChanges DEF Mark
  <2>4. CASE db' = db
    BY <1>1, <2>4, KeptGroups DEF Mark
  <2>. QED
    BY <2>3, <2>4 DEF Mark
<1>4. UpdaterOwns'
  <2>1. \/ upd' = UpdIdle
        \/ upd'.task = t /\ upd'.cid = db[t].cid /\ upd'.log = upd.log
    BY <1>2 DEF Mark, Upd
  <2>2. Owns(t, upd.log) /\ (\A e \in todo : Owns(e[1], e[2]))
    BY DEF OwnContainers, UpdaterOwns
  <2>. QED
    BY <1>2, <2>1, <2>2, Types DEF UpdaterOwns, Owns, Mark, UpdIdle
<1>. QED
  BY <1>1, <1>3, <1>4, KeptGroups DEF OwnContainers, Mark

LEMMA CaptureOwns == ASSUME IInv, CaptureRead \/ CaptureStore PROVE OwnContainers'
<1>. USE DEF IInv
<1>1. DockerGrows
  BY SameDocker DEF CaptureRead, CaptureStore
<1>2. upd \in Upd /\ upd.task \in Task /\ Owns(upd.task, upd.cid) /\ Owns(upd.task, upd.log)
  BY DEF TypeOK, CaptureRead, CaptureStore, OwnContainers, UpdaterOwns
<1>3. RecordsOwn'
  <2>1. CASE CaptureRead
    BY <1>1, <2>1, KeptGroups DEF CaptureRead
  <2>2. CASE CaptureStore
    <3>1. upd.log \in LogVal /\ OwnsNext(upd.task, upd.log)
      BY <1>1, <1>2, Kept DEF Upd
    <3>. QED
      BY <1>1, <1>2, <2>2, <3>1, LogStores DEF CaptureStore
  <2>. QED
    BY <2>1, <2>2
<1>4. UpdaterOwns'
  <2>1. \/ upd' = UpdIdle
        \/ upd'.task = upd.task /\ upd'.cid = upd.cid /\ upd'.log \in {upd.cid, Empty}
    BY <1>2 DEF CaptureRead, CaptureStore, Upd
  <2>. QED
    BY <1>2, <2>1, Types DEF OwnContainers, UpdaterOwns, Owns, CaptureRead, CaptureStore, UpdIdle
<1>. QED
  BY <1>1, <1>3, <1>4, KeptGroups DEF OwnContainers, CaptureRead, CaptureStore

LEMMA TimeoutHaltOwns == ASSUME IInv, TimeoutHalt PROVE OwnContainers'
<1>. USE DEF IInv
<1>0. PICK e \in todo : \E lg \in OutputOf(e[2]) :
         /\ todo' = todo \ {e}
         /\ docker' \in HaltOutcomes(e[2])
         /\ upd' = [pc |-> "remove", task |-> e[1], cid |-> e[2], saw |-> "None", log |-> lg]
  BY DEF TimeoutHalt
<1>1. PICK lg \in OutputOf(e[2]) :
         /\ todo' = todo \ {e}
         /\ docker' \in HaltOutcomes(e[2])
         /\ upd' = [pc |-> "remove", task |-> e[1], cid |-> e[2], saw |-> "None", log |-> lg]
  BY <1>0
<1>2. DockerGrows
  BY <1>1, HaltGrows
<1>3. \A d \in todo : OwnsNext(d[1], d[2])
  BY <1>2, Kept DEF OwnContainers, UpdaterOwns
<1>4. OwnsNext(e[1], lg)
  BY <1>1, <1>3, Types DEF OutputOf, OwnsNext
<1>5. UpdaterOwns'
  BY <1>1, <1>3, <1>4 DEF UpdaterOwns, Owns, OwnsNext
<1>. QED
  BY <1>2, <1>5, KeptGroups DEF OwnContainers, TimeoutHalt

LEMMA TimeoutRemoveOwns == ASSUME IInv, TimeoutRemove PROVE OwnContainers'
<1>. USE DEF IInv
<1>1. DockerGrows
  BY RemoveGrows DEF TimeoutRemove
<1>2. upd'.task = upd.task /\ upd'.cid = upd.cid /\ upd'.log = upd.log
  BY DEF TypeOK, Upd, TimeoutRemove
<1>3. UpdaterOwns'
  BY <1>1, <1>2, Kept DEF OwnContainers, UpdaterOwns, Owns, OwnsNext, TimeoutRemove
<1>. QED
  BY <1>1, <1>3, KeptGroups DEF OwnContainers, TimeoutRemove

LEMMA TimeoutStoreOwns == ASSUME IInv, TimeoutStore PROVE OwnContainers'
<1>. USE DEF IInv
<1>1. DockerGrows
  BY SameDocker DEF TimeoutStore
<1>2. upd \in Upd /\ upd.task \in Task /\ upd.log \in LogVal /\ OwnsNext(upd.task, upd.log)
  BY <1>1, Kept DEF TypeOK, Upd, TimeoutStore, OwnContainers, UpdaterOwns
<1>3. RecordsOwn'
  BY <1>1, <1>2, LogStores DEF TimeoutStore
<1>4. upd'.task = upd.task /\ upd'.cid = upd.cid /\ upd'.log = NoLogs
  BY <1>2 DEF Upd, TimeoutStore
<1>5. UpdaterOwns'
  BY <1>4, Types DEF OwnContainers, UpdaterOwns, Owns, TimeoutStore
<1>. QED
  BY <1>1, <1>3, <1>5, KeptGroups DEF OwnContainers, TimeoutStore

LEMMA TimeoutMarkOwns == ASSUME IInv, TimeoutMark PROVE OwnContainers'
<1>. USE DEF IInv
<1>1. DockerGrows
  BY SameDocker DEF TimeoutMark
<1> DEFINE t == upd.task
           r == TimedOut(db[t])
<1>2. t \in Task /\ OwnsNext(t, db[t].cid)
  BY <1>1, Kept DEF TypeOK, TimeoutMark, OwnContainers, RecordsOwn
<1>3. r \in Record /\ r.cid = db[t].cid /\ r.state # "Running"
  BY <1>2 DEF TypeOK, TimedOut, Record, State
<1>4. RecordsOwn'
  BY <1>1, <1>2, <1>3, RecordChanges DEF TimeoutMark
<1>5. UpdaterOwns'
  BY Types DEF OwnContainers, UpdaterOwns, Owns, TimeoutMark, UpdIdle
<1>. QED
  BY <1>1, <1>4, <1>5, KeptGroups DEF OwnContainers, TimeoutMark

LEMMA ContainerChangesOwns ==
    ASSUME IInv, NEW c \in Cid, NEW s \in Exited \union {"Unhealthy"}, ContainerChanges(c, s)
    PROVE  OwnContainers'
<1>. USE DEF IInv
<1>1. DockerGrows
  BY StatusGrows DEF ContainerChanges, Exited, Status
<1>. QED
  BY <1>1, KeptGroups DEF OwnContainers, ContainerChanges

\* After a crash the records may be kept; nothing else is but docker's state.
LEMMA CrashOwns == ASSUME IInv, Crash PROVE OwnContainers'
<1>. USE DEF IInv
<1>1. RecordsOwn'
  BY Types DEF OwnContainers, RecordsOwn, Crash, Owns, NoRecord
<1>2. EventsOwn'
  BY Types DEF EventsOwn, Crash, Owns, NoEvent
<1>3. JobsOwn'
  BY Types DEF JobsOwn, Crash, Owns, Idle, NoEvent
<1>4. UpdaterOwns'
  BY Types DEF UpdaterOwns, Crash, Owns, UpdIdle
<1>. QED
  BY <1>1, <1>2, <1>3, <1>4 DEF OwnContainers

\* No interleaving of the loops, the handlers, failing docker calls and
\* crashes makes the worker hold a container of another task.
THEOREM ContainersOwned == Spec => []OwnContainers
<1>1. Init => IInv
  BY InitTypes, InitOwns DEF IInv
<1>2. IInv /\ [Next]_vars => IInv'
  <2> SUFFICES ASSUME IInv, [Next]_vars PROVE IInv'
    OBVIOUS
  <2>1. TypeOK'
    BY NextTypes DEF IInv
  <2>2. OwnContainers'
    <3>1. CASE RunLoop
      BY <3>1, DequeueOwns, MergeOwns, ClearLogsOwns, HaltOldOwns, RemoveOldOwns,
         CreateOwns, StartEndsOwns DEF RunLoop
    <3>2. CASE \E p \in Proc : Stopping(p)
      BY <3>2, StopHaltOwns, StopRemoveOwns, StopDecideOwns, StopWriteOwns, StopStoreOwns
         DEF Stopping
    <3>3. CASE \/ \E f \in Forgetter, t \in Task : ForgetRead(f, t)
               \/ \E f \in Forgetter : Forgetting(f)
      BY <3>3, ForgetReadOwns, ForgetDropOwns, ForgetDeleteOwns DEF Forgetting
    <3>4. CASE Updater
      BY <3>4, SnapshotOwns, InspectOwns, MarkOwns, CaptureOwns, TimeoutHaltOwns,
         TimeoutRemoveOwns, TimeoutStoreOwns, TimeoutMarkOwns DEF Updater
    <3>5. CASE UNCHANGED vars
      BY <3>5 DEF vars, IInv, OwnContainers, RecordsOwn, EventsOwn, JobsOwn, UpdaterOwns, Owns
    <3>. QED
      BY <3>1, <3>2, <3>3, <3>4, <3>5, AddStartOwns, AddStopOwns, EnqueueOwns, GetTasksOwns,
         ContainerChangesOwns, CrashOwns DEF Next
  <2>. QED
    BY <2>1, <2>2 DEF IInv
<1>3. IInv => OwnContainers
  BY DEF IInv
<1>. QED
  BY <1>1, <1>2, <1>3, PTL DEF Spec

-----------------------------------------------------------------------------
(* Requests that do not overlap: an accepted start is neither lost nor        *)
(* disturbed, and no container leaks.                                         *)

Starts(ev, t) == ev.task = t /\ ev.kind = "start"

RunnerOn(t) == job[Runner].pc # "idle" /\ job[Runner].ev.task = t

StartPcs == {"clear", "haltOld", "removeOld", "create", "fail", "commit"}
StopPcs  == {"halt", "remove", "decide", "write", "store"}

\* Where goroutines can be; tickets are handed out in order.
Shaped ==
    /\ job[Runner].pc \in {"idle", "merge"} \union StartPcs \union StopPcs
    /\ job[Runner].pc \in StartPcs => job[Runner].ev.kind = "start"
    /\ job[Runner].pc \in StopPcs => job[Runner].ev.kind = "stop"
    /\ \A f \in Forgetter : job[f].pc \in {"idle", "drop", "delete"} \union StopPcs
    /\ \A q \in queue : q.n < ticket

\* A start on its way to the run loop is the first of its task's requests,
\* whatever stops follow it, and excludes a forget.
Alone(t) ==
    /\ \A a \in Adder : Starts(adding[a], t) =>
           /\ ~RunnerOn(t)
           /\ \A b \in Adder : adding[b].task = t => b = a
           /\ \A q \in queue : q.ev.task # t
    /\ \A q \in queue : Starts(q.ev, t) =>
           /\ ~RunnerOn(t)
           /\ \A r \in queue : r.ev.task = t => r = q \/ q.n < r.n
    /\ StartPending(t) => ~ForgetPending(t)
    /\ db[t].state = "Scheduled" <=> StartPending(t)

Serial == TypeOK /\ Shaped /\ \A t \in Task : Alone(t)

-----------------------------------------------------------------------------
(* What becomes of a goroutine *)

Others(p) == \A q \in Proc : q # p => job'[q] = job[q]

LEMMA BecomeIs ==
    ASSUME TypeOK, NEW p \in Proc, NEW j, Become(p, j)
    PROVE  job'[p] = j /\ Others(p)
  BY DEF TypeOK, JobTypes, Become, Others

LEMMA GotoIs ==
    ASSUME TypeOK, NEW p \in Proc, job[p].pc # "idle", NEW pc, Goto(p, pc)
    PROVE  job'[p].pc = pc /\ job'[p].ev = job[p].ev /\ Others(p)
<1>1. PICK j : j = [job[p] EXCEPT !.pc = pc]
  OBVIOUS
<1>2. j.pc = pc /\ j.ev = job[p].ev
  BY <1>1, BusyJob DEF Job
<1>3. Become(p, j)
  BY <1>1 DEF Goto
<1> QED BY <1>2, <1>3, BecomeIs

LEMMA FinishIs ==
    ASSUME TypeOK, NEW p \in Proc, Finish(p)
    PROVE  job'[p].pc = "idle" /\ job'[p].ev = NoEvent /\ Others(p)
  BY BecomeIs DEF Finish, Idle

LEMMA GotoWithIs ==
    ASSUME TypeOK, job[Runner].pc # "idle", NEW pc, NEW c, GotoWith(pc, c)
    PROVE  /\ job'[Runner].pc = pc /\ job'[Runner].ev.cid = c /\ Others(Runner)
           /\ job'[Runner].ev.task = job[Runner].ev.task /\ job'[Runner].ev.kind = job[Runner].ev.kind
<1>1. PICK ev : ev = [job[Runner].ev EXCEPT !.cid = c]
  OBVIOUS
<1>2. ev.cid = c /\ ev.task = job[Runner].ev.task /\ ev.kind = job[Runner].ev.kind
  BY <1>1, BusyJob, Types DEF Event
<1>3. PICK j : j = [job[Runner] EXCEPT !.pc = pc, !.ev = ev]
  OBVIOUS
<1>4. j.pc = pc /\ j.ev = ev
  BY <1>3, BusyJob, Types DEF Job
<1>5. Become(Runner, j)
  BY <1>1, <1>3 DEF GotoWith
<1> QED BY <1>2, <1>4, <1>5, BecomeIs, Types

LEMMA Runners ==
    /\ Runner \in Proc /\ Runner \notin Forgetter
    /\ \A p \in Proc : p = Runner \/ p \in Forgetter
    /\ \A f \in Forgetter : f \in Proc
  BY WorkerAssumption DEF Proc

-----------------------------------------------------------------------------
(* Steps that bring no request for a task *)

LEMMA FewerAlone ==
    ASSUME NEW t \in Task, Alone(t),
           \A a \in Adder : adding'[a].task = t => adding'[a] = adding[a],
           \A q \in queue' : q.ev.task = t => q \in queue,
           RunnerOn(t)' => RunnerOn(t),
           ForgetPending(t)' => ForgetPending(t),
           StartPending(t)' => StartPending(t),
           db'[t].state = "Scheduled" <=> StartPending(t)'
    PROVE  Alone(t)'
<1>1. ASSUME NEW a \in Adder, Starts(adding'[a], t)
      PROVE  /\ ~RunnerOn(t)'
             /\ \A b \in Adder : adding'[b].task = t => b = a
             /\ \A q \in queue' : q.ev.task # t
  <2>1. Starts(adding[a], t)
    BY <1>1 DEF Starts
  <2> QED BY <2>1 DEF Alone
<1>2. ASSUME NEW q \in queue', Starts(q.ev, t)
      PROVE  /\ ~RunnerOn(t)'
             /\ \A r \in queue' : r.ev.task = t => r = q \/ q.n < r.n
  <2>1. q \in queue
    BY <1>2 DEF Starts
  <2> QED BY <1>2, <2>1 DEF Alone
<1>3. StartPending(t)' => ~ForgetPending(t)'
  BY DEF Alone
<1> QED BY <1>1, <1>2, <1>3 DEF Alone, Starts

\* A step of a goroutine that goes on with its request: what is pending stays so.
LEMMA SamePending ==
    ASSUME NEW p \in Proc, Others(p), job[p].pc # "idle", job'[p].pc # "idle",
           job'[p].ev.task = job[p].ev.task, job'[p].ev.kind = job[p].ev.kind, adding' = adding, NEW t,
           \A q : q.ev.task = t => (q \in queue' <=> q \in queue)
    PROVE  /\ RunnerOn(t)' <=> RunnerOn(t)
           /\ ForgetPending(t)' <=> ForgetPending(t)
           /\ StartPending(t)' <=> StartPending(t)
<1>1. CASE p = Runner
  <2>1. \A f \in Forgetter : job'[f] = job[f]
    BY <1>1, Runners DEF Others
  <2> QED BY <1>1, <2>1 DEF RunnerOn, ForgetPending, StartPending
<1>2. CASE p \in Forgetter
  <2>1. job'[Runner] = job[Runner] /\ \A f \in Forgetter : job'[f].ev.task = job[f].ev.task
    BY <1>2, Runners DEF Others
  <2> QED BY <2>1 DEF RunnerOn, ForgetPending, StartPending
<1> QED BY <1>1, <1>2, Runners

\* One that ends: its start is no longer pending.
LEMMA EndPending ==
    ASSUME NEW p \in Proc, Others(p), job'[p].pc = "idle", job'[p].ev = NoEvent,
           UNCHANGED <<adding, queue>>, NEW t \in Task
    PROVE  /\ RunnerOn(t)' => RunnerOn(t)
           /\ ForgetPending(t)' => ForgetPending(t)
           /\ StartPending(t)' => StartPending(t)
           /\ ~(p = Runner /\ job[p].pc # "idle" /\ Starts(job[p].ev, t)) => (StartPending(t)' <=> StartPending(t))
<1>1. NoEvent.task # t
  BY WorkerAssumption DEF NoEvent
<1>2. CASE p = Runner
  <2>1. \A f \in Forgetter : job'[f] = job[f]
    BY <1>2, Runners DEF Others
  <2> QED BY <1>2, <2>1 DEF RunnerOn, ForgetPending, StartPending, Starts
<1>3. CASE p \in Forgetter
  <2>1. job'[Runner] = job[Runner] /\ \A f \in Forgetter : job'[f] = job[f] \/ job'[f].ev = NoEvent
    BY <1>3, Runners DEF Others
  <2> QED BY <1>1, <1>3, <2>1, Runners DEF RunnerOn, ForgetPending, StartPending
<1> QED BY <1>2, <1>3, Runners

\* Both, with the records they leave.
LEMMA GoesOn ==
    ASSUME Serial, TypeOK', NEW p \in Proc, Others(p), job[p].pc # "idle", job'[p].pc # "idle",
           job'[p].ev.task = job[p].ev.task, job'[p].ev.kind = job[p].ev.kind, UNCHANGED <<adding, queue, ticket>>,
           \A t \in Task : db'[t].state = "Scheduled" <=> db[t].state = "Scheduled",
           p = Runner => \/ job'[p].pc \in StartPcs /\ job[p].ev.kind = "start"
                         \/ job'[p].pc \in StopPcs /\ job[p].ev.kind = "stop",
           p # Runner => job'[p].pc \in {"delete"} \union StopPcs
    PROVE  Serial'
<1>1. ASSUME NEW t \in Task
      PROVE  Alone(t)'
  <2>1. /\ RunnerOn(t)' <=> RunnerOn(t)
        /\ ForgetPending(t)' <=> ForgetPending(t)
        /\ StartPending(t)' <=> StartPending(t)
    BY SamePending
  <2> QED BY <2>1, FewerAlone DEF Serial, Alone
<1>2. Shaped'
  BY Runners DEF Serial, Shaped, Others, StartPcs, StopPcs
<1> QED BY <1>1, <1>2 DEF Serial

LEMMA GoesHome ==
    ASSUME Serial, TypeOK', NEW p \in Proc, Finish(p), UNCHANGED <<adding, queue, ticket>>,
           \A t \in Task : db'[t].state = "Scheduled" <=> StartPending(t)'
    PROVE  Serial'
<1>1. job'[p].pc = "idle" /\ job'[p].ev = NoEvent /\ Others(p)
  BY FinishIs DEF Serial
<1>2. ASSUME NEW t \in Task
      PROVE  Alone(t)'
  <2>1. /\ RunnerOn(t)' => RunnerOn(t)
        /\ ForgetPending(t)' => ForgetPending(t)
        /\ StartPending(t)' => StartPending(t)
    BY <1>1, EndPending
  <2> QED BY <2>1, FewerAlone DEF Serial
<1>3. Shaped'
  BY <1>1, Runners DEF Serial, Shaped, Others, StartPcs, StopPcs
<1> QED BY <1>2, <1>3 DEF Serial

\* A step that leaves requests alone.
LEMMA Untouched ==
    ASSUME Serial, TypeOK', UNCHANGED <<adding, queue, ticket, job>>,
           \A t \in Task : db'[t].state = "Scheduled" <=> db[t].state = "Scheduled"
    PROVE  Serial'
<1>1. ASSUME NEW t \in Task
      PROVE  Alone(t)'
  <2>1. /\ RunnerOn(t)' <=> RunnerOn(t)
        /\ ForgetPending(t)' <=> ForgetPending(t)
        /\ StartPending(t)' <=> StartPending(t)
    BY DEF RunnerOn, ForgetPending, StartPending
  <2> QED BY <2>1, FewerAlone DEF Serial, Alone
<1>2. Shaped'
  BY DEF Serial, Shaped
<1> QED BY <1>1, <1>2 DEF Serial

-----------------------------------------------------------------------------
(* Requests arrive and are queued *)

LEMMA AddStartSerial ==
    ASSUME Serial, TypeOK', ~Overlap, NEW a \in Adder, NEW t \in Task, NEW cid \in Cid0,
           NEW again \in BOOLEAN, AddStart(a, t, cid, again)
    PROVE  Serial'
<1>1. PICK ev : /\ ev = [task |-> t, kind |-> "start", cid |-> Scheduled(t, cid).cid,
                         again |-> again, why |-> FALSE]
                /\ adding' = [adding EXCEPT ![a] = ev]
  BY Zenon DEF AddStart
<1>2. /\ adding'[a].task = t /\ adding'[a].kind = "start"
      /\ \A b \in Adder : b # a => adding'[b] = adding[b]
  BY <1>1 DEF Serial, TypeOK
<1>3. adding[a].task \notin Task
  BY WorkerAssumption DEF AddStart, NoEvent
<1>4. UNCHANGED <<queue, ticket, job>>
  BY DEF AddStart
<1>5. ~StartPending(t) /\ ~StopPending(t) /\ ~ForgetPending(t)
  BY DEF AddStart, MaySendStart
<1>6. \A u \in Task : db'[u].state = IF u = t THEN "Scheduled" ELSE db[u].state
  BY DEF AddStart, Scheduled, Serial, TypeOK
<1>7. Shaped'
  BY <1>4 DEF Serial, Shaped
<1>8. Alone(t)'
  <2>1. /\ \A b \in Adder : adding[b].task # t
        /\ \A q \in queue : q.ev.task # t
        /\ ~RunnerOn(t)
    <3>1. \A b \in Adder : adding[b].task = t => adding[b].kind \in {"start", "stop"}
      BY DEF Serial, TypeOK, Event, NoEvent
    <3>2. \A q \in queue : q.ev.kind \in {"start", "stop"}
      BY DEF Serial, TypeOK, Event
    <3>3. job[Runner].pc # "idle" => job[Runner].ev.kind \in {"start", "stop"}
      BY BusyJob, Types DEF Serial, Event
    <3> QED BY <1>5, <3>1, <3>2, <3>3 DEF StartPending, StopPending, RunnerOn
  <2>2. ~RunnerOn(t)' /\ ~ForgetPending(t)' /\ StartPending(t)'
    BY <2>1, <1>2, <1>4, <1>5 DEF RunnerOn, ForgetPending, StartPending
  <2> QED BY <1>2, <1>4, <1>6, <2>1, <2>2 DEF Alone, Starts
<1>9. ASSUME NEW u \in Task, u # t
      PROVE  Alone(u)'
  <2>1. /\ RunnerOn(u)' <=> RunnerOn(u)
        /\ ForgetPending(u)' <=> ForgetPending(u)
        /\ StartPending(u)' <=> StartPending(u)
    BY <1>2, <1>3, <1>4, <1>9 DEF RunnerOn, ForgetPending, StartPending
  <2>2. \A b \in Adder : adding'[b].task = u => adding'[b] = adding[b]
    BY <1>2, <1>9
  <2> QED BY <1>4, <1>6, <1>9, <2>1, <2>2, FewerAlone DEF Serial, Alone
<1> QED BY <1>7, <1>8, <1>9 DEF Serial

LEMMA AddStopSerial ==
    ASSUME Serial, TypeOK', ~Overlap, NEW a \in Adder, NEW t \in Task, NEW why \in BOOLEAN,
           AddStop(a, t, why)
    PROVE  Serial'
<1>1. PICK ev : /\ ev = [task |-> t, kind |-> "stop", cid |-> reported[t],
                         again |-> FALSE, why |-> why]
                /\ adding' = [adding EXCEPT ![a] = ev]
  BY Zenon DEF AddStop
<1>2. /\ adding'[a].task = t /\ adding'[a].kind = "stop"
      /\ \A b \in Adder : b # a => adding'[b] = adding[b]
  BY <1>1 DEF Serial, TypeOK
<1>3. adding[a].task \notin Task
  BY WorkerAssumption DEF AddStop, NoEvent
<1>4. UNCHANGED <<db, queue, ticket, job>>
  BY DEF AddStop
<1>5. \A b \in Adder : adding[b].task # t
  BY DEF AddStop, MaySendStop
<1>6. Shaped'
  BY <1>4 DEF Serial, Shaped
<1>7. ASSUME NEW u \in Task
      PROVE  Alone(u)'
  <2>1. /\ RunnerOn(u)' <=> RunnerOn(u)
        /\ ForgetPending(u)' <=> ForgetPending(u)
        /\ StartPending(u)' <=> StartPending(u)
    BY <1>2, <1>3, <1>4 DEF RunnerOn, ForgetPending, StartPending
  <2>2. ASSUME NEW b \in Adder, Starts(adding'[b], u)
        PROVE  /\ ~RunnerOn(u)'
               /\ \A c \in Adder : adding'[c].task = u => c = b
               /\ \A q \in queue' : q.ev.task # u
    <3>1. b # a /\ Starts(adding[b], u) /\ u # t
      BY <1>2, <1>5, <2>2 DEF Starts
    <3> QED BY <1>2, <1>4, <2>1, <3>1 DEF Serial, Alone
  <2> QED BY <1>4, <2>1, <2>2 DEF Serial, Alone
<1> QED BY <1>6, <1>7 DEF Serial

LEMMA EnqueueSerial ==
    ASSUME Serial, TypeOK', NEW a \in Adder, Enqueue(a)
    PROVE  Serial'
<1>1. PICK q : /\ q = [n |-> ticket, ev |-> adding[a]]
               /\ queue' = queue \union {q}
  BY Zenon DEF Enqueue, Enqueued
<1>2. q.n = ticket /\ q.ev = adding[a] /\ adding[a] \in Event
  BY <1>1 DEF Serial, TypeOK, Enqueue
<1>3. adding'[a] = NoEvent /\ \A b \in Adder : b # a => adding'[b] = adding[b]
  BY DEF Enqueue, Serial, TypeOK
<1>4. UNCHANGED <<db, job>> /\ ticket' = ticket + 1
  BY DEF Enqueue
<1>5. ticket \in Nat /\ \A r \in queue : r.n \in Nat /\ r.n < ticket
  BY DEF Serial, Shaped, TypeOK
<1>6. Shaped'
  <2>1. \A r \in queue' : r.n < ticket'
    BY <1>1, <1>2, <1>4, <1>5
  <2> QED BY <1>4, <2>1 DEF Serial, Shaped
<1>7. ASSUME NEW u \in Task
      PROVE  Alone(u)'
  <2>0. NoEvent.task # u
    BY WorkerAssumption DEF NoEvent
  <2>1. /\ RunnerOn(u)' <=> RunnerOn(u)
        /\ ForgetPending(u)' <=> ForgetPending(u)
    BY <1>4 DEF RunnerOn, ForgetPending
  <2>2. StartPending(u)' <=> StartPending(u)
    <3>1. ASSUME StartPending(u)
          PROVE  StartPending(u)'
      BY <1>1, <1>2, <1>3, <1>4, <3>1 DEF StartPending
    <3>2. ASSUME StartPending(u)'
          PROVE  StartPending(u)
      BY <1>1, <1>2, <1>3, <1>4, <2>0, <3>2 DEF StartPending
    <3> QED BY <3>1, <3>2
  <2>3. ASSUME NEW b \in Adder, Starts(adding'[b], u)
        PROVE  /\ ~RunnerOn(u)'
               /\ \A c \in Adder : adding'[c].task = u => c = b
               /\ \A r \in queue' : r.ev.task # u
    <3>1. b # a /\ Starts(adding[b], u)
      BY <1>3, <2>0, <2>3 DEF Starts
    <3>2. adding[a].task # u
      BY <3>1 DEF Serial, Alone
    <3> QED BY <1>1, <1>2, <1>3, <2>0, <2>1, <3>1, <3>2 DEF Serial, Alone
  <2>4. ASSUME NEW r \in queue', Starts(r.ev, u)
        PROVE  /\ ~RunnerOn(u)'
               /\ \A s \in queue' : s.ev.task = u => s = r \/ r.n < s.n
    <3>1. CASE r \in queue
      BY <1>1, <1>2, <1>5, <2>1, <2>4, <3>1 DEF Serial, Alone
    <3>2. CASE r = q
      <4>1. Starts(adding[a], u)
        BY <1>2, <2>4, <3>2
      <4>2. ~RunnerOn(u) /\ \A s \in queue : s.ev.task # u
        BY <4>1 DEF Serial, Alone
      <4> QED BY <1>1, <2>1, <3>2, <4>2
    <3> QED BY <1>1, <3>1, <3>2
  <2> QED BY <1>4, <2>1, <2>2, <2>3, <2>4 DEF Serial, Alone
<1> QED BY <1>6, <1>7 DEF Serial

-----------------------------------------------------------------------------
(* The run loop *)

LEMMA DequeueSerial == ASSUME Serial, TypeOK', Dequeue PROVE Serial'
<1>1. PICK q \in queue :
         /\ QueueHead(q)
         /\ queue' = queue \ {q}
         /\ Become(Runner, [Idle EXCEPT !.pc = "merge", !.ev = q.ev])
  BY DEF Dequeue
<1>2. PICK j : j = [Idle EXCEPT !.pc = "merge", !.ev = q.ev]
  OBVIOUS
<1>3. j.pc = "merge" /\ j.ev = q.ev
  BY <1>2 DEF Idle
<1>4. job'[Runner].pc = "merge" /\ job'[Runner].ev = q.ev /\ Others(Runner)
  BY <1>1, <1>2, <1>3, BecomeIs, Types DEF Serial
<1>5. UNCHANGED <<db, ticket, adding>> /\ job[Runner].pc = "idle"
  BY DEF Dequeue
<1>6. \A r \in queue : q.n <= r.n /\ q.n \in Nat /\ r.n \in Nat
  BY <1>1 DEF QueueHead, Serial, TypeOK
<1>7. Shaped'
  BY <1>1, <1>4, <1>5, Runners DEF Serial, Shaped, Others, StartPcs, StopPcs
<1>8. ASSUME NEW u \in Task
      PROVE  Alone(u)'
  <2>1. \A f \in Forgetter : job'[f] = job[f]
    BY <1>4, Runners DEF Others
  <2>2. ForgetPending(u)' <=> ForgetPending(u)
    BY <2>1 DEF ForgetPending
  <2>3. StartPending(u)' <=> StartPending(u)
    BY <1>1, <1>4, <1>5 DEF StartPending
  <2>4. RunnerOn(u)' <=> q.ev.task = u
    BY <1>4 DEF RunnerOn
  <2>5. ASSUME NEW b \in Adder, Starts(adding'[b], u)
        PROVE  /\ ~RunnerOn(u)'
               /\ \A c \in Adder : adding'[c].task = u => c = b
               /\ \A r \in queue' : r.ev.task # u
    BY <1>1, <1>5, <2>4, <2>5 DEF Serial, Alone
  <2>6. ASSUME NEW r \in queue', Starts(r.ev, u)
        PROVE  /\ ~RunnerOn(u)'
               /\ \A s \in queue' : s.ev.task = u => s = r \/ r.n < s.n
    <3>1. r \in queue /\ r # q
      BY <1>1
    <3>2. \A s \in queue : s.ev.task = u => s = r \/ r.n < s.n
      BY <2>6, <3>1 DEF Serial, Alone
    <3>3. q.ev.task # u
      BY <1>6, <3>1, <3>2
    <3> QED BY <1>1, <2>4, <3>2, <3>3
  <2> QED BY <1>5, <2>2, <2>3, <2>5, <2>6 DEF Serial, Alone
<1> QED BY <1>7, <1>8 DEF Serial

\* An event whose turn has come: a start finds its record Scheduled.
LEMMA MergeFinds ==
    ASSUME Serial, Merge
    PROVE  /\ job[Runner].ev \in Event /\ job[Runner].ev.task \in Task /\ job[Runner] \in Job
           /\ job[Runner].ev.kind = "start" => db[job[Runner].ev.task].state = "Scheduled"
           /\ Recorded(job[Runner].ev) = db[job[Runner].ev.task]
           /\ db' = db
<1> DEFINE ev == job[Runner].ev
<1>1. ev \in Event /\ ev.task \in Task /\ job[Runner] \in Job
  BY BusyJob, Types DEF Merge, Serial
<1>2. ev.kind = "start" => db[ev.task].state = "Scheduled"
  BY <1>1 DEF Serial, Alone, StartPending, Merge
<1>3. Recorded(ev) = db[ev.task]
  BY <1>1, <1>2 DEF Recorded, Known, Event
<1>4. db' = [db EXCEPT ![ev.task] = Recorded(ev)]
  BY Zenon DEF Merge
<1>5. db' = db
  BY <1>1, <1>3, <1>4 DEF Serial, TypeOK
<1> QED BY <1>1, <1>2, <1>3, <1>5

LEMMA MergeSerial == ASSUME Serial, TypeOK', Merge PROVE Serial'
<1> DEFINE ev == job[Runner].ev
<1>1. PICK rec, run :
         /\ rec = Recorded(ev)
         /\ run = [ev EXCEPT !.cid = MergedCid(ev, rec)]
         /\ IF ValidStateTransition(rec.state, Wanted(ev))
            THEN Become(Runner, [job[Runner] EXCEPT !.pc = FirstStep(run), !.ev = run])
            ELSE Finish(Runner)
  BY Zenon DEF Merge
<1>2. ev \in Event /\ ev.task \in Task /\ job[Runner] \in Job
  BY MergeFinds
<1>3. job[Runner].pc = "merge" /\ UNCHANGED <<adding, queue, ticket>>
  BY DEF Merge
<1>4. ev.kind = "start" => db[ev.task].state = "Scheduled"
  BY MergeFinds
<1>5. rec = db[ev.task]
  BY <1>1, MergeFinds
<1>6. db' = db
  BY MergeFinds
<1>7. CASE ValidStateTransition(rec.state, Wanted(ev))
  <2>1. run.task = ev.task /\ run.kind = ev.kind
    BY <1>1, <1>2 DEF Event
  <2>2. PICK j : j = [job[Runner] EXCEPT !.pc = FirstStep(run), !.ev = run]
    OBVIOUS
  <2>3. j.pc = FirstStep(run) /\ j.ev = run
    BY <1>2, <2>2 DEF Job
  <2>4. job'[Runner].pc = FirstStep(run) /\ job'[Runner].ev = run /\ Others(Runner)
    BY <1>1, <1>7, <2>2, <2>3, BecomeIs, Types DEF Serial
  <2>5. /\ ev.kind = "stop" => FirstStep(run) \in StopPcs
        /\ ev.kind = "start" => FirstStep(run) \in StartPcs
    BY <2>1 DEF FirstStep, StopPcs, StartPcs
  <2>6. job'[Runner].pc # "idle"
    BY <2>4, <2>1 DEF FirstStep
  <2>7. ev.kind \in {"start", "stop"}
    BY <1>2 DEF Event
  <2> QED BY <1>3, <1>6, <2>1, <2>4, <2>5, <2>6, <2>7, GoesOn, Types
<1>8. CASE ~ValidStateTransition(rec.state, Wanted(ev))
  <2>1. ev.kind = "stop"
    BY <1>2, <1>4, <1>5, <1>8 DEF Event, Wanted, ValidStateTransition, Successors
  <2>2. Finish(Runner)
    BY <1>1, <1>8
  <2>3. \A t \in Task : StartPending(t)' <=> StartPending(t)
    BY <1>3, <2>1, <2>2, FinishIs, EndPending, Types DEF Serial, Starts
  <2>4. \A t \in Task : db'[t].state = "Scheduled" <=> StartPending(t)'
    BY <1>6, <2>3 DEF Serial, Alone
  <2> QED BY <1>3, <2>2, <2>4, GoesHome, Types
<1> QED BY <1>7, <1>8

\* The steps of a start before its end.
LEMMA StartingSerial ==
    ASSUME Serial, TypeOK', ClearLogs \/ HaltOld \/ RemoveOld \/ Create
    PROVE  Serial'
<1>1. /\ job[Runner].pc \in {"clear", "haltOld", "removeOld", "create"}
      /\ UNCHANGED <<db, adding, queue, ticket>>
  BY DEF ClearLogs, HaltOld, RemoveOld, Create
<1>2. /\ Others(Runner) /\ job'[Runner].pc \in StartPcs
      /\ job'[Runner].ev.task = job[Runner].ev.task
      /\ job'[Runner].ev.kind = job[Runner].ev.kind
  <2>1. \/ \E pc \in StartPcs : Goto(Runner, pc)
        \/ \E pc \in StartPcs : \E c : GotoWith(pc, c)
    BY DEF ClearLogs, HaltOld, RemoveOld, Create, StartPcs
  <2>2. CASE \E pc \in StartPcs : Goto(Runner, pc)
    BY <1>1, <2>2, GotoIs, Types DEF Serial
  <2>3. CASE \E pc \in StartPcs : \E c : GotoWith(pc, c)
    BY <1>1, <2>3, GotoWithIs DEF Serial
  <2> QED BY <2>1, <2>2, <2>3
<1>3. job[Runner].ev.kind = "start"
  BY <1>1 DEF Serial, Shaped, StartPcs
<1>4. job'[Runner].pc # "idle" /\ job[Runner].pc # "idle"
  BY <1>1, <1>2 DEF StartPcs
<1> QED BY <1>1, <1>2, <1>3, <1>4, GoesOn, Types

\* A start that ends takes its record out of Scheduled.
LEMMA StartEndsSerial == ASSUME Serial, TypeOK', StartFailed \/ StartCommit PROVE Serial'
<1>0. PICK t : t = job[Runner].ev.task
  OBVIOUS
<1>1. /\ job[Runner].pc \in {"fail", "commit"}
      /\ UNCHANGED <<adding, queue, ticket>> /\ Finish(Runner)
      /\ \E s \in {"Failed", "Running"} : db' = Stored(t, s, job[Runner].ev.cid, FALSE)
  BY <1>0 DEF StartFailed, StartCommit
<1>2. t \in Task
  BY <1>0, <1>1, BusyJob, Types DEF Serial
<1>3. \A u \in Task : IF u = t THEN db'[u].state \in {"Failed", "Running"} ELSE db'[u] = db[u]
  BY <1>1, <1>2 DEF Serial, TypeOK, Stored
<1>4. /\ job'[Runner].pc = "idle" /\ job'[Runner].ev = NoEvent /\ Others(Runner)
  BY <1>1, FinishIs, Types DEF Serial
<1>5. ~StartPending(t)'
  <2>1. RunnerOn(t)
    BY <1>0, <1>1 DEF RunnerOn
  <2>2. /\ \A a \in Adder : ~Starts(adding[a], t)
        /\ \A q \in queue : ~Starts(q.ev, t)
    BY <1>2, <2>1 DEF Serial, Alone
  <2> QED BY <1>1, <1>4, <2>2 DEF StartPending, Starts
<1>6. ASSUME NEW u \in Task, u # t
      PROVE  StartPending(u)' <=> StartPending(u)
  BY <1>0, <1>1, <1>4, <1>6, EndPending, Types DEF Starts
<1>7. \A u \in Task : db'[u].state = "Scheduled" <=> StartPending(u)'
  BY <1>3, <1>5, <1>6 DEF Serial, Alone
<1> QED BY <1>1, <1>7, GoesHome, Types

-----------------------------------------------------------------------------
(* Stops and forgets *)

\* While a stop or a forget of a task is carried out no start of it is pending.
LEMMA NoStartBeside ==
    ASSUME Serial, NEW p \in Proc, job[p].pc # "idle",
           p = Runner => job[p].ev.kind = "stop"
    PROVE  ~StartPending(job[p].ev.task)
<1>1. PICK t \in Task : t = job[p].ev.task
  BY BusyJob DEF Serial
<1>2. CASE p = Runner
  <2>1. RunnerOn(t)
    BY <1>1, <1>2 DEF RunnerOn
  <2>2. /\ \A a \in Adder : ~Starts(adding[a], t)
        /\ \A q \in queue : ~Starts(q.ev, t)
    BY <2>1 DEF Serial, Alone
  <2> QED BY <1>1, <1>2, <2>2 DEF StartPending, Starts
<1>3. CASE p \in Forgetter
  <2>1. ForgetPending(t)
    BY <1>1, <1>3 DEF ForgetPending
  <2> QED BY <1>1, <2>1 DEF Serial, Alone
<1> QED BY <1>2, <1>3, Runners

\* Where a stop goes.
LEMMA StoppingIs ==
    ASSUME TypeOK, NEW p \in Proc, Stopping(p)
    PROVE  /\ job[p].pc \in StopPcs /\ job[p].pc # "idle" /\ job[p].ev.task \in Task
           /\ UNCHANGED <<adding, queue>>
           /\ Others(p) /\ job'[p].pc # "merge"
           /\ \/ Finish(p)
              \/ job'[p].pc \in StopPcs \/ (p # Runner /\ job'[p].pc = "delete")
           /\ job'[p].pc # "idle" => job'[p].ev = job[p].ev
           /\ \A u \in Task : u # job[p].ev.task => db'[u] = db[u]
<1>1. /\ job[p].pc \in StopPcs
      /\ UNCHANGED <<adding, queue>>
  BY DEF Stopping, StopHalt, StopRemove, StopDecide, StopWrite, StopStore, StopPcs
<1>2. job[p] \in Job /\ job[p].ev.task \in Task /\ job[p].pc # "idle"
  BY <1>1, BusyJob DEF StopPcs
<1>3. \A u \in Task : u # job[p].ev.task => db'[u] = db[u]
  BY <1>2 DEF Stopping, StopHalt, StopRemove, StopDecide, StopWrite, StopStore, Stored, TypeOK
<1>4. \/ Finish(p)
      \/ Goto(p, "store") \/ (p # Runner /\ Goto(p, "delete"))
      \/ \E j \in Job : j.ev = job[p].ev /\ j.pc \in {"remove", "decide", "write"} /\ Become(p, j)
  <2>1. CASE StopHalt(p)
    <3>1. PICK j : \E lg \in LogVal : j = [job[p] EXCEPT !.pc = "remove", !.log = lg] /\ Become(p, j)
      BY <1>2, <2>1, BusyJob, DockerTypes DEF StopHalt
    <3>2. j \in Job /\ j.pc = "remove" /\ j.ev = job[p].ev
      BY <1>2, <3>1 DEF Job, Pc
    <3> QED BY <3>1, <3>2
  <2>2. CASE StopRemove(p)
    <3>1. PICK j : \E r \in Result : j = [job[p] EXCEPT !.pc = "decide", !.res = r] /\ Become(p, j)
      BY <1>2, <2>2, BusyJob, DockerTypes DEF StopRemove
    <3>2. j \in Job /\ j.pc = "decide" /\ j.ev = job[p].ev
      BY <1>2, <3>1 DEF Job, Pc
    <3> QED BY <3>1, <3>2
  <2>3. CASE StopDecide(p) /\ ~Finish(p)
    <3>1. PICK j :
             \E o \in {"Completed", "Failed"} : j = [job[p] EXCEPT !.pc = "write", !.out = o] /\ Become(p, j)
      BY <2>3 DEF StopDecide, StopOutcome
    <3>2. j \in Job /\ j.pc = "write" /\ j.ev = job[p].ev
      BY <1>2, <3>1 DEF Job, Pc
    <3> QED BY <3>1, <3>2
  <2>4. CASE StopWrite(p) \/ StopStore(p)
    BY <2>4 DEF StopWrite, StopStore
  <2> QED BY <2>1, <2>2, <2>3, <2>4 DEF Stopping
<1>5. /\ Others(p) /\ job'[p].pc # "merge" /\ (job'[p].pc # "idle" => job'[p].ev = job[p].ev)
      /\ \/ Finish(p)
         \/ job'[p].pc \in StopPcs \/ (p # Runner /\ job'[p].pc = "delete")
  <2>1. CASE Finish(p)
    BY <2>1, FinishIs
  <2>2. CASE Goto(p, "store") \/ (p # Runner /\ Goto(p, "delete"))
    BY <1>2, <2>2, GotoIs DEF StopPcs
  <2>3. CASE \E j \in Job : j.ev = job[p].ev /\ j.pc \in {"remove", "decide", "write"} /\ Become(p, j)
    BY <2>3, BecomeIs DEF StopPcs
  <2> QED BY <1>4, <2>1, <2>2, <2>3
<1> QED BY <1>1, <1>2, <1>3, <1>5

LEMMA StoppingSerial ==
    ASSUME Serial, TypeOK', NEW p \in Proc, Stopping(p)
    PROVE  Serial'
<1> USE DEF Serial
<1>1. /\ job[p].pc \in StopPcs
      /\ UNCHANGED <<adding, queue, ticket>>
  BY DEF Stopping, StopHalt, StopRemove, StopDecide, StopWrite, StopStore, StopPcs
<1>2. job[p] \in Job /\ job[p].ev.task \in Task /\ job[p].pc # "idle"
  BY <1>1, BusyJob DEF StopPcs
<1>3. p = Runner => job[p].ev.kind = "stop"
  BY <1>1 DEF Shaped
<1>4. ~StartPending(job[p].ev.task)
  BY <1>2, <1>3, NoStartBeside
<1>5. db[job[p].ev.task].state # "Scheduled"
  BY <1>2, <1>4 DEF Alone
<1>6. \A t \in Task : db'[t].state = "Scheduled" <=> db[t].state = "Scheduled"
  <2>1. CASE db' = db
    BY <2>1
  <2>2. CASE StopWrite(p)
    <3>1. job[p].out \in {"Completed", "Failed"}
      BY <1>2 DEF Job
    <3> QED BY <1>2, <1>5, <2>2, <3>1 DEF StopWrite, Stored, TypeOK
  <2> QED BY <2>1, <2>2 DEF Stopping, StopHalt, StopRemove, StopDecide, StopStore
<1>7. CASE Finish(p)
  <2>1. \A t \in Task : StartPending(t)' <=> StartPending(t)
    BY <1>1, <1>3, <1>7, FinishIs, EndPending DEF Starts
  <2> QED BY <1>1, <1>6, <1>7, <2>1, GoesHome DEF Alone
<1>8. CASE ~Finish(p)
  <2>1. /\ Others(p) /\ job'[p].pc # "idle" /\ job'[p].ev = job[p].ev
        /\ job'[p].pc \in StopPcs \/ (p # Runner /\ job'[p].pc = "delete")
    BY <1>8, StoppingIs DEF StopPcs
  <2> QED BY <1>1, <1>2, <1>3, <1>6, <2>1, GoesOn
<1> QED BY <1>7, <1>8

LEMMA ForgetReadSerial ==
    ASSUME Serial, TypeOK', ~Overlap, NEW f \in Forgetter, NEW t \in Task, ForgetRead(f, t)
    PROVE  Serial'
<1> USE DEF Serial
<1>1. PICK j : j = [Idle EXCEPT !.pc = "drop", !.ev = ForgetEvent(t)] /\ Become(f, j)
  BY DEF ForgetRead
<1>2. j.pc = "drop" /\ j.ev.task = t
  BY <1>1 DEF Idle, ForgetEvent
<1>3. job'[f].pc = "drop" /\ job'[f].ev.task = t /\ Others(f)
  BY <1>1, <1>2, BecomeIs, Runners
<1>4. UNCHANGED <<db, adding, queue, ticket>>
  BY DEF ForgetRead
<1>5. ~StartPending(t)
  BY DEF ForgetRead, MaySendForget
<1>6. job'[Runner] = job[Runner]
  BY <1>3, Runners DEF Others
<1>7. Shaped'
  BY <1>3, <1>4, <1>6, Runners DEF Shaped, Others, StartPcs, StopPcs
<1>8. ASSUME NEW u \in Task
      PROVE  Alone(u)'
  <2>1. RunnerOn(u)' <=> RunnerOn(u)
    BY <1>6 DEF RunnerOn
  <2>2. StartPending(u)' <=> StartPending(u)
    BY <1>4, <1>6 DEF StartPending
  <2>3. u # t => (ForgetPending(u)' => ForgetPending(u))
    BY <1>3, Runners DEF ForgetPending, Others
  <2> QED BY <1>4, <1>5, <2>1, <2>2, <2>3 DEF Alone
<1> QED BY <1>7, <1>8

LEMMA ForgettingSerial ==
    ASSUME Serial, TypeOK', NEW f \in Forgetter, Forgetting(f)
    PROVE  Serial'
<1> USE DEF Serial
<1>1. /\ job[f].pc \in {"drop", "delete"} /\ f \in Proc /\ f # Runner
      /\ UNCHANGED <<adding, ticket>>
  BY Runners DEF Forgetting, ForgetDrop, ForgetDelete
<1>2. PICK t \in Task : t = job[f].ev.task
  BY <1>1, BusyJob
<1>3. ~StartPending(t)
  BY <1>1, <1>2, NoStartBeside
<1>4. CASE ForgetDrop(f)
  <2>1. /\ Others(f) /\ job'[f].ev = job[f].ev
        /\ job'[f].pc \in {"halt", "delete"}
    BY <1>1, <1>4, GotoIs DEF ForgetDrop
  <2>2. queue' = Without(t) /\ db' = db
    BY <1>2, <1>4 DEF ForgetDrop
  <2>3. queue' \subseteq queue
    BY <2>2 DEF Without
  <2>4. Shaped'
    BY <1>1, <2>1, <2>3, Runners DEF Shaped, Others, StartPcs, StopPcs
  <2>5. ASSUME NEW u \in Task, u # t
        PROVE  Alone(u)'
    <3>1. \A q : q.ev.task = u => (q \in queue' <=> q \in queue)
      BY <2>2, <2>5 DEF Without
    <3>2. /\ RunnerOn(u)' <=> RunnerOn(u)
          /\ ForgetPending(u)' <=> ForgetPending(u)
          /\ StartPending(u)' <=> StartPending(u)
      BY <1>1, <2>1, <3>1, SamePending
    <3> QED BY <1>1, <2>2, <2>3, <3>2, FewerAlone DEF Alone
  <2>6. Alone(t)'
    <3>1. job'[Runner] = job[Runner]
      BY <1>1, <2>1, Runners DEF Others
    <3>2. ~StartPending(t)'
      BY <1>1, <1>3, <2>3, <3>1 DEF StartPending
    <3>3. RunnerOn(t)' <=> RunnerOn(t)
      BY <3>1 DEF RunnerOn
    <3>4. ForgetPending(t)
      BY <1>2 DEF ForgetPending
    <3> QED BY <1>1, <1>3, <2>2, <2>3, <3>2, <3>3, <3>4, FewerAlone DEF Alone
  <2> QED BY <2>4, <2>5, <2>6
<1>5. CASE ForgetDelete(f)
  <2>1. Finish(f) /\ queue' = queue
    BY <1>5 DEF ForgetDelete
  <2>2. \A u \in Task : StartPending(u)' <=> StartPending(u)
    BY <1>1, <2>1, FinishIs, EndPending
  <2>3. db' = db \/ db' = [db EXCEPT ![t] = NoRecord]
    BY <1>2, <1>5 DEF ForgetDelete
  <2>4. db[t].state # "Scheduled"
    BY <1>3 DEF Alone
  <2>5. \A u \in Task : db'[u].state = "Scheduled" <=> db[u].state = "Scheduled"
    BY <2>3, <2>4 DEF TypeOK, NoRecord
  <2> QED BY <1>1, <2>1, <2>2, <2>5, GoesHome DEF Alone
<1> QED BY <1>4, <1>5 DEF Forgetting

-----------------------------------------------------------------------------
(* The updater touches Running records only *)

LEMMA UpdaterSerial == ASSUME Serial, TypeOK', Updater PROVE Serial'
<1>1. UNCHANGED <<adding, queue, ticket, job>>
  BY DEF Updater, Snapshot, Inspect, Mark, CaptureRead, CaptureStore,
         TimeoutHalt, TimeoutRemove, TimeoutStore, TimeoutMark
<1>2. CASE db' = db
  BY <1>1, <1>2, Untouched
<1>3. CASE Mark /\ db' # db
  <2>1. PICK t \in Task : db[t].state = "Running" /\ db' = [db EXCEPT ![t] = Inspected(db[t], upd.saw)]
    BY <1>3 DEF Mark, Serial, TypeOK
  <2>2. Inspected(db[t], upd.saw).state # "Scheduled"
    BY <2>1 DEF Inspected, Serial, TypeOK, Record
  <2>3. \A u \in Task : db'[u] = IF u = t THEN Inspected(db[t], upd.saw) ELSE db[u]
    BY <2>1 DEF Serial, TypeOK
  <2> QED BY <1>1, <2>1, <2>2, <2>3, Untouched
<1>4. CASE TimeoutMark
  <2>1. \A r \in Record : TimedOut(r).state = "Scheduled" <=> r.state = "Scheduled"
    BY DEF TimedOut, Record
  <2>2. PICK t \in Task : db' = [db EXCEPT ![t] = TimedOut(db[t])]
    BY <1>4 DEF TimeoutMark, Serial, TypeOK
  <2> QED BY <1>1, <2>1, <2>2, Untouched DEF Serial, TypeOK
<1> QED BY <1>2, <1>3, <1>4 DEF Updater, Snapshot, Inspect, CaptureRead, CaptureStore,
           TimeoutHalt, TimeoutRemove, TimeoutStore

-----------------------------------------------------------------------------
(* No accepted start is lost *)

SerialInv == TypeOK /\ (crashes = 0 => Shaped /\ \A t \in Task : Alone(t))

LEMMA SerialInit == Init => SerialInv
<1> SUFFICES ASSUME Init PROVE Shaped /\ \A t \in Task : Alone(t)
  BY InitTypes DEF SerialInv
<1>1. /\ \A p \in Proc : job[p].pc = "idle" /\ job[p].ev = NoEvent
      /\ \A a \in Adder : adding[a] = NoEvent
      /\ queue = {}
      /\ \A t \in Task : db[t].state = "Absent" /\ NoEvent.task # t
  BY WorkerAssumption DEF Init, Idle, NoRecord, NoEvent
<1>2. Shaped
  BY <1>1, Runners DEF Shaped, StartPcs, StopPcs
<1>3. ASSUME NEW t \in Task PROVE Alone(t)
  BY <1>1, Runners DEF Alone, Starts, RunnerOn, StartPending, ForgetPending
<1> QED BY <1>2, <1>3

\* Only a crash counts as one.
LEMMA StillUp ==
    ASSUME TypeOK, [Next]_vars, crashes' = 0
    PROVE  ~Crash /\ crashes = 0
<1>1. ~Crash
  BY WorkerAssumption DEF Crash, TypeOK
<1>2. crashes = 0
  BY <1>1 DEF Next, vars, AddStart, AddStop, Enqueue, GetTasks, RunLoop, Dequeue, Merge, ClearLogs,
     HaltOld, RemoveOld, Create, StartFailed, StartCommit, Stopping, StopHalt, StopRemove, StopDecide,
     StopWrite, StopStore, ForgetRead, Forgetting, ForgetDrop, ForgetDelete, Updater, Snapshot, Inspect,
     Mark, CaptureRead, CaptureStore, TimeoutHalt, TimeoutRemove, TimeoutStore, TimeoutMark, ContainerChanges
<1> QED BY <1>1, <1>2

LEMMA SerialNext ==
    ASSUME ~Overlap, SerialInv, [Next]_vars
    PROVE  SerialInv'
<1>0. TypeOK'
  BY NextTypes DEF SerialInv
<1> SUFFICES ASSUME crashes' = 0
             PROVE  Serial'
  BY <1>0 DEF SerialInv, Serial
<1>1. ~Crash /\ crashes = 0
  BY StillUp DEF SerialInv
<1>3. Serial
  BY <1>1 DEF SerialInv, Serial
<1>4. CASE UNCHANGED vars
  BY <1>0, <1>3, <1>4, Untouched DEF vars
<1>5. CASE RunLoop
  BY <1>0, <1>3, <1>5, DequeueSerial, MergeSerial, StartingSerial, StartEndsSerial DEF RunLoop
<1>6. CASE \E c \in Cid, s \in Exited \union {"Unhealthy"} : ContainerChanges(c, s)
  BY <1>0, <1>3, <1>6, Untouched DEF ContainerChanges
<1>7. ~GetTasks
  BY DEF GetTasks
<1> QED BY <1>0, <1>1, <1>3, <1>4, <1>5, <1>6, <1>7, AddStartSerial, AddStopSerial, EnqueueSerial,
           StoppingSerial, ForgetReadSerial, ForgettingSerial, UpdaterSerial DEF Next

\* When the manager sends the requests for a task one after the other, and
\* until the worker crashes, a record is Scheduled exactly while its start is
\* in AddTask, in the queue or in the run loop: no interleaving of the handlers,
\* the run loop, the updater and a timeout loses an accepted start or leaves a
\* record Scheduled that nobody will start, whatever docker answers.
THEOREM StartsNotLost == ASSUME ~Overlap PROVE Spec => []ScheduledIffStarting
<1>1. SerialInv /\ [Next]_vars => SerialInv'
  BY SerialNext
<1>2. SerialInv => ScheduledIffStarting
  BY DEF SerialInv, Alone, ScheduledIffStarting
<1> QED BY <1>1, <1>2, SerialInit, PTL DEF Spec

-----------------------------------------------------------------------------
(* The containers of a task that are up *)

Up(t) == {c \in Cid : docker[c].task = t /\ docker[c].status \in Live}

\* A start under way names the recorded container.
EventsTidy(t) ==
    /\ \A a \in Adder : Starts(adding[a], t) => adding[a].cid = db[t].cid
    /\ \A q \in queue : Starts(q.ev, t) => q.ev.cid = db[t].cid

\* Nothing is up but the recorded container, or the one about to be recorded.
RecordTidy(t) ==
    \/ job[Runner].pc = "commit" /\ job[Runner].ev.task = t
    \/ Up(t) \subseteq {db[t].cid}

OneUp  == {"clear", "haltOld", "commit", "drop", "halt"}
NoneUp == {"removeOld", "create", "fail", "remove", "decide", "write", "store", "delete"}

\* What a goroutine working on t knows of its containers.
JobTidy(p, t) ==
    job[p].ev.task = t =>
        /\ job[p].pc = "merge" /\ job[p].ev.kind = "start" => job[p].ev.cid = db[t].cid
        /\ job[p].pc \in OneUp => Up(t) \subseteq {job[p].ev.cid}
        /\ job[p].pc \in NoneUp => Up(t) = {}

Tidy(t) == EventsTidy(t) /\ RecordTidy(t) /\ \A p \in Proc : JobTidy(p, t)

AllTidy == Up(NoTask) = {} /\ \A t \in Task : Tidy(t)

UpShrinks == \A t : Up(t)' \subseteq Up(t)

LEMMA StatusUp ==
    ASSUME TypeOK, NEW c, NEW s, docker' = WithStatus(c, s)
    PROVE  /\ s \notin Live => \A t : Up(t)' \subseteq Up(t) \ {c}
           /\ StatusOf(c) \in Live => UpShrinks
<1>1. \A d \in Cid : /\ docker'[d].task = docker[d].task
                     /\ docker'[d].status = IF d = c THEN s ELSE docker[d].status
  BY DEF TypeOK, Containers, WithStatus
<1>2. s \notin Live => \A t : Up(t)' \subseteq Up(t) \ {c}
  BY <1>1 DEF Up
<1>3. StatusOf(c) \in Live => UpShrinks
  BY <1>1 DEF Up, UpShrinks, StatusOf
<1> QED BY <1>2, <1>3

LEMMA SameUp == ASSUME docker' = docker PROVE UpShrinks /\ \A t : Up(t)' = Up(t)
  BY DEF Up, UpShrinks

\* A stop that docker carries out leaves the container down.
LEMMA HaltUp ==
    ASSUME TypeOK, NEW c, docker' \in HaltOutcomes(c)
    PROVE  UpShrinks /\ (~DockerFaults => \A t : Up(t)' \subseteq Up(t) \ {c})
<1>1. CASE StatusOf(c) \notin Live
  <2>1. docker' = docker
    BY <1>1 DEF HaltOutcomes
  <2>2. \A t : c \notin Up(t)
    BY <1>1 DEF Up, StatusOf
  <2> QED BY <2>1, <2>2, SameUp
<1>2. CASE DockerFaults /\ docker' = docker
  BY <1>2, SameUp
<1>3. CASE \E s \in Exited : docker' = WithStatus(c, s)
  <2>1. PICK s \in Exited : docker' = WithStatus(c, s)
    BY <1>3
  <2>2. s \notin Live
    BY DEF Exited, Live
  <2>3. \A t : Up(t)' \subseteq Up(t) \ {c}
    BY <2>1, <2>2, StatusUp
  <2> QED BY <2>3 DEF UpShrinks
<1> QED BY <1>1, <1>2, <1>3 DEF HaltOutcomes

LEMMA RemoveUp ==
    ASSUME TypeOK, NEW c, NEW o \in RemoveOutcomes(c), docker' = o.docker
    PROVE  UpShrinks
<1>1. docker' = docker \/ docker' = WithStatus(c, "Removed")
  BY DEF RemoveOutcomes
<1>2. CASE docker' = docker
  BY <1>2, SameUp
<1>3. CASE docker' = WithStatus(c, "Removed")
  BY <1>3, StatusUp DEF Live, UpShrinks
<1> QED BY <1>1, <1>2, <1>3

LEMMA CreatedUp ==
    ASSUME TypeOK, NEW c \in Cid, NEW t, NEW s, docker' = Created(c, t, s), Fresh(c)
    PROVE  /\ Up(t)' \subseteq Up(t) \union {c}
           /\ \A u : u # t => Up(u)' \subseteq Up(u)
<1>1. \A d \in Cid : d # c => docker'[d] = docker[d]
  BY DEF TypeOK, Containers, Created
<1>2. docker'[c].task = t
  BY DEF TypeOK, Containers, Created
<1> QED BY <1>1, <1>2 DEF Up

-----------------------------------------------------------------------------
(* Steps that keep containers tidy *)

\* No request changes.
LEMMA StillTidy ==
    ASSUME AllTidy, UNCHANGED <<adding, queue, job>>, UpShrinks,
           \A t \in Task : db'[t].cid = db[t].cid
    PROVE  AllTidy'
<1>1. ASSUME NEW t \in Task PROVE Tidy(t)'
  <2>1. Tidy(t) /\ Up(t)' \subseteq Up(t) /\ db'[t].cid = db[t].cid
    BY DEF AllTidy, UpShrinks
  <2>2. EventsTidy(t)'
    BY <2>1 DEF Tidy, EventsTidy
  <2>3. RecordTidy(t)'
    BY <2>1 DEF Tidy, RecordTidy
  <2>4. ASSUME NEW p \in Proc PROVE JobTidy(p, t)'
    BY <2>1 DEF Tidy, JobTidy
  <2> QED BY <2>2, <2>3, <2>4 DEF Tidy
<1>2. Up(NoTask)' = {}
  BY DEF AllTidy, UpShrinks
<1> QED BY <1>1, <1>2 DEF AllTidy

\* p's step is not about t.
LEMMA ElsewhereTidy ==
    ASSUME NEW t \in Task, Tidy(t), Up(t)' \subseteq Up(t), db'[t].cid = db[t].cid,
           NEW p \in Proc, Others(p),
           job[p].pc # "idle" => job[p].ev.task # t,
           job'[p].pc # "idle" => job'[p].ev.task # t,
           adding' = adding, queue' \subseteq queue
    PROVE  Tidy(t)'
<1>1. EventsTidy(t)'
  BY DEF Tidy, EventsTidy
<1>2. RecordTidy(t)'
  BY DEF Tidy, RecordTidy, Others, Proc
<1>3. ASSUME NEW q \in Proc PROVE JobTidy(q, t)'
  <2>1. CASE q = p
    BY <2>1 DEF JobTidy, OneUp, NoneUp
  <2>2. CASE q # p
    BY <2>2 DEF Tidy, JobTidy, Others
  <2> QED BY <2>1, <2>2
<1> QED BY <1>1, <1>2, <1>3 DEF Tidy

\* p works on t: no other start of t is under way, so the record may change.
LEMMA HereTidy ==
    ASSUME Serial, NEW t \in Task, Tidy(t), Up(t)' \subseteq Up(t) \/ ~ForgetPending(t),
           NEW p \in Proc, Others(p), job[p].pc # "idle", job[p].ev.task = t,
           adding' = adding, queue' \subseteq queue,
           RecordTidy(t)', JobTidy(p, t)'
    PROVE  Tidy(t)'
<1>0. Alone(t)
  BY DEF Serial
<1>1. /\ \A a \in Adder : ~Starts(adding[a], t)
      /\ \A q \in queue : ~Starts(q.ev, t)
  <2>1. CASE p = Runner
    BY <1>0, <2>1 DEF Alone, RunnerOn
  <2>2. CASE p \in Forgetter
    <3>1. ~StartPending(t)
      BY <1>0, <2>2 DEF Alone, ForgetPending
    <3> QED BY <3>1 DEF StartPending, Starts
  <2> QED BY <2>1, <2>2, Runners
<1>2. EventsTidy(t)'
  BY <1>1 DEF EventsTidy
<1>3. ASSUME NEW q \in Proc, q # p, job[q].ev.task = t
      PROVE  /\ ~(job[q].pc = "merge" /\ job[q].ev.kind = "start")
             /\ Up(t)' \subseteq Up(t)
  <2>1. CASE q = Runner
    <3>1. p \in Forgetter
      BY <1>3, <2>1, Runners
    <3>2. ForgetPending(t)
      BY <3>1 DEF ForgetPending
    <3>3. ~StartPending(t)
      BY <1>0, <3>2 DEF Alone
    <3> QED BY <1>3, <2>1, <3>2, <3>3 DEF StartPending
  <2>2. CASE q \in Forgetter
    <3>1. job[q].pc # "merge"
      BY <2>2 DEF Serial, Shaped, StopPcs
    <3>2. ForgetPending(t)
      BY <1>3, <2>2 DEF ForgetPending
    <3> QED BY <3>1, <3>2
  <2> QED BY <2>1, <2>2, Runners
<1>4. ASSUME NEW q \in Proc PROVE JobTidy(q, t)'
  <2>1. CASE q = p
    BY <2>1
  <2>2. CASE q # p /\ job[q].ev.task = t
    BY <1>3, <2>2 DEF Tidy, JobTidy, Others
  <2>3. CASE q # p /\ job[q].ev.task # t
    BY <2>3 DEF JobTidy, Others
  <2> QED BY <2>1, <2>2, <2>3
<1> QED BY <1>2, <1>4 DEF Tidy

\* A goroutine goes on with, or ends, its work on t.
LEMMA CarriesOn ==
    ASSUME Serial, AllTidy, NEW t \in Task, NEW p \in Proc, Others(p),
           job[p].pc # "idle", job[p].ev.task = t, job'[p].pc # "idle" => job'[p].ev.task = t,
           adding' = adding, queue' \subseteq queue,
           \A u : u # t => Up(u)' \subseteq Up(u),
           \A u \in Task : u # t => db'[u] = db[u],
           Up(t)' \subseteq Up(t) \/ ~ForgetPending(t),
           RecordTidy(t)', JobTidy(p, t)'
    PROVE  AllTidy'
<1>1. Tidy(t)'
  BY HereTidy DEF AllTidy
<1>2. ASSUME NEW u \in Task, u # t PROVE Tidy(u)'
  <2>1. Tidy(u) /\ Up(u)' \subseteq Up(u) /\ db'[u].cid = db[u].cid
    BY <1>2 DEF AllTidy
  <2> QED BY <1>2, <2>1, ElsewhereTidy
<1>3. Up(NoTask)' = {}
  BY WorkerAssumption DEF AllTidy
<1> QED BY <1>1, <1>2, <1>3 DEF AllTidy

\* An idle goroutine takes up work on t.
LEMMA TakesUp ==
    ASSUME Serial, AllTidy, NEW t \in Task, NEW p \in Proc, Others(p),
           job[p].pc = "idle", job'[p].ev.task = t, job'[p].pc # "commit",
           UNCHANGED <<db, docker, adding>>, queue' \subseteq queue, JobTidy(p, t)'
    PROVE  AllTidy'
<1>0. \A u : Up(u)' = Up(u)
  BY SameUp
<1>1. Tidy(t)'
  <2>1. Tidy(t)
    BY DEF AllTidy
  <2>2. EventsTidy(t)'
    BY <2>1 DEF Tidy, EventsTidy
  <2>3. RecordTidy(t)'
    BY <1>0, <2>1, Types DEF Tidy, RecordTidy, Others
  <2>4. ASSUME NEW q \in Proc, q # p PROVE JobTidy(q, t)'
    BY <1>0, <2>1, <2>4 DEF Tidy, JobTidy, Others
  <2> QED BY <2>2, <2>3, <2>4 DEF Tidy
<1>2. ASSUME NEW u \in Task, u # t PROVE Tidy(u)'
  BY <1>0, <1>2, ElsewhereTidy DEF AllTidy
<1> QED BY <1>0, <1>1, <1>2 DEF AllTidy

-----------------------------------------------------------------------------
(* Requests *)

\* Only the events under way change.
LEMMA SentTidy ==
    ASSUME AllTidy, UNCHANGED <<docker, job>>, \A t \in Task : db'[t].cid = db[t].cid,
           \A t \in Task : EventsTidy(t)'
    PROVE  AllTidy'
<1>0. \A t : Up(t)' = Up(t)
  BY SameUp
<1>1. ASSUME NEW t \in Task PROVE Tidy(t)'
  <2>1. Tidy(t) /\ db'[t].cid = db[t].cid
    BY DEF AllTidy
  <2>2. RecordTidy(t)'
    BY <1>0, <2>1 DEF Tidy, RecordTidy
  <2>3. ASSUME NEW p \in Proc PROVE JobTidy(p, t)'
    BY <1>0, <2>1 DEF Tidy, JobTidy
  <2> QED BY <2>2, <2>3 DEF Tidy
<1> QED BY <1>0, <1>1 DEF AllTidy

LEMMA AddStartTidy ==
    ASSUME Serial, AllTidy, ~Overlap, NEW a \in Adder, NEW t \in Task, NEW cid \in Cid0,
           NEW again \in BOOLEAN, AddStart(a, t, cid, again)
    PROVE  AllTidy'
<1>1. PICK ev : /\ ev = [task |-> t, kind |-> "start", cid |-> Scheduled(t, cid).cid,
                         again |-> again, why |-> FALSE]
                /\ adding' = [adding EXCEPT ![a] = ev]
  BY Zenon DEF AddStart
<1>2. Scheduled(t, cid).cid = db[t].cid
  BY DEF Scheduled, AddStart, MaySendStart
<1>3. /\ adding'[a].task = t /\ adding'[a].cid = db[t].cid
      /\ \A b \in Adder : b # a => adding'[b] = adding[b]
  BY <1>1, <1>2 DEF Serial, TypeOK
<1>4. \A u \in Task : db'[u].cid = db[u].cid
  BY <1>2 DEF AddStart, Scheduled, Serial, TypeOK
<1>5. UNCHANGED <<queue, docker, job>>
  BY DEF AddStart
<1>6. \A u \in Task : EventsTidy(u)'
  BY <1>3, <1>4, <1>5 DEF AllTidy, Tidy, EventsTidy, Starts
<1> QED BY <1>4, <1>5, <1>6, SentTidy

LEMMA AddStopTidy ==
    ASSUME Serial, AllTidy, NEW a \in Adder, NEW t \in Task, NEW why \in BOOLEAN,
           AddStop(a, t, why)
    PROVE  AllTidy'
<1>1. PICK ev : /\ ev = [task |-> t, kind |-> "stop", cid |-> reported[t],
                         again |-> FALSE, why |-> why]
                /\ adding' = [adding EXCEPT ![a] = ev]
  BY Zenon DEF AddStop
<1>2. adding'[a].kind = "stop" /\ \A b \in Adder : b # a => adding'[b] = adding[b]
  BY <1>1 DEF Serial, TypeOK
<1>3. UNCHANGED <<db, queue, docker, job>>
  BY DEF AddStop
<1>4. \A u \in Task : EventsTidy(u)'
  BY <1>2, <1>3 DEF AllTidy, Tidy, EventsTidy, Starts
<1> QED BY <1>3, <1>4, SentTidy

LEMMA EnqueueTidy ==
    ASSUME Serial, AllTidy, NEW a \in Adder, Enqueue(a)
    PROVE  AllTidy'
<1>1. PICK q : /\ q = [n |-> ticket, ev |-> adding[a]]
               /\ queue' = queue \union {q}
  BY Zenon DEF Enqueue, Enqueued
<1>2. adding'[a] = NoEvent /\ \A b \in Adder : b # a => adding'[b] = adding[b]
  BY DEF Enqueue, Serial, TypeOK
<1>3. UNCHANGED <<db, docker, job>>
  BY DEF Enqueue
<1>4. NoEvent.kind = "stop" /\ q.ev = adding[a]
  BY <1>1 DEF NoEvent
<1>5. \A u \in Task : EventsTidy(u)'
  BY <1>1, <1>2, <1>3, <1>4 DEF AllTidy, Tidy, EventsTidy, Starts
<1> QED BY <1>3, <1>5, SentTidy

LEMMA DequeueTidy == ASSUME Serial, AllTidy, Dequeue PROVE AllTidy'
<1>1. PICK q \in queue :
         /\ queue' = queue \ {q}
         /\ Become(Runner, [Idle EXCEPT !.pc = "merge", !.ev = q.ev])
  BY DEF Dequeue
<1>2. PICK j : j = [Idle EXCEPT !.pc = "merge", !.ev = q.ev]
  OBVIOUS
<1>3. j.pc = "merge" /\ j.ev = q.ev
  BY <1>2 DEF Idle
<1>4. job'[Runner].pc = "merge" /\ job'[Runner].ev = q.ev /\ Others(Runner)
  BY <1>1, <1>2, <1>3, BecomeIs, Types DEF Serial
<1>5. UNCHANGED <<db, docker, adding>> /\ job[Runner].pc = "idle"
  BY DEF Dequeue
<1>6. PICK t \in Task : t = q.ev.task
  BY DEF Serial, TypeOK, Event
<1>7. q.ev.kind = "start" => q.ev.cid = db[t].cid
  BY <1>6 DEF AllTidy, Tidy, EventsTidy, Starts
<1>8. JobTidy(Runner, t)'
  BY <1>4, <1>5, <1>7 DEF JobTidy, OneUp, NoneUp
<1> QED BY <1>1, <1>4, <1>5, <1>6, <1>8, TakesUp, Types

\* The container the run loop acts on is the recorded one.
LEMMA MergeTidy == ASSUME Serial, AllTidy, Merge PROVE AllTidy'
<1> DEFINE ev == job[Runner].ev
<1>1. PICK rec, run, cid :
         /\ rec = Recorded(ev) /\ cid = MergedCid(ev, rec)
         /\ run = [ev EXCEPT !.cid = cid]
         /\ IF ValidStateTransition(rec.state, Wanted(ev))
            THEN Become(Runner, [job[Runner] EXCEPT !.pc = FirstStep(run), !.ev = run])
            ELSE Finish(Runner)
  BY Zenon DEF Merge
<1>2. PICK t \in Task : t = ev.task
  BY MergeFinds
<1>3. ev \in Event /\ job[Runner] \in Job /\ rec = db[t] /\ db' = db
  BY <1>1, <1>2, MergeFinds
<1>4. job[Runner].pc = "merge" /\ UNCHANGED <<adding, queue, docker>>
  BY DEF Merge
<1>5. \A u : Up(u)' = Up(u)
  BY <1>4, SameUp
<1>6. Tidy(t)
  BY DEF AllTidy
<1>7. Up(t) \subseteq {db[t].cid}
  BY <1>4, <1>6 DEF Tidy, RecordTidy
<1>8. ev.kind = "start" => ev.cid = db[t].cid
  BY <1>2, <1>4, <1>6, Types DEF Tidy, JobTidy
<1>9. Up(t) \subseteq {cid}
  <2>1. NoCid \notin Up(t)
    BY Types DEF Up
  <2>2. CASE cid = db[t].cid
    BY <1>7, <2>2
  <2>3. CASE cid # db[t].cid
    <3>1. ev.kind # "start"
      BY <1>1, <1>3, <1>8, <2>3 DEF MergedCid
    <3>2. ev.kind = "stop"
      BY <1>3, <3>1 DEF Event
    <3>3. db[t].cid = NoCid
      BY <1>1, <1>3, <2>3, <3>2 DEF MergedCid
    <3> QED BY <1>7, <2>1, <3>3
  <2> QED BY <2>2, <2>3
<1>10. RecordTidy(t)'
  BY <1>3, <1>5, <1>7 DEF RecordTidy
<1>11. Others(Runner) /\ (job'[Runner].pc # "idle" => job'[Runner].ev.task = t) /\ JobTidy(Runner, t)'
  <2>1. CASE ValidStateTransition(rec.state, Wanted(ev))
    <3>1. run.task = t /\ run.kind = ev.kind /\ run.cid = cid
      BY <1>1, <1>2, <1>3 DEF Event
    <3>2. PICK j : j = [job[Runner] EXCEPT !.pc = FirstStep(run), !.ev = run]
      OBVIOUS
    <3>3. j.pc = FirstStep(run) /\ j.ev = run
      BY <1>3, <3>2 DEF Job
    <3>4. job'[Runner].pc = FirstStep(run) /\ job'[Runner].ev = run /\ Others(Runner)
      BY <1>1, <2>1, <3>2, <3>3, BecomeIs, Types DEF Serial
    <3>5. \/ FirstStep(run) \in {"halt", "clear"}
          \/ FirstStep(run) = "create" /\ cid = NoCid
      BY <3>1 DEF FirstStep
    <3>6. FirstStep(run) = "create" => Up(t) = {}
      BY <1>9, <3>5, Types DEF Up
    <3> QED BY <1>5, <1>9, <3>1, <3>4, <3>5, <3>6 DEF JobTidy, OneUp, NoneUp
  <2>2. CASE ~ValidStateTransition(rec.state, Wanted(ev))
    <3>1. job'[Runner].pc = "idle" /\ Others(Runner)
      BY <1>1, <2>2, FinishIs, Types DEF Serial
    <3> QED BY <3>1 DEF JobTidy, OneUp, NoneUp
  <2> QED BY <2>1, <2>2
<1>12. Up(t)' \subseteq Up(t) /\ \A u : u # t => Up(u)' \subseteq Up(u)
  BY <1>5
<1> QED BY <1>2, <1>3, <1>4, <1>10, <1>11, <1>12, CarriesOn, Types

-----------------------------------------------------------------------------
(* Starts, stops and forgets *)

\* The container p acts on, when all it has left to know is that none is up.
LEMMA NoneLeft ==
    ASSUME NEW t \in Task, NEW p \in Proc, Up(t)' = {}, job'[p].pc # "merge"
    PROVE  RecordTidy(t)' /\ JobTidy(p, t)'
  BY DEF RecordTidy, JobTidy

LEMMA StartingTidy ==
    ASSUME Serial, AllTidy, ~DockerFaults, ClearLogs \/ HaltOld \/ RemoveOld
    PROVE  AllTidy'
<1>1. /\ job[Runner].pc \in {"clear", "haltOld", "removeOld"}
      /\ UNCHANGED <<db, adding, queue>>
  BY DEF ClearLogs, HaltOld, RemoveOld
<1>2. PICK t \in Task, c \in Cid0 : t = job[Runner].ev.task /\ c = job[Runner].ev.cid
  BY <1>1, BusyJob, Types DEF Serial
<1>3. JobTidy(Runner, t)
  BY Types DEF AllTidy, Tidy
<1>4. CASE ClearLogs
  <2>1. \A u : Up(u)' = Up(u)
    BY <1>4, SameUp DEF ClearLogs
  <2>2. Up(t) \subseteq {c}
    BY <1>2, <1>3, <1>4 DEF ClearLogs, JobTidy, OneUp
  <2>3. /\ Others(Runner) /\ job'[Runner].ev = job[Runner].ev
        /\ job'[Runner].pc = IF c # NoCid THEN "haltOld" ELSE "create"
    BY <1>1, <1>2, <1>4, GotoIs, Types DEF ClearLogs, Serial
  <2>4. c = NoCid => Up(t) = {}
    BY <2>2, Types DEF Up
  <2>5. JobTidy(Runner, t)'
    BY <1>2, <2>1, <2>2, <2>3, <2>4 DEF JobTidy, OneUp, NoneUp
  <2>6. RecordTidy(t)'
    BY <1>1, <2>1, Types DEF AllTidy, Tidy, RecordTidy
  <2>7. Up(t)' \subseteq Up(t) /\ \A u : u # t => Up(u)' \subseteq Up(u)
    BY <2>1
  <2> QED BY <1>1, <1>2, <2>3, <2>5, <2>6, <2>7, CarriesOn, Types
<1>5. CASE HaltOld \/ RemoveOld
  <2>1. UpShrinks /\ Up(t)' = {}
    <3>1. CASE HaltOld
      <4>1. Up(t) \subseteq {c}
        BY <1>2, <1>3, <3>1 DEF HaltOld, JobTidy, OneUp
      <4>2. docker' \in HaltOutcomes(c)
        BY <1>2, <3>1 DEF HaltOld
      <4> QED BY <4>1, <4>2, HaltUp DEF Serial
    <3>2. CASE RemoveOld
      <4>1. Up(t) = {}
        BY <1>2, <1>3, <3>2 DEF RemoveOld, JobTidy, NoneUp
      <4>2. \E o \in RemoveOutcomes(c) : docker' = o.docker
        BY <1>2, <3>2 DEF RemoveOld
      <4>3. UpShrinks
        BY <4>2, RemoveUp DEF Serial
      <4> QED BY <4>1, <4>3 DEF UpShrinks
    <3> QED BY <1>5, <3>1, <3>2
  <2>2. /\ Others(Runner) /\ job'[Runner].ev.task = t
        /\ job'[Runner].pc \in {"removeOld", "fail", "create"}
    <3>1. \/ \E pc \in {"removeOld", "fail"} : Goto(Runner, pc)
          \/ GotoWith("create", NoCid)
      BY <1>5 DEF HaltOld, RemoveOld
    <3>2. CASE \E pc \in {"removeOld", "fail"} : Goto(Runner, pc)
      BY <1>1, <1>2, <3>2, GotoIs, Types DEF Serial
    <3>3. CASE GotoWith("create", NoCid)
      BY <1>1, <1>2, <3>3, GotoWithIs DEF Serial
    <3> QED BY <3>1, <3>2, <3>3
  <2>3. RecordTidy(t)' /\ JobTidy(Runner, t)'
    BY <2>1, <2>2, NoneLeft, Types
  <2>4. queue' \subseteq queue /\ Up(t)' \subseteq Up(t)
        /\ \A u : u # t => Up(u)' \subseteq Up(u)
    BY <1>1, <2>1 DEF UpShrinks
  <2> QED BY <1>1, <1>2, <2>2, <2>3, <2>4, CarriesOn, Types
<1> QED BY <1>4, <1>5

LEMMA CreateTidy == ASSUME Serial, AllTidy, ~DockerFaults, Create PROVE AllTidy'
<1>1. /\ job[Runner].pc = "create"
      /\ UNCHANGED <<db, adding, queue>>
  BY DEF Create
<1>2. PICK t \in Task : t = job[Runner].ev.task
  BY <1>1, BusyJob, Types DEF Serial
<1>3. Up(t) = {}
  BY <1>1, <1>2, Types DEF AllTidy, Tidy, JobTidy, NoneUp
<1>4. ~ForgetPending(t)
  <2>1. StartPending(t)
    BY <1>1, <1>2 DEF StartPending, Serial, Shaped, StartPcs
  <2> QED BY <2>1 DEF Serial, Alone
<1>5. CASE \E c \in Cid : /\ Fresh(c)
                          /\ docker' = Created(c, t, "Running")
                          /\ GotoWith("commit", c)
  <2>1. PICK c \in Cid : /\ Fresh(c)
                         /\ docker' = Created(c, t, "Running")
                         /\ GotoWith("commit", c)
    BY <1>5
  <2>2. Up(t)' \subseteq {c} /\ \A u : u # t => Up(u)' \subseteq Up(u)
    BY <1>3, <2>1, CreatedUp DEF Serial
  <2>3. /\ job'[Runner].pc = "commit" /\ job'[Runner].ev.cid = c
        /\ job'[Runner].ev.task = t /\ Others(Runner)
    BY <1>1, <1>2, <2>1, GotoWithIs DEF Serial
  <2>4. RecordTidy(t)' /\ JobTidy(Runner, t)'
    BY <2>2, <2>3 DEF RecordTidy, JobTidy, OneUp, NoneUp
  <2> QED BY <1>1, <1>2, <1>4, <2>2, <2>3, <2>4, CarriesOn, Types
<1>6. CASE docker' = docker /\ Goto(Runner, "fail")
  <2>1. \A u : Up(u)' = Up(u)
    BY <1>6, SameUp
  <2>2. Others(Runner) /\ job'[Runner].ev.task = t /\ job'[Runner].pc = "fail"
    BY <1>1, <1>2, <1>6, GotoIs, Types DEF Serial
  <2>3. RecordTidy(t)' /\ JobTidy(Runner, t)'
    BY <1>3, <2>1, <2>2, NoneLeft, Types
  <2>4. \A u : u # t => Up(u)' \subseteq Up(u)
    BY <2>1
  <2> QED BY <1>1, <1>2, <1>4, <2>2, <2>3, <2>4, CarriesOn, Types
<1> QED BY <1>2, <1>5, <1>6 DEF Create

LEMMA StartEndsTidy == ASSUME Serial, AllTidy, StartFailed \/ StartCommit PROVE AllTidy'
<1>1. /\ job[Runner].pc \in {"fail", "commit"}
      /\ UNCHANGED <<adding, queue, docker>> /\ Finish(Runner)
  BY DEF StartFailed, StartCommit
<1>2. PICK t \in Task, c \in Cid0 : t = job[Runner].ev.task /\ c = job[Runner].ev.cid
  BY <1>1, BusyJob, Types DEF Serial
<1>3. Up(t) \subseteq {c}
  BY <1>1, <1>2, Types DEF AllTidy, Tidy, JobTidy, OneUp, NoneUp
<1>4. \E s \in State : db' = Stored(t, s, c, FALSE)
  BY <1>2 DEF StartFailed, StartCommit, State
<1>5. db'[t].cid = c /\ \A u \in Task : u # t => db'[u] = db[u]
  BY <1>4 DEF Serial, TypeOK, Stored
<1>6. \A u : Up(u)' = Up(u)
  BY <1>1, SameUp
<1>7. job'[Runner].pc = "idle" /\ Others(Runner)
  BY <1>1, FinishIs, Types DEF Serial
<1>8. RecordTidy(t)' /\ JobTidy(Runner, t)'
  BY <1>3, <1>5, <1>6, <1>7 DEF RecordTidy, JobTidy, OneUp, NoneUp
<1>9. Up(t)' \subseteq Up(t) /\ \A u : u # t => Up(u)' \subseteq Up(u)
  BY <1>6
<1>10. job[Runner].pc # "idle"
  BY <1>1
<1> QED BY <1>1, <1>2, <1>5, <1>7, <1>8, <1>9, <1>10, CarriesOn, Types

LEMMA StoppingTidy ==
    ASSUME Serial, AllTidy, ~DockerFaults, NEW p \in Proc, Stopping(p)
    PROVE  AllTidy'
<1>1. PICK t \in Task : t = job[p].ev.task
  BY StoppingIs DEF Serial
<1>2. JobTidy(p, t)
  BY DEF AllTidy, Tidy
<1>3. UpShrinks /\ Up(t)' = {}
  <2>1. CASE StopHalt(p)
    <3>1. PICK c : c = job[p].ev.cid
      OBVIOUS
    <3>2. Up(t) \subseteq {c}
      BY <1>1, <1>2, <2>1, <3>1 DEF StopHalt, JobTidy, OneUp
    <3>3. docker' \in HaltOutcomes(c)
      BY <2>1, <3>1 DEF StopHalt
    <3> QED BY <3>2, <3>3, HaltUp DEF Serial
  <2>2. CASE ~StopHalt(p)
    <3>1. Up(t) = {}
      BY <1>1, <1>2, <2>2 DEF Stopping, StopRemove, StopDecide, StopWrite, StopStore, JobTidy, NoneUp
    <3>2. docker' = docker \/ \E c : \E o \in RemoveOutcomes(c) : docker' = o.docker
      BY <2>2 DEF Stopping, StopRemove, StopDecide, StopWrite, StopStore
    <3>3. UpShrinks
      BY <3>2, SameUp, RemoveUp DEF Serial
    <3> QED BY <3>1, <3>3 DEF UpShrinks
  <2> QED BY <2>1, <2>2
<1>4. RecordTidy(t)' /\ JobTidy(p, t)'
  BY <1>3, NoneLeft, StoppingIs DEF Serial
<1>5. Up(t)' \subseteq Up(t) /\ \A u : u # t => Up(u)' \subseteq Up(u)
  BY <1>3 DEF UpShrinks
<1> QED BY <1>1, <1>4, <1>5, StoppingIs, CarriesOn DEF Serial

\* A task is forgotten once nothing of it is up but the recorded container of
\* an active record, which the forget stops first.
LEMMA ForgetReadTidy ==
    ASSUME Serial, AllTidy, ~Overlap, NEW f \in Forgetter, NEW t \in Task, ForgetRead(f, t)
    PROVE  AllTidy'
<1>1. PICK ev, j : /\ ev = ForgetEvent(t)
                   /\ j = [Idle EXCEPT !.pc = "drop", !.ev = ev] /\ Become(f, j)
  BY DEF ForgetRead
<1>2. j.pc = "drop" /\ j.ev = ev
  BY <1>1 DEF Idle
<1>3. job'[f].pc = "drop" /\ job'[f].ev = ev /\ Others(f)
  BY <1>1, <1>2, BecomeIs, Runners DEF Serial
<1>4. UNCHANGED <<db, docker, adding, queue>> /\ job[f].pc = "idle"
  BY DEF ForgetRead
<1>5. Up(t) \subseteq {db[t].cid}
  <2>1. ~(job[Runner].pc = "commit" /\ job[Runner].ev.task = t)
    BY DEF ForgetRead, MaySendForget, StartPending, Serial, Shaped, StartPcs
  <2> QED BY <2>1 DEF AllTidy, Tidy, RecordTidy
<1>6. ev.task = t /\ Up(t) \subseteq {ev.cid}
  <2>1. ev.task = t /\ ev.cid = IF Active(db[t]) THEN db[t].cid ELSE NoCid
    BY <1>1 DEF ForgetEvent
  <2>2. CASE Active(db[t])
    BY <1>5, <2>1, <2>2
  <2>3. CASE ~Active(db[t])
    <3>1. db[t].cid \notin Up(t)
      BY <2>3 DEF ForgetRead, MaySendForget, StatusOf, Up
    <3> QED BY <1>5, <2>1, <3>1
  <2> QED BY <2>2, <2>3
<1>7. Up(t)' = Up(t)
  BY <1>4, SameUp
<1>8. JobTidy(f, t)'
  BY <1>3, <1>6, <1>7 DEF JobTidy, OneUp, NoneUp
<1> QED BY <1>3, <1>4, <1>6, <1>8, TakesUp, Runners

LEMMA ForgettingTidy ==
    ASSUME Serial, AllTidy, NEW f \in Forgetter, Forgetting(f)
    PROVE  AllTidy'
<1>1. /\ job[f].pc \in {"drop", "delete"} /\ f \in Proc /\ f # Runner
      /\ UNCHANGED <<adding, docker>> /\ queue' \subseteq queue
  BY Runners DEF Forgetting, ForgetDrop, ForgetDelete, Without
<1>2. PICK t \in Task, c \in Cid0 : t = job[f].ev.task /\ c = job[f].ev.cid
  BY <1>1, BusyJob DEF Serial
<1>3. JobTidy(f, t)
  BY <1>1 DEF AllTidy, Tidy
<1>4. \A u : Up(u)' = Up(u)
  BY <1>1, SameUp
<1>5. Up(t)' \subseteq Up(t) /\ \A u : u # t => Up(u)' \subseteq Up(u)
  BY <1>4
<1>6. CASE ForgetDrop(f)
  <2>1. /\ Others(f) /\ job'[f].ev = job[f].ev
        /\ job'[f].pc = IF c # NoCid THEN "halt" ELSE "delete"
    BY <1>1, <1>2, <1>6, GotoIs DEF ForgetDrop, Serial
  <2>2. Up(t) \subseteq {c}
    BY <1>2, <1>3, <1>6 DEF ForgetDrop, JobTidy, OneUp
  <2>3. c = NoCid => Up(t) = {}
    BY <2>2, Types DEF Up
  <2>4. JobTidy(f, t)'
    BY <1>2, <1>4, <2>1, <2>2, <2>3 DEF JobTidy, OneUp, NoneUp
  <2>5. db' = db /\ job'[Runner] = job[Runner]
    BY <1>1, <1>6, <2>1, Types DEF ForgetDrop, Others
  <2>6. RecordTidy(t)'
    BY <1>4, <2>5 DEF AllTidy, Tidy, RecordTidy
  <2>7. job[f].pc # "idle"
    BY <1>1
  <2> QED BY <1>1, <1>2, <1>5, <2>1, <2>4, <2>5, <2>6, <2>7, CarriesOn
<1>7. CASE ForgetDelete(f)
  <2>1. job'[f].pc = "idle" /\ Others(f)
    BY <1>1, <1>7, FinishIs DEF ForgetDelete, Serial
  <2>2. Up(t)' = {}
    BY <1>2, <1>3, <1>4, <1>7 DEF ForgetDelete, JobTidy, NoneUp
  <2>3. RecordTidy(t)' /\ JobTidy(f, t)'
    BY <1>1, <2>1, <2>2, NoneLeft
  <2>4. \A u \in Task : u # t => db'[u] = db[u]
    BY <1>2, <1>7 DEF ForgetDelete, Serial, TypeOK
  <2>5. job[f].pc # "idle"
    BY <1>1
  <2> QED BY <1>1, <1>2, <1>5, <2>1, <2>3, <2>4, <2>5, CarriesOn
<1> QED BY <1>6, <1>7 DEF Forgetting

-----------------------------------------------------------------------------
(* The updater and the environment start nothing *)

LEMMA UpdaterTidy == ASSUME Serial, AllTidy, Updater PROVE AllTidy'
<1>1. UNCHANGED <<adding, queue, job>>
  BY DEF Updater, Snapshot, Inspect, Mark, CaptureRead, CaptureStore,
         TimeoutHalt, TimeoutRemove, TimeoutStore, TimeoutMark
<1>2. UpShrinks
  <2>1. \/ docker' = docker
        \/ \E c : docker' \in HaltOutcomes(c)
        \/ \E c : \E o \in RemoveOutcomes(c) : docker' = o.docker
    BY DEF Updater, Snapshot, Inspect, Mark, CaptureRead, CaptureStore,
           TimeoutHalt, TimeoutRemove, TimeoutStore, TimeoutMark
  <2> QED BY <2>1, SameUp, HaltUp, RemoveUp DEF Serial
<1>3. \A t \in Task : db'[t].cid = db[t].cid
  <2>1. CASE db' = db
    BY <2>1
  <2>2. CASE Mark /\ db' # db
    <3>1. PICK t \in Task : db' = [db EXCEPT ![t] = Inspected(db[t], upd.saw)]
      BY <2>2 DEF Mark, Serial, TypeOK
    <3>2. db[t] \in Record /\ upd.saw \in Status
      BY DEF Serial, TypeOK, Upd
    <3>3. Inspected(db[t], upd.saw).cid = db[t].cid
      BY <3>2, InspectedTypes
    <3> QED BY <3>1, <3>3 DEF Serial, TypeOK
  <2>3. CASE TimeoutMark
    <3>1. \A r \in Record : TimedOut(r).cid = r.cid
      BY DEF TimedOut, Record
    <3> QED BY <2>3, <3>1 DEF TimeoutMark, Serial, TypeOK
  <2> QED BY <2>1, <2>2, <2>3 DEF Updater, Snapshot, Inspect, CaptureRead, CaptureStore,
           TimeoutHalt, TimeoutRemove, TimeoutStore
<1> QED BY <1>1, <1>2, <1>3, StillTidy

LEMMA ChangesTidy ==
    ASSUME Serial, AllTidy, NEW c \in Cid, NEW s, ContainerChanges(c, s)
    PROVE  AllTidy'
<1>1. StatusOf(c) \in Live /\ docker' = WithStatus(c, s)
  BY DEF ContainerChanges, Live
<1>2. UpShrinks
  BY <1>1, StatusUp DEF Serial
<1> QED BY <1>2, StillTidy DEF ContainerChanges

-----------------------------------------------------------------------------
(* No container leaks *)

TidyInv == SerialInv /\ (crashes = 0 => AllTidy)

LEMMA TidyInit == Init => TidyInv
<1> SUFFICES ASSUME Init PROVE AllTidy
  BY SerialInit DEF TidyInv
<1>1. \A t : Up(t) = {}
  BY DEF Init, Up, Live
<1>2. /\ \A p \in Proc : job[p].pc = "idle"
      /\ \A a \in Adder : adding[a].kind = "stop"
      /\ queue = {}
  BY DEF Init, Idle, NoEvent
<1>3. ASSUME NEW t \in Task PROVE Tidy(t)
  BY <1>1, <1>2 DEF Tidy, EventsTidy, Starts, RecordTidy, JobTidy, OneUp, NoneUp
<1> QED BY <1>1, <1>3 DEF AllTidy

LEMMA TidyNext ==
    ASSUME ~Overlap, ~DockerFaults, TidyInv, [Next]_vars
    PROVE  TidyInv'
<1>0. SerialInv'
  BY SerialNext DEF TidyInv
<1> SUFFICES ASSUME crashes' = 0
             PROVE  AllTidy'
  BY <1>0 DEF TidyInv
<1>1. ~Crash /\ crashes = 0
  BY StillUp DEF TidyInv, SerialInv
<1>2. Serial /\ AllTidy
  BY <1>1 DEF TidyInv, SerialInv, Serial
<1>3. CASE UNCHANGED vars
  BY <1>2, <1>3, SameUp, StillTidy DEF vars
<1>4. CASE RunLoop
  BY <1>2, <1>4, DequeueTidy, MergeTidy, StartingTidy, CreateTidy, StartEndsTidy DEF RunLoop
<1>5. CASE \E c \in Cid, s \in Exited \union {"Unhealthy"} : ContainerChanges(c, s)
  BY <1>2, <1>5, ChangesTidy
<1>6. ~GetTasks
  BY DEF GetTasks
<1> QED BY <1>1, <1>2, <1>3, <1>4, <1>5, <1>6, AddStartTidy, AddStopTidy, EnqueueTidy,
           StoppingTidy, ForgetReadTidy, ForgettingTidy, UpdaterTidy DEF Next

\* When the manager sends the requests for a task one after the other, docker
\* carries out what it is asked and the worker has not crashed, a container that
\* is up is the recorded one of its task or the one the run loop is about to
\* record, and its task has no other: restarts, stops, forgets and timeouts
\* leave no container behind that nobody will stop, in whatever order they meet.
THEOREM NothingLeaks == ASSUME ~Overlap, ~DockerFaults PROVE Spec => []NoLeak
<1>1. TidyInv /\ [Next]_vars => TidyInv'
  BY TidyNext
<1>2. ASSUME TidyInv, crashes = 0, NEW c \in Cid, StatusOf(c) \in Live, NEW t, t = docker[c].task
      PROVE  /\ db[t].cid = c \/ \E p \in Proc : job[p].ev.task = t /\ job[p].ev.cid = c
             /\ \A d \in Cid : docker[d].task = t /\ StatusOf(d) \in Live => d = c
  <2>1. c \in Up(t) /\ \A d \in Cid : docker[d].task = t /\ StatusOf(d) \in Live => d \in Up(t)
    BY <1>2 DEF Up, StatusOf
  <2>2. t \in Task
    BY <1>2, <2>1 DEF TidyInv, SerialInv, TypeOK, AllTidy, Containers
  <2>3. Tidy(t)
    BY <1>2, <2>2 DEF TidyInv, AllTidy
  <2>4. CASE job[Runner].pc = "commit" /\ job[Runner].ev.task = t
    <3>1. Up(t) \subseteq {job[Runner].ev.cid}
      BY <2>3, <2>4, Types DEF Tidy, JobTidy, OneUp
    <3> QED BY <2>1, <2>4, <3>1, Types
  <2>5. CASE Up(t) \subseteq {db[t].cid}
    BY <2>1, <2>5
  <2> QED BY <2>3, <2>4, <2>5 DEF Tidy, RecordTidy
<1>3. TidyInv => NoLeak
  BY <1>2 DEF NoLeak
<1> QED BY <1>1, <1>3, TidyInit, PTL DEF Spec
=============================================================================
