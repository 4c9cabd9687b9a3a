---------------------------- MODULE ManagerProofs ----------------------------
(***************************************************************************)
(* The manager's type invariant and the bound on restarts, for any set of  *)
(* tasks, nodes, checks and policies, any number of stops, crashes and     *)
(* failing nodes, and with every kind of fault.                            *)
(***************************************************************************)
EXTENDS Manager, FiniteSetTheorems, TLAPS

Ports == [Node -> Task \union {NoTask}]

\* Constants of the model that are of a type.
LEMMA Types ==
    /\ Fresh \in Record /\ NoRecord \in Record /\ Idle \in Job
    /\ SyncIdle \in [node : Node0, list : SUBSET Report, forget : Task \union {NoTask}]
    /\ Unknown \in WorkerRecord
    /\ \A n \in Nat, why \in BOOLEAN : Start(n) \in Order /\ Stop(n, why) \in Order
    /\ Dispatcher \in Proc /\ Loop \in Proc /\ Checked \subseteq Proc /\ Stopper \subseteq Proc
  BY DEF Fresh, NoRecord, Record, Idle, Job, Order, Start, Stop, Pc, Node0, SyncIdle, Unknown,
         WorkerRecord, State, Proc

\* A goroutine's next local state only has to be a job itself.
LEMMA BecomeTypes ==
    ASSUME TypeOK, NEW p \in Proc, NEW j \in Job, j.pc # "idle" => j.task \in Task, Become(p, j)
    PROVE  JobTypes'
  BY DEF TypeOK, JobTypes, Become

LEMMA BusyJob ==
    ASSUME TypeOK, NEW p \in Proc
    PROVE  /\ job[p] \in Job
           /\ job[p].snap \in Record /\ job[p].snap.count \in Nat /\ job[p].snap.why \in BOOLEAN
           /\ job[p].order \in Order /\ job[p].node \in Node0 /\ job[p].old \in Node0
           /\ job[p].pc # "idle" => job[p].task \in Task
  BY DEF TypeOK, JobTypes, Job, Record

LEMMA Sources == ASSUME TypeOK, NEW t \in Task PROVE rec[t] \in Record /\ asg[t] \in Node0
  BY DEF TypeOK

LEMMA Turns ==
    /\ "drop" \in Pc /\ "kill" \in Pc /\ "post" \in Pc
    /\ "delete" \in Pc /\ "move" \in Pc /\ "pick" \in Pc
  BY DEF Pc

\* What a goroutine turns to when it has read or chosen something.
LEMMA NextJob ==
    ASSUME TypeOK, NEW p \in Proc, job[p].pc # "idle", NEW pc \in Pc, NEW n \in Node0, NEW r \in Record
    PROVE  /\ [job[p] EXCEPT !.pc = pc, !.old = n] \in Job
           /\ [job[p] EXCEPT !.pc = pc, !.node = n] \in Job
           /\ [job[p] EXCEPT !.pc = pc, !.snap = r] \in Job
           /\ [job[p] EXCEPT !.pc = pc, !.old = n].task \in Task
           /\ [job[p] EXCEPT !.pc = pc, !.node = n].task \in Task
           /\ [job[p] EXCEPT !.pc = pc, !.snap = r].task \in Task
<1>1. job[p] \in Job /\ job[p].task \in Task
  BY BusyJob
<1>. QED
  BY <1>1 DEF Job

LEMMA GotoTypes ==
    ASSUME TypeOK, NEW p \in Proc, job[p].pc # "idle", NEW pc \in Pc, Goto(p, pc)
    PROVE  JobTypes'
<1>1. [job[p] EXCEPT !.pc = pc] \in Job /\ [job[p] EXCEPT !.pc = pc].task \in Task
  BY BusyJob DEF Job
<1>. QED
  BY <1>1, BecomeTypes DEF Goto

LEMMA FinishTypes == ASSUME TypeOK, NEW p \in Proc, Finish(p) PROVE JobTypes'
  BY BecomeTypes, Types DEF Finish, Idle

\* The port table stays one.
LEMMA PortTypes ==
    ASSUME TypeOK, NEW n, NEW t \in Task
    PROVE  /\ Released(n, t) \in Ports
           /\ n \in Node => Reserved(n, t) \in Ports
           /\ res \in Ports
  BY DEF TypeOK, Released, Reserved, Ports

\* The queue stays one.
LEMMA QueueTypes ==
    ASSUME TypeOK
    PROVE  /\ \A t \in Task, o \in Order : Enqueued(t, o) => pending' \in Seq(Event)
           /\ \A q \in UpTo(Len(pending), {pending[i] : i \in DOMAIN pending}) : q \in Seq(Event)
<1>1. pending \in Seq(Event)
  BY DEF TypeOK
<1>2. ASSUME NEW t \in Task, NEW o \in Order, Enqueued(t, o) PROVE pending' \in Seq(Event)
  BY <1>1, <1>2 DEF Enqueued, Event
<1>3. ASSUME NEW q \in UpTo(Len(pending), {pending[i] : i \in DOMAIN pending}) PROVE q \in Seq(Event)
  <2>1. PICK k \in 0 .. Len(pending) : q \in [1 .. k -> {pending[i] : i \in DOMAIN pending}]
    BY DEF UpTo
  <2>2. {pending[i] : i \in DOMAIN pending} \subseteq Event
    BY <1>1
  <2>3. k \in Nat /\ q \in [1 .. k -> Event]
    BY <1>1, <2>1, <2>2
  <2>. QED
    BY <2>3
<1>. QED
  BY <1>2, <1>3

LEMMA CountedTypes ==
    ASSUME TypeOK, (\E kind \in FaultKinds : Strikes(kind)) \/ NoFault \/ UNCHANGED faults
    PROVE  faults' \in Nat
  BY DEF TypeOK, Strikes, NoFault

LEMMA StoredTypes ==
    ASSUME NEW w \in WorkerRecord, NEW o \in Order
    PROVE  Stored(w, o) \in WorkerRecord
  BY DEF Stored, WorkerRecord, Order, State

\* Requests keep the workers' records and queues.
LEMMA RequestTypes ==
    ASSUME TypeOK, NEW n \in Node, NEW t \in Task, NEW o \in Order, Accepts(n, t, o)
    PROVE  WorkerTypes'
<1>1. wq' \in [Node -> [Task -> Seq(Order)]]
  BY DEF TypeOK, WorkerTypes, Accepts
<1>2. wdb[n][t] \in WorkerRecord
  BY DEF TypeOK, WorkerTypes
<1>3. Stored(wdb[n][t], o) \in WorkerRecord
  BY <1>2, StoredTypes
<1>4. wdb' \in [Node -> [Task -> WorkerRecord]]
  BY <1>3 DEF TypeOK, WorkerTypes, Accepts
<1>. QED
  BY <1>1, <1>4 DEF WorkerTypes

LEMMA AcceptTypes ==
    ASSUME TypeOK, NEW n \in Node0, NEW t \in Task, NEW o \in Order, Accepts(n, t, o)
    PROVE  WorkerTypes'
<1>1. CASE n \in Node
  BY <1>1, RequestTypes
<1>2. CASE n = NoNode
  <2>1. \A m \in Node : m # n
    BY <1>2, ManagerAssumption
  <2>2. wq' = wq
    BY <2>1 DEF Accepts, TypeOK, WorkerTypes
  <2>3. wdb' = wdb
    BY <2>1 DEF Accepts, TypeOK, WorkerTypes
  <2>. QED
    BY <2>2, <2>3 DEF TypeOK, WorkerTypes
<1>. QED
  BY <1>1, <1>2 DEF Node0

LEMMA SameWorkers == ASSUME TypeOK, UNCHANGED workers PROVE WorkerTypes'
  BY DEF TypeOK, WorkerTypes, workers

LEMMA BestEffortTypes ==
    ASSUME TypeOK, NEW n \in Node0, NEW t \in Task, NEW o \in Order, BestEffortStop(n, t, o)
    PROVE  WorkerTypes' /\ faults' \in Nat
<1>1. CASE UNCHANGED workers /\ NoFault
  BY <1>1, SameWorkers, CountedTypes
<1>2. CASE n # NoNode /\ Accepts(n, t, o) /\ NoFault
  BY <1>2, RequestTypes, CountedTypes DEF Node0
<1>3. CASE (Refuses(n, t, o) \/ Fails(n) \/ Rejects(n)) /\ UNCHANGED workers
  BY <1>3, SameWorkers, CountedTypes DEF Refuses, Fails, Rejects, FaultKinds
<1>. QED
  BY <1>1, <1>2, <1>3 DEF BestEffortStop

LEMMA InitTypes == Init => TypeOK
  BY ManagerAssumption, Types DEF Init, TypeOK, JobTypes, WorkerTypes, Idle, Node0

-----------------------------------------------------------------------------
(* Clients and stop requests *)

LEMMA ClientTypes ==
    ASSUME TypeOK, NEW t \in Task, Submit(t) \/ Queue(t)
    PROVE  TypeOK'
<1>1. CASE Submit(t)
  BY <1>1, Types DEF Submit, TypeOK, JobTypes, WorkerTypes, workers
<1>2. CASE Queue(t)
  <2>1. pending' \in Seq(Event)
    BY <1>2, QueueTypes, Types DEF Queue
  <2>. QED
    BY <1>2, <2>1 DEF Queue, TypeOK, JobTypes, WorkerTypes, workers, stores
<1>. QED
  BY <1>1, <1>2

LEMMA StopReadTypes ==
    ASSUME TypeOK, NEW s \in Stopper, NEW t \in Task, StopRead(s, t)
    PROVE  TypeOK'
<1> DEFINE j == [Idle EXCEPT !.pc = "decide", !.task = t, !.snap = rec[t]]
<1>1. j \in Job /\ j.task \in Task
  BY Types DEF TypeOK, Job, Pc
<1>2. JobTypes'
  BY <1>1, BecomeTypes, Types DEF StopRead
<1>. QED
  BY <1>2 DEF StopRead, TypeOK, WorkerTypes, workers, stores

LEMMA StoppingTypes ==
    ASSUME TypeOK, NEW s \in Stopper, Stopping(s)
    PROVE  TypeOK'
<1>1. CASE StopDecide(s)
  <2>1. JobTypes'
    BY <1>1, GotoTypes, Types DEF StopDecide, At, Pc
  <2>. QED
    BY <1>1, <2>1 DEF StopDecide, TypeOK, WorkerTypes, workers, stores, client
<1>2. CASE StopMark(s)
  <2> DEFINE t == job[s].task
  <2>1. t \in Task /\ s \in Proc /\ job[s].pc # "idle"
    BY <1>2, BusyJob, Types DEF StopMark, At
  <2>2. JobTypes' /\ faults' \in Nat
    BY <1>2, <2>1, GotoTypes, FinishTypes, CountedTypes DEF StopMark, Pc, FaultKinds
  <2>3. [rec[t] EXCEPT !.manual = TRUE] \in Record
    <3>1. rec[t] \in Record
      BY <2>1 DEF TypeOK
    <3>. QED
      BY <3>1 DEF Record
  <2>4. rec' \in [Task -> Record] /\ stopped' \subseteq Task
    BY <1>2, <2>1, <2>3 DEF StopMark, TypeOK
  <2>. QED
    BY <1>2, <2>2, <2>4 DEF StopMark, TypeOK, WorkerTypes, workers, client
<1>3. CASE StopQueue(s)
  <2>1. JobTypes'
    BY <1>3, FinishTypes, Types DEF StopQueue
  <2>2. pending' \in Seq(Event)
    BY <1>3, QueueTypes, BusyJob, Types DEF StopQueue, At
  <2>. QED
    BY <1>3, <2>1, <2>2 DEF StopQueue, TypeOK, WorkerTypes, workers, stores, client
<1>. QED
  BY <1>1, <1>2, <1>3 DEF Stopping

-----------------------------------------------------------------------------
(* deleteTask, markFailed, stopTaskTerminal, the rollback *)

LEMMA DeletingTypes ==
    ASSUME TypeOK, NEW p \in Proc, Deleting(p)
    PROVE  TypeOK'
<1> DEFINE t == job[p].task
<1>1. t \in Task /\ job[p].pc # "idle"
  BY BusyJob DEF Deleting, Delete, Drop, Clean, At
<1>2. CASE Delete(p)
  <2>1. JobTypes'
    <3>1. CASE Become(p, [job[p] EXCEPT !.pc = "drop", !.old = asg[t]])
      <4> DEFINE j == [job[p] EXCEPT !.pc = "drop", !.old = asg[t]]
      <4>1. j \in Job /\ j.task \in Task
        BY <1>1, Sources, Turns, NextJob
      <4>. QED
        BY <3>1, <4>1, BecomeTypes
    <3>2. CASE Goto(p, "retry") \/ Finish(p)
      BY <1>1, <3>2, GotoTypes, FinishTypes DEF Pc
    <3>. QED
      BY <1>2, <3>1, <3>2 DEF Delete
  <2>2. faults' \in Nat
    BY <1>2, CountedTypes DEF Delete, FaultKinds
  <2>3. rec' \in [Task -> Record] /\ asg' \in [Task -> Node0] /\ stopped' \subseteq Task
    BY <1>1, <1>2, Types DEF Delete, TypeOK, Node0, stores
  <2>. QED
    BY <1>2, <2>1, <2>2, <2>3 DEF Delete, TypeOK, WorkerTypes, workers, client
<1>3. CASE Drop(p)
  <2>1. JobTypes'
    BY <1>1, <1>3, GotoTypes, FinishTypes DEF Drop, Pc
  <2>2. pending' \in Seq(Event)
    BY <1>3, QueueTypes DEF Drop
  <2>3. res' \in Ports
    BY <1>1, <1>3, PortTypes DEF Drop, Vacated
  <2>. QED
    BY <1>3, <2>1, <2>2, <2>3 DEF Drop, TypeOK, WorkerTypes, workers, stores, client, Ports
<1>4. CASE Clean(p)
  <2>1. JobTypes'
    BY <1>4, FinishTypes DEF Clean
  <2>2. WorkerTypes' /\ faults' \in Nat
    BY <1>1, <1>4, BestEffortTypes, BusyJob, Types DEF Clean
  <2>. QED
    BY <1>4, <2>1, <2>2 DEF Clean, TypeOK, stores, client
<1>. QED
  BY <1>2, <1>3, <1>4 DEF Deleting

LEMMA EndingTypes ==
    ASSUME TypeOK, NEW p \in Proc, Ending(p)
    PROVE  TypeOK'
<1> DEFINE t == job[p].task
<1>1. t \in Task /\ job[p].pc # "idle"
  BY BusyJob DEF Ending, MarkFailed, End, Kill, Undo, At
<1>2. CASE MarkFailed(p)
  <2>1. JobTypes' /\ faults' \in Nat
    BY <1>2, FinishTypes, CountedTypes DEF MarkFailed, FaultKinds
  <2>2. res' \in Ports
    BY <1>1, <1>2, PortTypes DEF MarkFailed
  <2>3. rec' \in [Task -> Record]
    <3>1. rec[t] \in Record
      BY <1>1 DEF TypeOK
    <3>2. \A n \in Nat : Retryable(rec[t], n) \in Record
      BY <3>1 DEF Retryable, Record, State
    <3>. QED
      BY <1>1, <1>2, <3>2, BusyJob DEF MarkFailed, TypeOK
  <2>. QED
    BY <1>2, <2>1, <2>2, <2>3 DEF MarkFailed, TypeOK, WorkerTypes, workers, client, Ports
<1>3. CASE End(p)
  <2>1. JobTypes'
    <3> DEFINE j == [job[p] EXCEPT !.pc = "kill", !.old = asg[t]]
    <3>1. j \in Job /\ j.task \in Task
      BY <1>1, Sources, Turns, NextJob
    <3>. QED
      BY <1>3, <3>1, BecomeTypes DEF End
  <2>2. faults' \in Nat
    BY <1>3, CountedTypes DEF End, FaultKinds
  <2>3. rec' \in [Task -> Record]
    <3>1. Terminal(job[p].snap) \in Record
      BY BusyJob DEF Terminal, Record, State
    <3>. QED
      BY <1>1, <1>3, <3>1 DEF End, TypeOK
  <2>. QED
    BY <1>3, <2>1, <2>2, <2>3 DEF End, TypeOK, WorkerTypes, workers, client
<1>4. CASE Kill(p)
  <2>1. JobTypes'
    BY <1>4, FinishTypes DEF Kill
  <2>2. WorkerTypes' /\ faults' \in Nat
    BY <1>1, <1>4, BestEffortTypes, BusyJob, Types DEF Kill
  <2>3. res' \in Ports
    BY <1>1, <1>4, PortTypes DEF Kill, Vacated
  <2>. QED
    BY <1>4, <2>1, <2>2, <2>3 DEF Kill, TypeOK, stores, client, Ports
<1>5. CASE Undo(p)
  <2>1. JobTypes'
    BY <1>1, <1>5, GotoTypes, FinishTypes DEF Undo, Pc
  <2>2. WorkerTypes' /\ faults' \in Nat
    <3> DEFINE count == IF p = Dispatcher THEN 0 ELSE job[p].snap.count + 1
    <3>0. job[p].snap.count \in Nat
      BY BusyJob
    <3>1. count \in Nat
      BY <3>0
    <3>4. BestEffortStop(job[p].node, t, Stop(count, FALSE))
      BY <1>5 DEF Undo
    <3>2. Stop(count, FALSE) \in Order
      BY <3>1, Types
    <3>. QED
      BY <1>1, <3>4, <3>2, BestEffortTypes, BusyJob
  <2>3. res' \in Ports
    BY <1>1, <1>5, PortTypes DEF Undo
  <2>. QED
    BY <1>5, <2>1, <2>2, <2>3 DEF Undo, TypeOK, stores, client, Ports
<1>. QED
  BY <1>2, <1>3, <1>4, <1>5 DEF Ending

-----------------------------------------------------------------------------
(* SendWork *)

LEMMA SelectTypes ==
    ASSUME TypeOK, NEW p \in Proc, job[p].pc # "idle", NEW pc \in Pc, NEW owner,
           Select(p, job[p].task, owner, pc)
    PROVE  JobTypes' /\ res' \in Ports /\ faults' \in Nat
<1>1. PICK n \in Node :
         /\ res' = Reserved(n, job[p].task)
         /\ Become(p, [job[p] EXCEPT !.pc = pc, !.node = n])
         /\ NoFault
  BY DEF Select
<1> DEFINE j == [job[p] EXCEPT !.pc = pc, !.node = n]
<1>2. j \in Job /\ j.task \in Task
  BY BusyJob DEF Job, Node0
<1>3. JobTypes'
  BY <1>1, <1>2, BecomeTypes
<1>. QED
  BY <1>1, <1>3, BusyJob, PortTypes, CountedTypes

LEMMA DequeueTypes == ASSUME TypeOK, Dequeue PROVE TypeOK'
<1> DEFINE e == Head(pending)
           j == [Idle EXCEPT !.pc = "route", !.task = e.task, !.order = e.order, !.snap = Fresh]
<1>1. e \in Event /\ pending' \in Seq(Event)
  BY DEF Dequeue, TypeOK
<1>2. j \in Job /\ j.task \in Task
  BY <1>1, Types DEF Event, Job, Pc
<1>3. JobTypes'
  BY <1>2, BecomeTypes, Types DEF Dequeue
<1>. QED
  BY <1>1, <1>3 DEF Dequeue, TypeOK, WorkerTypes, workers, stores, client

LEMMA RouteTypes == ASSUME TypeOK, Route PROVE TypeOK'
<1> DEFINE t == job[Dispatcher].task
           n == asg[t]
           j == [job[Dispatcher] EXCEPT !.pc = "post", !.node = n]
<1>1. t \in Task /\ job[Dispatcher].pc # "idle" /\ Dispatcher \in Proc
  BY BusyJob, Types DEF Route, At
<1>2. j \in Job /\ j.task \in Task /\ n \in Node0
  BY <1>1, Sources, Turns, NextJob
<1>3. ASSUME Goto(Dispatcher, "unowned") \/ Goto(Dispatcher, "place") \/ Goto(Dispatcher, "fail")
      PROVE  JobTypes'
  BY <1>1, <1>3, GotoTypes DEF Pc
<1>4. ASSUME Become(Dispatcher, j) PROVE JobTypes'
  BY <1>1, <1>2, <1>4, BecomeTypes
<1> DEFINE stop == job[Dispatcher].order.kind = "stop"
           free == ~Conflicts(n, t, TRUE)
<1>5. ASSUME n = NoNode PROVE JobTypes'
  <2>1. Goto(Dispatcher, IF stop THEN "unowned" ELSE "place")
    BY <1>5 DEF Route
  <2>. QED
    BY <2>1, <1>3
<1>6. ASSUME n # NoNode /\ stop PROVE JobTypes'
  BY <1>6, <1>4 DEF Route
<1>7. ASSUME n # NoNode /\ ~stop /\ free PROVE JobTypes'
  BY <1>7, <1>4 DEF Route
<1>8. ASSUME n # NoNode /\ ~stop /\ ~free PROVE JobTypes'
  BY <1>8, <1>3 DEF Route
<1>9. JobTypes'
  BY <1>5, <1>6, <1>7, <1>8
<1>10. res' \in Ports
  <2>1. res' = res \/ (n # NoNode /\ res' = Reserved(n, t))
    BY DEF Route
  <2>. QED
    BY <1>1, <1>2, <2>1, PortTypes DEF Node0
<1>. QED
  BY <1>9, <1>10 DEF Route, TypeOK, WorkerTypes, workers, stores, client, Ports

LEMMA UnownedTypes == ASSUME TypeOK, Unowned PROVE TypeOK'
<1> DEFINE t == job[Dispatcher].task
           j == [job[Dispatcher] EXCEPT !.pc = "delete", !.snap = rec[t]]
<1>1. t \in Task /\ Dispatcher \in Proc /\ job[Dispatcher].pc # "idle"
  BY BusyJob, Types DEF Unowned, At
<1>2. j \in Job /\ j.task \in Task
  BY <1>1, Sources, Turns, NextJob
<1>3. JobTypes'
  BY <1>1, <1>2, BecomeTypes, FinishTypes DEF Unowned
<1>. QED
  BY <1>3 DEF Unowned, TypeOK, WorkerTypes, workers, stores, client

LEMMA PlaceTypes == ASSUME TypeOK, Place PROVE TypeOK'
<1> DEFINE t == job[Dispatcher].task
<1>1. t \in Task /\ job[Dispatcher].pc # "idle" /\ Dispatcher \in Proc
  BY BusyJob, Types DEF Place, At
<1>2. CASE Select(Dispatcher, t, NoNode, "post") /\ UNCHANGED pending
  <2>1. JobTypes' /\ res' \in Ports /\ faults' \in Nat
    BY <1>1, <1>2, SelectTypes DEF Pc
  <2>. QED
    BY <1>2, <2>1 DEF Place, TypeOK, WorkerTypes, workers, stores, client, Ports
<1>3. CASE (Transient /\ Enqueued(t, Start(0)) /\ Finish(Dispatcher) /\ res' = res)
  <2>1. JobTypes' /\ pending' \in Seq(Event) /\ faults' \in Nat
    BY <1>1, <1>3, FinishTypes, QueueTypes, CountedTypes, Types DEF Transient, FaultKinds
  <2>. QED
    BY <1>3, <2>1 DEF Place, TypeOK, WorkerTypes, workers, stores, client
<1>4. CASE /\ (Finish(Dispatcher) /\ NoFault) \/ (NoneAble(t) /\ Goto(Dispatcher, "end"))
           /\ UNCHANGED <<res, pending>>
  <2>1. JobTypes' /\ faults' \in Nat
    BY <1>1, <1>4, FinishTypes, GotoTypes, CountedTypes DEF NoneAble, FaultKinds, Pc
  <2>. QED
    BY <1>4, <2>1 DEF Place, TypeOK, WorkerTypes, workers, stores, client
<1>. QED
  BY <1>2, <1>3, <1>4 DEF Place

LEMMA PostTypes == ASSUME TypeOK, Post PROVE TypeOK'
<1> DEFINE t == job[Dispatcher].task
           n == job[Dispatcher].node
           o == job[Dispatcher].order
<1>1. t \in Task /\ job[Dispatcher].pc # "idle" /\ Dispatcher \in Proc
  BY BusyJob, Types DEF Post, At
<1>2. JobTypes'
  BY <1>1, GotoTypes, FinishTypes DEF Post, Pc
<1>3. faults' \in Nat
  BY CountedTypes DEF Post, Refuses, Fails, Rejects, FaultKinds
<1>4. ASSUME Accepts(n, t, o) PROVE WorkerTypes'
  BY <1>1, <1>4, AcceptTypes, BusyJob
<1>5. Accepts(n, t, o) \/ UNCHANGED workers
  BY DEF Post
<1>6. WorkerTypes'
  BY <1>4, <1>5, SameWorkers
<1>. QED
  BY <1>2, <1>3, <1>6 DEF Post, TypeOK, stores, client

LEMMA CommitTypes == ASSUME TypeOK, Commit PROVE TypeOK'
<1> DEFINE t == job[Dispatcher].task
<1>1. t \in Task /\ job[Dispatcher].pc # "idle" /\ Dispatcher \in Proc
  BY BusyJob, Types DEF Commit, At
<1>2. faults' \in Nat
  BY CountedTypes DEF Commit, FaultKinds
<1>3. \A b \in BOOLEAN : /\ [job[Dispatcher] EXCEPT !.pc = "undo", !.again = b] \in Job
                          /\ [job[Dispatcher] EXCEPT !.pc = "undo", !.again = b].task \in Task
  BY <1>1, BusyJob DEF Job, Pc
<1>4. JobTypes'
  BY <1>1, <1>3, BecomeTypes, FinishTypes DEF Commit
<1>5. rec' \in [Task -> Record] /\ asg' \in [Task -> Node0]
  <2>1. [Fresh EXCEPT !.state = "Scheduled"] \in Record
    BY Types DEF Record, State
  <2>2. job[Dispatcher].node \in Node0
    BY <1>1, BusyJob
  <2>. QED
    BY <1>1, <2>1, <2>2 DEF Commit, TypeOK, stores
<1>. QED
  BY <1>2, <1>4, <1>5 DEF Commit, TypeOK, WorkerTypes, workers, client

LEMMA SendWorkTypes == ASSUME TypeOK, SendWork PROVE TypeOK'
<1> DEFINE t == job[Dispatcher].task
<1>1. Dispatcher \in Proc
  BY Types
<1>2. CASE Release
  <2>1. JobTypes' /\ res' \in Ports
    BY <1>1, <1>2, BusyJob, FinishTypes, PortTypes DEF Release, At
  <2>. QED
    BY <1>2, <2>1 DEF Release, TypeOK, WorkerTypes, workers, stores, client, Ports
<1>3. CASE Retry
  <2>1. JobTypes' /\ res' \in Ports /\ pending' \in Seq(Event)
    BY <1>1, <1>3, BusyJob, FinishTypes, PortTypes, QueueTypes DEF Retry, At
  <2>. QED
    BY <1>3, <2>1 DEF Retry, TypeOK, WorkerTypes, workers, stores, client, Ports
<1>. QED
  BY <1>2, <1>3, DequeueTypes, RouteTypes, UnownedTypes, PlaceTypes, PostTypes, CommitTypes DEF SendWork

-----------------------------------------------------------------------------
(* restartTask *)

LEMMA RestartPickTypes == ASSUME TypeOK, NEW p \in Proc, RestartPick(p) PROVE TypeOK'
<1> DEFINE t == job[p].task
<1>1. t \in Task /\ job[p].pc # "idle"
  BY BusyJob DEF RestartPick, At
<1>2. CASE Select(p, t, job[p].old, "restart")
  <2>1. JobTypes' /\ res' \in Ports /\ faults' \in Nat
    BY <1>1, <1>2, SelectTypes DEF Pc
  <2>. QED
    BY <2>1 DEF RestartPick, TypeOK, WorkerTypes, workers, stores, client, Ports
<1>3. CASE /\ (Transient /\ Goto(p, "fail")) \/ (NoneAble(t) /\ Goto(p, "end"))
           /\ res' = res
  <2>1. JobTypes' /\ faults' \in Nat
    BY <1>1, <1>3, GotoTypes, CountedTypes DEF Transient, NoneAble, FaultKinds, Pc
  <2>. QED
    BY <1>3, <2>1 DEF RestartPick, TypeOK, WorkerTypes, workers, stores, client
<1>. QED
  BY <1>2, <1>3 DEF RestartPick

LEMMA RestartPostTypes == ASSUME TypeOK, NEW p \in Proc, RestartPost(p) PROVE TypeOK'
<1> DEFINE t == job[p].task
           n == job[p].node
           o == Start(job[p].snap.count + 1)
<1>1. t \in Task /\ job[p].pc # "idle"
  BY BusyJob DEF RestartPost, At
<1>2. JobTypes'
  BY <1>1, GotoTypes DEF RestartPost, Pc
<1>3. faults' \in Nat
  BY CountedTypes DEF RestartPost, Fails, Rejects, FaultKinds
<1>4. o \in Order
  <2>1. job[p].snap.count \in Nat
    BY BusyJob
  <2>2. job[p].snap.count + 1 \in Nat
    BY <2>1
  <2>. QED
    BY <2>2, Types
<1>5. ASSUME Accepts(n, t, o) PROVE WorkerTypes'
  BY <1>1, <1>4, <1>5, AcceptTypes, BusyJob
<1>6. Accepts(n, t, o) \/ UNCHANGED workers
  BY DEF RestartPost
<1>7. WorkerTypes'
  BY <1>5, <1>6, SameWorkers
<1>. QED
  BY <1>2, <1>3, <1>7 DEF RestartPost, TypeOK, stores, client

LEMMA RecommitTypes == ASSUME TypeOK, NEW p \in Proc, Recommit(p) PROVE TypeOK'
<1> DEFINE t == job[p].task
           j == [job[p] EXCEPT !.pc = "move", !.old = asg[t]]
<1>1. t \in Task /\ job[p].pc # "idle"
  BY BusyJob DEF Recommit, At
<1>2. j \in Job /\ j.task \in Task
  BY <1>1, Sources, Turns, NextJob
<1>3. ASSUME Become(p, j) PROVE JobTypes'
  BY <1>2, <1>3, BecomeTypes
<1>4. ASSUME Finish(p) \/ Goto(p, "undo") PROVE JobTypes'
  BY <1>1, <1>4, FinishTypes, GotoTypes DEF Pc
<1>5. JobTypes'
  BY <1>3, <1>4 DEF Recommit
<1>6. faults' \in Nat
  BY CountedTypes DEF Recommit, FaultKinds
<1>7. Next1(job[p]) \in Record
  <2>1. job[p].snap \in Record
    BY BusyJob
  <2>2. (job[p].snap.con /\ job[p].old = job[p].node) \in BOOLEAN /\ job[p].snap.count + 1 \in Nat
    BY <2>1 DEF Record
  <2>. QED
    BY <2>1, <2>2 DEF Next1, Record, State
<1>8. rec' \in [Task -> Record] /\ asg' \in [Task -> Node0]
  <2>1. job[p].node \in Node0
    BY BusyJob
  <2>. QED
    BY <1>7, <2>1 DEF Recommit, TypeOK, stores
<1>. QED
  BY <1>5, <1>6, <1>8 DEF Recommit, TypeOK, WorkerTypes, workers, client

LEMMA MoveTypes == ASSUME TypeOK, NEW p \in Proc, Move(p) PROVE TypeOK'
<1> DEFINE j == job[p]
<1>1. j.task \in Task
  BY BusyJob DEF Move, At
<1>2. JobTypes'
  BY FinishTypes DEF Move
<1>3. res' \in Ports
  BY <1>1, PortTypes DEF Move, Vacated
<1>4. WorkerTypes' /\ faults' \in Nat
  <2>1. CASE BestEffortStop(j.old, j.task, Stop(j.snap.count, j.snap.why))
    BY <1>1, <2>1, BestEffortTypes, BusyJob, Types
  <2>2. CASE UNCHANGED workers /\ NoFault
    BY <2>2, SameWorkers, CountedTypes
  <2>. QED
    BY <2>1, <2>2 DEF Move
<1>. QED
  BY <1>2, <1>3, <1>4 DEF Move, TypeOK, stores, client, Ports

LEMMA RestartingTypes == ASSUME TypeOK, NEW p \in Proc, Restarting(p) PROVE TypeOK'
<1>1. CASE RestartOwner(p)
  <2> DEFINE j == [job[p] EXCEPT !.pc = "pick", !.old = asg[job[p].task]]
  <2>1. job[p].task \in Task /\ job[p].pc # "idle"
    BY <1>1, BusyJob DEF RestartOwner, At
  <2>2. j \in Job /\ j.task \in Task
    BY <2>1, Sources, Turns, NextJob
  <2>3. JobTypes'
    BY <1>1, <2>2, BecomeTypes DEF RestartOwner
  <2>. QED
    BY <1>1, <2>3 DEF RestartOwner, TypeOK, WorkerTypes, workers, stores, client
<1>. QED
  BY <1>1, RestartPickTypes, RestartPostTypes, RecommitTypes, MoveTypes DEF Restarting

-----------------------------------------------------------------------------
(* The restart loop and the checks *)

LEMMA LoopTypes == ASSUME TypeOK, LoopNext PROVE TypeOK'
<1>1. CASE LoopSnapshot
  BY <1>1 DEF LoopSnapshot, TypeOK, JobTypes, WorkerTypes, workers, stores, client
<1>2. ASSUME NEW e \in todo, LoopVisit(e) PROVE TypeOK'
  <2>1. e.task \in Task /\ e.rec \in Record
    BY <1>2 DEF TypeOK
  <2>2. ASSUME NEW pc \in Pc, Visit(e, pc) PROVE JobTypes'
    <3>1. [Idle EXCEPT !.pc = pc, !.task = e.task, !.snap = e.rec] \in Job
      BY <2>1, Types DEF Job
    <3>2. [Idle EXCEPT !.pc = pc, !.task = e.task, !.snap = e.rec].task \in Task
      BY <2>1 DEF Idle
    <3>. QED
      BY <2>2, <3>1, <3>2, BecomeTypes, Types DEF Visit
  <2>3. Verdict(e.task, e.rec) \in {"skip", "owner", "end"}
    BY DEF Verdict
  <2>4. JobTypes'
    <3>1. CASE job' = job
      BY <3>1 DEF TypeOK, JobTypes
    <3>2. CASE Verdict(e.task, e.rec) # "skip" /\ Visit(e, Verdict(e.task, e.rec))
      BY <2>2, <2>3, <3>2 DEF Pc
    <3>. QED
      BY <1>2, <3>1, <3>2 DEF LoopVisit
  <2>. QED
    BY <1>2, <2>4 DEF LoopVisit, TypeOK, WorkerTypes, workers, stores, client
<1>3. ASSUME NEW e \in todo, LoopBackoff(e) PROVE TypeOK'
  BY <1>3 DEF LoopBackoff, TypeOK, JobTypes, WorkerTypes, workers, stores, client
<1>. QED
  BY <1>1, <1>2, <1>3 DEF LoopNext

LEMMA CheckFailsTypes == ASSUME TypeOK, NEW t \in Checked, CheckFails(t) PROVE TypeOK'
<1>1. t \in Task /\ t \in Proc /\ rec[t] \in Record
  BY ManagerAssumption, Types DEF TypeOK
<1>2. PICK pc \in Pc : Become(t, [Idle EXCEPT !.task = t, !.snap = rec[t], !.pc = pc])
  BY DEF CheckFails, Pc
<1>3. [Idle EXCEPT !.task = t, !.snap = rec[t], !.pc = pc] \in Job
  BY <1>1, Types DEF Job
<1>4. [Idle EXCEPT !.task = t, !.snap = rec[t], !.pc = pc].task \in Task
  BY <1>1 DEF Idle
<1>5. JobTypes'
  BY <1>1, <1>2, <1>3, <1>4, BecomeTypes
<1>. QED
  BY <1>5 DEF CheckFails, TypeOK, WorkerTypes, workers, stores, client

-----------------------------------------------------------------------------
(* The sync with the workers *)

SyncType == [node : Node0, list : SUBSET Report, forget : Task \union {NoTask}]

LEMMA SyncFetchTypes == ASSUME TypeOK, NEW n \in Node, SyncFetch(n) PROVE TypeOK'
<1> DEFINE list == {e \in {[task |-> t, rec |-> wdb[n][t]] : t \in Task} : e.rec # Unknown}
<1>1. list \in SUBSET Report
  BY DEF TypeOK, WorkerTypes, Report
<1>2. [SyncIdle EXCEPT !.node = n, !.list = list] \in SyncType
  BY <1>1, Types DEF SyncType, Node0
<1>3. sync' \in SyncType
  BY <1>2 DEF SyncFetch
<1>. QED
  BY <1>3 DEF SyncFetch, TypeOK, JobTypes, WorkerTypes, workers, stores, client, SyncType

\* A merge changes neither the count nor the user's stop.
LEMMA MergedTypes ==
    ASSUME NEW r \in Record, NEW w \in WorkerRecord
    PROVE  Merged(r, w) \in Record /\ Merged(r, w).count = r.count
<1> DEFINE seen == [r EXCEPT !.con = w.con, !.fin = @ \/ w.fin]
<1>1. seen \in Record /\ seen.count = r.count
  BY DEF Record, WorkerRecord
<1>2. [seen EXCEPT !.state = "Failed", !.why = TRUE] \in Record
  BY <1>1 DEF Record, State
<1>3. [seen EXCEPT !.state = w.state] \in Record
  BY <1>1 DEF Record, WorkerRecord, State
<1>4. \/ Merged(r, w) = [seen EXCEPT !.state = "Failed", !.why = TRUE]
      \/ Merged(r, w) = [seen EXCEPT !.state = w.state]
      \/ Merged(r, w) = seen
  <2>1. CASE w.state = "Failed"
    BY <2>1 DEF Merged
  <2>2. CASE w.state # "Failed" /\ ~IsTerminal(seen.state, seen.fin)
    BY <2>2 DEF Merged
  <2>3. CASE w.state # "Failed" /\ IsTerminal(seen.state, seen.fin)
    BY <2>3 DEF Merged
  <2>. QED
    BY <2>1, <2>2, <2>3
<1>. QED
  BY <1>1, <1>2, <1>3, <1>4 DEF Record

LEMMA LeftTypes == ASSUME NEW s \in SyncType PROVE Left(s) \in SyncType
  BY Types DEF Left, SyncType

LEMMA SyncApplyTypes == ASSUME TypeOK, SyncApply PROVE TypeOK'
<1>1. PICK e \in sync.list :
         /\ rec' = rec \/ (Known(e.task) /\ rec' = Synced(e.task, e.rec))
         /\ NoFault \/ Strikes("store")
         /\ sync' = Left([sync EXCEPT !.list = @ \ {e}, !.forget = Orphan(e.task)])
  BY DEF SyncApply
<1>2. e.task \in Task /\ e.rec \in WorkerRecord
  BY DEF TypeOK, Report
<1>3. rec' \in [Task -> Record]
  <2>1. Merged(rec[e.task], e.rec) \in Record
    BY <1>2, MergedTypes DEF TypeOK
  <2>. QED
    BY <1>1, <2>1 DEF Synced, TypeOK
<1>4. sync' \in SyncType
  <2>1. Orphan(e.task) \in Task \union {NoTask}
    BY <1>2 DEF Orphan
  <2>2. [sync EXCEPT !.list = @ \ {e}, !.forget = Orphan(e.task)] \in SyncType
    BY <2>1 DEF TypeOK, SyncType
  <2>. QED
    BY <1>1, <2>2, LeftTypes
<1>5. faults' \in Nat
  BY <1>1, CountedTypes DEF FaultKinds
<1>. QED
  BY <1>3, <1>4, <1>5 DEF SyncApply, TypeOK, JobTypes, WorkerTypes, workers, client, SyncType

LEMMA SyncForgetTypes == ASSUME TypeOK, SyncForget PROVE TypeOK'
<1> DEFINE n == sync.node
           t == sync.forget
<1>1. sync' \in SyncType
  <2>1. [sync EXCEPT !.forget = NoTask] \in SyncType
    BY DEF TypeOK, SyncType
  <2>. QED
    BY <2>1, LeftTypes DEF SyncForget
<1>2. WorkerTypes' /\ faults' \in Nat
  <2>1. CASE /\ NoFault
             /\ wdb' = [wdb EXCEPT ![n][t] = Unknown]
             /\ wq' = [wq EXCEPT ![n][t] = <<>>]
    <3>1. wdb' \in [Node -> [Task -> WorkerRecord]]
      BY <2>1, Types DEF TypeOK, WorkerTypes
    <3>2. wq' \in [Node -> [Task -> Seq(Order)]]
      <4>1. <<>> \in Seq(Order)
        OBVIOUS
      <4>. QED
        BY <2>1, <4>1 DEF TypeOK, WorkerTypes
    <3>. QED
      BY <2>1, <3>1, <3>2, CountedTypes DEF WorkerTypes
  <2>2. CASE (Fails(n) \/ Rejects(n)) /\ UNCHANGED workers
    BY <2>2, SameWorkers, CountedTypes DEF Fails, Rejects, FaultKinds
  <2>. QED
    BY <2>1, <2>2 DEF SyncForget
<1>. QED
  BY <1>1, <1>2 DEF SyncForget, TypeOK, JobTypes, stores, client, SyncType

-----------------------------------------------------------------------------
(* The workers, and a crash of the manager *)

LEMMA WorkerRunTypes ==
    ASSUME TypeOK, NEW n \in Node, NEW t \in Task, WorkerRun(n, t)
    PROVE  TypeOK'
<1> DEFINE o == Head(wq[n][t])
           w == wdb[n][t]
<1>0. wq[n][t] # <<>>
  BY DEF WorkerRun
<1>1. wq[n][t] \in Seq(Order) /\ wq[n][t] # <<>> /\ w \in WorkerRecord
  BY <1>0 DEF TypeOK, WorkerTypes
<1>2. o \in Order /\ Tail(wq[n][t]) \in Seq(Order)
  BY <1>1
<1>3. Ran(w, o) \in WorkerRecord
  BY <1>1, <1>2 DEF Ran, WorkerRecord, Order, State
<1>4. \A c \in BOOLEAN : [Ran(w, o) EXCEPT !.state = "Failed", !.con = c] \in WorkerRecord
  BY <1>3 DEF WorkerRecord, State
<1>5. wdb' \in [Node -> [Task -> WorkerRecord]]
  <2>1. wdb' = wdb \/ \E x \in WorkerRecord : wdb' = [wdb EXCEPT ![n][t] = x]
    <3>1. CASE wdb' = [wdb EXCEPT ![n][t] = Ran(@, o)]
      BY <1>3, <3>1
    <3>2. ASSUME NEW c \in BOOLEAN,
                 wdb' = [wdb EXCEPT ![n][t] = [Ran(@, o) EXCEPT !.state = "Failed", !.con = c]]
          PROVE  \E x \in WorkerRecord : wdb' = [wdb EXCEPT ![n][t] = x]
      BY <1>4, <3>2
    <3>3. CASE wdb' = wdb
      BY <3>3
    <3>4. \/ wdb' = wdb
          \/ wdb' = [wdb EXCEPT ![n][t] = Ran(@, o)]
          \/ \E c \in BOOLEAN :
                 wdb' = [wdb EXCEPT ![n][t] = [Ran(@, o) EXCEPT !.state = "Failed", !.con = c]]
      BY Zenon DEF WorkerRun
    <3>. QED
      BY <3>1, <3>2, <3>3, <3>4
  <2>2. wdb \in [Node -> [Task -> WorkerRecord]]
    BY DEF TypeOK, WorkerTypes
  <2>3. ASSUME NEW x \in WorkerRecord
        PROVE  [wdb EXCEPT ![n][t] = x] \in [Node -> [Task -> WorkerRecord]]
    BY <2>2
  <2>. QED
    BY <2>1, <2>2, <2>3
<1>6. wq' \in [Node -> [Task -> Seq(Order)]]
  BY <1>2 DEF WorkerRun, TypeOK, WorkerTypes
<1>7. faults' \in Nat
  BY CountedTypes DEF WorkerRun, FaultKinds
<1>. QED
  BY <1>5, <1>6, <1>7 DEF WorkerRun, TypeOK, JobTypes, WorkerTypes, stores, client

LEMMA WorkerExitTypes ==
    ASSUME TypeOK, NEW n \in Node, NEW t \in Task, WorkerExit(n, t)
    PROVE  TypeOK'
<1>1. wdb[n][t] \in WorkerRecord
  BY DEF TypeOK, WorkerTypes
<1>2. PICK ok \in BOOLEAN :
         wdb' = [wdb EXCEPT ![n][t].state = IF ok THEN "Completed" ELSE "Failed", ![n][t].fin = @ \/ ok]
  BY DEF WorkerExit
<1>3. wdb' \in [Node -> [Task -> WorkerRecord]]
  BY <1>1, <1>2 DEF TypeOK, WorkerTypes, WorkerRecord, State
<1>. QED
  BY <1>3 DEF WorkerExit, TypeOK, JobTypes, WorkerTypes, stores, client

LEMMA NodeDiesTypes == ASSUME TypeOK, NEW n \in Node, NodeDies(n) PROVE TypeOK'
<1>1. wdb' \in [Node -> [Task -> WorkerRecord]]
  BY Types DEF NodeDies, TypeOK, WorkerTypes
<1>2. wq' \in [Node -> [Task -> Seq(Order)]]
  <2>1. [t \in Task |-> <<>>] \in [Task -> Seq(Order)]
    OBVIOUS
  <2>. QED
    BY <2>1 DEF NodeDies, TypeOK, WorkerTypes
<1>. QED
  BY <1>1, <1>2 DEF NodeDies, TypeOK, JobTypes, WorkerTypes, stores, client

LEMMA CrashTypes == ASSUME TypeOK, Crash PROVE TypeOK'
<1>1. asg' \in [Task -> Node0]
  <2>1. \A p \in Proc : job[p].node \in Node0
    BY BusyJob
  <2>2. Survives \subseteq [Task -> Node0]
    BY <2>1 DEF Survives, HalfCommits, TypeOK
  <2>. QED
    BY <2>2 DEF Crash
<1>2. pending' \in Seq(Event)
  <2> DEFINE events == {[task |-> t, order |-> Start(0)] : t \in Task}
  <2>0. pending' \in UpTo(Cardinality(Task), events)
    BY DEF Crash
  <2>1. PICK k \in 0 .. Cardinality(Task) : pending' \in [1 .. k -> events]
    BY <2>0 DEF UpTo
  <2>2. events \subseteq Event
    <3>1. Start(0) \in Order
      BY Types
    <3>. QED
      BY <3>1 DEF Event
  <2>3. pending' \in [1 .. k -> Event]
    BY <2>1, <2>2
  <2>4. k \in Nat
    <3>1. Cardinality(Task) \in Nat
      BY ManagerAssumption, FS_CardinalityType
    <3>. QED
      BY <2>1, <3>1
  <2>. QED
    BY <2>3, <2>4
<1>3. JobTypes'
  BY Types DEF Crash, JobTypes, Idle
<1>4. res' \in Ports /\ sync' \in SyncType /\ crashes' \in Nat
  BY Types DEF Crash, TypeOK, Ports, SyncType
<1>. QED
  BY <1>1, <1>2, <1>3, <1>4 DEF Crash, TypeOK, WorkerTypes, workers, Ports, SyncType

-----------------------------------------------------------------------------
(* Type correctness *)

LEMMA NextTypes == TypeOK /\ [Next]_vars => TypeOK'
<1> SUFFICES ASSUME TypeOK, [Next]_vars PROVE TypeOK'
  OBVIOUS
<1>1. CASE UNCHANGED vars
  BY <1>1 DEF vars, stores, workers, client, TypeOK, JobTypes, WorkerTypes
<1>2. CASE \E t \in Task : Submit(t) \/ Queue(t)
  BY <1>2, ClientTypes
<1>3. CASE \E s \in Stopper : Stopping(s) \/ \E t \in Task : StopRead(s, t)
  BY <1>3, StoppingTypes, StopReadTypes
<1>4. CASE \E p \in Proc : Deleting(p) \/ Ending(p)
  BY <1>4, DeletingTypes, EndingTypes
<1>5. CASE SendWork
  BY <1>5, SendWorkTypes
<1>6. CASE \E p \in Restarter : Restarting(p)
  BY <1>6, RestartingTypes, Types DEF Restarter
<1>7. CASE LoopNext \/ \E t \in Checked : CheckFails(t)
  BY <1>7, LoopTypes, CheckFailsTypes
<1>8. CASE (\E n \in Node : SyncFetch(n)) \/ SyncApply \/ SyncForget
  BY <1>8, SyncFetchTypes, SyncApplyTypes, SyncForgetTypes
<1>9. CASE \/ \E n \in Node, t \in Task : WorkerRun(n, t) \/ WorkerExit(n, t)
           \/ \E n \in Node : NodeDies(n)
  BY <1>9, WorkerRunTypes, WorkerExitTypes, NodeDiesTypes
<1>10. CASE Crash
  BY <1>10, CrashTypes
<1>. QED
  BY <1>1, <1>2, <1>3, <1>4, <1>5, <1>6, <1>7, <1>8, <1>9, <1>10 DEF Next

\* The manager's state keeps its types: the records, the queue, the port
\* table, the workers' queues and the local state of every goroutine, through
\* every fault and crash; a goroutine that has work to do works on a task.
THEOREM TypeCorrect == Spec => []TypeOK
<1>1. Init => TypeOK
  BY InitTypes
<1>2. TypeOK /\ [Next]_vars => TypeOK'
  BY NextTypes
<1>. QED
  BY <1>1, <1>2, PTL DEF Spec

-----------------------------------------------------------------------------
(* The restart count *)

LEMMA Caps ==
    ASSUME NEW t \in Task
    PROVE  /\ Cap(t) \in Nat \ {0}
           /\ \A r \in Record : ~AtCap(t, r) => r.count < Cap(t)
<1>1. OwnCap[t] \in Nat /\ MaxRestarts \in Nat \ {0}
  BY ManagerAssumption
<1>2. Cap(t) \in Nat \ {0}
  BY <1>1 DEF Cap, EffectiveMaxRestarts
<1>3. ASSUME NEW r \in Record, ~AtCap(t, r) PROVE r.count < Cap(t)
  <2>1. r.count \in Nat
    BY DEF Record
  <2>. QED
    BY <1>2, <1>3, <2>1 DEF AtCap, AtRestartCap, Cap
<1>. QED
  BY <1>2, <1>3

JobsCounted == \A p \in Proc : JobCounted(job[p])

\* Only the goroutine that takes the step has to be looked at.
LEMMA BecomeCounted ==
    ASSUME TypeOK, CountInv, NEW p \in Proc, NEW j, JobCounted(j), Become(p, j)
    PROVE  JobsCounted'
  BY DEF TypeOK, JobTypes, CountInv, JobsCounted, JobCounted, Become

\* A step keeps what was read, and moves on to a tested stage only from one.
LEMMA KeptCounted ==
    ASSUME TypeOK, CountInv, NEW p \in Proc, job[p].pc # "idle", NEW j, Become(p, j),
           j.task = job[p].task, j.snap = job[p].snap, j.pc \in Tested => job[p].pc \in Tested
    PROVE  JobsCounted'
<1>1. JobCounted(job[p])
  BY DEF CountInv
<1>2. JobCounted(j)
  BY <1>1 DEF JobCounted
<1>. QED
  BY <1>2, BecomeCounted

LEMMA GotoCounted ==
    ASSUME TypeOK, CountInv, NEW p \in Proc, job[p].pc # "idle", NEW pc, Goto(p, pc),
           pc \in Tested => job[p].pc \in Tested
    PROVE  JobsCounted'
<1> DEFINE j == [job[p] EXCEPT !.pc = pc]
<1>1. j.task = job[p].task /\ j.snap = job[p].snap /\ j.pc = pc
  BY BusyJob DEF Job
<1>. QED
  BY <1>1, KeptCounted DEF Goto

LEMMA FinishCounted == ASSUME TypeOK, CountInv, NEW p \in Proc, Finish(p) PROVE JobsCounted'
<1>1. JobCounted(Idle)
  BY DEF JobCounted, Idle
<1>. QED
  BY <1>1, BecomeCounted DEF Finish

LEMMA SelectCounted ==
    ASSUME TypeOK, CountInv, NEW p \in Proc, job[p].pc \in Tested, NEW pc, NEW owner,
           Select(p, job[p].task, owner, pc)
    PROVE  JobsCounted'
<1>1. PICK n \in Node : Become(p, [job[p] EXCEPT !.pc = pc, !.node = n])
  BY DEF Select
<1> DEFINE j == [job[p] EXCEPT !.pc = pc, !.node = n]
<1>2. j.task = job[p].task /\ j.snap = job[p].snap
  BY BusyJob DEF Job
<1>3. job[p].pc # "idle"
  BY DEF Tested
<1>. QED
  BY <1>1, <1>2, <1>3, KeptCounted

\* Steps that change no record and no snapshot of the loop.
LEMMA SameCounts ==
    ASSUME CountInv, UNCHANGED <<rec, todo>>, JobsCounted'
    PROVE  CountInv'
  BY DEF CountInv, CountBounded, ReadCounted, JobsCounted, JobCounted, Cap

\* Steps that write one record.
LEMMA WriteCounts ==
    ASSUME TypeOK, CountInv, NEW t \in Task, NEW r, r.count <= Cap(t),
           rec' = rec \/ rec' = [rec EXCEPT ![t] = r], todo' = todo, JobsCounted'
    PROVE  CountInv'
<1>1. CountBounded'
  BY DEF TypeOK, CountInv, CountBounded, Cap
<1>2. ReadCounted'
  BY DEF CountInv, ReadCounted, Cap
<1>. QED
  BY <1>1, <1>2 DEF CountInv, JobsCounted, JobCounted, Cap

LEMMA BlankCounts == \A t \in Task : Fresh.count <= Cap(t) /\ NoRecord.count <= Cap(t)
  BY Caps DEF Fresh, NoRecord

LEMMA StoppingCounts ==
    ASSUME TypeOK, CountInv, NEW s \in Stopper, Stopping(s)
    PROVE  CountInv'
<1> DEFINE t == job[s].task
<1>1. s \in Proc /\ t \in Task /\ job[s].pc # "idle"
  BY BusyJob, Types DEF Stopping, StopDecide, StopMark, StopQueue, At
<1>2. CASE StopDecide(s)
  <2>1. JobsCounted'
    BY <1>1, <1>2, GotoCounted DEF StopDecide, Tested
  <2>. QED
    BY <1>2, <2>1, SameCounts DEF StopDecide, stores
<1>3. CASE StopMark(s)
  <2>1. JobsCounted'
    BY <1>1, <1>3, GotoCounted, FinishCounted DEF StopMark, Tested
  <2>2. [rec[t] EXCEPT !.manual = TRUE].count <= Cap(t)
    BY <1>1 DEF CountInv, CountBounded, TypeOK, Record
  <2>3. rec' = rec \/ rec' = [rec EXCEPT ![t] = [rec[t] EXCEPT !.manual = TRUE]]
    BY <1>3 DEF StopMark
  <2>4. todo' = todo
    BY <1>3 DEF StopMark
  <2>. QED
    BY <1>1, <2>1, <2>2, <2>3, <2>4, WriteCounts
<1>4. CASE StopQueue(s)
  <2>1. JobsCounted'
    BY <1>1, <1>4, FinishCounted DEF StopQueue
  <2>. QED
    BY <1>4, <2>1, SameCounts DEF StopQueue, stores
<1>. QED
  BY <1>2, <1>3, <1>4 DEF Stopping

LEMMA ClientCounts ==
    ASSUME TypeOK, CountInv, NEW t \in Task,
           Submit(t) \/ Queue(t) \/ \E s \in Stopper : StopRead(s, t)
    PROVE  CountInv'
<1>1. CASE Submit(t) \/ Queue(t)
  <2>1. rec' = rec \/ rec' = [rec EXCEPT ![t] = Fresh]
    BY <1>1 DEF Submit, Queue, stores
  <2>2. todo' = todo /\ job' = job
    BY <1>1 DEF Submit, Queue
  <2>3. JobsCounted'
    BY <2>2 DEF CountInv, JobsCounted, JobCounted, Cap
  <2>. QED
    BY <2>1, <2>2, <2>3, BlankCounts, WriteCounts
<1>2. ASSUME NEW s \in Stopper, StopRead(s, t) PROVE CountInv'
  <2> DEFINE j == [Idle EXCEPT !.pc = "decide", !.task = t, !.snap = rec[t]]
  <2>1. j.pc = "decide" /\ j.task = t /\ j.snap = rec[t]
    BY DEF Idle
  <2>2. JobCounted(j)
    BY <2>1 DEF JobCounted, Tested, CountInv, CountBounded
  <2>3. JobsCounted'
    BY <1>2, <2>2, BecomeCounted, Types DEF StopRead
  <2>. QED
    BY <1>2, <2>3, SameCounts DEF StopRead, stores
<1>. QED
  BY <1>1, <1>2

LEMMA DeletingCounts == ASSUME TypeOK, CountInv, NEW p \in Proc, Deleting(p) PROVE CountInv'
<1> DEFINE t == job[p].task
<1>1. t \in Task /\ job[p].pc # "idle"
  BY BusyJob DEF Deleting, Delete, Drop, Clean, At
<1>2. CASE Delete(p)
  <2> DEFINE j == [job[p] EXCEPT !.pc = "drop", !.old = asg[t]]
  <2>1. j.task = job[p].task /\ j.snap = job[p].snap /\ j.pc = "drop"
    BY BusyJob DEF Job
  <2>2. Become(p, j) \/ Goto(p, "retry") \/ Finish(p)
    BY <1>2 DEF Delete
  <2>3. JobsCounted'
    <3>1. CASE Become(p, j)
      BY <1>1, <2>1, <3>1, KeptCounted DEF Tested
    <3>2. CASE Goto(p, "retry") \/ Finish(p)
      BY <1>1, <3>2, GotoCounted, FinishCounted DEF Tested
    <3>. QED
      BY <2>2, <3>1, <3>2
  <2>4. rec' = rec \/ rec' = [rec EXCEPT ![t] = NoRecord]
    BY <1>2 DEF Delete, stores
  <2>5. todo' = todo
    BY <1>2 DEF Delete
  <2>. QED
    BY <1>1, <2>3, <2>4, <2>5, BlankCounts, WriteCounts
<1>3. CASE Drop(p)
  <2>1. JobsCounted'
    BY <1>1, <1>3, GotoCounted, FinishCounted DEF Drop, Tested
  <2>. QED
    BY <1>3, <2>1, SameCounts DEF Drop, stores
<1>4. CASE Clean(p)
  <2>1. JobsCounted'
    BY <1>4, FinishCounted DEF Clean
  <2>. QED
    BY <1>4, <2>1, SameCounts DEF Clean, stores
<1>. QED
  BY <1>2, <1>3, <1>4 DEF Deleting

LEMMA EndingCounts == ASSUME TypeOK, CountInv, NEW p \in Proc, Ending(p) PROVE CountInv'
<1> DEFINE t == job[p].task
<1>1. t \in Task /\ job[p].pc # "idle"
  BY BusyJob DEF Ending, MarkFailed, End, Kill, Undo, At
<1>2. CASE MarkFailed(p)
  <2> DEFINE n == IF At(p, "burn") THEN job[p].snap.count + 1 ELSE job[p].snap.count
  <2>1. JobsCounted'
    BY <1>2, FinishCounted DEF MarkFailed
  <2>2. n <= Cap(t)
    <3>1. job[p].snap.count \in Nat /\ Cap(t) \in Nat
      BY <1>1, BusyJob, Caps
    <3>2. job[p].snap.count <= Cap(t) /\ (At(p, "burn") => job[p].snap.count < Cap(t))
      BY <1>1 DEF CountInv, JobCounted, Tested, At
    <3>. QED
      BY <3>1, <3>2
  <2>3. Retryable(rec[t], n).count = n
    BY <1>1 DEF Retryable, TypeOK, Record
  <2>4. rec' = rec \/ rec' = [rec EXCEPT ![t] = Retryable(rec[t], n)]
    BY <1>2 DEF MarkFailed
  <2>5. todo' = todo
    BY <1>2 DEF MarkFailed
  <2>. QED
    BY <1>1, <2>1, <2>2, <2>3, <2>4, <2>5, WriteCounts
<1>3. CASE End(p)
  <2> DEFINE j == [job[p] EXCEPT !.pc = "kill", !.old = asg[t]]
  <2>1. j.task = job[p].task /\ j.snap = job[p].snap /\ j.pc = "kill"
    BY BusyJob DEF Job
  <2>2. JobsCounted'
    BY <1>1, <1>3, <2>1, KeptCounted DEF End, Tested
  <2>3. Terminal(job[p].snap).count <= Cap(t)
    BY <1>1, BusyJob DEF Terminal, Record, CountInv, JobCounted
  <2>4. rec' = rec \/ rec' = [rec EXCEPT ![t] = Terminal(job[p].snap)]
    BY <1>3 DEF End
  <2>5. todo' = todo
    BY <1>3 DEF End
  <2>. QED
    BY <1>1, <2>2, <2>3, <2>4, <2>5, WriteCounts
<1>4. CASE Kill(p)
  <2>1. JobsCounted'
    BY <1>4, FinishCounted DEF Kill
  <2>. QED
    BY <1>4, <2>1, SameCounts DEF Kill, stores
<1>5. CASE Undo(p)
  <2>1. JobsCounted'
    BY <1>1, <1>5, GotoCounted, FinishCounted DEF Undo, Tested
  <2>. QED
    BY <1>5, <2>1, SameCounts DEF Undo, stores
<1>. QED
  BY <1>2, <1>3, <1>4, <1>5 DEF Ending

LEMMA PlacingCounts ==
    ASSUME TypeOK, CountInv, Dequeue \/ Route \/ Unowned \/ Place
    PROVE  CountInv'
<1> DEFINE d == Dispatcher
           t == job[d].task
<1>1. d \in Proc
  BY Types
<1>2. JobsCounted'
  <2>1. CASE Dequeue
    <3> DEFINE e == Head(pending)
               j == [Idle EXCEPT !.pc = "route", !.task = e.task, !.order = e.order, !.snap = Fresh]
    <3>1. e.task \in Task
      <4>1. pending \in Seq(Event) /\ pending # <<>>
        BY <2>1 DEF Dequeue, TypeOK
      <4>2. e \in Event
        BY <4>1
      <4>. QED
        BY <4>2 DEF Event
    <3>2. j.task = e.task /\ j.snap = Fresh
      BY DEF Idle
    <3>3. Fresh.count < Cap(e.task) /\ Fresh.count <= Cap(e.task)
      BY <3>1, Caps DEF Fresh
    <3>4. JobCounted(j)
      BY <3>2, <3>3 DEF JobCounted
    <3>. QED
      BY <1>1, <2>1, <3>4, BecomeCounted DEF Dequeue
  <2>2. CASE Route
    <3> DEFINE j == [job[d] EXCEPT !.pc = "post", !.node = asg[t]]
    <3>1. job[d].pc = "route"
      BY <2>2 DEF Route, At
    <3>2. job[d].pc \in Tested /\ job[d].pc # "idle"
      BY <3>1 DEF Tested
    <3>3. j.task = job[d].task /\ j.snap = job[d].snap
      BY <1>1, BusyJob DEF Job
    <3>4. ASSUME NEW pc, Goto(d, pc) PROVE JobsCounted'
      BY <1>1, <3>2, <3>4, GotoCounted
    <3>5. ASSUME Become(d, j) PROVE JobsCounted'
      BY <1>1, <3>2, <3>3, <3>5, KeptCounted
    <3>. QED
      BY <2>2, <3>4, <3>5 DEF Route
  <2>3. CASE Unowned
    <3> DEFINE j == [job[d] EXCEPT !.pc = "delete", !.snap = rec[t]]
    <3>1. t \in Task
      BY <1>1, <2>3, BusyJob DEF Unowned, At
    <3>2. j.pc = "delete" /\ j.task = t /\ j.snap = rec[t]
      BY <1>1, BusyJob DEF Job
    <3>3. JobCounted(j)
      BY <3>1, <3>2 DEF JobCounted, Tested, CountInv, CountBounded
    <3>. QED
      BY <1>1, <2>3, <3>3, BecomeCounted, FinishCounted DEF Unowned
  <2>4. CASE Place
    <3>1. job[d].pc = "place"
      BY <2>4 DEF Place, At
    <3>2. job[d].pc \in Tested /\ job[d].pc # "idle"
      BY <3>1 DEF Tested
    <3>3. Finish(d) \/ Select(d, t, NoNode, "post") \/ Goto(d, "end")
      BY <2>4 DEF Place
    <3>. QED
      BY <1>1, <3>2, <3>3, FinishCounted, SelectCounted, GotoCounted
  <2>. QED
    BY <2>1, <2>2, <2>3, <2>4
<1>3. UNCHANGED <<rec, todo>>
  BY DEF Dequeue, Route, Unowned, Place, stores
<1>. QED
  BY <1>2, <1>3, SameCounts

LEMMA SendingCounts ==
    ASSUME TypeOK, CountInv, Post \/ Release \/ Retry \/ Commit
    PROVE  CountInv'
<1> DEFINE d == Dispatcher
           t == job[d].task
<1>1. d \in Proc /\ t \in Task /\ job[d].pc # "idle"
  BY BusyJob, Types DEF Post, Release, Retry, Commit, At
<1>2. CASE Post
  <2>1. job[d].pc = "post"
    BY <1>2 DEF Post, At
  <2>2. job[d].pc \in Tested
    BY <2>1 DEF Tested
  <2>3. Finish(d) \/ \E pc \in Pc : Goto(d, pc)
    BY <1>2 DEF Post, Pc
  <2>4. JobsCounted'
    BY <1>1, <2>2, <2>3, FinishCounted, GotoCounted
  <2>. QED
    BY <1>2, <2>4, SameCounts DEF Post, stores
<1>3. CASE Release \/ Retry
  <2>1. JobsCounted'
    BY <1>1, <1>3, FinishCounted DEF Release, Retry
  <2>. QED
    BY <1>3, <2>1, SameCounts DEF Release, Retry, stores
<1>4. CASE Commit
  <2> DEFINE j(b) == [job[d] EXCEPT !.pc = "undo", !.again = b]
  <2>1. \A b \in BOOLEAN : j(b).task = job[d].task /\ j(b).snap = job[d].snap /\ j(b).pc = "undo"
    BY <1>1, BusyJob DEF Job
  <2>2. Finish(d) \/ \E b \in BOOLEAN : Become(d, j(b))
    BY <1>4 DEF Commit
  <2>3. JobsCounted'
    BY <1>1, <2>1, <2>2, FinishCounted, KeptCounted DEF Tested
  <2>4. [Fresh EXCEPT !.state = "Scheduled"].count <= Cap(t)
    BY <1>1, BlankCounts DEF Fresh
  <2>5. rec' = rec \/ rec' = [rec EXCEPT ![t] = [Fresh EXCEPT !.state = "Scheduled"]]
    BY <1>4 DEF Commit, stores
  <2>6. todo' = todo
    BY <1>4 DEF Commit
  <2>. QED
    BY <1>1, <2>3, <2>4, <2>5, <2>6, WriteCounts
<1>. QED
  BY <1>2, <1>3, <1>4

LEMMA RestartingCounts == ASSUME TypeOK, CountInv, NEW p \in Proc, Restarting(p) PROVE CountInv'
<1> DEFINE t == job[p].task
<1>1. t \in Task /\ job[p].pc # "idle"
  BY BusyJob DEF Restarting, RestartOwner, RestartPick, RestartPost, Recommit, Move, At
<1>2. CASE RestartOwner(p)
  <2> DEFINE j == [job[p] EXCEPT !.pc = "pick", !.old = asg[t]]
  <2>1. j.task = job[p].task /\ j.snap = job[p].snap
    BY BusyJob DEF Job
  <2>2. job[p].pc = "owner"
    BY <1>2 DEF RestartOwner, At
  <2>3. job[p].pc \in Tested
    BY <2>2 DEF Tested
  <2>4. JobsCounted'
    BY <1>1, <1>2, <2>1, <2>3, KeptCounted DEF RestartOwner
  <2>. QED
    BY <1>2, <2>4, SameCounts DEF RestartOwner, stores
<1>3. CASE RestartPick(p)
  <2>1. job[p].pc = "pick"
    BY <1>3 DEF RestartPick, At
  <2>2. job[p].pc \in Tested
    BY <2>1 DEF Tested
  <2>3. Select(p, t, job[p].old, "restart") \/ Goto(p, "fail") \/ Goto(p, "end")
    BY <1>3 DEF RestartPick
  <2>4. JobsCounted'
    BY <1>1, <2>2, <2>3, SelectCounted, GotoCounted
  <2>. QED
    BY <1>3, <2>4, SameCounts DEF RestartPick, stores
<1>4. CASE RestartPost(p)
  <2>1. job[p].pc = "restart"
    BY <1>4 DEF RestartPost, At
  <2>2. job[p].pc \in Tested
    BY <2>1 DEF Tested
  <2>3. Goto(p, "recommit") \/ Goto(p, "fail") \/ Goto(p, "burn")
    BY <1>4 DEF RestartPost
  <2>4. JobsCounted'
    BY <1>1, <2>2, <2>3, GotoCounted
  <2>. QED
    BY <1>4, <2>4, SameCounts DEF RestartPost, stores
<1>5. CASE Recommit(p)
  <2> DEFINE j == [job[p] EXCEPT !.pc = "move", !.old = asg[t]]
  <2>1. j.task = job[p].task /\ j.snap = job[p].snap /\ j.pc = "move"
    BY BusyJob DEF Job
  <2>2. JobsCounted'
    <3>1. ASSUME Become(p, j) PROVE JobsCounted'
      BY <1>1, <2>1, <3>1, KeptCounted DEF Tested
    <3>2. ASSUME Finish(p) \/ Goto(p, "undo") PROVE JobsCounted'
      BY <1>1, <3>2, FinishCounted, GotoCounted DEF Tested
    <3>3. Become(p, j) \/ Finish(p) \/ Goto(p, "undo")
      BY <1>5 DEF Recommit
    <3>. QED
      BY <3>1, <3>2, <3>3
  <2>3. Next1(job[p]).count <= Cap(t)
    <3>1. job[p].snap \in Record /\ job[p].snap.count \in Nat /\ Cap(t) \in Nat
      BY <1>1, BusyJob, Caps
    <3>2. Next1(job[p]).count = job[p].snap.count + 1
      BY <3>1 DEF Next1, Record
    <3>3. job[p].snap.count < Cap(t)
      <4>1. job[p].pc = "recommit"
        BY <1>5 DEF Recommit, At
      <4>. QED
        BY <4>1 DEF CountInv, JobCounted, Tested
    <3>. QED
      BY <3>1, <3>2, <3>3
  <2>4. rec' = rec \/ rec' = [rec EXCEPT ![t] = Next1(job[p])]
    BY <1>5 DEF Recommit, stores
  <2>5. todo' = todo
    BY <1>5 DEF Recommit
  <2>. QED
    BY <1>1, <2>2, <2>3, <2>4, <2>5, WriteCounts
<1>6. CASE Move(p)
  <2>1. JobsCounted'
    BY <1>6, FinishCounted DEF Move
  <2>. QED
    BY <1>6, <2>1, SameCounts DEF Move, stores
<1>. QED
  BY <1>2, <1>3, <1>4, <1>5, <1>6 DEF Restarting

LEMMA LoopCounts == ASSUME TypeOK, CountInv, LoopNext PROVE CountInv'
<1>1. CASE LoopSnapshot
  <2>1. UNCHANGED <<rec, job>>
    BY <1>1 DEF LoopSnapshot, stores
  <2>2. \A e \in todo' : e.rec = rec[e.task] /\ e.task \in Task
    BY <1>1 DEF LoopSnapshot
  <2>3. ReadCounted'
    BY <2>2 DEF ReadCounted, CountInv, CountBounded, Cap
  <2>. QED
    BY <2>1, <2>3 DEF CountInv, CountBounded, JobCounted, Cap
<1>2. ASSUME NEW e \in todo, LoopVisit(e) \/ LoopBackoff(e) PROVE CountInv'
  <2>1. rec' = rec /\ todo' \subseteq todo
    BY <1>2 DEF LoopVisit, LoopBackoff, stores
  <2>2. JobsCounted'
    <3>1. CASE job' = job
      BY <3>1 DEF CountInv, JobsCounted, JobCounted, Cap
    <3>2. ASSUME NEW pc, pc = Verdict(e.task, e.rec), pc # "skip", Visit(e, pc) PROVE JobsCounted'
      <4> DEFINE j == [Idle EXCEPT !.pc = pc, !.task = e.task, !.snap = e.rec]
      <4>1. e.task \in Task /\ e.rec \in Record
        BY DEF TypeOK
      <4>2. j.pc = pc /\ j.task = e.task /\ j.snap = e.rec
        BY DEF Idle
      <4>3. e.rec.count <= Cap(e.task)
        BY DEF CountInv, ReadCounted
      <4>4. pc = "owner" \/ pc = "end"
        BY <3>2 DEF Verdict
      <4>5. pc = "owner" => ~AtCap(e.task, e.rec)
        BY <3>2 DEF Verdict
      <4>6. pc \in Tested => e.rec.count < Cap(e.task)
        BY <4>1, <4>4, <4>5, Caps DEF Tested
      <4>7. JobCounted(j)
        BY <4>2, <4>3, <4>6 DEF JobCounted
      <4>. QED
        BY <3>2, <4>7, BecomeCounted, Types DEF Visit
    <3>. QED
      BY <1>2, <3>1, <3>2 DEF LoopVisit, LoopBackoff
  <2>. QED
    BY <2>1, <2>2 DEF CountInv, CountBounded, ReadCounted, JobsCounted, JobCounted, Cap
<1>. QED
  BY <1>1, <1>2 DEF LoopNext

LEMMA CheckFailsCounts == ASSUME TypeOK, CountInv, NEW t \in Checked, CheckFails(t) PROVE CountInv'
<1> DEFINE pc == IF ~AtCap(t, rec[t]) /\ ShouldRestart(PolicyOf[t]) THEN "owner" ELSE "end"
           j == [Idle EXCEPT !.task = t, !.snap = rec[t], !.pc = pc]
<1>1. t \in Task /\ t \in Proc /\ rec[t] \in Record
  BY ManagerAssumption, Types DEF TypeOK
<1>2. j.pc = pc /\ j.task = t /\ j.snap = rec[t]
  BY DEF Idle
<1>3. pc \in Tested => rec[t].count < Cap(t)
  BY <1>1, Caps DEF Tested
<1>4. JobCounted(j)
  BY <1>1, <1>2, <1>3 DEF JobCounted, CountInv, CountBounded
<1>5. JobsCounted'
  BY <1>1, <1>4, BecomeCounted DEF CheckFails
<1>. QED
  BY <1>5, SameCounts DEF CheckFails, stores

LEMMA SyncCounts ==
    ASSUME TypeOK, CountInv, SyncApply \/ SyncForget \/ \E n \in Node : SyncFetch(n)
    PROVE  CountInv'
<1>1. UNCHANGED <<job, todo>>
  BY DEF SyncApply, SyncForget, SyncFetch
<1>2. JobsCounted'
  BY <1>1 DEF CountInv, JobsCounted, JobCounted, Cap
<1>3. CASE SyncApply
  <2>1. PICK e \in sync.list : rec' = rec \/ rec' = Synced(e.task, e.rec)
    BY <1>3 DEF SyncApply
  <2>2. e.task \in Task /\ e.rec \in WorkerRecord /\ rec[e.task] \in Record
    BY DEF TypeOK, Report
  <2>3. Merged(rec[e.task], e.rec).count <= Cap(e.task)
    BY <2>2, MergedTypes DEF CountInv, CountBounded
  <2>4. rec' = rec \/ rec' = [rec EXCEPT ![e.task] = Merged(rec[e.task], e.rec)]
    BY <2>1 DEF Synced
  <2>. QED
    BY <1>1, <1>2, <2>2, <2>3, <2>4, WriteCounts
<1>4. CASE SyncForget \/ \E n \in Node : SyncFetch(n)
  <2>1. rec' = rec
    BY <1>4 DEF SyncForget, SyncFetch, stores
  <2>. QED
    BY <1>1, <1>2, <2>1, SameCounts
<1>. QED
  BY <1>3, <1>4

LEMMA CrashCounts == ASSUME CountInv, Crash PROVE CountInv'
<1>1. rec' = rec /\ todo' = {}
  BY DEF Crash
<1>2. JobsCounted'
  BY DEF Crash, JobsCounted, JobCounted, Idle
<1>. QED
  BY <1>1, <1>2 DEF CountInv, CountBounded, ReadCounted, JobsCounted, JobCounted, Cap

LEMMA NextCounts == TypeOK /\ CountInv /\ [Next]_vars => CountInv'
<1> SUFFICES ASSUME TypeOK, CountInv, [Next]_vars PROVE CountInv'
  OBVIOUS
<1>1. ASSUME UNCHANGED <<rec, job, todo>> PROVE CountInv'
  BY <1>1 DEF CountInv, CountBounded, ReadCounted, JobCounted, Cap
<1>2. CASE UNCHANGED vars
  BY <1>1, <1>2 DEF vars, stores
<1>3. CASE \E t \in Task : Submit(t) \/ Queue(t)
  BY <1>3, ClientCounts
<1>4. CASE \E s \in Stopper : Stopping(s) \/ \E t \in Task : StopRead(s, t)
  BY <1>4, StoppingCounts, ClientCounts
<1>5. CASE \E p \in Proc : Deleting(p) \/ Ending(p)
  BY <1>5, DeletingCounts, EndingCounts
<1>6. CASE SendWork
  BY <1>6, PlacingCounts, SendingCounts DEF SendWork
<1>7. CASE \E p \in Restarter : Restarting(p)
  BY <1>7, RestartingCounts, Types DEF Restarter
<1>8. CASE LoopNext \/ \E t \in Checked : CheckFails(t)
  BY <1>8, LoopCounts, CheckFailsCounts
<1>9. CASE (\E n \in Node : SyncFetch(n)) \/ SyncApply \/ SyncForget
  BY <1>9, SyncCounts
<1>10. CASE \/ \E n \in Node, t \in Task : WorkerRun(n, t) \/ WorkerExit(n, t)
            \/ \E n \in Node : NodeDies(n)
  <2>1. UNCHANGED <<stores, job, todo>>
    BY <1>10 DEF WorkerRun, WorkerExit, NodeDies
  <2>. QED
    BY <1>1, <2>1 DEF stores
<1>11. CASE Crash
  BY <1>11, CrashCounts
<1>. QED
  BY <1>2, <1>3, <1>4, <1>5, <1>6, <1>7, <1>8, <1>9, <1>10, <1>11 DEF Next

\* No record ever counts more restarts than the task's cap: not when a restart
\* is rejected (markFailed burns a slot), its reply is lost or its commit is
\* rolled back, nor when restartFailedTasks and a checker restart a task at
\* once, each from the record it has read.
THEOREM RestartsBounded == Spec => []CountBounded
<1>1. Init => CountInv
  <2>1. \A t \in Task : NoRecord.count <= Cap(t)
    BY BlankCounts
  <2>2. JobCounted(Idle)
    BY DEF JobCounted, Idle
  <2>. QED
    BY <2>1, <2>2 DEF Init, CountInv, CountBounded, ReadCounted
<1>2. TypeOK /\ CountInv /\ [Next]_vars => CountInv'
  BY NextCounts
<1>3. CountInv => CountBounded
  BY DEF CountInv
<1>. QED
  BY <1>1, <1>2, <1>3, TypeCorrect, PTL DEF Spec
=============================================================================
