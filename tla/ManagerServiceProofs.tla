------------------------- MODULE ManagerServiceProofs -------------------------
(***************************************************************************)
(* What the manager's goroutines owe the user of a task, for any set of    *)
(* tasks, nodes and policies and whatever fails: its phases follow those   *)
(* of TaskService, a pending task has an event that will place it, a port  *)
(* reserved for it is given back, and once stopped it is not tried again.  *)
(***************************************************************************)
EXTENDS ManagerProofs

\* A task without a record was deleted; a record is that of a submitted task.
RecordsKnown ==
    \A t \in Task : /\ Known(t) => t \in submitted
                    /\ t \in submitted /\ ~Known(t) => t \in stopped

\* Whatever names a task, names one that was submitted.
QueuesKnown ==
    /\ adding \subseteq submitted
    /\ \A i \in DOMAIN pending : pending[i].task \in submitted
    /\ \A e \in todo : e.task \in submitted

\* Who has seen a task leave the queue, or deletes it, finds it so later on.
JobKnown(j) ==
    j.pc # "idle" => /\ j.task \in submitted
                     /\ j.pc \in {"decide", "mark"} /\ j.snap.state # "Pending"
                            => rec[j.task].state # "Pending"
                     /\ j.pc = "mark" => j.snap.state # "Pending"
                     /\ j.pc = "drop" => rec[j.task].state # "Pending"
JobsKnown == \A p \in Proc : JobKnown(job[p])

\* A worker reports no task without a record.
ReportsKnown ==
    /\ \A n \in Node, t \in Task : wdb[n][t].state = "Absent" => wdb[n][t] = Unknown
    /\ \A e \in sync.list : e.rec.state # "Absent"

LifeInv == RecordsKnown /\ QueuesKnown /\ JobsKnown /\ ReportsKnown

\* The start of a pending task is queued, or SendWork has yet to commit,
\* requeue or fail it.
Carrying == {"route", "place", "post", "commit", "retry", "fail", "burn", "end"}
CarriedBy(j, t) == /\ j.task = t /\ j.order.kind = "start"
                   /\ j.pc \in Carrying \/ (j.pc = "undo" /\ j.again)
Queued(q, t) == \E i \in DOMAIN q : q[i].task = t /\ q[i].order.kind = "start"
Carried(t) == t \in adding \/ Queued(pending, t) \/ CarriedBy(job[Dispatcher], t)
EventInv == \A t \in Task : rec[t].state = "Pending" => Carried(t)

-----------------------------------------------------------------------------
(* Steps of the service *)

Serves == Service!Next \/ (\E t \in Task : LateRestart(t)) \/ UNCHANGED (Service!service)

LEMMA PhaseKept ==
    ASSUME NEW u \in Task, rec'[u].state = rec[u].state, submitted' = submitted
    PROVE  PhaseOf(u)' = PhaseOf(u)
  BY DEF PhaseOf, Known

\* The phase of a submitted task is that of its record.
LEMMA PhaseIs ==
    ASSUME NEW u \in Task, u \in submitted
    PROVE  /\ rec[u].state = "Absent" => PhaseOf(u) = "gone"
           /\ rec[u].state = "Pending" => PhaseOf(u) = "waiting"
           /\ rec[u].state \in {"Scheduled", "Running"} => PhaseOf(u) = "placed"
           /\ rec[u].state \in {"Completed", "Failed"} => PhaseOf(u) = "ended"
  BY DEF PhaseOf, Known

LEMMA MoveStep ==
    ASSUME NEW t \in Task, NEW from, NEW to, PhaseOf(t) \in from, PhaseOf(t)' = to,
           \A u \in Task : u # t => PhaseOf(u)' = PhaseOf(u)
    PROVE  Service!Move(t, from, to)
  BY DEF Service!Move

LEMMA PhasesKept ==
    ASSUME \A u \in Task : PhaseOf(u)' = PhaseOf(u), stopped' = stopped
    PROVE  Serves
  BY DEF Serves, Service!service

\* What a step may do to the records: no task returns to the queue, none that
\* was not submitted gets a record, and one without a record was deleted.
Tame ==
    /\ submitted' = submitted
    /\ \A t \in Task : rec'[t].state = "Pending" => rec[t].state = "Pending"

RecordsStep == Tame /\ RecordsKnown' /\ Serves

LEMMA QuietStep ==
    ASSUME RecordsKnown, UNCHANGED <<rec, submitted, stopped>>
    PROVE  RecordsStep
<1>1. \A u \in Task : PhaseOf(u)' = PhaseOf(u)
  BY PhaseKept
<1>2. Serves
  BY <1>1, PhasesKept
<1>3. RecordsKnown'
  BY DEF RecordsKnown, Known
<1>. QED
  BY <1>2, <1>3 DEF RecordsStep, Tame

\* A record is written: the task ends, or is placed while it has a record, or
\* stays where it is.
LEMMA WriteStep ==
    ASSUME TypeOK, RecordsKnown, NEW t \in Task, t \in submitted, NEW r,
           rec' = [rec EXCEPT ![t] = r], UNCHANGED <<submitted, stopped>>,
           \/ r.state \in {"Completed", "Failed"}
           \/ Known(t) /\ r.state \in {"Scheduled", "Running"}
           \/ r.state = rec[t].state
    PROVE  RecordsStep
<1>1. rec'[t] = r /\ \A u \in Task : u # t => rec'[u] = rec[u]
  BY DEF TypeOK
<1>2. \A u \in Task : u # t => PhaseOf(u)' = PhaseOf(u)
  BY <1>1, PhaseKept
<1>3. Tame
  BY <1>1 DEF Tame
<1>4. RecordsKnown'
  <2> SUFFICES ASSUME NEW u \in Task
               PROVE  (Known(u)' => u \in submitted) /\ (u \in submitted /\ ~Known(u)' => u \in stopped)
    BY DEF RecordsKnown
  <2>1. CASE u = t
    BY <1>1, <2>1 DEF RecordsKnown, Known
  <2>2. CASE u # t
    BY <1>1, <2>2 DEF RecordsKnown, Known
  <2>. QED
    BY <2>1, <2>2
<1>5. rec[t].state \in State \union {"Absent"}
  BY DEF TypeOK, Record
<1>6. Serves
  <2>1. CASE r.state = rec[t].state
    <3>1. \A u \in Task : PhaseOf(u)' = PhaseOf(u)
      BY <1>1, <1>2, <2>1, PhaseKept
    <3>. QED
      BY <3>1, PhasesKept
  <2>2. CASE r.state \in {"Completed", "Failed"}
    <3>1. PhaseOf(t)' = "ended"
      BY <1>1, <2>2 DEF PhaseOf, Known
    <3>2. CASE PhaseOf(t) = "ended"
      BY <1>2, <3>1, <3>2, PhasesKept
    <3>3. CASE PhaseOf(t) = "waiting"
      BY <1>2, <3>1, <3>3, MoveStep DEF Serves, Service!Next, Service!GiveUp
    <3>4. CASE PhaseOf(t) = "placed"
      BY <1>2, <3>1, <3>4, MoveStep DEF Serves, Service!Next, Service!End
    <3>5. CASE PhaseOf(t) = "gone"
      BY <1>2, <3>1, <3>5, MoveStep DEF Serves, Service!Next, Service!Revive
    <3>. QED
      BY <1>5, <3>2, <3>3, <3>4, <3>5, PhaseIs DEF State
  <2>3. CASE Known(t) /\ r.state \in {"Scheduled", "Running"}
    <3>1. PhaseOf(t)' = "placed"
      BY <1>1, <2>3 DEF PhaseOf, Known
    <3>2. CASE PhaseOf(t) = "placed"
      BY <1>2, <3>1, <3>2, PhasesKept
    <3>3. CASE PhaseOf(t) = "waiting"
      BY <1>2, <3>1, <3>3, MoveStep DEF Serves, Service!Next, Service!Place
    <3>4. CASE PhaseOf(t) = "ended"
      BY <1>2, <3>1, <3>4, MoveStep DEF Serves, LateRestart
    <3>. QED
      BY <1>5, <2>3, <3>2, <3>3, <3>4, PhaseIs DEF State, Known
  <2>. QED
    BY <2>1, <2>2, <2>3
<1>. QED
  BY <1>3, <1>4, <1>6 DEF RecordsStep

\* The user's stop of a task that does not wait.
LEMMA MarkStep ==
    ASSUME TypeOK, RecordsKnown, NEW t \in Task, Known(t), rec[t].state # "Pending",
           rec' = [rec EXCEPT ![t].manual = TRUE], submitted' = submitted, stopped' = stopped \union {t}
    PROVE  RecordsStep
<1>1. \A u \in Task : rec'[u].state = rec[u].state
  BY DEF TypeOK, Record
<1>2. \A u \in Task : PhaseOf(u)' = PhaseOf(u)
  BY <1>1, PhaseKept
<1>3. PhaseOf(t) \in {"placed", "ended"}
  <2>1. rec[t].state \in State \union {"Absent"} /\ t \in submitted
    BY DEF TypeOK, Record, RecordsKnown
  <2>. QED
    BY <2>1, PhaseIs DEF Known, State
<1>4. Service!Stop(t)
  BY <1>2, <1>3 DEF Service!Stop
<1>5. RecordsKnown'
  BY <1>1 DEF RecordsKnown, Known
<1>. QED
  BY <1>1, <1>4, <1>5 DEF RecordsStep, Tame, Serves, Service!Next

\* A deletion: of a task in any phase, or of one deleted before.
LEMMA DeleteStep ==
    ASSUME TypeOK, RecordsKnown, NEW t \in Task, t \in submitted,
           rec' = [rec EXCEPT ![t] = NoRecord], submitted' = submitted, stopped' = stopped \union {t}
    PROVE  RecordsStep
<1>1. rec'[t].state = "Absent" /\ \A u \in Task : u # t => rec'[u] = rec[u]
  BY DEF TypeOK, NoRecord, Fresh
<1>2. \A u \in Task : u # t => PhaseOf(u)' = PhaseOf(u)
  BY <1>1, PhaseKept
<1>3. Tame
  BY <1>1 DEF Tame
<1>4. RecordsKnown'
  <2> SUFFICES ASSUME NEW u \in Task
               PROVE  (Known(u)' => u \in submitted) /\ (u \in submitted /\ ~Known(u)' => u \in stopped')
    BY DEF RecordsKnown
  <2>. QED
    BY <1>1 DEF RecordsKnown, Known
<1>5. PhaseOf(t)' = "gone"
  BY <1>1 DEF PhaseOf, Known
<1>6. CASE Known(t)
  <2>1. rec[t].state \in State
    BY <1>6 DEF TypeOK, Record, Known
  <2>2. PhaseOf(t) \in {"waiting", "placed", "ended"}
    BY <2>1, PhaseIs DEF State
  <2>3. Service!Delete(t)
    BY <1>2, <1>5, <2>2, MoveStep DEF Service!Delete
  <2>. QED
    BY <1>3, <1>4, <2>3 DEF RecordsStep, Serves, Service!Next
<1>7. CASE ~Known(t)
  <2>1. stopped' = stopped
    BY <1>7 DEF RecordsKnown
  <2>2. PhaseOf(t) = "gone"
    BY <1>7, PhaseIs DEF Known
  <2>3. Serves
    BY <1>2, <1>5, <2>1, <2>2, PhasesKept
  <2>. QED
    BY <1>3, <1>4, <2>3 DEF RecordsStep
<1>. QED
  BY <1>6, <1>7

-----------------------------------------------------------------------------
(* What the goroutines know *)

\* JobKnown after a step, of a local state of before.
JobKnownNext(j) ==
    j.pc # "idle" => /\ j.task \in submitted'
                     /\ j.pc \in {"decide", "mark"} /\ j.snap.state # "Pending"
                            => rec'[j.task].state # "Pending"
                     /\ j.pc = "mark" => j.snap.state # "Pending"
                     /\ j.pc = "drop" => rec'[j.task].state # "Pending"

LEMMA JobKept ==
    ASSUME TypeOK, Tame, NEW p \in Proc, JobKnown(job[p])
    PROVE  JobKnownNext(job[p])
<1>1. job[p].pc # "idle" => job[p].task \in Task
  BY BusyJob
<1>. QED
  BY <1>1 DEF JobKnown, JobKnownNext, Tame

LEMMA BecomeKnown ==
    ASSUME TypeOK, JobsKnown, Tame, NEW p \in Proc, NEW j, JobKnownNext(j), Become(p, j)
    PROVE  JobsKnown'
<1>1. ASSUME NEW q \in Proc PROVE JobKnownNext(job'[q])
  <2>1. CASE q = p
    BY <2>1 DEF Become, TypeOK, JobTypes
  <2>2. CASE q # p
    <3>1. job'[q] = job[q]
      BY <2>2 DEF Become, TypeOK, JobTypes
    <3>. QED
      BY <3>1, JobKept DEF JobsKnown
  <2>. QED
    BY <2>1, <2>2
<1>. QED
  BY <1>1 DEF JobsKnown, JobKnown, JobKnownNext

LEMMA IdleKnown == ASSUME TypeOK, JobsKnown, Tame, job' = job PROVE JobsKnown'
  BY JobKept DEF JobsKnown, JobKnown, JobKnownNext

Plain == Pc \ {"decide", "mark", "drop"}

\* Most stages need nothing but a task.
LEMMA TurnKnown ==
    ASSUME TypeOK, JobsKnown, Tame, NEW p \in Proc, NEW j, Become(p, j), j.pc \in Plain,
           j.task \in submitted
    PROVE  JobsKnown'
<1>1. JobKnownNext(j)
  BY DEF JobKnownNext, Plain, Tame
<1>. QED
  BY <1>1, BecomeKnown

LEMMA FinishKnown == ASSUME TypeOK, JobsKnown, Tame, NEW p \in Proc, Finish(p) PROVE JobsKnown'
<1>1. JobKnownNext(Idle)
  BY DEF JobKnownNext, Idle
<1>. QED
  BY <1>1, BecomeKnown DEF Finish

LEMMA BusyKnown ==
    ASSUME TypeOK, JobsKnown, NEW p \in Proc, job[p].pc # "idle"
    PROVE  job[p].task \in Task /\ job[p].task \in submitted
  BY BusyJob DEF JobsKnown, JobKnown

LEMMA GotoKnown ==
    ASSUME TypeOK, JobsKnown, Tame, NEW p \in Proc, job[p].pc # "idle", NEW pc \in Plain, Goto(p, pc)
    PROVE  JobsKnown'
<1> DEFINE j == [job[p] EXCEPT !.pc = pc]
<1>1. j.pc = pc /\ j.task = job[p].task
  BY BusyJob DEF Job
<1>. QED
  BY <1>1, BusyKnown, TurnKnown DEF Goto

LEMMA SelectKnown ==
    ASSUME TypeOK, JobsKnown, Tame, NEW p \in Proc, job[p].pc # "idle", NEW pc \in Plain, NEW owner,
           Select(p, job[p].task, owner, pc)
    PROVE  JobsKnown'
<1>1. PICK n \in Node : Become(p, [job[p] EXCEPT !.pc = pc, !.node = n])
  BY DEF Select
<1> DEFINE j == [job[p] EXCEPT !.pc = pc, !.node = n]
<1>2. j.pc = pc /\ j.task = job[p].task
  BY BusyJob DEF Job
<1>. QED
  BY <1>1, <1>2, BusyKnown, TurnKnown

LEMMA Plains ==
    /\ "route" \in Plain /\ "unowned" \in Plain /\ "place" \in Plain /\ "post" \in Plain
    /\ "commit" \in Plain /\ "release" \in Plain /\ "retry" \in Plain /\ "owner" \in Plain
    /\ "pick" \in Plain /\ "restart" \in Plain /\ "recommit" \in Plain /\ "move" \in Plain
    /\ "undo" \in Plain /\ "fail" \in Plain /\ "burn" \in Plain /\ "end" \in Plain
    /\ "kill" \in Plain /\ "delete" \in Plain /\ "clean" \in Plain /\ "queue" \in Plain
  BY DEF Plain, Pc

-----------------------------------------------------------------------------
(* What queues and reports know *)

LEMMA SameQueues ==
    ASSUME QueuesKnown, Tame, UNCHANGED <<adding, pending, todo>>
    PROVE  QueuesKnown'
  BY DEF QueuesKnown, Tame

LEMMA EnqueueKnown ==
    ASSUME TypeOK, QueuesKnown, Tame, NEW t \in submitted, NEW o, Enqueued(t, o), adding' \subseteq adding,
           todo' = todo
    PROVE  QueuesKnown'
<1>1. pending \in Seq(Event)
  BY DEF TypeOK
<1>2. ASSUME NEW i \in DOMAIN pending' PROVE pending'[i].task \in submitted
  <2> DEFINE e == [task |-> t, order |-> o]
  <2>1. /\ DOMAIN pending' = 1 .. Len(pending) + 1
        /\ pending'[Len(pending) + 1] = e
        /\ \A k \in 1 .. Len(pending) : pending'[k] = pending[k]
        /\ DOMAIN pending = 1 .. Len(pending) /\ Len(pending) \in Nat
    BY <1>1 DEF Enqueued
  <2>2. CASE i = Len(pending) + 1
    BY <2>1, <2>2
  <2>3. CASE i \in 1 .. Len(pending)
    BY <2>1, <2>3 DEF QueuesKnown
  <2>. QED
    BY <2>1, <2>2, <2>3
<1>. QED
  BY <1>2 DEF QueuesKnown, Tame

LEMMA SameReports == ASSUME ReportsKnown, UNCHANGED <<wdb, sync>> PROVE ReportsKnown'
  BY DEF ReportsKnown

\* A record is written that exists.
LEMMA ReportedStep ==
    ASSUME TypeOK, ReportsKnown, sync' = sync, NEW n, NEW t, NEW w,
           w.state # "Absent" \/ w = Unknown,
           wdb' = [wdb EXCEPT ![n][t] = w]
    PROVE  ReportsKnown'
<1>1. wdb \in [Node -> [Task -> WorkerRecord]]
  BY DEF TypeOK, WorkerTypes
<1>2. ASSUME NEW m \in Node, NEW u \in Task PROVE wdb'[m][u] = wdb[m][u] \/ wdb'[m][u] = w
  BY <1>1
<1>. QED
  BY <1>2 DEF ReportsKnown

LEMMA AcceptKnown ==
    ASSUME TypeOK, ReportsKnown, sync' = sync, NEW n \in Node0, NEW t \in Task, NEW o, Accepts(n, t, o)
    PROVE  ReportsKnown'
<1>1. CASE n \in Node /\ o.kind # "stop"
  <2>1. wdb[n][t] \in WorkerRecord
    BY <1>1 DEF TypeOK, WorkerTypes
  <2>2. Stored(wdb[n][t], o).state = "Scheduled"
    BY <2>1 DEF Stored, WorkerRecord
  <2>3. wdb' = [wdb EXCEPT ![n][t] = Stored(wdb[n][t], o)]
    BY <1>1 DEF Accepts
  <2>. QED
    BY <2>2, <2>3, ReportedStep
<1>2. CASE o.kind = "stop"
  BY <1>2, SameReports DEF Accepts
<1>3. CASE n = NoNode
  <2>1. wdb' = wdb
    <3>1. \A m \in Node : m # n
      BY <1>3, ManagerAssumption
    <3>. QED
      BY <3>1 DEF Accepts, TypeOK, WorkerTypes
  <2>. QED
    BY <2>1, SameReports
<1>. QED
  BY <1>1, <1>2, <1>3 DEF Node0

LEMMA BestEffortKnown ==
    ASSUME TypeOK, ReportsKnown, sync' = sync, NEW n \in Node0, NEW t \in Task, NEW o,
           BestEffortStop(n, t, o)
    PROVE  ReportsKnown'
<1>1. UNCHANGED workers \/ Accepts(n, t, o)
  BY DEF BestEffortStop
<1>. QED
  BY <1>1, AcceptKnown, SameReports DEF workers

-----------------------------------------------------------------------------
(* Clients and stop requests *)

LifeStep == Tame /\ LifeInv' /\ Serves

LEMMA SubmitLives ==
    ASSUME TypeOK, LifeInv, NEW t \in Task, Submit(t)
    PROVE  LifeInv' /\ Serves
<1> USE DEF LifeInv
<1>1. /\ rec'[t] = Fresh /\ \A u \in Task : u # t => rec'[u] = rec[u]
      /\ submitted' = submitted \union {t} /\ stopped' = stopped
  BY DEF Submit, TypeOK
<1>2. t \notin submitted /\ ~Known(t)
  BY DEF Submit, RecordsKnown
<1>3. Known(t)' /\ rec'[t].state = "Pending" /\ \A u \in Task : u # t => (Known(u)' <=> Known(u))
  BY <1>1 DEF Known, Fresh
<1>4. RecordsKnown'
  <2> SUFFICES ASSUME NEW u \in Task
               PROVE  (Known(u)' => u \in submitted') /\ (u \in submitted' /\ ~Known(u)' => u \in stopped')
    BY DEF RecordsKnown
  <2>. QED
    BY <1>1, <1>3 DEF RecordsKnown
<1>5. QueuesKnown'
  <2>1. adding' = adding \union {t} /\ UNCHANGED <<pending, todo>>
    BY DEF Submit
  <2>. QED
    BY <1>1, <2>1 DEF QueuesKnown
<1>6. JobsKnown'
  <2>1. job' = job
    BY DEF Submit
  <2>2. ASSUME NEW p \in Proc PROVE JobKnownNext(job[p])
    <3>1. job[p].pc # "idle" => job[p].task \in Task /\ job[p].task \in submitted
      BY BusyKnown
    <3>2. job[p].pc # "idle" => rec'[job[p].task] = rec[job[p].task]
      BY <1>1, <1>2, <3>1
    <3>3. JobKnown(job[p])
      BY DEF JobsKnown
    <3>. QED
      BY <1>1, <3>2, <3>3 DEF JobKnown, JobKnownNext
  <2>. QED
    BY <2>1, <2>2 DEF JobsKnown, JobKnown, JobKnownNext
<1>7. ReportsKnown'
  BY SameReports DEF Submit, workers
<1>8. Serves
  <2>1. \A u \in Task : u # t => PhaseOf(u)' = PhaseOf(u)
    BY <1>1 DEF PhaseOf, Known
  <2>2. PhaseOf(t) = "new"
    BY <1>2 DEF PhaseOf, Known
  <2>3. PhaseOf(t)' = "waiting"
    BY <1>1, <1>3 DEF PhaseOf
  <2>. QED
    BY <1>1, <2>1, <2>2, <2>3, MoveStep DEF Serves, Service!Next, Service!Submit
<1>. QED
  BY <1>4, <1>5, <1>6, <1>7, <1>8

LEMMA QueueLives == ASSUME TypeOK, LifeInv, NEW t \in Task, Queue(t) PROVE LifeStep
<1> USE DEF LifeInv
<1>1. UNCHANGED <<rec, submitted, stopped, job, wdb, sync, todo>>
  BY DEF Queue, stores, workers
<1>2. RecordsStep
  BY <1>1, QuietStep
<1>3. QueuesKnown'
  <2>1. t \in submitted /\ adding' \subseteq adding
    BY DEF Queue, QueuesKnown
  <2>. QED
    BY <1>1, <1>2, <2>1, EnqueueKnown DEF Queue, RecordsStep
<1>. QED
  BY <1>1, <1>2, <1>3, IdleKnown, SameReports DEF LifeStep, RecordsStep

LEMMA StopReadLives ==
    ASSUME TypeOK, LifeInv, NEW s \in Stopper, NEW t \in Task, StopRead(s, t)
    PROVE  LifeStep
<1> USE DEF LifeInv
<1> DEFINE j == [Idle EXCEPT !.pc = "decide", !.task = t, !.snap = rec[t]]
<1>1. UNCHANGED <<rec, submitted, stopped, adding, pending, wdb, sync, todo>>
  BY DEF StopRead, stores, workers
<1>2. RecordsStep
  BY <1>1, QuietStep
<1>3. j.pc = "decide" /\ j.task = t /\ j.snap = rec[t]
  BY DEF Idle
<1>4. t \in submitted
  BY DEF StopRead, RecordsKnown
<1>5. JobKnownNext(j)
  BY <1>1, <1>3, <1>4 DEF JobKnownNext
<1>6. JobsKnown'
  BY <1>2, <1>5, BecomeKnown, Types DEF StopRead, RecordsStep
<1>. QED
  BY <1>1, <1>2, <1>6, SameQueues, SameReports DEF LifeStep, RecordsStep

LEMMA StoppingLives == ASSUME TypeOK, LifeInv, NEW s \in Stopper, Stopping(s) PROVE LifeStep
<1> USE DEF LifeInv
<1> DEFINE t == job[s].task
<1>1. s \in Proc /\ job[s].pc # "idle" /\ t \in Task /\ t \in submitted
  BY BusyKnown, Types DEF Stopping, StopDecide, StopMark, StopQueue, At
<1>2. JobKnown(job[s])
  BY <1>1 DEF JobsKnown
<1>3. CASE StopDecide(s)
  <2>1. UNCHANGED <<rec, submitted, stopped, adding, pending, wdb, sync, todo>>
    BY <1>3 DEF StopDecide, stores, workers, client
  <2>2. RecordsStep
    BY <2>1, QuietStep
  <2>3. JobsKnown'
    <3>1. CASE Goto(s, "delete")
      BY <1>1, <2>2, <3>1, GotoKnown, Plains DEF RecordsStep
    <3>2. CASE ~Deletable(t, job[s].snap) /\ Goto(s, "mark")
      <4> DEFINE j == [job[s] EXCEPT !.pc = "mark"]
      <4>1. j.pc = "mark" /\ j.task = t /\ j.snap = job[s].snap
        BY <1>1, BusyJob DEF Job
      <4>2. job[s].snap.state # "Pending" /\ rec[t].state # "Pending"
        BY <1>1, <1>2, <1>3, <3>2 DEF StopDecide, At, Deletable, JobKnown
      <4>3. JobKnownNext(j)
        BY <1>1, <2>1, <4>1, <4>2 DEF JobKnownNext
      <4>. QED
        BY <1>1, <2>2, <3>2, <4>3, BecomeKnown DEF Goto, RecordsStep
    <3>. QED
      BY <1>3, <3>1, <3>2 DEF StopDecide
  <2>. QED
    BY <2>1, <2>2, <2>3, SameQueues, SameReports DEF LifeStep, RecordsStep
<1>4. CASE StopMark(s)
  <2>1. UNCHANGED <<submitted, adding, pending, wdb, sync, todo>>
    BY <1>4 DEF StopMark, workers, client
  <2>2. job[s].pc = "mark"
    BY <1>4 DEF StopMark, At
  <2>3. rec[t].state # "Pending"
    BY <1>2, <2>2 DEF JobKnown
  <2>4. RecordsStep
    <3>1. CASE Known(t) /\ rec' = [rec EXCEPT ![t].manual = TRUE] /\ stopped' = stopped \union {t}
      BY <1>1, <2>1, <2>3, <3>1, MarkStep
    <3>2. CASE UNCHANGED <<rec, stopped>>
      BY <2>1, <3>2, QuietStep
    <3>. QED
      BY <1>4, <3>1, <3>2 DEF StopMark
  <2>5. JobsKnown'
    BY <1>1, <1>4, <2>4, GotoKnown, FinishKnown, Plains DEF StopMark, RecordsStep
  <2>. QED
    BY <2>1, <2>4, <2>5, SameQueues, SameReports DEF LifeStep, RecordsStep
<1>5. CASE StopQueue(s)
  <2>1. UNCHANGED <<rec, submitted, stopped, adding, wdb, sync, todo>>
    BY <1>5 DEF StopQueue, stores, workers, client
  <2>2. RecordsStep
    BY <2>1, QuietStep
  <2>3. JobsKnown'
    BY <1>1, <1>5, <2>2, FinishKnown DEF StopQueue, RecordsStep
  <2>4. QueuesKnown'
    BY <1>1, <1>5, <2>1, <2>2, EnqueueKnown DEF StopQueue, RecordsStep
  <2>. QED
    BY <2>1, <2>2, <2>3, <2>4, SameReports DEF LifeStep, RecordsStep
<1>. QED
  BY <1>3, <1>4, <1>5 DEF Stopping

-----------------------------------------------------------------------------
(* deleteTask, markFailed, stopTaskTerminal, the rollback *)

LEMMA DeletingLives == ASSUME TypeOK, LifeInv, NEW p \in Proc, Deleting(p) PROVE LifeStep
<1> USE DEF LifeInv
<1> DEFINE t == job[p].task
<1>1. job[p].pc # "idle" /\ t \in Task /\ t \in submitted
  BY BusyKnown DEF Deleting, Delete, Drop, Clean, At
<1>2. CASE Delete(p)
  <2>1. UNCHANGED <<submitted, adding, pending, wdb, sync, todo>>
    BY <1>2 DEF Delete, workers, client
  <2>2. CASE /\ rec' = [rec EXCEPT ![t] = NoRecord] /\ stopped' = stopped \union {t}
             /\ Become(p, [job[p] EXCEPT !.pc = "drop", !.old = asg[t]])
    <3> DEFINE j == [job[p] EXCEPT !.pc = "drop", !.old = asg[t]]
    <3>1. RecordsStep
      BY <1>1, <2>1, <2>2, DeleteStep
    <3>2. j.pc = "drop" /\ j.task = t
      BY <1>1, BusyJob DEF Job
    <3>3. rec'[t].state # "Pending"
      BY <1>1, <2>2 DEF TypeOK, NoRecord, Fresh
    <3>4. JobKnownNext(j)
      BY <1>1, <2>1, <3>2, <3>3 DEF JobKnownNext
    <3>5. JobsKnown'
      BY <2>2, <3>1, <3>4, BecomeKnown DEF RecordsStep
    <3>. QED
      BY <2>1, <3>1, <3>5, SameQueues, SameReports DEF LifeStep, RecordsStep
  <2>3. CASE UNCHANGED <<stores, stopped>> /\ (Goto(p, "retry") \/ Finish(p))
    <3>1. RecordsStep
      BY <2>1, <2>3, QuietStep DEF stores
    <3>2. JobsKnown'
      BY <1>1, <2>3, <3>1, GotoKnown, FinishKnown, Plains DEF RecordsStep
    <3>. QED
      BY <2>1, <3>1, <3>2, SameQueues, SameReports DEF LifeStep, RecordsStep
  <2>. QED
    BY <1>2, <2>2, <2>3 DEF Delete
<1>3. CASE Drop(p)
  <2>1. UNCHANGED <<rec, submitted, stopped, adding, wdb, sync, todo>>
    BY <1>3 DEF Drop, stores, workers, client
  <2>2. RecordsStep
    BY <2>1, QuietStep
  <2>3. JobsKnown'
    BY <1>1, <1>3, <2>2, GotoKnown, FinishKnown, Plains DEF Drop, RecordsStep
  <2>4. QueuesKnown'
    <3>1. PICK q \in UpTo(Len(pending), {pending[i] : i \in DOMAIN pending}) : pending' = q
      BY <1>3 DEF Drop
    <3>2. \A i \in DOMAIN q : q[i] \in {pending[k] : k \in DOMAIN pending}
      BY DEF UpTo
    <3>. QED
      BY <2>1, <3>1, <3>2 DEF QueuesKnown
  <2>. QED
    BY <2>1, <2>2, <2>3, <2>4, SameReports DEF LifeStep, RecordsStep
<1>4. CASE Clean(p)
  <2>1. UNCHANGED <<rec, submitted, stopped, adding, pending, sync, todo>>
    BY <1>4 DEF Clean, stores, client
  <2>2. RecordsStep
    BY <2>1, QuietStep
  <2>3. JobsKnown'
    BY <1>4, <2>2, FinishKnown DEF Clean, RecordsStep
  <2>4. ReportsKnown'
    BY <1>1, <1>4, <2>1, BestEffortKnown, BusyJob DEF Clean
  <2>. QED
    BY <2>1, <2>2, <2>3, <2>4, SameQueues DEF LifeStep, RecordsStep
<1>. QED
  BY <1>2, <1>3, <1>4 DEF Deleting

LEMMA EndingLives == ASSUME TypeOK, LifeInv, NEW p \in Proc, Ending(p) PROVE LifeStep
<1> USE DEF LifeInv
<1> DEFINE t == job[p].task
<1>1. job[p].pc # "idle" /\ t \in Task /\ t \in submitted
  BY BusyKnown DEF Ending, MarkFailed, End, Kill, Undo, At
<1>2. CASE MarkFailed(p)
  <2> DEFINE n == IF At(p, "burn") THEN job[p].snap.count + 1 ELSE job[p].snap.count
  <2>1. UNCHANGED <<submitted, stopped, adding, pending, wdb, sync, todo>>
    BY <1>2 DEF MarkFailed, workers, client
  <2>2. Retryable(rec[t], n).state = "Failed"
    <3>1. rec[t] \in Record
      BY <1>1 DEF TypeOK
    <3>. QED
      BY <3>1 DEF Retryable, Record
  <2>3. RecordsStep
    <3>1. rec' = rec \/ rec' = [rec EXCEPT ![t] = Retryable(rec[t], n)]
      BY <1>2 DEF MarkFailed
    <3>. QED
      BY <1>1, <2>1, <2>2, <3>1, QuietStep, WriteStep
  <2>4. JobsKnown'
    BY <1>2, <2>3, FinishKnown DEF MarkFailed, RecordsStep
  <2>. QED
    BY <2>1, <2>3, <2>4, SameQueues, SameReports DEF LifeStep, RecordsStep
<1>3. CASE End(p)
  <2> DEFINE j == [job[p] EXCEPT !.pc = "kill", !.old = asg[t]]
  <2>1. UNCHANGED <<submitted, stopped, adding, pending, wdb, sync, todo>>
    BY <1>3 DEF End, workers, client
  <2>2. Terminal(job[p].snap).state = "Failed"
    BY BusyJob DEF Terminal, Record
  <2>3. RecordsStep
    <3>1. rec' = rec \/ rec' = [rec EXCEPT ![t] = Terminal(job[p].snap)]
      BY <1>3 DEF End
    <3>. QED
      BY <1>1, <2>1, <2>2, <3>1, QuietStep, WriteStep
  <2>4. j.pc = "kill" /\ j.task = t
    BY <1>1, BusyJob DEF Job
  <2>5. JobsKnown'
    BY <1>1, <1>3, <2>3, <2>4, TurnKnown, Plains DEF End, RecordsStep
  <2>. QED
    BY <2>1, <2>3, <2>5, SameQueues, SameReports DEF LifeStep, RecordsStep
<1>4. CASE Kill(p) \/ Undo(p)
  <2>1. UNCHANGED <<rec, submitted, stopped, adding, pending, sync, todo>>
    BY <1>4 DEF Kill, Undo, stores, client
  <2>2. RecordsStep
    BY <2>1, QuietStep
  <2>3. JobsKnown'
    BY <1>1, <1>4, <2>2, GotoKnown, FinishKnown, Plains DEF Kill, Undo, RecordsStep
  <2>4. ReportsKnown'
    BY <1>1, <1>4, <2>1, BestEffortKnown, BusyJob DEF Kill, Undo
  <2>. QED
    BY <2>1, <2>2, <2>3, <2>4, SameQueues DEF LifeStep, RecordsStep
<1>. QED
  BY <1>2, <1>3, <1>4 DEF Ending

-----------------------------------------------------------------------------
(* SendWork *)

LEMMA DequeueLives == ASSUME TypeOK, LifeInv, Dequeue PROVE LifeStep
<1> USE DEF LifeInv
<1> DEFINE e == Head(pending)
           j == [Idle EXCEPT !.pc = "route", !.task = e.task, !.order = e.order, !.snap = Fresh]
<1>1. UNCHANGED <<rec, submitted, stopped, adding, wdb, sync, todo>>
  BY DEF Dequeue, stores, workers, client
<1>2. RecordsStep
  BY <1>1, QuietStep
<1>3. pending \in Seq(Event) /\ pending # <<>> /\ pending' = Tail(pending)
  BY DEF Dequeue, TypeOK
<1>4. e.task \in submitted
  <2>1. 1 \in DOMAIN pending /\ e = pending[1]
    BY <1>3
  <2>. QED
    BY <2>1 DEF QueuesKnown
<1>5. j.pc = "route" /\ j.task = e.task
  BY DEF Idle
<1>6. JobsKnown'
  BY <1>2, <1>4, <1>5, TurnKnown, Types, Plains DEF Dequeue, RecordsStep
<1>7. QueuesKnown'
  <2>1. ASSUME NEW i \in DOMAIN pending' PROVE pending'[i].task \in submitted
    <3>1. i + 1 \in DOMAIN pending /\ pending'[i] = pending[i + 1]
      BY <1>3
    <3>. QED
      BY <3>1 DEF QueuesKnown
  <2>. QED
    BY <1>1, <2>1 DEF QueuesKnown
<1>. QED
  BY <1>1, <1>2, <1>6, <1>7, SameReports DEF LifeStep, RecordsStep

LEMMA PlacingLives == ASSUME TypeOK, LifeInv, Route \/ Unowned \/ Place PROVE LifeStep
<1> USE DEF LifeInv
<1> DEFINE d == Dispatcher
           t == job[d].task
<1>1. d \in Proc /\ job[d].pc # "idle" /\ t \in Task /\ t \in submitted
  BY BusyKnown, Types DEF Route, Unowned, Place, At
<1>2. UNCHANGED <<rec, submitted, stopped, adding, wdb, sync, todo>>
  BY DEF Route, Unowned, Place, stores, workers, client
<1>3. RecordsStep
  BY <1>2, QuietStep
<1>4. CASE Route
  <2> DEFINE j == [job[d] EXCEPT !.pc = "post", !.node = asg[t]]
  <2>1. j.pc = "post" /\ j.task = t
    BY <1>1, BusyJob DEF Job
  <2>2. \/ Become(d, j) \/ Goto(d, "unowned") \/ Goto(d, "place") \/ Goto(d, "fail")
    BY <1>4 DEF Route
  <2>3. JobsKnown'
    BY <1>1, <1>3, <2>1, <2>2, TurnKnown, GotoKnown, Plains DEF RecordsStep
  <2>4. pending' = pending
    BY <1>4 DEF Route
  <2>. QED
    BY <1>2, <1>3, <2>3, <2>4, SameQueues, SameReports DEF LifeStep, RecordsStep
<1>5. CASE Unowned
  <2> DEFINE j == [job[d] EXCEPT !.pc = "delete", !.snap = rec[t]]
  <2>1. j.pc = "delete" /\ j.task = t
    BY <1>1, BusyJob DEF Job
  <2>2. JobsKnown'
    BY <1>1, <1>3, <1>5, <2>1, TurnKnown, FinishKnown, Plains DEF Unowned, RecordsStep
  <2>3. pending' = pending
    BY <1>5 DEF Unowned
  <2>. QED
    BY <1>2, <1>3, <2>2, <2>3, SameQueues, SameReports DEF LifeStep, RecordsStep
<1>6. CASE Place
  <2>1. Finish(d) \/ Select(d, t, NoNode, "post") \/ Goto(d, "end")
    BY <1>6 DEF Place
  <2>2. JobsKnown'
    BY <1>1, <1>3, <2>1, FinishKnown, SelectKnown, GotoKnown, Plains DEF RecordsStep
  <2>3. QueuesKnown'
    <3>1. pending' = pending \/ Enqueued(t, Start(0))
      BY <1>6 DEF Place
    <3>. QED
      BY <1>1, <1>2, <1>3, <3>1, EnqueueKnown, SameQueues DEF RecordsStep
  <2>. QED
    BY <1>2, <1>3, <2>2, <2>3, SameReports DEF LifeStep, RecordsStep
<1>. QED
  BY <1>4, <1>5, <1>6

LEMMA PostLives == ASSUME TypeOK, LifeInv, Post PROVE LifeStep
<1> USE DEF LifeInv
<1> DEFINE d == Dispatcher
           t == job[d].task
<1>1. d \in Proc /\ job[d].pc # "idle" /\ t \in Task /\ t \in submitted
  BY BusyKnown, Types DEF Post, At
<1>2. UNCHANGED <<rec, submitted, stopped, adding, pending, sync, todo>>
  BY DEF Post, stores, client
<1>3. RecordsStep
  BY <1>2, QuietStep
<1>4. \/ Finish(d) \/ Goto(d, "release") \/ Goto(d, "commit") \/ Goto(d, "retry") \/ Goto(d, "burn")
  BY DEF Post
<1>5. JobsKnown'
  BY <1>1, <1>3, <1>4, FinishKnown, GotoKnown, Plains DEF RecordsStep
<1>6. UNCHANGED workers \/ Accepts(job[d].node, t, job[d].order)
  BY DEF Post
<1>7. ReportsKnown'
  BY <1>1, <1>2, <1>6, AcceptKnown, SameReports, BusyJob DEF workers
<1>. QED
  BY <1>2, <1>3, <1>5, <1>7, SameQueues DEF LifeStep, RecordsStep

LEMMA SentLives == ASSUME TypeOK, LifeInv, Release \/ Retry PROVE LifeStep
<1> USE DEF LifeInv
<1> DEFINE d == Dispatcher
           t == job[d].task
<1>1. d \in Proc /\ job[d].pc # "idle" /\ t \in Task /\ t \in submitted
  BY BusyKnown, Types DEF Release, Retry, At
<1>2. UNCHANGED <<rec, submitted, stopped, adding, wdb, sync, todo>>
  BY DEF Release, Retry, stores, workers, client
<1>3. RecordsStep
  BY <1>2, QuietStep
<1>4. JobsKnown'
  BY <1>1, <1>3, FinishKnown DEF Release, Retry, RecordsStep
<1>5. QueuesKnown'
  <2>1. pending' = pending \/ Enqueued(t, job[d].order)
    BY DEF Release, Retry
  <2>. QED
    BY <1>1, <1>2, <1>3, <2>1, EnqueueKnown, SameQueues DEF RecordsStep
<1>. QED
  BY <1>2, <1>3, <1>4, <1>5, SameReports DEF LifeStep, RecordsStep

LEMMA CommitLives == ASSUME TypeOK, LifeInv, Commit PROVE LifeStep
<1> USE DEF LifeInv
<1> DEFINE d == Dispatcher
           t == job[d].task
           r == [Fresh EXCEPT !.state = "Scheduled"]
           j(b) == [job[d] EXCEPT !.pc = "undo", !.again = b]
<1>1. d \in Proc /\ job[d].pc # "idle" /\ t \in Task /\ t \in submitted
  BY BusyKnown, Types DEF Commit, At
<1>2. UNCHANGED <<submitted, stopped, adding, pending, wdb, sync, todo>>
  BY DEF Commit, workers, client
<1>3. RecordsStep
  <2>1. r.state = "Scheduled"
    BY DEF Fresh
  <2>2. rec' = rec \/ (Known(t) /\ rec' = [rec EXCEPT ![t] = r])
    BY DEF Commit, Cancelled, stores
  <2>. QED
    BY <1>1, <1>2, <2>1, <2>2, QuietStep, WriteStep
<1>4. JobsKnown'
  <2>1. \A b \in BOOLEAN : j(b).pc = "undo" /\ j(b).task = t
    BY <1>1, BusyJob DEF Job
  <2>2. Finish(d) \/ \E b \in BOOLEAN : Become(d, j(b))
    BY DEF Commit
  <2>. QED
    BY <1>1, <1>3, <2>1, <2>2, FinishKnown, TurnKnown, Plains DEF RecordsStep
<1>. QED
  BY <1>2, <1>3, <1>4, SameQueues, SameReports DEF LifeStep, RecordsStep

LEMMA SendWorkLives == ASSUME TypeOK, LifeInv, SendWork PROVE LifeStep
  BY DequeueLives, PlacingLives, PostLives, SentLives, CommitLives DEF SendWork

-----------------------------------------------------------------------------
(* Restarts and checks *)

LEMMA RestartingLives == ASSUME TypeOK, LifeInv, NEW p \in Proc, Restarting(p) PROVE LifeStep
<1> USE DEF LifeInv
<1> DEFINE t == job[p].task
<1>1. job[p].pc # "idle" /\ t \in Task /\ t \in submitted
  BY BusyKnown DEF Restarting, RestartOwner, RestartPick, RestartPost, Recommit, Move, At
<1>2. CASE RestartOwner(p) \/ RestartPick(p)
  <2> DEFINE j == [job[p] EXCEPT !.pc = "pick", !.old = asg[t]]
  <2>1. UNCHANGED <<rec, submitted, stopped, adding, pending, wdb, sync, todo>>
    BY <1>2 DEF RestartOwner, RestartPick, stores, workers, client
  <2>2. RecordsStep
    BY <2>1, QuietStep
  <2>3. j.pc = "pick" /\ j.task = t
    BY <1>1, BusyJob DEF Job
  <2>4. \/ Become(p, j) \/ Select(p, t, job[p].old, "restart") \/ Goto(p, "fail") \/ Goto(p, "end")
    BY <1>2 DEF RestartOwner, RestartPick
  <2>5. JobsKnown'
    BY <1>1, <2>2, <2>3, <2>4, TurnKnown, SelectKnown, GotoKnown, Plains DEF RecordsStep
  <2>. QED
    BY <2>1, <2>2, <2>5, SameQueues, SameReports DEF LifeStep, RecordsStep
<1>3. CASE RestartPost(p)
  <2>1. UNCHANGED <<rec, submitted, stopped, adding, pending, sync, todo>>
    BY <1>3 DEF RestartPost, stores, client
  <2>2. RecordsStep
    BY <2>1, QuietStep
  <2>3. Goto(p, "recommit") \/ Goto(p, "fail") \/ Goto(p, "burn")
    BY <1>3 DEF RestartPost
  <2>4. JobsKnown'
    BY <1>1, <2>2, <2>3, GotoKnown, Plains DEF RecordsStep
  <2>5. UNCHANGED workers \/ Accepts(job[p].node, t, Start(job[p].snap.count + 1))
    BY <1>3 DEF RestartPost
  <2>6. ReportsKnown'
    BY <1>1, <2>1, <2>5, AcceptKnown, SameReports, BusyJob DEF workers
  <2>. QED
    BY <2>1, <2>2, <2>4, <2>6, SameQueues DEF LifeStep, RecordsStep
<1>4. CASE Recommit(p)
  <2> DEFINE j == [job[p] EXCEPT !.pc = "move", !.old = asg[t]]
  <2>1. UNCHANGED <<submitted, stopped, adding, pending, wdb, sync, todo>>
    BY <1>4 DEF Recommit, workers, client
  <2>2. RecordsStep
    <3>1. Next1(job[p]).state = "Scheduled"
      BY BusyJob DEF Next1, Record
    <3>2. rec' = rec \/ (Known(t) /\ rec' = [rec EXCEPT ![t] = Next1(job[p])])
      BY <1>4 DEF Recommit, Wanted, stores
    <3>. QED
      BY <1>1, <2>1, <3>1, <3>2, QuietStep, WriteStep
  <2>3. j.pc = "move" /\ j.task = t
    BY <1>1, BusyJob DEF Job
  <2>4. Become(p, j) \/ Finish(p) \/ Goto(p, "undo")
    BY <1>4 DEF Recommit
  <2>5. JobsKnown'
    BY <1>1, <2>2, <2>3, <2>4, TurnKnown, FinishKnown, GotoKnown, Plains DEF RecordsStep
  <2>. QED
    BY <2>1, <2>2, <2>5, SameQueues, SameReports DEF LifeStep, RecordsStep
<1>5. CASE Move(p)
  <2>1. UNCHANGED <<rec, submitted, stopped, adding, pending, sync, todo>>
    BY <1>5 DEF Move, stores, client
  <2>2. RecordsStep
    BY <2>1, QuietStep
  <2>3. JobsKnown'
    BY <1>5, <2>2, FinishKnown DEF Move, RecordsStep
  <2>4. BestEffortStop(job[p].old, t, Stop(job[p].snap.count, job[p].snap.why)) \/ UNCHANGED workers
    BY <1>5 DEF Move
  <2>5. ReportsKnown'
    BY <1>1, <2>1, <2>4, BestEffortKnown, SameReports, BusyJob DEF workers
  <2>. QED
    BY <2>1, <2>2, <2>3, <2>5, SameQueues DEF LifeStep, RecordsStep
<1>. QED
  BY <1>2, <1>3, <1>4, <1>5 DEF Restarting

LEMMA LoopLives == ASSUME TypeOK, LifeInv, LoopNext PROVE LifeStep
<1> USE DEF LifeInv
<1>1. UNCHANGED <<rec, submitted, stopped, adding, pending, wdb, sync>>
  BY DEF LoopNext, LoopSnapshot, LoopVisit, LoopBackoff, stores, workers, client
<1>2. RecordsStep
  BY <1>1, QuietStep
<1>3. CASE LoopSnapshot
  <2>1. job' = job
    BY <1>3 DEF LoopSnapshot
  <2>2. ASSUME NEW e \in todo' PROVE e.task \in submitted
    <3>1. PICK t \in Task : e = [task |-> t, rec |-> rec[t]] /\ Ended(e.rec)
      BY <1>3 DEF LoopSnapshot
    <3>2. Known(t)
      BY <3>1 DEF Ended, Known
    <3>. QED
      BY <3>1, <3>2 DEF RecordsKnown
  <2>3. QueuesKnown'
    BY <1>1, <2>2 DEF QueuesKnown
  <2>. QED
    BY <1>1, <1>2, <2>1, <2>3, IdleKnown, SameReports DEF LifeStep, RecordsStep
<1>4. ASSUME NEW e \in todo, LoopVisit(e) \/ LoopBackoff(e) PROVE LifeStep
  <2>1. todo' \subseteq todo
    BY <1>4 DEF LoopVisit, LoopBackoff
  <2>2. QueuesKnown'
    BY <1>1, <2>1 DEF QueuesKnown
  <2>3. JobsKnown'
    <3>1. CASE job' = job
      BY <1>2, <3>1, IdleKnown DEF RecordsStep
    <3>2. ASSUME NEW pc \in {"owner", "end"}, Visit(e, pc) PROVE JobsKnown'
      <4> DEFINE j == [Idle EXCEPT !.pc = pc, !.task = e.task, !.snap = e.rec]
      <4>1. j.pc = pc /\ j.task = e.task
        BY DEF Idle
      <4>2. e.task \in submitted
        BY DEF QueuesKnown
      <4>. QED
        BY <1>2, <3>2, <4>1, <4>2, TurnKnown, Types, Plains DEF Visit, RecordsStep
    <3>3. job' = job \/ \E pc \in {"owner", "end"} : Visit(e, pc)
      <4>1. Verdict(e.task, e.rec) \in {"skip", "owner", "end"}
        BY DEF Verdict
      <4>. QED
        BY <1>4, <4>1 DEF LoopVisit, LoopBackoff
    <3>. QED
      BY <3>1, <3>2, <3>3
  <2>. QED
    BY <1>1, <1>2, <2>2, <2>3, SameReports DEF LifeStep, RecordsStep
<1>. QED
  BY <1>3, <1>4 DEF LoopNext

LEMMA CheckFailsLives == ASSUME TypeOK, LifeInv, NEW t \in Checked, CheckFails(t) PROVE LifeStep
<1> USE DEF LifeInv
<1> DEFINE pc == IF ~AtCap(t, rec[t]) /\ ShouldRestart(PolicyOf[t]) THEN "owner" ELSE "end"
           j == [Idle EXCEPT !.task = t, !.snap = rec[t], !.pc = pc]
<1>1. UNCHANGED <<rec, submitted, stopped, adding, pending, wdb, sync, todo>>
  BY DEF CheckFails, stores, workers, client
<1>2. RecordsStep
  BY <1>1, QuietStep
<1>3. t \in Task /\ t \in Proc
  BY ManagerAssumption, Types
<1>4. t \in submitted
  <2>1. Known(t)
    BY DEF CheckFails, Known
  <2>. QED
    BY <1>3, <2>1 DEF RecordsKnown
<1>5. j.pc \in {"owner", "end"} /\ j.task = t
  BY DEF Idle
<1>6. JobsKnown'
  BY <1>2, <1>3, <1>4, <1>5, TurnKnown, Plains DEF CheckFails, RecordsStep
<1>. QED
  BY <1>1, <1>2, <1>6, SameQueues, SameReports DEF LifeStep, RecordsStep

-----------------------------------------------------------------------------
(* The sync, the workers, a crash *)

LEMMA ReportsLess ==
    ASSUME ReportsKnown, wdb' = wdb, sync'.list \subseteq sync.list
    PROVE  ReportsKnown'
  BY DEF ReportsKnown

\* A worker's state is copied, or the task's kept.
LEMMA MergedState ==
    ASSUME NEW r \in Record, NEW w \in WorkerRecord, w.state # "Absent"
    PROVE  \/ Merged(r, w).state \in {"Completed", "Failed"}
           \/ Merged(r, w).state \in {"Scheduled", "Running"}
           \/ Merged(r, w).state = r.state
<1> DEFINE seen == [r EXCEPT !.con = w.con, !.fin = @ \/ w.fin]
<1>1. seen.state = r.state
  BY DEF Record
<1>2. w.state \in {"Scheduled", "Running", "Completed", "Failed"}
  BY DEF WorkerRecord, State
<1>3. CASE w.state = "Failed"
  <2>1. Merged(r, w) = [seen EXCEPT !.state = "Failed", !.why = TRUE]
    BY <1>3 DEF Merged
  <2>. QED
    BY <2>1 DEF Record
<1>4. CASE w.state # "Failed" /\ ~IsTerminal(seen.state, seen.fin)
  <2>1. Merged(r, w) = [seen EXCEPT !.state = w.state]
    BY <1>4 DEF Merged
  <2>2. Merged(r, w).state = w.state
    BY <2>1 DEF Record
  <2>. QED
    BY <1>2, <2>2
<1>5. CASE w.state # "Failed" /\ IsTerminal(seen.state, seen.fin)
  <2>1. Merged(r, w) = seen
    BY <1>5 DEF Merged
  <2>. QED
    BY <1>1, <2>1
<1>. QED
  BY <1>3, <1>4, <1>5

LEMMA SyncApplyLives == ASSUME TypeOK, LifeInv, SyncApply PROVE LifeStep
<1> USE DEF LifeInv
<1>1. UNCHANGED <<submitted, stopped, adding, pending, job, wdb, todo>>
  BY DEF SyncApply, workers, client
<1>2. PICK e \in sync.list :
         /\ rec' = rec \/ (Known(e.task) /\ rec' = Synced(e.task, e.rec))
         /\ sync' = Left([sync EXCEPT !.list = @ \ {e}, !.forget = Orphan(e.task)])
  BY DEF SyncApply
<1>3. e.task \in Task /\ e.rec \in WorkerRecord /\ e.rec.state # "Absent"
  BY DEF TypeOK, Report, ReportsKnown
<1>4. RecordsStep
  <2> DEFINE r == Merged(rec[e.task], e.rec)
  <2>1. CASE rec' = rec
    BY <1>1, <2>1, QuietStep
  <2>2. CASE Known(e.task) /\ rec' = [rec EXCEPT ![e.task] = r]
    <3>1. e.task \in submitted
      BY <1>3, <2>2 DEF RecordsKnown
    <3>2. \/ r.state \in {"Completed", "Failed"}
          \/ r.state \in {"Scheduled", "Running"}
          \/ r.state = rec[e.task].state
      BY <1>3, MergedState, Sources
    <3>. QED
      BY <1>1, <1>3, <2>2, <3>1, <3>2, WriteStep
  <2>. QED
    BY <1>2, <2>1, <2>2 DEF Synced
<1>5. sync'.list \subseteq sync.list
  <2> DEFINE s == [sync EXCEPT !.list = @ \ {e}, !.forget = Orphan(e.task)]
  <2>1. s.list \subseteq sync.list
    BY DEF TypeOK
  <2>2. SyncIdle.list = {}
    BY DEF SyncIdle
  <2>. QED
    BY <1>2, <2>1, <2>2 DEF Left
<1>. QED
  BY <1>1, <1>4, <1>5, IdleKnown, SameQueues, ReportsLess DEF LifeStep, RecordsStep

LEMMA SyncLives ==
    ASSUME TypeOK, LifeInv, (\E n \in Node : SyncFetch(n)) \/ SyncForget
    PROVE  LifeStep
<1> USE DEF LifeInv
<1>1. UNCHANGED <<rec, submitted, stopped, adding, pending, job, todo>>
  BY DEF SyncFetch, SyncForget, stores, client
<1>2. RecordsStep
  BY <1>1, QuietStep
<1>3. ReportsKnown'
  <2>1. CASE \E n \in Node : SyncFetch(n)
    <3>1. PICK n \in Node : SyncFetch(n)
      BY <2>1
    <3> DEFINE list == {e \in {[task |-> t, rec |-> wdb[n][t]] : t \in Task} : e.rec # Unknown}
    <3>2. wdb' = wdb /\ sync'.list = list
      BY <3>1 DEF SyncFetch, workers, SyncIdle
    <3>3. ASSUME NEW e \in list PROVE e.rec.state # "Absent"
      <4>1. PICK t \in Task : e = [task |-> t, rec |-> wdb[n][t]] /\ wdb[n][t] # Unknown
        OBVIOUS
      <4>. QED
        BY <4>1 DEF ReportsKnown
    <3>. QED
      BY <3>2, <3>3 DEF ReportsKnown
  <2>2. CASE SyncForget
    <3>1. sync'.list \subseteq sync.list
      <4> DEFINE s == [sync EXCEPT !.forget = NoTask]
      <4>1. s.list = sync.list
        BY DEF TypeOK
      <4>2. SyncIdle.list = {}
        BY DEF SyncIdle
      <4>. QED
        BY <2>2, <4>1, <4>2 DEF SyncForget, Left
    <3>2. wdb' = wdb \/ wdb' = [wdb EXCEPT ![sync.node][sync.forget] = Unknown]
      BY <2>2 DEF SyncForget, workers
    <3>3. ASSUME NEW n \in Node, NEW t \in Task PROVE wdb'[n][t] \in {wdb[n][t], Unknown}
      <4>1. wdb \in [Node -> [Task -> WorkerRecord]]
        BY DEF TypeOK, WorkerTypes
      <4>2. CASE wdb' = [wdb EXCEPT ![sync.node][sync.forget] = Unknown]
        <5>1. wdb'[n] = wdb[n] \/ wdb'[n] = [wdb[n] EXCEPT ![sync.forget] = Unknown]
          BY <4>1, <4>2
        <5>2. wdb[n] \in [Task -> WorkerRecord]
          BY <4>1
        <5>. QED
          BY <5>1, <5>2
      <4>. QED
        BY <3>2, <4>2
    <3>. QED
      BY <3>1, <3>3 DEF ReportsKnown
  <2>. QED
    BY <2>1, <2>2
<1>. QED
  BY <1>1, <1>2, <1>3, IdleKnown, SameQueues DEF LifeStep, RecordsStep

LEMMA WorkersLive ==
    ASSUME TypeOK, LifeInv,
           \/ \E n \in Node, t \in Task : WorkerRun(n, t) \/ WorkerExit(n, t)
           \/ \E n \in Node : NodeDies(n)
    PROVE  LifeStep
<1> USE DEF LifeInv
<1>1. UNCHANGED <<rec, submitted, stopped, adding, pending, job, todo, sync>>
  BY DEF WorkerRun, WorkerExit, NodeDies, stores, client
<1>2. RecordsStep
  BY <1>1, QuietStep
<1>3. ReportsKnown'
  <2>1. ASSUME NEW n \in Node, NEW t \in Task, WorkerRun(n, t) PROVE ReportsKnown'
    <3> DEFINE o == Head(wq[n][t])
               w == wdb[n][t]
    <3>1. Ran(w, o).state # "Absent"
      BY DEF Ran
    <3>2. \A c \in BOOLEAN : [Ran(w, o) EXCEPT !.state = "Failed", !.con = c].state # "Absent"
      BY DEF Ran
    <3>3. \/ wdb' = wdb
          \/ wdb' = [wdb EXCEPT ![n][t] = Ran(w, o)]
          \/ \E c \in BOOLEAN : wdb' = [wdb EXCEPT ![n][t] = [Ran(w, o) EXCEPT !.state = "Failed", !.con = c]]
      BY <2>1 DEF WorkerRun
    <3>. QED
      BY <1>1, <3>1, <3>2, <3>3, ReportedStep, SameReports
  <2>2. ASSUME NEW n \in Node, NEW t \in Task, WorkerExit(n, t) PROVE ReportsKnown'
    <3>1. PICK ok \in BOOLEAN :
             wdb' = [wdb EXCEPT ![n][t].state = IF ok THEN "Completed" ELSE "Failed", ![n][t].fin = @ \/ ok]
      BY <2>2 DEF WorkerExit
    <3>2. wdb'[n][t].state # "Absent"
      BY <3>1 DEF TypeOK, WorkerTypes, WorkerRecord
    <3>3. ASSUME NEW m \in Node, NEW u \in Task, <<m, u>> # <<n, t>> PROVE wdb'[m][u] = wdb[m][u]
      BY <3>1, <3>3 DEF TypeOK, WorkerTypes
    <3>. QED
      BY <1>1, <3>2, <3>3 DEF ReportsKnown
  <2>3. ASSUME NEW n \in Node, NodeDies(n) PROVE ReportsKnown'
    <3>1. ASSUME NEW m \in Node, NEW t \in Task PROVE wdb'[m][t] \in {wdb[m][t], Unknown}
      BY <2>3 DEF NodeDies, TypeOK, WorkerTypes
    <3>. QED
      BY <1>1, <3>1 DEF ReportsKnown
  <2>. QED
    BY <2>1, <2>2, <2>3
<1>. QED
  BY <1>1, <1>2, <1>3, IdleKnown, SameQueues DEF LifeStep, RecordsStep

\* A queue of recovered starts has one for every pending task, and no others.
LEMMA RecoveredStarts ==
    ASSUME NEW q, Recovered(q), NEW t \in Task
    PROVE  rec[t].state = "Pending" <=> \E i \in DOMAIN q : q[i] = [task |-> t, order |-> Start(0)]
<1> DEFINE ids == {u \in Task : rec[u].state = "Pending"}
           e(u) == [task |-> u, order |-> Start(0)]
<1>1. {q[i] : i \in DOMAIN q} = {e(u) : u \in ids}
  BY DEF Recovered
<1>2. ASSUME NEW i \in DOMAIN q, q[i] = e(t) PROVE t \in ids
  <2>1. PICK u \in ids : e(t) = e(u)
    BY <1>1, <1>2
  <2>2. e(t).task = e(u).task
    BY <2>1
  <2>. QED
    BY <2>2
<1>3. ASSUME t \in ids PROVE \E i \in DOMAIN q : q[i] = e(t)
  <2>1. e(t) \in {q[i] : i \in DOMAIN q}
    BY <1>1, <1>3
  <2>. QED
    BY <2>1
<1>. QED
  BY <1>2, <1>3

LEMMA CrashLives == ASSUME TypeOK, LifeInv, Crash PROVE LifeStep
<1> USE DEF LifeInv
<1>1. UNCHANGED <<rec, submitted, stopped, wdb>> /\ todo' = {} /\ sync' = SyncIdle /\ adding' = {}
  BY DEF Crash, workers
<1>2. RecordsStep
  BY <1>1, QuietStep
<1>3. JobsKnown'
  <2>1. \A p \in Proc : job'[p].pc = "idle"
    BY DEF Crash, Idle
  <2>. QED
    BY <2>1 DEF JobsKnown, JobKnown
<1>4. QueuesKnown'
  <2>1. Recovered(pending')
    BY DEF Crash
  <2>2. ASSUME NEW i \in DOMAIN pending' PROVE pending'[i].task \in submitted
    <3>1. PICK t \in Task : pending'[i] = [task |-> t, order |-> Start(0)]
      BY <2>1 DEF Recovered
    <3>2. Known(t)
      BY <2>1, <3>1, RecoveredStarts DEF Known
    <3>. QED
      BY <3>1, <3>2 DEF RecordsKnown
  <2>. QED
    BY <1>1, <2>2 DEF QueuesKnown
<1>5. ReportsKnown'
  BY <1>1, ReportsLess DEF SyncIdle
<1>. QED
  BY <1>2, <1>3, <1>4, <1>5 DEF LifeStep, RecordsStep

-----------------------------------------------------------------------------
(* The manager follows the service *)

\* Every step but a submission.
Later ==
    \/ \E t \in Task : Queue(t)
    \/ \E s \in Stopper : Stopping(s) \/ \E t \in Task : StopRead(s, t)
    \/ \E p \in Proc : Deleting(p) \/ Ending(p)
    \/ SendWork
    \/ \E p \in Restarter : Restarting(p)
    \/ LoopNext
    \/ \E t \in Checked : CheckFails(t)
    \/ \E n \in Node : SyncFetch(n)
    \/ SyncApply \/ SyncForget
    \/ \E n \in Node, t \in Task : WorkerRun(n, t) \/ WorkerExit(n, t)
    \/ \E n \in Node : NodeDies(n)
    \/ Crash

LEMMA NextLater == Next <=> Later \/ \E t \in Task : Submit(t)
  BY DEF Next, Later

LEMMA LaterLives == ASSUME TypeOK, LifeInv, Later PROVE LifeStep
<1>1. CASE \E t \in Task : Queue(t)
  BY <1>1, QueueLives
<1>2. CASE \E s \in Stopper : Stopping(s) \/ \E t \in Task : StopRead(s, t)
  BY <1>2, StoppingLives, StopReadLives
<1>3. CASE \E p \in Proc : Deleting(p) \/ Ending(p)
  BY <1>3, DeletingLives, EndingLives
<1>4. CASE SendWork
  BY <1>4, SendWorkLives
<1>5. CASE \E p \in Restarter : Restarting(p)
  BY <1>5, RestartingLives, Types DEF Restarter
<1>6. CASE LoopNext \/ \E t \in Checked : CheckFails(t)
  BY <1>6, LoopLives, CheckFailsLives
<1>7. CASE (\E n \in Node : SyncFetch(n)) \/ SyncApply \/ SyncForget
  BY <1>7, SyncLives, SyncApplyLives
<1>8. CASE \/ \E n \in Node, t \in Task : WorkerRun(n, t) \/ WorkerExit(n, t)
           \/ \E n \in Node : NodeDies(n)
  BY <1>8, WorkersLive
<1>9. CASE Crash
  BY <1>9, CrashLives
<1>. QED
  BY <1>1, <1>2, <1>3, <1>4, <1>5, <1>6, <1>7, <1>8, <1>9 DEF Later

LEMMA StutterLives == ASSUME LifeInv, UNCHANGED vars PROVE LifeInv' /\ Serves
<1>1. UNCHANGED <<rec, submitted, stopped, adding, pending, job, wdb, todo, sync>>
  BY DEF vars, stores, workers, client
<1>2. LifeInv'
  BY <1>1 DEF LifeInv, RecordsKnown, QueuesKnown, JobsKnown, JobKnown, ReportsKnown, Known
<1>3. \A t \in Task : PhaseOf(t)' = PhaseOf(t)
  BY <1>1, PhaseKept
<1>. QED
  BY <1>1, <1>2, <1>3, PhasesKept

LEMMA NextLives == TypeOK /\ LifeInv /\ [Next]_vars => LifeInv' /\ Serves
  BY NextLater, LaterLives, SubmitLives, StutterLives DEF LifeStep

LEMMA InitLives == Init => LifeInv /\ Service!Init
<1> SUFFICES ASSUME Init PROVE LifeInv /\ Service!Init
  OBVIOUS
<1>1. \A t \in Task : rec[t].state = "Absent"
  BY DEF Init, NoRecord, Fresh
<1>2. \A p \in Proc : job[p].pc = "idle"
  BY DEF Init, Idle
<1>3. RecordsKnown
  BY <1>1 DEF Init, RecordsKnown, Known
<1>4. QueuesKnown
  BY DEF Init, QueuesKnown
<1>5. JobsKnown
  BY <1>2 DEF JobsKnown, JobKnown
<1>6. ReportsKnown
  BY DEF Init, ReportsKnown, SyncIdle
<1>7. Service!Init
  <2>1. \A t \in Task : PhaseOf(t) = "new"
    BY <1>1 DEF Init, PhaseOf
  <2>. QED
    BY <2>1 DEF Init, Service!Init
<1>. QED
  BY <1>3, <1>4, <1>5, <1>6, <1>7 DEF LifeInv

\* For any tasks, nodes and policies and whatever fails, crashes and races,
\* the goroutines together move a task only as TaskService allows, or place an
\* ended one again: a deleted task is never placed (SendWork and restartTask
\* look before they commit), one that left the queue never waits again.
THEOREM ServiceFollowed == Spec => FollowsService
<1>1. Init => LifeInv /\ Service!Init
  BY InitLives
<1>2. TypeOK /\ LifeInv /\ [Next]_vars => LifeInv' /\ [Service!Next \/ \E t \in Task : LateRestart(t)]_(Service!service)
  BY NextLives DEF Serves
<1>. QED
  BY <1>1, <1>2, TypeCorrect, PTL DEF Spec, FollowsService

-----------------------------------------------------------------------------
(* A pending task has an event *)

LEMMA CarryStep ==
    ASSUME EventInv, \A t \in Task : rec'[t].state = "Pending" => rec[t].state = "Pending",
           adding \subseteq adding',
           \A t \in Task : Queued(pending, t) => Queued(pending', t),
           \A t \in Task : CarriedBy(job[Dispatcher], t) /\ rec'[t].state = "Pending" => Carried(t)'
    PROVE  EventInv'
  BY DEF EventInv, Carried

LEMMA QueueGrows ==
    ASSUME TypeOK, NEW u, NEW o, Enqueued(u, o)
    PROVE  /\ \A t \in Task : Queued(pending, t) => Queued(pending', t)
           /\ o.kind = "start" => Queued(pending', u)
<1>1. pending \in Seq(Event)
  BY DEF TypeOK
<1> DEFINE e == [task |-> u, order |-> o]
<1>2. /\ DOMAIN pending' = 1 .. Len(pending) + 1
      /\ pending'[Len(pending) + 1] = e
      /\ \A k \in 1 .. Len(pending) : pending'[k] = pending[k]
      /\ DOMAIN pending = 1 .. Len(pending) /\ Len(pending) \in Nat
  BY <1>1 DEF Enqueued
<1>. QED
  BY <1>2 DEF Queued

\* RemoveAllFunc keeps the other tasks' events.
LEMMA RemovedKeeps ==
    ASSUME NEW q \in Seq(Event), NEW t \in Task, NEW u \in Task, u # t, NEW S,
           NEW rest \in UpTo(Len(q), S), Removed(q, t, rest), Queued(q, u)
    PROVE  Queued(rest, u)
<1> DEFINE keep == {i \in DOMAIN q : q[i].task # t}
<1>1. PICK i \in DOMAIN q : q[i].task = u /\ q[i].order.kind = "start"
  BY DEF Queued
<1> DEFINE upto == {j \in keep : j <= i}
           c == Cardinality(upto)
<1>2. i \in keep /\ i \in upto
  BY <1>1
<1>3. IsFiniteSet(keep)
  <2>1. keep \subseteq 1 .. Len(q) /\ Len(q) \in Int
    OBVIOUS
  <2>2. IsFiniteSet(1 .. Len(q))
    BY <2>1, FS_Interval
  <2>. QED
    BY <2>1, <2>2, FS_Subset
<1>4. IsFiniteSet(upto) /\ c <= Cardinality(keep)
  BY <1>3, FS_Subset
<1>5. c \in Nat /\ c # 0 /\ Cardinality(keep) \in Nat
  BY <1>2, <1>3, <1>4, FS_CardinalityType, FS_EmptySet
<1>6. c \in DOMAIN rest
  <2>1. PICK k \in 0 .. Len(q) : rest \in [1 .. k -> S]
    BY DEF UpTo
  <2>2. Len(rest) = k /\ DOMAIN rest = 1 .. k
    BY <2>1
  <2>3. k = Cardinality(keep)
    BY <2>2 DEF Removed
  <2>. QED
    BY <1>4, <1>5, <2>2, <2>3
<1>7. rest[c] = q[i]
  BY <1>2 DEF Removed
<1>. QED
  BY <1>1, <1>6, <1>7 DEF Queued

\* The goroutines but the dispatcher carry nothing.
LEMMA OthersCarry ==
    ASSUME TypeOK, EventInv, Tame, adding' = adding,
           \A t \in Task : Queued(pending, t) => Queued(pending', t),
           job'[Dispatcher] = job[Dispatcher]
    PROVE  EventInv'
<1>1. \A t \in Task : CarriedBy(job[Dispatcher], t) => Carried(t)'
  BY DEF Carried, CarriedBy
<1>. QED
  BY <1>1, CarryStep DEF Tame

LEMMA OtherTurn ==
    ASSUME TypeOK, NEW p \in Proc, p # Dispatcher, NEW j, Become(p, j)
    PROVE  job'[Dispatcher] = job[Dispatcher]
  BY Types DEF Become, TypeOK, JobTypes

\* The dispatcher's own steps.
LEMMA DispatcherJob ==
    ASSUME TypeOK, NEW j, Become(Dispatcher, j)
    PROVE  job'[Dispatcher] = j
  BY Types DEF Become, TypeOK, JobTypes

LEMMA DispatcherGoto ==
    ASSUME TypeOK, job[Dispatcher].pc # "idle", NEW pc, Goto(Dispatcher, pc)
    PROVE  /\ job'[Dispatcher].pc = pc /\ job'[Dispatcher].task = job[Dispatcher].task
           /\ job'[Dispatcher].order = job[Dispatcher].order
  BY DispatcherJob, BusyJob, Types DEF Goto, Job

\* A write that fails just where a pending task is given up.
WriteLost == (MarkFailed(Dispatcher) \/ End(Dispatcher)) /\ Strikes("store")

LEMMA ClientsCarry ==
    ASSUME TypeOK, EventInv, NEW t \in Task, Submit(t) \/ Queue(t)
    PROVE  EventInv'
<1>1. job' = job
  BY DEF Submit, Queue
<1>2. CASE Submit(t)
  <2>1. ASSUME NEW u \in Task, rec'[u].state = "Pending" PROVE Carried(u)'
    <3>1. CASE u = t
      BY <1>2, <3>1 DEF Submit, Carried
    <3>2. CASE u # t
      <4>1. rec[u].state = "Pending"
        BY <1>2, <2>1, <3>2 DEF Submit, TypeOK
      <4>. QED
        BY <1>1, <1>2, <4>1 DEF Submit, EventInv, Carried, CarriedBy, Queued
    <3>. QED
      BY <3>1, <3>2
  <2>. QED
    BY <2>1 DEF EventInv
<1>3. CASE Queue(t)
  <2>1. Enqueued(t, Start(0)) /\ adding' = adding \ {t} /\ rec' = rec
    BY <1>3 DEF Queue, stores
  <2>2. Queued(pending', t) /\ \A u \in Task : Queued(pending, u) => Queued(pending', u)
    BY <2>1, QueueGrows DEF Start
  <2>. QED
    BY <1>1, <2>1, <2>2 DEF EventInv, Carried, CarriedBy
<1>. QED
  BY <1>2, <1>3

LEMMA StopsCarry ==
    ASSUME TypeOK, EventInv, Tame, NEW s \in Stopper,
           Stopping(s) \/ \E t \in Task : StopRead(s, t)
    PROVE  EventInv'
<1>1. s \in Proc /\ s # Dispatcher
  BY ManagerAssumption, Types
<1>2. job'[Dispatcher] = job[Dispatcher]
  BY <1>1, OtherTurn DEF Stopping, StopDecide, StopMark, StopQueue, StopRead, Goto, Finish
<1>3. adding' = adding
  BY DEF Stopping, StopDecide, StopMark, StopQueue, StopRead, client
<1>4. \A t \in Task : Queued(pending, t) => Queued(pending', t)
  <2>1. pending' = pending \/ \E o : Enqueued(job[s].task, o)
    BY DEF Stopping, StopDecide, StopMark, StopQueue, StopRead
  <2>. QED
    BY <2>1, QueueGrows
<1>. QED
  BY <1>2, <1>3, <1>4, OthersCarry

LEMMA DeletingCarries ==
    ASSUME TypeOK, JobsKnown, EventInv, Tame, NEW p \in Proc, Deleting(p)
    PROVE  EventInv'
<1>1. job[p].pc \in {"delete", "drop", "clean"} /\ adding' = adding
  BY DEF Deleting, Delete, Drop, Clean, At, client
<1>2. p # Dispatcher => job'[Dispatcher] = job[Dispatcher]
  BY OtherTurn DEF Deleting, Delete, Drop, Clean, Goto, Finish
<1>3. ASSUME NEW t \in Task, CarriedBy(job[Dispatcher], t) PROVE Carried(t)'
  <2>1. p # Dispatcher
    BY <1>1, <1>3 DEF CarriedBy, Carrying
  <2>. QED
    BY <1>2, <1>3, <2>1 DEF Carried, CarriedBy
<1>4. CASE pending' = pending
  BY <1>1, <1>3, <1>4, CarryStep DEF Tame
<1>5. CASE Drop(p)
  <2> DEFINE u == job[p].task
  <2>1. PICK q \in UpTo(Len(pending), {pending[i] : i \in DOMAIN pending}) :
           Removed(pending, u, q) /\ pending' = q
    BY <1>5 DEF Drop
  <2>2. u \in Task /\ job[p].pc = "drop" /\ rec' = rec
    BY <1>5, BusyJob DEF Drop, At, stores
  <2>3. rec'[u].state # "Pending"
    BY <2>2 DEF JobsKnown, JobKnown
  <2>4. ASSUME NEW t \in Task, rec'[t].state = "Pending" PROVE Carried(t)'
    <3>1. t # u
      BY <2>3, <2>4
    <3>2. Carried(t)
      BY <2>2, <2>4 DEF EventInv
    <3>3. pending \in Seq(Event)
      BY DEF TypeOK
    <3>4. Queued(pending, t) => Queued(pending', t)
      BY <2>1, <2>2, <3>1, <3>3, RemovedKeeps
    <3>. QED
      BY <1>1, <1>3, <3>2, <3>4 DEF Carried
  <2>. QED
    BY <2>4 DEF EventInv
<1>. QED
  BY <1>4, <1>5 DEF Deleting, Delete, Clean

LEMMA EndingCarries ==
    ASSUME TypeOK, EventInv, Tame, NEW p \in Proc, Ending(p), ~WriteLost
    PROVE  EventInv'
<1>1. adding' = adding /\ pending' = pending
  BY DEF Ending, MarkFailed, End, Kill, Undo, client
<1>2. CASE p # Dispatcher
  <2>1. job'[Dispatcher] = job[Dispatcher]
    BY <1>2, OtherTurn DEF Ending, MarkFailed, End, Kill, Undo, Goto, Finish
  <2>. QED
    BY <1>1, <2>1, OthersCarry
<1>3. CASE p = Dispatcher
  <2>1. job[p].pc # "idle" /\ job[p].task \in Task
    BY BusyJob DEF Ending, MarkFailed, End, Kill, Undo, At
  <2>2. ASSUME NEW t \in Task, CarriedBy(job[Dispatcher], t), rec'[t].state = "Pending"
        PROVE  Carried(t)'
    <3>0. t = job[p].task
      BY <1>3, <2>2 DEF CarriedBy
    <3>1. CASE MarkFailed(p)
      <4>1. Known(t)
        BY <2>2 DEF Tame, Known
      <4>2. PICK n : rec' = [rec EXCEPT ![t] = Retryable(rec[t], n)]
        BY <1>3, <3>0, <3>1, <4>1 DEF MarkFailed, WriteLost
      <4>3. Retryable(rec[t], n).state = "Failed"
        <5>1. rec[t] \in Record
          BY Sources
        <5>. QED
          BY <5>1 DEF Retryable, Record
      <4>. QED
        BY <2>2, <4>2, <4>3 DEF TypeOK
    <3>2. CASE End(p)
      <4>1. rec' = [rec EXCEPT ![t] = Terminal(job[p].snap)]
        BY <1>3, <3>0, <3>2 DEF End, WriteLost
      <4>2. Terminal(job[p].snap).state = "Failed"
        BY BusyJob DEF Terminal, Record
      <4>. QED
        BY <2>2, <4>1, <4>2 DEF TypeOK
    <3>3. CASE Kill(p)
      BY <1>3, <2>2, <3>3 DEF Kill, At, CarriedBy, Carrying
    <3>4. CASE Undo(p)
      <4>1. job[p].pc = "undo"
        BY <3>4 DEF Undo, At
      <4>2. job[p].again
        BY <1>3, <2>2, <4>1 DEF CarriedBy, Carrying
      <4>3. Goto(p, "retry")
        BY <3>4, <4>2 DEF Undo
      <4>. QED
        BY <1>3, <2>1, <2>2, <4>3, DispatcherGoto DEF Carried, CarriedBy, Carrying
    <3>. QED
      BY <3>1, <3>2, <3>3, <3>4 DEF Ending
  <2>. QED
    BY <1>1, <2>2, CarryStep DEF Tame
<1>. QED
  BY <1>2, <1>3

\* A start taken from the queue is in SendWork's hands.
LEMMA DequeueCarries == ASSUME TypeOK, EventInv, Tame, Dequeue PROVE EventInv'
<1> DEFINE e == Head(pending)
           j == [Idle EXCEPT !.pc = "route", !.task = e.task, !.order = e.order, !.snap = Fresh]
<1>1. pending \in Seq(Event) /\ pending # <<>> /\ pending' = Tail(pending) /\ adding' = adding
  BY DEF Dequeue, TypeOK, client
<1>2. job'[Dispatcher] = j
  BY DispatcherJob DEF Dequeue
<1>3. j.pc = "route" /\ j.task = e.task /\ j.order = e.order
  BY DEF Idle
<1>4. job[Dispatcher].pc = "idle"
  BY DEF Dequeue, At
<1>5. ASSUME NEW t \in Task, rec'[t].state = "Pending" PROVE Carried(t)'
  <2>1. t \in adding \/ Queued(pending, t)
    BY <1>4, <1>5 DEF Tame, EventInv, Carried, CarriedBy, Carrying
  <2>2. CASE Queued(pending, t)
    <3>1. PICK i \in DOMAIN pending : pending[i].task = t /\ pending[i].order.kind = "start"
      BY <2>2 DEF Queued
    <3>2. CASE i = 1
      <4>1. e = pending[1]
        BY <1>1
      <4>. QED
        BY <1>2, <1>3, <3>1, <3>2, <4>1 DEF Carried, CarriedBy, Carrying
    <3>3. CASE i # 1
      <4>1. i - 1 \in DOMAIN pending' /\ pending'[i - 1] = pending[i]
        BY <1>1, <3>3
      <4>. QED
        BY <3>1, <4>1 DEF Carried, Queued
    <3>. QED
      BY <3>2, <3>3
  <2>. QED
    BY <1>1, <2>1, <2>2 DEF Carried
<1>. QED
  BY <1>5 DEF EventInv

LEMMA PlacingCarries ==
    ASSUME TypeOK, EventInv, Tame, Route \/ Unowned \/ Place
    PROVE  EventInv'
<1> DEFINE d == Dispatcher
           u == job[d].task
<1>1. job[d].pc # "idle" /\ u \in Task /\ d \in Proc /\ adding' = adding
  BY BusyJob, Types DEF Route, Unowned, Place, At, client
<1>2. pending' = pending \/ \E o : Enqueued(u, o)
  BY DEF Route, Unowned, Place
<1>3. \A t \in Task : Queued(pending, t) => Queued(pending', t)
  BY <1>2, QueueGrows
<1>4. ASSUME NEW t \in Task, CarriedBy(job[d], t), rec'[t].state = "Pending"
      PROVE  Carried(t)'
  <2>1. t = u /\ job[d].order.kind = "start" /\ Known(t)
    BY <1>4 DEF CarriedBy, Tame, Known
  <2>2. ASSUME NEW pc \in Carrying, Goto(d, pc) PROVE Carried(t)'
    BY <1>1, <2>1, <2>2, DispatcherGoto DEF Carried, CarriedBy
  <2>3. ASSUME NEW n, Become(d, [job[d] EXCEPT !.pc = "post", !.node = n]) PROVE Carried(t)'
    <3> DEFINE j == [job[d] EXCEPT !.pc = "post", !.node = n]
    <3>1. j.pc = "post" /\ j.task = u /\ j.order = job[d].order
      BY <1>1, BusyJob DEF Job
    <3>2. job'[d] = j
      BY <2>3, DispatcherJob
    <3>. QED
      BY <2>1, <3>1, <3>2 DEF Carried, CarriedBy, Carrying
  <2>4. CASE Route
    <3>1. \/ Goto(d, "place") \/ Goto(d, "fail")
          \/ Become(d, [job[d] EXCEPT !.pc = "post", !.node = asg[u]])
      BY <2>1, <2>4 DEF Route
    <3>. QED
      BY <2>2, <2>3, <3>1 DEF Carrying
  <2>5. CASE Unowned
    BY <1>4, <2>5 DEF Unowned, At, CarriedBy, Carrying
  <2>6. CASE Place
    <3>1. CASE Select(d, u, NoNode, "post")
      BY <2>3, <3>1 DEF Select
    <3>2. CASE Enqueued(u, Start(0))
      BY <2>1, <3>2, QueueGrows DEF Carried, Start
    <3>3. CASE Goto(d, "end")
      BY <2>2, <3>3 DEF Carrying
    <3>. QED
      BY <2>1, <2>6, <3>1, <3>2, <3>3 DEF Place, Cancelled
  <2>. QED
    BY <2>4, <2>5, <2>6
<1>. QED
  BY <1>1, <1>3, <1>4, CarryStep DEF Tame

LEMMA SendingCarries ==
    ASSUME TypeOK, EventInv, Tame, Post \/ Release \/ Retry \/ Commit
    PROVE  EventInv'
<1> DEFINE d == Dispatcher
           u == job[d].task
<1>1. job[d].pc # "idle" /\ u \in Task /\ d \in Proc /\ adding' = adding
  BY BusyJob, Types DEF Post, Release, Retry, Commit, At, client
<1>2. pending' = pending \/ \E o : Enqueued(u, o)
  BY DEF Post, Release, Retry, Commit
<1>3. \A t \in Task : Queued(pending, t) => Queued(pending', t)
  BY <1>2, QueueGrows
<1>4. ASSUME NEW t \in Task, CarriedBy(job[d], t), rec'[t].state = "Pending"
      PROVE  Carried(t)'
  <2>1. t = u /\ job[d].order.kind = "start" /\ Known(t)
    BY <1>4 DEF CarriedBy, Tame, Known
  <2>2. ASSUME NEW pc \in Carrying, Goto(d, pc) PROVE Carried(t)'
    BY <1>1, <2>1, <2>2, DispatcherGoto DEF Carried, CarriedBy
  <2>3. CASE Post
    <3>1. Goto(d, "commit") \/ Goto(d, "retry") \/ Goto(d, "burn")
      BY <2>1, <2>3 DEF Post, Refuses
    <3>. QED
      BY <2>2, <3>1 DEF Carrying
  <2>4. CASE Release
    BY <1>4, <2>4 DEF Release, At, CarriedBy, Carrying
  <2>5. CASE Retry
    <3>1. Enqueued(u, job[d].order)
      BY <2>5 DEF Retry
    <3>. QED
      BY <2>1, <3>1, QueueGrows DEF Carried
  <2>6. CASE Commit
    <3> DEFINE j == [job[d] EXCEPT !.pc = "undo", !.again = TRUE]
    <3>1. CASE Become(d, j)
      <4>1. j.pc = "undo" /\ j.again /\ j.task = u /\ j.order = job[d].order
        BY <1>1, BusyJob DEF Job
      <4>2. job'[d] = j
        BY <3>1, DispatcherJob
      <4>. QED
        BY <2>1, <4>1, <4>2 DEF Carried, CarriedBy
    <3>2. CASE rec' = [rec EXCEPT ![u] = [Fresh EXCEPT !.state = "Scheduled"]]
      <4>1. rec'[u].state = "Scheduled"
        BY <1>1, <3>2 DEF TypeOK, Fresh
      <4>. QED
        BY <1>4, <2>1, <4>1
    <3>. QED
      BY <2>1, <2>6, <3>1, <3>2 DEF Commit, Cancelled
  <2>. QED
    BY <2>3, <2>4, <2>5, <2>6
<1>. QED
  BY <1>1, <1>3, <1>4, CarryStep DEF Tame

LEMMA RestartsCarry ==
    ASSUME TypeOK, EventInv, Tame,
           \/ \E p \in Restarter : Restarting(p)
           \/ LoopNext \/ \E t \in Checked : CheckFails(t)
    PROVE  EventInv'
<1>1. adding' = adding /\ pending' = pending
  BY DEF Restarting, RestartOwner, RestartPick, RestartPost, Recommit, Move,
         LoopNext, LoopSnapshot, LoopVisit, LoopBackoff, CheckFails, client
<1>2. \A p \in Restarter : p \in Proc /\ p # Dispatcher
  BY ManagerAssumption, Types DEF Restarter
<1>3. job'[Dispatcher] = job[Dispatcher]
  <2>1. CASE \E p \in Restarter : Restarting(p)
    <3>1. PICK p \in Restarter : Restarting(p)
      BY <2>1
    <3>2. \E j : Become(p, j)
      BY <3>1 DEF Restarting, RestartOwner, RestartPick, RestartPost, Recommit, Move, Goto, Finish, Select
    <3>. QED
      BY <1>2, <3>2, OtherTurn
  <2>2. CASE LoopNext
    BY <1>2, <2>2, OtherTurn DEF LoopNext, LoopSnapshot, LoopVisit, LoopBackoff, Visit, Restarter
  <2>3. CASE \E t \in Checked : CheckFails(t)
    BY <1>2, <2>3, OtherTurn DEF CheckFails, Restarter
  <2>. QED
    BY <2>1, <2>2, <2>3
<1>. QED
  BY <1>1, <1>3, OthersCarry

\* reconcileOnStartup queues the pending tasks of the store again.
LEMMA CrashCarries == ASSUME TypeOK, EventInv, Crash PROVE EventInv'
<1>1. rec' = rec /\ Recovered(pending')
  BY DEF Crash
<1>2. ASSUME NEW t \in Task, rec'[t].state = "Pending" PROVE Queued(pending', t)
  <2>1. PICK i \in DOMAIN pending' : pending'[i] = [task |-> t, order |-> Start(0)]
    BY <1>1, <1>2, RecoveredStarts
  <2>. QED
    BY <2>1 DEF Queued, Start
<1>. QED
  BY <1>2 DEF EventInv, Carried

LEMMA LaterCarries == ASSUME TypeOK, LifeInv, EventInv, Later, ~WriteLost PROVE EventInv'
<1>0. Tame /\ JobsKnown
  BY LaterLives DEF LifeStep, LifeInv
<1>1. CASE \E t \in Task : Queue(t)
  BY <1>1, ClientsCarry
<1>2. CASE \E s \in Stopper : Stopping(s) \/ \E t \in Task : StopRead(s, t)
  BY <1>0, <1>2, StopsCarry
<1>3. CASE \E p \in Proc : Deleting(p) \/ Ending(p)
  BY <1>0, <1>3, DeletingCarries, EndingCarries
<1>4. CASE SendWork
  BY <1>0, <1>4, DequeueCarries, PlacingCarries, SendingCarries DEF SendWork
<1>5. CASE \/ \E p \in Restarter : Restarting(p)
           \/ LoopNext \/ \E t \in Checked : CheckFails(t)
  BY <1>0, <1>5, RestartsCarry
<1>6. CASE \/ \E n \in Node : SyncFetch(n)
           \/ SyncApply \/ SyncForget
           \/ \E n \in Node, t \in Task : WorkerRun(n, t) \/ WorkerExit(n, t)
           \/ \E n \in Node : NodeDies(n)
  <2>1. UNCHANGED <<adding, pending, job>>
    BY <1>6 DEF SyncFetch, SyncApply, SyncForget, WorkerRun, WorkerExit, NodeDies, client
  <2>. QED
    BY <1>0, <2>1, OthersCarry
<1>7. CASE Crash
  BY <1>7, CrashCarries
<1>. QED
  BY <1>1, <1>2, <1>3, <1>4, <1>5, <1>6, <1>7 DEF Later

LEMMA NextCarries ==
    ASSUME TypeOK, LifeInv, EventInv, [Next]_vars, [~WriteLost]_vars
    PROVE  EventInv'
<1>1. CASE UNCHANGED vars
  BY <1>1 DEF vars, stores, client, EventInv, Carried
<1>2. CASE Next /\ ~WriteLost
  BY <1>2, NextLater, LaterCarries, ClientsCarry
<1>. QED
  BY <1>1, <1>2

\* A pending task is not forgotten, whatever is lost, refused or crashes: its
\* start is on its way through AddTask, the queue or SendWork, or queued again
\* by reconcileOnStartup.  Only one kind of step can lose it, a store write
\* that fails in markFailed or stopTaskTerminal, where SendWork gives it up.
THEOREM OnlyWritesForget == Spec /\ [][~WriteLost]_vars => []PendingHasEvent
<1>1. Init => LifeInv /\ EventInv
  <2>1. Init => EventInv
    BY DEF Init, EventInv, NoRecord, Fresh
  <2>. QED
    BY <2>1, InitLives
<1>2. TypeOK /\ LifeInv /\ EventInv /\ [Next]_vars /\ [~WriteLost]_vars => LifeInv' /\ EventInv'
  BY NextLives, NextCarries
<1>3. EventInv => PendingHasEvent
  BY DEF EventInv, PendingHasEvent, Carried, CarriedBy, Queued, StartInFlight
<1>. QED
  BY <1>1, <1>2, <1>3, TypeCorrect, PTL DEF Spec

\* With a store whose writes do not fail no pending task is ever forgotten.
THEOREM PendingNotForgotten == ("store" \notin Fault) /\ Spec => []PendingHasEvent
<1> SUFFICES ASSUME "store" \notin Fault PROVE Spec => []PendingHasEvent
  OBVIOUS
<1>1. ~WriteLost
  BY DEF WriteLost, Strikes
<1>. QED
  BY <1>1, OnlyWritesForget, PTL

-----------------------------------------------------------------------------
(* Reserved ports *)

\* A goroutine gives back, or commits to, the port on the node it sends a
\* start to; the one on the node a task left, it gives back.
Sending == {"restart", "recommit", "commit", "fail", "burn", "undo"}
Leaving == {"move", "drop", "kill"}
Keeping == {"post", "retry"}
Holds(j, t, n) ==
    /\ j.task = t
    /\ \/ j.pc \in Sending /\ j.node = n
       \/ j.pc \in Keeping /\ j.order.kind = "start" /\ ~j.again /\ j.node = n
       \/ j.pc \in Leaving /\ j.old = n

\* NoPortLeak is inductive with what the goroutine in question still has to
\* do, and with only starts being placed.
Accounted(t, n) == asg[t] = n \/ \E p \in Proc : Holds(job[p], t, n)
Placing(j) == /\ j.pc \in {"route", "place"} => ~j.again
              /\ j.pc = "place" => j.order.kind = "start"
PortInv == /\ \A n \in Node : res[n] # NoTask => res[n] \in Pinned /\ Accounted(res[n], n)
           /\ \A p \in Proc : Placing(job[p])

\* SendWork commits a start although the task was assigned elsewhere meanwhile.
Overwrites == /\ Commit
              /\ LET t == job[Dispatcher].task
                 IN  t \in Pinned /\ asg[t] \notin {NoNode, asg'[t]}

\* A goroutine's step accounts for the ports it takes and those it held.
LEMMA PortStep ==
    ASSUME TypeOK, PortInv, NEW p \in Proc, NEW j, Become(p, j), Placing(j),
           \A n \in Node : \/ res'[n] \in {NoTask, res[n]}
                           \/ res'[n] \in Pinned /\ (asg'[res'[n]] = n \/ Holds(j, res'[n], n)),
           \A n \in Node, t \in Task :
               res'[n] = t /\ (asg[t] = n \/ Holds(job[p], t, n)) => asg'[t] = n \/ Holds(j, t, n)
    PROVE  PortInv'
<1>1. job'[p] = j /\ \A q \in Proc : q # p => job'[q] = job[q]
  BY DEF Become, TypeOK, JobTypes
<1>2. ASSUME NEW n \in Node, NEW t, t = res'[n], t # NoTask PROVE t \in Pinned /\ Accounted(t, n)'
  <2>1. CASE t = res[n]
    <3>1. t \in Pinned /\ t \in Task /\ Accounted(t, n)
      BY <1>2, <2>1, ManagerAssumption DEF PortInv
    <3>2. CASE asg[t] = n \/ Holds(job[p], t, n)
      <4>1. asg'[t] = n \/ Holds(j, t, n)
        BY <1>2, <3>1, <3>2
      <4>. QED
        BY <1>1, <3>1, <4>1 DEF Accounted
    <3>3. CASE \E q \in Proc : q # p /\ Holds(job[q], t, n)
      <4>1. PICK q \in Proc : q # p /\ Holds(job[q], t, n)
        BY <3>3
      <4>2. Holds(job'[q], t, n)
        BY <1>1, <4>1
      <4>. QED
        BY <3>1, <4>2 DEF Accounted
    <3>. QED
      BY <3>1, <3>2, <3>3 DEF Accounted
  <2>2. CASE t # res[n]
    <3>1. t \in Pinned /\ (asg'[t] = n \/ Holds(j, t, n))
      BY <1>2, <2>2
    <3>. QED
      BY <1>1, <3>1 DEF Accounted
  <2>. QED
    BY <2>1, <2>2
<1>3. \A q \in Proc : Placing(job'[q])
  BY <1>1 DEF PortInv
<1>. QED
  BY <1>2, <1>3 DEF PortInv

LEMMA PortIdle == ASSUME PortInv, UNCHANGED <<asg, res, job>> PROVE PortInv'
  BY DEF PortInv, Accounted

\* Whoever holds nothing has nothing to give back.
Loose == Pc \ (Sending \union Leaving \union Keeping)
LEMMA LooseStep ==
    ASSUME TypeOK, PortInv, NEW p \in Proc, job[p].pc \in Loose, NEW j, Become(p, j), Placing(j),
           UNCHANGED <<asg, res>>
    PROVE  PortInv'
<1>1. \A n \in Node, t \in Task : ~Holds(job[p], t, n)
  BY DEF Loose, Holds
<1>. QED
  BY <1>1, PortStep

\* What Released leaves alone, and what it does not.
LEMMA ReleasedIs ==
    ASSUME TypeOK, NEW m, NEW t, t # NoTask
    PROVE  \A n \in Node : /\ Released(m, t)[n] \in {NoTask, res[n]}
                           /\ Released(m, t)[n] = t => n # m
  BY DEF Released, TypeOK

LEMMA ReservedIs ==
    ASSUME TypeOK, NEW m \in Node, NEW t
    PROVE  \A n \in Node : \/ Reserved(m, t)[n] = res[n]
                           \/ n = m /\ t \in Pinned /\ Reserved(m, t)[n] = t
  BY DEF Reserved, TypeOK

\* A goroutine gives back the one port it may hold.
LEMMA GiveBack ==
    ASSUME TypeOK, PortInv, NEW p \in Proc, job[p].pc # "idle", NEW j, Become(p, j), Placing(j),
           NEW m, res' = Released(m, job[p].task), asg' = asg,
           \A n \in Node : Holds(job[p], job[p].task, n) => n = m
    PROVE  PortInv'
<1> DEFINE t == job[p].task
<1>1. t \in Task /\ t # NoTask
  BY BusyJob, ManagerAssumption
<1>2. \A n \in Node : res'[n] \in {NoTask, res[n]} /\ (res'[n] = t => n # m)
  BY <1>1, ReleasedIs
<1>3. \A n \in Node, u \in Task : Holds(job[p], u, n) => u = t
  BY DEF Holds
<1>. QED
  BY <1>2, <1>3, PortStep

LEMMA IdlePlacing == Placing(Idle)
  BY DEF Placing, Idle

\* What is read of a goroutine's next state.
LEMMA GotoIs ==
    ASSUME TypeOK, NEW p \in Proc, NEW pc
    PROVE  LET j == [job[p] EXCEPT !.pc = pc]
           IN  /\ j.pc = pc /\ j.task = job[p].task /\ j.order = job[p].order
               /\ j.again = job[p].again /\ j.node = job[p].node /\ j.old = job[p].old
  BY BusyJob DEF Job

\* A stage reached from one that holds nothing.
LEMMA LooseGoto ==
    ASSUME TypeOK, PortInv, NEW p \in Proc, job[p].pc \in Loose, NEW pc, pc \notin {"route", "place"},
           Goto(p, pc), UNCHANGED <<asg, res>>
    PROVE  PortInv'
<1> DEFINE j == [job[p] EXCEPT !.pc = pc]
<1>1. Placing(j) /\ Become(p, j)
  BY GotoIs DEF Placing, Goto
<1>. QED
  BY <1>1, LooseStep

LEMMA LooseFinish ==
    ASSUME TypeOK, PortInv, NEW p \in Proc, job[p].pc \in Loose, Finish(p), UNCHANGED <<asg, res>>
    PROVE  PortInv'
  BY IdlePlacing, LooseStep DEF Finish

LEMMA LoosePcs ==
    /\ "idle" \in Loose /\ "route" \in Loose /\ "unowned" \in Loose /\ "place" \in Loose
    /\ "release" \in Loose /\ "owner" \in Loose /\ "pick" \in Loose /\ "end" \in Loose
    /\ "delete" \in Loose /\ "clean" \in Loose
    /\ "decide" \in Loose /\ "mark" \in Loose /\ "queue" \in Loose
  BY DEF Loose, Sending, Leaving, Keeping, Pc

\* The port of the node chosen is the goroutine's.
LEMMA SelectPorts ==
    ASSUME TypeOK, PortInv, NEW p \in Proc, job[p].pc \in Loose, job[p].pc # "idle",
           NEW pc \in {"restart", "post"},
           pc = "post" => job[p].order.kind = "start" /\ ~job[p].again,
           NEW owner, Select(p, job[p].task, owner, pc), asg' = asg
    PROVE  PortInv'
<1> DEFINE t == job[p].task
<1>1. PICK m \in Node : /\ res' = Reserved(m, t)
                        /\ Become(p, [job[p] EXCEPT !.pc = pc, !.node = m])
  BY DEF Select
<1> DEFINE j == [job[p] EXCEPT !.pc = pc, !.node = m]
<1>2. /\ j.pc = pc /\ j.task = t /\ j.order = job[p].order
      /\ j.again = job[p].again /\ j.node = m
  BY BusyJob DEF Job
<1>3. Holds(j, t, m) /\ Placing(j)
  BY <1>2 DEF Holds, Sending, Keeping, Placing
<1>4. \A n \in Node, u \in Task : ~Holds(job[p], u, n)
  BY DEF Loose, Holds
<1>5. \A n \in Node : res'[n] = res[n] \/ (n = m /\ t \in Pinned /\ res'[n] = t)
  BY <1>1, ReservedIs
<1>. QED
  BY <1>1, <1>3, <1>4, <1>5, PortStep

\* A goroutine keeps what it holds.
LEMMA KeepPorts ==
    ASSUME TypeOK, PortInv, NEW p \in Proc, NEW pc, pc \notin {"route", "place"}, Goto(p, pc),
           \A t, n : Holds(job[p], t, n) => Holds([job[p] EXCEPT !.pc = pc], t, n),
           UNCHANGED <<asg, res>>
    PROVE  PortInv'
<1> DEFINE j == [job[p] EXCEPT !.pc = pc]
<1>1. Placing(j) /\ Become(p, j)
  BY GotoIs DEF Placing, Goto
<1>. QED
  BY <1>1, PortStep

-----------------------------------------------------------------------------
(* Each action accounts for its ports *)

LEMMA ClientPorts ==
    ASSUME TypeOK, PortInv, NEW t \in Task, Submit(t) \/ Queue(t)
    PROVE  PortInv'
  BY PortIdle DEF Submit, Queue, stores

LEMMA StopperPorts ==
    ASSUME TypeOK, PortInv, NEW s \in Stopper, Stopping(s) \/ \E t \in Task : StopRead(s, t)
    PROVE  PortInv'
<1>0. s \in Proc
  BY Types
<1>1. CASE StopDecide(s)
  <2>1. job[s].pc \in Loose /\ UNCHANGED <<asg, res>>
    BY <1>1, LoosePcs DEF StopDecide, At, stores
  <2>2. Goto(s, "delete") \/ Goto(s, "mark")
    BY <1>1 DEF StopDecide
  <2>. QED
    BY <1>0, <2>1, <2>2, LooseGoto
<1>2. CASE StopMark(s) \/ StopQueue(s)
  <2>1. job[s].pc \in Loose /\ UNCHANGED <<asg, res>>
    BY <1>2, LoosePcs DEF StopMark, StopQueue, At, stores
  <2>2. Goto(s, "queue") \/ Finish(s)
    BY <1>2 DEF StopMark, StopQueue
  <2>. QED
    BY <1>0, <2>1, <2>2, LooseGoto, LooseFinish
<1>3. CASE \E t \in Task : StopRead(s, t)
  <2>1. PICK t \in Task : StopRead(s, t)
    BY <1>3
  <2> DEFINE j == [Idle EXCEPT !.pc = "decide", !.task = t, !.snap = rec[t]]
  <2>2. Placing(j) /\ Become(s, j)
    BY <2>1 DEF Placing, Idle, StopRead
  <2>3. job[s].pc \in Loose /\ UNCHANGED <<asg, res>>
    BY <2>1, LoosePcs DEF StopRead, At, stores
  <2>. QED
    BY <1>0, <2>2, <2>3, LooseStep
<1>. QED
  BY <1>1, <1>2, <1>3 DEF Stopping

\* The assignment goes, and with it the owner's claim to the port.
LEMMA DeletingPorts == ASSUME TypeOK, PortInv, NEW p \in Proc, Deleting(p) PROVE PortInv'
<1> DEFINE t == job[p].task
<1>1. CASE Delete(p) /\ ~Goto(p, "retry") /\ ~Finish(p)
  <2> DEFINE j == [job[p] EXCEPT !.pc = "drop", !.old = asg[t]]
  <2>1. /\ t \in Task /\ job[p].pc \in Loose
        /\ asg' = [asg EXCEPT ![t] = NoNode] /\ res' = res /\ Become(p, j)
    BY <1>1, BusyJob, LoosePcs DEF Delete, At
  <2>2. j.pc = "drop" /\ j.task = t /\ j.old = asg[t]
    BY BusyJob DEF Job
  <2>3. Placing(j) /\ \A n \in Node : asg[t] = n => Holds(j, t, n)
    BY <2>2 DEF Placing, Holds, Leaving
  <2>4. \A n \in Node, u \in Task : ~Holds(job[p], u, n)
    BY <2>1 DEF Loose, Holds
  <2>5. \A u \in Task : u # t => asg'[u] = asg[u]
    BY <2>1 DEF TypeOK
  <2>. QED
    BY <2>1, <2>3, <2>4, <2>5, PortStep
<1>2. CASE (Delete(p) /\ (Goto(p, "retry") \/ Finish(p))) \/ Clean(p)
  <2>1. job[p].pc \in Loose /\ res' = res
    BY <1>2, LoosePcs DEF Delete, Clean, At
  <2>2. asg' = asg
    <3>1. CASE Delete(p) /\ (Goto(p, "retry") \/ Finish(p))
      <4> DEFINE j == [job[p] EXCEPT !.pc = "drop", !.old = asg[t]]
      <4>1. j.pc = "drop" /\ [job[p] EXCEPT !.pc = "retry"].pc = "retry" /\ Idle.pc = "idle"
        BY BusyJob DEF Job, Idle
      <4>2. ~Become(p, j)
        BY <3>1, <4>1 DEF Become, Goto, Finish, TypeOK, JobTypes
      <4>. QED
        BY <3>1, <4>2 DEF Delete, stores
    <3>. QED
      BY <1>2, <3>1 DEF Clean, stores
  <2>3. Goto(p, "retry") \/ Finish(p)
    BY <1>2 DEF Clean
  <2>. QED
    BY <2>1, <2>2, <2>3, LooseGoto, LooseFinish
<1>3. CASE Drop(p)
  <2>1. /\ job[p].pc = "drop" /\ res' = Released(job[p].old, t) /\ asg' = asg
        /\ Goto(p, "clean") \/ Finish(p)
    BY <1>3 DEF Drop, At, Vacated, stores
  <2>2. \A n : Holds(job[p], t, n) => n = job[p].old
    BY <2>1 DEF Holds, Sending, Keeping
  <2>3. Placing([job[p] EXCEPT !.pc = "clean"])
    BY GotoIs DEF Placing
  <2>. QED
    BY <2>1, <2>2, <2>3, IdlePlacing, GiveBack DEF Goto, Finish
<1>. QED
  BY <1>1, <1>2, <1>3 DEF Deleting

LEMMA EndingPorts == ASSUME TypeOK, PortInv, NEW p \in Proc, Ending(p) PROVE PortInv'
<1> DEFINE t == job[p].task
<1>1. CASE MarkFailed(p)
  <2>1. /\ job[p].pc \in {"fail", "burn"} /\ res' = Released(job[p].node, t) /\ asg' = asg /\ Finish(p)
    BY <1>1 DEF MarkFailed, At
  <2>2. \A n : Holds(job[p], t, n) => n = job[p].node
    BY <2>1 DEF Holds, Leaving
  <2>. QED
    BY <2>1, <2>2, IdlePlacing, GiveBack DEF Finish
<1>2. CASE End(p)
  <2> DEFINE j == [job[p] EXCEPT !.pc = "kill", !.old = asg[t]]
  <2>1. j.pc = "kill" /\ Become(p, j) /\ job[p].pc \in Loose /\ UNCHANGED <<asg, res>>
    BY <1>2, BusyJob, LoosePcs DEF End, At, Job
  <2>. QED
    BY <2>1, LooseStep DEF Placing
<1>3. CASE Kill(p)
  <2>1. /\ job[p].pc = "kill" /\ res' = Released(job[p].old, t) /\ asg' = asg /\ Finish(p)
    BY <1>3 DEF Kill, At, Vacated, stores
  <2>2. \A n : Holds(job[p], t, n) => n = job[p].old
    BY <2>1 DEF Holds, Sending, Keeping
  <2>. QED
    BY <2>1, <2>2, IdlePlacing, GiveBack DEF Finish
<1>4. CASE Undo(p)
  <2>1. /\ job[p].pc = "undo" /\ res' = Released(job[p].node, t) /\ asg' = asg
        /\ Goto(p, "retry") \/ Finish(p)
    BY <1>4 DEF Undo, At, stores
  <2>2. \A n : Holds(job[p], t, n) => n = job[p].node
    BY <2>1 DEF Holds, Leaving
  <2>3. Placing([job[p] EXCEPT !.pc = "retry"])
    BY GotoIs DEF Placing
  <2>. QED
    BY <2>1, <2>2, <2>3, IdlePlacing, GiveBack DEF Goto, Finish
<1>. QED
  BY <1>1, <1>2, <1>3, <1>4 DEF Ending

LEMMA DispatchPorts ==
    ASSUME TypeOK, PortInv, Dequeue \/ Route \/ Unowned \/ Place \/ Release
    PROVE  PortInv'
<1> DEFINE J == job[Dispatcher]
           t == J.task
<1>0. Dispatcher \in Proc /\ Placing(J)
  BY Types DEF PortInv
<1>1. CASE Dequeue
  <2> DEFINE e == Head(pending)
             j == [Idle EXCEPT !.pc = "route", !.task = e.task, !.order = e.order, !.snap = Fresh]
  <2>1. Become(Dispatcher, j) /\ J.pc \in Loose /\ UNCHANGED <<asg, res>>
    BY <1>1, LoosePcs DEF Dequeue, At, stores
  <2>2. Placing(j)
    BY DEF Placing, Idle
  <2>. QED
    BY <1>0, <2>1, <2>2, LooseStep
<1>2. CASE Route
  <2> DEFINE n == asg[t]
             stop == J.order.kind = "stop"
             free == ~Conflicts(n, t, TRUE)
             j == [J EXCEPT !.pc = "post", !.node = n]
  <2>1. t \in Task /\ n \in Node0 /\ J.pc = "route" /\ J.pc \in Loose /\ asg' = asg /\ ~J.again
    BY <1>0, <1>2, BusyJob, Sources, LoosePcs DEF Route, At, stores, Placing
  <2>2. j.pc = "post" /\ j.task = t /\ Placing(j)
    BY <1>0, BusyJob DEF Job, Placing
  <2>3. CASE n = NoNode
    <3>1. res' = res /\ Goto(Dispatcher, IF stop THEN "unowned" ELSE "place")
      BY <1>2, <2>3 DEF Route
    <3>2. CASE stop
      BY <1>0, <2>1, <3>1, <3>2, LooseGoto
    <3>3. CASE ~stop
      <4>1. J.order.kind = "start"
        BY <1>0, <3>3, BusyJob DEF Order
      <4>2. Placing([J EXCEPT !.pc = "place"])
        BY <1>0, <2>1, <4>1, GotoIs DEF Placing
      <4>. QED
        BY <1>0, <2>1, <3>1, <3>3, <4>2, LooseStep DEF Goto
    <3>. QED
      BY <3>2, <3>3
  <2>4. CASE n # NoNode /\ stop
    <3>1. res' = res /\ Become(Dispatcher, j)
      BY <1>2, <2>4 DEF Route
    <3>. QED
      BY <1>0, <2>1, <2>2, <3>1, LooseStep
  <2>5. CASE n # NoNode /\ ~stop /\ free
    <3>1. res' = Reserved(n, t) /\ Become(Dispatcher, j) /\ n \in Node
      BY <1>2, <2>1, <2>5 DEF Route, Node0
    <3>2. \A m \in Node : res'[m] = res[m] \/ (m = n /\ t \in Pinned /\ res'[m] = t)
      BY <3>1, ReservedIs
    <3>3. \A m \in Node, u \in Task : ~Holds(J, u, m)
      BY <2>1 DEF Loose, Holds
    <3>. QED
      BY <1>0, <2>1, <2>2, <3>1, <3>2, <3>3, PortStep
  <2>6. CASE n # NoNode /\ ~stop /\ ~free
    <3>1. res' = res /\ Goto(Dispatcher, "fail")
      BY <1>2, <2>6 DEF Route
    <3>. QED
      BY <1>0, <2>1, <3>1, LooseGoto
  <2>. QED
    BY <2>3, <2>4, <2>5, <2>6
<1>3. CASE Unowned
  <2> DEFINE j == [J EXCEPT !.pc = "delete", !.snap = rec[t]]
  <2>1. J.pc \in Loose /\ UNCHANGED <<asg, res>> /\ (Become(Dispatcher, j) \/ Finish(Dispatcher))
    BY <1>3, LoosePcs DEF Unowned, At, stores
  <2>2. Placing(j)
    BY <1>0, BusyJob DEF Job, Placing
  <2>. QED
    BY <1>0, <2>1, <2>2, LooseStep, LooseFinish
<1>4. CASE Place
  <2>1. /\ J.pc \in Loose /\ J.pc # "idle" /\ asg' = asg
        /\ J.order.kind = "start" /\ ~J.again
    BY <1>0, <1>4, LoosePcs DEF Place, At, stores, Placing
  <2>2. \/ Select(Dispatcher, t, NoNode, "post")
        \/ res' = res /\ (Finish(Dispatcher) \/ Goto(Dispatcher, "end"))
    BY <1>4 DEF Place
  <2>. QED
    BY <1>0, <2>1, <2>2, SelectPorts, LooseFinish, LooseGoto
<1>5. CASE Release
  <2>1. /\ J.pc = "release" /\ res' = Released(J.node, t) /\ asg' = asg /\ Finish(Dispatcher)
    BY <1>5 DEF Release, At, stores
  <2>2. \A n : ~Holds(J, t, n)
    BY <2>1 DEF Holds, Sending, Keeping, Leaving
  <2>. QED
    BY <1>0, <2>1, <2>2, IdlePlacing, GiveBack DEF Finish
<1>. QED
  BY <1>1, <1>2, <1>3, <1>4, <1>5

LEMMA SentPorts ==
    ASSUME TypeOK, PortInv, Post \/ Retry
    PROVE  PortInv'
<1> DEFINE J == job[Dispatcher]
           t == J.task
<1>0. Dispatcher \in Proc
  BY Types
<1>1. CASE Post
  <2>1. J.pc = "post" /\ UNCHANGED <<asg, res>>
    BY <1>1 DEF Post, At, stores
  <2>2. ASSUME NEW pc \in {"commit", "retry", "burn"}, Goto(Dispatcher, pc) PROVE PortInv'
    <3>1. \A u, n : Holds(J, u, n) => Holds([J EXCEPT !.pc = pc], u, n)
      BY <1>0, <2>1, GotoIs DEF Holds, Sending, Keeping, Leaving
    <3>. QED
      BY <1>0, <2>1, <2>2, <3>1, KeepPorts
  <2>3. ASSUME J.order.kind = "stop", Goto(Dispatcher, "release") \/ Finish(Dispatcher) PROVE PortInv'
    <3>1. \A u, n : ~Holds(J, u, n)
      BY <2>1, <2>3 DEF Holds, Sending, Leaving
    <3>2. CASE Goto(Dispatcher, "release")
      BY <1>0, <2>1, <3>1, <3>2, KeepPorts
    <3>3. CASE Finish(Dispatcher)
      BY <1>0, <2>1, <3>1, <3>3, IdlePlacing, PortStep DEF Finish
    <3>. QED
      BY <2>3, <3>2, <3>3
  <2>4. \/ \E pc \in {"commit", "retry", "burn"} : Goto(Dispatcher, pc)
        \/ J.order.kind = "stop" /\ (Goto(Dispatcher, "release") \/ Finish(Dispatcher))
    BY <1>1 DEF Post, Refuses
  <2>. QED
    BY <2>2, <2>3, <2>4
<1>2. CASE Retry
  <2>1. /\ J.pc = "retry" /\ asg' = asg /\ Finish(Dispatcher)
        /\ res' = IF J.order.kind = "start" /\ ~J.again THEN Released(J.node, t) ELSE res
    BY <1>2 DEF Retry, At, stores
  <2>2. CASE J.order.kind = "start" /\ ~J.again
    <3>1. \A n : Holds(J, t, n) => n = J.node
      BY <2>1 DEF Holds, Sending, Leaving
    <3>. QED
      BY <1>0, <2>1, <2>2, <3>1, IdlePlacing, GiveBack DEF Finish
  <2>3. CASE ~(J.order.kind = "start" /\ ~J.again)
    <3>1. \A u, n : ~Holds(J, u, n)
      BY <2>1, <2>3 DEF Holds, Sending, Leaving
    <3>. QED
      BY <1>0, <2>1, <2>3, <3>1, IdlePlacing, PortStep DEF Finish
  <2>. QED
    BY <2>2, <2>3
<1>. QED
  BY <1>1, <1>2

\* A commit assigns the task to the node it holds the port of.
LEMMA CommitPorts ==
    ASSUME TypeOK, PortInv, Commit, ~Overwrites
    PROVE  PortInv'
<1> DEFINE J == job[Dispatcher]
           t == J.task
<1>0. Dispatcher \in Proc /\ J.pc = "commit" /\ res' = res /\ t \in Task
  BY Types, BusyJob DEF Commit, At
<1>1. CASE UNCHANGED stores
  <2>1. PICK again \in BOOLEAN : Become(Dispatcher, [J EXCEPT !.pc = "undo", !.again = again]) \/ Finish(Dispatcher)
    BY DEF Commit
  <2>2. CASE Finish(Dispatcher)
    <3>1. asg' = asg /\ asg'[t] = J.node
      <4>1. Idle.pc = "idle" /\ \A x : [J EXCEPT !.pc = "undo", !.again = x].pc = "undo"
        BY <1>0, BusyJob DEF Idle, Job
      <4>2. \A x : ~Become(Dispatcher, [J EXCEPT !.pc = "undo", !.again = x])
        BY <1>0, <2>2, <4>1 DEF Become, Finish, TypeOK, JobTypes
      <4>. QED
        BY <1>0, <1>1, <4>2 DEF Commit, stores, TypeOK
    <3>2. \A n : Holds(J, t, n) => asg'[t] = n
      BY <1>0, <3>1 DEF Holds, Keeping, Leaving
    <3>3. \A u, n : Holds(J, u, n) => u = t
      BY DEF Holds
    <3>. QED
      BY <1>0, <2>2, <3>1, <3>2, <3>3, IdlePlacing, PortStep DEF Finish
  <2>3. CASE Become(Dispatcher, [J EXCEPT !.pc = "undo", !.again = again])
    <3> DEFINE j == [J EXCEPT !.pc = "undo", !.again = again]
    <3>1. j.pc = "undo" /\ j.task = t /\ j.node = J.node
      BY <1>0, BusyJob DEF Job
    <3>2. Placing(j) /\ \A u, n : Holds(J, u, n) => Holds(j, u, n)
      BY <1>0, <3>1 DEF Placing, Holds, Sending, Keeping, Leaving
    <3>. QED
      BY <1>0, <1>1, <2>3, <3>2, PortStep DEF stores
  <2>. QED
    BY <2>1, <2>2, <2>3
<1>2. CASE ~UNCHANGED stores
  <2>1. asg' = [asg EXCEPT ![t] = J.node] /\ Finish(Dispatcher)
    BY <1>2 DEF Commit
  <2>2. asg'[t] = J.node /\ \A u \in Task : u # t => asg'[u] = asg[u]
    BY <1>0, <2>1 DEF TypeOK
  <2>3. \A u, n : Holds(J, u, n) => u = t /\ n = J.node
    BY <1>0 DEF Holds, Keeping, Leaving
  <2>4. CASE t \notin Pinned
    <3>1. \A n \in Node : res'[n] # t
      BY <1>0, <2>4, ManagerAssumption DEF PortInv
    <3>. QED
      BY <1>0, <2>1, <2>2, <2>3, <3>1, IdlePlacing, PortStep DEF Finish
  <2>5. CASE asg[t] \in {NoNode, asg'[t]}
    <3>1. \A n \in Node : asg[t] = n => asg'[t] = n
      BY <2>5, ManagerAssumption
    <3>. QED
      BY <1>0, <2>1, <2>2, <2>3, <3>1, IdlePlacing, PortStep DEF Finish
  <2>. QED
    BY <2>4, <2>5 DEF Overwrites
<1>. QED
  BY <1>1, <1>2

LEMMA RestartingPorts == ASSUME TypeOK, PortInv, NEW p \in Proc, Restarting(p) PROVE PortInv'
<1> DEFINE J == job[p]
           t == J.task
<1>1. CASE RestartOwner(p)
  <2> DEFINE j == [J EXCEPT !.pc = "pick", !.old = asg[t]]
  <2>1. j.pc = "pick" /\ Become(p, j) /\ J.pc \in Loose /\ UNCHANGED <<asg, res>>
    BY <1>1, BusyJob, LoosePcs DEF RestartOwner, At, Job, stores
  <2>. QED
    BY <2>1, LooseStep DEF Placing
<1>2. CASE RestartPick(p)
  <2>1. J.pc \in Loose /\ J.pc # "idle" /\ asg' = asg
    BY <1>2, LoosePcs DEF RestartPick, At, stores
  <2>2. \/ Select(p, t, J.old, "restart")
        \/ res' = res /\ (Goto(p, "fail") \/ Goto(p, "end"))
    BY <1>2 DEF RestartPick
  <2>. QED
    BY <2>1, <2>2, SelectPorts, LooseGoto
<1>3. CASE RestartPost(p)
  <2>1. J.pc = "restart" /\ UNCHANGED <<asg, res>>
    BY <1>3 DEF RestartPost, At, stores
  <2>2. PICK pc \in {"recommit", "fail", "burn"} : Goto(p, pc)
    BY <1>3 DEF RestartPost
  <2>3. \A u, n : Holds(J, u, n) => Holds([J EXCEPT !.pc = pc], u, n)
    BY <2>1, GotoIs DEF Holds, Sending, Keeping, Leaving
  <2>. QED
    BY <2>1, <2>2, <2>3, KeepPorts
<1>4. CASE Recommit(p) /\ UNCHANGED stores /\ Goto(p, "undo")
  <2>1. J.pc = "recommit" /\ UNCHANGED <<asg, res>>
    BY <1>4 DEF Recommit, At, stores
  <2>2. \A u, n : Holds(J, u, n) => Holds([J EXCEPT !.pc = "undo"], u, n)
    BY <2>1, GotoIs DEF Holds, Sending, Keeping, Leaving
  <2>. QED
    BY <1>4, <2>1, <2>2, KeepPorts
<1>5. CASE Recommit(p) /\ ~(UNCHANGED stores /\ Goto(p, "undo"))
  <2> DEFINE was == asg[t]
             j == [J EXCEPT !.pc = "move", !.old = was]
  <2>1. /\ J.pc = "recommit" /\ t \in Task /\ res' = res
        /\ asg' = [asg EXCEPT ![t] = J.node]
        /\ IF was \notin {NoNode, J.node} THEN Become(p, j) ELSE Finish(p)
    BY <1>5, BusyJob DEF Recommit, At
  <2>2. asg'[t] = J.node /\ \A u \in Task : u # t => asg'[u] = asg[u]
    BY <2>1 DEF TypeOK
  <2>3. \A u, n : Holds(J, u, n) => u = t /\ n = J.node
    BY <2>1 DEF Holds, Keeping, Leaving
  <2>4. CASE was \notin {NoNode, J.node}
    <3>1. j.pc = "move" /\ j.task = t /\ j.old = was /\ Become(p, j)
      BY <2>1, <2>4, BusyJob DEF Job
    <3>2. Placing(j) /\ Holds(j, t, was)
      BY <3>1 DEF Placing, Holds, Leaving
    <3>. QED
      BY <2>1, <2>2, <2>3, <3>1, <3>2, PortStep
  <2>5. CASE was \in {NoNode, J.node}
    <3>1. Finish(p) /\ \A n \in Node : was = n => asg'[t] = n
      BY <2>1, <2>2, <2>5, ManagerAssumption
    <3>. QED
      BY <2>1, <2>2, <2>3, <3>1, IdlePlacing, PortStep DEF Finish
  <2>. QED
    BY <2>4, <2>5
<1>6. CASE Move(p)
  <2>1. /\ J.pc = "move" /\ res' = Released(J.old, t) /\ asg' = asg /\ Finish(p)
    BY <1>6 DEF Move, At, Vacated, stores
  <2>2. \A n : Holds(J, t, n) => n = J.old
    BY <2>1 DEF Holds, Sending, Keeping
  <2>. QED
    BY <2>1, <2>2, IdlePlacing, GiveBack DEF Finish
<1>. QED
  BY <1>1, <1>2, <1>3, <1>4, <1>5, <1>6 DEF Restarting

LEMMA LoopPorts == ASSUME TypeOK, PortInv, LoopNext PROVE PortInv'
<1>0. Loop \in Proc
  BY Types
<1>1. UNCHANGED <<asg, res>>
  BY DEF LoopNext, LoopSnapshot, LoopVisit, LoopBackoff, stores
<1>2. CASE job' = job
  BY <1>1, <1>2, PortIdle
<1>3. CASE job' # job
  <2>1. PICK e \in todo : LoopVisit(e)
    BY <1>3 DEF LoopNext, LoopSnapshot, LoopBackoff
  <2> DEFINE pc == Verdict(e.task, e.rec)
             j == [Idle EXCEPT !.pc = pc, !.task = e.task, !.snap = e.rec]
  <2>2. Become(Loop, j) /\ job[Loop].pc \in Loose
    BY <1>3, <2>1, LoosePcs DEF LoopVisit, Visit, At
  <2>3. pc \notin {"route", "place"} /\ j.pc = pc
    BY DEF Verdict, Idle
  <2>. QED
    BY <1>0, <1>1, <2>2, <2>3, LooseStep DEF Placing
<1>. QED
  BY <1>2, <1>3

LEMMA CheckFailsPorts == ASSUME TypeOK, PortInv, NEW t \in Checked, CheckFails(t) PROVE PortInv'
<1> DEFINE pc == IF ~AtCap(t, rec[t]) /\ ShouldRestart(PolicyOf[t]) THEN "owner" ELSE "end"
           j == [Idle EXCEPT !.task = t, !.snap = rec[t], !.pc = pc]
<1>1. Become(t, j) /\ job[t].pc \in Loose /\ UNCHANGED <<asg, res>> /\ t \in Proc
  BY Types, LoosePcs DEF CheckFails, At, stores
<1>2. j.pc \in {"owner", "end"}
  BY DEF Idle
<1>. QED
  BY <1>1, <1>2, LooseStep DEF Placing

LEMMA ElsewherePorts ==
    ASSUME PortInv,
           \/ \E n \in Node : SyncFetch(n) \/ NodeDies(n)
           \/ SyncApply \/ SyncForget
           \/ \E n \in Node, t \in Task : WorkerRun(n, t) \/ WorkerExit(n, t)
    PROVE  PortInv'
<1>1. UNCHANGED <<asg, res, job>>
  BY DEF SyncFetch, SyncApply, SyncForget, WorkerRun, WorkerExit, NodeDies, stores
<1>. QED
  BY <1>1, PortIdle

\* New on the same store reserves the ports of live tasks for their owners.
LEMMA CrashPorts == ASSUME Crash PROVE PortInv'
<1>1. ASSUME NEW n \in Node, NEW t, t = res'[n], t # NoTask PROVE t \in Pinned /\ asg'[t] = n
  BY <1>1 DEF Crash, Claims
<1>2. \A p \in Proc : Placing(job'[p])
  BY IdlePlacing DEF Crash
<1>. QED
  BY <1>1, <1>2 DEF PortInv, Accounted

LEMMA NextPorts ==
    ASSUME TypeOK, PortInv, [Next]_vars, [~Overwrites]_vars
    PROVE  PortInv'
<1>1. CASE UNCHANGED vars
  BY <1>1, PortIdle DEF vars, stores
<1>2. CASE \E t \in Task : Submit(t) \/ Queue(t)
  BY <1>2, ClientPorts
<1>3. CASE \E s \in Stopper : Stopping(s) \/ \E t \in Task : StopRead(s, t)
  BY <1>3, StopperPorts
<1>4. CASE \E p \in Proc : Deleting(p) \/ Ending(p)
  BY <1>4, DeletingPorts, EndingPorts
<1>5. CASE SendWork /\ ~Overwrites
  BY <1>5, DispatchPorts, SentPorts, CommitPorts DEF SendWork
<1>6. CASE \E p \in Restarter : Restarting(p)
  BY <1>6, RestartingPorts, Types DEF Restarter
<1>7. CASE LoopNext \/ \E t \in Checked : CheckFails(t)
  BY <1>7, LoopPorts, CheckFailsPorts
<1>8. CASE \/ \E n \in Node : SyncFetch(n) \/ NodeDies(n)
           \/ SyncApply \/ SyncForget
           \/ \E n \in Node, t \in Task : WorkerRun(n, t) \/ WorkerExit(n, t)
  BY <1>8, ElsewherePorts
<1>9. CASE Crash
  BY <1>9, CrashPorts
<1>. QED
  BY <1>1, <1>2, <1>3, <1>4, <1>5, <1>6, <1>7, <1>8, <1>9 DEF Next

LEMMA PortsAccounted == TypeOK /\ PortInv => NoPortLeak
<1> SUFFICES ASSUME TypeOK, PortInv, NEW n \in Node, res[n] # NoTask
             PROVE  \/ asg[res[n]] = n
                    \/ \E p \in Proc : job[p].task = res[n] /\ n \in {job[p].node, job[p].old}
  BY DEF NoPortLeak
<1>. QED
  BY DEF PortInv, Accounted, Holds

LEMMA InitPorts == Init => PortInv
  BY IdlePlacing DEF Init, PortInv

\* No port is reserved for nobody: whatever is lost, refused, rolled back or
\* moved, and over any crash, it is the owner's or that of a goroutine that has
\* yet to commit it or to give it back.  Only one kind of step can leak one:
\* SendWork assigning a task that the restart loop or a check, acting on what
\* its worker reported, placed elsewhere before the request was answered.
THEOREM OnlyOverwritesLeak == Spec /\ [][~Overwrites]_vars => []NoPortLeak
<1>1. TypeOK /\ PortInv /\ [Next]_vars /\ [~Overwrites]_vars => PortInv'
  BY NextPorts
<1>. QED
  BY <1>1, InitPorts, PortsAccounted, TypeCorrect, PTL DEF Spec

-----------------------------------------------------------------------------
(* The first start of a task *)

\* The cluster in which a request is answered before its task may be started
\* again: the backoff outlasts it and no task with a pinned port is restarted
\* without one, no reply and no write is lost, and the manager does not crash.
Orderly ==
    /\ ~Hasty /\ MaxCrashes = 0
    /\ "lost" \notin Fault /\ "store" \notin Fault
    /\ \A t \in Pinned : ~ShouldRestartOnSuccess(PolicyOf[t])

\* Until a worker accepts its start, a task is where SendWork finds it: no
\* worker, report, restart or check knows of it.
Busy(j, t)   == j.pc # "idle" /\ j.task = t
Starts(j, t) == Busy(j, t) /\ j.order.kind = "start"
Unplaced == {"route", "place", "post", "retry", "fail", "burn", "end"}
InHand(j, t) == Starts(j, t) /\ j.pc \in Unplaced
Unsent(t) == t \notin submitted \/ t \in adding \/ Queued(pending, t) \/ InHand(job[Dispatcher], t)
Alone(t) == \A p \in Restarter : ~Busy(job[p], t)
Untouched(t) ==
    /\ asg[t] = NoNode /\ rec[t].state \in {"Absent", "Pending"}
    /\ \A n \in Node : wdb[n][t] = Unknown /\ wq[n][t] = <<>>
    /\ \A e \in todo : e.task # t
    /\ \A e \in sync.list : e.task # t
    /\ Alone(t)

\* A task has one such start.
IsStart(e, t) == e.task = t /\ e.order.kind = "start"
Single(q, t) == \A i, k \in DOMAIN q : IsStart(q[i], t) /\ IsStart(q[k], t) => i = k
StartOnce(t) ==
    /\ Single(pending, t)
    /\ t \in adding => ~Queued(pending, t)
    /\ t \in adding \/ Queued(pending, t) => ~Starts(job[Dispatcher], t)

\* While it is accepted and not committed nobody assigns or restarts the task.
Accepted(j, t) == j.pc = "commit" /\ j.task = t /\ ~ShouldRestartOnSuccess(PolicyOf[t])
Awaited(t) == Accepted(job[Dispatcher], t) => asg[t] = NoNode /\ Alone(t)

DispatcherRole(j) ==
    /\ ~j.again
    /\ j.pc \in {"place", "commit", "fail", "burn", "end", "kill", "undo"} => j.order.kind = "start"
StopperRole(j) == j.pc \in {"idle", "decide", "mark", "queue", "delete", "drop", "clean"}
Roles == DispatcherRole(job[Dispatcher]) /\ \A s \in Stopper : StopperRole(job[s])

StartInv == /\ \A t \in Task : (Unsent(t) => Untouched(t)) /\ StartOnce(t) /\ Awaited(t)
            /\ Roles
            /\ \A e \in todo : Ended(e.rec)

\* With it a commit assigns a task that has no owner.
LEMMA NotOverwritten == ASSUME TypeOK, StartInv, Orderly PROVE ~Overwrites
<1>1. ASSUME Commit PROVE job[Dispatcher].task \in Task
  BY <1>1, BusyJob, Types DEF Commit, At
<1>. QED
  BY <1>1 DEF Overwrites, StartInv, Awaited, Accepted, Commit, At, Orderly

-----------------------------------------------------------------------------
(* Starts in the queue *)

LEMMA QueuedIs == \A q, t : Queued(q, t) <=> \E i \in DOMAIN q : IsStart(q[i], t)
  BY DEF Queued, IsStart

\* An event is appended: a stop, or the only start of its task.
LEMMA AppendSingle ==
    ASSUME TypeOK, NEW u, NEW o, Enqueued(u, o), NEW t \in Task, Single(pending, t),
           o.kind = "start" => ~Queued(pending, u)
    PROVE  /\ Single(pending', t)
           /\ Queued(pending', t) <=> Queued(pending, t) \/ (t = u /\ o.kind = "start")
<1> DEFINE e == [task |-> u, order |-> o]
<1>1. /\ DOMAIN pending' = 1 .. Len(pending) + 1
      /\ pending'[Len(pending) + 1] = e
      /\ \A k \in 1 .. Len(pending) : pending'[k] = pending[k]
      /\ DOMAIN pending = 1 .. Len(pending) /\ Len(pending) \in Nat
  BY DEF Enqueued, TypeOK
<1>2. IsStart(e, t) <=> t = u /\ o.kind = "start"
  BY DEF IsStart
<1>3. /\ \A i \in DOMAIN pending' : i \in DOMAIN pending \/ i = Len(pending) + 1
      /\ \A i \in DOMAIN pending : i \in DOMAIN pending' /\ pending'[i] = pending[i]
      /\ Len(pending) + 1 \in DOMAIN pending'
  BY <1>1
<1>4. Queued(pending', t) <=> Queued(pending, t) \/ IsStart(e, t)
  BY <1>1, <1>3, QueuedIs
<1>5. Single(pending', t)
  BY <1>1, <1>2, <1>3, QueuedIs DEF Single
<1>. QED
  BY <1>2, <1>4, <1>5

\* The first event is taken.
LEMMA TailSingle ==
    ASSUME TypeOK, pending # <<>>, NEW t \in Task, Single(pending, t)
    PROVE  /\ Single(Tail(pending), t)
           /\ Queued(Tail(pending), t) => Queued(pending, t) /\ ~IsStart(Head(pending), t)
           /\ IsStart(Head(pending), t) => Queued(pending, t)
<1>1. /\ DOMAIN pending = 1 .. Len(pending) /\ Len(pending) \in Nat /\ Len(pending) # 0
      /\ Head(pending) = pending[1]
      /\ DOMAIN Tail(pending) = 1 .. Len(pending) - 1
      /\ \A k \in 1 .. Len(pending) - 1 : Tail(pending)[k] = pending[k + 1]
  BY DEF TypeOK
<1>2. \A k \in DOMAIN Tail(pending) : k + 1 \in DOMAIN pending /\ k + 1 # 1 /\ k \in Int
  BY <1>1
<1>3. 1 \in DOMAIN pending
  BY <1>1
<1>4. \A i, k \in DOMAIN Tail(pending) : i + 1 = k + 1 => i = k
  BY <1>2
<1>. QED
  BY <1>1, <1>2, <1>3, <1>4, QueuedIs DEF Single

\* The positions kept are numbered one by one.
LEMMA RankIs ==
    ASSUME NEW n \in Nat, NEW K \in SUBSET (1 .. n)
    PROVE  /\ Cardinality(K) \in Nat
           /\ \A c \in 1 .. Cardinality(K) : \E i \in K : Cardinality({j \in K : j <= i}) = c
<1> DEFINE rank(i) == Cardinality({j \in K : j <= i})
           f == [i \in K |-> rank(i)]
           S == 1 .. Cardinality(K)
<1>1. IsFiniteSet(K) /\ Cardinality(K) \in Nat
  <2>1. IsFiniteSet(1 .. n)
    BY FS_Interval
  <2>. QED
    BY <2>1, FS_Subset, FS_CardinalityType
<1>2. ASSUME NEW i \in K PROVE IsFiniteSet({j \in K : j <= i}) /\ rank(i) \in S
  <2>1. IsFiniteSet({j \in K : j <= i}) /\ rank(i) <= Cardinality(K)
    BY <1>1, FS_Subset
  <2>2. rank(i) \in Nat /\ rank(i) # 0
    <3>1. i \in {j \in K : j <= i}
      OBVIOUS
    <3>. QED
      BY <2>1, <3>1, FS_CardinalityType, FS_EmptySet
  <2>. QED
    BY <1>1, <2>1, <2>2
<1>3. ASSUME NEW i \in K, NEW k \in K, i < k PROVE rank(i) # rank(k)
  <2> DEFINE A == {j \in K : j <= i}
             B == {j \in K : j <= k}
  <2>0. K \subseteq Int /\ i \in Int /\ k \in Int
    OBVIOUS
  <2>1. A \subseteq B /\ k \in B /\ k \notin A
    <3>1. \A j \in K : j <= i => j <= k
      BY <1>3, <2>0
    <3>2. k <= k /\ ~(k <= i)
      BY <1>3, <2>0
    <3>. QED
      BY <3>1, <3>2
  <2>2. IsFiniteSet(B) /\ A # B
    BY <1>2, <2>1
  <2>3. Cardinality(B) = Cardinality(A) => B = A
    BY <2>1, <2>2, FS_Subset
  <2>. QED
    BY <2>2, <2>3
<1>4. f \in Injection(K, S)
  <2>1. f \in [K -> S]
    BY <1>2
  <2>2. ASSUME NEW i \in K, NEW k \in K, f[i] = f[k] PROVE i = k
    <3>1. ~(i < k) /\ ~(k < i)
      BY <1>3, <2>2
    <3>2. i \in Int /\ k \in Int
      OBVIOUS
    <3>. QED
      BY <3>1, <3>2
  <2>. QED
    BY <2>1, <2>2 DEF Injection, IsInjective
<1>5. IsFiniteSet(S) /\ Cardinality(S) = Cardinality(K)
  BY <1>1, FS_Interval
<1>6. f \in Surjection(K, S)
  BY <1>4, <1>5, FS_Injection
<1>. QED
  BY <1>1, <1>6 DEF Surjection

\* RemoveAllFunc adds and duplicates nothing.
LEMMA RemovedSingle ==
    ASSUME TypeOK, NEW u, NEW t \in Task, Single(pending, t),
           NEW q \in UpTo(Len(pending), {pending[i] : i \in DOMAIN pending}), Removed(pending, u, q)
    PROVE  Single(q, t) /\ (Queued(q, t) => Queued(pending, t))
<1> DEFINE keep == {i \in DOMAIN pending : pending[i].task # u}
           rank(i) == Cardinality({j \in keep : j <= i})
<1>1. Len(pending) \in Nat /\ keep \subseteq 1 .. Len(pending) /\ DOMAIN pending = 1 .. Len(pending)
  BY DEF TypeOK
<1>2. Cardinality(keep) \in Nat /\ \A c \in 1 .. Cardinality(keep) : \E i \in keep : rank(i) = c
  BY <1>1, RankIs
<1>3. DOMAIN q = 1 .. Cardinality(keep)
  <2>1. PICK k \in 0 .. Len(pending) : q \in [1 .. k -> {pending[i] : i \in DOMAIN pending}]
    BY DEF UpTo
  <2>2. Len(q) = k /\ DOMAIN q = 1 .. k
    BY <1>1, <2>1
  <2>. QED
    BY <2>2 DEF Removed
<1>4. \A i \in keep : q[rank(i)] = pending[i]
  BY DEF Removed
<1>5. \A c \in DOMAIN q : \E i \in DOMAIN pending : rank(i) = c /\ q[c] = pending[i]
  BY <1>2, <1>3, <1>4
<1> HIDE DEF rank
<1>. QED
  BY <1>5, QueuedIs DEF Single

-----------------------------------------------------------------------------
(* Steps that leave the first start alone *)

\* What a step may do to an untouched task.
Still(t) == /\ asg'[t] = NoNode /\ rec'[t].state \in {"Absent", "Pending"}
            /\ \A n \in Node : wdb'[n][t] = Unknown /\ wq'[n][t] = <<>>
Same(t) == /\ asg'[t] = asg[t] /\ rec'[t] = rec[t]
           /\ \A n \in Node : wdb'[n][t] = wdb[n][t] /\ wq'[n][t] = wq[n][t]

LEMMA SameStill == ASSUME NEW t, Untouched(t), Same(t) PROVE Still(t)
  BY DEF Untouched, Same, Still

LEMMA Restarters ==
    /\ Restarter \subseteq Proc /\ Dispatcher \notin Restarter /\ Dispatcher \notin Stopper
    /\ \A s \in Stopper : s \notin Restarter
  BY ManagerAssumption, Types DEF Restarter

LEMMA AloneStep ==
    ASSUME TypeOK, NEW t, Alone(t), NEW p \in Proc, NEW j, Become(p, j), p \in Restarter => ~Busy(j, t)
    PROVE  Alone(t)'
<1>1. job'[p] = j /\ \A q \in Proc : q # p => job'[q] = job[q]
  BY DEF Become, TypeOK, JobTypes
<1>. QED
  BY <1>1, Restarters DEF Alone

\* The others' steps: what is queued or in the dispatcher's hands stays.
LEMMA OtherStarts ==
    ASSUME TypeOK, StartInv, UNCHANGED <<submitted, adding>>, job'[Dispatcher] = job[Dispatcher],
           \A t \in Task : Single(pending', t) /\ (Queued(pending', t) => Queued(pending, t)),
           \A t \in Task : Untouched(t) => Untouched(t)',
           \A t \in Task : Accepted(job[Dispatcher], t) => asg'[t] = NoNode /\ Alone(t)',
           \A s \in Stopper : StopperRole(job'[s]),
           \A e \in todo' : Ended(e.rec)
    PROVE  StartInv'
<1>1. ASSUME NEW t \in Task PROVE (Unsent(t) => Untouched(t))' /\ StartOnce(t)' /\ Awaited(t)'
  <2>1. (Unsent(t) => Untouched(t)) /\ StartOnce(t) /\ Awaited(t)
    BY DEF StartInv
  <2>2. Unsent(t)' => Unsent(t)
    BY DEF Unsent
  <2>3. StartOnce(t)'
    BY <2>1 DEF StartOnce
  <2>4. Awaited(t)'
    BY DEF Awaited
  <2>. QED
    BY <2>1, <2>2, <2>3, <2>4
<1>2. Roles'
  BY DEF Roles, StartInv
<1>. QED
  BY <1>1, <1>2 DEF StartInv

LEMMA SameQueue ==
    ASSUME StartInv, pending' = pending
    PROVE  \A t \in Task : Single(pending', t) /\ (Queued(pending', t) => Queued(pending, t))
  BY DEF StartInv, StartOnce

\* A step of a goroutine other than the dispatcher.
LEMMA OtherGoroutine ==
    ASSUME TypeOK, StartInv, NEW p \in Proc, p # Dispatcher, NEW j, Become(p, j),
           p \in Restarter =>
               \A t \in Task : Untouched(t) \/ Accepted(job[Dispatcher], t) => ~Busy(j, t),
           p \in Stopper => StopperRole(j),
           UNCHANGED <<submitted, adding, sync>>, todo' \subseteq todo,
           \A t \in Task : Single(pending', t) /\ (Queued(pending', t) => Queued(pending, t)),
           \A t \in Task : Untouched(t) => Still(t),
           \A t \in Task : Accepted(job[Dispatcher], t) => asg'[t] = NoNode
    PROVE  StartInv'
<1>1. job'[p] = j /\ \A q \in Proc : q # p => job'[q] = job[q]
  BY DEF Become, TypeOK, JobTypes
<1>2. job'[Dispatcher] = job[Dispatcher]
  BY <1>1, Types
<1>3. ASSUME NEW t \in Task, Untouched(t) PROVE Untouched(t)'
  <2>1. Alone(t)'
    BY <1>3, AloneStep DEF Untouched
  <2>2. Still(t)
    BY <1>3
  <2>. QED
    BY <1>3, <2>1, <2>2 DEF Untouched, Still
<1>4. ASSUME NEW t \in Task, Accepted(job[Dispatcher], t) PROVE asg'[t] = NoNode /\ Alone(t)'
  <2>1. Alone(t)
    BY <1>4 DEF StartInv, Awaited
  <2>. QED
    BY <1>4, <2>1, AloneStep
<1>5. \A s \in Stopper : StopperRole(job'[s])
  BY <1>1, Types DEF StartInv, Roles
<1>6. \A e \in todo' : Ended(e.rec)
  BY DEF StartInv
<1>. QED
  BY <1>2, <1>3, <1>4, <1>5, <1>6, OtherStarts

\* A restarter works on a task that was started: no other is concerned.
LEMMA RestarterStarts ==
    ASSUME TypeOK, StartInv, NEW p \in Restarter, job[p].pc # "idle", NEW j, Become(p, j),
           j.pc = "idle" \/ j.task = job[p].task,
           UNCHANGED <<submitted, adding, pending, sync, todo>>,
           \A t \in Task : t # job[p].task => Same(t)
    PROVE  StartInv'
<1>1. ASSUME NEW t \in Task, Alone(t) PROVE t # job[p].task /\ ~Busy(j, t)
  BY <1>1 DEF Alone, Busy
<1>2. \A t \in Task : Untouched(t) => Alone(t)
  BY DEF Untouched
<1>3. \A t \in Task : Accepted(job[Dispatcher], t) => Alone(t) /\ asg[t] = NoNode
  BY DEF StartInv, Awaited
<1>4. \A t \in Task : Untouched(t) => Still(t)
  BY <1>1, <1>2, SameStill
<1>5. \A t \in Task : Accepted(job[Dispatcher], t) => asg'[t] = NoNode
  BY <1>1, <1>3 DEF Same
<1>6. p \in Proc /\ p # Dispatcher /\ p \notin Stopper
  BY Restarters
<1>. QED
  BY <1>1, <1>2, <1>3, <1>4, <1>5, <1>6, SameQueue, OtherGoroutine

\* Steps that are not those of a goroutine here.
LEMMA ElsewhereStarts ==
    ASSUME TypeOK, StartInv, UNCHANGED <<submitted, adding, pending, job>>,
           \A t \in Task : Accepted(job[Dispatcher], t) => asg'[t] = asg[t],
           \A t \in Task : Untouched(t) => Still(t) /\ (\A e \in todo' : e.task # t)
                                                    /\ (\A e \in sync'.list : e.task # t),
           \A e \in todo' : Ended(e.rec)
    PROVE  StartInv'
<1>1. \A t : Alone(t)' <=> Alone(t)
  BY DEF Alone
<1>2. \A t \in Task : Untouched(t) => Untouched(t)'
  BY <1>1 DEF Untouched, Still
<1>3. \A t \in Task : Accepted(job[Dispatcher], t) => asg'[t] = NoNode /\ Alone(t)'
  BY <1>1 DEF StartInv, Awaited
<1>. QED
  BY <1>2, <1>3, SameQueue, OtherStarts DEF StartInv, Roles

\* The dispatcher's: a start it takes up or returns is the one there was.
Open(j, q, t) == t \notin submitted \/ t \in adding \/ Queued(q, t) \/ InHand(j, t)
LEMMA DispatcherStarts ==
    ASSUME TypeOK, StartInv, NEW j, Become(Dispatcher, j), DispatcherRole(j),
           UNCHANGED <<submitted, adding, todo, sync>>,
           \A t \in Task :
               /\ Single(pending', t)
               /\ Open(j, pending', t) => Unsent(t) /\ Still(t)
               /\ t \in adding => ~Queued(pending', t)
               /\ Starts(j, t) => t \notin adding /\ ~Queued(pending', t)
               /\ Accepted(j, t) => asg'[t] = NoNode /\ Alone(t)
    PROVE  StartInv'
<1>1. job'[Dispatcher] = j /\ \A q \in Proc : q # Dispatcher => job'[q] = job[q]
  BY Types DEF Become, TypeOK, JobTypes
<1>2. ASSUME NEW t \in Task PROVE (Unsent(t) => Untouched(t))' /\ StartOnce(t)' /\ Awaited(t)'
  <2>1. Alone(t)' <=> Alone(t)
    BY <1>1, Restarters DEF Alone
  <2>2. ASSUME Unsent(t)' PROVE Untouched(t)'
    <3>1. Open(j, pending', t)
      BY <1>1, <2>2 DEF Unsent, Open
    <3>2. Untouched(t) /\ Still(t)
      BY <3>1 DEF StartInv
    <3>. QED
      BY <2>1, <3>2 DEF Untouched, Still
  <2>3. StartOnce(t)'
    BY <1>1 DEF StartOnce
  <2>4. Awaited(t)'
    BY <1>1, <2>1 DEF Awaited
  <2>. QED
    BY <2>2, <2>3, <2>4
<1>3. Roles'
  BY <1>1, Restarters, Types DEF Roles, StartInv
<1>. QED
  BY <1>2, <1>3 DEF StartInv

\* It goes on with its event, or is done with it.
LEMMA DispatcherTurn ==
    ASSUME TypeOK, StartInv, NEW j, Become(Dispatcher, j), DispatcherRole(j), pending' = pending,
           UNCHANGED <<submitted, adding, todo, sync>>,
           \/ j.pc = "idle"
           \/ /\ job[Dispatcher].pc # "idle"
              /\ j.task = job[Dispatcher].task /\ j.order = job[Dispatcher].order,
           \A t \in Task :
               /\ InHand(j, t) => InHand(job[Dispatcher], t)
               /\ Open(j, pending, t) /\ Untouched(t) => Still(t)
               /\ Accepted(j, t) => asg'[t] = NoNode /\ Alone(t)
    PROVE  StartInv'
<1>1. ASSUME NEW t \in Task
      PROVE  /\ Single(pending', t)
             /\ Open(j, pending', t) => Unsent(t) /\ Still(t)
             /\ t \in adding => ~Queued(pending', t)
             /\ Starts(j, t) => t \notin adding /\ ~Queued(pending', t)
  <2>1. StartOnce(t) /\ (Unsent(t) => Untouched(t))
    BY DEF StartInv
  <2>2. Open(j, pending, t) => Unsent(t)
    BY DEF Open, Unsent
  <2>3. Starts(j, t) => Starts(job[Dispatcher], t)
    BY DEF Starts, Busy
  <2>. QED
    BY <2>1, <2>2, <2>3 DEF StartOnce
<1>. QED
  BY <1>1, DispatcherStarts

-----------------------------------------------------------------------------
(* Each action leaves the first start alone *)

\* A stop is refused where there is no record.
LEMMA StopSame ==
    ASSUME TypeOK, NEW n \in Node0, NEW u \in Task, NEW o, o.kind = "stop",
           BestEffortStop(n, u, o) \/ UNCHANGED workers
    PROVE  \A t \in Task, m \in Node :
               /\ t # u => wdb'[m][t] = wdb[m][t] /\ wq'[m][t] = wq[m][t]
               /\ wdb[m][t] = Unknown /\ wq[m][t] = <<>> => wdb'[m][t] = Unknown /\ wq'[m][t] = <<>>
<1>1. CASE UNCHANGED workers
  BY <1>1 DEF workers
<1>2. CASE n # NoNode /\ Accepts(n, u, o)
  <2>1. /\ n \in Node /\ wdb' = wdb /\ wdb[n][u] # Unknown
        /\ wq' = [wq EXCEPT ![n][u] = Append(wq[n][u], o)]
    BY <1>2 DEF Accepts, Node0
  <2>2. \A t \in Task, m \in Node : t # u \/ m # n => wq'[m][t] = wq[m][t]
    BY <2>1 DEF TypeOK, WorkerTypes
  <2>. QED
    BY <2>1, <2>2
<1>. QED
  BY <1>1, <1>2 DEF BestEffortStop

LEMMA StopOthers ==
    ASSUME TypeOK, NEW n \in Node0, NEW u \in Task, NEW o, o.kind = "stop",
           BestEffortStop(n, u, o) \/ UNCHANGED workers, UNCHANGED <<rec, asg>>
    PROVE  \A t \in Task : t # u => Same(t)
<1>1. \A t \in Task, m \in Node : t # u => wdb'[m][t] = wdb[m][t] /\ wq'[m][t] = wq[m][t]
  BY StopSame
<1>. QED
  BY <1>1 DEF Same

\* A goroutine that ends or deletes a task: whoever restarts it has found it
\* started, and the dispatcher is past accepting it.
LEMMA TurnStarts ==
    ASSUME TypeOK, StartInv, JobsKnown, NEW p \in Proc, job[p].pc # "idle", NEW j, Become(p, j),
           \/ j.pc = "idle" /\ ~j.again
           \/ j.task = job[p].task /\ j.order = job[p].order /\ j.again = job[p].again,
           p = Dispatcher => /\ j.pc \in {"idle", "drop", "clean", "kill"}
                             /\ j.pc = "kill" => job[p].pc = "end",
           p \in Stopper => StopperRole(j),
           UNCHANGED <<submitted, adding, todo, sync>>,
           \A t \in Task : Single(pending', t) /\ (Queued(pending', t) => Queued(pending, t)),
           \A t \in Task : /\ t # job[p].task => Same(t)
                           /\ asg[t] = NoNode => asg'[t] = NoNode,
           p \notin Restarter /\ ~(p = Dispatcher /\ Starts(job[p], job[p].task)) =>
               (Untouched(job[p].task) => Still(job[p].task))
    PROVE  StartInv'
<1> DEFINE u == job[p].task
<1>0. u \in Task /\ u \in submitted
  BY BusyKnown
<1>1. CASE p # Dispatcher
  <2>1. ASSUME p \in Restarter, NEW t \in Task, Untouched(t) \/ Accepted(job[Dispatcher], t)
        PROVE  t # u /\ ~Busy(j, t)
    <3>1. Alone(t)
      BY <2>1 DEF Untouched, StartInv, Awaited
    <3>. QED
      BY <2>1, <3>1 DEF Alone, Busy
  <2>2. ASSUME NEW t \in Task, Untouched(t) PROVE Still(t)
    BY <1>1, <2>1, <2>2, SameStill
  <2>3. ASSUME NEW t \in Task, Accepted(job[Dispatcher], t) PROVE asg'[t] = NoNode
    BY <2>3 DEF StartInv, Awaited
  <2>4. todo' \subseteq todo
    OBVIOUS
  <2>. QED
    BY <1>1, <2>1, <2>2, <2>3, <2>4, OtherGoroutine
<1>2. CASE p = Dispatcher
  <2>1. DispatcherRole(j)
    BY <1>2 DEF DispatcherRole, StartInv, Roles
  <2>2. ASSUME NEW t \in Task
        PROVE  /\ Single(pending', t)
               /\ Open(j, pending', t) => Unsent(t) /\ Still(t)
               /\ t \in adding => ~Queued(pending', t)
               /\ Starts(j, t) => t \notin adding /\ ~Queued(pending', t)
               /\ ~Accepted(j, t)
    <3>1. StartOnce(t) /\ (Unsent(t) => Untouched(t))
      BY DEF StartInv
    <3>2. Starts(j, t) => Starts(job[p], t)
      BY DEF Starts, Busy
    <3>3. ~InHand(j, t) /\ ~Accepted(j, t)
      BY <1>2 DEF InHand, Unplaced, Accepted
    <3>4. ASSUME Open(j, pending', t) PROVE Unsent(t) /\ ~(t = u /\ Starts(job[p], u))
      BY <1>0, <1>2, <3>1, <3>3, <3>4 DEF Open, Unsent, StartOnce
    <3>5. ASSUME Open(j, pending', t) PROVE Still(t)
      <4>1. Untouched(t)
        BY <3>1, <3>4, <3>5
      <4>2. CASE t # u
        BY <4>1, <4>2, SameStill
      <4>3. CASE t = u
        BY <1>2, <3>4, <3>5, <4>1, <4>3, Restarters
      <4>. QED
        BY <4>2, <4>3
    <3>. QED
      BY <1>2, <3>1, <3>2, <3>3, <3>4, <3>5 DEF StartOnce
  <2>. QED
    BY <1>2, <2>1, <2>2, DispatcherStarts
<1>. QED
  BY <1>1, <1>2

LEMMA IdleIs == Idle.pc = "idle" /\ ~Idle.again
  BY DEF Idle

LEMMA DeletingStarts ==
    ASSUME TypeOK, StartInv, JobsKnown, Orderly, NEW p \in Proc, Deleting(p)
    PROVE  StartInv'
<1> DEFINE u == job[p].task
<1>0. u \in Task /\ job[p].pc # "idle" /\ UNCHANGED <<submitted, adding, todo, sync>>
  BY BusyJob DEF Deleting, Delete, Drop, Clean, At, client
<1>1. CASE Delete(p)
  <2> DEFINE j == [job[p] EXCEPT !.pc = "drop", !.old = asg[u]]
  <2>1. /\ rec' = [rec EXCEPT ![u] = NoRecord] /\ asg' = [asg EXCEPT ![u] = NoNode]
        /\ Become(p, j) /\ UNCHANGED <<wdb, wq, pending>>
    BY <1>1 DEF Delete, Orderly, Strikes, workers
  <2>2. /\ j.pc = "drop" /\ j.task = u /\ j.order = job[p].order /\ j.again = job[p].again
    BY BusyJob DEF Job
  <2>3. /\ rec'[u].state = "Absent" /\ asg'[u] = NoNode
        /\ \A t \in Task : t # u => Same(t)
        /\ \A t \in Task : asg[t] = NoNode => asg'[t] = NoNode
    BY <1>0, <2>1 DEF TypeOK, NoRecord, Fresh, Same
  <2>4. Untouched(u) => Still(u)
    BY <2>1, <2>3 DEF Untouched, Still
  <2>5. StopperRole(j)
    BY <2>2 DEF StopperRole
  <2>. QED
    BY <1>0, <2>1, <2>2, <2>3, <2>4, <2>5, SameQueue, TurnStarts
<1>2. CASE Drop(p)
  <2>1. /\ UNCHANGED <<rec, asg, wdb, wq>>
        /\ Goto(p, "clean") \/ Finish(p)
    BY <1>2 DEF Drop, stores, workers
  <2>2. PICK q \in UpTo(Len(pending), {pending[i] : i \in DOMAIN pending}) :
            Removed(pending, u, q) /\ pending' = q
    BY <1>2 DEF Drop
  <2>3. \A t \in Task : Single(pending', t) /\ (Queued(pending', t) => Queued(pending, t))
    BY <2>2, RemovedSingle DEF StartInv, StartOnce
  <2>4. \A t \in Task : Same(t) /\ (asg[t] = NoNode => asg'[t] = NoNode)
    BY <2>1 DEF Same
  <2>5. Untouched(u) => Still(u)
    BY <1>0, <2>4, SameStill
  <2>6. CASE Goto(p, "clean")
    <3> DEFINE j == [job[p] EXCEPT !.pc = "clean"]
    <3>1. /\ Become(p, j) /\ StopperRole(j) /\ j.pc = "clean" /\ j.task = u
          /\ j.order = job[p].order /\ j.again = job[p].again
      BY <2>6, GotoIs DEF StopperRole, Goto
    <3> HIDE DEF j
    <3>. QED
      BY <1>0, <2>3, <2>4, <2>5, <3>1, TurnStarts
  <2>7. CASE Finish(p)
    BY <1>0, <2>3, <2>4, <2>5, <2>7, IdleIs, TurnStarts DEF Finish, StopperRole
  <2>. QED
    BY <2>1, <2>6, <2>7
<1>3. CASE Clean(p)
  <2>1. /\ UNCHANGED <<rec, asg, pending>> /\ Finish(p)
        /\ BestEffortStop(job[p].old, u, Stop(job[p].snap.count, job[p].snap.why))
    BY <1>3 DEF Clean, stores
  <2>2. /\ \A t \in Task : t # u => Same(t)
        /\ Untouched(u) => Still(u)
    <3>1. job[p].old \in Node0 /\ Stop(job[p].snap.count, job[p].snap.why).kind = "stop"
      BY BusyJob DEF Stop
    <3>. QED
      BY <1>0, <2>1, <3>1, StopSame DEF Same, Untouched, Still
  <2>. QED
    BY <1>0, <2>1, <2>2, IdleIs, SameQueue, TurnStarts DEF Finish, StopperRole
<1>. QED
  BY <1>1, <1>2, <1>3 DEF Deleting

LEMMA EndingStarts ==
    ASSUME TypeOK, StartInv, JobsKnown, NEW p \in Proc, Ending(p)
    PROVE  StartInv'
<1> DEFINE u == job[p].task
<1>0. /\ u \in Task /\ job[p].pc \in {"fail", "burn", "end", "kill", "undo"}
      /\ UNCHANGED <<submitted, adding, todo, sync, pending, asg>>
  BY BusyJob DEF Ending, MarkFailed, End, Kill, Undo, At, client, stores
<1>1. p \notin Stopper
  BY <1>0 DEF StartInv, Roles, StopperRole
<1>2. p \in Restarter \/ (p = Dispatcher /\ Starts(job[p], u))
  BY <1>0, <1>1 DEF StartInv, Roles, DispatcherRole, Starts, Busy, Proc, Restarter
<1>3. \A t \in Task : asg[t] = NoNode => asg'[t] = NoNode
  BY <1>0
<1>4. ASSUME \A t \in Task : t # u => Same(t), NEW j, Become(p, j),
             \/ j.pc = "idle" /\ ~j.again
             \/ j.task = u /\ j.order = job[p].order /\ j.again = job[p].again,
             p = Dispatcher => /\ j.pc \in {"idle", "drop", "clean", "kill"}
                               /\ j.pc = "kill" => job[p].pc = "end"
      PROVE  StartInv'
  BY <1>0, <1>1, <1>2, <1>3, <1>4, SameQueue, TurnStarts
<1>5. CASE MarkFailed(p)
  <2>1. \A t \in Task : t # u => rec'[t] = rec[t]
    BY <1>5 DEF MarkFailed, TypeOK
  <2>2. \A t \in Task : t # u => Same(t)
    BY <1>0, <1>5, <2>1 DEF MarkFailed, workers, Same
  <2>. QED
    BY <1>4, <1>5, <2>2, IdleIs DEF MarkFailed, Finish
<1>6. CASE End(p)
  <2> DEFINE j == [job[p] EXCEPT !.pc = "kill", !.old = asg[u]]
  <2>1. \A t \in Task : t # u => rec'[t] = rec[t]
    BY <1>6 DEF End, TypeOK
  <2>2. \A t \in Task : t # u => Same(t)
    BY <1>0, <1>6, <2>1 DEF End, workers, Same
  <2>3. /\ Become(p, j) /\ job[p].pc = "end" /\ j.pc = "kill" /\ j.task = u
        /\ j.order = job[p].order /\ j.again = job[p].again
    BY <1>6, BusyJob DEF End, At, Job
  <2>. QED
    BY <1>4, <2>2, <2>3
<1>7. CASE Kill(p)
  <2>1. job[p].old \in Node0 /\ Stop(job[p].snap.count, TRUE).kind = "stop"
    BY BusyJob DEF Stop
  <2>2. /\ BestEffortStop(job[p].old, u, Stop(job[p].snap.count, TRUE))
        /\ UNCHANGED <<rec, asg>>
    BY <1>7 DEF Kill, stores
  <2>3. \A t \in Task : t # u => Same(t)
    BY <1>0, <2>1, <2>2, StopOthers
  <2>. QED
    BY <1>4, <1>7, <2>3, IdleIs DEF Kill, Finish
<1>8. CASE Undo(p)
  <2> DEFINE j == [job[p] EXCEPT !.pc = "retry"]
  <2>1. \A c : job[p].node \in Node0 /\ Stop(c, FALSE).kind = "stop"
    BY BusyJob DEF Stop
  <2>2. /\ \E c : BestEffortStop(job[p].node, u, Stop(c, FALSE))
        /\ UNCHANGED <<rec, asg>>
    BY <1>8 DEF Undo, stores
  <2>3. \A t \in Task : t # u => Same(t)
    <3>1. ASSUME NEW n \in Node0, NEW o, o.kind = "stop", BestEffortStop(n, u, o)
          PROVE  \A t \in Task : t # u => Same(t)
      BY <1>0, <2>2, <3>1, StopOthers
    <3>. QED
      BY <2>1, <2>2, <3>1
  <2>4. CASE Finish(p)
    BY <1>4, <2>3, <2>4, IdleIs DEF Finish
  <2>5. CASE job[p].again /\ Goto(p, "retry")
    <3>1. p # Dispatcher
      BY <2>5 DEF StartInv, Roles, DispatcherRole
    <3>. QED
      BY <1>4, <2>3, <2>5, <3>1, GotoIs DEF Goto
  <2>. QED
    BY <1>8, <2>4, <2>5 DEF Undo
<1>. QED
  BY <1>5, <1>6, <1>7, <1>8 DEF Ending

LEMMA SubmitStarts ==
    ASSUME TypeOK, StartInv, LifeInv, NEW u \in Task, Submit(u)
    PROVE  StartInv'
<1>1. /\ u \notin submitted /\ submitted' = submitted \union {u} /\ adding' = adding \union {u}
      /\ rec' = [rec EXCEPT ![u] = Fresh]
      /\ UNCHANGED <<asg, wdb, wq, pending, job, todo, sync>>
  BY DEF Submit, workers
<1>2. ~Queued(pending, u) /\ ~Starts(job[Dispatcher], u)
  BY <1>1, BusyKnown, Types DEF LifeInv, QueuesKnown, Queued, Starts, Busy
<1>3. ASSUME NEW t \in Task PROVE (Unsent(t) => Untouched(t))' /\ StartOnce(t)' /\ Awaited(t)'
  <2>1. (Unsent(t) => Untouched(t)) /\ StartOnce(t) /\ Awaited(t)
    BY DEF StartInv
  <2>2. Alone(t)' <=> Alone(t)
    BY <1>1 DEF Alone
  <2>3. Unsent(t)' => Unsent(t)
    BY <1>1 DEF Unsent
  <2>4. rec[t].state = "Pending" \/ rec[t].state = "Absent" => rec'[t].state \in {"Absent", "Pending"}
    BY <1>1 DEF TypeOK, Fresh
  <2>5. (Unsent(t) => Untouched(t))'
    BY <1>1, <2>1, <2>2, <2>3, <2>4 DEF Untouched
  <2>6. StartOnce(t)'
    BY <1>1, <1>2, <2>1 DEF StartOnce
  <2>7. Awaited(t)'
    BY <1>1, <2>1, <2>2 DEF Awaited
  <2>. QED
    BY <2>5, <2>6, <2>7
<1>. QED
  BY <1>1, <1>3 DEF StartInv, Roles

LEMMA QueueStarts ==
    ASSUME TypeOK, StartInv, NEW u \in Task, Queue(u)
    PROVE  StartInv'
<1>1. /\ u \in adding /\ adding' = adding \ {u} /\ Enqueued(u, Start(0))
      /\ UNCHANGED <<submitted, rec, asg, wdb, wq, job, todo, sync>>
  BY DEF Queue, stores, workers
<1>2. Start(0).kind = "start" /\ ~Queued(pending, u)
  BY <1>1 DEF Start, StartInv, StartOnce
<1>3. ASSUME NEW t \in Task PROVE (Unsent(t) => Untouched(t))' /\ StartOnce(t)' /\ Awaited(t)'
  <2>1. (Unsent(t) => Untouched(t)) /\ StartOnce(t) /\ Awaited(t)
    BY DEF StartInv
  <2>2. Alone(t)' <=> Alone(t)
    BY <1>1 DEF Alone
  <2>3. Single(pending', t) /\ (Queued(pending', t) <=> Queued(pending, t) \/ t = u)
    BY <1>1, <1>2, <2>1, AppendSingle DEF StartOnce
  <2>4. (Unsent(t) => Untouched(t))'
    BY <1>1, <2>1, <2>2, <2>3 DEF Unsent, Untouched
  <2>5. StartOnce(t)'
    BY <1>1, <2>1, <2>3 DEF StartOnce
  <2>6. Awaited(t)'
    BY <1>1, <2>1, <2>2 DEF Awaited
  <2>. QED
    BY <2>4, <2>5, <2>6
<1>. QED
  BY <1>1, <1>3 DEF StartInv, Roles

LEMMA StopReadStarts ==
    ASSUME TypeOK, StartInv, NEW s \in Stopper, NEW u \in Task, StopRead(s, u)
    PROVE  StartInv'
<1> DEFINE j == [Idle EXCEPT !.pc = "decide", !.task = u, !.snap = rec[u]]
<1>1. /\ Become(s, j) /\ j.pc = "decide"
      /\ UNCHANGED <<adding, submitted, pending, todo, sync, rec, asg, wdb, wq>>
  BY DEF StopRead, stores, workers, Idle
<1>2. s \in Proc /\ s # Dispatcher /\ s \notin Restarter /\ StopperRole(j)
  BY <1>1, Types, Restarters DEF StopperRole
<1>3. \A t \in Task : (Untouched(t) => Still(t)) /\ (Accepted(job[Dispatcher], t) => asg'[t] = NoNode)
  BY <1>1, SameStill DEF Same, StartInv, Awaited
<1>4. todo' \subseteq todo
  BY <1>1
<1>. QED
  BY <1>1, <1>2, <1>3, <1>4, SameQueue, OtherGoroutine

LEMMA StoppingStarts ==
    ASSUME TypeOK, StartInv, NEW s \in Stopper, Stopping(s)
    PROVE  StartInv'
<1>0. /\ s \in Proc /\ s # Dispatcher /\ s \notin Restarter
      /\ UNCHANGED <<adding, submitted, todo, sync, asg, wdb, wq>> /\ job[s].task \in Task
  BY BusyJob, Types, Restarters
     DEF Stopping, StopDecide, StopMark, StopQueue, At, client, stores, workers
<1>1. \A t \in Task : rec'[t].state = rec[t].state
  BY <1>0 DEF Stopping, StopDecide, StopMark, StopQueue, stores, TypeOK, Record
<1>2. \A t \in Task : (Untouched(t) => Still(t)) /\ (Accepted(job[Dispatcher], t) => asg'[t] = NoNode)
  BY <1>0, <1>1 DEF Untouched, Still, StartInv, Awaited
<1>3. \A t \in Task : Single(pending', t) /\ (Queued(pending', t) => Queued(pending, t))
  <2>1. CASE pending' = pending
    BY <2>1, SameQueue
  <2>2. CASE StopQueue(s)
    <3>1. Enqueued(job[s].task, Stop(job[s].snap.count, job[s].snap.why))
      BY <2>2 DEF StopQueue
    <3>2. Stop(job[s].snap.count, job[s].snap.why).kind = "stop"
      BY DEF Stop
    <3>. QED
      BY <3>1, <3>2, AppendSingle DEF StartInv, StartOnce
  <2>. QED
    BY <2>1, <2>2 DEF Stopping, StopDecide, StopMark
<1>4. \E j : Become(s, j) /\ StopperRole(j)
  <2>1. ASSUME NEW pc \in {"delete", "mark", "queue"}, Goto(s, pc)
        PROVE  \E j : Become(s, j) /\ StopperRole(j)
    <3> DEFINE j == [job[s] EXCEPT !.pc = pc]
    <3>1. Become(s, j) /\ j.pc = pc
      BY <1>0, <2>1, GotoIs DEF Goto
    <3>2. StopperRole(j)
      BY <3>1 DEF StopperRole
    <3>. QED
      BY <3>1, <3>2
  <2>2. Finish(s) => \E j : Become(s, j) /\ StopperRole(j)
    BY IdleIs DEF Finish, StopperRole
  <2>. QED
    BY <2>1, <2>2 DEF Stopping, StopDecide, StopMark, StopQueue
<1>5. todo' \subseteq todo
  BY <1>0
<1>. QED
  BY <1>0, <1>2, <1>3, <1>4, <1>5, OtherGoroutine

LEMMA DequeueStarts ==
    ASSUME TypeOK, StartInv, Dequeue
    PROVE  StartInv'
<1> DEFINE e == Head(pending)
           j == [Idle EXCEPT !.pc = "route", !.task = e.task, !.order = e.order, !.snap = Fresh]
<1>1. /\ pending # <<>> /\ pending' = Tail(pending) /\ Become(Dispatcher, j)
      /\ UNCHANGED <<rec, asg, wdb, wq, submitted, adding, todo, sync>>
  BY DEF Dequeue, stores, workers, client
<1>2. /\ j.pc = "route" /\ j.task = e.task /\ j.order = e.order /\ ~j.again
      /\ DispatcherRole(j)
  BY DEF Idle, DispatcherRole
<1>3. ASSUME NEW t \in Task
      PROVE  /\ Single(pending', t)
             /\ Open(j, pending', t) => Unsent(t) /\ Still(t)
             /\ t \in adding => ~Queued(pending', t)
             /\ Starts(j, t) => t \notin adding /\ ~Queued(pending', t)
             /\ ~Accepted(j, t)
  <2>1. (Unsent(t) => Untouched(t)) /\ StartOnce(t)
    BY DEF StartInv
  <2>2. /\ Single(pending', t)
        /\ Queued(pending', t) => Queued(pending, t) /\ ~IsStart(e, t)
        /\ IsStart(e, t) => Queued(pending, t)
    BY <1>1, <2>1, TailSingle DEF StartOnce
  <2>3. Starts(j, t) <=> IsStart(e, t)
    BY <1>2 DEF Starts, Busy, IsStart
  <2>4. Open(j, pending', t) => Unsent(t)
    BY <2>2, <2>3 DEF Open, Unsent, InHand
  <2>5. Same(t)
    BY <1>1 DEF Same
  <2>6. Open(j, pending', t) => Still(t)
    BY <2>1, <2>4, <2>5, SameStill
  <2>. QED
    BY <1>2, <2>1, <2>2, <2>3, <2>4, <2>6 DEF StartOnce, Accepted
<1>. QED
  BY <1>1, <1>2, <1>3, DispatcherStarts

\* The stores and the workers do not change.
LEMMA PlainTurn ==
    ASSUME TypeOK, StartInv, job[Dispatcher].pc # "idle", NEW j, Become(Dispatcher, j),
           DispatcherRole(j), j.pc # "commit",
           UNCHANGED <<rec, asg, wdb, wq, submitted, adding, pending, todo, sync>>,
           \/ j.pc = "idle"
           \/ /\ j.task = job[Dispatcher].task /\ j.order = job[Dispatcher].order
              /\ j.order.kind = "start" /\ j.pc \in Unplaced => job[Dispatcher].pc \in Unplaced
    PROVE  StartInv'
<1>1. ASSUME NEW t \in Task
      PROVE  /\ InHand(j, t) => InHand(job[Dispatcher], t)
             /\ Untouched(t) => Still(t)
             /\ ~Accepted(j, t)
  <2>1. Same(t)
    BY DEF Same
  <2>. QED
    BY <2>1, SameStill DEF InHand, Unplaced, Starts, Busy, Accepted
<1>. QED
  BY <1>1, DispatcherTurn

LEMMA PlainIdle ==
    ASSUME TypeOK, StartInv, job[Dispatcher].pc # "idle", Finish(Dispatcher),
           UNCHANGED <<rec, asg, wdb, wq, submitted, adding, pending, todo, sync>>
    PROVE  StartInv'
<1>1. Idle.pc = "idle" /\ DispatcherRole(Idle)
  BY DEF Idle, DispatcherRole
<1>. QED
  BY <1>1, PlainTurn DEF Finish

LEMMA PlainGoto ==
    ASSUME TypeOK, StartInv, job[Dispatcher].pc # "idle", NEW pc, Goto(Dispatcher, pc),
           pc \in {"unowned", "place", "post", "release", "retry", "fail", "burn", "end"},
           job[Dispatcher].order.kind = "start" \/ pc \in {"unowned", "post", "release", "retry"},
           pc \in Unplaced => job[Dispatcher].pc \in Unplaced,
           UNCHANGED <<rec, asg, wdb, wq, submitted, adding, pending, todo, sync>>
    PROVE  StartInv'
<1> DEFINE j == [job[Dispatcher] EXCEPT !.pc = pc]
<1>1. /\ Become(Dispatcher, j) /\ j.pc = pc /\ j.task = job[Dispatcher].task
      /\ j.order = job[Dispatcher].order /\ j.again = job[Dispatcher].again
  BY Types, GotoIs DEF Goto
<1>2. DispatcherRole(j)
  BY <1>1 DEF DispatcherRole, StartInv, Roles
<1>3. j.pc # "commit"
  BY <1>1
<1>. QED
  BY <1>1, <1>2, <1>3, PlainTurn

\* The start in hand goes back to the queue, or a stop does.
LEMMA RequeueStarts ==
    ASSUME TypeOK, StartInv, job[Dispatcher].pc # "idle", Finish(Dispatcher), NEW o,
           Enqueued(job[Dispatcher].task, o),
           o.kind = "start" => InHand(job[Dispatcher], job[Dispatcher].task),
           UNCHANGED <<rec, asg, wdb, wq, submitted, adding, todo, sync>>
    PROVE  StartInv'
<1> DEFINE u == job[Dispatcher].task
<1>1. Idle.pc = "idle" /\ DispatcherRole(Idle)
  BY DEF Idle, DispatcherRole
<1>2. u \in Task
  BY Types, BusyJob
<1>3. o.kind = "start" => u \notin adding /\ ~Queued(pending, u)
  BY <1>2 DEF InHand, StartInv, StartOnce
<1>4. ASSUME NEW t \in Task
      PROVE  /\ Single(pending', t)
             /\ Open(Idle, pending', t) => Unsent(t) /\ Still(t)
             /\ t \in adding => ~Queued(pending', t)
             /\ ~Starts(Idle, t) /\ ~Accepted(Idle, t)
  <2>1. (Unsent(t) => Untouched(t)) /\ StartOnce(t)
    BY DEF StartInv
  <2>2. Single(pending', t) /\ (Queued(pending', t) <=> Queued(pending, t) \/ (t = u /\ o.kind = "start"))
    BY <1>3, <2>1, AppendSingle DEF StartOnce
  <2>3. ~InHand(Idle, t) /\ ~Starts(Idle, t) /\ ~Accepted(Idle, t)
    BY <1>1 DEF InHand, Unplaced, Starts, Busy, Accepted
  <2>4. Open(Idle, pending', t) => Unsent(t)
    BY <2>2, <2>3 DEF Open, Unsent
  <2>5. Same(t)
    BY DEF Same
  <2>6. Open(Idle, pending', t) => Still(t)
    BY <2>1, <2>4, <2>5, SameStill
  <2>. QED
    BY <1>3, <2>1, <2>2, <2>3, <2>4, <2>6 DEF StartOnce
<1>. QED
  BY <1>1, <1>4, DispatcherStarts DEF Finish

LEMMA RoutingStarts ==
    ASSUME TypeOK, StartInv, Route \/ Unowned \/ Release
    PROVE  StartInv'
<1> DEFINE J == job[Dispatcher]
           u == J.task
<1>0. /\ J.pc # "idle" /\ u \in Task
      /\ UNCHANGED <<rec, asg, wdb, wq, submitted, adding, pending, todo, sync>>
  BY Types, BusyJob DEF Route, Unowned, Release, At, stores, workers, client
<1>2. CASE Route
  <2> DEFINE n == asg[u]
             stop == J.order.kind = "stop"
             free == ~Conflicts(n, u, TRUE)
             j == [J EXCEPT !.pc = "post", !.node = n]
  <2>1. J.pc = "route" /\ (stop \/ J.order.kind = "start")
    BY <1>2, Types, BusyJob DEF Route, At, Order
  <2>2. CASE n = NoNode
    <3>1. Goto(Dispatcher, IF stop THEN "unowned" ELSE "place")
      BY <1>2, <2>2 DEF Route
    <3>. QED
      BY <1>0, <2>1, <3>1, PlainGoto DEF Unplaced
  <2>3. CASE n # NoNode /\ (stop \/ free)
    <3>1. Become(Dispatcher, j)
      BY <1>2, <2>3 DEF Route
    <3>2. j.pc = "post" /\ j.task = u /\ j.order = J.order /\ j.again = J.again
      BY Types, BusyJob DEF Job
    <3>3. DispatcherRole(j) /\ j.pc # "commit"
      BY <3>2 DEF DispatcherRole, StartInv, Roles
    <3>. QED
      BY <1>0, <2>1, <3>1, <3>2, <3>3, PlainTurn DEF Unplaced
  <2>4. CASE n # NoNode /\ ~stop /\ ~free
    <3>1. Goto(Dispatcher, "fail")
      BY <1>2, <2>4 DEF Route
    <3>. QED
      BY <1>0, <2>1, <2>4, <3>1, PlainGoto DEF Unplaced
  <2>. QED
    BY <2>2, <2>3, <2>4
<1>3. CASE Unowned
  <2> DEFINE j == [J EXCEPT !.pc = "delete", !.snap = rec[u]]
  <2>1. j.pc = "delete" /\ j.task = u /\ j.order = J.order /\ j.again = J.again
    BY Types, BusyJob DEF Job
  <2>2. DispatcherRole(j) /\ j.pc # "commit"
    BY <2>1 DEF DispatcherRole, StartInv, Roles
  <2>3. Become(Dispatcher, j) \/ Finish(Dispatcher)
    BY <1>3 DEF Unowned
  <2>4. CASE Become(Dispatcher, j)
    BY <1>0, <2>1, <2>2, <2>4, PlainTurn DEF Unplaced
  <2>. QED
    BY <1>0, <2>3, <2>4, PlainIdle
<1>4. CASE Release
  BY <1>0, <1>4, PlainIdle DEF Release
<1>. QED
  BY <1>2, <1>3, <1>4

LEMMA PlaceStarts ==
    ASSUME TypeOK, StartInv, Place \/ Retry
    PROVE  StartInv'
<1> DEFINE J == job[Dispatcher]
           u == J.task
<1>0. /\ J.pc # "idle" /\ u \in Task
      /\ UNCHANGED <<rec, asg, wdb, wq, submitted, adding, todo, sync>>
  BY Types, BusyJob DEF Place, Retry, At, stores, workers, client
<1>1. CASE Place
  <2>1. J.pc = "place" /\ J.order.kind = "start" /\ InHand(J, u)
    BY <1>1 DEF Place, At, StartInv, Roles, DispatcherRole, InHand, Unplaced, Starts, Busy
  <2>2. CASE pending' = pending /\ Finish(Dispatcher)
    BY <1>0, <2>2, PlainIdle
  <2>3. CASE pending' = pending /\ Goto(Dispatcher, "end")
    BY <1>0, <2>1, <2>3, PlainGoto DEF Unplaced
  <2>4. CASE Enqueued(u, Start(0)) /\ Finish(Dispatcher)
    BY <1>0, <2>1, <2>4, RequeueStarts
  <2>5. CASE pending' = pending /\ Select(Dispatcher, u, NoNode, "post")
    <3>1. PICK n \in Node : Become(Dispatcher, [J EXCEPT !.pc = "post", !.node = n])
      BY <2>5 DEF Select
    <3> DEFINE j == [J EXCEPT !.pc = "post", !.node = n]
    <3>2. j.pc = "post" /\ j.task = u /\ j.order = J.order /\ j.again = J.again
      BY Types, BusyJob DEF Job
    <3>3. DispatcherRole(j) /\ j.pc # "commit"
      BY <3>2 DEF DispatcherRole, StartInv, Roles
    <3>. QED
      BY <1>0, <2>1, <2>5, <3>1, <3>2, <3>3, PlainTurn DEF Unplaced
  <2>. QED
    BY <1>1, <2>2, <2>3, <2>4, <2>5 DEF Place
<1>2. CASE Retry
  <2>1. J.pc = "retry" /\ Enqueued(u, J.order) /\ Finish(Dispatcher)
    BY <1>2 DEF Retry, At
  <2>2. J.order.kind = "start" => InHand(J, u)
    BY <2>1 DEF InHand, Unplaced, Starts, Busy
  <2>. QED
    BY <1>0, <2>1, <2>2, RequeueStarts
<1>. QED
  BY <1>1, <1>2

\* A request concerns the worker's record of its task.
LEMMA AcceptOthers ==
    ASSUME TypeOK, NEW n, NEW u, NEW o, Accepts(n, u, o)
    PROVE  \A t \in Task, m \in Node : t # u => wdb'[m][t] = wdb[m][t] /\ wq'[m][t] = wq[m][t]
<1>1. \A t \in Task, m \in Node : t # u => wq'[m][t] = wq[m][t]
  BY DEF Accepts, TypeOK, WorkerTypes
<1>2. \A t \in Task, m \in Node : t # u => wdb'[m][t] = wdb[m][t]
  <2>1. CASE wdb' = wdb
    BY <2>1
  <2>2. CASE wdb' = [wdb EXCEPT ![n][u] = Stored(@, o)]
    BY <2>2 DEF TypeOK, WorkerTypes
  <2>. QED
    BY <2>1, <2>2 DEF Accepts
<1>. QED
  BY <1>1, <1>2

LEMMA PostStarts ==
    ASSUME TypeOK, StartInv, JobsKnown, Orderly, Post
    PROVE  StartInv'
<1> DEFINE J == job[Dispatcher]
           u == J.task
           n == J.node
           o == J.order
<1>0. /\ J.pc = "post" /\ u \in Task /\ u \in submitted
      /\ UNCHANGED <<rec, asg, submitted, adding, pending, todo, sync>>
  BY Types, BusyJob, BusyKnown DEF Post, At, stores, client
<1>1. o.kind \in {"start", "stop"} /\ n \in Node0
  BY Types, BusyJob DEF Order
<1>2. ASSUME UNCHANGED workers
      PROVE  /\ Goto(Dispatcher, "retry") \/ Goto(Dispatcher, "release") \/ Finish(Dispatcher) => StartInv'
             /\ o.kind = "start" /\ Goto(Dispatcher, "burn") => StartInv'
  <2>1. UNCHANGED <<wdb, wq>>
    BY <1>2 DEF workers
  <2>. QED
    BY <1>0, <2>1, PlainGoto, PlainIdle DEF Unplaced
<1>3. CASE /\ Accepts(n, u, o)
           /\ Goto(Dispatcher, IF o.kind = "stop" THEN "release" ELSE "commit")
  <2>1. \A t \in Task : t # u => Same(t)
    BY <1>0, <1>3, AcceptOthers DEF Same
  <2>2. CASE o.kind = "start" /\ Goto(Dispatcher, "commit")
    <3> DEFINE j == [J EXCEPT !.pc = "commit"]
    <3>1. Become(Dispatcher, j) /\ j.pc = "commit" /\ j.task = u /\ j.order = o /\ j.again = J.again
      BY <2>2, Types, GotoIs DEF Goto
    <3>2. DispatcherRole(j)
      BY <2>2, <3>1 DEF DispatcherRole, StartInv, Roles
    <3>3. Starts(J, u) /\ InHand(J, u)
      BY <1>0, <2>2 DEF InHand, Unplaced, Starts, Busy
    <3>4. ASSUME NEW t \in Task
          PROVE  /\ ~InHand(j, t)
                 /\ Open(j, pending, t) /\ Untouched(t) => Still(t)
                 /\ Accepted(j, t) => asg'[t] = NoNode /\ Alone(t)
      <4>1. ~InHand(j, t)
        BY <3>1 DEF InHand, Unplaced
      <4>2. Open(j, pending, t) => t # u
        BY <1>0, <3>3, <4>1 DEF Open, StartInv, StartOnce
      <4>3. Untouched(u)
        BY <1>0, <3>3 DEF StartInv, Unsent
      <4>. QED
        BY <1>0, <2>1, <3>1, <4>1, <4>2, <4>3, SameStill DEF Accepted, Untouched
    <3>. QED
      BY <1>0, <3>1, <3>2, <3>4, DispatcherTurn
  <2>3. CASE o.kind = "stop" /\ Goto(Dispatcher, "release")
    <3> DEFINE j == [J EXCEPT !.pc = "release"]
    <3>1. Become(Dispatcher, j) /\ j.pc = "release" /\ j.task = u /\ j.order = o /\ j.again = J.again
      BY <2>3, Types, GotoIs DEF Goto
    <3>2. DispatcherRole(j)
      BY <3>1 DEF DispatcherRole, StartInv, Roles
    <3>3. Untouched(u) => Still(u)
      <4>1. /\ wdb[n][u] # Unknown /\ wdb' = wdb
            /\ wq' = [wq EXCEPT ![n][u] = Append(wq[n][u], o)]
        BY <1>3, <2>3 DEF Accepts
      <4>2. CASE n \in Node
        BY <4>1, <4>2 DEF Untouched
      <4>3. CASE n \notin Node
        BY <1>0, <4>1, <4>3 DEF TypeOK, WorkerTypes, Untouched, Still
      <4>. QED
        BY <4>2, <4>3
    <3>4. ASSUME NEW t \in Task
          PROVE  /\ ~InHand(j, t) /\ ~Accepted(j, t)
                 /\ Untouched(t) => Still(t)
      BY <2>1, <3>1, <3>3, SameStill DEF InHand, Unplaced, Accepted
    <3>. QED
      BY <1>0, <3>1, <3>2, <3>4, DispatcherTurn
  <2>. QED
    BY <1>1, <1>3, <2>2, <2>3
<1>. QED
  BY <1>0, <1>1, <1>2, <1>3 DEF Post, Orderly, Strikes

LEMMA CommitStarts ==
    ASSUME TypeOK, StartInv, JobsKnown, Orderly, Commit
    PROVE  StartInv'
<1> DEFINE J == job[Dispatcher]
           u == J.task
<1>0. /\ J.pc = "commit" /\ u \in Task /\ u \in submitted /\ Starts(J, u)
      /\ UNCHANGED <<wdb, wq, submitted, adding, pending, todo, sync>>
  BY Types, BusyJob, BusyKnown
     DEF Commit, At, workers, client, StartInv, Roles, DispatcherRole, Starts, Busy
<1>1. CASE UNCHANGED stores /\ Become(Dispatcher, [J EXCEPT !.pc = "undo", !.again = FALSE])
  <2> DEFINE j == [J EXCEPT !.pc = "undo", !.again = FALSE]
  <2>1. j.pc = "undo" /\ j.task = u /\ j.order = J.order /\ ~j.again
    BY Types, BusyJob DEF Job
  <2>2. DispatcherRole(j) /\ j.pc # "commit"
    BY <1>0, <2>1 DEF DispatcherRole, Starts
  <2>. QED
    BY <1>0, <1>1, <2>1, <2>2, PlainTurn DEF stores, Unplaced
<1>2. CASE /\ asg' = [asg EXCEPT ![u] = J.node]
           /\ rec' = [rec EXCEPT ![u] = [Fresh EXCEPT !.state = "Scheduled"]]
           /\ Finish(Dispatcher)
  <2>1. \A t \in Task : t # u => Same(t)
    BY <1>0, <1>2 DEF Same, TypeOK
  <2>2. Idle.pc = "idle" /\ DispatcherRole(Idle)
    BY DEF Idle, DispatcherRole
  <2>3. ASSUME NEW t \in Task
        PROVE  /\ ~InHand(Idle, t) /\ ~Accepted(Idle, t)
               /\ Open(Idle, pending, t) /\ Untouched(t) => Still(t)
    <3>1. ~InHand(Idle, t) /\ ~Accepted(Idle, t)
      BY <2>2 DEF InHand, Unplaced, Starts, Busy, Accepted
    <3>2. Open(Idle, pending, t) => t # u
      BY <1>0, <3>1 DEF Open, StartInv, StartOnce
    <3>. QED
      BY <2>1, <3>1, <3>2, SameStill
  <2>. QED
    BY <1>0, <1>2, <2>2, <2>3, DispatcherTurn DEF Finish
<1>. QED
  BY <1>1, <1>2 DEF Commit, Orderly, Strikes

-----------------------------------------------------------------------------
(* The other goroutines *)

LEMMA RestartingStarts ==
    ASSUME TypeOK, StartInv, NEW p \in Restarter, Restarting(p)
    PROVE  StartInv'
<1> DEFINE u == job[p].task
<1>0. /\ p \in Proc /\ job[p].pc # "idle" /\ u \in Task
      /\ UNCHANGED <<submitted, adding, pending, sync, todo>>
  BY Restarters, BusyJob
     DEF Restarting, RestartOwner, RestartPick, RestartPost, Recommit, Move, At, client
<1>1. \A t \in Task : t # u => Same(t)
  <2>1. CASE UNCHANGED <<rec, asg, wdb, wq>>
    BY <2>1 DEF Same
  <2>2. CASE RestartPost(p)
    <3>1. UNCHANGED <<rec, asg>> /\ (UNCHANGED workers \/ \E n, o : Accepts(n, u, o))
      BY <2>2 DEF RestartPost, stores
    <3>2. CASE UNCHANGED workers
      BY <3>1, <3>2 DEF workers, Same
    <3>3. CASE \E n, o : Accepts(n, u, o)
      BY <1>0, <3>1, <3>3, AcceptOthers DEF Same
    <3>. QED
      BY <3>1, <3>2, <3>3
  <2>3. CASE Recommit(p)
    <3>1. UNCHANGED workers
      BY <2>3 DEF Recommit
    <3>2. \A t \in Task : t # u => rec'[t] = rec[t] /\ asg'[t] = asg[t]
      BY <2>3 DEF Recommit, stores, TypeOK
    <3>. QED
      BY <3>1, <3>2 DEF workers, Same
  <2>4. CASE Move(p)
    <3>1. job[p].old \in Node0 /\ Stop(job[p].snap.count, job[p].snap.why).kind = "stop"
      BY <1>0, BusyJob DEF Stop
    <3>2. /\ UNCHANGED <<rec, asg>>
          /\ \/ BestEffortStop(job[p].old, u, Stop(job[p].snap.count, job[p].snap.why))
             \/ UNCHANGED workers
      BY <2>4 DEF Move, stores
    <3>. QED
      BY <1>0, <3>1, <3>2, StopOthers
  <2>. QED
    BY <2>1, <2>2, <2>3, <2>4 DEF Restarting, RestartOwner, RestartPick, stores, workers
<1>2. \E j : Become(p, j) /\ (j.pc = "idle" \/ j.task = u)
  <2>1. ASSUME NEW pc, Goto(p, pc) PROVE \E j : Become(p, j) /\ j.task = u
    <3> DEFINE j == [job[p] EXCEPT !.pc = pc]
    <3>1. Become(p, j) /\ j.task = u
      BY <1>0, <2>1, GotoIs DEF Goto
    <3>. QED
      BY <3>1
  <2>2. Finish(p) => \E j : Become(p, j) /\ j.pc = "idle"
    BY IdleIs DEF Finish
  <2>3. \A old : /\ [job[p] EXCEPT !.pc = "pick", !.old = old].task = u
                 /\ [job[p] EXCEPT !.pc = "restart", !.node = old].task = u
                 /\ [job[p] EXCEPT !.pc = "move", !.old = old].task = u
    BY <1>0, BusyJob DEF Job
  <2>. QED
    BY <2>1, <2>2, <2>3 DEF Restarting, RestartOwner, RestartPick, RestartPost, Recommit, Move, Select
<1>. QED
  BY <1>0, <1>1, <1>2, RestarterStarts

LEMMA LoopStarts ==
    ASSUME TypeOK, StartInv, Orderly, LoopNext
    PROVE  StartInv'
<1>0. /\ UNCHANGED <<rec, asg, wdb, wq, submitted, adding, pending, sync>>
      /\ \A t \in Task : Same(t) /\ (Untouched(t) => Still(t))
  BY SameStill DEF LoopNext, LoopSnapshot, LoopVisit, LoopBackoff, stores, workers, client, Same
<1>1. CASE LoopSnapshot
  <2>1. /\ todo' = {e \in {[task |-> t, rec |-> rec[t]] : t \in Task} : Ended(e.rec)}
        /\ UNCHANGED job
    BY <1>1 DEF LoopSnapshot
  <2>2. ASSUME NEW t \in Task, Untouched(t), NEW e \in todo' PROVE e.task # t
    BY <2>1, <2>2 DEF Untouched, Ended
  <2>3. \A e \in todo' : Ended(e.rec)
    BY <2>1
  <2>4. \A t \in Task : Untouched(t) => \A e \in sync'.list : e.task # t
    BY <1>0 DEF Untouched
  <2>. QED
    BY <1>0, <2>1, <2>2, <2>3, <2>4, ElsewhereStarts
<1>2. CASE todo' \subseteq todo /\ job' = job
  <2>1. \A t \in Task : Untouched(t) => /\ \A e \in todo' : e.task # t
                                        /\ \A e \in sync'.list : e.task # t
    BY <1>0, <1>2 DEF Untouched
  <2>2. \A e \in todo' : Ended(e.rec)
    BY <1>2 DEF StartInv
  <2>. QED
    BY <1>0, <1>2, <2>1, <2>2, ElsewhereStarts
<1>3. ASSUME NEW e \in todo, LoopVisit(e), Verdict(e.task, e.rec) # "skip" PROVE StartInv'
  <2> DEFINE j == [Idle EXCEPT !.pc = Verdict(e.task, e.rec), !.task = e.task, !.snap = e.rec]
  <2>1. Become(Loop, j) /\ todo' \subseteq todo /\ ~InBackoff(e)
    BY <1>3 DEF LoopVisit, Visit
  <2>2. j.task = e.task /\ Ended(e.rec)
    BY DEF Idle, StartInv
  <2>3. ASSUME NEW t \in Task, Untouched(t) PROVE ~Busy(j, t)
    BY <2>2, <2>3 DEF Untouched, Busy
  <2>4. ASSUME NEW t \in Task, Accepted(job[Dispatcher], t) PROVE ~Busy(j, t)
    <3>1. SUFFICES ASSUME e.task = t PROVE FALSE
      BY <2>2 DEF Busy
    <3>2. e.rec.state # "Failed"
      BY <2>1, <2>4, <3>1 DEF InBackoff, Orderly, Accepted, StartInv, Roles, DispatcherRole
    <3>3. e.rec.state = "Completed" /\ ~ShouldRestartOnSuccess(PolicyOf[t])
      BY <2>2, <2>4, <3>2 DEF Ended, Orderly, Accepted
    <3>. QED
      BY <1>3, <3>1, <3>3 DEF Verdict
  <2>5. Loop \in Proc /\ Loop # Dispatcher /\ Loop \notin Stopper
    BY Types, ManagerAssumption
  <2>6. \A t \in Task : Accepted(job[Dispatcher], t) => asg'[t] = NoNode
    BY <1>0 DEF StartInv, Awaited
  <2>. QED
    BY <1>0, <2>1, <2>3, <2>4, <2>5, <2>6, SameQueue, OtherGoroutine
<1>4. ASSUME NEW e \in todo, LoopVisit(e), Verdict(e.task, e.rec) = "skip"
      PROVE  todo' \subseteq todo /\ job' = job
  BY <1>4 DEF LoopVisit
<1>5. \A e \in todo : LoopBackoff(e) => todo' \subseteq todo /\ job' = job
  BY DEF LoopBackoff
<1>. QED
  BY <1>1, <1>2, <1>3, <1>4, <1>5 DEF LoopNext

LEMMA CheckFailsStarts ==
    ASSUME TypeOK, StartInv, NEW u \in Checked, CheckFails(u)
    PROVE  StartInv'
<1> DEFINE pc == IF ~AtCap(u, rec[u]) /\ ShouldRestart(PolicyOf[u]) THEN "owner" ELSE "end"
           j == [Idle EXCEPT !.task = u, !.snap = rec[u], !.pc = pc]
<1>1. /\ rec[u].state = "Running" /\ asg[u] # NoNode /\ Become(u, j)
      /\ UNCHANGED <<rec, asg, wdb, wq, submitted, adding, pending, todo, sync>>
  BY DEF CheckFails, stores, workers, client
<1>2. j.task = u
  BY DEF Idle
<1>3. \A t \in Task : /\ Untouched(t) => t # u
                      /\ Accepted(job[Dispatcher], t) => t # u /\ asg[t] = NoNode
  BY <1>1 DEF Untouched, StartInv, Awaited
<1>4. \A t \in Task : Untouched(t) => Still(t)
  BY <1>1, SameStill DEF Same
<1>5. u \in Proc /\ u # Dispatcher /\ u \notin Stopper
  BY Types, ManagerAssumption
<1>6. \A t \in Task : Untouched(t) \/ Accepted(job[Dispatcher], t) => ~Busy(j, t)
  BY <1>2, <1>3 DEF Busy
<1>7. /\ todo' \subseteq todo
      /\ \A t \in Task : Accepted(job[Dispatcher], t) => asg'[t] = NoNode
  BY <1>1, <1>3
<1>. QED
  BY <1>1, <1>4, <1>5, <1>6, <1>7, SameQueue, OtherGoroutine

\* The workers report and forget tasks they were sent.
LEMMA SyncStarts ==
    ASSUME TypeOK, StartInv, (\E n \in Node : SyncFetch(n)) \/ SyncApply \/ SyncForget
    PROVE  StartInv'
<1>0. UNCHANGED <<submitted, adding, pending, job, todo, asg>>
  BY DEF SyncFetch, SyncApply, SyncForget, client, stores
<1>1. \A t \in Task : Untouched(t) => \A e \in todo' : e.task # t
  BY <1>0 DEF Untouched
<1>2. \A e \in todo' : Ended(e.rec)
  BY <1>0 DEF StartInv
<1>3. ASSUME \A t \in Task : Untouched(t) => Still(t) /\ (\A e \in sync'.list : e.task # t)
      PROVE  StartInv'
  BY <1>0, <1>1, <1>2, <1>3, ElsewhereStarts
<1>4. ASSUME NEW n \in Node, SyncFetch(n) PROVE StartInv'
  <2>1. sync'.list = {e \in {[task |-> t, rec |-> wdb[n][t]] : t \in Task} : e.rec # Unknown}
    BY <1>4 DEF SyncFetch, SyncIdle
  <2>2. \A t \in Task : Untouched(t) => \A e \in sync'.list : e.task # t
    BY <2>1 DEF Untouched
  <2>3. \A t \in Task : Same(t)
    BY <1>4 DEF SyncFetch, stores, workers, Same
  <2>. QED
    BY <1>3, <2>2, <2>3, SameStill
<1>5. \A s : s.list \subseteq sync.list => Left(s).list \subseteq sync.list
  BY DEF Left, SyncIdle
<1>6. CASE SyncApply
  <2>1. PICK e \in sync.list :
            /\ rec' = (IF Known(e.task) THEN Synced(e.task, e.rec) ELSE rec) \/ rec' = rec
            /\ sync' = Left([sync EXCEPT !.list = @ \ {e}, !.forget = Orphan(e.task)])
    BY <1>6 DEF SyncApply
  <2>2. sync'.list \subseteq sync.list
    <3>1. [sync EXCEPT !.list = @ \ {e}, !.forget = Orphan(e.task)].list \subseteq sync.list
      BY DEF TypeOK
    <3>. QED
      BY <1>5, <2>1, <3>1
  <2>3. \A t \in Task : t # e.task => rec'[t] = rec[t]
    BY <2>1 DEF Synced, TypeOK
  <2>4. UNCHANGED <<wdb, wq>>
    BY <1>6 DEF SyncApply, workers
  <2>5. \A t \in Task : t # e.task => Same(t)
    BY <1>0, <2>3, <2>4 DEF Same
  <2>6. \A t \in Task : Untouched(t) => t # e.task /\ \A r \in sync'.list : r.task # t
    BY <2>1, <2>2 DEF Untouched
  <2>. QED
    BY <1>3, <2>5, <2>6, SameStill
<1>7. CASE SyncForget
  <2>1. sync'.list \subseteq sync.list
    <3>1. sync' = Left([sync EXCEPT !.forget = NoTask])
      BY <1>7 DEF SyncForget
    <3>2. [sync EXCEPT !.forget = NoTask].list \subseteq sync.list
      BY DEF TypeOK
    <3>. QED
      BY <1>5, <3>1, <3>2
  <2>2. UNCHANGED <<rec, asg>>
    BY <1>7 DEF SyncForget, stores
  <2>3. \A t \in Task, m \in Node : wdb'[m][t] \in {Unknown, wdb[m][t]} /\ wq'[m][t] \in {<<>>, wq[m][t]}
    <3>1. CASE UNCHANGED workers
      BY <3>1 DEF workers
    <3>2. CASE /\ wdb' = [wdb EXCEPT ![sync.node][sync.forget] = Unknown]
               /\ wq' = [wq EXCEPT ![sync.node][sync.forget] = <<>>]
      BY <3>2 DEF TypeOK, WorkerTypes
    <3>. QED
      BY <1>7, <3>1, <3>2 DEF SyncForget
  <2>4. ASSUME NEW t \in Task, Untouched(t) PROVE Still(t) /\ \A e \in sync'.list : e.task # t
    BY <2>1, <2>2, <2>3, <2>4 DEF Untouched, Still
  <2>. QED
    BY <1>3, <2>4
<1>. QED
  BY <1>4, <1>6, <1>7

LEMMA WorkersStart ==
    ASSUME TypeOK, StartInv,
           \/ \E n \in Node, t \in Task : WorkerRun(n, t) \/ WorkerExit(n, t)
           \/ \E n \in Node : NodeDies(n)
    PROVE  StartInv'
<1>0. UNCHANGED <<submitted, adding, pending, job, todo, asg, rec, sync>>
  BY DEF WorkerRun, WorkerExit, NodeDies, client, stores
<1>1. \A t \in Task : Untouched(t) => /\ \A e \in todo' : e.task # t
                                      /\ \A e \in sync'.list : e.task # t
  BY <1>0 DEF Untouched
<1>2. \A e \in todo' : Ended(e.rec)
  BY <1>0 DEF StartInv
<1>3. ASSUME \A t \in Task : Untouched(t) => Still(t) PROVE StartInv'
  BY <1>0, <1>1, <1>2, <1>3, ElsewhereStarts
<1>4. ASSUME NEW n \in Node, NEW u \in Task, WorkerRun(n, u) \/ WorkerExit(n, u) PROVE StartInv'
  <2>1. ~Untouched(u)
    <3>1. wq[n][u] # <<>> \/ wdb[n][u].state = "Running"
      BY <1>4 DEF WorkerRun, WorkerExit
    <3>. QED
      BY <3>1 DEF Untouched, Unknown
  <2>2. \A t \in Task, m \in Node : t # u => wdb'[m][t] = wdb[m][t] /\ wq'[m][t] = wq[m][t]
    <3>1. ASSUME NEW t \in Task, NEW m \in Node, t # u PROVE wq'[m][t] = wq[m][t]
      <4>1. CASE wq' = wq
        BY <4>1
      <4>2. CASE \E q : wq' = [wq EXCEPT ![n][u] = q]
        BY <3>1, <4>2 DEF TypeOK, WorkerTypes
      <4>. QED
        BY <1>4, <4>1, <4>2 DEF WorkerRun, WorkerExit
    <3>2. ASSUME NEW t \in Task, NEW m \in Node, t # u PROVE wdb'[m][t] = wdb[m][t]
      <4>1. CASE \E w : wdb' = [wdb EXCEPT ![n][u] = w]
        BY <3>2, <4>1 DEF TypeOK, WorkerTypes
      <4>2. CASE WorkerExit(n, u)
        <5>1. PICK ok \in BOOLEAN :
                  wdb' = [wdb EXCEPT ![n][u].state = IF ok THEN "Completed" ELSE "Failed",
                                     ![n][u].fin = @ \/ ok]
          BY <4>2 DEF WorkerExit
        <5>. QED
          BY <3>2, <5>1 DEF TypeOK, WorkerTypes
      <4>3. CASE wdb' = wdb
        BY <4>3
      <4>. QED
        BY <1>4, <4>1, <4>2, <4>3 DEF WorkerRun
    <3>. QED
      BY <3>1, <3>2
  <2>3. \A t \in Task : t # u => Same(t)
    BY <1>0, <2>2 DEF Same
  <2>. QED
    BY <1>3, <2>1, <2>3, SameStill
<1>5. ASSUME NEW n \in Node, NodeDies(n) PROVE StartInv'
  <2>1. \A t \in Task, m \in Node : wdb'[m][t] \in {Unknown, wdb[m][t]} /\ wq'[m][t] \in {<<>>, wq[m][t]}
    BY <1>5 DEF NodeDies, TypeOK, WorkerTypes
  <2>2. \A t \in Task : Untouched(t) => Still(t)
    BY <1>0, <2>1 DEF Untouched, Still
  <2>. QED
    BY <1>3, <2>2
<1>. QED
  BY <1>4, <1>5

LEMMA InitStarts == Init => StartInv
<1> SUFFICES ASSUME Init PROVE StartInv
  OBVIOUS
<1>1. \A p \in Proc : job[p] = Idle
  BY DEF Init
<1>2. \A p \in Proc : \A t : ~Busy(job[p], t) /\ ~Starts(job[p], t) /\ ~Accepted(job[p], t)
  BY <1>1 DEF Idle, Busy, Starts, Accepted
<1>3. /\ pending = <<>> /\ todo = {} /\ sync.list = {} /\ adding = {}
      /\ \A t \in Task : /\ asg[t] = NoNode /\ rec[t].state = "Absent"
                         /\ \A n \in Node : wdb[n][t] = Unknown /\ wq[n][t] = <<>>
  BY DEF Init, SyncIdle, NoRecord, Fresh
<1>4. \A t \in Task : Untouched(t) /\ Awaited(t)
  BY <1>2, <1>3, Restarters, Types DEF Untouched, Alone, Awaited
<1>5. \A t \in Task : StartOnce(t)
  BY <1>3 DEF StartOnce, Single, Queued
<1>6. DispatcherRole(Idle) /\ StopperRole(Idle)
  BY DEF DispatcherRole, StopperRole, Idle
<1>7. Roles
  BY <1>1, <1>6, Types DEF Roles
<1>. QED
  BY <1>3, <1>4, <1>5, <1>7 DEF StartInv

LEMMA NextStarts == ASSUME TypeOK, LifeInv, StartInv, Orderly, [Next]_vars PROVE StartInv'
<1>0. JobsKnown
  BY DEF LifeInv
<1>1. CASE UNCHANGED vars
  <2>1. UNCHANGED <<rec, asg, wdb, wq, submitted, adding, pending, job, todo, sync>>
    BY <1>1 DEF vars, stores, workers, client
  <2>2. \A t \in Task : Same(t)
    BY <2>1 DEF Same
  <2>3. \A t \in Task : Untouched(t) => /\ \A e \in todo' : e.task # t
                                        /\ \A e \in sync'.list : e.task # t
    BY <2>1 DEF Untouched
  <2>4. \A e \in todo' : Ended(e.rec)
    BY <2>1 DEF StartInv
  <2>. QED
    BY <2>1, <2>2, <2>3, <2>4, SameStill, ElsewhereStarts
<1>2. CASE \E t \in Task : Submit(t) \/ Queue(t)
  BY <1>2, SubmitStarts, QueueStarts
<1>3. CASE \E s \in Stopper : Stopping(s) \/ \E t \in Task : StopRead(s, t)
  BY <1>3, StoppingStarts, StopReadStarts
<1>4. CASE \E p \in Proc : Deleting(p) \/ Ending(p)
  BY <1>0, <1>4, DeletingStarts, EndingStarts
<1>5. CASE SendWork
  BY <1>0, <1>5, DequeueStarts, RoutingStarts, PlaceStarts, PostStarts, CommitStarts DEF SendWork
<1>6. CASE \E p \in Restarter : Restarting(p)
  BY <1>6, RestartingStarts
<1>7. CASE LoopNext \/ \E t \in Checked : CheckFails(t)
  BY <1>7, LoopStarts, CheckFailsStarts
<1>8. CASE (\E n \in Node : SyncFetch(n)) \/ SyncApply \/ SyncForget
  BY <1>8, SyncStarts
<1>9. CASE \/ \E n \in Node, t \in Task : WorkerRun(n, t) \/ WorkerExit(n, t)
           \/ \E n \in Node : NodeDies(n)
  BY <1>9, WorkersStart
<1>10. ~Crash
  BY DEF Crash, Orderly, TypeOK
<1>. QED
  BY <1>1, <1>2, <1>3, <1>4, <1>5, <1>6, <1>7, <1>8, <1>9, <1>10 DEF Next

\* Where a request is answered before its task is started again, the ports
\* need no such hypothesis: until its first start is committed a task has no
\* owner, for no worker, report, restart or check gets hold of it, so a commit
\* overwrites nothing and no port is ever reserved for nobody, whatever does
\* not arrive, is refused, starves, dies, moves, is stopped or deleted.
THEOREM PortsNotLeaked == Orderly /\ Spec => []NoPortLeak
<1> SUFFICES ASSUME Orderly PROVE Spec => []NoPortLeak
  OBVIOUS
<1>1. Init => LifeInv /\ StartInv /\ PortInv
  BY InitLives, InitStarts, InitPorts
<1>2. TypeOK /\ LifeInv /\ StartInv /\ PortInv /\ [Next]_vars => LifeInv' /\ StartInv' /\ PortInv'
  BY NextLives, NextStarts, NextPorts, NotOverwritten
<1>. QED
  BY <1>1, <1>2, PortsAccounted, TypeCorrect, PTL DEF Spec

-----------------------------------------------------------------------------
(* Stops are final *)

\* Tasks that only restartFailedTasks restarts, and only after a failure.
Ordinary(t) == t \notin Checked /\ ~ShouldRestartOnSuccess(PolicyOf[t])

\* What workers know of attempt c of a task: an order for it, a record that
\* is not final, one that may still be reported as running.
Ordered(n, t, c) == \E i \in DOMAIN wq[n][t] : wq[n][t][i].kind = "start" /\ wq[n][t][i].count = c
Tried(w, c) == w.state # "Absent" /\ ~w.fin /\ w.count = c
Live(w, c)  == Tried(w, c) /\ w.state # "Failed"

\* Every attempt is made once, by one worker.
Apart(t) ==
    /\ \A n, m \in Node : \A i \in DOMAIN wq[n][t], k \in DOMAIN wq[m][t] :
           /\ wq[n][t][i].kind = "start" /\ wq[m][t][k].kind = "start"
           /\ wq[n][t][i].count = wq[m][t][k].count
           => n = m /\ i = k
    /\ \A n, m \in Node : \A c \in Nat :
           Tried(wdb[m][t], c) /\ Ordered(n, t, c) => n = m /\ wdb[m][t].state = "Scheduled"
    /\ \A n, m \in Node : \A c \in Nat : Tried(wdb[n][t], c) /\ Tried(wdb[m][t], c) => n = m

\* Only attempts before c have been made; nothing is left of attempt c.
Below(t, c) ==
    /\ \A n \in Node : \A a \in Nat : Ordered(n, t, a) \/ Tried(wdb[n][t], a) => a < c
    /\ \A e \in sync.list : \A a \in Nat : e.task = t /\ Tried(e.rec, a) => a < c
Dead(t, c) == \A n \in Node : ~Ordered(n, t, c) /\ ~Live(wdb[n][t], c)
Spent(t, c) == Dead(t, c) /\ \A e \in sync.list : e.task = t => ~Live(e.rec, c)

\* A worker that reports a failure has the only record of that attempt.
Reported(t) ==
    /\ \A e, f \in sync.list : e.task = t /\ f.task = t => e = f
    /\ \A e \in sync.list : \A c \in Nat :
           e.task = t /\ e.rec.state = "Failed" /\ Tried(e.rec, c) => Dead(t, c)

\* A failure that may be retried is the end of its attempt, and the last one
\* unless a stop kept the manager from recording another.
At1(t, pc) == Busy(job[Loop], t) /\ job[Loop].pc = pc
Recorded(t) ==
    /\ rec[t].state = "Failed" /\ ~rec[t].fin => Spent(t, rec[t].count)
    /\ Known(t) /\ ~rec[t].manual /\ ~At1(t, "recommit") => Below(t, rec[t].count + 1)
    /\ Accepted(job[Dispatcher], t) => Below(t, 1)

\* What the restart loop goes by: the attempt it read of was the last.
Ready(t, c) == Spent(t, c) /\ Below(t, c + 1) /\ rec[t].count <= c
Readied == {"owner", "pick", "restart", "fail", "burn", "end"}
Retried(t) ==
    /\ \A e \in todo : e.task = t /\ Verdict(t, e.rec) # "skip" => Ready(t, e.rec.count)
    /\ Busy(job[Loop], t) /\ job[Loop].pc \in Readied => Ready(t, job[Loop].snap.count)
    /\ At1(t, "recommit") => /\ Spent(t, job[Loop].snap.count) /\ Below(t, job[Loop].snap.count + 2)
                             /\ rec[t].count <= job[Loop].snap.count

\* It looks at a task once in a round.
LoopOnce(t) == /\ \A e, f \in todo : e.task = t /\ f.task = t => e = f
               /\ Busy(job[Loop], t) => \A e \in todo : e.task # t

AttemptInv(t) == LoopOnce(t) /\ Apart(t) /\ Reported(t) /\ Recorded(t) /\ Retried(t)

\* A task ended for good, that the loop does not try again either.
Attempting == {"owner", "pick", "restart", "recommit", "fail", "burn"}
Over(t) == /\ rec[t].state = "Failed" /\ rec[t].fin
           /\ ~(Busy(job[Loop], t) /\ job[Loop].pc \in Attempting)
           /\ \A e \in todo : e.task = t => Verdict(t, e.rec) = "skip"

\* A stop is recorded, or has nothing left to act upon; it does not meet the
\* first start, which would overwrite it.
Starting(t) == Unsent(t) \/ Accepted(job[Dispatcher], t)
Marking(t) == \E s \in Stopper : Busy(job[s], t) /\ job[s].pc = "mark"
Settled(t) == ~Known(t) \/ rec[t].manual \/ Over(t)
StopInv(t) == /\ t \in stopped => t \in submitted /\ Settled(t)
              /\ Starting(t) => (t \in stopped => ~Known(t)) /\ ~Marking(t)

\* A start the dispatcher has, or will have, is a first one.
First(o) == o.kind = "start" => o = Start(0)
FirstStarts == (\A i \in DOMAIN pending : First(pending[i].order)) /\ First(job[Dispatcher].order)

CheckersOwn == \A u \in Checked : job[u].pc # "idle" => job[u].task = u
HoldInv == CheckersOwn /\ FirstStarts /\ \A t \in Task : Ordinary(t) => AttemptInv(t) /\ StopInv(t)

-----------------------------------------------------------------------------
(* Attempts at the workers *)

\* The orders are those there were, the first one gone perhaps, and a record
\* is still that of its attempt.
Shifted(q, r) == \E d \in {0, 1} : \A i \in DOMAIN r :
                     r[i].kind = "start" => i + d \in DOMAIN q /\ r[i] = q[i + d]
Calm(t) == \A n \in Node :
    /\ Shifted(wq[n][t], wq'[n][t])
    /\ \A c \in Nat : Tried(wdb'[n][t], c) =>
           /\ Tried(wdb[n][t], c)
           /\ wdb'[n][t].state = wdb[n][t].state \/ wdb[n][t].state \notin {"Scheduled", "Failed"}

\* Nothing is attempted that was not before.
Eased(t) == /\ Apart(t)' /\ Reported(t)'
            /\ \A c \in Nat : (Below(t, c) => Below(t, c)') /\ (Spent(t, c) => Spent(t, c)')

LEMMA CalmOrders ==
    ASSUME NEW t \in Task, Calm(t), NEW n \in Node, NEW c
    PROVE  /\ Ordered(n, t, c)' => Ordered(n, t, c)
           /\ c \in Nat /\ Live(wdb'[n][t], c) => Live(wdb[n][t], c)
<1>1. Ordered(n, t, c)' => Ordered(n, t, c)
  BY DEF Calm, Shifted, Ordered
<1>. QED
  BY <1>1 DEF Calm, Live

LEMMA Positions == ASSUME TypeOK' PROVE \A p \in Node, t \in Task : DOMAIN wq'[p][t] \subseteq Nat
  BY DEF TypeOK, WorkerTypes

LEMMA ShiftedApart ==
    ASSUME TypeOK, TypeOK', NEW t \in Task, Apart(t), \A n \in Node : Shifted(wq[n][t], wq'[n][t]),
           NEW n \in Node, NEW m \in Node, NEW i \in DOMAIN wq'[n][t], NEW k \in DOMAIN wq'[m][t],
           wq'[n][t][i].kind = "start", wq'[m][t][k].kind = "start",
           wq'[n][t][i].count = wq'[m][t][k].count
    PROVE  n = m /\ i = k
<1>1. PICK d \in {0, 1} : \A x \in DOMAIN wq'[n][t] :
          wq'[n][t][x].kind = "start" => x + d \in DOMAIN wq[n][t] /\ wq'[n][t][x] = wq[n][t][x + d]
  BY DEF Shifted
<1>2. PICK e \in {0, 1} : \A x \in DOMAIN wq'[m][t] :
          wq'[m][t][x].kind = "start" => x + e \in DOMAIN wq[m][t] /\ wq'[m][t][x] = wq[m][t][x + e]
  BY DEF Shifted
<1>3. n = m
  BY <1>1, <1>2 DEF Apart
<1>4. i + d = k + d
  BY <1>1, <1>3 DEF Apart
<1>5. \A p \in Node : DOMAIN wq'[p][t] \subseteq Nat
  BY Positions
<1>6. i \in Nat /\ k \in Nat /\ d \in Nat
  BY <1>5
<1>. QED
  BY <1>3, <1>4, <1>6

LEMMA CalmApart ==
    ASSUME TypeOK, TypeOK', NEW t \in Task, Apart(t), Calm(t)
    PROVE  Apart(t)'
<1>1. \A n \in Node : Shifted(wq[n][t], wq'[n][t])
  BY DEF Calm
<1>2. \A n, m \in Node : \A i \in DOMAIN wq'[n][t], k \in DOMAIN wq'[m][t] :
          /\ wq'[n][t][i].kind = "start" /\ wq'[m][t][k].kind = "start"
          /\ wq'[n][t][i].count = wq'[m][t][k].count
          => n = m /\ i = k
  BY <1>1, ShiftedApart
<1>3. ASSUME NEW n \in Node, NEW m \in Node, NEW c \in Nat, Tried(wdb'[m][t], c), Ordered(n, t, c)'
      PROVE  n = m /\ wdb'[m][t].state = "Scheduled"
  <2>1. Tried(wdb[m][t], c) /\ Ordered(n, t, c)
    BY <1>3, CalmOrders DEF Calm
  <2>2. n = m /\ wdb[m][t].state = "Scheduled"
    BY <2>1 DEF Apart
  <2>. QED
    BY <1>3, <2>2 DEF Calm
<1>4. ASSUME NEW n \in Node, NEW m \in Node, NEW c \in Nat, Tried(wdb'[n][t], c), Tried(wdb'[m][t], c)
      PROVE  n = m
  <2>1. Tried(wdb[n][t], c) /\ Tried(wdb[m][t], c)
    BY <1>4 DEF Calm
  <2>. QED
    BY <2>1 DEF Apart
<1>. QED
  BY <1>2, <1>3, <1>4 DEF Apart

LEMMA CalmEases ==
    ASSUME TypeOK, TypeOK', NEW t \in Task, Apart(t), Reported(t), Calm(t), sync'.list \subseteq sync.list
    PROVE  Eased(t)
<1>1. Apart(t)'
  BY CalmApart
<1>2. \A c \in Nat : Dead(t, c) => Dead(t, c)'
  BY CalmOrders DEF Dead
<1>3. Reported(t)'
  BY <1>2 DEF Reported
<1>4. ASSUME NEW c \in Nat PROVE (Below(t, c) => Below(t, c)') /\ (Spent(t, c) => Spent(t, c)')
  <2>1. \A n \in Node, a \in Nat : Ordered(n, t, a)' \/ Tried(wdb'[n][t], a)
                                      => Ordered(n, t, a) \/ Tried(wdb[n][t], a)
    BY CalmOrders DEF Calm
  <2>2. Below(t, c) => Below(t, c)'
    BY <2>1 DEF Below
  <2>3. Spent(t, c) => Spent(t, c)'
    BY <1>2 DEF Spent
  <2>. QED
    BY <2>2, <2>3
<1>. QED
  BY <1>1, <1>3, <1>4 DEF Eased

LEMMA SameCalm == ASSUME TypeOK, NEW t \in Task, \A n \in Node : wdb'[n][t] = wdb[n][t] /\ wq'[n][t] = wq[n][t]
                  PROVE  Calm(t)
<1>1. \A n \in Node : \A i \in DOMAIN wq[n][t] : i + 0 = i
  BY DEF TypeOK, WorkerTypes
<1>2. \A n \in Node : Shifted(wq[n][t], wq'[n][t])
  BY <1>1 DEF Shifted
<1>. QED
  BY <1>2 DEF Calm

LEMMA SameEases ==
    ASSUME TypeOK, TypeOK', NEW t \in Task, Apart(t), Reported(t), UNCHANGED <<wdb, wq>>,
           sync'.list \subseteq sync.list
    PROVE  Eased(t)
  BY SameCalm, CalmEases

\* A worker's records are read: of a failed attempt there is no other trace.
LEMMA FetchEases ==
    ASSUME TypeOK, LifeInv, NEW t \in Task, Apart(t), NEW n \in Node, UNCHANGED <<wdb, wq>>,
           sync'.list = {e \in {[task |-> u, rec |-> wdb[n][u]] : u \in Task} : e.rec # Unknown}
    PROVE  Eased(t)
<1>1. \A e \in sync'.list : e.task = t => e = [task |-> t, rec |-> wdb[n][t]] /\ e.rec = wdb[n][t]
  OBVIOUS
<1>2. Apart(t)'
  BY DEF Apart, Ordered
<1>3. \A c : Dead(t, c)' <=> Dead(t, c)
  BY DEF Dead, Ordered
<1>4. ASSUME NEW e \in sync'.list, NEW c \in Nat, e.task = t, e.rec.state = "Failed", Tried(e.rec, c)
      PROVE  Dead(t, c)
  <2>1. wdb[n][t].state = "Failed" /\ Tried(wdb[n][t], c)
    BY <1>1, <1>4
  <2>2. \A m \in Node : ~Ordered(m, t, c)
    BY <2>1 DEF Apart
  <2>3. \A m \in Node : Tried(wdb[m][t], c) => m = n
    BY <2>1 DEF Apart
  <2>. QED
    BY <2>1, <2>2, <2>3 DEF Dead, Live
<1>5. Reported(t)'
  BY <1>1, <1>3, <1>4 DEF Reported
<1>6. ASSUME NEW c \in Nat PROVE (Below(t, c) => Below(t, c)') /\ (Spent(t, c) => Spent(t, c)')
  <2>1. Below(t, c) => Below(t, c)'
    BY <1>1 DEF Below, Ordered
  <2>2. Dead(t, c) => \A e \in sync'.list : e.task = t => ~Live(e.rec, c)
    BY <1>1 DEF Dead
  <2>. QED
    BY <1>3, <2>1, <2>2 DEF Spent
<1>. QED
  BY <1>2, <1>5, <1>6 DEF Eased

\* An order is taken from a queue.
LEMMA TailShifted ==
    ASSUME NEW q \in Seq(Order), q # <<>>
    PROVE  /\ Shifted(q, Tail(q)) /\ 1 \in DOMAIN q /\ Head(q) = q[1] /\ Head(q) \in Order
           /\ \A i \in DOMAIN Tail(q) : i + 1 \in DOMAIN q /\ i + 1 # 1 /\ Tail(q)[i] = q[i + 1]
<1>1. /\ \A i \in DOMAIN Tail(q) : i + 1 \in DOMAIN q /\ i + 1 # 1 /\ Tail(q)[i] = q[i + 1]
      /\ 1 \in DOMAIN q /\ Head(q) = q[1] /\ q[1] \in Order
  OBVIOUS
<1>. QED
  BY <1>1 DEF Shifted

\* A start is run: the record becomes that of its attempt.
LEMMA RunEases ==
    ASSUME TypeOK, TypeOK', NEW t \in Task, Apart(t), Reported(t), NEW n \in Node, wq[n][t] # <<>>,
           Head(wq[n][t]).kind = "start", sync' = sync,
           wq' = [wq EXCEPT ![n][t] = Tail(@)],
           \A m \in Node : m # n => wdb'[m][t] = wdb[m][t],
           wdb'[n][t].count = Head(wq[n][t]).count
    PROVE  Eased(t)
<1> DEFINE c == Head(wq[n][t]).count
<1>0. wq[n][t] \in Seq(Order)
  BY DEF TypeOK, WorkerTypes
<1>1. /\ wq'[n][t] = Tail(wq[n][t])
      /\ \A m \in Node : m # n => wq'[m][t] = wq[m][t]
  BY DEF TypeOK, WorkerTypes
<1>2. c \in Nat /\ Ordered(n, t, c)
  BY <1>0, TailShifted DEF Ordered, Order
<1>3. ASSUME NEW m \in Node PROVE Shifted(wq[m][t], wq'[m][t])
  <2>1. CASE m = n
    BY <1>0, <1>1, <2>1, TailShifted
  <2>2. CASE m # n
    <3>1. \A i \in DOMAIN wq[m][t] : i + 0 = i
      BY DEF TypeOK, WorkerTypes
    <3>. QED
      BY <1>1, <2>2, <3>1 DEF Shifted
  <2>. QED
    BY <2>1, <2>2
<1>4. ASSUME NEW m \in Node, NEW a, Ordered(m, t, a)' PROVE Ordered(m, t, a) /\ a # c
  <2>1. PICK i \in DOMAIN wq'[m][t] : wq'[m][t][i].kind = "start" /\ wq'[m][t][i].count = a
    BY <1>4 DEF Ordered
  <2>2. CASE m = n
    <3>0. i \in DOMAIN Tail(wq[n][t])
      BY <1>1, <2>1, <2>2
    <3>1. /\ i + 1 \in DOMAIN wq[n][t] /\ i + 1 # 1 /\ wq'[n][t][i] = wq[n][t][i + 1]
          /\ 1 \in DOMAIN wq[n][t] /\ wq[n][t][1].kind = "start" /\ wq[n][t][1].count = c
      BY <1>0, <1>1, <3>0, TailShifted
    <3>2. wq[n][t][i + 1].kind = "start" /\ wq[n][t][i + 1].count = a
      BY <2>1, <2>2, <3>1
    <3>. QED
      BY <2>2, <3>1, <3>2 DEF Apart, Ordered
  <2>3. CASE m # n
    <3>1. i \in DOMAIN wq[m][t] /\ wq[m][t][i].kind = "start" /\ wq[m][t][i].count = a
      BY <1>1, <2>1, <2>3
    <3>2. 1 \in DOMAIN wq[n][t] /\ wq[n][t][1].kind = "start" /\ wq[n][t][1].count = c
      BY <1>0, TailShifted
    <3>. QED
      BY <2>3, <3>1, <3>2 DEF Apart, Ordered
  <2>. QED
    BY <2>2, <2>3
<1>5. ASSUME NEW m \in Node, NEW a \in Nat, Tried(wdb'[m][t], a)
      PROVE  \/ m = n /\ a = c
             \/ m # n /\ a # c /\ Tried(wdb[m][t], a) /\ wdb'[m][t] = wdb[m][t]
  <2>1. m = n => a = c
    BY <1>5 DEF Tried
  <2>2. m # n => Tried(wdb[m][t], a) /\ wdb'[m][t] = wdb[m][t]
    BY <1>5
  <2>3. m # n => a # c
    BY <1>2, <2>2 DEF Apart
  <2>. QED
    BY <2>1, <2>2, <2>3
<1> HIDE DEF c
<1>6. Apart(t)'
  <2>1. \A m, o \in Node : \A i \in DOMAIN wq'[m][t], k \in DOMAIN wq'[o][t] :
            /\ wq'[m][t][i].kind = "start" /\ wq'[o][t][k].kind = "start"
            /\ wq'[m][t][i].count = wq'[o][t][k].count
            => m = o /\ i = k
    BY <1>3, ShiftedApart
  <2>2. ASSUME NEW o \in Node, NEW m \in Node, NEW a \in Nat, Tried(wdb'[m][t], a), Ordered(o, t, a)'
        PROVE  o = m /\ wdb'[m][t].state = "Scheduled"
    <3>1. Ordered(o, t, a) /\ Tried(wdb[m][t], a) /\ wdb'[m][t] = wdb[m][t]
      BY <1>4, <1>5, <2>2
    <3>. QED
      BY <3>1 DEF Apart
  <2>3. ASSUME NEW o \in Node, NEW m \in Node, NEW a \in Nat, Tried(wdb'[o][t], a), Tried(wdb'[m][t], a)
        PROVE  o = m
    <3>1. \/ o = n /\ m = n
          \/ Tried(wdb[o][t], a) /\ Tried(wdb[m][t], a)
      BY <1>5, <2>3
    <3>. QED
      BY <3>1 DEF Apart
  <2>. QED
    BY <2>1, <2>2, <2>3 DEF Apart
<1>7. ASSUME NEW a \in Nat, Dead(t, a) PROVE Dead(t, a)'
  <2>1. a # c
    BY <1>2, <1>7 DEF Dead
  <2>. QED
    BY <1>4, <1>5, <1>7, <2>1 DEF Dead, Live
<1>8. Reported(t)'
  BY <1>7 DEF Reported
<1>9. ASSUME NEW k \in Nat PROVE (Below(t, k) => Below(t, k)') /\ (Spent(t, k) => Spent(t, k)')
  <2>1. Below(t, k) => Below(t, k)'
    BY <1>2, <1>4, <1>5 DEF Below
  <2>2. Spent(t, k) => Spent(t, k)'
    BY <1>7 DEF Spent
  <2>. QED
    BY <2>1, <2>2
<1>. QED
  BY <1>6, <1>8, <1>9 DEF Eased

\* A start is accepted: the first order and record of its attempt.
LEMMA AcceptTries ==
    ASSUME TypeOK, TypeOK', NEW t \in Task, Apart(t), Reported(t), NEW n \in Node, NEW c \in Nat,
           Below(t, c), Accepts(n, t, Start(c)), sync' = sync
    PROVE  /\ Apart(t)' /\ Reported(t)'
           /\ \A a \in Nat : /\ a # c /\ Spent(t, a) => Spent(t, a)'
                             /\ c < a /\ Below(t, a) => Below(t, a)'
           /\ Below(t, c + 1)'
<1> DEFINE o == Start(c)
           new == Len(wq[n][t]) + 1
<1>0. o.kind = "start" /\ o.count = c /\ wq[n][t] \in Seq(Order) /\ wdb[n][t] \in WorkerRecord
  BY DEF Start, TypeOK, WorkerTypes
<1>1. /\ wq'[n][t] = Append(wq[n][t], o) /\ wdb'[n][t] = Stored(wdb[n][t], o)
      /\ \A m \in Node : m # n => wq'[m][t] = wq[m][t] /\ wdb'[m][t] = wdb[m][t]
  BY <1>0 DEF Accepts, TypeOK, WorkerTypes
<1>2. wdb'[n][t].count = c /\ wdb'[n][t].state = "Scheduled"
  BY <1>0, <1>1 DEF Stored, WorkerRecord
<1>3. /\ new \in DOMAIN wq'[n][t] /\ wq'[n][t][new] = o
      /\ \A i \in DOMAIN wq'[n][t] : i = new \/ (i \in DOMAIN wq[n][t] /\ wq'[n][t][i] = wq[n][t][i])
  BY <1>0, <1>1
<1> HIDE DEF o, new
<1>4. ASSUME NEW m \in Node, NEW i \in DOMAIN wq'[m][t], wq'[m][t][i].kind = "start"
      PROVE  \/ m = n /\ i = new /\ wq'[m][t][i].count = c
             \/ /\ i \in DOMAIN wq[m][t] /\ wq'[m][t][i] = wq[m][t][i]
                /\ wq'[m][t][i].count < c /\ wq'[m][t][i].count \in Nat
  <2>1. CASE m = n /\ i = new
    BY <1>0, <1>3, <2>1
  <2>2. CASE i \in DOMAIN wq[m][t] /\ wq'[m][t][i] = wq[m][t][i]
    <3>1. wq[m][t][i] \in Order
      BY <2>2 DEF TypeOK, WorkerTypes
    <3>2. wq[m][t][i].count \in Nat
      BY <3>1 DEF Order
    <3>3. Ordered(m, t, wq[m][t][i].count)
      BY <1>4, <2>2 DEF Ordered
    <3>. QED
      BY <2>2, <3>2, <3>3 DEF Below
  <2>. QED
    BY <1>1, <1>3, <2>1, <2>2
<1>5. ASSUME NEW m \in Node, NEW a, Ordered(m, t, a)'
      PROVE  (m = n /\ a = c) \/ (Ordered(m, t, a) /\ a < c /\ a \in Nat)
  BY <1>4, <1>5 DEF Ordered
<1>6. ASSUME NEW m \in Node, NEW a \in Nat, Tried(wdb'[m][t], a)
      PROVE  \/ m = n /\ a = c
             \/ m # n /\ a < c /\ Tried(wdb[m][t], a) /\ wdb'[m][t] = wdb[m][t]
  BY <1>1, <1>2, <1>6 DEF Tried, Below
<1>7. Apart(t)'
  <2>1. ASSUME NEW m \in Node, NEW p \in Node, NEW i \in DOMAIN wq'[m][t], NEW k \in DOMAIN wq'[p][t],
               wq'[m][t][i].kind = "start", wq'[p][t][k].kind = "start",
               wq'[m][t][i].count = wq'[p][t][k].count
        PROVE  m = p /\ i = k
    <3>1. \/ m = n /\ i = new /\ p = n /\ k = new
          \/ /\ i \in DOMAIN wq[m][t] /\ wq'[m][t][i] = wq[m][t][i]
             /\ k \in DOMAIN wq[p][t] /\ wq'[p][t][k] = wq[p][t][k]
      BY <1>4, <2>1
    <3>. QED
      BY <2>1, <3>1 DEF Apart
  <2>2. ASSUME NEW p \in Node, NEW m \in Node, NEW a \in Nat, Tried(wdb'[m][t], a), Ordered(p, t, a)'
        PROVE  p = m /\ wdb'[m][t].state = "Scheduled"
    <3>1. \/ m = n /\ p = n
          \/ Ordered(p, t, a) /\ Tried(wdb[m][t], a) /\ wdb'[m][t] = wdb[m][t]
      BY <1>5, <1>6, <2>2
    <3>. QED
      BY <1>2, <3>1 DEF Apart
  <2>3. ASSUME NEW p \in Node, NEW m \in Node, NEW a \in Nat, Tried(wdb'[p][t], a), Tried(wdb'[m][t], a)
        PROVE  p = m
    <3>1. (p = n /\ m = n) \/ (Tried(wdb[p][t], a) /\ Tried(wdb[m][t], a))
      BY <1>6, <2>3
    <3>. QED
      BY <3>1 DEF Apart
  <2>. QED
    BY <2>1, <2>2, <2>3 DEF Apart
<1>8. ASSUME NEW a \in Nat, a # c, Dead(t, a) PROVE Dead(t, a)'
  BY <1>5, <1>6, <1>8 DEF Dead, Live
<1>9. Reported(t)'
  <2>1. ASSUME NEW e \in sync.list, NEW a \in Nat, e.task = t, e.rec.state = "Failed", Tried(e.rec, a)
        PROVE  Dead(t, a)'
    BY <1>8, <2>1 DEF Reported, Below
  <2>. QED
    BY <2>1 DEF Reported
<1>10. ASSUME NEW a \in Nat
       PROVE  /\ a # c /\ Spent(t, a) => Spent(t, a)'
              /\ c < a /\ Below(t, a) => Below(t, a)'
  <2>1. a # c /\ Spent(t, a) => Spent(t, a)'
    BY <1>8 DEF Spent
  <2>2. c < a /\ Below(t, a) => Below(t, a)'
    BY <1>5, <1>6 DEF Below
  <2>. QED
    BY <2>1, <2>2
<1>11. Below(t, c + 1)'
  <2>1. ASSUME NEW e \in sync.list, NEW a \in Nat, e.task = t, Tried(e.rec, a) PROVE a < c + 1
    BY <2>1 DEF Below
  <2>2. ASSUME NEW m \in Node, NEW a \in Nat, Ordered(m, t, a)' \/ Tried(wdb'[m][t], a) PROVE a < c + 1
    BY <1>5, <1>6, <2>2
  <2>. QED
    BY <2>1, <2>2 DEF Below
<1>. QED
  BY <1>7, <1>9, <1>10, <1>11

-----------------------------------------------------------------------------
(* Attempts in the manager's records *)

\* What holds before and after every step.
Grounds(t) == /\ TypeOK /\ TypeOK' /\ LifeInv /\ StartInv /\ CheckersOwn /\ FirstStarts
              /\ Orderly /\ t \in Task /\ Ordinary(t)

\* The loop's job j and its list agree with a record r of t.
Agrees(t, r, j, list) ==
    /\ r.state = "Failed" /\ ~r.fin => Spent(t, r.count)
    /\ r.state # "Absent" /\ ~r.manual /\ ~(Busy(j, t) /\ j.pc = "recommit") => Below(t, r.count + 1)
    /\ \A e \in list : e.task = t /\ Verdict(t, e.rec) # "skip" =>
           Spent(t, e.rec.count) /\ Below(t, e.rec.count + 1) /\ r.count <= e.rec.count
    /\ Busy(j, t) /\ j.pc \in Readied =>
           Spent(t, j.snap.count) /\ Below(t, j.snap.count + 1) /\ r.count <= j.snap.count
    /\ Busy(j, t) /\ j.pc = "recommit" =>
           Spent(t, j.snap.count) /\ Below(t, j.snap.count + 2) /\ r.count <= j.snap.count

LEMMA AgreesNow ==
    ASSUME NEW t \in Task
    PROVE  Recorded(t) /\ Retried(t) <=>
               /\ Agrees(t, rec[t], job[Loop], todo)
               /\ Accepted(job[Dispatcher], t) => Below(t, 1)
<1>1. Ready(t, job[Loop].snap.count) <=>
          /\ Spent(t, job[Loop].snap.count) /\ Below(t, job[Loop].snap.count + 1)
          /\ rec[t].count <= job[Loop].snap.count
  BY DEF Ready
<1>2. \A e \in todo : Ready(t, e.rec.count) <=> /\ Spent(t, e.rec.count) /\ Below(t, e.rec.count + 1)
                                                /\ rec[t].count <= e.rec.count
  BY DEF Ready
<1>. QED
  BY <1>1, <1>2 DEF Recorded, Retried, Agrees, At1, Known

LEMMA Counts ==
    ASSUME TypeOK, NEW t \in Task
    PROVE  /\ rec[t].count \in Nat /\ rec[t].count + 1 \in Nat
           /\ \A p \in Proc : /\ job[p].snap.count \in Nat /\ job[p].snap.count + 1 \in Nat
                              /\ job[p].snap.count + 2 \in Nat
           /\ \A e \in todo : e.rec.count \in Nat /\ e.rec.count + 1 \in Nat
<1>1. rec[t] \in Record /\ \A e \in todo : e.rec \in Record
  BY DEF TypeOK
<1>. QED
  BY <1>1, BusyJob DEF Record

\* A step after which the manager's own records and jobs are in order.
LEMMA AttemptsKept ==
    ASSUME TypeOK, TypeOK', NEW t \in Task, Eased(t), LoopOnce(t)',
           Agrees(t, rec'[t], job'[Loop], todo'),
           Accepted(job'[Dispatcher], t) => Below(t, 1)
    PROVE  AttemptInv(t)'
<1>1. \A c \in Nat : (Below(t, c) => Below(t, c)') /\ (Spent(t, c) => Spent(t, c)')
  BY DEF Eased
<1>2. /\ rec'[t].count \in Nat /\ rec'[t].count + 1 \in Nat
      /\ job'[Loop].snap.count \in Nat /\ job'[Loop].snap.count + 1 \in Nat
      /\ job'[Loop].snap.count + 2 \in Nat
      /\ \A e \in todo' : e.rec.count \in Nat /\ e.rec.count + 1 \in Nat
  <2>1. rec'[t] \in Record /\ job'[Loop].snap \in Record /\ \A e \in todo' : e.rec \in Record
    BY Types DEF TypeOK, JobTypes, Job
  <2>. QED
    BY <2>1 DEF Record
<1>3. Recorded(t)'
  BY <1>1, <1>2 DEF Agrees, Recorded, At1, Known
<1>4. /\ \A e \in todo' : e.task = t /\ Verdict(t, e.rec) # "skip" => Ready(t, e.rec.count)'
      /\ Busy(job'[Loop], t) /\ job'[Loop].pc \in Readied => Ready(t, job[Loop].snap.count)'
      /\ At1(t, "recommit")' => /\ Spent(t, job[Loop].snap.count)' /\ Below(t, job[Loop].snap.count + 2)'
                                /\ rec'[t].count <= job'[Loop].snap.count
  BY <1>1, <1>2 DEF Agrees, Ready, At1
<1>. QED
  BY <1>3, <1>4 DEF AttemptInv, Eased, Retried

\* The loop's job and list are as they were, or its job is past its attempt.
LEMMA LoopAttempts ==
    ASSUME NEW t, Grounds(t), AttemptInv(t), Eased(t), todo' \subseteq todo,
           \/ job'[Loop] = job[Loop] \/ job'[Loop].pc = "idle" \/ job'[Loop].task # t
           \/ /\ job[Loop].pc # "idle" /\ job'[Loop].task = job[Loop].task
              /\ job'[Loop].snap = job[Loop].snap /\ job'[Loop].pc # "recommit"
              /\ job'[Loop].pc \in Readied => job[Loop].pc \in Readied \/ job[Loop].task # t,
           rec'[t].state = "Failed" /\ ~rec'[t].fin => Spent(t, rec'[t].count),
           rec'[t].state # "Absent" /\ ~rec'[t].manual /\ ~At1(t, "recommit")'
               => Below(t, rec'[t].count + 1),
           \/ rec'[t].count <= rec[t].count
           \/ /\ \A e \in todo : e.task # t
              /\ ~(Busy(job'[Loop], t) /\ job'[Loop].pc \in Readied \union {"recommit"}),
           Accepted(job'[Dispatcher], t) => Accepted(job[Dispatcher], t)
    PROVE  AttemptInv(t)'
<1>0. /\ TypeOK /\ TypeOK' /\ t \in Task
      /\ LoopOnce(t) /\ Recorded(t) /\ Retried(t)
  BY DEF Grounds, AttemptInv
<1>1. LoopOnce(t)'
  BY <1>0 DEF LoopOnce, Busy
<1>2. Agrees(t, rec[t], job[Loop], todo) /\ (Accepted(job[Dispatcher], t) => Below(t, 1))
  BY <1>0, AgreesNow
<1>3. /\ rec'[t].count \in Nat /\ rec[t].count \in Nat /\ job[Loop].snap.count \in Nat
      /\ \A e \in todo : e.rec.count \in Nat
  <2>1. rec'[t] \in Record /\ rec[t] \in Record /\ \A e \in todo : e.rec \in Record
    BY <1>0 DEF TypeOK
  <2>. QED
    BY <1>0, <2>1, BusyJob, Types DEF Record
<1>4. ASSUME NEW e \in todo', e.task = t, Verdict(t, e.rec) # "skip"
      PROVE  Spent(t, e.rec.count) /\ Below(t, e.rec.count + 1) /\ rec'[t].count <= e.rec.count
  BY <1>2, <1>3, <1>4 DEF Agrees
<1>5. ASSUME Busy(job'[Loop], t), job'[Loop].pc \in Readied
      PROVE  /\ Spent(t, job'[Loop].snap.count) /\ Below(t, job'[Loop].snap.count + 1)
             /\ rec'[t].count <= job'[Loop].snap.count
  <2>1. Busy(job[Loop], t) /\ job[Loop].pc \in Readied /\ job'[Loop].snap = job[Loop].snap
    BY <1>5 DEF Busy
  <2>2. rec'[t].count <= rec[t].count
    BY <1>5
  <2>. QED
    BY <1>2, <1>3, <2>1, <2>2 DEF Agrees
<1>6. ASSUME Busy(job'[Loop], t), job'[Loop].pc = "recommit"
      PROVE  /\ Spent(t, job'[Loop].snap.count) /\ Below(t, job'[Loop].snap.count + 2)
             /\ rec'[t].count <= job'[Loop].snap.count
  <2>1. Busy(job[Loop], t) /\ job[Loop].pc = "recommit" /\ job'[Loop].snap = job[Loop].snap
    BY <1>6 DEF Busy
  <2>2. rec'[t].count <= rec[t].count
    BY <1>6
  <2>. QED
    BY <1>2, <1>3, <2>1, <2>2 DEF Agrees
<1>7. Agrees(t, rec'[t], job'[Loop], todo')
  BY <1>4, <1>5, <1>6 DEF Agrees, At1
<1>. QED
  BY <1>0, <1>1, <1>2, <1>7, AttemptsKept

\* The record does not change.
LEMMA QuietAttempts ==
    ASSUME NEW t, Grounds(t), AttemptInv(t), Eased(t), todo' \subseteq todo, rec'[t] = rec[t],
           \/ job'[Loop] = job[Loop]
           \/ /\ \/ job'[Loop].pc = "idle" \/ job'[Loop].task # t
                 \/ /\ job[Loop].pc # "idle" /\ job'[Loop].task = job[Loop].task
                    /\ job'[Loop].snap = job[Loop].snap /\ job'[Loop].pc # "recommit"
                    /\ job'[Loop].pc \in Readied => job[Loop].pc \in Readied \/ job[Loop].task # t
              /\ At1(t, "recommit") => ~Wanted(t),
           Accepted(job'[Dispatcher], t) => Accepted(job[Dispatcher], t)
    PROVE  AttemptInv(t)'
<1>0. TypeOK /\ t \in Task /\ Recorded(t)
  BY DEF Grounds, AttemptInv
<1>1. rec'[t].count <= rec[t].count
  BY <1>0, Counts
<1>2. rec'[t].state = "Failed" /\ ~rec'[t].fin => Spent(t, rec'[t].count)
  BY <1>0 DEF Recorded
<1>3. rec'[t].state # "Absent" /\ ~rec'[t].manual /\ ~At1(t, "recommit")' => Below(t, rec'[t].count + 1)
  BY <1>0 DEF Recorded, Known, At1, Wanted
<1>. QED
  BY <1>1, <1>2, <1>3, LoopAttempts

\* A goroutine's step that leaves the record of t alone.
LEMMA TurnAttempts ==
    ASSUME NEW t, Grounds(t), AttemptInv(t), Eased(t), NEW p \in Proc, NEW j, Become(p, j),
           todo' \subseteq todo, rec'[t] = rec[t],
           p = Loop => \/ j.pc = "idle" \/ j.task # t
                       \/ /\ job[p].pc # "idle" /\ j.task = job[p].task /\ j.snap = job[p].snap
                          /\ j.pc # "recommit"
                          /\ j.pc \in Readied => job[p].pc \in Readied \/ job[p].task # t,
           p = Loop /\ job[p].pc = "recommit" /\ job[p].task = t => ~Wanted(t),
           p = Dispatcher => j.pc # "commit"
    PROVE  AttemptInv(t)'
<1>1. TypeOK
  BY DEF Grounds
<1>2. job'[p] = j /\ \A q \in Proc : q # p => job'[q] = job[q]
  BY <1>1 DEF Become, TypeOK, JobTypes
<1>3. Accepted(job'[Dispatcher], t) => Accepted(job[Dispatcher], t)
  BY <1>2, Types DEF Accepted
<1>4. CASE p # Loop
  BY <1>2, <1>3, <1>4, Types, QuietAttempts
<1>5. CASE p = Loop
  <2>1. At1(t, "recommit") => ~Wanted(t)
    BY <1>5 DEF At1, Busy
  <2>. QED
    BY <1>2, <1>3, <1>5, <2>1, QuietAttempts
<1>. QED
  BY <1>4, <1>5

\* Nobody has attempted a task that is not started.
LEMMA UntouchedBelow ==
    ASSUME TypeOK, NEW t \in Task, Untouched(t)
    PROVE  \A c \in Nat : Below(t, c) /\ Spent(t, c)
<1>1. \A n \in Node : wdb[n][t] = Unknown /\ DOMAIN wq[n][t] = {}
  BY DEF Untouched
<1>2. \A n \in Node, c \in Nat : ~Ordered(n, t, c) /\ ~Tried(wdb[n][t], c)
  BY <1>1 DEF Ordered, Tried, Unknown
<1>3. \A e \in sync.list : e.task # t
  BY DEF Untouched
<1>. QED
  BY <1>2, <1>3 DEF Below, Spent, Dead, Live

\* An attempt that has not been made is over.
LEMMA BelowSpent ==
    ASSUME NEW t, NEW c \in Nat, Below(t, c)
    PROVE  Spent(t, c) /\ Below(t, c + 1)
<1>1. ~(c < c)
  OBVIOUS
<1>2. \A a \in Nat : a < c => a < c + 1
  OBVIOUS
<1>. QED
  BY <1>1, <1>2 DEF Below, Spent, Dead, Live

\* Of the restarters only the loop is concerned.
LEMMA OnlyLoop ==
    ASSUME NEW t, Grounds(t), NEW p \in Proc, job[p].pc # "idle", job[p].task = t
    PROVE  p = Loop \/ p = Dispatcher \/ (p \in Stopper /\ StopperRole(job[p]))
<1>1. p \notin Checked
  BY DEF Grounds, CheckersOwn, Ordinary
<1>. QED
  BY <1>1 DEF Proc, Grounds, StartInv, Roles

\* What the dispatcher has in hand is not started.
LEMMA HandUntouched ==
    ASSUME NEW t, Grounds(t), InHand(job[Dispatcher], t)
    PROVE  Untouched(t)
  BY DEF Grounds, StartInv, Unsent

-----------------------------------------------------------------------------
(* Requests to the workers *)

LEMMA StopCalm ==
    ASSUME TypeOK, NEW n, NEW u, NEW o, o.kind = "stop", Accepts(n, u, o) \/ UNCHANGED workers,
           NEW t \in Task
    PROVE  Calm(t)
<1>1. CASE UNCHANGED workers
  BY <1>1, SameCalm DEF workers
<1>2. CASE Accepts(n, u, o)
  <2>1. wdb' = wdb /\ wq' = [wq EXCEPT ![n][u] = Append(@, o)]
    BY <1>2 DEF Accepts
  <2>2. ASSUME NEW m \in Node PROVE Shifted(wq[m][t], wq'[m][t])
    <3>0. wq[m][t] \in Seq(Order)
      BY DEF TypeOK, WorkerTypes
    <3>1. wq'[m][t] = wq[m][t] \/ wq'[m][t] = Append(wq[m][t], o)
      BY <2>1 DEF TypeOK, WorkerTypes
    <3>2. \A i \in DOMAIN wq'[m][t] : wq'[m][t][i].kind = "start" =>
              i + 0 \in DOMAIN wq[m][t] /\ wq'[m][t][i] = wq[m][t][i + 0]
      <4>1. CASE wq'[m][t] = wq[m][t]
        BY <3>0, <4>1
      <4>2. CASE wq'[m][t] = Append(wq[m][t], o)
        BY <3>0, <4>2
      <4>. QED
        BY <3>1, <4>1, <4>2
    <3>. QED
      BY <3>2 DEF Shifted
  <2>. QED
    BY <2>1, <2>2 DEF Calm
<1>. QED
  BY <1>1, <1>2

LEMMA StopEases ==
    ASSUME NEW t, Grounds(t), AttemptInv(t), NEW n, NEW u, NEW o, o.kind = "stop",
           BestEffortStop(n, u, o) \/ Accepts(n, u, o) \/ UNCHANGED workers, sync' = sync
    PROVE  Eased(t)
<1>1. Accepts(n, u, o) \/ UNCHANGED workers
  BY DEF BestEffortStop
<1>2. /\ TypeOK /\ TypeOK' /\ t \in Task /\ Apart(t) /\ Reported(t)
      /\ sync'.list \subseteq sync.list
  BY DEF Grounds, AttemptInv
<1>3. Calm(t)
  BY <1>1, <1>2, StopCalm
<1>. QED
  BY <1>2, <1>3, CalmEases

LEMMA OtherEases ==
    ASSUME NEW t, Grounds(t), AttemptInv(t), sync'.list \subseteq sync.list,
           UNCHANGED <<wdb, wq>> \/ \E n, u, o : Accepts(n, u, o) /\ u # t
    PROVE  Eased(t)
<1>2. TypeOK /\ TypeOK' /\ t \in Task /\ Apart(t) /\ Reported(t)
  BY DEF Grounds, AttemptInv
<1>3. \A n \in Node : wdb'[n][t] = wdb[n][t] /\ wq'[n][t] = wq[n][t]
  BY <1>2, AcceptOthers
<1>4. Calm(t)
  BY <1>2, <1>3, SameCalm
<1>. QED
  BY <1>2, <1>4, CalmEases

-----------------------------------------------------------------------------
(* Each action and the attempts *)

LEMMA GroundsAre ==
    ASSUME NEW t, Grounds(t), AttemptInv(t)
    PROVE  /\ TypeOK /\ TypeOK' /\ LifeInv /\ JobsKnown /\ StartInv /\ Orderly /\ t \in Task /\ FirstStarts
           /\ LoopOnce(t) /\ Recorded(t) /\ Retried(t)
  BY DEF Grounds, AttemptInv, LifeInv

LEMMA ClientAttempts ==
    ASSUME NEW t, Grounds(t), AttemptInv(t), NEW u \in Task, Submit(u) \/ Queue(u)
    PROVE  AttemptInv(t)'
<1>0. UNCHANGED <<wdb, wq, sync, job, todo>> /\ sync'.list \subseteq sync.list /\ todo' \subseteq todo
  BY DEF Submit, Queue, workers
<1>1. Eased(t)
  BY <1>0, OtherEases
<1>2. CASE rec'[t] = rec[t]
  BY <1>0, <1>1, <1>2, QuietAttempts
<1>3. CASE Submit(u) /\ u = t
  <2>1. Untouched(t)
    BY <1>3, GroundsAre DEF Submit, StartInv, Unsent
  <2>2. rec'[t] = Fresh
    BY <1>3, GroundsAre DEF Submit, TypeOK
  <2>3. rec'[t].state = "Pending" /\ rec'[t].count = 0
    BY <2>2 DEF Fresh
  <2>4. 0 + 1 \in Nat /\ \A c \in Nat : Below(t, c)
    BY <2>1, GroundsAre, UntouchedBelow
  <2>5. rec'[t].count <= rec[t].count
    BY <2>3, GroundsAre, Counts
  <2>6. Below(t, rec'[t].count + 1)
    BY <2>3, <2>4
  <2>. QED
    BY <1>0, <1>1, <2>3, <2>5, <2>6, LoopAttempts
<1>4. Queue(u) \/ u # t => rec'[t] = rec[t]
  BY GroundsAre DEF Submit, Queue, stores, TypeOK
<1>. QED
  BY <1>2, <1>3, <1>4

LEMMA StopperAttempts ==
    ASSUME NEW t, Grounds(t), AttemptInv(t), NEW s \in Stopper,
           Stopping(s) \/ \E u \in Task : StopRead(s, u)
    PROVE  AttemptInv(t)'
<1>0. /\ UNCHANGED <<wdb, wq, sync, todo>> /\ sync'.list \subseteq sync.list /\ todo' \subseteq todo
      /\ s \in Proc /\ s # Loop /\ s # Dispatcher
  BY Types, ManagerAssumption DEF Stopping, StopRead, StopDecide, StopMark, StopQueue, workers
<1>1. Eased(t)
  BY <1>0, OtherEases
<1>2. \E j : Become(s, j)
  BY DEF Stopping, StopRead, StopDecide, StopMark, StopQueue, Goto, Finish
<1>3. CASE rec'[t] = rec[t]
  BY <1>0, <1>1, <1>2, <1>3, TurnAttempts
<1>4. CASE StopMark(s) /\ rec' = [rec EXCEPT ![t].manual = TRUE]
  <2>1. rec'[t].manual /\ rec'[t].state = rec[t].state /\ rec'[t].fin = rec[t].fin
        /\ rec'[t].count = rec[t].count
    BY <1>4, GroundsAre DEF TypeOK, Record
  <2>2. job'[Loop] = job[Loop] /\ job'[Dispatcher] = job[Dispatcher]
    BY <1>0, <1>2, GroundsAre, Types DEF Become, TypeOK, JobTypes
  <2>3. rec'[t].count <= rec[t].count
    BY <2>1, GroundsAre, Counts
  <2>4. rec'[t].state = "Failed" /\ ~rec'[t].fin => Spent(t, rec'[t].count)
    BY <2>1, GroundsAre DEF Recorded
  <2>. QED
    BY <1>0, <1>1, <2>1, <2>2, <2>3, <2>4, LoopAttempts
<1>5. rec'[t] = rec[t] \/ (StopMark(s) /\ rec' = [rec EXCEPT ![t].manual = TRUE])
  BY GroundsAre DEF Stopping, StopRead, StopDecide, StopMark, StopQueue, stores, TypeOK
<1>. QED
  BY <1>3, <1>4, <1>5

LEMMA DeletingAttempts ==
    ASSUME NEW t, Grounds(t), AttemptInv(t), NEW p \in Proc, Deleting(p)
    PROVE  AttemptInv(t)'
<1> DEFINE u == job[p].task
<1>0. /\ sync' = sync /\ todo' = todo /\ sync'.list \subseteq sync.list /\ todo' \subseteq todo
      /\ job[p].pc \in {"delete", "drop", "clean"} /\ job[p].pc # "idle" /\ u \in Task
  BY GroundsAre, BusyJob DEF Deleting, Delete, Drop, Clean, At
<1>1. Eased(t)
  <2>1. Stop(job[p].snap.count, job[p].snap.why).kind = "stop"
    BY DEF Stop
  <2>2. \/ UNCHANGED <<wdb, wq>>
        \/ BestEffortStop(job[p].old, u, Stop(job[p].snap.count, job[p].snap.why))
    BY DEF Deleting, Delete, Drop, Clean, workers
  <2>. QED
    BY <1>0, <2>1, <2>2, OtherEases, StopEases
<1>2. \E j : /\ Become(p, j)
             /\ \/ j.pc = "idle"
                \/ j.pc \in {"drop", "clean"} /\ j.task = u /\ j.snap = job[p].snap
  <2>0. job[p] \in Job
    BY GroundsAre, BusyJob
  <2>1. [job[p] EXCEPT !.pc = "drop", !.old = asg[u]].pc = "drop"
        /\ [job[p] EXCEPT !.pc = "drop", !.old = asg[u]].task = u
        /\ [job[p] EXCEPT !.pc = "drop", !.old = asg[u]].snap = job[p].snap
    BY <2>0 DEF Job
  <2>2. [job[p] EXCEPT !.pc = "clean"].pc = "clean" /\ [job[p] EXCEPT !.pc = "clean"].task = u
        /\ [job[p] EXCEPT !.pc = "clean"].snap = job[p].snap
    BY <2>0 DEF Job
  <2>3. Delete(p) => Become(p, [job[p] EXCEPT !.pc = "drop", !.old = asg[u]])
    BY GroundsAre DEF Delete, Orderly, Strikes
  <2>4. Drop(p) \/ Clean(p) => Become(p, [job[p] EXCEPT !.pc = "clean"]) \/ Become(p, Idle)
    BY DEF Drop, Clean, Goto, Finish
  <2>. QED
    BY <2>1, <2>2, <2>3, <2>4, IdleIs DEF Deleting
<1>3. PICK j : /\ Become(p, j)
               /\ \/ j.pc = "idle"
                  \/ j.pc \in {"drop", "clean"} /\ j.task = u /\ j.snap = job[p].snap
  BY <1>2
<1>4. j.pc \notin Readied /\ j.pc # "recommit" /\ j.pc # "commit" /\ job[p].pc # "recommit"
  BY <1>0, <1>3 DEF Readied
<1>5. CASE rec'[t] = rec[t]
  BY <1>0, <1>1, <1>3, <1>4, <1>5, TurnAttempts
<1>6. CASE rec'[t] = NoRecord
  <2>1. rec'[t].state = "Absent" /\ rec'[t].count = 0
    BY <1>6 DEF NoRecord, Fresh
  <2>2. rec'[t].count <= rec[t].count
    BY <2>1, GroundsAre, Counts
  <2>3. job'[p] = j /\ \A q \in Proc : q # p => job'[q] = job[q]
    BY <1>3, GroundsAre DEF Become, TypeOK, JobTypes
  <2>4. Accepted(job'[Dispatcher], t) => Accepted(job[Dispatcher], t)
    BY <1>4, <2>3, Types DEF Accepted
  <2>5. \/ job'[Loop] = job[Loop] \/ job'[Loop].pc = "idle"
        \/ /\ job[Loop].pc # "idle" /\ job'[Loop].task = job[Loop].task
           /\ job'[Loop].snap = job[Loop].snap /\ job'[Loop].pc # "recommit"
           /\ job'[Loop].pc \in Readied => job[Loop].pc \in Readied \/ job[Loop].task # t
    BY <1>0, <1>3, <1>4, <2>3, Types
  <2>. QED
    BY <1>0, <1>1, <2>1, <2>2, <2>4, <2>5, LoopAttempts
<1>7. rec'[t] = rec[t] \/ rec'[t] = NoRecord
  BY GroundsAre DEF Deleting, Delete, Drop, Clean, stores, TypeOK
<1>. QED
  BY <1>5, <1>6, <1>7

\* The loop gives an attempt up, or the dispatcher a task that was not sent.
LEMMA FailAttempts ==
    ASSUME NEW t, Grounds(t), AttemptInv(t), NEW p \in Proc, MarkFailed(p) \/ End(p)
    PROVE  AttemptInv(t)'
<1> DEFINE u == job[p].task
           c == job[p].snap.count
<1>0. /\ sync' = sync /\ todo' = todo /\ UNCHANGED <<wdb, wq>>
      /\ sync'.list \subseteq sync.list /\ todo' \subseteq todo
      /\ job[p].pc \in {"fail", "burn", "end"} /\ job[p].pc # "idle" /\ u \in Task /\ c \in Nat
  BY GroundsAre, BusyJob DEF MarkFailed, End, At, workers
<1>1. Eased(t)
  BY <1>0, OtherEases
<1>2. PICK j : /\ Become(p, j)
               /\ j.pc = "idle" \/ (j.pc = "kill" /\ j.task = u /\ j.snap = job[p].snap)
  <2>1. [job[p] EXCEPT !.pc = "kill", !.old = asg[u]].pc = "kill"
        /\ [job[p] EXCEPT !.pc = "kill", !.old = asg[u]].task = u
        /\ [job[p] EXCEPT !.pc = "kill", !.old = asg[u]].snap = job[p].snap
    BY GroundsAre, BusyJob DEF Job
  <2>. QED
    BY <2>1, IdleIs DEF MarkFailed, End, Finish
<1>3. j.pc \notin Readied /\ j.pc # "recommit" /\ j.pc # "commit" /\ job[p].pc # "recommit"
  BY <1>0, <1>2 DEF Readied
<1>4. CASE rec'[t] = rec[t]
  BY <1>0, <1>1, <1>2, <1>3, <1>4, TurnAttempts
<1>5. CASE rec'[t] # rec[t]
  <2>0. t = u
    BY <1>5, GroundsAre DEF MarkFailed, End, TypeOK
  <2>1. /\ job'[p] = j /\ \A q \in Proc : q # p => job'[q] = job[q]
    BY <1>2, GroundsAre DEF Become, TypeOK, JobTypes
  <2>2. Accepted(job'[Dispatcher], t) => Accepted(job[Dispatcher], t)
    BY <1>3, <2>1, Types DEF Accepted
  <2>3. \/ job'[Loop] = job[Loop] \/ job'[Loop].pc = "idle"
        \/ /\ job[Loop].pc # "idle" /\ job'[Loop].task = job[Loop].task
           /\ job'[Loop].snap = job[Loop].snap /\ job'[Loop].pc # "recommit"
           /\ job'[Loop].pc \in Readied => job[Loop].pc \in Readied \/ job[Loop].task # t
    BY <1>0, <1>2, <1>3, <2>1, Types
  <2>4. /\ \A e \in todo : e.task # t
        /\ ~(Busy(job'[Loop], t) /\ job'[Loop].pc \in Readied \union {"recommit"})
        /\ \/ Untouched(t)
           \/ Spent(t, c) /\ Below(t, c + 1)
    <3>1. CASE p = Loop
      <4>1. Busy(job[Loop], t) /\ job[Loop].pc \in Readied
        BY <1>0, <2>0, <3>1 DEF Busy, Readied
      <4>2. Ready(t, c) /\ \A e \in todo : e.task # t
        BY <3>1, <4>1, GroundsAre DEF Retried, LoopOnce
      <4>. QED
        BY <1>3, <2>1, <3>1, <4>2 DEF Ready
    <3>2. CASE p = Dispatcher
      <4>1. InHand(job[Dispatcher], t)
        BY <1>0, <2>0, <3>2, GroundsAre
           DEF InHand, Unplaced, Starts, Busy, StartInv, Roles, DispatcherRole
      <4>2. Untouched(t) /\ job'[Loop] = job[Loop]
        BY <2>1, <3>2, <4>1, HandUntouched, Types, ManagerAssumption
      <4>3. ~Busy(job[Loop], t)
        BY <4>2 DEF Untouched, Alone, Restarter
      <4>. QED
        BY <4>2, <4>3 DEF Untouched
    <3>3. ~StopperRole(job[p])
      BY <1>0 DEF StopperRole
    <3>. QED
      BY <1>0, <2>0, <3>1, <3>2, <3>3, OnlyLoop
  <2>5. rec[t] \in Record
    BY GroundsAre DEF TypeOK
  <2>6. \/ /\ rec'[t].state = "Failed" /\ ~rec'[t].fin /\ rec'[t].count = c
        \/ /\ rec'[t].state = "Failed" /\ ~rec'[t].fin /\ rec'[t].count = c + 1
        \/ /\ rec'[t].state = "Failed" /\ rec'[t].fin /\ rec'[t].count = c
    <3>1. CASE MarkFailed(p)
      <4>1. \E n \in {c, c + 1} : rec'[t] = Retryable(rec[t], n)
        BY <1>5, <2>0, <3>1, GroundsAre DEF MarkFailed, TypeOK
      <4>. QED
        BY <2>5, <4>1 DEF Retryable, Record
    <3>2. CASE End(p)
      <4>1. rec'[t] = Terminal(job[p].snap) /\ job[p].snap \in Record
        BY <1>5, <2>0, <3>2, GroundsAre, BusyJob DEF End, TypeOK
      <4>. QED
        BY <4>1 DEF Terminal, Record
    <3>. QED
      BY <3>1, <3>2
  <2>7. /\ rec'[t].state = "Failed" /\ ~rec'[t].fin => Spent(t, rec'[t].count)
        /\ Below(t, rec'[t].count + 1)
    <3>1. c + 1 \in Nat /\ c + 1 + 1 \in Nat
      BY <1>0
    <3>2. CASE Untouched(t)
      <4>1. \A k \in Nat : Below(t, k) /\ Spent(t, k)
        BY <3>2, GroundsAre, UntouchedBelow
      <4>. QED
        BY <1>0, <2>6, <3>1, <4>1
    <3>3. CASE Spent(t, c) /\ Below(t, c + 1)
      <4>1. Spent(t, c + 1) /\ Below(t, c + 1 + 1)
        BY <3>1, <3>3, BelowSpent
      <4>. QED
        BY <2>6, <3>3, <4>1
    <3>. QED
      BY <2>4, <3>2, <3>3
  <2>. QED
    BY <1>0, <1>1, <2>2, <2>3, <2>4, <2>7, LoopAttempts
<1>. QED
  BY <1>4, <1>5

LEMMA EndingAttempts ==
    ASSUME NEW t, Grounds(t), AttemptInv(t), NEW p \in Proc, Ending(p)
    PROVE  AttemptInv(t)'
<1> DEFINE u == job[p].task
<1>1. CASE MarkFailed(p) \/ End(p)
  BY <1>1, FailAttempts
<1>2. CASE Kill(p) \/ Undo(p)
  <2>0. /\ sync' = sync /\ todo' \subseteq todo /\ rec'[t] = rec[t] /\ job[p].pc # "idle" /\ u \in Task
        /\ job[p].pc # "recommit"
    BY <1>2, GroundsAre, BusyJob DEF Kill, Undo, At, stores
  <2>1. Eased(t)
    <3>1. \E n, o : o.kind = "stop" /\ BestEffortStop(n, u, o)
      BY <1>2 DEF Kill, Undo, Stop
    <3>. QED
      BY <2>0, <3>1, StopEases
  <2>2. PICK j : /\ Become(p, j)
                 /\ j.pc = "idle" \/ (j.pc = "retry" /\ j.task = u /\ j.snap = job[p].snap)
    <3>1. /\ [job[p] EXCEPT !.pc = "retry"].pc = "retry" /\ [job[p] EXCEPT !.pc = "retry"].task = u
          /\ [job[p] EXCEPT !.pc = "retry"].snap = job[p].snap
      BY GroundsAre, BusyJob DEF Job
    <3>. QED
      BY <1>2, <3>1, IdleIs DEF Kill, Undo, Finish, Goto
  <2>3. j.pc \notin Readied /\ j.pc # "recommit" /\ j.pc # "commit"
    BY <2>2 DEF Readied
  <2>. QED
    BY <2>0, <2>1, <2>2, <2>3, TurnAttempts
<1>. QED
  BY <1>1, <1>2 DEF Ending

\* The dispatcher goes on, and the workers are at most sent a stop.
LEMMA DispatcherAttempts ==
    ASSUME NEW t, Grounds(t), AttemptInv(t), Eased(t), NEW j, Become(Dispatcher, j), j.pc # "commit",
           todo' = todo, rec'[t] = rec[t]
    PROVE  AttemptInv(t)'
<1>1. todo' \subseteq todo
  OBVIOUS
<1>. QED
  BY <1>1, Types, ManagerAssumption, TurnAttempts

LEMMA RoutingAttempts ==
    ASSUME NEW t, Grounds(t), AttemptInv(t),
           Dequeue \/ Route \/ Unowned \/ Place \/ Release \/ Retry
    PROVE  AttemptInv(t)'
<1> DEFINE J == job[Dispatcher]
<1>0. /\ UNCHANGED <<rec, wdb, wq>> /\ sync'.list \subseteq sync.list /\ todo' = todo
      /\ Dequeue \/ J.pc # "idle"
  BY DEF Dequeue, Route, Unowned, Place, Release, Retry, stores, workers, At
<1>1. Eased(t)
  BY <1>0, OtherEases
<1>2. \E j : Become(Dispatcher, j) /\ j.pc # "commit"
  <2>0. J \in Job /\ \A pc : [J EXCEPT !.pc = pc].pc = pc
    BY GroundsAre, BusyJob, Types, GotoIs DEF Job
  <2>1. ASSUME NEW pc, pc # "commit", Goto(Dispatcher, pc)
        PROVE  \E j : Become(Dispatcher, j) /\ j.pc # "commit"
    BY <2>0, <2>1 DEF Goto
  <2>2. Finish(Dispatcher) => \E j : Become(Dispatcher, j) /\ j.pc # "commit"
    BY IdleIs DEF Finish
  <2>3. CASE Dequeue
    <3> DEFINE j == [Idle EXCEPT !.pc = "route", !.task = Head(pending).task,
                                 !.order = Head(pending).order, !.snap = Fresh]
    <3>1. Become(Dispatcher, j) /\ j.pc = "route"
      BY <2>3 DEF Dequeue, Idle
    <3>. QED
      BY <3>1
  <2>4. \A n : [J EXCEPT !.pc = "post", !.node = n].pc = "post"
               /\ [J EXCEPT !.pc = "delete", !.snap = n].pc = "delete"
    BY <2>0 DEF Job
  <2>5. CASE Route
    <3> DEFINE n == asg[J.task]
               stop == J.order.kind = "stop"
               free == ~Conflicts(n, J.task, TRUE)
    <3>1. CASE n = NoNode
      <4>1. Goto(Dispatcher, IF stop THEN "unowned" ELSE "place")
        BY <2>5, <3>1 DEF Route
      <4>. QED
        BY <2>1, <4>1
    <3>2. CASE n # NoNode /\ (stop \/ free)
      <4>1. Become(Dispatcher, [J EXCEPT !.pc = "post", !.node = n])
        BY <2>5, <3>2 DEF Route
      <4>. QED
        BY <2>4, <4>1
    <3>3. CASE n # NoNode /\ ~stop /\ ~free
      <4>1. Goto(Dispatcher, "fail")
        BY <2>5, <3>3 DEF Route
      <4>. QED
        BY <2>1, <4>1
    <3>. QED
      BY <3>1, <3>2, <3>3
  <2>6. CASE Unowned
    BY <2>2, <2>4, <2>6 DEF Unowned
  <2>7. CASE Place
    <3>1. \/ Finish(Dispatcher) \/ Goto(Dispatcher, "end")
          \/ \E n : Become(Dispatcher, [J EXCEPT !.pc = "post", !.node = n])
      BY <2>7 DEF Place, Select
    <3>. QED
      BY <2>1, <2>2, <2>4, <3>1
  <2>8. CASE Release \/ Retry
    BY <2>2, <2>8 DEF Release, Retry
  <2>. QED
    BY <2>3, <2>5, <2>6, <2>7, <2>8
<1>. QED
  BY <1>0, <1>1, <1>2, DispatcherAttempts

\* The first start is accepted, where nothing was attempted yet.
LEMMA PostAttempts ==
    ASSUME NEW t, Grounds(t), AttemptInv(t), Post
    PROVE  AttemptInv(t)'
<1> DEFINE J == job[Dispatcher]
           u == J.task
           n == J.node
           o == J.order
<1>0. /\ J.pc = "post" /\ u \in Task /\ o \in Order /\ n \in Node0
      /\ rec' = rec /\ sync' = sync /\ todo' = todo /\ sync'.list \subseteq sync.list
  BY GroundsAre, Types, BusyJob DEF Post, At, stores
<1>1. ASSUME NEW pc, Goto(Dispatcher, pc)
      PROVE  \E j : Become(Dispatcher, j) /\ j.pc = pc /\ j.task = u
  <2>1. [J EXCEPT !.pc = pc].pc = pc /\ [J EXCEPT !.pc = pc].task = u
    BY GroundsAre, Types, GotoIs
  <2>. QED
    BY <1>1, <2>1 DEF Goto
<1>2. Finish(Dispatcher) => \E j : Become(Dispatcher, j) /\ j.pc = "idle"
  BY IdleIs DEF Finish
<1>3. ASSUME UNCHANGED workers, Goto(Dispatcher, "retry") \/ Goto(Dispatcher, "release")
                                \/ Goto(Dispatcher, "burn") \/ Finish(Dispatcher)
      PROVE  AttemptInv(t)'
  <2>1. Eased(t)
    BY <1>0, <1>3, OtherEases DEF workers
  <2>2. \E j : Become(Dispatcher, j) /\ j.pc # "commit"
    BY <1>1, <1>2, <1>3
  <2>. QED
    BY <1>0, <2>1, <2>2, DispatcherAttempts
<1>4. CASE Accepts(n, u, o) /\ o.kind = "stop" /\ Goto(Dispatcher, "release")
  <2>1. Eased(t)
    BY <1>0, <1>4, StopEases
  <2>2. \E j : Become(Dispatcher, j) /\ j.pc # "commit"
    BY <1>1, <1>4
  <2>. QED
    BY <1>0, <2>1, <2>2, DispatcherAttempts
<1>5. CASE Accepts(n, u, o) /\ o.kind = "start" /\ Goto(Dispatcher, "commit")
  <2>1. PICK j : Become(Dispatcher, j) /\ j.pc = "commit" /\ j.task = u
    BY <1>1, <1>5
  <2>2. job'[Dispatcher] = j /\ job'[Loop] = job[Loop]
    BY <2>1, GroundsAre, Types, ManagerAssumption DEF Become, TypeOK, JobTypes
  <2>3. CASE u # t
    <3>1. Eased(t)
      BY <1>0, <1>5, <2>3, OtherEases
    <3>2. ~Accepted(job'[Dispatcher], t) /\ todo' \subseteq todo /\ rec'[t] = rec[t]
      BY <1>0, <2>1, <2>2, <2>3 DEF Accepted
    <3>. QED
      BY <2>2, <3>1, <3>2, QuietAttempts
  <2>4. CASE u = t
    <3>1. InHand(J, t)
      BY <1>0, <1>5, <2>4 DEF InHand, Unplaced, Starts, Busy
    <3>2. Untouched(t)
      BY <3>1, HandUntouched
    <3>3. /\ \A k \in Nat : Below(t, k) /\ Spent(t, k)
          /\ ~Busy(job[Loop], t) /\ \A e \in todo : e.task # t
          /\ rec[t].state # "Failed"
      BY <3>2, GroundsAre, UntouchedBelow DEF Untouched, Alone, Restarter
    <3>4. 0 \in Nat /\ 0 + 1 = 1 /\ 1 \in Nat /\ rec[t].count + 1 \in Nat /\ 0 < rec[t].count + 1
      BY GroundsAre, Counts
    <3>5. Apart(t) /\ Reported(t)
      BY DEF AttemptInv
    <3>6. Apart(t)' /\ Reported(t)' /\ Below(t, 1)' /\ Below(t, rec[t].count + 1)'
      <4>1. CASE n \in Node
        <5>1. Accepts(n, t, Start(0))
          BY <1>5, <2>4, GroundsAre DEF FirstStarts, First
        <5>2. /\ Apart(t)' /\ Reported(t)' /\ Below(t, 0 + 1)'
              /\ \A a \in Nat : 0 < a /\ Below(t, a) => Below(t, a)'
          BY <1>0, <3>3, <3>4, <3>5, <4>1, <5>1, GroundsAre, AcceptTries
        <5>3. Below(t, rec[t].count + 1)'
          BY <1>0, <3>3, <3>4, <5>2
        <5>. QED
          BY <3>4, <5>2, <5>3
      <4>2. CASE n \notin Node
        <5>1. UNCHANGED <<wdb, wq>>
          BY <1>5, <4>2, GroundsAre DEF Accepts, TypeOK, WorkerTypes
        <5>2. Eased(t)
          BY <1>0, <5>1, OtherEases
        <5>. QED
          BY <1>0, <3>3, <3>4, <5>2 DEF Eased
      <4>. QED
        BY <4>1, <4>2
    <3>7. Recorded(t)'
      BY <1>0, <3>3, <3>6 DEF Recorded
    <3>8. LoopOnce(t)' /\ Retried(t)'
      BY <1>0, <2>2, <3>3 DEF LoopOnce, Retried, At1, Busy
    <3>. QED
      BY <3>6, <3>7, <3>8 DEF AttemptInv
  <2>. QED
    BY <2>3, <2>4
<1>6. o.kind \in {"start", "stop"}
  BY <1>0 DEF Order
<1>. QED
  BY <1>3, <1>4, <1>5, <1>6, GroundsAre DEF Post, Orderly, Strikes

\* The first start is recorded, as the attempt the worker accepted.
LEMMA CommitAttempts ==
    ASSUME NEW t, Grounds(t), AttemptInv(t), Commit
    PROVE  AttemptInv(t)'
<1> DEFINE J == job[Dispatcher]
           u == J.task
<1>0. /\ J.pc = "commit" /\ u \in Task /\ UNCHANGED <<wdb, wq, todo>>
      /\ sync'.list \subseteq sync.list /\ todo' = todo /\ todo' \subseteq todo
  BY GroundsAre, Types, BusyJob DEF Commit, At, workers
<1>1. Eased(t)
  BY <1>0, OtherEases
<1>2. CASE Cancelled(u)
  <2> DEFINE j == [J EXCEPT !.pc = "undo", !.again = FALSE]
  <2>1. Become(Dispatcher, j) /\ rec' = rec
    BY <1>2, GroundsAre DEF Commit, stores, Orderly, Strikes
  <2>2. j.pc = "undo"
    BY GroundsAre, Types, BusyJob DEF Job
  <2>. QED
    BY <1>0, <1>1, <2>1, <2>2, DispatcherAttempts
<1>3. CASE ~Cancelled(u)
  <2>1. rec' = [rec EXCEPT ![u] = [Fresh EXCEPT !.state = "Scheduled"]] /\ Become(Dispatcher, Idle)
    BY <1>3, GroundsAre DEF Commit, Orderly, Strikes, Finish
  <2>2. CASE u # t
    <3>1. rec'[t] = rec[t]
      BY <2>1, <2>2, GroundsAre DEF TypeOK
    <3>. QED
      BY <1>0, <1>1, <2>1, <3>1, IdleIs, DispatcherAttempts
  <2>3. CASE u = t
    <3>1. rec'[t].state = "Scheduled" /\ rec'[t].count = 0
      BY <1>0, <2>1, <2>3, GroundsAre DEF TypeOK, Fresh
    <3>2. Accepted(J, t)
      BY <1>0, <2>3 DEF Grounds, Ordinary, Accepted
    <3>3. Below(t, 0 + 1)
      BY <3>2, GroundsAre DEF Recorded
    <3>4. job'[Dispatcher].pc = "idle" /\ job'[Loop] = job[Loop]
      BY <2>1, GroundsAre, Types, IdleIs, ManagerAssumption DEF Become, TypeOK, JobTypes
    <3>5. rec'[t].count <= rec[t].count
      BY <3>1, GroundsAre, Counts
    <3>. QED
      BY <1>0, <1>1, <3>1, <3>3, <3>4, <3>5, LoopAttempts DEF Accepted
  <2>. QED
    BY <2>2, <2>3
<1>. QED
  BY <1>2, <1>3

\* The loop's restart is accepted, and recorded as the next attempt.
LEMMA RestartPostAttempts ==
    ASSUME NEW t, Grounds(t), AttemptInv(t), NEW p \in Restarter, RestartPost(p)
    PROVE  AttemptInv(t)'
<1> DEFINE J == job[p]
           u == J.task
           n == J.node
<1>c. PICK c \in Nat : c = J.snap.count
  BY GroundsAre, Restarters, Counts
<1> DEFINE o == Start(c + 1)
<1>0. /\ p \in Proc /\ p # Dispatcher /\ p \notin Stopper
      /\ J.pc = "restart" /\ J.pc # "idle" /\ u \in Task /\ c + 1 \in Nat /\ n \in Node0
      /\ rec' = rec /\ sync' = sync /\ todo' = todo /\ sync'.list \subseteq sync.list
      /\ todo' \subseteq todo /\ rec'[t] = rec[t]
  BY <1>c, GroundsAre, Restarters, BusyJob, Counts DEF RestartPost, At, stores
<1>1. ASSUME NEW pc, Goto(p, pc)
      PROVE  \E j : Become(p, j) /\ j.pc = pc /\ j.task = u /\ j.snap = J.snap
  <2>1. /\ [J EXCEPT !.pc = pc].pc = pc /\ [J EXCEPT !.pc = pc].task = u
        /\ [J EXCEPT !.pc = pc].snap = J.snap
    BY <1>0, GroundsAre, BusyJob DEF Job
  <2>. QED
    BY <1>1, <2>1 DEF Goto
<1>2. CASE UNCHANGED workers /\ (Goto(p, "fail") \/ Goto(p, "burn"))
  <2>1. Eased(t)
    BY <1>0, <1>2, OtherEases DEF workers
  <2>2. PICK j : Become(p, j) /\ j.pc \in {"fail", "burn"} /\ j.task = u /\ j.snap = J.snap
    BY <1>1, <1>2
  <2>. QED
    BY <1>0, <2>1, <2>2, TurnAttempts DEF Readied
<1>3. CASE Accepts(n, u, o) /\ Goto(p, "recommit")
  <2>1. PICK j : Become(p, j) /\ j.pc = "recommit" /\ j.task = u /\ j.snap = J.snap
    BY <1>1, <1>3
  <2>2. CASE u # t
    <3>1. Eased(t)
      BY <1>0, <1>3, <2>2, OtherEases
    <3>. QED
      BY <1>0, <2>1, <2>2, <3>1, TurnAttempts
  <2>3. CASE u = t
    <3>1. p = Loop
      BY <1>0, <2>3, OnlyLoop
    <3>2. Busy(job[Loop], t) /\ J.pc \in Readied
      BY <1>0, <2>3, <3>1 DEF Busy, Readied
    <3>3. /\ Spent(t, c) /\ Below(t, c + 1) /\ rec[t].count <= c
          /\ \A e \in todo : e.task # t
      BY <1>c, <3>1, <3>2, GroundsAre DEF Retried, Ready, LoopOnce
    <3>4. ~Accepted(job[Dispatcher], t)
      BY <3>2, GroundsAre DEF StartInv, Awaited, Alone, Restarter
    <3>5. /\ job'[Loop] = j /\ job'[Dispatcher] = job[Dispatcher]
      BY <1>0, <2>1, <3>1, GroundsAre, Types DEF Become, TypeOK, JobTypes
    <3>6. /\ Apart(t)' /\ Reported(t)' /\ Below(t, c + 2)'
          /\ \A a \in Nat : a # c + 1 /\ Spent(t, a) => Spent(t, a)'
      <4>0. Apart(t) /\ Reported(t)
        BY DEF AttemptInv
      <4>3. ASSUME NEW k \in Nat PROVE k + 1 + 1 = k + 2 /\ k + 2 \in Nat
        OBVIOUS
      <4>4. c + 1 + 1 = c + 2 /\ c + 2 \in Nat
        BY <1>0, <4>3
      <4>1. CASE n \in Node
        <5>1. /\ Apart(t)' /\ Reported(t)' /\ Below(t, c + 1 + 1)'
              /\ \A a \in Nat : a # c + 1 /\ Spent(t, a) => Spent(t, a)'
          BY <1>0, <1>3, <2>3, <3>3, <4>0, <4>1, GroundsAre, AcceptTries
        <5>. QED
          BY <4>0, <4>4, <5>1
      <4>2. CASE n \notin Node
        <5>1. UNCHANGED <<wdb, wq>>
          BY <1>3, <4>2, GroundsAre DEF Accepts, TypeOK, WorkerTypes
        <5>2. Eased(t)
          BY <1>0, <5>1, OtherEases
        <5>3. Below(t, c + 1 + 1)
          BY <1>0, <3>3, BelowSpent
        <5>4. Below(t, c + 1 + 1)' /\ \A a \in Nat : Spent(t, a) => Spent(t, a)'
          BY <4>0, <4>4, <5>2, <5>3 DEF Eased
        <5>. QED
          BY <4>4, <5>2, <5>4 DEF Eased
      <4>. QED
        BY <4>1, <4>2
    <3>7. rec[t].count \in Nat /\ rec[t].count # c + 1 /\ c # c + 1
      BY <1>0, <3>3, GroundsAre, Counts
    <3>8. rec[t].state = "Failed" /\ ~rec[t].fin => Spent(t, rec[t].count)'
      <4>1. rec[t].state = "Failed" /\ ~rec[t].fin => Spent(t, rec[t].count)
        BY GroundsAre DEF Recorded
      <4>2. PICK k \in Nat : k = rec[t].count
        BY <3>7
      <4>3. Spent(t, k) => Spent(t, k)'
        BY <3>6, <3>7, <4>2
      <4>. QED
        BY <1>0, <4>1, <4>2, <4>3
    <3>9. At1(t, "recommit")' /\ ~Accepted(job'[Dispatcher], t) /\ Busy(job'[Loop], t)
      BY <2>1, <2>3, <3>4, <3>5 DEF At1, Busy
    <3>10. Recorded(t)'
      BY <1>0, <3>8, <3>9 DEF Recorded
    <3>11. Spent(t, job[Loop].snap.count)' /\ Below(t, job[Loop].snap.count + 2)'
           /\ rec'[t].count <= job'[Loop].snap.count
      <4>1. job'[Loop].snap = J.snap
        BY <2>1, <3>5
      <4>3. job'[Loop].snap.count = c
        BY <1>c, <4>1
      <4>2. Spent(t, c)'
        BY <1>0, <3>3, <3>6, <3>7
      <4>. QED
        BY <1>0, <3>3, <3>6, <4>2, <4>3
    <3>12. LoopOnce(t)' /\ Retried(t)'
      <4>1. job'[Loop].pc \notin Readied
        BY <2>1, <3>5 DEF Readied
      <4>. QED
        BY <1>0, <3>3, <3>11, <4>1 DEF LoopOnce, Retried
    <3>. QED
      BY <3>6, <3>10, <3>12 DEF AttemptInv
  <2>. QED
    BY <2>2, <2>3
<1>. QED
  BY <1>c, <1>2, <1>3, GroundsAre DEF RestartPost, Orderly, Strikes

LEMMA RecommitAttempts ==
    ASSUME NEW t, Grounds(t), AttemptInv(t), NEW p \in Restarter, Recommit(p)
    PROVE  AttemptInv(t)'
<1> DEFINE J == job[p]
           u == J.task
           c == J.snap.count
<1>0. /\ p \in Proc /\ p # Dispatcher /\ p \notin Stopper
      /\ J.pc = "recommit" /\ J.pc # "idle" /\ u \in Task /\ c \in Nat /\ J.snap \in Record
      /\ UNCHANGED <<wdb, wq, todo>> /\ sync'.list \subseteq sync.list /\ todo' \subseteq todo
  BY GroundsAre, Restarters, BusyJob, Counts DEF Recommit, At, workers
<1>1. Eased(t)
  BY <1>0, OtherEases
<1>2. CASE ~Wanted(u)
  <2> DEFINE j == [J EXCEPT !.pc = "undo"]
  <2>1. Become(p, j) /\ rec'[t] = rec[t]
    BY <1>2, GroundsAre DEF Recommit, Goto, stores, Orderly, Strikes
  <2>2. j.pc = "undo" /\ j.task = u /\ j.snap = J.snap
    BY <1>0, GroundsAre, BusyJob DEF Job
  <2>3. j.pc \notin Readied /\ j.pc # "recommit"
    BY <2>2 DEF Readied
  <2>. QED
    BY <1>0, <1>1, <1>2, <2>1, <2>2, <2>3, TurnAttempts
<1>3. CASE Wanted(u)
  <2>1. rec' = [rec EXCEPT ![u] = Next1(J)]
    BY <1>3, GroundsAre DEF Recommit, Orderly, Strikes
  <2>2. PICK j : /\ Become(p, j)
                 /\ j.pc = "idle" \/ (j.pc = "move" /\ j.task = u /\ j.snap = J.snap)
    <3>1. /\ [J EXCEPT !.pc = "move", !.old = asg[u]].pc = "move"
          /\ [J EXCEPT !.pc = "move", !.old = asg[u]].task = u
          /\ [J EXCEPT !.pc = "move", !.old = asg[u]].snap = J.snap
      BY <1>0, GroundsAre, BusyJob DEF Job
    <3>2. Become(p, [J EXCEPT !.pc = "move", !.old = asg[u]]) \/ Become(p, Idle)
      BY <1>3, GroundsAre DEF Recommit, Finish, Orderly, Strikes
    <3>. QED
      BY <3>1, <3>2, IdleIs
  <2>3. j.pc \notin Readied /\ j.pc # "recommit"
    BY <2>2 DEF Readied
  <2>4. CASE u # t
    <3>1. rec'[t] = rec[t]
      BY <2>1, <2>4, GroundsAre DEF TypeOK
    <3>. QED
      BY <1>0, <1>1, <2>2, <2>3, <2>4, <3>1, TurnAttempts
  <2>5. CASE u = t
    <3>1. p = Loop
      BY <1>0, <2>5, OnlyLoop
    <3>2. At1(t, "recommit")
      BY <1>0, <2>5, <3>1 DEF At1, Busy
    <3>3. Below(t, c + 2) /\ \A e \in todo : e.task # t
      BY <3>1, <3>2, GroundsAre DEF Retried, LoopOnce, At1
    <3>4. rec'[t].state = "Scheduled" /\ rec'[t].count = c + 1
      BY <1>0, <2>1, <2>5, GroundsAre DEF TypeOK, Next1, Record
    <3>5. c + 1 + 1 = c + 2 /\ Below(t, rec'[t].count + 1)
      BY <1>0, <3>3, <3>4
    <3>6. job'[Loop] = j /\ job'[Dispatcher] = job[Dispatcher]
      BY <1>0, <2>2, <3>1, GroundsAre, Types DEF Become, TypeOK, JobTypes
    <3>7. /\ \A e \in todo : e.task # t
          /\ ~(Busy(job'[Loop], t) /\ job'[Loop].pc \in Readied \union {"recommit"})
      BY <2>3, <3>3, <3>6
    <3>8. \/ job'[Loop].pc = "idle"
          \/ /\ job[Loop].pc # "idle" /\ job'[Loop].task = job[Loop].task
             /\ job'[Loop].snap = job[Loop].snap /\ job'[Loop].pc # "recommit"
             /\ job'[Loop].pc \in Readied => job[Loop].pc \in Readied \/ job[Loop].task # t
      BY <1>0, <2>2, <2>3, <3>1, <3>6
    <3>. QED
      BY <1>0, <1>1, <3>4, <3>5, <3>6, <3>7, <3>8, LoopAttempts
  <2>. QED
    BY <2>4, <2>5
<1>. QED
  BY <1>2, <1>3

LEMMA RestartingAttempts ==
    ASSUME NEW t, Grounds(t), AttemptInv(t), NEW p \in Restarter, Restarting(p)
    PROVE  AttemptInv(t)'
<1> DEFINE J == job[p]
           u == J.task
<1>0. p \in Proc /\ p # Dispatcher
  BY Restarters
<1>1. CASE RestartOwner(p) \/ RestartPick(p)
  <2>0. /\ J.pc \in {"owner", "pick"} /\ J.pc # "idle" /\ UNCHANGED <<wdb, wq>>
        /\ sync'.list \subseteq sync.list /\ todo' \subseteq todo /\ rec'[t] = rec[t]
    BY <1>1 DEF RestartOwner, RestartPick, At, workers, stores
  <2>1. Eased(t)
    BY <2>0, OtherEases
  <2>2. PICK j : /\ Become(p, j) /\ j.pc \in {"pick", "restart", "fail", "end"}
                 /\ j.task = u /\ j.snap = J.snap
    <3>0. J \in Job
      BY <1>0, GroundsAre, BusyJob
    <3>2. CASE RestartOwner(p)
      <4>1. Become(p, [J EXCEPT !.pc = "pick", !.old = asg[u]])
        BY <3>2 DEF RestartOwner
      <4>2. /\ [J EXCEPT !.pc = "pick", !.old = asg[u]].pc = "pick"
            /\ [J EXCEPT !.pc = "pick", !.old = asg[u]].task = u
            /\ [J EXCEPT !.pc = "pick", !.old = asg[u]].snap = J.snap
        BY <3>0 DEF Job
      <4>. QED
        BY <4>1, <4>2
    <3>3. CASE RestartPick(p)
      <4>1. \/ \E n : Become(p, [J EXCEPT !.pc = "restart", !.node = n])
            \/ Become(p, [J EXCEPT !.pc = "fail"]) \/ Become(p, [J EXCEPT !.pc = "end"])
        BY <3>3 DEF RestartPick, Select, Goto
      <4>2. ASSUME NEW n, Become(p, [J EXCEPT !.pc = "restart", !.node = n])
            PROVE  \E j : /\ Become(p, j) /\ j.pc = "restart" /\ j.task = u /\ j.snap = J.snap
        <5> DEFINE j == [J EXCEPT !.pc = "restart", !.node = n]
        <5>1. Become(p, j) /\ j.pc = "restart" /\ j.task = u /\ j.snap = J.snap
          BY <3>0, <4>2 DEF Job
        <5> HIDE DEF j
        <5>. QED
          BY <5>1
      <4>3. ASSUME NEW pc, Become(p, [J EXCEPT !.pc = pc])
            PROVE  \E j : /\ Become(p, j) /\ j.pc = pc /\ j.task = u /\ j.snap = J.snap
        <5> DEFINE j == [J EXCEPT !.pc = pc]
        <5>1. Become(p, j) /\ j.pc = pc /\ j.task = u /\ j.snap = J.snap
          BY <3>0, <4>3 DEF Job
        <5> HIDE DEF j
        <5>. QED
          BY <5>1
      <4>4. \E pc \in {"restart", "fail", "end"} :
                \E j : /\ Become(p, j) /\ j.pc = pc /\ j.task = u /\ j.snap = J.snap
        BY <4>1, <4>2, <4>3
      <4>. QED
        BY <4>4
    <3>. QED
      BY <1>1, <3>2, <3>3
  <2>3. j.pc # "recommit" /\ J.pc \in Readied /\ J.pc # "recommit"
    BY <2>0, <2>2 DEF Readied
  <2>. QED
    BY <1>0, <2>0, <2>1, <2>2, <2>3, TurnAttempts
<1>2. CASE Move(p)
  <2>0. /\ J.pc = "move" /\ sync' = sync /\ sync'.list \subseteq sync.list /\ todo' \subseteq todo
        /\ rec'[t] = rec[t] /\ Become(p, Idle)
    BY <1>2 DEF Move, At, stores, Finish
  <2>1. \/ BestEffortStop(J.old, u, Stop(J.snap.count, J.snap.why))
        \/ UNCHANGED workers
    BY <1>2 DEF Move
  <2>2. Stop(J.snap.count, J.snap.why).kind = "stop"
    BY DEF Stop
  <2>3. Eased(t)
    BY <2>0, <2>1, <2>2, StopEases
  <2>. QED
    BY <1>0, <2>0, <2>3, IdleIs, TurnAttempts
<1>. QED
  BY <1>1, <1>2, RestartPostAttempts, RecommitAttempts DEF Restarting

-----------------------------------------------------------------------------
(* Who works on what *)

\* A goroutine goes on with its task and order, or is done with them.
SameWork(p, j) == \/ j = Idle
                  \/ job[p].pc # "idle" /\ j.task = job[p].task /\ j.order = job[p].order
QueueFirst == \A i \in DOMAIN pending : First(pending[i].order)
WorkInv == CheckersOwn /\ FirstStarts

LEMMA WorkTurn ==
    ASSUME TypeOK, WorkInv, NEW p \in Proc, NEW j, Become(p, j), QueueFirst',
           p = Dispatcher => First(j.order),
           p \in Checked => j.pc = "idle" \/ j.task = p
    PROVE  WorkInv'
<1>1. job'[p] = j /\ \A q \in Proc : q # p => job'[q] = job[q]
  BY DEF Become, TypeOK, JobTypes
<1>2. CheckersOwn'
  BY <1>1 DEF WorkInv, CheckersOwn, Proc
<1>3. First(job'[Dispatcher].order)
  BY <1>1, Types DEF WorkInv, FirstStarts
<1>. QED
  BY <1>2, <1>3 DEF WorkInv, FirstStarts, QueueFirst, First

LEMMA IdleWork == Idle.pc = "idle" /\ First(Idle.order) /\ First(Start(0))
  BY DEF Idle, First

LEMMA WorkKept ==
    ASSUME TypeOK, WorkInv, NEW p \in Proc, NEW j, Become(p, j), SameWork(p, j), QueueFirst'
    PROVE  WorkInv'
<1>1. p = Dispatcher => First(j.order)
  BY IdleWork DEF SameWork, WorkInv, FirstStarts
<1>2. p \in Checked => j.pc = "idle" \/ j.task = p
  BY IdleWork DEF SameWork, WorkInv, CheckersOwn
<1>. QED
  BY <1>1, <1>2, WorkTurn

LEMMA FinishWork ==
    ASSUME TypeOK, WorkInv, NEW p \in Proc, Finish(p), QueueFirst'
    PROVE  WorkInv'
  BY WorkKept DEF Finish, SameWork

LEMMA GotoWork ==
    ASSUME TypeOK, WorkInv, NEW p \in Proc, job[p].pc # "idle", NEW pc, Goto(p, pc), QueueFirst'
    PROVE  WorkInv'
<1> DEFINE j == [job[p] EXCEPT !.pc = pc]
<1>1. Become(p, j) /\ SameWork(p, j)
  BY GotoIs DEF Goto, SameWork
<1>. QED
  BY <1>1, WorkKept

\* The other fields are of no concern.
LEMMA FieldsWork ==
    ASSUME TypeOK, NEW p \in Proc, job[p].pc # "idle", NEW pc, NEW x
    PROVE  /\ SameWork(p, [job[p] EXCEPT !.pc = pc, !.old = x])
           /\ SameWork(p, [job[p] EXCEPT !.pc = pc, !.node = x])
           /\ SameWork(p, [job[p] EXCEPT !.pc = pc, !.snap = x])
           /\ SameWork(p, [job[p] EXCEPT !.pc = pc, !.again = x])
  BY BusyJob DEF SameWork, Job

LEMMA SameFirst == ASSUME WorkInv, pending' = pending PROVE QueueFirst'
  BY DEF WorkInv, FirstStarts, QueueFirst

LEMMA EnqueueFirst ==
    ASSUME TypeOK, WorkInv, NEW t, NEW o, Enqueued(t, o), First(o)
    PROVE  QueueFirst'
<1> DEFINE e == [task |-> t, order |-> o]
<1>1. pending' = Append(pending, e) /\ pending \in Seq(Event) /\ e.order = o
  BY DEF Enqueued, TypeOK
<1> HIDE DEF e
<1>2. \A i \in DOMAIN pending' : pending'[i] = e \/ (i \in DOMAIN pending /\ pending'[i] = pending[i])
  BY <1>1
<1>. QED
  BY <1>1, <1>2 DEF WorkInv, FirstStarts, QueueFirst

LEMMA TailFirst ==
    ASSUME TypeOK, WorkInv, pending # <<>>
    PROVE  /\ First(Head(pending).order)
           /\ \A i \in DOMAIN Tail(pending) : First(Tail(pending)[i].order)
<1>0. pending \in Seq(Event)
  BY DEF TypeOK
<1>1. /\ 1 \in DOMAIN pending /\ Head(pending) = pending[1]
      /\ \A i \in DOMAIN Tail(pending) : i + 1 \in DOMAIN pending /\ Tail(pending)[i] = pending[i + 1]
  BY <1>0
<1>. QED
  BY <1>1 DEF WorkInv, FirstStarts

LEMMA StoppersWork ==
    ASSUME TypeOK, WorkInv, NEW s \in Stopper, Stopping(s) \/ \E t \in Task : StopRead(s, t)
    PROVE  WorkInv'
<1>0. s \in Proc /\ s # Dispatcher /\ s \notin Checked
  BY Types, ManagerAssumption
<1>1. QueueFirst'
  <2>1. CASE StopQueue(s)
    <3>1. First(Stop(job[s].snap.count, job[s].snap.why))
      BY DEF First, Stop
    <3>. QED
      BY <2>1, <3>1, EnqueueFirst DEF StopQueue
  <2>2. CASE pending' = pending
    BY <2>2, SameFirst
  <2>. QED
    BY <2>1, <2>2 DEF Stopping, StopRead, StopDecide, StopMark
<1>2. \E j : Become(s, j)
  BY DEF Stopping, StopRead, StopDecide, StopMark, StopQueue, Goto, Finish
<1>. QED
  BY <1>0, <1>1, <1>2, WorkTurn

LEMMA DeletingWork == ASSUME TypeOK, WorkInv, NEW p \in Proc, Deleting(p) PROVE WorkInv'
<1>0. job[p].pc # "idle"
  BY DEF Deleting, Delete, Drop, Clean, At
<1>1. QueueFirst'
  <2>1. CASE Drop(p)
    <3>1. PICK q \in UpTo(Len(pending), {pending[i] : i \in DOMAIN pending}) : pending' = q
      BY <2>1 DEF Drop
    <3>2. \A i \in DOMAIN pending' : \E k \in DOMAIN pending : pending'[i] = pending[k]
      BY <3>1 DEF UpTo
    <3>. QED
      BY <3>2 DEF WorkInv, FirstStarts, QueueFirst
  <2>2. CASE pending' = pending
    BY <2>2, SameFirst
  <2>. QED
    BY <2>1, <2>2 DEF Deleting, Delete, Clean
<1>2. \/ Finish(p) \/ (\E pc : Goto(p, pc))
      \/ Become(p, [job[p] EXCEPT !.pc = "drop", !.old = asg[job[p].task]])
  BY DEF Deleting, Delete, Drop, Clean
<1>3. SameWork(p, [job[p] EXCEPT !.pc = "drop", !.old = asg[job[p].task]])
  BY <1>0, FieldsWork
<1>. QED
  BY <1>0, <1>1, <1>2, <1>3, FinishWork, GotoWork, WorkKept

LEMMA EndingWork == ASSUME TypeOK, WorkInv, NEW p \in Proc, Ending(p) PROVE WorkInv'
<1>0. job[p].pc # "idle" /\ pending' = pending
  BY DEF Ending, MarkFailed, End, Kill, Undo, At
<1>1. QueueFirst'
  BY <1>0, SameFirst
<1>2. \/ Finish(p) \/ (\E pc : Goto(p, pc))
      \/ Become(p, [job[p] EXCEPT !.pc = "kill", !.old = asg[job[p].task]])
  BY DEF Ending, MarkFailed, End, Kill, Undo
<1>3. SameWork(p, [job[p] EXCEPT !.pc = "kill", !.old = asg[job[p].task]])
  BY <1>0, FieldsWork
<1>. QED
  BY <1>0, <1>1, <1>2, <1>3, FinishWork, GotoWork, WorkKept

LEMMA SendWorkWork == ASSUME TypeOK, WorkInv, SendWork PROVE WorkInv'
<1> DEFINE J == job[Dispatcher]
<1>1. CASE Dequeue
  <2> DEFINE j == [Idle EXCEPT !.pc = "route", !.task = Head(pending).task,
                               !.order = Head(pending).order, !.snap = Fresh]
  <2>1. Become(Dispatcher, j) /\ j.order = Head(pending).order
    BY <1>1 DEF Dequeue, Idle
  <2>2. pending' = Tail(pending) /\ pending # <<>>
    BY <1>1 DEF Dequeue
  <2>3. First(Head(pending).order) /\ QueueFirst'
    BY <2>2, TailFirst DEF QueueFirst
  <2> HIDE DEF j
  <2>. QED
    BY <2>1, <2>3, Types, ManagerAssumption, WorkTurn
<1>2. ASSUME Route \/ Unowned \/ Place \/ Post \/ Release \/ Retry \/ Commit PROVE WorkInv'
  <2>0. J.pc # "idle" /\ Dispatcher \in Proc
    BY <1>2, Types DEF Route, Unowned, Place, Post, Release, Retry, Commit, At
  <2>1. QueueFirst'
    <3>1. CASE Retry
      <4>1. Enqueued(J.task, J.order) /\ First(J.order)
        BY <3>1 DEF Retry, WorkInv, FirstStarts
      <4>. QED
        BY <4>1, EnqueueFirst
    <3>2. CASE Place
      <4>1. pending' = pending \/ Enqueued(J.task, Start(0))
        BY <3>2 DEF Place
      <4>. QED
        BY <4>1, SameFirst, EnqueueFirst, IdleWork
    <3>3. CASE pending' = pending
      BY <3>3, SameFirst
    <3>. QED
      BY <1>2, <3>1, <3>2, <3>3 DEF Route, Unowned, Post, Release, Commit
  <2>2. \/ Finish(Dispatcher) \/ (\E pc : Goto(Dispatcher, pc))
        \/ \E j : Become(Dispatcher, j) /\ SameWork(Dispatcher, j)
    <3>1. CASE Route
      <4> DEFINE n == asg[J.task]
                 stop == J.order.kind = "stop"
                 free == ~Conflicts(n, J.task, TRUE)
      <4>1. CASE n = NoNode
        BY <3>1, <4>1 DEF Route
      <4>2. CASE n # NoNode /\ (stop \/ free)
        <5>1. Become(Dispatcher, [J EXCEPT !.pc = "post", !.node = n])
          BY <3>1, <4>2 DEF Route
        <5>. QED
          BY <2>0, <5>1, FieldsWork
      <4>3. CASE n # NoNode /\ ~stop /\ ~free
        BY <3>1, <4>3 DEF Route
      <4>. QED
        BY <4>1, <4>2, <4>3
    <3>2. CASE Unowned
      <4>1. Finish(Dispatcher) \/ Become(Dispatcher, [J EXCEPT !.pc = "delete", !.snap = rec[J.task]])
        BY <3>2 DEF Unowned
      <4>. QED
        BY <2>0, <4>1, FieldsWork
    <3>3. CASE Place
      <4>1. \/ Finish(Dispatcher) \/ Goto(Dispatcher, "end")
            \/ \E n : Become(Dispatcher, [J EXCEPT !.pc = "post", !.node = n])
        BY <3>3 DEF Place, Select
      <4>. QED
        BY <2>0, <4>1, FieldsWork
    <3>4. CASE Post
      BY <3>4 DEF Post
    <3>5. CASE Release \/ Retry
      BY <3>5 DEF Release, Retry
    <3>6. CASE Commit
      <4>1. \/ Finish(Dispatcher)
            \/ \E x : Become(Dispatcher, [J EXCEPT !.pc = "undo", !.again = x])
        BY <3>6 DEF Commit
      <4>. QED
        BY <2>0, <4>1, FieldsWork
    <3>. QED
      BY <1>2, <3>1, <3>2, <3>3, <3>4, <3>5, <3>6
  <2>. QED
    BY <2>0, <2>1, <2>2, FinishWork, GotoWork, WorkKept
<1>. QED
  BY <1>1, <1>2 DEF SendWork

LEMMA RestartersWork ==
    ASSUME TypeOK, WorkInv,
           (\E p \in Restarter : Restarting(p)) \/ LoopNext \/ \E t \in Checked : CheckFails(t)
    PROVE  WorkInv'
<1>0. pending' = pending /\ QueueFirst'
  BY SameFirst DEF Restarting, RestartOwner, RestartPick, RestartPost, Recommit, Move,
                   LoopNext, LoopSnapshot, LoopVisit, LoopBackoff, CheckFails
<1>1. ASSUME NEW p \in Restarter, Restarting(p) PROVE WorkInv'
  <2>0. job[p].pc # "idle" /\ p \in Proc
    BY <1>1, Restarters DEF Restarting, RestartOwner, RestartPick, RestartPost, Recommit, Move, At
  <2>1. \/ Finish(p) \/ (\E pc : Goto(p, pc))
        \/ \E pc, x : \/ Become(p, [job[p] EXCEPT !.pc = pc, !.old = x])
                      \/ Become(p, [job[p] EXCEPT !.pc = pc, !.node = x])
    <3>1. CASE RestartOwner(p)
      BY <3>1 DEF RestartOwner
    <3>2. CASE RestartPick(p)
      BY <3>2 DEF RestartPick, Select
    <3>3. CASE RestartPost(p)
      BY <3>3 DEF RestartPost
    <3>4. CASE Recommit(p)
      BY <3>4 DEF Recommit
    <3>5. CASE Move(p)
      BY <3>5 DEF Move
    <3>. QED
      BY <1>1, <3>1, <3>2, <3>3, <3>4, <3>5 DEF Restarting
  <2>. QED
    BY <1>0, <2>0, <2>1, FinishWork, GotoWork, FieldsWork, WorkKept
<1>2. CASE LoopNext
  <2>1. CASE job' = job
    BY <1>0, <2>1 DEF WorkInv, CheckersOwn, FirstStarts
  <2>2. CASE \E j : Become(Loop, j)
    BY <1>0, <2>2, Types, ManagerAssumption, WorkTurn
  <2>. QED
    BY <1>2, <2>1, <2>2 DEF LoopNext, LoopSnapshot, LoopVisit, LoopBackoff, Visit
<1>3. ASSUME NEW t \in Checked, CheckFails(t) PROVE WorkInv'
  <2>1. PICK pc : Become(t, [Idle EXCEPT !.task = t, !.snap = rec[t], !.pc = pc])
    BY <1>3 DEF CheckFails
  <2>2. [Idle EXCEPT !.task = t, !.snap = rec[t], !.pc = pc].task = t
    BY DEF Idle
  <2>3. t \in Proc /\ t # Dispatcher
    BY ManagerAssumption DEF Proc
  <2>. QED
    BY <1>0, <2>1, <2>2, <2>3, WorkTurn
<1>. QED
  BY <1>1, <1>2, <1>3

LEMMA NextWork == ASSUME TypeOK, Orderly, WorkInv, [Next]_vars PROVE WorkInv'
<1>1. CASE UNCHANGED <<pending, job>>
  BY <1>1 DEF WorkInv, CheckersOwn, FirstStarts
<1>2. ASSUME NEW t \in Task, Submit(t) \/ Queue(t) PROVE WorkInv'
  <2>1. QueueFirst' /\ job' = job
    BY <1>2, SameFirst, EnqueueFirst, IdleWork DEF Submit, Queue
  <2>. QED
    BY <2>1 DEF WorkInv, CheckersOwn, FirstStarts, QueueFirst
<1>3. CASE \/ \E n \in Node : SyncFetch(n) \/ NodeDies(n)
           \/ SyncApply \/ SyncForget
           \/ \E n \in Node, t \in Task : WorkerRun(n, t) \/ WorkerExit(n, t)
           \/ UNCHANGED vars
  <2>1. UNCHANGED <<pending, job>>
    BY <1>3 DEF SyncFetch, SyncApply, SyncForget, WorkerRun, WorkerExit, NodeDies, vars
  <2>. QED
    BY <1>1, <2>1
<1>4. ~Crash
  BY DEF Crash, Orderly, TypeOK
<1>. QED
  BY <1>2, <1>3, <1>4, StoppersWork, DeletingWork, EndingWork, SendWorkWork, RestartersWork DEF Next

-----------------------------------------------------------------------------
(* The loop, the sync and the workers, and the attempts *)

LEMMA CheckFailsAttempts ==
    ASSUME NEW t, Grounds(t), AttemptInv(t), NEW u \in Checked, CheckFails(u)
    PROVE  AttemptInv(t)'
<1>0. /\ UNCHANGED <<wdb, wq>> /\ sync'.list \subseteq sync.list /\ todo' \subseteq todo
      /\ rec'[t] = rec[t] /\ \E j : Become(u, j)
  BY DEF CheckFails, workers, stores
<1>1. Eased(t)
  BY <1>0, OtherEases
<1>2. u \in Proc /\ u # Loop /\ u # Dispatcher
  BY ManagerAssumption DEF Proc
<1>. QED
  BY <1>0, <1>1, <1>2, TurnAttempts

\* A record that is not passed over failed, and may be retried.
LEMMA VerdictIs ==
    ASSUME NEW t, ~ShouldRestartOnSuccess(PolicyOf[t]), NEW r \in Record, Ended(r),
           Verdict(t, r) # "skip"
    PROVE  r.state = "Failed" /\ ~r.fin /\ ~r.manual
<1>1. r.manual \in BOOLEAN /\ r.fin \in BOOLEAN
  BY DEF Record
<1>2. ~r.manual
  BY <1>1 DEF Verdict
<1>3. r.state # "Completed"
  BY <1>2 DEF Verdict
<1>4. r.state = "Failed"
  BY <1>3 DEF Ended
<1>5. ~r.fin
  BY <1>1, <1>2, <1>4 DEF Verdict, IsTerminal
<1>. QED
  BY <1>2, <1>4, <1>5

LEMMA SnapshotAttempts ==
    ASSUME NEW t, Grounds(t), AttemptInv(t), LoopSnapshot
    PROVE  AttemptInv(t)'
<1>0. /\ UNCHANGED <<wdb, wq>> /\ sync'.list \subseteq sync.list /\ rec' = rec /\ job' = job
      /\ job[Loop].pc = "idle"
      /\ todo' = {e \in {[task |-> u, rec |-> rec[u]] : u \in Task} : Ended(e.rec)}
  BY DEF LoopSnapshot, At, workers, stores
<1>1. Eased(t)
  BY <1>0, OtherEases
<1>2. \A e \in todo' : e.task = t => e = [task |-> t, rec |-> rec[t]] /\ e.rec = rec[t] /\ Ended(rec[t])
  BY <1>0
<1>3. LoopOnce(t)'
  BY <1>0, <1>2 DEF LoopOnce, Busy
<1>4. ASSUME NEW e \in todo', e.task = t, Verdict(t, e.rec) # "skip"
      PROVE  Spent(t, rec[t].count) /\ Below(t, rec[t].count + 1) /\ e.rec = rec[t]
  <2>1. e.rec = rec[t] /\ Ended(rec[t]) /\ rec[t] \in Record
    BY <1>2, <1>4, GroundsAre DEF TypeOK
  <2>2. rec[t].state = "Failed" /\ ~rec[t].fin /\ ~rec[t].manual
    BY <1>4, <2>1, VerdictIs DEF Grounds, Ordinary
  <2>. QED
    BY <1>0, <2>1, <2>2, GroundsAre DEF Recorded, Known, At1, Busy
<1>5. Agrees(t, rec[t], job[Loop], todo) /\ (Accepted(job[Dispatcher], t) => Below(t, 1))
  BY GroundsAre, AgreesNow
<1>6. rec[t].count \in Nat
  BY GroundsAre, Counts
<1>7. Agrees(t, rec'[t], job'[Loop], todo')
  BY <1>0, <1>4, <1>5, <1>6 DEF Agrees
<1>. QED
  BY <1>0, <1>1, <1>3, <1>5, <1>7, GroundsAre, AttemptsKept

LEMMA VisitAttempts ==
    ASSUME NEW t, Grounds(t), AttemptInv(t), NEW e \in todo, LoopVisit(e) \/ LoopBackoff(e)
    PROVE  AttemptInv(t)'
<1> DEFINE v == Verdict(e.task, e.rec)
           j == [Idle EXCEPT !.pc = v, !.task = e.task, !.snap = e.rec]
<1>0. /\ UNCHANGED <<wdb, wq>> /\ sync'.list \subseteq sync.list /\ rec' = rec /\ rec'[t] = rec[t]
      /\ todo' = todo \ {e} /\ todo' \subseteq todo /\ job[Loop].pc = "idle"
  BY DEF LoopVisit, LoopBackoff, At, workers, stores
<1>1. Eased(t)
  BY <1>0, OtherEases
<1>2. CASE job' = job
  BY <1>0, <1>1, <1>2, QuietAttempts
<1>3. CASE Become(Loop, j) /\ v # "skip"
  <2>1. j.pc = v /\ j.task = e.task /\ j.snap = e.rec
    BY DEF Idle
  <2>2. job'[Loop] = j /\ job'[Dispatcher] = job[Dispatcher]
    BY <1>3, GroundsAre, Types, ManagerAssumption DEF Become, TypeOK, JobTypes
  <2> HIDE DEF j
  <2>3. CASE e.task # t
    <3>1. ~At1(t, "recommit")
      BY <1>0 DEF At1, Busy
    <3>. QED
      BY <1>0, <1>1, <2>1, <2>2, <2>3, <3>1, QuietAttempts
  <2>4. CASE e.task = t
    <3>1. Ready(t, e.rec.count) /\ \A f \in todo' : f.task # t
      BY <1>0, <1>3, <2>4, GroundsAre DEF Retried, LoopOnce
    <3>2. v \in {"owner", "end"}
      <4>1. e.rec.manual \in BOOLEAN
        BY GroundsAre DEF TypeOK, Record
      <4>. QED
        BY <1>3, <4>1 DEF Verdict
    <3>3. Agrees(t, rec[t], job[Loop], todo) /\ (Accepted(job[Dispatcher], t) => Below(t, 1))
      BY GroundsAre, AgreesNow
    <3>4. LoopOnce(t)'
      BY <3>1 DEF LoopOnce
    <3>5. Agrees(t, rec'[t], job'[Loop], todo')
      BY <1>0, <2>1, <2>2, <3>1, <3>2, <3>3 DEF Agrees, Ready, Busy
    <3>. QED
      BY <1>1, <2>2, <3>3, <3>4, <3>5, GroundsAre, AttemptsKept
  <2>. QED
    BY <2>3, <2>4
<1>. QED
  BY <1>2, <1>3 DEF LoopVisit, LoopBackoff, Visit

\* A report only makes a record one that may be retried by way of a failure.
LEMMA MergedIs ==
    ASSUME NEW r \in Record, NEW w \in WorkerRecord
    PROVE  LET m == Merged(r, w)
           IN  /\ m.count = r.count /\ m.manual = r.manual
               /\ m.fin = (r.fin \/ w.fin)
               /\ m.state = "Failed" => w.state = "Failed" \/ (r.state = "Failed" /\ m.fin)
               /\ r.state = "Failed" /\ (m.fin \/ w.state = "Failed") => m.state = "Failed"
<1> DEFINE seen == [r EXCEPT !.con = w.con, !.fin = @ \/ w.fin]
<1>0. r.fin \in BOOLEAN /\ w.fin \in BOOLEAN
  BY DEF Record, WorkerRecord
<1>1. /\ seen.state = r.state /\ seen.count = r.count /\ seen.manual = r.manual
      /\ seen.fin = (r.fin \/ w.fin)
  BY DEF Record
<1>2. seen \in Record
  BY <1>0 DEF Record, WorkerRecord
<1> HIDE DEF seen
<1>3. Merged(r, w) = CASE w.state = "Failed" -> [seen EXCEPT !.state = "Failed", !.why = TRUE]
                       [] w.state # "Failed" /\ ~IsTerminal(seen.state, seen.fin)
                              -> [seen EXCEPT !.state = w.state]
                       [] OTHER -> seen
  BY DEF Merged, seen
<1>4. CASE w.state = "Failed"
  <2>1. Merged(r, w) = [seen EXCEPT !.state = "Failed", !.why = TRUE]
    BY <1>3, <1>4
  <2>. QED
    BY <1>1, <1>2, <1>4, <2>1 DEF Record
<1>5. CASE w.state # "Failed" /\ ~IsTerminal(seen.state, seen.fin)
  <2>1. Merged(r, w) = [seen EXCEPT !.state = w.state]
    BY <1>3, <1>5
  <2>. QED
    BY <1>0, <1>1, <1>2, <1>5, <2>1 DEF Record, IsTerminal
<1>6. CASE w.state # "Failed" /\ IsTerminal(seen.state, seen.fin)
  <2>1. Merged(r, w) = seen
    BY <1>3, <1>6
  <2>. QED
    BY <1>1, <1>6, <2>1 DEF IsTerminal
<1>. QED
  BY <1>4, <1>5, <1>6

LEMMA LeftLess == ASSUME NEW s PROVE Left(s).list \subseteq s.list
  BY DEF Left, SyncIdle

LEMMA SyncApplyAttempts ==
    ASSUME NEW t, Grounds(t), AttemptInv(t), SyncApply
    PROVE  AttemptInv(t)'
<1>1. PICK e \in sync.list :
          /\ \/ rec' = IF Known(e.task) THEN Synced(e.task, e.rec) ELSE rec
             \/ rec' = rec
          /\ sync' = Left([sync EXCEPT !.list = @ \ {e}, !.forget = Orphan(e.task)])
  BY DEF SyncApply
<1>2. e \in Report /\ sync \in [node : Node0, list : SUBSET Report, forget : Task \union {NoTask}]
  BY GroundsAre DEF TypeOK
<1>3. /\ UNCHANGED <<wdb, wq, job>> /\ sync'.list \subseteq sync.list /\ todo' \subseteq todo
      /\ job'[Loop] = job[Loop] /\ (Accepted(job'[Dispatcher], t) <=> Accepted(job[Dispatcher], t))
      /\ (At1(t, "recommit")' <=> At1(t, "recommit"))
  <2>1. [sync EXCEPT !.list = @ \ {e}, !.forget = Orphan(e.task)].list \subseteq sync.list
    BY <1>2
  <2>2. sync'.list \subseteq sync.list
    BY <1>1, <2>1, LeftLess
  <2>. QED
    BY <2>2 DEF SyncApply, workers, At1
<1>4. Eased(t)
  BY <1>3, OtherEases
<1>5. CASE rec'[t] = rec[t]
  BY <1>3, <1>4, <1>5, QuietAttempts
<1>6. CASE rec'[t] # rec[t]
  <2>1. /\ e.task = t /\ Known(t) /\ e.rec.count = rec[t].count
        /\ rec'[t] = Merged(rec[t], e.rec)
    BY <1>1, <1>2, <1>6, GroundsAre DEF Synced, TypeOK, Report
  <2>2. rec[t] \in Record /\ e.rec \in WorkerRecord
    BY <1>2, GroundsAre DEF TypeOK, Report
  <2>3. /\ rec'[t].count = rec[t].count /\ rec'[t].manual = rec[t].manual
        /\ rec'[t].fin = (rec[t].fin \/ e.rec.fin)
        /\ rec'[t].state = "Failed" => e.rec.state = "Failed" \/ (rec[t].state = "Failed" /\ rec'[t].fin)
    BY <2>1, <2>2, MergedIs
  <2>4. ASSUME rec'[t].state = "Failed", ~rec'[t].fin PROVE Spent(t, rec'[t].count)
    <3>1. e.rec.state = "Failed" /\ ~e.rec.fin
      BY <2>3, <2>4
    <3>2. rec[t].count \in Nat /\ Tried(e.rec, rec[t].count)
      BY <2>1, <3>1, GroundsAre, Counts DEF Tried
    <3>3. Dead(t, rec[t].count) /\ \A f \in sync.list : f.task = t => f = e
      BY <2>1, <3>1, <3>2 DEF AttemptInv, Reported
    <3>. QED
      BY <2>3, <3>1, <3>3 DEF Spent, Live
  <2>5. rec'[t].state # "Absent" /\ ~rec'[t].manual /\ ~At1(t, "recommit")' => Below(t, rec'[t].count + 1)
    BY <1>3, <2>1, <2>3, GroundsAre DEF Recorded
  <2>6. rec'[t].count <= rec[t].count
    BY <2>3, GroundsAre, Counts
  <2>. QED
    BY <1>3, <1>4, <2>4, <2>5, <2>6, LoopAttempts
<1>. QED
  BY <1>5, <1>6

\* A worker forgets a task, or is gone.
LEMMA ClearedEases ==
    ASSUME NEW t, Grounds(t), AttemptInv(t), sync'.list \subseteq sync.list,
           \A n \in Node : \/ wdb'[n][t] = wdb[n][t] /\ wq'[n][t] = wq[n][t]
                           \/ wdb'[n][t] = Unknown /\ wq'[n][t] = <<>>
    PROVE  Eased(t)
<1>1. ASSUME NEW n \in Node PROVE Shifted(wq[n][t], wq'[n][t])
  <2>1. CASE wq'[n][t] = wq[n][t]
    <3>1. \A i \in DOMAIN wq[n][t] : i + 0 = i
      BY GroundsAre DEF TypeOK, WorkerTypes
    <3>. QED
      BY <2>1, <3>1 DEF Shifted
  <2>2. CASE wq'[n][t] = <<>>
    BY <2>2 DEF Shifted
  <2>. QED
    BY <2>1, <2>2
<1>2. \A c : ~Tried(Unknown, c)
  BY DEF Tried, Unknown
<1>3. Calm(t)
  BY <1>1, <1>2 DEF Calm
<1>4. Apart(t) /\ Reported(t)
  BY DEF AttemptInv
<1>. QED
  BY <1>3, <1>4, GroundsAre, CalmEases

LEMMA SyncAttempts ==
    ASSUME NEW t, Grounds(t), AttemptInv(t), (\E n \in Node : SyncFetch(n)) \/ SyncApply \/ SyncForget
    PROVE  AttemptInv(t)'
<1>a. TypeOK /\ t \in Task
  BY GroundsAre
<1>1. CASE \E n \in Node : SyncFetch(n)
  <2>0. PICK n \in Node : SyncFetch(n)
    BY <1>1
  <2>1. /\ UNCHANGED <<wdb, wq>> /\ UNCHANGED <<rec, job, todo>> /\ todo' \subseteq todo
        /\ sync'.list = {e \in {[task |-> u, rec |-> wdb[n][u]] : u \in Task} : e.rec # Unknown}
    BY <2>0 DEF SyncFetch, SyncIdle, workers, stores
  <2>2. Eased(t)
    BY <2>1, GroundsAre, FetchEases DEF AttemptInv
  <2>. QED
    BY <2>1, <2>2, QuietAttempts
<1>2. CASE SyncForget
  <2>0. UNCHANGED <<rec, job, todo>> /\ todo' \subseteq todo
    BY <1>2 DEF SyncForget, stores
  <2>1. sync'.list \subseteq sync.list
    <3>1. [sync EXCEPT !.forget = NoTask].list = sync.list
      BY GroundsAre DEF TypeOK
    <3>. QED
      BY <1>2, <3>1, LeftLess DEF SyncForget
  <2>2. \A n \in Node : \/ wdb'[n][t] = wdb[n][t] /\ wq'[n][t] = wq[n][t]
                        \/ wdb'[n][t] = Unknown /\ wq'[n][t] = <<>>
    <3>1. CASE UNCHANGED workers
      BY <3>1 DEF workers
    <3>2. CASE \E k, u : /\ wdb' = [wdb EXCEPT ![k][u] = Unknown]
                         /\ wq' = [wq EXCEPT ![k][u] = <<>>]
      <4>0. PICK k, u : /\ wdb' = [wdb EXCEPT ![k][u] = Unknown]
                        /\ wq' = [wq EXCEPT ![k][u] = <<>>]
        BY <3>2
      <4>1. ASSUME NEW n \in Node
            PROVE  wdb'[n][t] = IF n = k /\ t = u THEN Unknown ELSE wdb[n][t]
        BY <1>a, <4>0 DEF TypeOK, WorkerTypes
      <4>2. ASSUME NEW n \in Node
            PROVE  wq'[n][t] = IF n = k /\ t = u THEN <<>> ELSE wq[n][t]
        BY <1>a, <4>0 DEF TypeOK, WorkerTypes
      <4>. QED
        BY <4>1, <4>2
    <3>. QED
      BY <1>2, <3>1, <3>2 DEF SyncForget
  <2>3. Eased(t)
    BY <2>1, <2>2, ClearedEases
  <2>. QED
    BY <2>0, <2>3, QuietAttempts
<1>. QED
  BY <1>1, <1>2, SyncApplyAttempts

LEMMA WorkersAttempts ==
    ASSUME NEW t, Grounds(t), AttemptInv(t),
           \/ \E n \in Node, u \in Task : WorkerRun(n, u) \/ WorkerExit(n, u)
           \/ \E n \in Node : NodeDies(n)
    PROVE  AttemptInv(t)'
<1>0. UNCHANGED <<rec, job, todo, sync>> /\ todo' \subseteq todo /\ sync'.list \subseteq sync.list
  BY DEF WorkerRun, WorkerExit, NodeDies, stores
<1>a. Apart(t) /\ Reported(t) /\ TypeOK /\ TypeOK' /\ t \in Task
  BY GroundsAre DEF AttemptInv
<1>1. ASSUME NEW n \in Node, NEW u \in Task, WorkerRun(n, u) PROVE Eased(t)
  <2> DEFINE o == Head(wq[n][u])
  <2>0. /\ wq[n][u] # <<>> /\ wq' = [wq EXCEPT ![n][u] = Tail(@)]
        /\ \A m \in Node : m # n \/ u # t => wdb'[m][t] = wdb[m][t] /\ wq'[m][t] = wq[m][t]
    <3>1. wq[n][u] # <<>> /\ wq' = [wq EXCEPT ![n][u] = Tail(@)]
      BY <1>1 DEF WorkerRun
    <3>2. wdb' = wdb \/ \E w : wdb' = [wdb EXCEPT ![n][u] = w]
      BY <1>1 DEF WorkerRun
    <3>3. \A m \in Node : m # n \/ u # t => wdb'[m][t] = wdb[m][t]
      BY <1>a, <3>2 DEF TypeOK, WorkerTypes
    <3>4. \A m \in Node : m # n \/ u # t => wq'[m][t] = wq[m][t]
      BY <1>a, <3>1 DEF TypeOK, WorkerTypes
    <3>. QED
      BY <3>1, <3>3, <3>4
  <2>1. CASE u # t
    BY <1>0, <1>a, <2>0, <2>1, SameCalm, CalmEases
  <2>2. CASE u = t /\ (wdb'[n][t] = wdb[n][t] \/ wdb'[n][t].fin)
    <3>0. wq[n][t] \in Seq(Order) /\ wq'[n][t] = Tail(wq[n][t]) /\ \A m \in Node : \A i \in DOMAIN wq[m][t] : i + 0 = i
      BY <1>a, <2>0, <2>2 DEF TypeOK, WorkerTypes
    <3>1. Shifted(wq[n][t], wq'[n][t])
      BY <2>0, <2>2, <3>0, TailShifted
    <3>2. \A m \in Node : m # n => Shifted(wq[m][t], wq'[m][t])
      BY <2>0, <3>0 DEF Shifted
    <3>3. Calm(t)
      BY <2>0, <2>2, <3>1, <3>2 DEF Calm, Tried
    <3>. QED
      BY <1>0, <1>a, <3>3, CalmEases
  <2>3. CASE u = t /\ o.kind = "start" /\ wdb'[n][t].count = o.count
    BY <1>0, <1>a, <2>0, <2>3, RunEases
  <2>4. \/ wdb'[n][u] = wdb[n][u] \/ wdb'[n][u].fin
        \/ o.kind = "start" /\ wdb'[n][u].count = o.count
    <3>0. \A w : wdb' = [wdb EXCEPT ![n][u] = w] => wdb'[n][u] = w
      BY <1>a DEF TypeOK, WorkerTypes
    <3>1. \/ wdb' = wdb
          \/ wdb' = [wdb EXCEPT ![n][u] = Ran(wdb[n][u], o)]
          \/ /\ o.kind = "start"
             /\ \E c \in BOOLEAN :
                    wdb' = [wdb EXCEPT ![n][u] = [Ran(wdb[n][u], o) EXCEPT !.state = "Failed", !.con = c]]
      BY <1>1 DEF WorkerRun
    <3>2. o.kind = "start" => /\ Ran(wdb[n][u], o).count = o.count
                              /\ \A c : [Ran(wdb[n][u], o) EXCEPT !.state = "Failed", !.con = c].count = o.count
      BY DEF Ran
    <3>3. o.kind # "start" => Ran(wdb[n][u], o).fin
      BY DEF Ran
    <3>4. CASE wdb' = [wdb EXCEPT ![n][u] = Ran(wdb[n][u], o)]
      <4>1. wdb'[n][u] = Ran(wdb[n][u], o)
        BY <3>0, <3>4
      <4>. QED
        BY <3>2, <3>3, <4>1
    <3>5. ASSUME NEW c, o.kind = "start",
                 wdb' = [wdb EXCEPT ![n][u] = [Ran(wdb[n][u], o) EXCEPT !.state = "Failed", !.con = c]]
          PROVE  wdb'[n][u].count = o.count
      <4>1. wdb'[n][u] = [Ran(wdb[n][u], o) EXCEPT !.state = "Failed", !.con = c]
        BY <3>0, <3>5
      <4>. QED
        BY <3>2, <3>5, <4>1
    <3>. QED
      BY <3>1, <3>4, <3>5
  <2>. QED
    BY <2>1, <2>2, <2>3, <2>4
<1>2. ASSUME NEW n \in Node, NEW u \in Task, WorkerExit(n, u) PROVE Eased(t)
  <2>0. /\ wq' = wq /\ \A m \in Node : m # n \/ u # t => wdb'[m][t] = wdb[m][t]
    BY <1>2, <1>a DEF WorkerExit, TypeOK, WorkerTypes
  <2>1. u = t => /\ wdb[n][t].state = "Running" /\ wdb'[n][t].count = wdb[n][t].count
                 /\ wdb[n][t].fin => wdb'[n][t].fin
    BY <1>2, <1>a DEF WorkerExit, TypeOK, WorkerTypes, WorkerRecord
  <2>2. \A m \in Node : Shifted(wq[m][t], wq'[m][t])
    <3>1. \A m \in Node : \A i \in DOMAIN wq[m][t] : i + 0 = i
      BY <1>a DEF TypeOK, WorkerTypes
    <3>. QED
      BY <2>0, <3>1 DEF Shifted
  <2>3. Calm(t)
    BY <2>0, <2>1, <2>2 DEF Calm, Tried
  <2>. QED
    BY <1>0, <1>a, <2>3, CalmEases
<1>3. ASSUME NEW n \in Node, NodeDies(n) PROVE Eased(t)
  <2>1. \A m \in Node : \/ wdb'[m][t] = wdb[m][t] /\ wq'[m][t] = wq[m][t]
                        \/ wdb'[m][t] = Unknown /\ wq'[m][t] = <<>>
    BY <1>3, <1>a DEF NodeDies, TypeOK, WorkerTypes
  <2>. QED
    BY <1>0, <2>1, ClearedEases
<1>4. Eased(t)
  BY <1>1, <1>2, <1>3
<1>. QED
  BY <1>0, <1>4, QuietAttempts

LEMMA NextAttempts ==
    ASSUME NEW t, Grounds(t), AttemptInv(t), [Next]_vars
    PROVE  AttemptInv(t)'
<1>1. CASE UNCHANGED vars
  <2>1. UNCHANGED <<rec, wdb, wq, job, todo, sync>> /\ todo' \subseteq todo /\ sync'.list \subseteq sync.list
    BY <1>1 DEF vars, stores, workers
  <2>2. Eased(t)
    BY <2>1, OtherEases
  <2>. QED
    BY <2>1, <2>2, QuietAttempts
<1>2. CASE LoopNext
  BY <1>2, SnapshotAttempts, VisitAttempts DEF LoopNext
<1>3. CASE SendWork
  BY <1>3, RoutingAttempts, PostAttempts, CommitAttempts DEF SendWork
<1>4. ~Crash
  BY GroundsAre DEF Crash, Orderly, TypeOK
<1>. QED
  BY <1>1, <1>2, <1>3, <1>4, ClientAttempts, StopperAttempts, DeletingAttempts, EndingAttempts,
     RestartingAttempts, CheckFailsAttempts, SyncAttempts, WorkersAttempts DEF Next

-----------------------------------------------------------------------------
(* A task whose first start is on its way was so before *)

LEMMA StartingTurn ==
    ASSUME TypeOK, NEW t \in Task, NEW p \in Proc, NEW j, Become(p, j),
           UNCHANGED <<adding, submitted>>, Queued(pending', t) => Starting(t),
           p = Dispatcher /\ (InHand(j, t) \/ Accepted(j, t)) => Starting(t)
    PROVE  Starting(t)' => Starting(t)
<1>1. job'[p] = j /\ \A q \in Proc : q # p => job'[q] = job[q]
  BY DEF Become, TypeOK, JobTypes
<1>. QED
  BY <1>1, Types DEF Starting, Unsent

LEMMA QueuedStarting == \A t : Queued(pending, t) => Starting(t)
  BY DEF Starting, Unsent

LEMMA EnqueueStarting ==
    ASSUME TypeOK, NEW t \in Task, NEW u, NEW o, Enqueued(u, o), o.kind = "start" /\ t = u => Starting(t)
    PROVE  Queued(pending', t) => Starting(t)
<1> DEFINE e == [task |-> u, order |-> o]
<1>1. pending' = Append(pending, e) /\ pending \in Seq(Event) /\ e.order = o /\ e.task = u
  BY DEF Enqueued, TypeOK
<1> HIDE DEF e
<1>2. \A i \in DOMAIN pending' : pending'[i] = e \/ (i \in DOMAIN pending /\ pending'[i] = pending[i])
  BY <1>1
<1>. QED
  BY <1>1, <1>2, QueuedStarting DEF Queued

LEMMA StopperStarting ==
    ASSUME NEW t, Grounds(t), NEW s \in Stopper, Stopping(s) \/ \E u \in Task : StopRead(s, u)
    PROVE  Starting(t)' => Starting(t)
<1>0. /\ s \in Proc /\ s # Dispatcher /\ t \in Task /\ TypeOK /\ UNCHANGED <<adding, submitted>>
  BY Types, ManagerAssumption DEF Grounds, Stopping, StopRead, StopDecide, StopMark, StopQueue, client
<1>1. Queued(pending', t) => Starting(t)
  <2>1. CASE StopQueue(s)
    <3>1. Stop(job[s].snap.count, job[s].snap.why).kind = "stop"
      BY DEF Stop
    <3>. QED
      BY <1>0, <2>1, <3>1, EnqueueStarting DEF StopQueue
  <2>2. CASE pending' = pending
    BY <2>2, QueuedStarting
  <2>. QED
    BY <2>1, <2>2 DEF Stopping, StopRead, StopDecide, StopMark
<1>2. \E j : Become(s, j)
  BY DEF Stopping, StopRead, StopDecide, StopMark, StopQueue, Goto, Finish
<1>. QED
  BY <1>0, <1>1, <1>2, StartingTurn

LEMMA RoutineStarting ==
    ASSUME NEW t, Grounds(t), NEW p \in Proc, Deleting(p) \/ Ending(p)
    PROVE  Starting(t)' => Starting(t)
<1>0. t \in Task /\ TypeOK /\ UNCHANGED <<adding, submitted>> /\ job[p] \in Job /\ job[p].pc # "idle"
  BY BusyJob DEF Grounds, Deleting, Delete, Drop, Clean, Ending, MarkFailed, End, Kill, Undo, client, At
<1>1. Queued(pending', t) => Starting(t)
  <2>1. CASE Drop(p)
    <3>1. PICK q \in UpTo(Len(pending), {pending[i] : i \in DOMAIN pending}) : pending' = q
      BY <2>1 DEF Drop
    <3>2. \A i \in DOMAIN pending' : \E k \in DOMAIN pending : pending'[i] = pending[k]
      BY <3>1 DEF UpTo
    <3>. QED
      BY <3>2, QueuedStarting DEF Queued
  <2>2. CASE pending' = pending
    BY <2>2, QueuedStarting
  <2>. QED
    BY <2>1, <2>2 DEF Deleting, Delete, Clean, Ending, MarkFailed, End, Kill, Undo
<1>2. \E j : Become(p, j) /\ (p = Dispatcher => j.pc \in {"idle", "drop", "clean", "kill"})
  <2>1. [job[p] EXCEPT !.pc = "drop", !.old = asg[job[p].task]].pc = "drop"
        /\ [job[p] EXCEPT !.pc = "kill", !.old = asg[job[p].task]].pc = "kill"
        /\ \A pc : [job[p] EXCEPT !.pc = pc].pc = pc
    BY <1>0 DEF Job
  <2>2. CASE Delete(p)
    <3>1. Become(p, [job[p] EXCEPT !.pc = "drop", !.old = asg[job[p].task]])
      BY <2>2 DEF Delete, Grounds, Orderly, Strikes
    <3>. QED
      BY <2>1, <3>1
  <2>3. CASE Drop(p) \/ Clean(p)
    <3>1. Become(p, [job[p] EXCEPT !.pc = "clean"]) \/ Become(p, Idle)
      BY <2>3 DEF Drop, Clean, Goto, Finish
    <3>. QED
      BY <2>1, <3>1, IdleIs
  <2>4. CASE MarkFailed(p) \/ Kill(p)
    <3>1. Become(p, Idle)
      BY <2>4 DEF MarkFailed, Kill, Finish
    <3>. QED
      BY <3>1, IdleIs
  <2>5. CASE End(p)
    <3>1. Become(p, [job[p] EXCEPT !.pc = "kill", !.old = asg[job[p].task]])
      BY <2>5 DEF End
    <3>. QED
      BY <2>1, <3>1
  <2>6. CASE Undo(p)
    <3>1. Become(p, [job[p] EXCEPT !.pc = "retry"]) \/ Become(p, Idle)
      BY <2>6 DEF Undo, Goto, Finish
    <3>2. p = Dispatcher => Become(p, Idle)
      BY <2>6 DEF Undo, Finish, Grounds, StartInv, Roles, DispatcherRole
    <3>. QED
      BY <3>1, <3>2, IdleIs
  <2>. QED
    BY <2>2, <2>3, <2>4, <2>5, <2>6 DEF Deleting, Ending
<1>3. PICK j : Become(p, j) /\ (p = Dispatcher => j.pc \in {"idle", "drop", "clean", "kill"})
  BY <1>2
<1>4. p = Dispatcher => ~InHand(j, t) /\ ~Accepted(j, t)
  BY <1>3 DEF InHand, Unplaced, Accepted
<1>. QED
  BY <1>0, <1>1, <1>3, <1>4, StartingTurn

\* The dispatcher has a start in hand, or had it in its queue.
LEMMA HandStarting ==
    ASSUME NEW t, NEW j, j.task = job[Dispatcher].task, j.order = job[Dispatcher].order,
           job[Dispatcher].pc \in {"route", "place", "post"},
           j.pc = "commit" => j.order.kind = "start"
    PROVE  InHand(j, t) \/ Accepted(j, t) => Starting(t)
  BY DEF InHand, Unplaced, Starts, Busy, Accepted, Starting, Unsent

LEMMA SendingStarting ==
    ASSUME NEW t, Grounds(t), SendWork
    PROVE  Starting(t)' => Starting(t)
<1> DEFINE J == job[Dispatcher]
           u == J.task
           quiet(j) == InHand(j, t) \/ Accepted(j, t) => Starting(t)
<1>0. /\ t \in Task /\ TypeOK /\ UNCHANGED <<adding, submitted>> /\ Dispatcher \in Proc
      /\ J \in Job /\ DispatcherRole(J)
  BY Types, BusyJob DEF Grounds, StartInv, Roles, SendWork, Dequeue, Route, Unowned, Place, Post,
                        Release, Retry, Commit, client
<1>1. \A j : j.pc \in {"idle", "delete", "undo", "unowned", "release"} => quiet(j)
  BY DEF InHand, Unplaced, Accepted
<1>2. CASE Dequeue
  <2> DEFINE j == [Idle EXCEPT !.pc = "route", !.task = Head(pending).task,
                               !.order = Head(pending).order, !.snap = Fresh]
  <2>1. /\ Become(Dispatcher, j) /\ j.order = Head(pending).order /\ j.task = Head(pending).task
        /\ j.pc = "route"
    BY <1>2 DEF Dequeue, Idle
  <2> HIDE DEF j
  <2>2. pending # <<>> /\ pending' = Tail(pending) /\ pending \in Seq(Event)
    BY <1>0, <1>2 DEF Dequeue, TypeOK
  <2>3. /\ 1 \in DOMAIN pending /\ Head(pending) = pending[1]
        /\ \A i \in DOMAIN Tail(pending) : i + 1 \in DOMAIN pending /\ Tail(pending)[i] = pending[i + 1]
    BY <2>2
  <2>4. Queued(pending', t) => Starting(t)
    BY <2>2, <2>3, QueuedStarting DEF Queued
  <2>5. quiet(j)
    BY <2>1, <2>3, QueuedStarting DEF Queued, InHand, Starts, Busy, Accepted
  <2>. QED
    BY <1>0, <2>1, <2>4, <2>5, StartingTurn
<1>3. CASE Route \/ Place \/ Post
  <2>0. J.pc \in {"route", "place", "post"} /\ J.pc # "idle"
    BY <1>3 DEF Route, Place, Post, At
  <2>1. Queued(pending', t) => Starting(t)
    <3>1. CASE Place
      <4>1. pending' = pending \/ Enqueued(u, Start(0))
        BY <3>1 DEF Place
      <4>2. t = u => Starting(t)
        BY <1>0, <2>0, <3>1
           DEF Place, At, DispatcherRole, Starting, Unsent, InHand, Unplaced, Starts, Busy
      <4>. QED
        BY <1>0, <4>1, <4>2, QueuedStarting, EnqueueStarting
    <3>2. CASE pending' = pending
      BY <3>2, QueuedStarting
    <3>. QED
      BY <1>3, <3>1, <3>2 DEF Route, Post
  <2>2. ASSUME NEW pc, pc = "commit" => J.order.kind = "start", NEW n
        PROVE  quiet([J EXCEPT !.pc = pc]) /\ quiet([J EXCEPT !.pc = pc, !.node = n])
    <3> DEFINE j == [J EXCEPT !.pc = pc]
               k == [J EXCEPT !.pc = pc, !.node = n]
    <3>1. j.pc = pc /\ j.task = u /\ j.order = J.order /\ k.pc = pc /\ k.task = u /\ k.order = J.order
      BY <1>0 DEF Job
    <3> HIDE DEF j, k
    <3>2. quiet(j) /\ quiet(k)
      BY <2>0, <2>2, <3>1, HandStarting
    <3>. QED
      BY <3>2 DEF j, k
  <2>3. ASSUME NEW pc, Goto(Dispatcher, pc), pc = "commit" => J.order.kind = "start"
        PROVE  \E j : Become(Dispatcher, j) /\ quiet(j)
    BY <2>2, <2>3 DEF Goto
  <2>4. ASSUME NEW n, Become(Dispatcher, [J EXCEPT !.pc = "post", !.node = n])
        PROVE  \E j : Become(Dispatcher, j) /\ quiet(j)
    BY <2>2, <2>4
  <2>5. Finish(Dispatcher) => \E j : Become(Dispatcher, j) /\ quiet(j)
    BY <1>1, IdleIs DEF Finish
  <2>6. CASE Route
    <3> DEFINE n == asg[u]
               stop == J.order.kind = "stop"
               free == ~Conflicts(n, u, TRUE)
               to == IF stop THEN "unowned" ELSE "place"
    <3>1. CASE n = NoNode
      <4>1. Goto(Dispatcher, to) /\ to # "commit"
        BY <2>6, <3>1 DEF Route
      <4> HIDE DEF to, quiet
      <4>2. \E j : Become(Dispatcher, j) /\ quiet(j)
        BY <2>3, <4>1
      <4>. QED
        BY <1>0, <2>1, <4>2, StartingTurn DEF quiet
    <3>2. CASE n # NoNode /\ (stop \/ free)
      <4>1. Become(Dispatcher, [J EXCEPT !.pc = "post", !.node = n])
        BY <2>6, <3>2 DEF Route
      <4>. QED
        BY <1>0, <2>1, <2>4, <4>1, StartingTurn
    <3>3. CASE n # NoNode /\ ~stop /\ ~free
      <4>1. Goto(Dispatcher, "fail")
        BY <2>6, <3>3 DEF Route
      <4>. QED
        BY <1>0, <2>1, <2>3, <4>1, StartingTurn
    <3>. QED
      BY <3>1, <3>2, <3>3
  <2>7. CASE Place
    <3>1. \/ Finish(Dispatcher) \/ Goto(Dispatcher, "end")
          \/ \E n : Become(Dispatcher, [J EXCEPT !.pc = "post", !.node = n])
      BY <2>7 DEF Place, Select
    <3>2. \E j : Become(Dispatcher, j) /\ quiet(j)
      BY <2>3, <2>4, <2>5, <3>1
    <3>. QED
      BY <1>0, <2>1, <3>2, StartingTurn
  <2>8. CASE Post
    <3>1. \/ Finish(Dispatcher)
          \/ Goto(Dispatcher, "retry") \/ Goto(Dispatcher, "release") \/ Goto(Dispatcher, "burn")
          \/ J.order.kind # "stop" /\ Goto(Dispatcher, "commit")
      BY <2>8 DEF Post
    <3>2. J.order.kind \in {"start", "stop"}
      BY <1>0 DEF Job, Order
    <3>3. \E j : Become(Dispatcher, j) /\ quiet(j)
      BY <2>3, <2>5, <3>1, <3>2
    <3>. QED
      BY <1>0, <2>1, <3>3, StartingTurn
  <2>. QED
    BY <1>3, <2>6, <2>7, <2>8
<1>4. CASE Unowned \/ Release \/ Retry \/ Commit
  <2>1. Queued(pending', t) => Starting(t)
    <3>1. CASE Retry
      <4>1. Enqueued(u, J.order)
        BY <3>1 DEF Retry
      <4>2. J.order.kind = "start" /\ t = u => Starting(t)
        BY <3>1 DEF Retry, At, Starting, Unsent, InHand, Unplaced, Starts, Busy
      <4>. QED
        BY <1>0, <4>1, <4>2, EnqueueStarting
    <3>2. CASE pending' = pending
      BY <3>2, QueuedStarting
    <3>. QED
      BY <1>4, <3>1, <3>2 DEF Unowned, Release, Commit
  <2>2. \E j : Become(Dispatcher, j) /\ j.pc \in {"idle", "delete", "undo"}
    <3>1. \A x : [J EXCEPT !.pc = "delete", !.snap = x].pc = "delete"
                 /\ [J EXCEPT !.pc = "undo", !.again = x].pc = "undo"
      BY <1>0 DEF Job
    <3>2. \/ Become(Dispatcher, Idle)
          \/ \E x : \/ Become(Dispatcher, [J EXCEPT !.pc = "delete", !.snap = x])
                    \/ Become(Dispatcher, [J EXCEPT !.pc = "undo", !.again = x])
      BY <1>4 DEF Unowned, Release, Retry, Commit, Finish
    <3>. QED
      BY <3>1, <3>2, IdleIs
  <2>. QED
    BY <1>0, <1>1, <2>1, <2>2, StartingTurn
<1>. QED
  BY <1>2, <1>3, <1>4 DEF SendWork

LEMMA StartingKept ==
    ASSUME NEW t, Grounds(t), [Next]_vars
    PROVE  Starting(t)' => Starting(t)
<1>0. t \in Task /\ TypeOK
  BY DEF Grounds
<1>1. ASSUME NEW u \in Task, Submit(u) PROVE Starting(t)' => Starting(t)
  BY <1>1 DEF Submit, Starting, Unsent
<1>2. ASSUME NEW u \in Task, Queue(u) PROVE Starting(t)' => Starting(t)
  <2>1. t = u => Starting(t)
    BY <1>2 DEF Queue, Starting, Unsent
  <2>2. Queued(pending', t) => Starting(t)
    BY <1>0, <1>2, <2>1, EnqueueStarting DEF Queue
  <2>. QED
    BY <1>2, <2>1, <2>2 DEF Queue, Starting, Unsent
<1>3. ASSUME NEW p \in Restarter, Restarting(p) PROVE Starting(t)' => Starting(t)
  <2>1. /\ UNCHANGED <<adding, submitted, pending>> /\ p \in Proc /\ p # Dispatcher
        /\ \E j : Become(p, j)
    BY <1>3, Restarters DEF Restarting, RestartOwner, RestartPick, RestartPost, Recommit, Move,
                            Select, Goto, Finish, client
  <2>. QED
    BY <1>0, <2>1, QueuedStarting, StartingTurn
<1>4. CASE LoopNext \/ \E u \in Checked : CheckFails(u)
  <2>1. UNCHANGED <<adding, submitted, pending>>
    BY <1>4 DEF LoopNext, LoopSnapshot, LoopVisit, LoopBackoff, CheckFails, client
  <2>2. job' = job \/ \E p \in Proc : p # Dispatcher /\ \E j : Become(p, j)
    BY <1>4, Types, ManagerAssumption
       DEF LoopNext, LoopSnapshot, LoopVisit, LoopBackoff, CheckFails, Visit, Proc
  <2>3. CASE job' = job
    BY <2>1, <2>3 DEF Starting, Unsent
  <2>. QED
    BY <1>0, <2>1, <2>2, <2>3, QueuedStarting, StartingTurn
<1>5. CASE \/ \E n \in Node : SyncFetch(n) \/ NodeDies(n)
           \/ SyncApply \/ SyncForget
           \/ \E n \in Node, u \in Task : WorkerRun(n, u) \/ WorkerExit(n, u)
           \/ UNCHANGED vars
  <2>1. UNCHANGED <<adding, submitted, pending, job>>
    BY <1>5 DEF SyncFetch, SyncApply, SyncForget, WorkerRun, WorkerExit, NodeDies, vars, client
  <2>. QED
    BY <2>1 DEF Starting, Unsent
<1>6. ~Crash
  BY DEF Grounds, Crash, Orderly, TypeOK
<1>. QED
  BY <1>1, <1>2, <1>3, <1>4, <1>5, <1>6, StopperStarting, RoutineStarting, SendingStarting DEF Next

-----------------------------------------------------------------------------
(* Stops, step by step *)

Firm(t) == Grounds(t) /\ AttemptInv(t) /\ StopInv(t)
KeepsStop(t) == t \in stopped /\ rec'[t].state \in {"Scheduled", "Running"} =>
                    rec[t].state \notin {"Absent", "Failed"} /\ rec'[t].count = rec[t].count
StopStep(t) == StopInv(t)' /\ KeepsStop(t)

LEMMA FirmIs ==
    ASSUME NEW t, Firm(t)
    PROVE  /\ Grounds(t) /\ AttemptInv(t) /\ StopInv(t)
           /\ TypeOK /\ TypeOK' /\ LifeInv /\ JobsKnown /\ StartInv /\ Orderly /\ t \in Task
           /\ LoopOnce(t) /\ Recorded(t) /\ Retried(t) /\ rec[t] \in Record /\ rec'[t] \in Record
           /\ Starting(t) => asg[t] = NoNode /\ Alone(t)
<1>1. rec[t] \in Record /\ rec'[t] \in Record
  BY DEF Firm, Grounds, TypeOK
<1>2. Starting(t) => asg[t] = NoNode /\ Alone(t)
  BY DEF Firm, Grounds, StartInv, Starting, Awaited, Untouched
<1>. QED
  BY <1>1, <1>2, GroundsAre DEF Firm

\* A stop is marked where the task has an owner.
LEMMA MarkingKept ==
    ASSUME NEW t, Firm(t), [Next]_vars, Starting(t)
    PROVE  ~Marking(t)'
<1>1. ~Marking(t) /\ asg[t] = NoNode /\ TypeOK
  BY FirmIs DEF StopInv
<1>2. ASSUME NEW s \in Stopper, Busy(job'[s], t), job'[s].pc = "mark"
      PROVE  FALSE
  <2>0. s \in Proc /\ s # Dispatcher /\ s \notin Restarter
    BY Restarters, Types
  <2>1. job'[s] # job[s]
    BY <1>1, <1>2 DEF Marking
  <2>2. ASSUME NEW p \in Proc, NEW j, Become(p, j) PROVE p = s /\ job'[s] = j
    BY <1>1, <2>0, <2>1, <2>2 DEF Become, TypeOK, JobTypes
  <2>3. StopperRole(job[s])
    BY FirmIs DEF StartInv, Roles
  <2>4. ~\E r \in Stopper : Stopping(r) \/ \E u \in Task : StopRead(r, u)
    <3>1. ASSUME NEW r \in Stopper, Stopping(r) \/ \E u \in Task : StopRead(r, u) PROVE FALSE
      <4>0. r \in Proc /\ job[r] \in Job
        BY <1>1, BusyJob, Types
      <4>1. \E j : Become(r, j)
        BY <3>1 DEF Stopping, StopRead, StopDecide, StopMark, StopQueue, Goto, Finish
      <4>2. r = s
        BY <2>2, <4>0, <4>1
      <4>3. ~StopDecide(s)
        <5>1. ASSUME StopDecide(s) PROVE FALSE
          <6> DEFINE pc == IF Deletable(job[s].task, job[s].snap) THEN "delete" ELSE "mark"
                     j == [job[s] EXCEPT !.pc = pc]
          <6>1. job'[s] = j
            BY <2>0, <2>2, <5>1 DEF StopDecide, Goto
          <6>2. j.pc = pc /\ j.task = job[s].task
            BY <1>1, <2>0, GotoIs
          <6>3. job[s].task = t /\ ~Deletable(job[s].task, job[s].snap)
            BY <1>2, <6>1, <6>2 DEF Busy
          <6>. QED
            BY <1>1, <6>3 DEF Deletable
        <5>. QED
          BY <5>1
      <4>4. ASSUME NEW j, Become(s, j) PROVE j.pc = "mark"
        BY <1>2, <2>0, <2>2, <4>4
      <4>5. /\ [job[s] EXCEPT !.pc = "queue"].pc = "queue"
            /\ \A u : [Idle EXCEPT !.pc = "decide", !.task = u, !.snap = rec[u]].pc = "decide"
        BY <4>0, <4>2 DEF Job, Idle
      <4>6. ~StopMark(s) /\ ~StopQueue(s) /\ ~\E u \in Task : StopRead(s, u)
        BY <4>4, <4>5, IdleIs DEF StopMark, StopQueue, StopRead, Goto, Finish
      <4>. QED
        BY <3>1, <4>2, <4>3, <4>6 DEF Stopping
    <3>. QED
      BY <3>1
  <2>5. ~\E p \in Proc : Deleting(p) \/ Ending(p)
    <3>1. ASSUME NEW p \in Proc, Deleting(p) \/ Ending(p) PROVE FALSE
      <4>0. job[p] \in Job
        BY <1>1, BusyJob
      <4>1. \E j : Become(p, j) /\ j.pc # "mark"
        <5>1. /\ \A pc : [job[p] EXCEPT !.pc = pc].pc = pc
              /\ \A pc, x : [job[p] EXCEPT !.pc = pc, !.old = x].pc = pc
          BY <4>0 DEF Job
        <5>2. \/ Become(p, Idle)
              \/ \E pc \in {"retry", "clean"} : Become(p, [job[p] EXCEPT !.pc = pc])
              \/ \E pc \in {"drop", "kill"} : \E x : Become(p, [job[p] EXCEPT !.pc = pc, !.old = x])
          BY <3>1 DEF Deleting, Delete, Drop, Clean, Ending, MarkFailed, End, Kill, Undo, Goto, Finish
        <5>. QED
          BY <5>1, <5>2, IdleIs
      <4>. QED
        BY <1>2, <2>2, <4>1
    <3>. QED
      BY <3>1
  <2>6. ~SendWork
    <3>1. SendWork => \E j : Become(Dispatcher, j)
      BY DEF SendWork, Dequeue, Route, Unowned, Place, Post, Release, Retry, Commit, Select, Goto, Finish
    <3>. QED
      BY <2>0, <2>2, <3>1, Types
  <2>7. ~\E p \in Restarter : Restarting(p)
    <3>1. ASSUME NEW p \in Restarter, Restarting(p) PROVE \E j : Become(p, j)
      BY <3>1 DEF Restarting, RestartOwner, RestartPick, RestartPost, Recommit, Move, Select, Goto, Finish
    <3>. QED
      BY <2>0, <2>2, <3>1, Restarters
  <2>8. ~LoopNext /\ ~\E u \in Checked : CheckFails(u)
    <3>1. LoopNext => job' = job \/ \E j : Become(Loop, j)
      BY DEF LoopNext, LoopSnapshot, LoopVisit, LoopBackoff, Visit
    <3>2. \A u \in Checked : CheckFails(u) => \E j : Become(u, j)
      BY DEF CheckFails
    <3>3. Loop \in Restarter /\ Checked \subseteq Restarter
      BY DEF Restarter
    <3>. QED
      BY <2>0, <2>1, <2>2, <3>1, <3>2, <3>3, Restarters
  <2>9. job' # job
    BY <2>1
  <2>10. ~Crash
    BY FirmIs DEF Crash, Orderly, TypeOK
  <2>. QED
    BY <2>4, <2>5, <2>6, <2>7, <2>8, <2>9, <2>10
       DEF Next, Submit, Queue, SyncFetch, SyncApply, SyncForget, WorkerRun, WorkerExit, NodeDies, vars
<1>. QED
  BY <1>2 DEF Marking

\* The loop does not try again a task that is over.
LEMMA OverLoop ==
    ASSUME NEW t, Firm(t), [Next]_vars, Over(t)
    PROVE  /\ ~(Busy(job'[Loop], t) /\ job'[Loop].pc \in Attempting)
           /\ \A e \in todo' : e.task = t => Verdict(t, e.rec) = "skip"
<1>0. TypeOK /\ Loop \in Proc /\ Loop # Dispatcher /\ Loop \notin Stopper /\ Loop \notin Checked
  BY FirmIs, Types, ManagerAssumption
<1>1. ASSUME NEW p \in Proc, NEW j, Become(p, j), p # Loop PROVE job'[Loop] = job[Loop]
  BY <1>0, <1>1 DEF Become, TypeOK, JobTypes
<1>2. ASSUME NEW e \in todo', e.task = t PROVE Verdict(t, e.rec) = "skip"
  <2>1. CASE LoopSnapshot
    <3>1. e.rec = rec[t]
      BY <1>2, <2>1 DEF LoopSnapshot
    <3>2. rec[t].manual \in BOOLEAN
      BY FirmIs DEF Record
    <3>. QED
      BY <3>1, <3>2 DEF Verdict, Over, IsTerminal
  <2>2. CASE todo' \subseteq todo
    BY <1>2, <2>2 DEF Over
  <2>3. LoopSnapshot \/ todo' \subseteq todo
    <3>1. CASE SendWork
      BY <3>1 DEF SendWork, Dequeue, Route, Unowned, Place, Post, Release, Retry, Commit
    <3>2. CASE \E p \in Restarter : Restarting(p)
      BY <3>2 DEF Restarting, RestartOwner, RestartPick, RestartPost, Recommit, Move
    <3>3. CASE \E p \in Proc : Deleting(p) \/ Ending(p)
      BY <3>3 DEF Deleting, Delete, Drop, Clean, Ending, MarkFailed, End, Kill, Undo
    <3>4. CASE LoopNext \/ Crash
      BY <3>4 DEF LoopNext, LoopVisit, LoopBackoff, Crash
    <3>5. CASE \E s \in Stopper : Stopping(s) \/ \E u \in Task : StopRead(s, u)
      BY <3>5 DEF Stopping, StopRead, StopDecide, StopMark, StopQueue
    <3>. QED
      BY <3>1, <3>2, <3>3, <3>4, <3>5
         DEF Next, Submit, Queue, CheckFails, SyncFetch, SyncApply, SyncForget, WorkerRun, WorkerExit,
             NodeDies, vars
  <2>. QED
    BY <2>1, <2>2, <2>3
<1>3. ASSUME Busy(job'[Loop], t), job'[Loop].pc \in Attempting PROVE FALSE
  <2>1. job'[Loop] # job[Loop]
    BY <1>3 DEF Over
  <2>2. ASSUME NEW p \in Proc, NEW j, Become(p, j) PROVE p = Loop /\ job'[Loop] = j
    BY <1>0, <1>1, <2>1, <2>2 DEF Become, TypeOK, JobTypes
  <2>3. ASSUME NEW p \in Proc, Deleting(p) \/ Ending(p) PROVE FALSE
    <3>0. job[p] \in Job
      BY <1>0, BusyJob
    <3>1. \E j : Become(p, j) /\ j.pc \notin Attempting
      <4>1. /\ \A pc : [job[p] EXCEPT !.pc = pc].pc = pc
            /\ \A pc, x : [job[p] EXCEPT !.pc = pc, !.old = x].pc = pc
        BY <3>0 DEF Job
      <4>2. \/ Become(p, Idle)
            \/ \E pc \in {"retry", "clean"} : Become(p, [job[p] EXCEPT !.pc = pc])
            \/ \E pc \in {"drop", "kill"} : \E x : Become(p, [job[p] EXCEPT !.pc = pc, !.old = x])
        BY <2>3 DEF Deleting, Delete, Drop, Clean, Ending, MarkFailed, End, Kill, Undo, Goto, Finish
      <4>. QED
        BY <4>1, <4>2, IdleIs DEF Attempting
    <3>. QED
      BY <1>3, <2>2, <3>1
  <2>4. ASSUME NEW p \in Restarter, Restarting(p) PROVE FALSE
    <3>1. \E j : Become(p, j)
      BY <2>4 DEF Restarting, RestartOwner, RestartPick, RestartPost, Recommit, Move, Select, Goto, Finish
    <3>2. p = Loop
      BY <2>2, <3>1, Restarters
    <3>3. CASE Move(Loop)
      <4>1. job'[Loop] = Idle
        BY <1>0, <2>2, <3>3 DEF Move, Finish
      <4>. QED
        BY <1>3, <4>1, IdleIs DEF Busy
    <3>4. CASE ~Move(Loop)
      <4>1. job[Loop].pc \in Attempting /\ job[Loop].pc # "idle"
        BY <2>4, <3>2, <3>4
           DEF Restarting, RestartOwner, RestartPick, RestartPost, Recommit, At, Attempting
      <4>2. job[Loop].task # t
        BY <4>1 DEF Over, Busy
      <4>3. job[Loop] \in Job
        BY <1>0, BusyJob
      <4>4. /\ \A pc : [job[Loop] EXCEPT !.pc = pc].task = job[Loop].task
            /\ \A pc, x : [job[Loop] EXCEPT !.pc = pc, !.old = x].task = job[Loop].task
            /\ \A pc, x : [job[Loop] EXCEPT !.pc = pc, !.node = x].task = job[Loop].task
        BY <4>3 DEF Job
      <4>5. \/ Become(Loop, Idle)
            \/ \E pc : Become(Loop, [job[Loop] EXCEPT !.pc = pc])
            \/ \E pc, x : Become(Loop, [job[Loop] EXCEPT !.pc = pc, !.old = x])
            \/ \E pc, x : Become(Loop, [job[Loop] EXCEPT !.pc = pc, !.node = x])
        BY <2>4, <3>2, <3>4
           DEF Restarting, RestartOwner, RestartPick, RestartPost, Recommit, Select, Goto, Finish
      <4>6. \E j : Become(Loop, j) /\ (j = Idle \/ j.task = job[Loop].task)
        <5>1. ASSUME NEW pc, Become(Loop, [job[Loop] EXCEPT !.pc = pc])
              PROVE  \E j : Become(Loop, j) /\ j.task = job[Loop].task
          BY <4>4, <5>1
        <5>2. ASSUME NEW pc, NEW x, Become(Loop, [job[Loop] EXCEPT !.pc = pc, !.old = x])
              PROVE  \E j : Become(Loop, j) /\ j.task = job[Loop].task
          <6> DEFINE k == [job[Loop] EXCEPT !.pc = pc, !.old = x]
          <6>1. k.task = job[Loop].task /\ Become(Loop, k)
            BY <4>3, <5>2 DEF Job
          <6> HIDE DEF k
          <6>. QED
            BY <6>1
        <5>3. ASSUME NEW pc, NEW x, Become(Loop, [job[Loop] EXCEPT !.pc = pc, !.node = x])
              PROVE  \E j : Become(Loop, j) /\ j.task = job[Loop].task
          BY <4>4, <5>3
        <5>. QED
          BY <4>5, <5>1, <5>2, <5>3, Zenon
      <4>7. job'[Loop] = Idle \/ job'[Loop].task = job[Loop].task
        BY <1>0, <2>2, <4>6
      <4>. QED
        BY <1>3, <4>2, <4>7, IdleIs DEF Busy
    <3>. QED
      BY <3>3, <3>4
  <2>5. ~SendWork
    <3>1. SendWork => \E j : Become(Dispatcher, j)
      BY DEF SendWork, Dequeue, Route, Unowned, Place, Post, Release, Retry, Commit, Select, Goto, Finish
    <3>. QED
      BY <1>0, <2>2, <3>1, Types
  <2>6. ~\E s \in Stopper : Stopping(s) \/ \E u \in Task : StopRead(s, u)
    <3>1. ASSUME NEW s \in Stopper, Stopping(s) \/ \E u \in Task : StopRead(s, u) PROVE \E j : Become(s, j)
      BY <3>1 DEF Stopping, StopRead, StopDecide, StopMark, StopQueue, Goto, Finish
    <3>. QED
      BY <1>0, <2>2, <3>1, Types
  <2>7. ~\E u \in Checked : CheckFails(u)
    <3>1. \A u \in Checked : CheckFails(u) => \E j : Become(u, j)
      BY DEF CheckFails
    <3>. QED
      BY <1>0, <2>2, <3>1 DEF Proc
  <2>8. ~LoopNext
    <3>1. ASSUME NEW e \in todo, LoopVisit(e), job' # job PROVE FALSE
      <4> DEFINE j == [Idle EXCEPT !.pc = Verdict(e.task, e.rec), !.task = e.task, !.snap = e.rec]
      <4>1. Become(Loop, j) /\ Verdict(e.task, e.rec) # "skip"
        BY <3>1 DEF LoopVisit, Visit
      <4>2. j.task = e.task
        BY DEF Idle
      <4>3. e.task = t
        BY <1>0, <1>3, <2>2, <4>1, <4>2 DEF Busy
      <4>. QED
        BY <4>1, <4>3 DEF Over
    <3>. QED
      BY <2>1, <3>1 DEF LoopNext, LoopSnapshot, LoopBackoff
  <2>9. job' # job
    BY <2>1
  <2>10. ~Crash
    BY FirmIs DEF Crash, Orderly, TypeOK
  <2>. QED
    BY <2>3, <2>4, <2>5, <2>6, <2>7, <2>8, <2>9, <2>10
       DEF Next, Submit, Queue, SyncFetch, SyncApply, SyncForget, WorkerRun, WorkerExit, NodeDies, vars
<1>. QED
  BY <1>2, <1>3

\* What is left to show of a step: that a stop is settled, and that it was
\* recorded before the start or has deleted the task.
LEMMA StopsHold ==
    ASSUME NEW t, Firm(t), [Next]_vars, KeepsStop(t),
           t \in stopped' => t \in submitted' /\ Settled(t)',
           Starting(t) /\ Starting(t)' /\ t \in stopped' => ~Known(t)'
    PROVE  StopStep(t)
<1>1. Starting(t)' => Starting(t)
  BY StartingKept DEF Firm
<1>2. Starting(t)' => ~Marking(t)'
  BY <1>1, MarkingKept
<1>. QED
  BY <1>1, <1>2 DEF StopStep, StopInv

LEMMA QuietStops ==
    ASSUME NEW t, Firm(t), [Next]_vars, rec'[t] = rec[t], t \in stopped' => t \in stopped,
           submitted' = submitted
    PROVE  StopStep(t)
<1>1. StopInv(t)
  BY DEF Firm
<1>2. ASSUME t \in stopped' PROVE t \in submitted' /\ Settled(t)'
  <2>1. t \in submitted /\ Settled(t)
    BY <1>1, <1>2 DEF StopInv
  <2>2. CASE ~Known(t) \/ rec[t].manual
    BY <2>1, <2>2 DEF Settled, Known
  <2>3. CASE Over(t)
    <3>1. Over(t)'
      BY <2>3, OverLoop DEF Over
    <3>. QED
      BY <2>1, <3>1 DEF Settled
  <2>. QED
    BY <2>1, <2>2, <2>3 DEF Settled
<1>3. Starting(t) /\ t \in stopped' => ~Known(t)'
  BY <1>1 DEF StopInv, Known
<1>4. KeepsStop(t)
  BY DEF KeepsStop
<1>. QED
  BY <1>2, <1>3, <1>4, StopsHold

\* A step that writes the record of a task that is not stopped.
LEMMA UnstoppedStep ==
    ASSUME NEW t, Firm(t), [Next]_vars, t \notin stopped, t \notin stopped'
    PROVE  StopStep(t)
<1>1. KeepsStop(t)
  BY DEF KeepsStop
<1>. QED
  BY <1>1, StopsHold

\* The start of a stopped task met a record that had been deleted.
LEMMA StartingGone ==
    ASSUME NEW t, Firm(t), t \in stopped, Known(t)
    PROVE  ~Starting(t) /\ ~InHand(job[Dispatcher], t) /\ Settled(t) /\ t \in submitted
  BY DEF Firm, StopInv, Starting, Unsent

LEMMA SubmitStops ==
    ASSUME NEW t, Firm(t), [Next]_vars, NEW u \in Task, Submit(u)
    PROVE  StopStep(t)
<1>0. stopped' = stopped /\ u \notin submitted /\ TypeOK /\ StopInv(t) /\ rec' = [rec EXCEPT ![u] = Fresh]
      /\ submitted' = submitted \union {u}
  BY FirmIs DEF Submit
<1>1. CASE u = t
  <2>1. t \notin stopped
    BY <1>0, <1>1 DEF StopInv
  <2>. QED
    BY <1>0, <2>1, UnstoppedStep
<1>2. CASE u # t
  <2>1. rec'[t] = rec[t]
    BY <1>0, <1>2 DEF TypeOK
  <2>2. ASSUME t \in stopped PROVE t \in submitted' /\ Settled(t)'
    <3>1. t \in submitted /\ Settled(t)
      BY <1>0, <2>2 DEF StopInv
    <3>2. Over(t) => Over(t)'
      BY <2>1, OverLoop DEF Over
    <3>. QED
      BY <1>0, <2>1, <3>1, <3>2 DEF Settled, Known
  <2>3. Starting(t) /\ t \in stopped' => ~Known(t)'
    BY <1>0, <2>1 DEF StopInv, Known
  <2>4. KeepsStop(t)
    BY <2>1 DEF KeepsStop
  <2>. QED
    BY <1>0, <2>2, <2>3, <2>4, StopsHold
<1>. QED
  BY <1>1, <1>2

LEMMA StoppersStop ==
    ASSUME NEW t, Firm(t), [Next]_vars, NEW s \in Stopper, Stopping(s) \/ \E u \in Task : StopRead(s, u)
    PROVE  StopStep(t)
<1>0. TypeOK /\ t \in Task /\ s \in Proc /\ submitted' = submitted
  BY FirmIs, Types DEF Stopping, StopRead, StopDecide, StopMark, StopQueue, client
<1> DEFINE u == job[s].task
<1>1. CASE /\ Known(u) /\ rec' = [rec EXCEPT ![u].manual = TRUE] /\ stopped' = stopped \union {u}
           /\ job[s].pc = "mark"
  <2>1. CASE u # t
    <3>1. rec'[t] = rec[t] /\ (t \in stopped' => t \in stopped)
      BY <1>0, <1>1, <2>1 DEF TypeOK
    <3>. QED
      BY <1>0, <3>1, QuietStops
  <2>2. CASE u = t
    <3>1. rec'[t].manual /\ rec'[t].state = rec[t].state /\ rec'[t].count = rec[t].count
      BY <1>0, <1>1, <2>2 DEF TypeOK, Record
    <3>2. t \in submitted
      BY <1>0, <1>1, <2>2, FirmIs DEF LifeInv, RecordsKnown
    <3>3. Marking(t)
      BY <1>1, <2>2 DEF Marking, Busy
    <3>4. ~Starting(t)
      BY <3>3 DEF Firm, StopInv
    <3>5. KeepsStop(t)
      BY <3>1 DEF KeepsStop
    <3>. QED
      BY <1>0, <3>1, <3>2, <3>4, <3>5, StopsHold DEF Settled
  <2>. QED
    BY <2>1, <2>2
<1>2. CASE rec' = rec /\ stopped' = stopped
  BY <1>0, <1>2, QuietStops
<1>. QED
  BY <1>1, <1>2 DEF Stopping, StopRead, StopDecide, StopMark, StopQueue, stores, At

LEMMA DeletingStops ==
    ASSUME NEW t, Firm(t), [Next]_vars, NEW p \in Proc, Deleting(p)
    PROVE  StopStep(t)
<1> DEFINE u == job[p].task
<1>0. TypeOK /\ t \in Task /\ submitted' = submitted
  BY FirmIs DEF Deleting, Delete, Drop, Clean, client
<1>1. CASE rec' = [rec EXCEPT ![u] = NoRecord] /\ stopped' = stopped \union {u} /\ job[p].pc = "delete"
  <2>1. CASE u # t
    <3>1. rec'[t] = rec[t] /\ (t \in stopped' => t \in stopped)
      BY <1>0, <1>1, <2>1 DEF TypeOK
    <3>. QED
      BY <1>0, <3>1, QuietStops
  <2>2. CASE u = t
    <3>1. rec'[t].state = "Absent"
      BY <1>0, <1>1, <2>2 DEF TypeOK, NoRecord, Fresh
    <3>2. t \in submitted
      BY <1>1, <2>2, FirmIs DEF JobsKnown, JobKnown
    <3>3. KeepsStop(t)
      BY <3>1 DEF KeepsStop
    <3>. QED
      BY <1>0, <3>1, <3>2, <3>3, StopsHold DEF Settled, Known
  <2>. QED
    BY <2>1, <2>2
<1>2. CASE rec' = rec /\ stopped' = stopped
  BY <1>0, <1>2, QuietStops
<1>. QED
  BY <1>1, <1>2 DEF Deleting, Delete, Drop, Clean, stores, At

\* The loop failing an attempt is no stopped task's; the dispatcher's has not
\* been sent.
LEMMA FailStops ==
    ASSUME NEW t, Firm(t), [Next]_vars, NEW p \in Proc, MarkFailed(p)
    PROVE  StopStep(t)
<1> DEFINE u == job[p].task
<1>0. /\ TypeOK /\ t \in Task /\ submitted' = submitted /\ stopped' = stopped
      /\ job[p].pc \in {"fail", "burn"} /\ job[p].pc # "idle"
  BY FirmIs DEF MarkFailed, At, client
<1>1. ASSUME NEW n, u = t, Known(t), rec' = [rec EXCEPT ![t] = Retryable(@, n)]
      PROVE  StopStep(t)
  <2>1. rec'[t].state = "Failed" /\ rec'[t].manual = rec[t].manual
    BY <1>0, <1>1 DEF TypeOK, Record, Retryable
  <2>2. KeepsStop(t)
    BY <2>1 DEF KeepsStop
  <2>3. ASSUME t \in stopped PROVE rec[t].manual
    <3>1. Settled(t) /\ ~InHand(job[Dispatcher], t)
      BY <1>1, <2>3, StartingGone
    <3>2. p # Dispatcher
      BY <1>0, <1>1, <3>1, FirmIs DEF InHand, Unplaced, Starts, Busy, StartInv, Roles, DispatcherRole
    <3>3. p = Loop
      BY <1>0, <1>1, <3>2, OnlyLoop DEF Firm, StopperRole
    <3>4. ~Over(t)
      BY <1>0, <1>1, <3>3 DEF Over, Busy, Attempting
    <3>. QED
      BY <1>1, <3>1, <3>4 DEF Settled
  <2>4. t \in stopped => ~Starting(t) /\ t \in submitted
    BY <1>1, StartingGone
  <2>. QED
    BY <1>0, <2>1, <2>2, <2>3, <2>4, StopsHold DEF Settled
<1>2. CASE rec'[t] = rec[t]
  BY <1>0, <1>2, QuietStops
<1>3. CASE u # t
  <2>1. rec'[t] = rec[t]
    BY <1>0, <1>3 DEF MarkFailed, TypeOK
  <2>. QED
    BY <1>2, <2>1
<1>. QED
  BY <1>1, <1>2, <1>3 DEF MarkFailed

LEMMA EndStops ==
    ASSUME NEW t, Firm(t), [Next]_vars, NEW p \in Proc, End(p)
    PROVE  StopStep(t)
<1> DEFINE u == job[p].task
           j == [job[p] EXCEPT !.pc = "kill", !.old = asg[u]]
<1>0. /\ TypeOK /\ t \in Task /\ submitted' = submitted /\ stopped' = stopped /\ todo' = todo
      /\ adding' = adding /\ pending' = pending /\ job[p].pc = "end" /\ job[p].pc # "idle"
      /\ job[p] \in Job /\ job'[p] = j /\ \A q \in Proc : q # p => job'[q] = job[q]
  BY FirmIs, BusyJob DEF End, At, client, Become, TypeOK, JobTypes
<1>1. CASE rec'[t] = rec[t]
  BY <1>0, <1>1, QuietStops
<1>2. CASE u = t /\ rec' = [rec EXCEPT ![t] = Terminal(job[p].snap)]
  <2>1. rec'[t].state = "Failed" /\ rec'[t].fin
    BY <1>0, <1>2 DEF TypeOK, Job, Record, Terminal
  <2>2. KeepsStop(t)
    BY <2>1 DEF KeepsStop
  <2>3. j.pc = "kill"
    BY <1>0 DEF Job
  <2> HIDE DEF j
  <2>4. p = Loop \/ p = Dispatcher
    BY <1>0, <1>2, OnlyLoop DEF Firm, StopperRole
  <2>5. t \in submitted
    BY <1>0, <1>2, FirmIs DEF JobsKnown, JobKnown
  <2>6. CASE p = Loop
    <3>1. \A e \in todo : e.task # t
      BY <1>0, <1>2, <2>6, FirmIs DEF LoopOnce, Busy
    <3>2. Over(t)'
      BY <1>0, <2>1, <2>3, <2>6, <3>1 DEF Over, Attempting
    <3>3. ~Starting(t)
      BY <1>0, <1>2, <2>6, FirmIs DEF Alone, Busy, Restarter
    <3>. QED
      BY <1>0, <2>2, <2>5, <3>2, <3>3, StopsHold DEF Settled
  <2>7. CASE p = Dispatcher
    <3>1. Starts(job[Dispatcher], t)
      BY <1>0, <1>2, <2>7, FirmIs DEF Starts, Busy, StartInv, Roles, DispatcherRole
    <3>2. InHand(job[Dispatcher], t)
      BY <1>0, <2>7, <3>1 DEF InHand, Unplaced
    <3>3. Untouched(t)
      BY <3>2, FirmIs DEF StartInv, Unsent
    <3>4. job'[Loop] = job[Loop] /\ ~Busy(job[Loop], t)
      BY <1>0, <2>7, <3>3, Types, ManagerAssumption DEF Untouched, Alone, Restarter
    <3>5. Over(t)'
      BY <1>0, <2>1, <3>3, <3>4 DEF Over, Untouched, Busy
    <3>6. t \notin adding /\ ~Queued(pending, t)
      BY <3>1, FirmIs DEF StartInv, StartOnce
    <3>7. ~Starting(t)'
      BY <1>0, <2>3, <2>5, <2>7, <3>6 DEF Starting, Unsent, InHand, Unplaced, Accepted
    <3>. QED
      BY <1>0, <2>2, <2>5, <3>5, <3>7, StopsHold DEF Settled
  <2>. QED
    BY <2>4, <2>6, <2>7
<1>3. CASE u # t
  <2>1. rec'[t] = rec[t]
    BY <1>0, <1>3 DEF End, TypeOK
  <2>. QED
    BY <1>1, <2>1
<1>. QED
  BY <1>1, <1>2, <1>3 DEF End

LEMMA EndingStops ==
    ASSUME NEW t, Firm(t), [Next]_vars, NEW p \in Proc, Ending(p)
    PROVE  StopStep(t)
<1>1. CASE MarkFailed(p) \/ End(p)
  BY <1>1, FailStops, EndStops
<1>2. CASE Kill(p) \/ Undo(p)
  <2>1. rec' = rec /\ stopped' = stopped /\ submitted' = submitted
    BY <1>2 DEF Kill, Undo, stores, client
  <2>. QED
    BY <2>1, QuietStops
<1>. QED
  BY <1>1, <1>2 DEF Ending

\* What the dispatcher commits was not deleted, hence not stopped.
LEMMA SendingStops ==
    ASSUME NEW t, Firm(t), [Next]_vars, SendWork
    PROVE  StopStep(t)
<1> DEFINE u == job[Dispatcher].task
           r == [Fresh EXCEPT !.state = "Scheduled"]
<1>0. TypeOK /\ t \in Task /\ submitted' = submitted /\ stopped' = stopped
  BY FirmIs DEF SendWork, Dequeue, Route, Unowned, Place, Post, Release, Retry, Commit, client
<1>1. CASE rec'[t] = rec[t]
  BY <1>0, <1>1, QuietStops
<1>2. CASE u = t /\ job[Dispatcher].pc = "commit" /\ ~Cancelled(u)
  <2>1. Accepted(job[Dispatcher], t)
    BY <1>2 DEF Accepted, Firm, Grounds, Ordinary
  <2>2. t \notin stopped
    BY <1>2, <2>1, StartingGone DEF Cancelled, Starting
  <2>. QED
    BY <1>0, <2>2, UnstoppedStep
<1>3. CASE Commit
  <2>1. rec' = rec \/ (rec' = [rec EXCEPT ![u] = r] /\ ~Cancelled(u) /\ job[Dispatcher].pc = "commit")
    BY <1>3 DEF Commit, At, stores
  <2>2. CASE u # t
    BY <1>0, <1>1, <2>1, <2>2 DEF TypeOK
  <2>. QED
    BY <1>1, <1>2, <2>1, <2>2
<1>4. CASE rec' = rec
  BY <1>1, <1>4
<1>. QED
  BY <1>3, <1>4 DEF SendWork, Dequeue, Route, Unowned, Place, Post, Release, Retry, stores

\* The user's stop is seen where the attempt is committed.
LEMMA RestartingStops ==
    ASSUME NEW t, Firm(t), [Next]_vars, NEW p \in Restarter, Restarting(p)
    PROVE  StopStep(t)
<1> DEFINE u == job[p].task
           r == Next1(job[p])
<1>0. /\ TypeOK /\ t \in Task /\ submitted' = submitted /\ stopped' = stopped
      /\ p \in Proc /\ p # Dispatcher /\ p \notin Stopper
  BY FirmIs, Restarters DEF Restarting, RestartOwner, RestartPick, RestartPost, Recommit, Move, client
<1>1. CASE rec'[t] = rec[t]
  BY <1>0, <1>1, QuietStops
<1>2. CASE u = t /\ job[p].pc = "recommit" /\ Wanted(t)
  <2>1. p = Loop
    BY <1>0, <1>2, OnlyLoop DEF Firm
  <2>2. ~Over(t)
    BY <1>2, <2>1 DEF Over, Busy, Attempting
  <2>3. t \notin stopped
    BY <1>2, <2>2, StartingGone DEF Wanted, Settled
  <2>. QED
    BY <1>0, <2>3, UnstoppedStep
<1>3. CASE Recommit(p)
  <2>1. rec' = rec \/ (rec' = [rec EXCEPT ![u] = r] /\ Wanted(u) /\ job[p].pc = "recommit")
    BY <1>3 DEF Recommit, At, stores
  <2>2. CASE u # t
    BY <1>0, <1>1, <2>1, <2>2 DEF TypeOK
  <2>. QED
    BY <1>1, <1>2, <2>1, <2>2
<1>4. CASE rec' = rec
  BY <1>1, <1>4
<1>. QED
  BY <1>3, <1>4 DEF Restarting, RestartOwner, RestartPick, RestartPost, Move, stores

\* A report does not start a task again: one that failed had made its last
\* attempt before.
LEMMA SyncApplyStops ==
    ASSUME NEW t, Firm(t), [Next]_vars, SyncApply
    PROVE  StopStep(t)
<1>0. TypeOK /\ t \in Task /\ submitted' = submitted /\ stopped' = stopped /\ LifeInv /\ rec[t] \in Record
  BY FirmIs DEF SyncApply, client
<1>1. PICK e \in sync.list : rec' = rec \/ (Known(e.task) /\ rec' = Synced(e.task, e.rec))
  BY DEF SyncApply
<1>2. CASE rec'[t] = rec[t]
  BY <1>0, <1>2, QuietStops
<1>3. CASE /\ e.task = t /\ Known(t) /\ e.rec.count = rec[t].count
           /\ rec' = [rec EXCEPT ![t] = Merged(@, e.rec)]
  <2> DEFINE m == Merged(rec[t], e.rec)
  <2>1. e.rec \in WorkerRecord
    BY <1>0 DEF TypeOK, Report
  <2>2. rec'[t] = m
    BY <1>0, <1>3 DEF TypeOK
  <2>3. /\ m.count = rec[t].count /\ m.manual = rec[t].manual /\ m.fin = (rec[t].fin \/ e.rec.fin)
        /\ rec[t].state = "Failed" /\ (m.fin \/ e.rec.state = "Failed") => m.state = "Failed"
    BY <1>0, <2>1, MergedIs
  <2> HIDE DEF m
  <2>4. e.rec.fin \in BOOLEAN /\ rec[t].fin \in BOOLEAN /\ rec[t].count \in Nat
    BY <1>0, <2>1 DEF Record, WorkerRecord
  <2>5. rec[t].state = "Failed" => m.state = "Failed"
    <3>1. CASE rec[t].state = "Failed" /\ ~rec[t].fin
      <4>1. Spent(t, rec[t].count)
        BY <3>1, FirmIs DEF Recorded
      <4>2. ~Live(e.rec, rec[t].count)
        BY <1>3, <4>1 DEF Spent
      <4>3. e.rec.state # "Absent"
        BY <1>0 DEF LifeInv, ReportsKnown
      <4>4. e.rec.fin \/ e.rec.state = "Failed"
        BY <1>3, <4>2, <4>3 DEF Live, Tried
      <4>. QED
        BY <2>3, <3>1, <4>4, Zenon
    <3>. QED
      BY <2>3, <3>1, Zenon
  <2>6. KeepsStop(t)
    BY <1>3, <2>2, <2>3, <2>5 DEF KeepsStop, Known
  <2>7. ASSUME t \in stopped PROVE ~Starting(t) /\ t \in submitted /\ Settled(t)'
    <3>1. ~Starting(t) /\ Settled(t) /\ t \in submitted
      BY <1>3, <2>7, StartingGone
    <3>2. rec[t].manual => rec'[t].manual
      BY <2>2, <2>3
    <3>3. Over(t) => rec'[t].state = "Failed" /\ rec'[t].fin
      BY <2>2, <2>3, <2>5 DEF Over
    <3>4. Over(t) => Over(t)'
      BY <3>3, OverLoop DEF Over
    <3>. QED
      BY <1>3, <3>1, <3>2, <3>4 DEF Settled
  <2>. QED
    BY <1>0, <2>6, <2>7, StopsHold
<1>4. CASE e.task # t
  <2>1. rec'[t] = rec[t]
    BY <1>0, <1>1, <1>4 DEF Synced, TypeOK
  <2>. QED
    BY <1>2, <2>1
<1>. QED
  BY <1>1, <1>2, <1>3, <1>4 DEF Synced

LEMMA NextStops ==
    ASSUME NEW t, Firm(t), [Next]_vars
    PROVE  StopStep(t)
<1>1. ASSUME rec' = rec, stopped' = stopped, submitted' = submitted PROVE StopStep(t)
  BY <1>1, QuietStops
<1>2. ~Crash
  BY FirmIs DEF Crash, Orderly, TypeOK
<1>3. CASE \/ \E u \in Task : Queue(u)
           \/ LoopNext
           \/ \E u \in Checked : CheckFails(u)
           \/ \E n \in Node : SyncFetch(n) \/ NodeDies(n)
           \/ SyncForget
           \/ \E n \in Node, u \in Task : WorkerRun(n, u) \/ WorkerExit(n, u)
           \/ UNCHANGED vars
  BY <1>1, <1>3 DEF Queue, LoopNext, LoopSnapshot, LoopVisit, LoopBackoff, CheckFails, SyncFetch, NodeDies,
                    SyncForget, WorkerRun, WorkerExit, vars, stores, client
<1>. QED
  BY <1>2, <1>3, SubmitStops, StoppersStop, DeletingStops, EndingStops, SendingStops, RestartingStops,
     SyncApplyStops DEF Next

LEMMA InitHold == Init => HoldInv
<1> SUFFICES ASSUME Init PROVE HoldInv
  OBVIOUS
<1>1. \A p \in Proc : job[p] = Idle
  BY DEF Init
<1>2. CheckersOwn /\ FirstStarts
  BY <1>1, IdleIs, IdleWork, Types DEF Init, CheckersOwn, FirstStarts, Proc
<1>3. ASSUME NEW t \in Task PROVE AttemptInv(t) /\ StopInv(t)
  <2>1. /\ \A n \in Node : wdb[n][t] = Unknown /\ wq[n][t] = <<>>
        /\ sync.list = {} /\ todo = {} /\ rec[t] = NoRecord /\ stopped = {}
    BY <1>3 DEF Init, SyncIdle
  <2>2. \A n \in Node : \A c \in Nat : ~Ordered(n, t, c) /\ ~Tried(wdb[n][t], c) /\ DOMAIN wq[n][t] = {}
    BY <2>1 DEF Ordered, Tried, Unknown
  <2>3. job[Loop].pc = "idle" /\ job[Dispatcher].pc = "idle"
    BY <1>1, IdleIs, Types
  <2>4. rec[t].state = "Absent"
    BY <2>1 DEF NoRecord, Fresh
  <2>5. LoopOnce(t) /\ Apart(t) /\ Reported(t)
    BY <2>1, <2>2, <2>3 DEF LoopOnce, Apart, Reported, Busy
  <2>6. Recorded(t) /\ Retried(t)
    BY <2>1, <2>3, <2>4 DEF Recorded, Retried, Known, Accepted, At1, Busy
  <2>7. ~Marking(t)
    BY <1>1, IdleIs, Types DEF Marking, Busy
  <2>. QED
    BY <2>1, <2>5, <2>6, <2>7 DEF AttemptInv, StopInv
<1>. QED
  BY <1>2, <1>3 DEF HoldInv

LEMMA NextHolds ==
    ASSUME TypeOK, TypeOK', LifeInv, StartInv, Orderly, HoldInv, [Next]_vars
    PROVE  HoldInv' /\ \A t \in Task : Ordinary(t) => KeepsStop(t)
<1>1. WorkInv'
  BY NextWork DEF HoldInv, WorkInv
<1>2. ASSUME NEW t \in Task, Ordinary(t) PROVE AttemptInv(t)' /\ StopInv(t)' /\ KeepsStop(t)
  <2>1. Grounds(t) /\ AttemptInv(t) /\ StopInv(t)
    BY <1>2 DEF Grounds, HoldInv
  <2>2. AttemptInv(t)'
    BY <2>1, NextAttempts
  <2>3. StopStep(t)
    BY <2>1, NextStops DEF Firm
  <2>. QED
    BY <2>2, <2>3 DEF StopStep
<1>. QED
  BY <1>1, <1>2 DEF HoldInv, WorkInv, Ordinary

\* restartTask looks at ManuallyStopped where it commits, restartFailedTasks
\* where it visits a record, and a failure recorded as final is not tried
\* again: whatever was in flight when the stop was recorded, no attempt of the
\* task follows, in a cluster like the one of manager_ports and for any number
\* of tasks, nodes, faults and stops.
THEOREM StopsAreFinal == Orderly /\ (\A t \in Task : Ordinary(t)) /\ Spec => StopsFinal
<1> SUFFICES ASSUME Orderly, \A t \in Task : Ordinary(t) PROVE Spec => StopsFinal
  OBVIOUS
<1> DEFINE Kept == \A t \in stopped : rec'[t].state \in {"Scheduled", "Running"} =>
                       rec[t].state \notin {"Absent", "Failed"} /\ rec'[t].count = rec[t].count
<1>1. Init => LifeInv /\ StartInv /\ HoldInv
  BY InitLives, InitStarts, InitHold
<1>2. TypeOK /\ LifeInv /\ StartInv /\ HoldInv /\ [Next]_vars => LifeInv' /\ StartInv' /\ HoldInv'
  BY NextTypes, NextLives, NextStarts, NextHolds
<1>3. TypeOK /\ LifeInv /\ StartInv /\ HoldInv /\ [Next]_vars => [Kept]_vars
  <2> SUFFICES ASSUME TypeOK, LifeInv, StartInv, HoldInv, [Next]_vars, NEW t \in stopped,
                      rec'[t].state \in {"Scheduled", "Running"}
               PROVE  rec[t].state \notin {"Absent", "Failed"} /\ rec'[t].count = rec[t].count
    OBVIOUS
  <2>1. t \in Task
    BY DEF TypeOK
  <2>2. KeepsStop(t)
    BY <2>1, NextTypes, NextHolds
  <2>. QED
    BY <2>2 DEF KeepsStop
<1>. QED
  BY <1>1, <1>2, <1>3, TypeCorrect, PTL DEF Spec, StopsFinal
=============================================================================
