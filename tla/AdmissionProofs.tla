--------------------------- MODULE AdmissionProofs ---------------------------
(***************************************************************************)
(* Requests, the dispatcher and the restart loop: however they overlap, a  *)
(* submission has one start that is neither lost nor overtaken by a stop,  *)
(* a name means one task, only sound submissions are stored, and only      *)
(* admins are served.                                                      *)
(***************************************************************************)
EXTENDS Admission, DataProofs, SequenceTheorems

Worker == Request \union {Sender, Looper}
RecState == {"none", "Pending", "Active", "Failed", "Completed", "Over"}
Rec == [state : RecState, name : Name \union Task \union {NoName}, manual : BOOLEAN,
        sound : {TRUE} \union {Sound(p) : p \in Valid}]
Ev == [task : Task, kind : {"start", "stop"}, direct : BOOLEAN, rec : Rec]
Work == [pc : {"rest", "add", "queue", "decide", "mark", "delete", "purge", "end"},
         event : {"start", "stop"}, direct : BOOLEAN, task : Task \union {NoTask}, snap : Rec,
         token : Hash \union {NoHash}]

\* A submission is a start; what was submitted as a stop stays one.
WorkTyped(p) ==
    /\ work[p].pc # "rest" => work[p].task \in Task
    /\ work[p].direct => work[p].event = "stop"
    /\ Does(p, "add") => work[p].event = "start" /\ work[p].snap.state = "Pending"
    /\ work[p].pc \in {"decide", "mark", "delete", "purge"} /\ p \in Request => work[p].event = "stop"
    /\ Does(p, "delete") => work[p].event = "stop"
    /\ p = Looper => work[p].pc \in {"rest", "end"}
    /\ p = Sender => work[p].pc \in {"rest", "end", "delete", "purge"}
    /\ p \in Request => work[p].pc # "end"

Typed ==
    /\ recs \in [Task -> Rec] /\ owned \subseteq Task
    /\ queue \in Seq(Ev) /\ work \in [Worker -> Work]
    /\ \A p \in Worker : WorkTyped(p)
    /\ \A i \in DOMAIN queue : queue[i].direct => queue[i].kind = "stop"

-----------------------------------------------------------------------------
(* The life of a task ID *)

\* The start of t is an event, or in the hands of a request or of SendWork.
QStart(i, t) == queue[i].task = t /\ queue[i].kind = "start"
WStart(p, t) == /\ work[p].task = t
                /\ (Does(p, "queue") /\ work[p].event = "start") \/ (p = Sender /\ Does(p, "end"))
InFlight(t) == (\E i \in DOMAIN queue : QStart(i, t)) \/ (\E p \in Worker : WStart(p, t))

\* A stop of t that the API has decided on is an event, or on its way.
QStop(i, t) == queue[i].task = t /\ queue[i].kind = "stop" /\ ~queue[i].direct
WStop(p, t) == /\ work[p].task = t /\ work[p].event = "stop" /\ ~work[p].direct
               /\ Does(p, "queue") \/ (p = Sender /\ Does(p, "delete"))

\* Who works on t other than to submit it, or to stop it unseen.
Engaged(p, t) == /\ work[p].task = t
                 /\ \/ work[p].pc \in {"decide", "mark", "delete", "purge", "end"}
                    \/ Does(p, "queue") /\ ~work[p].direct

\* Nothing is known of an ID that was never accepted.
Unheard(t) ==
    t \notin accepted => /\ ~Exists(t)
                         /\ \A i \in DOMAIN queue : ~QStart(i, t) /\ ~QStop(i, t)
                         /\ \A p \in Worker : ~Engaged(p, t)

\* There is one start.
Sole(t) ==
    /\ \A i, j \in DOMAIN queue : QStart(i, t) /\ QStart(j, t) => i = j
    /\ \A p, r \in Worker : WStart(p, t) /\ WStart(r, t) => p = r
    /\ \A i \in DOMAIN queue, p \in Worker : ~(QStart(i, t) /\ WStart(p, t))

\* While it is in flight the task waits or was deleted; nobody has read it in
\* another state or decided to stop it.
Early(t) ==
    InFlight(t) => /\ recs[t].state \in {"none", "Pending"}
                   /\ \A i \in DOMAIN queue : ~QStop(i, t)
                   /\ \A p \in Worker : work[p].task = t =>
                          /\ ~WStop(p, t) /\ ~Does(p, "mark") /\ ~(p = Looper /\ Does(p, "end"))
                          /\ Does(p, "decide") => work[p].snap.state = "Pending"

Settled(t) == ~Exists(t) \/ recs[t].manual \/ recs[t].state = "Over"
Marked(t) == /\ \A i \in DOMAIN queue : QStop(i, t) => Settled(t)
             /\ \A p \in Worker : WStop(p, t) => Settled(t)

\* Who purges the events of t has deleted it.
Purged(t) == \A p \in Worker : work[p].task = t /\ Does(p, "purge") => recs[t].state # "Pending"

Waits(t) == recs[t].state = "Pending" => InFlight(t)

\* The record, its start and its readers have one name.
Named(t) ==
    \E name : /\ Exists(t) => recs[t].name = name
              /\ \A i \in DOMAIN queue : QStart(i, t) => queue[i].rec.name = name
              /\ \A p \in Worker : WStart(p, t) \/ (work[p].task = t /\ Does(p, "end"))
                                       => work[p].snap.name = name

Life(t) == Sole(t) /\ Early(t) /\ Marked(t) /\ Purged(t) /\ Waits(t) /\ Named(t)
TaskInv(t) == Unheard(t) /\ (t \notin reused => Life(t))

-----------------------------------------------------------------------------
(* Types *)

\* f[k] is the old position of the event at k; only events of p's task go.
KeptBy(f, p) ==
    /\ \A k \in DOMAIN queue' : f[k] \in DOMAIN queue /\ queue'[k] = queue[f[k]]
    /\ \A i, j \in DOMAIN queue' : f[i] = f[j] => i = j
    /\ \A i \in DOMAIN queue : queue[i].task # work[p].task => \E k \in DOMAIN queue' : f[k] = i

\* The events that Purge leaves, with their old positions.
LEMMA PurgeIs ==
    ASSUME queue \in Seq(Ev), NEW p, Purge(p)
    PROVE  /\ \E n \in Nat : DOMAIN queue' = 1 .. n /\ queue' = [k \in 1 .. n |-> queue'[k]]
           /\ \E f : KeptBy(f, p)
<1> DEFINE S == {i \in DOMAIN queue : queue[i].task # work[p].task}
<1>1. queue' \in Kept(queue, S)
  BY DEF Purge
<1>2. IsFiniteSet(1 .. Len(queue)) /\ DOMAIN queue = 1 .. Len(queue)
  BY FS_Interval
<1>3. IsFiniteSet(S) /\ S \in SUBSET Int
  BY <1>2, FS_Subset
<1>4. \A i : i \in S <=> i \in DOMAIN queue /\ queue[i].task # work[p].task
  OBVIOUS
<1> HIDE DEF S
<1>5. Cardinality(S) \in Nat /\ DOMAIN queue' = 1 .. Cardinality(S)
  BY <1>1, <1>3, KeptIs
<1>6. PICK f \in [DOMAIN queue' -> S] :
          /\ queue' = [k \in DOMAIN queue' |-> queue[f[k]]]
          /\ \A i, j \in DOMAIN queue' : f[i] = f[j] => i = j
          /\ \A x \in S : \E i \in DOMAIN queue' : f[i] = x
  BY <1>1, <1>3, KeptIs
<1>7. queue' = [k \in 1 .. Cardinality(S) |-> queue'[k]]
  BY <1>5, <1>6
<1>8. \A k \in DOMAIN queue' : f[k] \in DOMAIN queue /\ queue'[k] = queue[f[k]]
  <2> TAKE k \in DOMAIN queue'
  <2>1. f[k] \in S
    BY <1>6
  <2>2. queue'[k] = queue[f[k]]
    BY <1>6
  <2> QED  BY <2>1, <2>2, <1>4
<1>9. \A i \in DOMAIN queue : queue[i].task # work[p].task => \E k \in DOMAIN queue' : f[k] = i
  BY <1>4, <1>6
<1>10. KeptBy(f, p)
  BY <1>6, <1>8, <1>9 DEF KeptBy
<1> QED  BY <1>5, <1>7, <1>10

LEMMA RestTyped == Resting \in Work /\ NoRec \in Rec
  BY DEF Resting, Work, NoRec, Rec, RecState

\* A goroutine whose new state is typed leaves the others as they are.
LEMMA NowTyped ==
    ASSUME Typed, NEW p \in Worker, NEW w \in Work, Now(p, w), WorkTyped(p)'
    PROVE  work' \in [Worker -> Work] /\ \A r \in Worker : WorkTyped(r)'
  BY DEF Typed, Now, WorkTyped, Does

LEMMA RestsTyped ==
    ASSUME Typed, NEW p \in Worker, Rests(p)
    PROVE  work' \in [Worker -> Work] /\ \A r \in Worker : WorkTyped(r)'
<1>1. Now(p, Resting)
  BY DEF Rests
<1>2. work'[p] = Resting
  BY <1>1 DEF Now, Typed
<1>3. WorkTyped(p)'
  BY <1>2 DEF WorkTyped, Resting, Does
<1> QED  BY <1>1, <1>3, RestTyped, NowTyped

LEMMA EventTyped ==
    ASSUME Typed, NEW p \in Worker, work[p].task \in Task
    PROVE  Event(work[p]) \in Ev /\ (Event(work[p]).direct => Event(work[p]).kind = "stop")
<1>1. work[p] \in Work /\ WorkTyped(p)
  BY DEF Typed
<1> QED  BY <1>1, RestTyped DEF Event, Ev, Work, WorkTyped

LEMMA AppendTyped ==
    ASSUME Typed, NEW e \in Ev, e.direct => e.kind = "stop", queue' = Append(queue, e)
    PROVE  queue' \in Seq(Ev) /\ \A i \in DOMAIN queue' : queue'[i].direct => queue'[i].kind = "stop"
  BY DEF Typed

LEMMA TailTyped ==
    ASSUME Typed, queue # <<>>
    PROVE  /\ Tail(queue) \in Seq(Ev) /\ Head(queue) \in Ev
           /\ \A i \in DOMAIN Tail(queue) : Tail(queue)[i] = queue[i + 1] /\ i + 1 \in DOMAIN queue
           /\ \A i \in DOMAIN queue : i = 1 \/ i - 1 \in DOMAIN Tail(queue)
           /\ Head(queue) = queue[1] /\ 1 \in DOMAIN queue
  BY DEF Typed

\* A step of a goroutine that works on a task neither reads nor writes more
\* than its fields say.
LEMMA GoesTyped ==
    ASSUME Typed, NEW p \in Worker, NEW pc \in {"queue", "mark", "delete", "purge"}, Goes(p, pc),
           work[p].task \in Task, p # Looper, p = Sender => pc = "purge",
           pc # "queue" => work[p].event = "stop"
    PROVE  work' \in [Worker -> Work] /\ \A r \in Worker : WorkTyped(r)'
<1> DEFINE w == [work[p] EXCEPT !.pc = pc]
<1>1. work[p] \in Work /\ WorkTyped(p)
  BY DEF Typed
<1>2. w \in Work
  BY <1>1 DEF Work
<1>3. Now(p, w) /\ work'[p] = w
  BY DEF Goes, Now, Typed
<1>4. WorkTyped(p)'
  BY <1>1, <1>3, AdmissionAssumption DEF WorkTyped, Does, Work, Worker
<1> QED  BY <1>2, <1>3, <1>4, NowTyped

LEMMA ArriveTyped ==
    ASSUME Typed, NEW q \in Request, Arrive(q)
    PROVE  Typed'
<1>1. q \in Worker /\ q # Sender /\ q # Looper
  BY AdmissionAssumption DEF Worker
<1>2. PICK h \in Admins, t \in Task :
           \/ \E name \in Name \union Task \union {NoName}, sound \in {Sound(p) : p \in Valid} :
                  LET rec == [NoRec EXCEPT !.state = "Pending", !.name = name, !.sound = sound]
                  IN  Now(q, [Resting EXCEPT !.pc = "add", !.task = t, !.token = h, !.snap = rec])
           \/ Now(q, [Resting EXCEPT !.pc = "queue", !.event = "stop", !.direct = TRUE, !.task = t, !.token = h])
  BY DEF Arrive
<1>3. h \in Hash \union {NoHash}
  BY DEF Admins
<1>4. work' \in [Worker -> Work] /\ \A r \in Worker : WorkTyped(r)'
  <2>1. ASSUME NEW name \in Name \union Task \union {NoName}, NEW sound \in {Sound(p) : p \in Valid},
               Now(q, [Resting EXCEPT !.pc = "add", !.task = t, !.token = h,
                                      !.snap = [NoRec EXCEPT !.state = "Pending", !.name = name, !.sound = sound]])
        PROVE  work' \in [Worker -> Work] /\ \A r \in Worker : WorkTyped(r)'
    <3> DEFINE rec == [NoRec EXCEPT !.state = "Pending", !.name = name, !.sound = sound]
               w == [Resting EXCEPT !.pc = "add", !.task = t, !.token = h, !.snap = rec]
    <3>1. rec \in Rec /\ rec.state = "Pending"
      BY DEF Rec, RecState, NoRec
    <3> HIDE DEF rec
    <3>2. w \in Work /\ w.pc = "add" /\ w.event = "start" /\ w.direct = FALSE /\ w.task = t /\ w.snap = rec
      BY <3>1, <1>3 DEF Work, Resting
    <3> USE DEF rec
    <3>3. Now(q, w)
      BY <2>1
    <3> HIDE DEF rec, w
    <3>4. work'[q] = w
      BY <3>3, <1>1 DEF Now, Typed
    <3>5. WorkTyped(q)'
      BY <3>1, <3>2, <3>4, <1>1 DEF WorkTyped, Does
    <3> QED  BY <3>2, <3>3, <3>5, <1>1, NowTyped
  <2>2. ASSUME Now(q, [Resting EXCEPT !.pc = "queue", !.event = "stop", !.direct = TRUE, !.task = t, !.token = h])
        PROVE  work' \in [Worker -> Work] /\ \A r \in Worker : WorkTyped(r)'
    <3> DEFINE w == [Resting EXCEPT !.pc = "queue", !.event = "stop", !.direct = TRUE, !.task = t, !.token = h]
    <3>2. w \in Work /\ w.pc = "queue" /\ w.event = "stop" /\ w.task = t
      BY RestTyped, <1>3 DEF Work, Resting
    <3>3. Now(q, w)
      BY <2>2
    <3> HIDE DEF w
    <3>4. work'[q] = w
      BY <3>3, <1>1 DEF Now, Typed
    <3>5. WorkTyped(q)'
      BY <3>2, <3>4, <1>1 DEF WorkTyped, Does
    <3> QED  BY <3>2, <3>3, <3>5, <1>1, NowTyped
  <2> QED  BY <1>2, <2>1, <2>2
<1> QED  BY <1>4 DEF Typed, Arrive

LEMMA RequestTyped ==
    ASSUME Typed, NEW q \in Request,
           Add(q) \/ Enqueue(q) \/ Resolve(q) \/ Decide(q) \/ Mark(q)
    PROVE  Typed'
<1>1. q \in Worker /\ q # Sender /\ q # Looper
  BY AdmissionAssumption DEF Worker
<1>2. work[q] \in Work /\ WorkTyped(q)
  BY <1>1 DEF Typed
<1>3. CASE Add(q)
  <2>1. work[q].task \in Task /\ work[q].event = "start"
    BY <1>2, <1>3 DEF Add, Does, WorkTyped
  <2>2. recs' \in [Task -> Rec]
    BY <1>2, <1>3, <2>1 DEF Add, Typed, Work
  <2>3. work' \in [Worker -> Work] /\ \A r \in Worker : WorkTyped(r)'
    <3>1. CASE Goes(q, "queue")
      BY <3>1, <2>1, <1>1, GoesTyped
    <3>2. CASE Rests(q)
      BY <3>2, <1>1, RestsTyped
    <3> QED  BY <1>3, <3>1, <3>2 DEF Add
  <2> QED  BY <1>3, <2>2, <2>3 DEF Typed, Add
<1>4. CASE Enqueue(q)
  <2>1. work[q].task \in Task
    BY <1>2, <1>4 DEF Enqueue, Does, WorkTyped
  <2>2. queue' \in Seq(Ev) /\ \A i \in DOMAIN queue' : queue'[i].direct => queue'[i].kind = "stop"
    BY <1>4, <2>1, <1>1, EventTyped, AppendTyped DEF Enqueue
  <2>3. work' \in [Worker -> Work] /\ \A r \in Worker : WorkTyped(r)'
    BY <1>4, <1>1, RestsTyped DEF Enqueue
  <2> QED  BY <1>4, <2>2, <2>3 DEF Typed, Enqueue
<1>5. CASE Resolve(q)
  <2>1. PICK h \in Admins, t \in Task :
            Now(q, [Resting EXCEPT !.pc = "decide", !.event = "stop", !.task = t, !.snap = recs[t], !.token = h])
    BY <1>5 DEF Resolve
  <2> DEFINE w == [Resting EXCEPT !.pc = "decide", !.event = "stop", !.task = t, !.snap = recs[t], !.token = h]
  <2>2. h \in Hash \union {NoHash} /\ recs[t] \in Rec
    BY DEF Admins, Typed
  <2>3. w \in Work /\ w.pc = "decide" /\ w.event = "stop" /\ w.direct = FALSE /\ w.task = t
    BY <2>2 DEF Work, Resting
  <2>4. Now(q, w)
    BY <2>1
  <2> HIDE DEF w
  <2>5. work'[q] = w
    BY <2>4, <1>1 DEF Now, Typed
  <2>6. WorkTyped(q)'
    BY <2>3, <2>5, <1>1 DEF WorkTyped, Does
  <2>7. work' \in [Worker -> Work] /\ \A r \in Worker : WorkTyped(r)'
    BY <2>3, <2>4, <2>6, <1>1, NowTyped
  <2> QED  BY <1>5, <2>7 DEF Typed, Resolve
<1>6. CASE Decide(q)
  <2>1. work[q].task \in Task /\ work[q].event = "stop"
    BY <1>2, <1>6 DEF Decide, Does, WorkTyped
  <2>2. Course(work[q].task, work[q].snap) \in {"delete", "mark"} /\ Goes(q, Course(work[q].task, work[q].snap))
    BY <1>6 DEF Course, Decide
  <2>3. work' \in [Worker -> Work] /\ \A r \in Worker : WorkTyped(r)'
    BY <2>1, <2>2, <1>1, GoesTyped
  <2> QED  BY <1>6, <2>3 DEF Typed, Decide
<1>7. CASE Mark(q)
  <2>1. work[q].task \in Task /\ work[q].event = "stop"
    BY <1>2, <1>7 DEF Mark, Does, WorkTyped
  <2>2. recs' \in [Task -> Rec]
    <3>1. recs \in [Task -> Rec] /\ recs[work[q].task] \in Rec
      BY <2>1 DEF Typed
    <3>2. [recs[work[q].task] EXCEPT !.manual = TRUE] \in Rec
      BY <3>1 DEF Rec
    <3>3. recs' = recs \/ recs' = [recs EXCEPT ![work[q].task] = [recs[work[q].task] EXCEPT !.manual = TRUE]]
      BY <1>7 DEF Mark
    <3> QED  BY <3>1, <3>2, <3>3
  <2>3. work' \in [Worker -> Work] /\ \A r \in Worker : WorkTyped(r)'
    <3>1. CASE Goes(q, "queue")
      BY <3>1, <2>1, <1>1, GoesTyped
    <3>2. CASE Rests(q)
      BY <3>2, <1>1, RestsTyped
    <3> QED  BY <1>7, <3>1, <3>2 DEF Mark
  <2> QED  BY <1>7, <2>2, <2>3 DEF Typed, Mark
<1> QED  BY <1>3, <1>4, <1>5, <1>6, <1>7

LEMMA DropTyped ==
    ASSUME Typed, NEW p \in Request \union {Sender}, Delete(p) \/ Purge(p)
    PROVE  Typed'
<1>1. p \in Worker /\ p # Looper
  BY AdmissionAssumption DEF Worker
<1>2. work[p] \in Work /\ WorkTyped(p)
  BY <1>1 DEF Typed
<1>3. \/ work[p].task \in Task /\ work[p].event = "stop"
      \/ Purge(p)
  BY <1>2 DEF Delete, Purge, Does, WorkTyped
<1>4. CASE Delete(p)
  <2>1. work[p].task \in Task /\ work[p].event = "stop"
    BY <1>2, <1>4 DEF Delete, Does, WorkTyped
  <2>2. recs' \in [Task -> Rec] /\ owned' \subseteq Task
    BY <1>4, <2>1, RestTyped DEF Delete, Typed
  <2>3. queue' \in Seq(Ev) /\ \A i \in DOMAIN queue' : queue'[i].direct => queue'[i].kind = "stop"
    <3>1. CASE queue' = queue
      BY <3>1 DEF Typed
    <3>2. CASE queue' = Append(queue, Event(work[p]))
      BY <3>2, <2>1, <1>1, EventTyped, AppendTyped
    <3> QED  BY <1>4, <3>1, <3>2 DEF Delete
  <2>4. work' \in [Worker -> Work] /\ \A r \in Worker : WorkTyped(r)'
    <3>1. CASE Goes(p, "purge")
      BY <3>1, <2>1, <1>1, GoesTyped
    <3>2. CASE Rests(p)
      BY <3>2, <1>1, RestsTyped
    <3> QED  BY <1>4, <3>1, <3>2 DEF Delete
  <2> QED  BY <2>2, <2>3, <2>4 DEF Typed
<1>5. CASE Purge(p)
  <2>1. queue \in Seq(Ev)
    BY DEF Typed
  <2>2. PICK n \in Nat : DOMAIN queue' = 1 .. n /\ queue' = [k \in 1 .. n |-> queue'[k]]
    BY <1>5, <2>1, PurgeIs
  <2>3. \A k \in DOMAIN queue' : \E i \in DOMAIN queue : queue'[k] = queue[i]
    BY <1>5, <2>1, PurgeIs DEF KeptBy
  <2>4. \A i \in DOMAIN queue : queue[i] \in Ev
    BY <2>1
  <2>5. \A k \in DOMAIN queue' : queue'[k] \in Ev /\ (queue'[k].direct => queue'[k].kind = "stop")
    BY <2>3, <2>4 DEF Typed
  <2>6. queue' \in Seq(Ev)
    <3>1. queue' \in [1 .. n -> Ev]
      BY <2>2, <2>5
    <3> QED  BY <3>1, SeqDef
  <2>7. work' \in [Worker -> Work] /\ \A r \in Worker : WorkTyped(r)'
    BY <1>5, <1>1, RestsTyped DEF Purge
  <2> QED  BY <1>5, <2>5, <2>6, <2>7 DEF Typed, Purge
<1> QED  BY <1>4, <1>5

LEMMA DispatchTyped ==
    ASSUME Typed, queue # <<>>, Dispatch(Head(queue))
    PROVE  Typed'
<1> DEFINE e == Head(queue)
           w(pc) == [Resting EXCEPT !.pc = pc, !.event = e.kind, !.task = e.task, !.snap = e.rec, !.direct = e.direct]
<1>1. /\ Tail(queue) \in Seq(Ev) /\ e \in Ev /\ (e.direct => e.kind = "stop")
      /\ \A i \in DOMAIN Tail(queue) : Tail(queue)[i].direct => Tail(queue)[i].kind = "stop"
  BY TailTyped DEF Typed
<1> HIDE DEF e
<1>2. Sender \in Worker /\ Sender # Looper /\ Sender \notin Request
  BY AdmissionAssumption DEF Worker
<1>3. e.task \in Task /\ e.rec \in Rec /\ e.kind \in {"start", "stop"}
  BY <1>1 DEF Ev
<1>4. queue' = Tail(queue) \/ queue' = Append(Tail(queue), e)
  BY DEF Dispatch, PutOff, e
<1>5. queue' \in Seq(Ev) /\ \A i \in DOMAIN queue' : queue'[i].direct => queue'[i].kind = "stop"
  <2>1. CASE queue' = Tail(queue)
    BY <1>1, <2>1
  <2>2. CASE queue' = Append(Tail(queue), e)
    BY <1>1, <2>2
  <2> QED  BY <1>4, <2>1, <2>2
<1>6. recs' = recs \/ (\E r \in Rec : recs' = [recs EXCEPT ![e.task] = r])
  <2>1. [e.rec EXCEPT !.state = "Active"] \in Rec /\ [recs[e.task] EXCEPT !.state = "Failed"] \in Rec
    BY <1>3 DEF Rec, RecState, Typed
  <2> QED  BY <2>1 DEF Dispatch, e
<1>7. owned' \subseteq Task
  BY <1>3 DEF Dispatch, e, Typed
<1>8. work' = work \/ (e.kind = "stop" /\ Now(Sender, w("delete"))) \/ Now(Sender, w("end"))
  BY DEF Dispatch, e, Now
<1>9. ASSUME NEW pc \in {"delete", "end"}, Now(Sender, w(pc)), pc = "delete" => e.kind = "stop"
      PROVE  work' \in [Worker -> Work] /\ \A r \in Worker : WorkTyped(r)'
  <2>1. w(pc) \in Work /\ w(pc).pc = pc /\ w(pc).event = e.kind /\ w(pc).task = e.task /\ w(pc).direct = e.direct
    BY <1>1, <1>3, RestTyped DEF Work, Resting, Ev
  <2> HIDE DEF w
  <2>2. work'[Sender] = w(pc)
    BY <1>9, <1>2 DEF Now, Typed
  <2>3. WorkTyped(Sender)'
    BY <2>1, <2>2, <1>9, <1>1, <1>2, <1>3 DEF WorkTyped, Does
  <2> QED  BY <2>1, <2>3, <1>9, <1>2, NowTyped
<1>10. work' \in [Worker -> Work] /\ \A r \in Worker : WorkTyped(r)'
  <2>1. CASE work' = work
    BY <2>1 DEF Typed, WorkTyped, Does
  <2> QED  BY <1>8, <1>9, <2>1
<1>11. recs' \in [Task -> Rec]
  BY <1>6, <1>3 DEF Typed
<1> QED  BY <1>5, <1>7, <1>10, <1>11 DEF Typed

LEMMA LoopTyped ==
    ASSUME Typed,
           \/ \E p \in {Sender, Looper} : Terminate(p)
           \/ \E t \in Task : Read(t) \/ Evolve(t)
    PROVE  Typed'
<1>1. Sender \in Worker /\ Looper \in Worker /\ Sender # Looper /\ Looper \notin Request
  BY AdmissionAssumption DEF Worker
<1>2. CASE \E p \in {Sender, Looper} : Terminate(p)
  <2>1. PICK p \in {Sender, Looper} : Terminate(p)
    BY <1>2
  <2>2. p \in Worker /\ work[p] \in Work /\ WorkTyped(p)
    BY <1>1 DEF Typed
  <2>3. work[p].task \in Task /\ [work[p].snap EXCEPT !.state = "Over"] \in Rec
    BY <2>1, <2>2 DEF Terminate, Does, WorkTyped, Work, Rec, RecState
  <2>4. recs' \in [Task -> Rec]
    BY <2>1, <2>3 DEF Terminate, Typed
  <2>5. work' \in [Worker -> Work] /\ \A r \in Worker : WorkTyped(r)'
    BY <2>1, <2>2, RestsTyped DEF Terminate
  <2> QED  BY <2>1, <2>4, <2>5 DEF Typed, Terminate
<1>3. ASSUME NEW t \in Task, Read(t)
      PROVE  Typed'
  <2> DEFINE w == [Resting EXCEPT !.pc = "end", !.task = t, !.snap = recs[t]]
  <2>1. recs[t] \in Rec
    BY DEF Typed
  <2>2. w \in Work /\ w.pc = "end" /\ w.event = "start" /\ w.direct = FALSE /\ w.task = t
    BY <2>1, RestTyped DEF Work, Resting
  <2>3. Now(Looper, w)
    BY <1>3 DEF Read
  <2> HIDE DEF w
  <2>4. work'[Looper] = w
    BY <2>3, <1>1 DEF Now, Typed
  <2>5. WorkTyped(Looper)'
    BY <2>2, <2>4, <1>1 DEF WorkTyped, Does
  <2>6. work' \in [Worker -> Work] /\ \A r \in Worker : WorkTyped(r)'
    BY <2>2, <2>3, <2>5, <1>1, NowTyped
  <2> QED  BY <1>3, <2>6 DEF Typed, Read
<1>4. ASSUME NEW t \in Task, Evolve(t)
      PROVE  Typed'
  <2>1. recs' \in [Task -> Rec] /\ owned' \subseteq Task
    <3>1. recs[t] \in Rec /\ recs \in [Task -> Rec] /\ owned \subseteq Task
      BY DEF Typed
    <3>2. \A s \in RecState : [recs[t] EXCEPT !.state = s] \in Rec
      BY <3>1 DEF Rec
    <3>3. \E s \in RecState : recs' = [recs EXCEPT ![t] = [recs[t] EXCEPT !.state = s]]
      BY <1>4 DEF Evolve, RecState
    <3> QED  BY <1>4, <3>1, <3>2, <3>3 DEF Evolve
  <2>2. \A p \in Worker : WorkTyped(p)'
    BY <1>4 DEF Evolve, Typed, WorkTyped, Does
  <2> QED  BY <1>4, <2>1, <2>2 DEF Typed, Evolve
<1> QED  BY <1>2, <1>3, <1>4

LEMMA TypedInit == AdmissionInit => Typed
<1> SUFFICES ASSUME AdmissionInit PROVE Typed
  OBVIOUS
<1>1. recs \in [Task -> Rec] /\ owned \subseteq Task /\ queue \in Seq(Ev) /\ work \in [Worker -> Work]
  BY RestTyped DEF AdmissionInit, Worker
<1>2. \A p \in Worker : WorkTyped(p)
  BY DEF AdmissionInit, Worker, WorkTyped, Does, Resting
<1> QED  BY <1>1, <1>2 DEF Typed, AdmissionInit

LEMMA TypedStep == Typed /\ [AdmissionNext]_avars => Typed'
<1> SUFFICES ASSUME Typed, [AdmissionNext]_avars PROVE Typed'
  OBVIOUS
<1>1. CASE UNCHANGED avars
  BY <1>1 DEF avars, Typed, WorkTyped, Does
<1>2. CASE AdmissionNext
  BY <1>2, ArriveTyped, RequestTyped, DropTyped, DispatchTyped, LoopTyped DEF AdmissionNext
<1> QED  BY <1>1, <1>2

-----------------------------------------------------------------------------
(* What a step leaves of the events and readers of a task *)

OneStart(t) == \A i, j \in DOMAIN queue : QStart(i, t) /\ QStart(j, t) => i = j

\* No event of t is new, and a start is not doubled; the start is still there.
QLess(t) ==
    /\ \A i \in DOMAIN queue' : QStart(i, t)' \/ QStop(i, t)' => \E j \in DOMAIN queue : queue[j] = queue'[i]
    /\ OneStart(t) => OneStart(t)'
QStays(t) == \A i \in DOMAIN queue : QStart(i, t) => \E j \in DOMAIN queue' : QStart(j, t)'

\* Nobody starts to work on t; the one with its start still has it.
WLess(t) == \A p \in Worker : Engaged(p, t)' => work'[p] = work[p]
WStays(t) == \A p \in Worker : WStart(p, t) => work'[p] = work[p]

LEMMA SameQueue ==
    ASSUME NEW t, queue' = queue
    PROVE  QLess(t) /\ QStays(t)
  BY DEF QLess, QStays, OneStart, QStart, QStop

\* An event of another task, or a stop submitted as such, changes nothing.
LEMMA AppendQueue ==
    ASSUME Typed, NEW t, NEW e \in Ev, queue' = Append(queue, e),
           e.task # t \/ (e.kind = "stop" /\ e.direct)
    PROVE  QLess(t) /\ QStays(t)
<1>1. /\ DOMAIN queue \subseteq DOMAIN queue'
      /\ \A i \in DOMAIN queue : queue'[i] = queue[i]
      /\ \A i \in DOMAIN queue' : i \in DOMAIN queue \/ queue'[i] = e
  BY DEF Typed
<1>2. \A i \in DOMAIN queue' : QStart(i, t)' \/ QStop(i, t)' => i \in DOMAIN queue /\ queue'[i] = queue[i]
  BY <1>1 DEF QStart, QStop
<1>3. \A i \in DOMAIN queue : QStart(i, t) <=> QStart(i, t)'
  BY <1>1 DEF QStart
<1> QED  BY <1>1, <1>2, <1>3 DEF QLess, QStays, OneStart

LEMMA TailQueue ==
    ASSUME Typed, NEW t, queue # <<>>, queue' = Tail(queue)
    PROVE  /\ QLess(t)
           /\ ~QStart(1, t) => QStays(t)
           /\ OneStart(t) /\ QStart(1, t) => \A i \in DOMAIN queue' : ~QStart(i, t)'
<1>1. \A i \in DOMAIN queue' : queue'[i] = queue[i + 1] /\ i + 1 \in DOMAIN queue /\ i \in Nat /\ i # 0
  BY TailTyped DEF Typed
<1>2. \A i \in DOMAIN queue : i = 1 \/ (i - 1 \in DOMAIN queue' /\ queue'[i - 1] = queue[i])
  BY <1>1, TailTyped DEF Typed
<1>3. \A i \in DOMAIN queue' : QStart(i, t)' <=> QStart(i + 1, t)
  BY <1>1 DEF QStart
<1>4. QLess(t)
  <2>1. OneStart(t) => OneStart(t)'
    <3> SUFFICES ASSUME OneStart(t), NEW i \in DOMAIN queue', NEW j \in DOMAIN queue', QStart(i, t)', QStart(j, t)'
                 PROVE  i = j
      BY DEF OneStart
    <3>1. i + 1 = j + 1
      BY <1>1, <1>3 DEF OneStart
    <3> QED  BY <3>1, <1>1
  <2> QED  BY <2>1, <1>1 DEF QLess
<1>5. ~QStart(1, t) => QStays(t)
  BY <1>2 DEF QStays, QStart
<1>6. OneStart(t) /\ QStart(1, t) => \A i \in DOMAIN queue' : ~QStart(i, t)'
  <2> SUFFICES ASSUME OneStart(t), QStart(1, t), NEW i \in DOMAIN queue', QStart(i, t)'
               PROVE  FALSE
    OBVIOUS
  <2>1. i + 1 = 1
    BY <1>1, <1>3, TailTyped DEF OneStart
  <2> QED  BY <2>1, <1>1
<1> QED  BY <1>4, <1>5, <1>6

LEMMA PutOffQueue ==
    ASSUME Typed, NEW t, queue # <<>>, queue' = PutOff(Head(queue))
    PROVE  QLess(t) /\ QStays(t)
<1> DEFINE n == Len(queue)
<1>1. n \in Nat /\ DOMAIN queue = 1 .. n /\ n # 0 /\ Len(Tail(queue)) = n - 1 /\ DOMAIN queue' = 1 .. n
  BY DEF Typed, PutOff
<1>2. \A i \in DOMAIN queue' : queue'[i] = IF i = n THEN queue[1] ELSE queue[i + 1]
  BY DEF Typed, PutOff
<1>3. \A i \in DOMAIN queue' : QStart(i, t)' <=> QStart(IF i = n THEN 1 ELSE i + 1, t)
  BY <1>2 DEF QStart
<1> HIDE DEF n
<1>4. \A i \in DOMAIN queue' : \E j \in DOMAIN queue : queue[j] = queue'[i]
  <2> TAKE i \in DOMAIN queue'
  <2>1. CASE i = n
    <3>1. 1 \in DOMAIN queue /\ queue[1] = queue'[i]
      BY <1>1, <1>2, <2>1
    <3> QED  BY <3>1
  <2>2. CASE i # n
    <3>1. i + 1 \in DOMAIN queue /\ queue[i + 1] = queue'[i]
      BY <1>1, <1>2, <2>2
    <3> QED  BY <3>1
  <2> QED  BY <2>1, <2>2
<1>5. OneStart(t) => OneStart(t)'
  <2> SUFFICES ASSUME OneStart(t), NEW i \in DOMAIN queue', NEW j \in DOMAIN queue', QStart(i, t)', QStart(j, t)'
               PROVE  i = j
    BY DEF OneStart
  <2> DEFINE was(k) == IF k = n THEN 1 ELSE k + 1
  <2>1. was(i) \in DOMAIN queue /\ was(j) \in DOMAIN queue /\ QStart(was(i), t) /\ QStart(was(j), t)
    BY <1>1, <1>3
  <2>2. was(i) = was(j)
    BY <2>1 DEF OneStart
  <2>3. i \in 1 .. n /\ j \in 1 .. n
    BY <1>1
  <2> QED  BY <2>2, <2>3, <1>1
<1>6. QStays(t)
  <2> SUFFICES ASSUME NEW i \in DOMAIN queue, QStart(i, t)
               PROVE  \E j \in DOMAIN queue' : QStart(j, t)'
    BY DEF QStays
  <2> DEFINE j == IF i = 1 THEN n ELSE i - 1
  <2>1. j \in DOMAIN queue' /\ i = IF j = n THEN 1 ELSE j + 1
    BY <1>1
  <2> QED  BY <2>1, <1>3
<1> QED  BY <1>4, <1>5, <1>6 DEF QLess

LEMMA PurgeQueue ==
    ASSUME Typed, NEW t, NEW p, Purge(p)
    PROVE  QLess(t) /\ (work[p].task # t => QStays(t))
<1>1. queue \in Seq(Ev)
  BY DEF Typed
<1>2. PICK f : KeptBy(f, p)
  BY <1>1, PurgeIs
<1>3. \A k \in DOMAIN queue' : \E i \in DOMAIN queue : queue[i] = queue'[k]
  BY <1>2 DEF KeptBy
<1>4. \A k \in DOMAIN queue' : QStart(k, t)' <=> QStart(f[k], t)
  BY <1>2 DEF KeptBy, QStart
<1>5. QLess(t)
  BY <1>2, <1>3, <1>4 DEF QLess, OneStart, KeptBy
<1>6. work[p].task # t => QStays(t)
  <2> SUFFICES ASSUME work[p].task # t, NEW i \in DOMAIN queue, QStart(i, t)
               PROVE  \E j \in DOMAIN queue' : QStart(j, t)'
    BY DEF QStays
  <2>1. queue[i].task # work[p].task
    BY DEF QStart
  <2> QED  BY <2>1, <1>2, <1>4 DEF KeptBy
<1> QED  BY <1>5, <1>6

-----------------------------------------------------------------------------
(* Lives of task IDs, step by step *)

LEMMA Holders ==
    ASSUME Typed, NEW p \in Worker, NEW t, WStart(p, t) \/ WStop(p, t)
    PROVE  Engaged(p, t)
  BY DEF Typed, WorkTyped, WStart, WStop, Engaged, Does

\* If nothing of t is new, what holds of its events and readers goes on.
LEMMA Less ==
    ASSUME Typed', NEW t, QLess(t), WLess(t)
    PROVE  /\ \A i \in DOMAIN queue' : QStart(i, t)' =>
                  \E j \in DOMAIN queue : QStart(j, t) /\ queue[j] = queue'[i]
           /\ \A i \in DOMAIN queue' : QStop(i, t)' => \E j \in DOMAIN queue : QStop(j, t)
           /\ \A p \in Worker : Engaged(p, t)' => Engaged(p, t) /\ work'[p] = work[p]
           /\ \A p \in Worker : WStart(p, t)' => WStart(p, t) /\ work'[p] = work[p]
           /\ \A p \in Worker : WStop(p, t)' => WStop(p, t)
           /\ Sole(t) => Sole(t)'
           /\ InFlight(t)' => InFlight(t)
<1>1. /\ \A i \in DOMAIN queue' : QStart(i, t)' => \E j \in DOMAIN queue : QStart(j, t) /\ queue[j] = queue'[i]
      /\ \A i \in DOMAIN queue' : QStop(i, t)' => \E j \in DOMAIN queue : QStop(j, t)
  BY DEF QLess, QStart, QStop
<1>2. \A p \in Worker : Engaged(p, t)' => Engaged(p, t) /\ work'[p] = work[p]
  BY DEF WLess, Engaged, Does
<1>3. \A p \in Worker : WStart(p, t)' \/ WStop(p, t)' => Engaged(p, t)'
  BY DEF Typed, WorkTyped, WStart, WStop, Engaged, Does
<1>4. \A p \in Worker : /\ WStart(p, t)' => WStart(p, t) /\ work'[p] = work[p]
                        /\ WStop(p, t)' => WStop(p, t)
  BY <1>2, <1>3 DEF WStart, WStop, Does
<1>5. Sole(t) => Sole(t)'
  BY <1>1, <1>4 DEF Sole, QLess, OneStart
<1>6. InFlight(t)' => InFlight(t)
  BY <1>1, <1>4 DEF InFlight
<1> QED  BY <1>1, <1>2, <1>4, <1>5, <1>6

LEMMA LessUnheard ==
    ASSUME Typed', NEW t \in Task, Unheard(t), QLess(t), WLess(t), accepted \subseteq accepted',
           Exists(t)' => Exists(t)
    PROVE  Unheard(t)'
  BY Less DEF Unheard

\* The record may be changed as long as its readers cannot tell.
LEMMA LessLife ==
    ASSUME Typed', NEW t \in Task, Life(t), QLess(t), WLess(t),
           recs'[t].state # "none" =>
               \/ recs[t].state # "none" /\ recs'[t].name = recs[t].name
               \/ \E p \in Worker : work[p].task = t /\ Does(p, "end") /\ recs'[t].name = work[p].snap.name,
           InFlight(t)' => recs'[t].state \in {"none", recs[t].state},
           \/ Settled(t) => Settled(t)'
           \/ (\A i \in DOMAIN queue : ~QStop(i, t)) /\ (\A p \in Worker : ~WStop(p, t)),
           recs'[t].state = "Pending" => recs[t].state = "Pending" /\ QStays(t) /\ WStays(t)
    PROVE  Life(t)'
<1>1. Sole(t)'
  BY Less DEF Life
<1>2. Early(t)'
  <2> SUFFICES ASSUME InFlight(t)' PROVE Early(t)'
    BY DEF Early
  <2>1. InFlight(t) /\ Early(t)
    BY Less DEF Life
  <2>2. recs'[t].state \in {"none", "Pending"} /\ \A i \in DOMAIN queue' : ~QStop(i, t)'
    BY <2>1, Less DEF Early
  <2>3. ASSUME NEW p \in Worker, work'[p].task = t
        PROVE  /\ ~WStop(p, t)' /\ ~Does(p, "mark")' /\ ~(p = Looper /\ Does(p, "end")')
               /\ Does(p, "decide")' => work'[p].snap.state = "Pending"
    <3>1. CASE Engaged(p, t)'
      <4>1. work'[p] = work[p]
        BY <3>1, Less
      <4> QED  BY <4>1, <2>1, <2>3, Less DEF Early, Does
    <3>2. CASE ~Engaged(p, t)'
      <4>1. ~WStop(p, t)'
        BY <3>2, Less, <2>3 DEF Typed, WorkTyped, WStop, Engaged, Does
      <4> QED  BY <4>1, <3>2, <2>3 DEF Engaged, Does
    <3> QED  BY <3>1, <3>2
  <2> QED  BY <2>2, <2>3 DEF Early
<1>3. Marked(t)'
  BY Less DEF Life, Marked
<1>4. Purged(t)'
  <2> SUFFICES ASSUME NEW p \in Worker, work'[p].task = t, Does(p, "purge")'
               PROVE  recs'[t].state # "Pending"
    BY DEF Purged
  <2>1. work'[p] = work[p]
    BY Less DEF Engaged, Does
  <2> QED  BY <2>1 DEF Life, Purged, Does
<1>5. Waits(t)'
  BY DEF Life, Waits, InFlight, QStays, WStays, WStart, Does
<1>6. Named(t)'
  <2>1. PICK name : /\ Exists(t) => recs[t].name = name
                    /\ \A i \in DOMAIN queue : QStart(i, t) => queue[i].rec.name = name
                    /\ \A p \in Worker : WStart(p, t) \/ (work[p].task = t /\ Does(p, "end"))
                                             => work[p].snap.name = name
    BY DEF Life, Named
  <2>2. Exists(t)' => recs'[t].name = name
    BY <2>1 DEF Exists
  <2>3. \A i \in DOMAIN queue' : QStart(i, t)' => queue'[i].rec.name = name
    BY <2>1, Less
  <2>4. \A p \in Worker : WStart(p, t)' => work'[p].snap.name = name
    BY <2>1, Less
  <2>5. \A p \in Worker : work'[p].task = t /\ Does(p, "end")' => work'[p].snap.name = name
    <3> SUFFICES ASSUME NEW p \in Worker, work'[p].task = t, Does(p, "end")'
                 PROVE  work'[p].snap.name = name
      OBVIOUS
    <3>1. work'[p] = work[p]
      BY Less DEF Engaged, Does
    <3> QED  BY <3>1, <2>1 DEF Does
  <2> QED  BY <2>2, <2>3, <2>4, <2>5 DEF Named
<1> QED  BY <1>1, <1>2, <1>3, <1>4, <1>5, <1>6 DEF Life

\* A task that a step does not touch.
LEMMA Undisturbed ==
    ASSUME Typed', NEW t \in Task, TaskInv(t), QLess(t), WLess(t), recs'[t] = recs[t],
           accepted \subseteq accepted', reused \subseteq reused',
           recs[t].state = "Pending" => QStays(t) /\ WStays(t)
    PROVE  TaskInv(t)'
<1>1. Unheard(t)'
  BY LessUnheard DEF TaskInv, Exists
<1>2. ASSUME t \notin reused' PROVE Life(t)'
  <2>1. Life(t)
    BY <1>2 DEF TaskInv
  <2>2. Settled(t)' <=> Settled(t)
    BY DEF Settled, Exists
  <2> QED  BY <2>1, <2>2, LessLife
<1> QED  BY <1>1, <1>2 DEF TaskInv

\* Only p moves, and it is not about to work on t.
LEMMA WorkNow ==
    ASSUME Typed, NEW p \in Worker, NEW w, Now(p, w)
    PROVE  work'[p] = w /\ \A r \in Worker : r # p => work'[r] = work[r]
  BY DEF Typed, Now

LEMMA WorkQuiet ==
    ASSUME Typed, NEW p \in Worker, NEW w, Now(p, w), NEW t \in Task, ~Engaged(p, t)'
    PROVE  WLess(t) /\ (~WStart(p, t) => WStays(t))
  BY WorkNow DEF WLess, WStays, Engaged

LEMMA WorkRests ==
    ASSUME Typed, NEW p \in Worker, Rests(p), NEW t \in Task
    PROVE  WLess(t) /\ (~WStart(p, t) => WStays(t)) /\ ~Engaged(p, t)'
<1>1. Now(p, Resting)
  BY DEF Rests
<1>2. work'[p] = Resting
  BY <1>1, WorkNow
<1>3. ~Engaged(p, t)'
  BY <1>2 DEF Engaged, Does, Resting
<1> QED  BY <1>1, <1>3, WorkQuiet

LEMMA WorkGoes ==
    ASSUME Typed, NEW p \in Worker, NEW pc, Goes(p, pc)
    PROVE  /\ work'[p].pc = pc /\ work'[p].task = work[p].task /\ work'[p].event = work[p].event
           /\ work'[p].direct = work[p].direct /\ work'[p].snap = work[p].snap
           /\ \A r \in Worker : r # p => work'[r] = work[r]
<1>1. work[p] \in Work
  BY DEF Typed
<1> QED  BY <1>1, WorkNow DEF Goes, Work

LEMMA WorkSame ==
    ASSUME NEW t, work' = work
    PROVE  WLess(t) /\ WStays(t)
  BY DEF WLess, WStays

\* A request arrives: nobody is told of it.
LEMMA ArriveKeeps ==
    ASSUME Typed, Typed', NEW t \in Task, TaskInv(t), NEW q \in Request, Arrive(q)
    PROVE  TaskInv(t)'
<1>1. q \in Worker
  BY DEF Worker
<1>2. ~Engaged(q, t)'
  <2>1. \E w : Now(q, w) /\ (w.pc = "add" \/ (w.pc = "queue" /\ w.direct))
    <3>1. ASSUME NEW h, NEW u, NEW rec,
                 Now(q, [Resting EXCEPT !.pc = "add", !.task = u, !.token = h, !.snap = rec])
          PROVE  \E w : Now(q, w) /\ w.pc = "add"
      <4> DEFINE w == [Resting EXCEPT !.pc = "add", !.task = u, !.token = h, !.snap = rec]
      <4>1. w.pc = "add" /\ Now(q, w)
        BY <3>1 DEF Resting
      <4> HIDE DEF w
      <4> QED  BY <4>1
    <3>2. ASSUME NEW h, NEW u,
                 Now(q, [Resting EXCEPT !.pc = "queue", !.event = "stop", !.direct = TRUE, !.task = u, !.token = h])
          PROVE  \E w : Now(q, w) /\ w.pc = "queue" /\ w.direct
      <4> DEFINE w == [Resting EXCEPT !.pc = "queue", !.event = "stop", !.direct = TRUE, !.task = u, !.token = h]
      <4>1. w.pc = "queue" /\ w.direct /\ Now(q, w)
        BY <3>2 DEF Resting
      <4> HIDE DEF w
      <4> QED  BY <4>1
    <3> QED  BY <3>1, <3>2 DEF Arrive
  <2>2. Does(q, "add")' \/ (Does(q, "queue")' /\ work'[q].direct)
    BY <2>1, <1>1, WorkNow DEF Does
  <2> QED  BY <2>2 DEF Engaged, Does
<1>3. WLess(t) /\ WStays(t)
  <2>1. \E w : Now(q, w)
    BY DEF Arrive
  <2>2. ~WStart(q, t)
    BY DEF Arrive, Does, WStart
  <2> QED  BY <2>1, <2>2, <1>1, <1>2, WorkQuiet, AdmissionAssumption
<1> QED  BY <1>3, SameQueue, Undisturbed DEF Arrive

\* A first life begins with one start, in the hands of its request; a name
\* or an ID that is taken is rejected.
LEMMA AddKeeps ==
    ASSUME Typed, Typed', NEW t \in Task, TaskInv(t), NEW q \in Request, Add(q)
    PROVE  TaskInv(t)'
<1>1. q \in Worker /\ work[q].task \in Task /\ work[q].event = "start" /\ work[q].snap.state = "Pending"
  <2>1. q \in Worker
    BY DEF Worker
  <2>2. WorkTyped(q)
    BY <2>1 DEF Typed
  <2> QED  BY <2>1, <2>2 DEF Add, WorkTyped, Does
<1>2. ~WStart(q, t) /\ queue' = queue
  BY AdmissionAssumption DEF Add, WStart, Does
<1>3. CASE Rests(q) /\ UNCHANGED <<recs, accepted, reused>>
  BY <1>1, <1>2, <1>3, WorkRests, SameQueue, Undisturbed
<1>4. CASE /\ Goes(q, "queue") /\ recs' = [recs EXCEPT ![work[q].task] = work[q].snap]
           /\ accepted' = accepted \union {work[q].task}
           /\ reused' = IF work[q].task \in accepted THEN reused \union {work[q].task} ELSE reused
           /\ ~Exists(work[q].task)
  <2>1. /\ work'[q].pc = "queue" /\ work'[q].task = work[q].task /\ work'[q].event = "start"
        /\ work'[q].snap = work[q].snap
        /\ \A r \in Worker : r # q => work'[r] = work[r]
    BY <1>1, <1>4, WorkGoes
  <2>2. CASE work[q].task # t
    <3>1. ~Engaged(q, t)'
      BY <2>1, <2>2 DEF Engaged
    <3>2. WLess(t) /\ WStays(t)
      BY <1>1, <1>2, <1>4, <3>1, WorkQuiet DEF Goes
    <3>3. recs'[t] = recs[t] /\ accepted \subseteq accepted' /\ reused \subseteq reused'
      BY <1>4, <2>2 DEF Typed
    <3> QED  BY <1>2, <3>2, <3>3, SameQueue, Undisturbed
  <2>3. CASE work[q].task = t
    <3>1. t \in accepted' /\ recs'[t] = work[q].snap
      BY <1>1, <1>4, <2>3 DEF Typed
    <3>2. ASSUME t \notin reused' PROVE Life(t)'
      <4>1. t \notin accepted
        BY <1>4, <2>3, <3>2
      <4>2. /\ \A i \in DOMAIN queue' : ~QStart(i, t)' /\ ~QStop(i, t)'
            /\ \A p \in Worker : p # q => ~Engaged(p, t)'
        BY <4>1, <1>2, <2>1 DEF TaskInv, Unheard, QStart, QStop, Engaged, Does
      <4>3. \A p \in Worker : p # q => ~WStart(p, t)' /\ ~WStop(p, t)'
        BY <4>2 DEF Typed, WorkTyped, Engaged, WStart, WStop, Does
      <4>4. WStart(q, t)' /\ ~WStop(q, t)' /\ work'[q].task = t
        BY <2>1, <2>3 DEF WStart, WStop, Does
      <4>5. Sole(t)'
        BY <4>2, <4>3 DEF Sole
      <4>6. Early(t)'
        BY <1>1, <2>1, <3>1, <4>2, <4>3, <4>4 DEF Early, Engaged, Does
      <4>7. Marked(t)' /\ Purged(t)'
        BY <2>1, <4>2, <4>3, <4>4 DEF Marked, Purged, Engaged, Does
      <4>8. Waits(t)'
        BY <1>1, <4>4 DEF Waits, InFlight
      <4>9. Named(t)'
        <5>1. \A p \in Worker : WStart(p, t)' \/ (work'[p].task = t /\ Does(p, "end")')
                                    => work'[p].snap.name = work[q].snap.name
          BY <2>1, <4>2, <4>3 DEF Engaged, Does
        <5>2. recs'[t].name = work[q].snap.name
          BY <3>1
        <5> QED  BY <4>2, <5>1, <5>2 DEF Named
      <4> QED  BY <4>5, <4>6, <4>7, <4>8, <4>9 DEF Life
    <3> QED  BY <3>1, <3>2 DEF TaskInv, Unheard
  <2> QED  BY <2>2, <2>3
<1> QED  BY <1>3, <1>4 DEF Add

\* A start or a decided stop passes from its holder to the queue.
LEMMA PassKeeps ==
    ASSUME Typed, Typed', NEW t \in Task, TaskInv(t), NEW q \in Worker,
           \/ Does(q, "queue") /\ q \in Request
           \/ Does(q, "delete") /\ q = Sender,
           queue' = Append(queue, Event(work[q])), Rests(q),
           recs' = recs, accepted' = accepted, reused' = reused
    PROVE  TaskInv(t)'
<1> DEFINE e == Event(work[q])
<1>1. /\ work[q] \in Work /\ work[q].task \in Task /\ (Does(q, "delete") => work[q].event = "stop")
      /\ work[q].direct => work[q].event = "stop"
  <2>1. WorkTyped(q) /\ work[q] \in Work
    BY DEF Typed
  <2> QED  BY <2>1 DEF WorkTyped, Does
<1>2. /\ e \in Ev /\ e.task = work[q].task /\ e.kind = work[q].event /\ e.direct = work[q].direct
      /\ e.kind = "start" => e.rec = work[q].snap
  BY <1>1, EventTyped DEF Event
<1>3. WLess(t) /\ ~Engaged(q, t)' /\ work'[q] = Resting /\ \A r \in Worker : r # q => work'[r] = work[r]
  BY WorkRests, WorkNow DEF Rests
<1>4. queue' = Append(queue, e)
  OBVIOUS
<1> HIDE DEF e
<1>5. CASE work[q].task # t \/ work[q].direct
  <2>1. ~WStart(q, t)
    BY <1>1, <1>5, AdmissionAssumption DEF WStart, Does
  <2>2. QLess(t) /\ QStays(t)
    <3>1. e.task # t \/ (e.kind = "stop" /\ e.direct)
      BY <1>1, <1>2, <1>5
    <3> QED  BY <3>1, <1>2, <1>4, AppendQueue
  <2>3. WStays(t)
    BY <2>1, WorkRests
  <2> QED  BY <1>3, <2>2, <2>3, Undisturbed
<1>6. CASE work[q].task = t /\ ~work[q].direct
  <2>1. Engaged(q, t) /\ t \in accepted
    <3>1. Engaged(q, t)
      BY <1>6 DEF Engaged, Does
    <3> QED  BY <3>1 DEF TaskInv, Unheard
  <2>2. PICK new \in DOMAIN queue' :
            /\ queue'[new] = e /\ DOMAIN queue \subseteq DOMAIN queue'
            /\ \A i \in DOMAIN queue : queue'[i] = queue[i] /\ i # new
            /\ \A i \in DOMAIN queue' : i \in DOMAIN queue \/ i = new
    <3>1. Len(queue) + 1 \in DOMAIN queue'
      BY <1>4 DEF Typed
    <3> QED  BY <1>4, <3>1 DEF Typed
  <2>3. \A i \in DOMAIN queue : (QStart(i, t)' <=> QStart(i, t)) /\ (QStop(i, t)' <=> QStop(i, t))
    BY <2>2 DEF QStart, QStop
  <2>4. /\ QStart(new, t)' <=> WStart(q, t)
        /\ QStop(new, t)' <=> WStop(q, t)
    BY <1>1, <1>2, <1>6, <2>2, AdmissionAssumption DEF QStart, QStop, WStart, WStop, Work, Does
  <2>5. \A p \in Worker : /\ WStart(p, t)' <=> (p # q /\ WStart(p, t))
                          /\ WStop(p, t)' <=> (p # q /\ WStop(p, t))
                          /\ Engaged(p, t)' => p # q
    <3>1. ~WStart(q, t)' /\ ~WStop(q, t)'
      BY <1>3 DEF WStart, WStop, Does, Resting
    <3> QED  BY <1>3, <3>1 DEF WStart, WStop, Engaged, Does
  <2>6. ASSUME t \notin reused' PROVE Life(t)'
    <3>1. Life(t)
      BY <2>6 DEF TaskInv
    <3>2. Sole(t)'
      BY <2>2, <2>3, <2>4, <2>5, <3>1 DEF Life, Sole
    <3>3. InFlight(t)' <=> InFlight(t)
      BY <2>2, <2>3, <2>4, <2>5 DEF InFlight
    <3>4. Early(t)'
      <4> SUFFICES ASSUME InFlight(t)' PROVE Early(t)'
        BY DEF Early
      <4>1. Early(t) /\ InFlight(t)
        BY <3>1, <3>3 DEF Life
      <4>2. recs'[t].state \in {"none", "Pending"} /\ \A i \in DOMAIN queue' : ~QStop(i, t)'
        BY <1>6, <2>2, <2>3, <2>4, <4>1 DEF Early
      <4>3. ASSUME NEW p \in Worker, work'[p].task = t
            PROVE  /\ ~WStop(p, t)' /\ ~Does(p, "mark")' /\ ~(p = Looper /\ Does(p, "end")')
                   /\ Does(p, "decide")' => work'[p].snap.state = "Pending"
        <5>1. p # q
          BY <4>3, <1>3, TasksAndWorkersAssumption DEF Resting
        <5> QED  BY <1>3, <2>5, <4>1, <4>3, <5>1 DEF Early, Does
      <4> QED  BY <4>2, <4>3 DEF Early
    <3>5. Marked(t)'
      <4>1. Settled(t)' <=> Settled(t)
        BY DEF Settled, Exists
      <4> QED  BY <2>2, <2>3, <2>4, <2>5, <3>1, <4>1 DEF Life, Marked
    <3>6. Purged(t)'
      <4> SUFFICES ASSUME NEW p \in Worker, work'[p].task = t, Does(p, "purge")'
                   PROVE  recs'[t].state # "Pending"
        BY DEF Purged
      <4>1. work'[p] = work[p]
        BY <1>3, <2>5 DEF Engaged, Does
      <4> QED  BY <3>1, <4>1 DEF Life, Purged, Does
    <3>7. Waits(t)'
      BY <3>1, <3>3 DEF Life, Waits
    <3>8. Named(t)'
      <4>1. PICK name : /\ Exists(t) => recs[t].name = name
                        /\ \A i \in DOMAIN queue : QStart(i, t) => queue[i].rec.name = name
                        /\ \A p \in Worker : WStart(p, t) \/ (work[p].task = t /\ Does(p, "end"))
                                                 => work[p].snap.name = name
        BY <3>1 DEF Life, Named
      <4>2. Exists(t)' => recs'[t].name = name
        BY <4>1 DEF Exists
      <4>3. \A i \in DOMAIN queue' : QStart(i, t)' => queue'[i].rec.name = name
        <5>1. QStart(new, t)' => queue'[new].rec.name = name
          BY <1>2, <2>2, <2>4, <4>1 DEF QStart
        <5> QED  BY <2>2, <2>3, <4>1, <5>1
      <4>4. \A p \in Worker : WStart(p, t)' \/ (work'[p].task = t /\ Does(p, "end")')
                                 => work'[p].snap.name = name
        BY <1>3, <2>5, <4>1 DEF Does, Engaged
      <4> QED  BY <4>2, <4>3, <4>4 DEF Named
    <3> QED  BY <3>2, <3>4, <3>5, <3>6, <3>7, <3>8 DEF Life
  <2> QED  BY <2>1, <2>6 DEF TaskInv, Unheard
<1> QED  BY <1>5, <1>6

\* A goroutine goes on with t and does not get hold of its start.
LEMMA MoveLife ==
    ASSUME Typed', NEW t \in Task, Life(t), QLess(t), NEW q \in Worker,
           \A r \in Worker : r # q => work'[r] = work[r],
           ~WStart(q, t)',
           recs'[t].state # "none" => recs[t].state # "none" /\ recs'[t].name = recs[t].name,
           InFlight(t) => /\ recs'[t].state \in {"none", recs[t].state}
                          /\ ~WStop(q, t)' /\ ~Does(q, "mark")' /\ ~(q = Looper /\ Does(q, "end")')
                          /\ Does(q, "decide")' => work'[q].snap.state = "Pending",
           Settled(t) => Settled(t)', WStop(q, t)' => Settled(t)',
           recs'[t].state = "Pending" => /\ recs[t].state = "Pending" /\ QStays(t) /\ ~WStart(q, t)
                                         /\ ~(work'[q].task = t /\ Does(q, "purge")'),
           Does(q, "end")' => recs[t].state # "none" /\ work'[q].snap.name = recs[t].name
    PROVE  Life(t)'
<1>1. /\ \A i \in DOMAIN queue' : QStart(i, t)' => \E j \in DOMAIN queue : QStart(j, t) /\ queue[j] = queue'[i]
      /\ \A i \in DOMAIN queue' : QStop(i, t)' => \E j \in DOMAIN queue : QStop(j, t)
  BY DEF QLess, QStart, QStop
<1>2. \A p \in Worker : /\ WStart(p, t)' => p # q /\ WStart(p, t) /\ work'[p] = work[p]
                        /\ WStop(p, t)' => p = q \/ WStop(p, t)
  BY DEF WStart, WStop, Does
<1>3. Sole(t)'
  BY <1>1, <1>2 DEF Life, Sole, QLess, OneStart
<1>4. InFlight(t)' => InFlight(t)
  BY <1>1, <1>2 DEF InFlight
<1>5. Early(t)'
  <2> SUFFICES ASSUME InFlight(t)' PROVE Early(t)'
    BY DEF Early
  <2>1. InFlight(t) /\ Early(t)
    BY <1>4 DEF Life
  <2>2. recs'[t].state \in {"none", "Pending"} /\ \A i \in DOMAIN queue' : ~QStop(i, t)'
    BY <1>1, <2>1 DEF Early
  <2>3. ASSUME NEW p \in Worker, work'[p].task = t
        PROVE  /\ ~WStop(p, t)' /\ ~Does(p, "mark")' /\ ~(p = Looper /\ Does(p, "end")')
               /\ Does(p, "decide")' => work'[p].snap.state = "Pending"
    <3>1. CASE p = q
      BY <2>1, <3>1
    <3>2. CASE p # q
      BY <1>2, <2>1, <2>3, <3>2 DEF Early, Does
    <3> QED  BY <3>1, <3>2
  <2> QED  BY <2>2, <2>3 DEF Early
<1>6. Marked(t)'
  BY <1>1, <1>2 DEF Life, Marked
<1>7. Purged(t)'
  <2> SUFFICES ASSUME NEW p \in Worker, work'[p].task = t, Does(p, "purge")', recs'[t].state = "Pending"
               PROVE  FALSE
    BY DEF Purged
  <2>1. p # q /\ work'[p] = work[p]
    OBVIOUS
  <2> QED  BY <2>1 DEF Life, Purged, Does
<1>8. Waits(t)'
  <2> SUFFICES ASSUME recs'[t].state = "Pending" PROVE InFlight(t)'
    BY DEF Waits
  <2>1. InFlight(t) /\ QStays(t) /\ ~WStart(q, t)
    BY DEF Life, Waits
  <2>2. \A p \in Worker : WStart(p, t) => WStart(p, t)'
    BY <2>1 DEF WStart, Does
  <2> QED  BY <2>1, <2>2 DEF InFlight, QStays
<1>9. Named(t)'
  <2>1. PICK name : /\ Exists(t) => recs[t].name = name
                    /\ \A i \in DOMAIN queue : QStart(i, t) => queue[i].rec.name = name
                    /\ \A p \in Worker : WStart(p, t) \/ (work[p].task = t /\ Does(p, "end"))
                                             => work[p].snap.name = name
    BY DEF Life, Named
  <2>2. (Exists(t)' => recs'[t].name = name) /\ \A i \in DOMAIN queue' : QStart(i, t)' => queue'[i].rec.name = name
    BY <1>1, <2>1 DEF Exists
  <2>3. \A p \in Worker : WStart(p, t)' => work'[p].snap.name = name
    BY <1>2, <2>1
  <2>4. \A p \in Worker : work'[p].task = t /\ Does(p, "end")' => work'[p].snap.name = name
    <3> SUFFICES ASSUME NEW p \in Worker, work'[p].task = t, Does(p, "end")'
                 PROVE  work'[p].snap.name = name
      OBVIOUS
    <3>1. CASE p = q
      BY <2>1, <3>1 DEF Exists
    <3>2. CASE p # q
      BY <2>1, <3>2 DEF Does
    <3> QED  BY <3>1, <3>2
  <2> QED  BY <2>2, <2>3, <2>4 DEF Named
<1> QED  BY <1>3, <1>5, <1>6, <1>7, <1>8, <1>9 DEF Life

\* The same of an accepted task in any life.
LEMMA MoveInv ==
    ASSUME Typed', NEW t \in Task, TaskInv(t), t \in accepted, accepted' = accepted, reused' = reused,
           t \notin reused => Life(t)'
    PROVE  TaskInv(t)'
  BY DEF TaskInv, Unheard

LEMMA EnqueueKeeps ==
    ASSUME Typed, Typed', NEW t \in Task, TaskInv(t), NEW q \in Request, Enqueue(q)
    PROVE  TaskInv(t)'
<1>1. q \in Worker /\ Does(q, "queue")
  BY DEF Worker, Enqueue
<1>2. /\ queue' = Append(queue, Event(work[q])) /\ Rests(q)
      /\ recs' = recs /\ accepted' = accepted /\ reused' = reused
  BY DEF Enqueue
<1> QED  BY <1>1, <1>2, PassKeeps

\* Whoever resolves a reference sees a task that has not left the queue as
\* Pending.
LEMMA ResolveKeeps ==
    ASSUME Typed, Typed', NEW t \in Task, TaskInv(t), NEW q \in Request, Resolve(q)
    PROVE  TaskInv(t)'
<1>1. q \in Worker /\ q # Looper /\ q # Sender
  BY AdmissionAssumption DEF Worker
<1>2. PICK h \in Admins, u \in Task :
          /\ Exists(u)
          /\ Now(q, [Resting EXCEPT !.pc = "decide", !.event = "stop", !.task = u, !.snap = recs[u], !.token = h])
  BY DEF Resolve, Meant
<1> DEFINE w == [Resting EXCEPT !.pc = "decide", !.event = "stop", !.task = u, !.snap = recs[u], !.token = h]
<1>3. Now(q, w) /\ w.pc = "decide" /\ w.task = u /\ w.snap = recs[u]
  BY <1>2 DEF Resting
<1> HIDE DEF w
<1>4. /\ work'[q].pc = "decide" /\ work'[q].task = u /\ work'[q].snap = recs[u]
      /\ \A r \in Worker : r # q => work'[r] = work[r]
  BY <1>1, <1>3, WorkNow
<1>5. recs' = recs /\ queue' = queue /\ accepted' = accepted /\ reused' = reused
  BY DEF Resolve
<1>6. ~WStart(q, t) /\ QLess(t) /\ QStays(t)
  BY <1>1, <1>5, SameQueue DEF Resolve, WStart, Does
<1>7. CASE u # t
  <2>1. ~Engaged(q, t)'
    BY <1>4, <1>7 DEF Engaged
  <2>2. WLess(t) /\ WStays(t)
    BY <1>1, <1>3, <1>6, <2>1, WorkQuiet
  <2> QED  BY <1>5, <1>6, <2>2, Undisturbed
<1>8. CASE u = t
  <2>1. t \in accepted
    BY <1>2, <1>8 DEF TaskInv, Unheard
  <2>2. ASSUME t \notin reused PROVE Life(t)'
    <3>1. Life(t)
      BY <2>2 DEF TaskInv
    <3>2. ~WStart(q, t)' /\ ~WStop(q, t)'
      BY <1>1, <1>4 DEF WStart, WStop, Does
    <3>3. InFlight(t) => work'[q].snap.state = "Pending"
      BY <1>2, <1>4, <1>8, <3>1 DEF Life, Early, Exists
    <3>4. Settled(t) => Settled(t)'
      BY <1>5 DEF Settled, Exists
    <3> QED  BY <1>1, <1>4, <1>5, <1>6, <3>1, <3>2, <3>3, <3>4, MoveLife DEF Does
  <2> QED  BY <1>5, <2>1, <2>2, MoveInv
<1> QED  BY <1>7, <1>8

\* A task read as Pending is deleted, not marked.
LEMMA DecideKeeps ==
    ASSUME Typed, Typed', NEW t \in Task, TaskInv(t), NEW q \in Request, Decide(q)
    PROVE  TaskInv(t)'
<1> DEFINE pc == Course(work[q].task, work[q].snap)
<1>1. q \in Worker /\ q # Looper /\ q # Sender
  BY AdmissionAssumption DEF Worker
<1>2. pc \in {"delete", "mark"} /\ (work[q].snap.state = "Pending" => pc = "delete")
  BY DEF Course
<1>3. Goes(q, pc)
  BY DEF Decide
<1> HIDE DEF pc
<1>4. /\ work'[q].pc = pc /\ work'[q].task = work[q].task
      /\ \A r \in Worker : r # q => work'[r] = work[r]
  BY <1>1, <1>3, WorkGoes
<1>5. recs' = recs /\ queue' = queue /\ accepted' = accepted /\ reused' = reused /\ Does(q, "decide")
  BY DEF Decide
<1>6. ~WStart(q, t) /\ QLess(t) /\ QStays(t)
  BY <1>1, <1>5, SameQueue DEF WStart, Does
<1>7. CASE work[q].task # t
  <2>1. ~Engaged(q, t)'
    BY <1>4, <1>7 DEF Engaged
  <2>2. WLess(t) /\ WStays(t)
    BY <1>1, <1>3, <1>6, <2>1, WorkQuiet DEF Goes
  <2> QED  BY <1>5, <1>6, <2>2, Undisturbed
<1>8. CASE work[q].task = t
  <2>1. t \in accepted
    BY <1>1, <1>5, <1>8 DEF TaskInv, Unheard, Engaged, Does
  <2>2. ASSUME t \notin reused PROVE Life(t)'
    <3>1. Life(t)
      BY <2>2 DEF TaskInv
    <3>2. ~WStart(q, t)' /\ ~WStop(q, t)'
      BY <1>1, <1>2, <1>4 DEF WStart, WStop, Does
    <3>3. InFlight(t) => pc = "delete"
      BY <1>1, <1>2, <1>5, <1>8, <3>1 DEF Life, Early
    <3>4. Settled(t) => Settled(t)'
      BY <1>5 DEF Settled, Exists
    <3> QED  BY <1>1, <1>2, <1>4, <1>5, <1>6, <3>1, <3>2, <3>3, <3>4, MoveLife DEF Does
  <2> QED  BY <1>5, <2>1, <2>2, MoveInv
<1> QED  BY <1>7, <1>8

\* The mark is written before the stop is queued.
LEMMA MarkKeeps ==
    ASSUME Typed, Typed', NEW t \in Task, TaskInv(t), NEW q \in Request, Mark(q)
    PROVE  TaskInv(t)'
<1>1. q \in Worker /\ q # Looper /\ q # Sender
  BY AdmissionAssumption DEF Worker
<1>2. queue' = queue /\ accepted' = accepted /\ reused' = reused /\ Does(q, "mark")
  BY DEF Mark
<1>3. ~WStart(q, t) /\ QLess(t) /\ QStays(t) /\ work[q].task \in Task /\ work[q].event = "stop"
  <2>1. WorkTyped(q)
    BY <1>1 DEF Typed
  <2> QED  BY <1>1, <1>2, <2>1, SameQueue DEF WStart, Does, WorkTyped
<1>4. CASE recs' = recs /\ Rests(q)
  BY <1>1, <1>2, <1>3, <1>4, WorkRests, Undisturbed
<1>5. CASE Exists(work[q].task) /\ recs' = [recs EXCEPT ![work[q].task].manual = TRUE] /\ Goes(q, "queue")
  <2>1. /\ work'[q].pc = "queue" /\ work'[q].task = work[q].task /\ work'[q].event = "stop"
        /\ \A r \in Worker : r # q => work'[r] = work[r]
    BY <1>1, <1>3, <1>5, WorkGoes
  <2>2. CASE work[q].task # t
    <3>1. ~Engaged(q, t)'
      BY <2>1, <2>2 DEF Engaged
    <3>2. WLess(t) /\ WStays(t)
      BY <1>1, <1>3, <1>5, <3>1, WorkQuiet DEF Goes
    <3>3. recs'[t] = recs[t]
      BY <1>5, <2>2 DEF Typed
    <3> QED  BY <1>2, <1>3, <3>2, <3>3, Undisturbed
  <2>3. CASE work[q].task = t
    <3>1. t \in accepted
      BY <1>1, <1>2, <2>3 DEF TaskInv, Unheard, Engaged, Does
    <3>2. ASSUME t \notin reused PROVE Life(t)'
      <4>1. Life(t)
        BY <3>2 DEF TaskInv
      <4>2. ~InFlight(t) /\ ~WStart(q, t)'
        BY <1>1, <1>2, <2>1, <2>3, <4>1 DEF Life, Early, WStart, Does
      <4>3. recs'[t].state = recs[t].state /\ recs'[t].name = recs[t].name /\ recs'[t].manual
        <5>1. recs[t] \in Rec /\ recs'[t] = [recs[t] EXCEPT !.manual = TRUE]
          BY <1>5, <2>3 DEF Typed
        <5> QED  BY <5>1 DEF Rec
      <4>4. Settled(t)'
        BY <4>3 DEF Settled
      <4> QED  BY <1>1, <1>3, <2>1, <4>1, <4>2, <4>3, <4>4, MoveLife DEF Does, Exists
    <3> QED  BY <1>2, <3>1, <3>2, MoveInv
  <2> QED  BY <2>2, <2>3
<1> QED  BY <1>4, <1>5 DEF Mark

\* A deleted task has nothing to start, whatever is queued.
LEMMA DeleteKeeps ==
    ASSUME Typed, Typed', NEW t \in Task, TaskInv(t), NEW p \in Request \union {Sender}, Delete(p)
    PROVE  TaskInv(t)'
<1>1. p \in Worker /\ p # Looper
  BY AdmissionAssumption DEF Worker
<1>2. accepted' = accepted /\ reused' = reused /\ Does(p, "delete")
  BY DEF Delete
<1>3. ~WStart(p, t) /\ work[p].task \in Task
  <2>1. WorkTyped(p)
    BY <1>1 DEF Typed
  <2> QED  BY <1>2, <2>1 DEF WStart, Does, WorkTyped
<1>4. CASE recs' = [recs EXCEPT ![work[p].task] = NoRec] /\ Goes(p, "purge") /\ queue' = queue
  <2>1. /\ work'[p].pc = "purge" /\ work'[p].task = work[p].task
        /\ \A r \in Worker : r # p => work'[r] = work[r]
    BY <1>1, <1>4, WorkGoes
  <2>2. QLess(t) /\ QStays(t)
    BY <1>4, SameQueue
  <2>3. CASE work[p].task # t
    <3>1. ~Engaged(p, t)'
      BY <2>1, <2>3 DEF Engaged
    <3>2. WLess(t) /\ WStays(t)
      BY <1>1, <1>3, <1>4, <3>1, WorkQuiet DEF Goes
    <3>3. recs'[t] = recs[t]
      BY <1>4, <2>3 DEF Typed
    <3> QED  BY <1>2, <2>2, <3>2, <3>3, Undisturbed
  <2>4. CASE work[p].task = t
    <3>1. t \in accepted
      BY <1>1, <1>2, <2>4 DEF TaskInv, Unheard, Engaged, Does
    <3>2. recs'[t].state = "none"
      BY <1>4, <2>4 DEF Typed, NoRec
    <3>3. ASSUME t \notin reused PROVE Life(t)'
      <4>1. Life(t)
        BY <3>3 DEF TaskInv
      <4>2. ~WStart(p, t)' /\ ~WStop(p, t)' /\ Settled(t)'
        BY <2>1, <3>2 DEF WStart, WStop, Does, Settled, Exists
      <4> QED  BY <1>1, <2>1, <2>2, <3>2, <4>1, <4>2, MoveLife DEF Does
    <3> QED  BY <1>2, <3>1, <3>3, MoveInv
  <2> QED  BY <2>3, <2>4
<1>5. CASE /\ Rests(p) /\ recs' = recs
           /\ queue' = IF p = Sender THEN Append(queue, Event(work[p])) ELSE queue
  <2>1. CASE p = Sender
    BY <1>1, <1>2, <1>5, <2>1, PassKeeps
  <2>2. CASE p # Sender
    <3>1. QLess(t) /\ QStays(t)
      BY <1>5, <2>2, SameQueue
    <3> QED  BY <1>1, <1>2, <1>3, <1>5, <3>1, WorkRests, Undisturbed
  <2> QED  BY <2>1, <2>2
<1> QED  BY <1>4, <1>5 DEF Delete

\* The start that a deletion takes is not that of a pending task.
LEMMA PurgeKeeps ==
    ASSUME Typed, Typed', NEW t \in Task, TaskInv(t), NEW p \in Request \union {Sender}, Purge(p)
    PROVE  TaskInv(t)'
<1>1. p \in Worker
  BY DEF Worker
<1>2. recs' = recs /\ accepted' = accepted /\ reused' = reused /\ Does(p, "purge") /\ Rests(p)
  BY DEF Purge
<1>3. QLess(t) /\ (work[p].task # t => QStays(t))
  BY PurgeQueue
<1>4. WLess(t) /\ WStays(t)
  BY <1>1, <1>2, WorkRests DEF WStart, Does
<1>5. CASE recs[t].state = "Pending" => work[p].task # t
  BY <1>2, <1>3, <1>4, <1>5, Undisturbed
<1>6. CASE recs[t].state = "Pending" /\ work[p].task = t
  <2>1. t \in accepted /\ t \in reused
    BY <1>1, <1>2, <1>6 DEF TaskInv, Unheard, Exists, Life, Purged
  <2> QED  BY <1>2, <2>1, MoveInv
<1> QED  BY <1>5, <1>6

\* An event that SendWork skips, puts off or has delivered.
LEMMA SkipKeeps ==
    ASSUME Typed, Typed', NEW t \in Task, TaskInv(t), queue # <<>>,
           \/ queue' = Tail(queue) /\ ~QStart(1, t)
           \/ queue' = Tail(queue) /\ recs[t].state # "Pending"
           \/ queue' = PutOff(Head(queue)),
           recs'[t] = recs[t], work' = work, accepted' = accepted, reused' = reused
    PROVE  TaskInv(t)'
<1>1. QLess(t) /\ (recs[t].state = "Pending" => QStays(t))
  BY TailQueue, PutOffQueue
<1> QED  BY <1>1, WorkSame, Undisturbed

\* SendWork takes a stop of a task without an owner: it deletes the task.
LEMMA UnownedKeeps ==
    ASSUME Typed, Typed', NEW t \in Task, TaskInv(t), queue # <<>>, queue' = Tail(queue), Does(Sender, "rest"),
           queue[1].kind = "stop", Exists(queue[1].task),
           NEW w, Now(Sender, w), w.pc = "delete", w.task = queue[1].task, w.direct = queue[1].direct,
           recs' = recs, accepted' = accepted, reused' = reused
    PROVE  TaskInv(t)'
<1>1. Sender \in Worker /\ Sender # Looper /\ Sender \notin Request
  BY AdmissionAssumption DEF Worker
<1>2. /\ work'[Sender].pc = "delete" /\ work'[Sender].task = queue[1].task /\ work'[Sender].direct = queue[1].direct
      /\ \A r \in Worker : r # Sender => work'[r] = work[r]
  BY <1>1, WorkNow
<1>3. ~WStart(Sender, t) /\ ~WStart(Sender, t)'
  BY <1>2 DEF WStart, Does
<1>4. QLess(t) /\ QStays(t)
  <2>1. ~QStart(1, t)
    BY DEF QStart
  <2> QED  BY <2>1, TailQueue
<1>5. CASE queue[1].task # t
  <2>1. ~Engaged(Sender, t)'
    BY <1>2, <1>5 DEF Engaged
  <2>2. WLess(t) /\ WStays(t)
    BY <1>1, <1>3, <2>1, WorkQuiet
  <2> QED  BY <1>4, <2>2, Undisturbed
<1>6. CASE queue[1].task = t
  <2>1. t \in accepted
    BY <1>6 DEF TaskInv, Unheard
  <2>2. ASSUME t \notin reused PROVE Life(t)'
    <3>1. Life(t)
      BY <2>2 DEF TaskInv
    <3>2. WStop(Sender, t)' => QStop(1, t)
      BY <1>2, <1>6 DEF WStop, QStop, Does
    <3>3. 1 \in DOMAIN queue
      BY TailTyped
    <3>4. (Settled(t)' <=> Settled(t)) /\ (WStop(Sender, t)' => Settled(t) /\ ~InFlight(t))
      BY <3>1, <3>2, <3>3 DEF Life, Marked, Early, Settled, Exists
    <3> QED  BY <1>1, <1>2, <1>3, <1>4, <3>1, <3>4, MoveLife DEF Does
  <2> QED  BY <2>1, <2>2, MoveInv
<1> QED  BY <1>5, <1>6

\* SendWork carries out or fails a start: it was the only one.
LEMMA StartedKeeps ==
    ASSUME Typed, Typed', NEW t \in Task, TaskInv(t), queue # <<>>, queue' = Tail(queue),
           QStart(1, t), Exists(t), work' = work, accepted' = accepted, reused' = reused,
           recs'[t].state \in {"Active", "Failed"},
           recs'[t].name = queue[1].rec.name \/ recs'[t].name = recs[t].name
    PROVE  TaskInv(t)'
<1>1. 1 \in DOMAIN queue
  BY TailTyped
<1>2. t \in accepted
  BY DEF TaskInv, Unheard
<1>3. ASSUME t \notin reused PROVE Life(t)'
  <2>1. Life(t) /\ InFlight(t)
    BY <1>1, <1>3 DEF TaskInv, InFlight
  <2>2. recs'[t].name = recs[t].name
    BY <1>1, <2>1 DEF Life, Named
  <2>3. QLess(t) /\ WLess(t)
    BY TailQueue, WorkSame
  <2>4. ~InFlight(t)'
    <3>1. \A i \in DOMAIN queue' : ~QStart(i, t)'
      BY <2>1, TailQueue DEF Life, Sole, OneStart
    <3>2. \A p \in Worker : ~WStart(p, t)'
      BY <1>1, <2>1 DEF Life, Sole, WStart, Does
    <3> QED  BY <3>1, <3>2 DEF InFlight
  <2>5. (\A i \in DOMAIN queue : ~QStop(i, t)) /\ (\A p \in Worker : ~WStop(p, t))
    BY <2>1 DEF Life, Early, WStop
  <2> QED  BY <2>1, <2>2, <2>3, <2>4, <2>5, LessLife DEF Exists
<1> QED  BY <1>2, <1>3, MoveInv

\* SendWork gives up a start: it still holds it until the task has ended.
LEMMA GivenUpKeeps ==
    ASSUME Typed, Typed', NEW t \in Task, TaskInv(t), queue # <<>>, queue' = Tail(queue), Does(Sender, "rest"),
           queue[1].kind = "start", Exists(queue[1].task),
           NEW w, Now(Sender, w), w.pc = "end", w.task = queue[1].task, w.snap = queue[1].rec, w.event = "start",
           recs' = recs, accepted' = accepted, reused' = reused
    PROVE  TaskInv(t)'
<1>1. Sender \in Worker /\ Sender # Looper /\ Sender \notin Request /\ 1 \in DOMAIN queue
  BY AdmissionAssumption, TailTyped DEF Worker
<1>2. /\ work'[Sender].pc = "end" /\ work'[Sender].task = queue[1].task /\ work'[Sender].snap = queue[1].rec
      /\ \A r \in Worker : r # Sender => work'[r] = work[r]
  BY <1>1, WorkNow
<1>3. ~WStart(Sender, t) /\ QLess(t)
  BY TailQueue DEF WStart, Does
<1>4. CASE queue[1].task # t
  <2>1. ~Engaged(Sender, t)' /\ ~QStart(1, t)
    BY <1>2, <1>4 DEF Engaged, QStart
  <2>2. WLess(t) /\ WStays(t) /\ QStays(t)
    BY <1>1, <1>3, <2>1, WorkQuiet, TailQueue
  <2> QED  BY <1>3, <2>2, Undisturbed
<1>5. CASE queue[1].task = t
  <2>1. t \in accepted /\ QStart(1, t)
    BY <1>5 DEF TaskInv, Unheard, QStart
  <2>2. ASSUME t \notin reused PROVE Life(t)'
    <3>1. Life(t) /\ InFlight(t)
      BY <1>1, <2>1, <2>2 DEF TaskInv, InFlight
    <3>2. \A i \in DOMAIN queue' : ~QStart(i, t)' /\ ~QStop(i, t)'
      <4>1. \A i \in DOMAIN queue' : ~QStart(i, t)'
        BY <2>1, <3>1, TailQueue DEF Life, Sole, OneStart
      <4>2. \A i \in DOMAIN queue' : ~QStop(i, t)'
        BY <1>3, <3>1 DEF QLess, Life, Early, QStop
      <4> QED  BY <4>1, <4>2
    <3>3. /\ WStart(Sender, t)' /\ ~WStop(Sender, t)'
          /\ \A p \in Worker : p # Sender => ~WStart(p, t)' /\ ~WStop(p, t)'
      <4>1. WStart(Sender, t)' /\ ~WStop(Sender, t)'
        BY <1>2, <1>5 DEF WStart, WStop, Does
      <4>2. \A p \in Worker : p # Sender => ~WStart(p, t)' /\ ~WStop(p, t)'
        BY <1>1, <1>2, <2>1, <3>1 DEF Life, Sole, Early, WStart, WStop, Does
      <4> QED  BY <4>1, <4>2
    <3>4. Sole(t)'
      BY <3>2, <3>3 DEF Sole
    <3>5. Early(t)'
      <4>1. recs'[t].state \in {"none", "Pending"}
        BY <3>1 DEF Life, Early
      <4>2. ASSUME NEW p \in Worker, work'[p].task = t
            PROVE  /\ ~WStop(p, t)' /\ ~Does(p, "mark")' /\ ~(p = Looper /\ Does(p, "end")')
                   /\ Does(p, "decide")' => work'[p].snap.state = "Pending"
        BY <1>1, <1>2, <3>1, <3>3, <4>2 DEF Life, Early, Does
      <4> QED  BY <3>2, <4>1, <4>2 DEF Early
    <3>6. Marked(t)'
      BY <3>2, <3>3 DEF Marked
    <3>7. Purged(t)'
      BY <1>2, <3>1 DEF Life, Purged, Does
    <3>8. Waits(t)'
      BY <1>1, <3>3 DEF Waits, InFlight
    <3>9. Named(t)'
      <4>1. PICK name : /\ Exists(t) => recs[t].name = name
                        /\ \A i \in DOMAIN queue : QStart(i, t) => queue[i].rec.name = name
                        /\ \A p \in Worker : WStart(p, t) \/ (work[p].task = t /\ Does(p, "end"))
                                                 => work[p].snap.name = name
        BY <3>1 DEF Life, Named
      <4>2. \A p \in Worker : WStart(p, t)' \/ (work'[p].task = t /\ Does(p, "end")')
                                  => work'[p].snap.name = name
        BY <1>1, <1>2, <2>1, <3>3, <4>1 DEF Does
      <4>3. Exists(t)' => recs'[t].name = name
        BY <4>1 DEF Exists
      <4> QED  BY <3>2, <4>2, <4>3 DEF Named
    <3> QED  BY <3>4, <3>5, <3>6, <3>7, <3>8, <3>9 DEF Life
  <2> QED  BY <2>1, <2>2, MoveInv
<1> QED  BY <1>4, <1>5

LEMMA DispatchKeeps ==
    ASSUME Typed, Typed', NEW t \in Task, TaskInv(t), queue # <<>>, Dispatch(Head(queue))
    PROVE  TaskInv(t)'
<1> DEFINE e == queue[1]
           w(pc) == [Resting EXCEPT !.pc = pc, !.event = e.kind, !.task = e.task, !.snap = e.rec, !.direct = e.direct]
<1>1. Head(queue) = e /\ 1 \in DOMAIN queue /\ e \in Ev
  BY TailTyped
<1>2. accepted' = accepted /\ reused' = reused /\ Does(Sender, "rest")
  BY DEF Dispatch
<1>3. e.task \in Task /\ e.rec \in Rec
  BY <1>1 DEF Ev
<1>4. CASE queue' = PutOff(Head(queue)) /\ UNCHANGED <<recs, work>>
  BY <1>2, <1>4, SkipKeeps
<1>5. CASE queue' = Tail(queue) /\ UNCHANGED <<recs, work>> /\ (~Exists(e.task) \/ e.kind = "stop")
  <2>1. ~QStart(1, t) \/ recs[t].state # "Pending"
    BY <1>5 DEF QStart, Exists
  <2> QED  BY <1>2, <1>5, <2>1, SkipKeeps
<1>6. CASE queue' = Tail(queue) /\ recs' = recs /\ e.kind = "stop" /\ Exists(e.task) /\ Now(Sender, w("delete"))
  <2>1. w("delete").pc = "delete" /\ w("delete").task = e.task /\ w("delete").direct = e.direct
    BY DEF Resting
  <2> HIDE DEF w
  <2> QED  BY <1>2, <1>6, <2>1, UnownedKeeps
<1>7. CASE queue' = Tail(queue) /\ recs' = recs /\ e.kind = "start" /\ Exists(e.task) /\ Now(Sender, w("end"))
  <2>1. w("end").pc = "end" /\ w("end").task = e.task /\ w("end").snap = e.rec /\ w("end").event = e.kind
    BY DEF Resting
  <2> HIDE DEF w
  <2> QED  BY <1>2, <1>7, <2>1, GivenUpKeeps
<1>8. ASSUME queue' = Tail(queue), work' = work, e.kind = "start", Exists(e.task),
             NEW r \in Rec, recs' = [recs EXCEPT ![e.task] = r], r.state \in {"Active", "Failed"},
             r.name = e.rec.name \/ r.name = recs[e.task].name
      PROVE  TaskInv(t)'
  <2>1. CASE e.task = t
    <3>1. QStart(1, t) /\ recs'[t] = r
      BY <1>8, <2>1 DEF QStart, Typed
    <3> QED  BY <1>2, <1>8, <2>1, <3>1, StartedKeeps
  <2>2. CASE e.task # t
    <3>1. ~QStart(1, t) /\ recs'[t] = recs[t]
      BY <1>8, <2>2 DEF QStart, Typed
    <3> QED  BY <1>2, <1>8, <3>1, SkipKeeps
  <2> QED  BY <2>1, <2>2
<1>9. /\ [e.rec EXCEPT !.state = "Active"] \in Rec /\ [e.rec EXCEPT !.state = "Active"].state = "Active"
      /\ [e.rec EXCEPT !.state = "Active"].name = e.rec.name
      /\ [recs[e.task] EXCEPT !.state = "Failed"] \in Rec /\ [recs[e.task] EXCEPT !.state = "Failed"].state = "Failed"
      /\ [recs[e.task] EXCEPT !.state = "Failed"].name = recs[e.task].name
  BY <1>3 DEF Typed, Rec, RecState
<1>10. \/ queue' = PutOff(Head(queue)) /\ UNCHANGED <<recs, work>>
       \/ queue' = Tail(queue) /\ UNCHANGED <<recs, work>> /\ (~Exists(e.task) \/ e.kind = "stop")
       \/ queue' = Tail(queue) /\ recs' = recs /\ e.kind = "stop" /\ Exists(e.task) /\ Now(Sender, w("delete"))
       \/ queue' = Tail(queue) /\ recs' = recs /\ e.kind = "start" /\ Exists(e.task) /\ Now(Sender, w("end"))
       \/ /\ queue' = Tail(queue) /\ work' = work /\ e.kind = "start" /\ Exists(e.task)
          /\ \E r \in {[e.rec EXCEPT !.state = "Active"], [recs[e.task] EXCEPT !.state = "Failed"]} :
                 recs' = [recs EXCEPT ![e.task] = r]
  BY <1>1 DEF Dispatch, Now
<1> QED  BY <1>4, <1>5, <1>6, <1>7, <1>8, <1>9, <1>10

\* A restart loop reads tasks that have left the queue.
LEMMA ReadKeeps ==
    ASSUME Typed, Typed', NEW t \in Task, TaskInv(t), NEW u \in Task, Read(u)
    PROVE  TaskInv(t)'
<1> DEFINE w == [Resting EXCEPT !.pc = "end", !.task = u, !.snap = recs[u]]
<1>1. Looper \in Worker /\ Looper # Sender
  BY AdmissionAssumption DEF Worker
<1>2. Now(Looper, w) /\ w.pc = "end" /\ w.task = u /\ w.snap = recs[u]
  BY DEF Read, Resting
<1> HIDE DEF w
<1>3. /\ work'[Looper].pc = "end" /\ work'[Looper].task = u /\ work'[Looper].snap = recs[u]
      /\ \A r \in Worker : r # Looper => work'[r] = work[r]
  BY <1>1, <1>2, WorkNow
<1>4. /\ recs' = recs /\ queue' = queue /\ accepted' = accepted /\ reused' = reused
      /\ recs[u].state \in {"Active", "Failed", "Completed"} /\ Does(Looper, "rest")
  BY DEF Read
<1>5. ~WStart(Looper, t) /\ ~WStart(Looper, t)' /\ ~WStop(Looper, t)' /\ QLess(t) /\ QStays(t)
  BY <1>1, <1>3, <1>4, SameQueue DEF WStart, WStop, Does
<1>6. CASE u # t
  <2>1. ~Engaged(Looper, t)'
    BY <1>3, <1>6 DEF Engaged
  <2>2. WLess(t) /\ WStays(t)
    BY <1>1, <1>2, <1>5, <2>1, WorkQuiet
  <2> QED  BY <1>4, <1>5, <2>2, Undisturbed
<1>7. CASE u = t
  <2>1. t \in accepted
    BY <1>4, <1>7 DEF TaskInv, Unheard, Exists
  <2>2. ASSUME t \notin reused PROVE Life(t)'
    <3>1. Life(t)
      BY <2>2 DEF TaskInv
    <3>2. ~InFlight(t)
      BY <1>4, <1>7, <3>1 DEF Life, Early
    <3>3. Settled(t) => Settled(t)'
      BY <1>4 DEF Settled, Exists
    <3> QED  BY <1>1, <1>3, <1>4, <1>5, <1>7, <3>1, <3>2, <3>3, MoveLife DEF Does
  <2> QED  BY <1>4, <2>1, <2>2, MoveInv
<1> QED  BY <1>6, <1>7

\* A task ends for good: SendWork drops the start that it held, and the
\* restart loop had read a task without one.
LEMMA TerminateKeeps ==
    ASSUME Typed, Typed', NEW t \in Task, TaskInv(t), NEW p \in {Sender, Looper}, Terminate(p)
    PROVE  TaskInv(t)'
<1>1. p \in Worker /\ Sender # Looper
  BY AdmissionAssumption DEF Worker
<1>2. /\ Rests(p) /\ queue' = queue /\ accepted' = accepted /\ reused' = reused /\ Does(p, "end")
      /\ recs' = [recs EXCEPT ![work[p].task] = [work[p].snap EXCEPT !.state = "Over"]]
  BY DEF Terminate
<1>3. QLess(t) /\ QStays(t) /\ WLess(t) /\ (~WStart(p, t) => WStays(t))
  BY <1>1, <1>2, SameQueue, WorkRests
<1>4. work[p].task \in Task /\ work[p] \in Work
  BY <1>1, <1>2 DEF Typed, WorkTyped, Does
<1>5. CASE work[p].task # t
  <2>1. recs'[t] = recs[t] /\ ~WStart(p, t)
    BY <1>2, <1>5 DEF Typed, WStart
  <2> QED  BY <1>2, <1>3, <2>1, Undisturbed
<1>6. CASE work[p].task = t
  <2>1. t \in accepted
    BY <1>1, <1>2, <1>6 DEF TaskInv, Unheard, Engaged, Does
  <2>2. recs'[t].state = "Over" /\ recs'[t].name = work[p].snap.name
    <3>1. recs'[t] = [work[p].snap EXCEPT !.state = "Over"] /\ work[p].snap \in Rec
      BY <1>2, <1>4, <1>6 DEF Typed, Work
    <3> QED  BY <3>1 DEF Rec
  <2>3. ASSUME t \notin reused PROVE Life(t)'
    <3>1. Life(t)
      BY <2>3 DEF TaskInv
    <3>2. ~InFlight(t)'
      <4> SUFFICES ASSUME InFlight(t)' PROVE FALSE
        OBVIOUS
      <4>1. InFlight(t)
        BY <1>3, Less
      <4>2. p = Sender /\ WStart(p, t)
        BY <1>1, <1>2, <1>6, <3>1, <4>1 DEF Life, Early, WStart
      <4>3. \A i \in DOMAIN queue' : ~QStart(i, t)'
        BY <1>1, <1>3, <3>1, <4>2, Less DEF Life, Sole
      <4>4. ~WStart(p, t)'
        BY <1>1, <1>2, WorkRests, Holders DEF Rests, WStart, Does, Now, Resting, Typed
      <4>5. \A r \in Worker : ~WStart(r, t)'
        BY <1>1, <1>3, <3>1, <4>2, <4>4, Less DEF Life, Sole
      <4> QED  BY <4>3, <4>5 DEF InFlight
    <3>3. Settled(t)'
      BY <2>2 DEF Settled
    <3> QED  BY <1>1, <1>2, <1>3, <1>6, <2>2, <3>1, <3>2, <3>3, LessLife
  <2> QED  BY <1>2, <2>1, <2>3, MoveInv
<1> QED  BY <1>5, <1>6

\* Tasks that run, fail or are restarted have no start in flight, and no stop
\* when they are restarted.
LEMMA EvolveKeeps ==
    ASSUME Typed, Typed', NEW t \in Task, TaskInv(t), NEW u \in Task, Evolve(u)
    PROVE  TaskInv(t)'
<1>1. /\ queue' = queue /\ work' = work /\ accepted' = accepted /\ reused' = reused
      /\ QLess(t) /\ QStays(t) /\ WLess(t) /\ WStays(t)
  BY SameQueue, WorkSame DEF Evolve
<1>2. CASE u # t
  <2>1. recs'[t] = recs[t]
    BY <1>2 DEF Evolve, Typed
  <2> QED  BY <1>1, <2>1, Undisturbed
<1>3. CASE u = t
  <2>1. recs[t] \in Rec
    BY DEF Typed
  <2>2. /\ recs[t].state \in {"Active", "Failed", "Completed"} /\ recs'[t].state \in {"Active", "Failed", "Completed"}
        /\ recs'[t].name = recs[t].name /\ recs'[t].manual = recs[t].manual
        /\ recs[t].state = "Active" \/ ~recs[t].manual
    BY <1>3, <2>1 DEF Evolve, Typed, Rec
  <2>3. t \in accepted
    BY <2>2 DEF TaskInv, Unheard, Exists
  <2>4. ASSUME t \notin reused PROVE Life(t)'
    <3>1. Life(t)
      BY <2>4 DEF TaskInv
    <3>2. ~InFlight(t)'
      BY <1>1, <2>2, <3>1, Less DEF Life, Early
    <3>3. Settled(t) => Settled(t)'
      BY <2>2 DEF Settled, Exists
    <3> QED  BY <1>1, <2>2, <3>1, <3>2, <3>3, LessLife
  <2> QED  BY <1>1, <2>3, <2>4, MoveInv
<1> QED  BY <1>2, <1>3

-----------------------------------------------------------------------------
(* The invariant *)

LivesInv == Typed /\ \A t \in Task : TaskInv(t)

LEMMA LivesInit == AdmissionInit => LivesInv
<1> SUFFICES ASSUME AdmissionInit PROVE LivesInv
  OBVIOUS
<1>1. Typed
  BY TypedInit
<1>2. ASSUME NEW t \in Task PROVE TaskInv(t)
  <2>1. /\ recs[t] = NoRec /\ queue = <<>> /\ \A p \in Worker : work[p] = Resting
    BY DEF AdmissionInit, Worker
  <2>2. \A p \in Worker : ~WStart(p, t) /\ ~WStop(p, t) /\ ~Engaged(p, t) /\ Does(p, "rest")
    BY <2>1 DEF WStart, WStop, Engaged, Does, Resting
  <2>3. ~Exists(t) /\ DOMAIN queue = {}
    BY <2>1 DEF Exists, NoRec
  <2>4. Unheard(t) /\ Sole(t) /\ Early(t) /\ Marked(t) /\ Purged(t) /\ Waits(t) /\ Named(t)
    BY <2>2, <2>3 DEF Unheard, Sole, Early, Marked, Purged, Waits, Named, InFlight, Exists, Does
  <2> QED  BY <2>4 DEF TaskInv, Life
<1> QED  BY <1>1, <1>2 DEF LivesInv

LEMMA LivesStep == LivesInv /\ [AdmissionNext]_avars => LivesInv'
<1> SUFFICES ASSUME LivesInv, [AdmissionNext]_avars PROVE LivesInv'
  OBVIOUS
<1>1. Typed /\ Typed'
  BY TypedStep DEF LivesInv
<1>2. ASSUME NEW t \in Task PROVE TaskInv(t)'
  <2>1. TaskInv(t)
    BY DEF LivesInv
  <2>2. CASE UNCHANGED avars
    BY <1>1, <2>1, <2>2, SameQueue, WorkSame, Undisturbed DEF avars
  <2>3. CASE \E q \in Request : Arrive(q) \/ Add(q) \/ Enqueue(q)
    BY <1>1, <2>1, <2>3, ArriveKeeps, AddKeeps, EnqueueKeeps
  <2>4. CASE \E q \in Request : Resolve(q) \/ Decide(q) \/ Mark(q)
    BY <1>1, <2>1, <2>4, ResolveKeeps, DecideKeeps, MarkKeeps
  <2>5. CASE \E p \in Request \union {Sender} : Delete(p) \/ Purge(p)
    BY <1>1, <2>1, <2>5, DeleteKeeps, PurgeKeeps
  <2>6. CASE \E p \in {Sender, Looper} : Terminate(p)
    BY <1>1, <2>1, <2>6, TerminateKeeps
  <2>7. CASE queue # <<>> /\ Dispatch(Head(queue))
    BY <1>1, <2>1, <2>7, DispatchKeeps
  <2>8. CASE \E u \in Task : Read(u) \/ Evolve(u)
    BY <1>1, <2>1, <2>8, ReadKeeps, EvolveKeeps
  <2> QED  BY <2>2, <2>3, <2>4, <2>5, <2>6, <2>7, <2>8 DEF AdmissionNext
<1> QED  BY <1>1, <1>2 DEF LivesInv

LEMMA Lives == AdmissionSpec => []LivesInv
  BY LivesInit, LivesStep, PTL DEF AdmissionSpec

\* For any requests, names and store failures, a Pending task has its start
\* queued or in the hands of a request or of SendWork: neither deleteTask
\* (which takes events after its unlock) nor a requeue loses it, unless the
\* ID was used before.
THEOREM PendingStartKept == AdmissionSpec => []PendingHasStart
<1>1. LivesInv => PendingHasStart
  <2> SUFFICES ASSUME LivesInv, NEW t \in Task, recs[t].state = "Pending", t \notin reused
               PROVE  \/ \E i \in DOMAIN queue : queue[i].task = t /\ queue[i].kind = "start"
                      \/ \E p \in DOMAIN work : work[p].task = t /\ (Does(p, "queue") \/ Does(p, "end"))
    BY DEF PendingHasStart
  <2>1. InFlight(t) /\ DOMAIN work = Worker
    BY DEF LivesInv, Typed, TaskInv, Life, Waits
  <2> QED  BY <2>1 DEF InFlight, QStart, WStart
<1> QED  BY <1>1, Lives, PTL

\* And it has only one: AddTask, SendWork and its requeues never give a task
\* two starts, in the queue or on the way.
THEOREM StartedOnce == AdmissionSpec => [](\A t \in Task : t \notin reused => Sole(t))
<1>1. LivesInv => \A t \in Task : t \notin reused => Sole(t)
  BY DEF LivesInv, TaskInv, Life
<1> QED  BY <1>1, Lives, PTL

\* A stop that StopTaskHandler or deleteTask has queued finds its task marked
\* by markStopRequested, or ended for good, whatever SendWork and the restart
\* loop write over the record in between.
THEOREM StopMarked == AdmissionSpec => []StopsMarked
<1>1. LivesInv => StopsMarked
  <2> SUFFICES ASSUME LivesInv, NEW i \in DOMAIN queue, queue[i].kind = "stop", ~queue[i].direct,
                      Exists(queue[i].task), queue[i].task \notin reused
               PROVE  recs[queue[i].task].manual \/ recs[queue[i].task].state = "Over"
    BY DEF StopsMarked
  <2>1. queue[i].task \in Task
    <3>1. queue[i] \in Ev
      BY DEF LivesInv, Typed
    <3> QED  BY <3>1 DEF Ev
  <2> QED  BY <2>1 DEF LivesInv, TaskInv, Life, Marked, Settled, QStop
<1> QED  BY <1>1, Lives, PTL

-----------------------------------------------------------------------------
(* Names *)

Exempt == unchecked \union revived \union reused

\* A record that is written again keeps its name, whoever has a copy of it.
NameStays(t) ==
    t \notin Exempt' /\ Exists(t)' => t \notin Exempt /\ Exists(t) /\ recs'[t].name = recs[t].name

LEMMA NameKept ==
    ASSUME Typed, NEW t \in Task, recs'[t] = recs[t], Exempt \subseteq Exempt'
    PROVE  NameStays(t)
  BY DEF NameStays, Exists

LEMMA NamesStay ==
    ASSUME LivesInv, NamesUnique, NEW t \in Task,
           \/ \E q \in Request : Arrive(q) \/ Enqueue(q) \/ Resolve(q) \/ Decide(q) \/ Mark(q)
           \/ \E p \in Request \union {Sender} : Delete(p) \/ Purge(p)
           \/ \E p \in {Sender, Looper} : Terminate(p)
           \/ queue # <<>> /\ Dispatch(Head(queue))
           \/ \E u \in Task : Read(u) \/ Evolve(u)
    PROVE  NameStays(t)
<1>1. Typed /\ TaskInv(t) /\ recs[t] \in Rec
  BY DEF LivesInv, Typed
<1>2. CASE \E q \in Request : Arrive(q) \/ Enqueue(q) \/ Resolve(q) \/ Decide(q)
  BY <1>1, <1>2, NameKept DEF Arrive, Enqueue, Resolve, Decide, Exempt
<1>3. CASE \E q \in Request : Mark(q)
  <2>1. UNCHANGED <<unchecked, revived, reused>>
    BY <1>3 DEF Mark
  <2>2. recs'[t].name = recs[t].name /\ recs'[t].state = recs[t].state
    <3>1. \E u : recs' = recs \/ recs' = [recs EXCEPT ![u].manual = TRUE]
      BY <1>3 DEF Mark
    <3>2. recs'[t] = recs[t] \/ recs'[t] = [recs[t] EXCEPT !.manual = TRUE]
      BY <3>1, <1>1 DEF Typed
    <3> QED  BY <3>2, <1>1 DEF Rec
  <2> QED  BY <2>1, <2>2 DEF NameStays, Exempt, Exists
<1>4. CASE \E p \in Request \union {Sender} : Delete(p) \/ Purge(p)
  <2>1. UNCHANGED <<unchecked, revived, reused>>
    BY <1>4 DEF Delete, Purge
  <2>2. recs'[t] = recs[t] \/ recs'[t] = NoRec
    BY <1>1, <1>4 DEF Delete, Purge, Typed
  <2> QED  BY <2>1, <2>2 DEF NameStays, Exempt, Exists, NoRec
<1>5. CASE \E p \in {Sender, Looper} : Terminate(p)
  <2>1. PICK p \in {Sender, Looper} : Terminate(p)
    BY <1>5
  <2>2. p \in Worker /\ work[p] \in Work /\ work[p].task \in Task /\ Does(p, "end")
    BY <1>1, <2>1 DEF Typed, Worker, WorkTyped, Terminate, Does
  <2>3. CASE work[p].task = t
    <3>1. recs'[t].name = work[p].snap.name
      <4>1. recs'[t] = [work[p].snap EXCEPT !.state = "Over"] /\ work[p].snap \in Rec
        BY <1>1, <2>1, <2>2, <2>3 DEF Terminate, Typed, Work
      <4> QED  BY <4>1 DEF Rec
    <3>2. t \notin reused /\ Exists(t) => work[p].snap.name = recs[t].name
      BY <1>1, <2>2, <2>3 DEF TaskInv, Life, Named
    <3>3. ~Exists(t) => t \in revived'
      BY <2>1, <2>3 DEF Terminate
    <3> QED  BY <2>1, <3>1, <3>2, <3>3 DEF NameStays, Exempt, Terminate
  <2>4. CASE work[p].task # t
    <3>1. recs'[t] = recs[t] /\ Exempt \subseteq Exempt'
      BY <1>1, <2>1, <2>4 DEF Terminate, Typed, Exempt
    <3> QED  BY <1>1, <3>1, NameKept
  <2> QED  BY <2>3, <2>4
<1>6. CASE queue # <<>> /\ Dispatch(Head(queue))
  <2> DEFINE e == queue[1]
  <2>1. Head(queue) = e /\ 1 \in DOMAIN queue /\ e \in Ev /\ UNCHANGED <<unchecked, revived, reused>>
    BY <1>1, <1>6, TailTyped DEF Dispatch
  <2>2. \/ recs' = recs
        \/ /\ e.kind = "start" /\ Exists(e.task)
           /\ \/ recs' = [recs EXCEPT ![e.task] = [e.rec EXCEPT !.state = "Active"]]
              \/ recs' = [recs EXCEPT ![e.task] = [recs[e.task] EXCEPT !.state = "Failed"]]
    BY <1>6, <2>1 DEF Dispatch
  <2>3. recs'[t] # recs[t] => QStart(1, t) /\ Exists(t) /\ recs'[t].name \in {e.rec.name, recs[t].name}
    <3> SUFFICES ASSUME recs'[t] # recs[t]
                 PROVE  QStart(1, t) /\ Exists(t) /\ recs'[t].name \in {e.rec.name, recs[t].name}
      OBVIOUS
    <3>1. e.task = t /\ e.kind = "start" /\ Exists(t)
      BY <1>1, <2>2 DEF Typed
    <3>2. recs'[t] = [e.rec EXCEPT !.state = "Active"] \/ recs'[t] = [recs[t] EXCEPT !.state = "Failed"]
      BY <1>1, <2>2, <3>1 DEF Typed
    <3>3. recs'[t].name \in {e.rec.name, recs[t].name}
      BY <1>1, <2>1, <3>2 DEF Rec, Ev
    <3> QED  BY <3>1, <3>3 DEF QStart
  <2>4. t \notin reused /\ QStart(1, t) /\ Exists(t) => e.rec.name = recs[t].name
    BY <1>1, <2>1 DEF TaskInv, Life, Named
  <2> QED  BY <1>1, <2>1, <2>3, <2>4, NameKept DEF NameStays, Exempt
<1>7. CASE \E u \in Task : Read(u) \/ Evolve(u)
  <2>1. UNCHANGED <<unchecked, revived, reused>>
    BY <1>7 DEF Read, Evolve
  <2>2. CASE recs'[t] = recs[t]
    BY <1>1, <2>1, <2>2, NameKept DEF Exempt
  <2>3. CASE recs'[t] # recs[t]
    <3>1. recs[t].state \in {"Active", "Failed", "Completed"} /\ \E s : recs'[t] = [recs[t] EXCEPT !.state = s]
      <4>1. PICK u \in Task : Evolve(u)
        BY <1>7, <2>3 DEF Read
      <4>2. u = t
        BY <1>1, <2>3, <4>1 DEF Evolve, Typed
      <4>3. recs[t].state \in {"Active", "Failed", "Completed"} /\ \E s : recs' = [recs EXCEPT ![t].state = s]
        BY <4>1, <4>2 DEF Evolve
      <4> QED  BY <1>1, <4>3 DEF Typed
    <3> QED  BY <1>1, <2>1, <3>1 DEF NameStays, Exempt, Exists, Rec
  <2> QED  BY <2>2, <2>3
<1> QED  BY <1>2, <1>3, <1>4, <1>5, <1>6, <1>7

\* AddTask compares a new name with every other one under mu.
LEMMA AddUnique ==
    ASSUME LivesInv, NamesUnique, NEW q \in Request, Add(q)
    PROVE  NamesUnique'
<1> DEFINE u == work[q].task
<1>1. Typed /\ u \in Task /\ work[q] \in Work
  BY DEF LivesInv, Typed, Worker, WorkTyped, Add, Does
<1>2. CASE UNCHANGED <<recs, reused, unchecked, revived>>
  BY <1>2 DEF NamesUnique, Exists
<1>3. CASE /\ recs' = [recs EXCEPT ![u] = work[q].snap] /\ revived' = revived \ {u}
           /\ reused' = IF u \in accepted THEN reused \union {u} ELSE reused
           /\ \/ NameFree(work[q].snap.name) /\ unchecked' = unchecked \ {u}
              \/ unchecked' = unchecked \union {u}
  <2> SUFFICES ASSUME NEW s \in Task, NEW t \in Task, s # t, Exists(s)', Exists(t)',
                      recs'[s].name = recs'[t].name, recs'[s].name # NoName, s \notin Exempt', t \notin Exempt'
               PROVE  FALSE
    BY DEF NamesUnique, Exempt
  <2>1. \A v \in Task : v # u => recs'[v] = recs[v] /\ (v \notin Exempt' => v \notin Exempt)
    BY <1>1, <1>3 DEF Exempt, Typed
  <2>2. CASE s # u /\ t # u
    BY <2>1, <2>2 DEF NamesUnique, Exempt, Exists
  <2>3. CASE s = u \/ t = u
    <3>1. NameFree(work[q].snap.name) /\ recs'[u].name = work[q].snap.name
      BY <1>1, <1>3, <2>3 DEF Exempt, Typed
    <3> QED  BY <2>1, <2>3, <3>1 DEF NameFree, InUse, Exists
  <2> QED  BY <2>2, <2>3
<1> QED  BY <1>2, <1>3 DEF Add

\* However submissions, deletions and restarts overlap, no two tasks that were
\* taken with the names in use listed, and neither written back after their
\* deletion nor taken again, have one name: ResolveRef finds the right one.
THEOREM NamesAreUnique == AdmissionSpec => []NamesUnique
<1>1. AdmissionInit => NamesUnique
  BY DEF AdmissionInit, NamesUnique, Exists, NoRec
<1>2. LivesInv /\ NamesUnique /\ [AdmissionNext]_avars => NamesUnique'
  <2> SUFFICES ASSUME LivesInv, NamesUnique, [AdmissionNext]_avars PROVE NamesUnique'
    OBVIOUS
  <2>1. CASE UNCHANGED avars
    BY <2>1 DEF avars, NamesUnique, Exists
  <2>2. CASE \E q \in Request : Add(q)
    BY <2>2, AddUnique
  <2>3. ASSUME \A t \in Task : NameStays(t) PROVE NamesUnique'
    BY <2>3 DEF NamesUnique, NameStays, Exempt
  <2> QED  BY <2>1, <2>2, <2>3, NamesStay DEF AdmissionNext
<1> QED  BY <1>1, <1>2, Lives, PTL DEF AdmissionSpec

-----------------------------------------------------------------------------
(* Tokens *)

TokensInv ==
    /\ tokenFile \in TokenFiles /\ (tokenFile = NoFile \/ Parses(tokenFile))
    /\ \A q \in Request : ~Does(q, "rest") => work[q].token \in Admins

LEMMA TokensStep ==
    ASSUME Typed, TokensInv, [AdmissionNext]_avars
    PROVE  TokensInv'
<1>1. tokenFile' = tokenFile
  BY DEF avars, AdmissionNext, Arrive, Add, Enqueue, Resolve, Decide, Mark, Delete, Purge, Terminate, Dispatch,
         Read, Evolve
<1>2. Admins' = Admins
  BY <1>1 DEF Admins, Verify
<1>3. ASSUME NEW q \in Request, NEW p \in Worker, NEW w, Now(p, w), w.pc # "rest" /\ p \in Request => w.token \in Admins,
             ~Does(q, "rest")'
      PROVE  work'[q].token \in Admins
  <2>1. q \in Worker
    BY DEF Worker
  <2> QED  BY <1>3, <2>1, WorkNow DEF Does, TokensInv
<1>4. ASSUME NEW q \in Request, ~Does(q, "rest")'
      PROVE  work'[q].token \in Admins
  <2>1. q \in Worker /\ Sender \in Worker /\ Looper \in Worker /\ Sender \notin Request /\ Looper \notin Request
    BY AdmissionAssumption DEF Worker
  <2>2. ASSUME NEW r \in Worker, Rests(r) PROVE work'[q].token \in Admins
    <3>1. Now(r, Resting) /\ Resting.pc = "rest"
      BY <2>2 DEF Rests, Resting
    <3> QED  BY <3>1, <1>3, <1>4
  <2>3. ASSUME NEW r \in Worker, NEW pc, Goes(r, pc), ~Does(r, "rest") PROVE work'[q].token \in Admins
    <3>1. Now(r, [work[r] EXCEPT !.pc = pc]) /\ [work[r] EXCEPT !.pc = pc].token = work[r].token
      BY <2>3 DEF Goes, Typed, Work
    <3>2. r \in Request => work[r].token \in Admins
      BY <2>3 DEF TokensInv
    <3> HIDE DEF Goes
    <3> QED  BY <3>1, <3>2, <1>3, <1>4
  <2>4. CASE work' = work
    BY <1>4, <2>4 DEF TokensInv, Does
  <2>5. ASSUME NEW r \in Request, Arrive(r) \/ Resolve(r) PROVE work'[q].token \in Admins
    <3>1. PICK h \in Admins : \E w : Now(r, w) /\ w.token = h
      <4>1. ASSUME NEW h, NEW t, NEW rec, Now(r, [Resting EXCEPT !.pc = "add", !.task = t, !.token = h, !.snap = rec])
            PROVE  \E w : Now(r, w) /\ w.token = h
        <5> DEFINE w == [Resting EXCEPT !.pc = "add", !.task = t, !.token = h, !.snap = rec]
        <5>1. Now(r, w) /\ w.token = h
          BY <4>1 DEF Resting
        <5> HIDE DEF w
        <5> QED  BY <5>1
      <4>2. ASSUME NEW h, NEW t,
                   Now(r, [Resting EXCEPT !.pc = "queue", !.event = "stop", !.direct = TRUE, !.task = t, !.token = h])
            PROVE  \E w : Now(r, w) /\ w.token = h
        <5> DEFINE w == [Resting EXCEPT !.pc = "queue", !.event = "stop", !.direct = TRUE, !.task = t, !.token = h]
        <5>1. Now(r, w) /\ w.token = h
          BY <4>2 DEF Resting
        <5> HIDE DEF w
        <5> QED  BY <5>1
      <4>3. ASSUME NEW h, NEW t,
                   Now(r, [Resting EXCEPT !.pc = "decide", !.event = "stop", !.task = t, !.snap = recs[t], !.token = h])
            PROVE  \E w : Now(r, w) /\ w.token = h
        <5> DEFINE w == [Resting EXCEPT !.pc = "decide", !.event = "stop", !.task = t, !.snap = recs[t], !.token = h]
        <5>1. Now(r, w) /\ w.token = h
          BY <4>3 DEF Resting
        <5> HIDE DEF w
        <5> QED  BY <5>1
      <4> QED  BY <2>5, <4>1, <4>2, <4>3 DEF Arrive, Resolve
    <3>2. r \in Worker
      BY DEF Worker
    <3> QED  BY <3>1, <3>2, <1>3, <1>4
  <2>6. CASE \E r \in Request : Add(r) \/ Enqueue(r) \/ Decide(r) \/ Mark(r)
    BY <2>6, <2>2, <2>3 DEF Add, Enqueue, Decide, Mark, Does, Worker
  <2>7. CASE \E r \in Request \union {Sender} : Delete(r) \/ Purge(r)
    BY <2>7, <2>2, <2>3 DEF Delete, Purge, Does, Worker
  <2>8. CASE \E r \in {Sender, Looper} : Terminate(r)
    BY <2>8, <2>1, <2>2 DEF Terminate
  <2>9. CASE (queue # <<>> /\ Dispatch(Head(queue))) \/ \E t \in Task : Read(t) \/ Evolve(t)
    <3>1. work' = work \/ \E r \in {Sender, Looper} : \E w : Now(r, w)
      BY <2>9 DEF Dispatch, Read, Evolve, Now
    <3>2. ASSUME NEW r \in {Sender, Looper}, NEW w, Now(r, w) PROVE work'[q].token \in Admins
      BY <2>1, <3>2, <1>3, <1>4
    <3> QED  BY <2>4, <3>1, <3>2
  <2>10. CASE UNCHANGED avars
    BY <2>10, <2>4 DEF avars
  <2> QED  BY <2>5, <2>6, <2>7, <2>8, <2>9, <2>10 DEF AdmissionNext
<1> QED  BY <1>1, <1>2, <1>4 DEF TokensInv, Parses

\* Only those whom every entry of the token file with their hash makes an
\* admin submit or stop tasks: ParseTokenFile takes no file with two entries
\* for a hash, so that it does not matter which of them Verify returns.
THEOREM OnlyAdmins == AdmissionSpec => []AdminByEveryEntry
<1>1. AdmissionInit => TokensInv
  BY DEF AdmissionInit, TokensInv, Does, Resting
<1>2. TokensInv => AdminByEveryEntry
  <2> SUFFICES ASSUME TokensInv, NEW q \in Request, ~Does(q, "rest"), tokenFile # NoFile
               PROVE  LET mine == {i \in DOMAIN tokenFile : tokenFile[i].hash = work[q].token}
                      IN  mine # {} /\ \A i \in mine : tokenFile[i].role = "admin"
    BY DEF AdminByEveryEntry
  <2> DEFINE h == work[q].token
             mine == {i \in DOMAIN tokenFile : tokenFile[i].hash = h}
  <2>1. Verify(h) # "none" /\ Verify(h) = "admin"
    BY DEF TokensInv, Admins, Allows
  <2>2. mine # {} /\ tokenFile[Max(mine)].role = "admin"
    BY <2>1 DEF Verify
  <2>3. \A i, j \in mine : i = j
    <3> SUFFICES ASSUME NEW i \in mine, NEW j \in mine, i # j PROVE FALSE
      OBVIOUS
    <3>1. Len(tokenFile) \in Nat /\ DOMAIN tokenFile = 1 .. Len(tokenFile) /\ Parses(tokenFile)
      BY AdmissionAssumption DEF TokensInv
    <3>2. i \in Int /\ j \in Int /\ i >= 1 /\ j >= 1
      BY <3>1
    <3>3. i \in 1 .. j - 1 \/ j \in 1 .. i - 1
      BY <3>2
    <3> QED  BY <3>1, <3>3 DEF Parses
  <2>4. PICK k \in mine : TRUE
    BY <2>2
  <2>5. Max(mine) = k
    <3>1. k \in Int
      BY AdmissionAssumption, <2>4 DEF TokensInv
    <3>2. mine = {k} /\ k >= k
      BY <2>3, <2>4, <3>1
    <3> QED  BY <3>2 DEF Max
  <2> QED  BY <2>2, <2>3, <2>4, <2>5
<1>3. Typed /\ TokensInv /\ [AdmissionNext]_avars => TokensInv'
  BY TokensStep
<1> QED  BY <1>1, <1>2, <1>3, Lives, PTL DEF AdmissionSpec, LivesInv

-----------------------------------------------------------------------------
(* Validation *)

\* What the loop of ValidatePortMappings knows after k mappings without an
\* error: the ports taken so far, which are in range and distinct.
Clean(ports, k, seen) ==
    /\ seen.con = {<<ports[i].con, Proto(ports[i])>> : i \in 1 .. k}
    /\ seen.host = {<<ports[i].host, Proto(ports[i])>> : i \in {j \in 1 .. k : ports[j].host # 0}}
    /\ \A i \in 1 .. k : /\ ports[i].con \in 1 .. MaxPort /\ ports[i].host \in 0 .. MaxPort
                         /\ ports[i].proto \in {"", "tcp", "udp"}
    /\ \A i, j \in 1 .. k : i < j =>
           /\ <<ports[i].con, Proto(ports[i])>> # <<ports[j].con, Proto(ports[j])>>
           /\ ports[i].host # 0 /\ ports[j].host # 0 =>
                  <<ports[i].host, Proto(ports[i])>> # <<ports[j].host, Proto(ports[j])>>

Mapping  == [con : Int, host : Int, proto : STRING]
Protocol == STRING \union {"tcp"}
Taken    == Int \X Protocol
Seen     == [ok : BOOLEAN, con : SUBSET Taken, host : SUBSET Taken]

\* A pass without an error: the mapping is legal and new.
LEMMA MappedIs ==
    ASSUME NEW seen \in Seen, NEW pm \in Mapping
    PROVE  /\ Mapped(seen, pm) \in Seen
           /\ Mapped(seen, pm).ok =>
                  /\ seen.ok
                  /\ pm.con \in 1 .. MaxPort /\ pm.host \in 0 .. MaxPort
                  /\ pm.proto \in {"", "tcp", "udp"}
                  /\ <<pm.con, Proto(pm)>> \notin seen.con
                  /\ pm.host # 0 => <<pm.host, Proto(pm)>> \notin seen.host
                  /\ Mapped(seen, pm).con = seen.con \union {<<pm.con, Proto(pm)>>}
                  /\ Mapped(seen, pm).host = IF pm.host = 0 THEN seen.host
                                             ELSE seen.host \union {<<pm.host, Proto(pm)>>}
<1> DEFINE bad == \/ ~seen.ok
                  \/ pm.con < 1 \/ pm.con > MaxPort \/ pm.host < 0 \/ pm.host > MaxPort
                  \/ Proto(pm) \notin {"tcp", "udp"}
                  \/ <<pm.con, Proto(pm)>> \in seen.con \/ HostTaken(seen, pm)
           next == [seen EXCEPT !.con = @ \union {<<pm.con, Proto(pm)>>},
                                !.host = IF pm.host = 0 THEN @ ELSE @ \union {<<pm.host, Proto(pm)>>}]
<1>1. Mapped(seen, pm) = IF bad THEN [seen EXCEPT !.ok = FALSE] ELSE next
  BY DEF Mapped
<1>2. Proto(pm) \in Protocol /\ (Proto(pm) \in {"tcp", "udp"} => pm.proto \in {"", "tcp", "udp"})
  <2>1. pm.proto \in STRING
    BY DEF Mapping
  <2>2. Proto(pm) = IF pm.proto = "" THEN "tcp" ELSE pm.proto
    BY DEF Proto
  <2>3. CASE pm.proto = ""
    BY <2>1, <2>2, <2>3 DEF Protocol
  <2>4. CASE pm.proto # ""
    <3>1. Proto(pm) = pm.proto
      BY <2>2, <2>4
    <3> QED  BY <2>1, <3>1 DEF Protocol
  <2> QED  BY <2>3, <2>4
<1>3. CASE bad
  <2>1. Mapped(seen, pm) = [seen EXCEPT !.ok = FALSE]
    BY <1>1, <1>3
  <2>2. Mapped(seen, pm) \in Seen /\ Mapped(seen, pm).ok = FALSE
    BY <2>1 DEF Seen
  <2> QED  BY <2>2
<1>4. CASE ~bad
  <2>1. Mapped(seen, pm) = next
    BY <1>1, <1>4
  <2>2. <<pm.con, Proto(pm)>> \in Taken /\ <<pm.host, Proto(pm)>> \in Taken
    BY <1>2 DEF Mapping, Taken
  <2>3. /\ next.ok = seen.ok /\ next.con = seen.con \union {<<pm.con, Proto(pm)>>}
        /\ next.host = IF pm.host = 0 THEN seen.host ELSE seen.host \union {<<pm.host, Proto(pm)>>}
    BY DEF Seen
  <2>4. next \in Seen
    BY <2>2 DEF Seen
  <2>5. pm.con \in Int /\ pm.host \in Int
    BY DEF Mapping
  <2>6. /\ pm.con \in 1 .. MaxPort /\ pm.host \in 0 .. MaxPort
        /\ pm.proto \in {"", "tcp", "udp"} /\ seen.ok
    <3>1. ~(pm.con < 1) /\ ~(pm.con > MaxPort) /\ ~(pm.host < 0) /\ ~(pm.host > MaxPort)
      BY <1>4
    <3>2. seen.ok /\ Proto(pm) \in {"tcp", "udp"}
      BY <1>4
    <3>3. MaxPort \in Int
      BY DEF MaxPort
    <3> HIDE DEF bad
    <3>4. pm.con \in 1 .. MaxPort /\ pm.host \in 0 .. MaxPort
      BY <2>5, <3>1, <3>3
    <3> QED  BY <1>2, <3>2, <3>4
  <2>7. /\ <<pm.con, Proto(pm)>> \notin seen.con
        /\ pm.host # 0 => <<pm.host, Proto(pm)>> \notin seen.host
    BY <1>4 DEF HostTaken
  <2> HIDE DEF next, bad
  <2> QED  BY <2>1, <2>3, <2>4, <2>6, <2>7
<1> QED  BY <1>3, <1>4

\* A clean list stays clean with a mapping that is legal and new.
LEMMA CleanNext ==
    ASSUME NEW n \in Nat, NEW ports, DOMAIN ports = 1 .. n, \A i \in 1 .. n : ports[i] \in Mapping,
           NEW k \in Nat, k + 1 <= n, NEW seen \in Seen, Clean(ports, k, seen),
           Mapped(seen, ports[k + 1]).ok
    PROVE  Clean(ports, k + 1, Mapped(seen, ports[k + 1]))
<1> DEFINE pm == ports[k + 1]
           C(i) == <<ports[i].con, Proto(ports[i])>>
           H(i) == <<ports[i].host, Proto(ports[i])>>
           after == Mapped(seen, pm)
<1>1. pm \in Mapping /\ k + 1 \in 1 .. n
  OBVIOUS
<1>2. /\ pm.con \in 1 .. MaxPort /\ pm.host \in 0 .. MaxPort /\ pm.proto \in {"", "tcp", "udp"}
      /\ C(k + 1) \notin seen.con
      /\ pm.host # 0 => H(k + 1) \notin seen.host
      /\ after.con = seen.con \union {C(k + 1)}
      /\ after.host = IF pm.host = 0 THEN seen.host ELSE seen.host \union {H(k + 1)}
  BY <1>1, MappedIs
<1> HIDE DEF C, H, after
<1>3. 1 .. k + 1 = (1 .. k) \union {k + 1}
  OBVIOUS
<1>4. /\ seen.con = {C(i) : i \in 1 .. k}
      /\ seen.host = {H(i) : i \in {j \in 1 .. k : ports[j].host # 0}}
      /\ \A i \in 1 .. k : /\ ports[i].con \in 1 .. MaxPort /\ ports[i].host \in 0 .. MaxPort
                           /\ ports[i].proto \in {"", "tcp", "udp"}
      /\ \A i, j \in 1 .. k : i < j =>
             C(i) # C(j) /\ (ports[i].host # 0 /\ ports[j].host # 0 => H(i) # H(j))
  BY DEF Clean, C, H
<1>5. after.con = {C(i) : i \in 1 .. k + 1}
  BY <1>2, <1>3, <1>4
<1>6. after.host = {H(i) : i \in {j \in 1 .. k + 1 : ports[j].host # 0}}
  BY <1>2, <1>3, <1>4
<1>7. \A i \in 1 .. k + 1 : /\ ports[i].con \in 1 .. MaxPort /\ ports[i].host \in 0 .. MaxPort
                            /\ ports[i].proto \in {"", "tcp", "udp"}
  BY <1>2, <1>3, <1>4
<1>8. ASSUME NEW i \in 1 .. k + 1, NEW j \in 1 .. k + 1, i < j
      PROVE  C(i) # C(j) /\ (ports[i].host # 0 /\ ports[j].host # 0 => H(i) # H(j))
  <2>1. i \in 1 .. k
    BY <1>8
  <2>2. CASE j \in 1 .. k
    BY <2>1, <2>2, <1>4, <1>8
  <2>3. CASE j = k + 1
    <3>1. C(i) \in seen.con
      BY <2>1, <1>4
    <3>2. ports[i].host # 0 => H(i) \in seen.host
      BY <2>1, <1>4
    <3> QED  BY <3>1, <3>2, <2>3, <1>2
  <2> QED  BY <2>2, <2>3, <1>3
<1> QED  BY <1>5, <1>6, <1>7, <1>8 DEF Clean, C, H, after

\* The loop is defined for every list.
LEMMA SeenExists ==
    ASSUME NEW n \in Nat, NEW ports, \A i \in 1 .. n : ports[i] \in Mapping
    PROVE  \E f : f = [i \in 0 .. n |-> IF i = 0 THEN [ok |-> TRUE, con |-> {}, host |-> {}]
                                        ELSE Mapped(f[i - 1], ports[i])]
<1> DEFINE a == [ok |-> TRUE, con |-> {}, host |-> {}]
           h == [i \in Nat |-> [v \in Seen |-> IF i \in 1 .. n THEN Mapped(v, ports[i]) ELSE v]]
<1>1. a \in Seen
  BY DEF Seen
<1>2. h \in [Nat -> [Seen -> Seen]]
  BY MappedIs
<1>3. PICK f \in [Nat -> Seen] : Continues(f, a, h)
  BY <1>1, <1>2, RecursionExists
<1> DEFINE g == [i \in 0 .. n |-> f[i]]
<1>4. ASSUME NEW i \in 0 .. n
      PROVE  g[i] = IF i = 0 THEN a ELSE Mapped(g[i - 1], ports[i])
  <2>1. f[i] = IF i = 0 THEN a ELSE h[i][f[i - 1]]
    <3>1. i \in Nat
      OBVIOUS
    <3>2. f = [m \in Nat |-> IF m = 0 THEN a ELSE h[m][f[m - 1]]]
      BY <1>3 DEF Continues
    <3> HIDE DEF a, h
    <3> QED  BY <3>1, <3>2
  <2>2. CASE i = 0
    BY <2>1, <2>2
  <2>3. CASE i # 0
    <3>1. i - 1 \in Nat /\ i - 1 \in 0 .. n /\ i \in 1 .. n
      BY <2>3
    <3>2. f[i - 1] \in Seen
      BY <3>1
    <3>3. h[i][f[i - 1]] = Mapped(f[i - 1], ports[i])
      BY <3>1, <3>2
    <3> HIDE DEF h
    <3> QED  BY <2>1, <2>3, <3>1, <3>3
  <2> QED  BY <2>2, <2>3
<1>5. DOMAIN g = 0 .. n /\ g = [i \in 0 .. n |-> g[i]]
  OBVIOUS
<1> HIDE DEF g, h
<1>6. g = [i \in 0 .. n |-> IF i = 0 THEN a ELSE Mapped(g[i - 1], ports[i])]
  BY <1>4, <1>5
<1> QED  BY <1>6

\* ValidatePortMappings: a list that passes is clean.
LEMMA PassedIsClean ==
    ASSUME NEW ports \in Seq(Mapping), ValidatePortMappings(ports)
    PROVE  \E seen \in Seen : Clean(ports, Len(ports), seen)
<1> DEFINE n == Len(ports)
           Is(f) == f = [i \in 0 .. n |-> IF i = 0 THEN [ok |-> TRUE, con |-> {}, host |-> {}]
                                          ELSE Mapped(f[i - 1], ports[i])]
           f == CHOOSE g : Is(g)
<1>1. n \in Nat /\ DOMAIN ports = 1 .. n /\ \A i \in 1 .. n : ports[i] \in Mapping
  OBVIOUS
<1>2. \E g : Is(g)
  BY <1>1, SeenExists
<1>3. Is(f)
  <2> HIDE DEF Is
  <2> QED  BY <1>2
<1>4. f[n].ok
  BY DEF ValidatePortMappings
<1> HIDE DEF f, n
<1>5. /\ f[0] = [ok |-> TRUE, con |-> {}, host |-> {}]
      /\ \A i \in 1 .. n : f[i] = Mapped(f[i - 1], ports[i])
  <2>1. \A i \in 0 .. n : f[i] = IF i = 0 THEN [ok |-> TRUE, con |-> {}, host |-> {}]
                                 ELSE Mapped(f[i - 1], ports[i])
    BY <1>3
  <2>2. 0 \in 0 .. n /\ \A i \in 1 .. n : i \in 0 .. n /\ i # 0
    BY <1>1
  <2> QED  BY <2>1, <2>2
<1> HIDE DEF Is
<1> DEFINE S == {k \in Nat : k <= n => f[k] \in Seen /\ (f[k].ok => Clean(ports, k, f[k]))}
<1>6. 0 \in S
  <2>1. f[0] \in Seen
    BY <1>5 DEF Seen
  <2>2. Clean(ports, 0, f[0])
    <3>1. 1 .. 0 = {}
      OBVIOUS
    <3>2. f[0].con = {} /\ f[0].host = {}
      BY <1>5
    <3> QED  BY <3>1, <3>2 DEF Clean
  <2> QED  BY <2>1, <2>2
<1>7. ASSUME NEW k \in Nat, k \in S
      PROVE  k + 1 \in S
  <2>1. CASE k + 1 <= n
    <3>1. k <= n /\ k + 1 \in 1 .. n /\ (k + 1) - 1 = k
      BY <1>1, <2>1
    <3>2. f[k] \in Seen /\ (f[k].ok => Clean(ports, k, f[k]))
      BY <1>7, <3>1
    <3>3. f[k + 1] = Mapped(f[k], ports[k + 1]) /\ ports[k + 1] \in Mapping
      BY <1>1, <1>5, <3>1
    <3>4. f[k + 1] \in Seen /\ (f[k + 1].ok => f[k].ok)
      <4>1. Mapped(f[k], ports[k + 1]) \in Seen
        BY <3>2, <3>3, MappedIs
      <4>2. Mapped(f[k], ports[k + 1]).ok => f[k].ok
        BY <3>2, <3>3, MappedIs, Zenon
      <4> QED  BY <3>3, <4>1, <4>2, Zenon
    <3>5. f[k + 1].ok => Clean(ports, k + 1, f[k + 1])
      BY <1>1, <2>1, <3>2, <3>3, <3>4, CleanNext
    <3> QED  BY <3>4, <3>5
  <2>2. CASE ~(k + 1 <= n)
    BY <2>2
  <2> QED  BY <2>1, <2>2
<1>8. n \in S
  <2> HIDE DEF S
  <2>1. Nat \subseteq S
    BY <1>6, <1>7, Induction
  <2> QED  BY <2>1, <1>1
<1>9. f[n] \in Seen /\ Clean(ports, n, f[n])
  BY <1>1, <1>4, <1>8
<1> QED  BY <1>9 DEF n

\* Validate takes only submissions that the rest of the program can rely on,
\* whatever their number of ports.
LEMMA ValidIsSound ==
    ASSUME NEW p \in Valid
    PROVE  Sound(p) = TRUE
<1>1. p \in Payload /\ Validate(p)
  BY DEF Valid
<1>2. p.ports \in Seq(Mapping) /\ p.timeout \in Int /\ p.cap \in Int
  BY <1>1, AdmissionAssumption DEF Mapping
<1> DEFINE ports == p.ports
<1>3. PICK seen \in Seen : Clean(ports, Len(ports), seen)
  BY <1>1, <1>2, PassedIsClean DEF Validate
<1>4. DOMAIN ports = 1 .. Len(ports) /\ Len(ports) \in Nat
  BY <1>2
<1>5. \A i \in DOMAIN ports : /\ ports[i].con \in 1 .. MaxPort /\ ports[i].host \in 0 .. MaxPort
                              /\ ports[i].proto \in {"", "tcp", "udp"}
  BY <1>3, <1>4 DEF Clean
<1>6. ASSUME NEW i \in DOMAIN ports, NEW j \in DOMAIN ports, i # j
      PROVE  /\ <<ports[i].con, Proto(ports[i])>> # <<ports[j].con, Proto(ports[j])>>
             /\ ports[i].host # 0 /\ ports[j].host # 0 =>
                    <<ports[i].host, Proto(ports[i])>> # <<ports[j].host, Proto(ports[j])>>
  <2>1. i < j \/ j < i
    BY <1>4, <1>6
  <2> QED  BY <2>1, <1>3, <1>4 DEF Clean
<1>7. p.timeout \in Nat /\ p.cap \in Nat
  BY <1>1, <1>2 DEF Validate
<1>8. Sound(p)
  BY <1>5, <1>6, <1>7 DEF Sound
<1> QED  BY <1>8 DEF Sound

\* ValidatePortMappings and everything that stores a record after it: the
\* ports of a stored task are in range and distinct, for submissions with any
\* number of ports, also in a record written back from a snapshot or an event.
THEOREM OnlySoundStored == AdmissionSpec => []StoredSound
<1>1. Typed => StoredSound
  <2> SUFFICES ASSUME Typed, NEW t \in Task
               PROVE  recs[t].sound = TRUE
    BY Zenon DEF StoredSound
  <2>1. recs[t] \in Rec
    BY DEF Typed
  <2>2. recs[t].sound \in {TRUE} \union {Sound(p) : p \in Valid}
    BY <2>1 DEF Rec
  <2>3. \A p \in Valid : Sound(p) = TRUE
    BY ValidIsSound
  <2> QED  BY <2>2, <2>3
<1>2. AdmissionSpec => []Typed
  BY TypedInit, TypedStep, PTL DEF AdmissionSpec
<1> QED  BY <1>1, <1>2, PTL
=============================================================================
