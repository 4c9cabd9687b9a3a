------------------------------ MODULE Admission ------------------------------
(***************************************************************************)
(* What clients ask of the manager: who may ask (token file, roles), which *)
(* submissions are taken (Validate, AddTask), and what a reference to a    *)
(* task means while other requests go on (ResolveRef, StopTaskHandler,     *)
(* deleteTask).                                                            *)
(*                                                                         *)
(* A request runs in a goroutine of its own; its sections under the        *)
(* manager's lock are steps.  The dispatcher and the restart loop appear   *)
(* as far as they write records or queue events: Manager.tla has their     *)
(* steps.  Unlike there, clients may use the ID of a deleted task again.   *)
(***************************************************************************)
EXTENDS TasksAndWorkers, Integers, FiniteSetsExt

CONSTANTS
    Name, NoName,   \* task names that are not UUIDs; the empty name
    Hash,           \* hashes of tokens; a token is known by its hash
    NoHash,         \* no token, or an ill-formed hash
    TokenFiles,     \* token files, as sequences of entries, or
    NoFile,         \* none: authentication is disabled
    Payload,        \* the parts of submissions that Validate looks at
    Request,        \* goroutines of requests
    Sender, Looper, \* SendWork; the loops that restart tasks
    MaxArrivals,    \* bound: requests
    MaxLapses       \* bound: store operations that fail

ASSUME AdmissionAssumption ==
    /\ NoHash \notin Hash /\ NoName \notin Name
    /\ {Sender, Looper} \intersect Request = {} /\ Sender # Looper
    /\ {MaxArrivals, MaxLapses} \subseteq Nat
    /\ \A f \in TokenFiles \ {NoFile} : Len(f) \in Nat /\ DOMAIN f = 1 .. Len(f)
    /\ \A p \in Payload : /\ p.ports \in Seq([con : Int, host : Int, proto : STRING])
                          /\ {p.timeout, p.cap} \subseteq Int

VARIABLES
    tokenFile,      \* manager.auth.token_file
    recs,           \* TaskDb
    owned,          \* tasks with an assignment
    queue,          \* pending events
    work,           \* local state of the goroutines
    arrivals, lapses,
    accepted, reused,   \* history: IDs taken, and taken again after a deletion
    unchecked,      \* history: tasks whose name was taken without a list
    revived         \* history: tasks written back after their deletion

avars == <<tokenFile, recs, owned, queue, work, arrivals, lapses, accepted, reused, unchecked, revived>>

\* "Over" is a failure with a terminal stamp or at the restart cap.
NoRec == [state |-> "none", name |-> NoName, manual |-> FALSE, sound |-> TRUE]
Exists(t) == recs[t].state # "none"

Resting == [pc |-> "rest", event |-> "start", direct |-> FALSE, task |-> NoTask, snap |-> NoRec,
            token |-> NoHash]
Does(p, pc) == work[p].pc = pc
Now(p, w) == work' = [work EXCEPT ![p] = w]
Goes(p, pc) == Now(p, [work[p] EXCEPT !.pc = pc])
Rests(p) == Now(p, Resting)

\* What a stop says of the record does not matter.
Event(w) == [task |-> w.task, kind |-> w.event, direct |-> w.direct,
             rec |-> IF w.event = "start" THEN w.snap ELSE NoRec]

Lapse == lapses < MaxLapses /\ lapses' = lapses + 1
NoLapse == lapses' = lapses

-----------------------------------------------------------------------------
(* Tokens and roles *)

EntryParses(e) == e.user /\ e.role \in {"admin", "viewer"} /\ e.hash \in Hash

\* Mutant of Parses: two entries may share a hash.
ParsesTwice(file) == file # <<>> /\ \A i \in DOMAIN file : EntryParses(file[i])

\* ParseTokenFile: a file that does not parse keeps the manager from starting.
Parses(file) ==
    /\ file # <<>>
    /\ \A i \in DOMAIN file :
           EntryParses(file[i]) /\ \A j \in 1 .. i - 1 : file[j].hash # file[i].hash

\* Verify: every record is compared, the last match counts.
Verify(h) ==
    LET hits == {i \in DOMAIN tokenFile : tokenFile[i].hash = h}
    IN  IF hits = {} THEN "none" ELSE tokenFile[Max(hits)].role

Allows(role, min) == role = "admin" \/ role = min

\* The tokens that may submit and stop; without a token file none is read.
Admins == IF tokenFile = NoFile THEN {NoHash}
          ELSE {h \in Hash : Verify(h) # "none" /\ Allows(Verify(h), "admin")}

-----------------------------------------------------------------------------
(* Validate *)

MaxPort == 65535
Proto(pm) == IF pm.proto = "" THEN "tcp" ELSE pm.proto

\* Mutant of HostTaken: the default protocol is not filled in.
HostTakenAsGiven(seen, pm) == pm.host # 0 /\ <<pm.host, pm.proto>> \in seen.host

HostTaken(seen, pm) == pm.host # 0 /\ <<pm.host, Proto(pm)>> \in seen.host

\* A pass of ValidatePortMappings' loop, which ends at the first error.
Mapped(seen, pm) ==
    IF \/ ~seen.ok
       \/ pm.con < 1 \/ pm.con > MaxPort \/ pm.host < 0 \/ pm.host > MaxPort
       \/ Proto(pm) \notin {"tcp", "udp"}
       \/ <<pm.con, Proto(pm)>> \in seen.con \/ HostTaken(seen, pm)
    THEN [seen EXCEPT !.ok = FALSE]
    ELSE [seen EXCEPT !.con = @ \union {<<pm.con, Proto(pm)>>},
                      !.host = IF pm.host = 0 THEN @ ELSE @ \union {<<pm.host, Proto(pm)>>}]

ValidatePortMappings(ports) ==
    LET seen[i \in 0 .. Len(ports)] == IF i = 0 THEN [ok |-> TRUE, con |-> {}, host |-> {}]
                                       ELSE Mapped(seen[i - 1], ports[i])
    IN  seen[Len(ports)].ok

ValidateRestartPolicy(p) == p \in {"", "none", "always", "on-failure", "unless-stopped"}

\* Environment and security options are not modelled.
Validate(p) == /\ ValidatePortMappings(p.ports) /\ ValidateRestartPolicy(p.policy)
               /\ p.timeout >= 0 /\ p.cap >= 0

Valid == {p \in Payload : Validate(p)}

\* What the rest of the program relies on: Placement's keys are the pinned
\* ports of a task, each of them once.
Sound(p) ==
    LET pinned == {i \in DOMAIN p.ports : p.ports[i].host # 0}
    IN  /\ \A i \in DOMAIN p.ports : p.ports[i].con \in 1 .. MaxPort /\ p.ports[i].host \in 0 .. MaxPort
                                     /\ p.ports[i].proto \in {"", "tcp", "udp"}
        /\ \A i, j \in DOMAIN p.ports : i # j =>
               <<p.ports[i].con, Proto(p.ports[i])>> # <<p.ports[j].con, Proto(p.ports[j])>>
        /\ \A i, j \in pinned : i # j =>
               <<p.ports[i].host, Proto(p.ports[i])>> # <<p.ports[j].host, Proto(p.ports[j])>>
        /\ p.timeout \in Nat /\ p.cap \in Nat

-----------------------------------------------------------------------------
(* StartTaskHandler and AddTask *)

\* A submission whose state is Completed is a stop, whatever it is about.
Arrive(q) ==
    /\ Does(q, "rest") /\ arrivals < MaxArrivals
    /\ arrivals' = arrivals + 1
    /\ \E h \in Admins, t \in Task :
           \/ \E name \in Name \union Task \union {NoName}, sound \in {Sound(p) : p \in Valid} :
                  LET rec == [NoRec EXCEPT !.state = "Pending", !.name = name, !.sound = sound]
                  IN  Now(q, [Resting EXCEPT !.pc = "add", !.task = t, !.token = h, !.snap = rec])
           \/ Now(q, [Resting EXCEPT !.pc = "queue", !.event = "stop", !.direct = TRUE, !.task = t, !.token = h])
    /\ UNCHANGED <<tokenFile, recs, owned, queue, lapses, accepted, reused, unchecked, revived>>

InUse(name) == \E t \in Task : Exists(t) /\ recs[t].name = name

\* Mutant of NameFree: a name is free once its task has completed.
NameFreeEarly(name) ==
    name = NoName \/ \A t \in Task : recs[t].name = name => recs[t].state \in {"none", "Completed"}

NameFree(name) == name = NoName \/ ~InUse(name)

\* Under mu: the ID, the form of the name, the names in use, the record.  The
\* name is taken for free if the tasks cannot be listed.
Add(q) ==
    /\ Does(q, "add")
    /\ LET t == work[q].task
           name == work[q].snap.name
           store == /\ recs' = [recs EXCEPT ![t] = work[q].snap]
                    /\ accepted' = accepted \union {t}
                    /\ reused' = IF t \in accepted THEN reused \union {t} ELSE reused
                    /\ revived' = revived \ {t}
                    /\ Goes(q, "queue")
       IN  \/ /\ ~Exists(t) /\ name \notin Task
              /\ \/ NameFree(name) /\ store /\ unchecked' = unchecked \ {t} /\ NoLapse
                 \/ name # NoName /\ Lapse /\ store /\ unchecked' = unchecked \union {t}
           \/ /\ \/ (Exists(t) \/ name \in Task \/ ~NameFree(name)) /\ NoLapse
                 \/ Lapse
              /\ Rests(q)
              /\ UNCHANGED <<recs, accepted, reused, unchecked, revived>>
    /\ UNCHANGED <<tokenFile, owned, queue, arrivals>>

\* enqueuePending, after the unlock; the end of StopTaskHandler as well.
Enqueue(q) ==
    /\ Does(q, "queue")
    /\ queue' = Append(queue, Event(work[q]))
    /\ Rests(q)
    /\ UNCHANGED <<tokenFile, recs, owned, arrivals, lapses, accepted, reused, unchecked, revived>>

-----------------------------------------------------------------------------
(* StopTaskHandler and deleteTask *)

\* ResolveRef: a UUID is an ID, a name has to be the only one.
Meant(ref) == IF ref \in Task THEN {t \in Task : t = ref /\ Exists(t)}
              ELSE {t \in Task : Exists(t) /\ recs[t].name = ref}

Resolve(q) ==
    /\ Does(q, "rest") /\ arrivals < MaxArrivals
    /\ arrivals' = arrivals + 1
    /\ \E h \in Admins, ref \in Name \union Task, t \in Task :
           /\ Meant(ref) = {t}
           /\ Now(q, [Resting EXCEPT !.pc = "decide", !.event = "stop", !.task = t, !.snap = recs[t],
                                     !.token = h])
    /\ UNCHANGED <<tokenFile, recs, owned, queue, lapses, accepted, reused, unchecked, revived>>

\* Mutant of Course: the stop is queued first.
CourseUnmarked(t, snap) ==
    IF snap.state \in {"Pending", "Completed", "Over"} \/ t \notin owned THEN "delete" ELSE "queue"

\* A task with nothing to stop is deleted, another one marked and stopped.
Course(t, snap) ==
    IF snap.state \in {"Pending", "Completed", "Over"} \/ t \notin owned THEN "delete" ELSE "mark"

Decide(q) ==
    /\ Does(q, "decide")
    /\ Goes(q, Course(work[q].task, work[q].snap))
    /\ UNCHANGED <<tokenFile, recs, owned, queue, arrivals, lapses, accepted, reused, unchecked, revived>>

\* markStopRequested: the task may be gone by now.
Mark(q) ==
    /\ Does(q, "mark")
    /\ LET t == work[q].task
       IN  \/ Exists(t) /\ recs' = [recs EXCEPT ![t].manual = TRUE] /\ Goes(q, "queue") /\ NoLapse
           \/ ~Exists(t) /\ recs' = recs /\ Rests(q) /\ NoLapse
           \/ recs' = recs /\ Rests(q) /\ Lapse
    /\ UNCHANGED <<tokenFile, owned, queue, arrivals, accepted, reused, unchecked, revived>>

\* The record and the assignment go under mu.  A failure ends the request;
\* the dispatcher queues its stop again.
Delete(p) ==
    /\ Does(p, "delete")
    /\ LET t == work[p].task
       IN  \/ /\ recs' = [recs EXCEPT ![t] = NoRec] /\ owned' = owned \ {t}
              /\ Goes(p, "purge") /\ NoLapse /\ queue' = queue
           \/ /\ Lapse
              /\ queue' = IF p = Sender THEN Append(queue, Event(work[p])) ELSE queue
              /\ Rests(p)
              /\ UNCHANGED <<recs, owned>>
    /\ UNCHANGED <<tokenFile, arrivals, accepted, reused, unchecked, revived>>

\* Queued events go after the unlock, whichever life of the ID they are of.
Purge(p) ==
    /\ Does(p, "purge")
    /\ queue' \in Kept(queue, {i \in DOMAIN queue : queue[i].task # work[p].task})
    /\ Rests(p)
    /\ UNCHANGED <<tokenFile, recs, owned, arrivals, lapses, accepted, reused, unchecked, revived>>

-----------------------------------------------------------------------------
(* The rest of the manager *)

\* Mutant of PutOff: an event that has to wait is dropped.
PutOffLost(e) == Tail(queue)

\* Nobody can be reached: the event goes to the end of the queue.
PutOff(e) == Append(Tail(queue), e)

\* SendWork takes an event: a stop goes to the owner or deletes what nobody
\* owns; a start is skipped, carried out, failed or given up.
Dispatch(e) ==
    /\ Does(Sender, "rest")
    /\ LET t == e.task
           take(r, o, w) == queue' = Tail(queue) /\ recs' = r /\ owned' = o /\ work' = w
           sender(pc) == [work EXCEPT ![Sender] = [Resting EXCEPT !.pc = pc, !.event = e.kind, !.task = t,
                                                                   !.snap = e.rec, !.direct = e.direct]]
           become(r) == [recs EXCEPT ![t] = r]
       IN  \/ ~Exists(t) /\ take(recs, owned, work)
           \/ queue' = PutOff(e) /\ UNCHANGED <<recs, owned, work>>
           \/ /\ e.kind = "stop" /\ Exists(t)
              /\ IF t \in owned THEN take(recs, owned, work) ELSE take(recs, owned, sender("delete"))
           \/ /\ e.kind = "start" /\ Exists(t)
              /\ \/ take(become([e.rec EXCEPT !.state = "Active"]), owned \union {t}, work)
                 \/ take(become([recs[t] EXCEPT !.state = "Failed"]), owned, work)
                 \/ take(recs, owned, sender("end"))
    /\ UNCHANGED <<tokenFile, arrivals, lapses, accepted, reused, unchecked, revived>>

\* restartFailedTasks or a health check ends a task it has read before.
Read(t) ==
    /\ Does(Looper, "rest") /\ recs[t].state \in {"Active", "Failed", "Completed"}
    /\ Now(Looper, [Resting EXCEPT !.pc = "end", !.task = t, !.snap = recs[t]])
    /\ UNCHANGED <<tokenFile, recs, owned, queue, arrivals, lapses, accepted, reused, unchecked, revived>>

\* stopTaskTerminal writes what was read, also if the task is gone.
Terminate(p) ==
    /\ Does(p, "end")
    /\ recs' = [recs EXCEPT ![work[p].task] = [work[p].snap EXCEPT !.state = "Over"]]
    /\ revived' = IF Exists(work[p].task) THEN revived ELSE revived \union {work[p].task}
    /\ Rests(p)
    /\ UNCHANGED <<tokenFile, owned, queue, arrivals, lapses, accepted, reused, unchecked>>

\* Tasks exit, fail and are restarted, with an owner; what the user stopped
\* is not.
Evolve(t) ==
    /\ \/ /\ recs[t].state = "Active"
          /\ \E s \in {"Completed", "Failed"} : recs' = [recs EXCEPT ![t].state = s]
          /\ owned' = owned
       \/ /\ recs[t].state \in {"Failed", "Completed"} /\ ~recs[t].manual
          /\ recs' = [recs EXCEPT ![t].state = "Active"]
          /\ owned' = owned \union {t}
    /\ UNCHANGED <<tokenFile, queue, work, arrivals, lapses, accepted, reused, unchecked, revived>>

AdmissionInit ==
    /\ tokenFile \in {f \in TokenFiles : f = NoFile \/ Parses(f)}
    /\ recs = [t \in Task |-> NoRec]
    /\ owned = {} /\ queue = <<>>
    /\ work = [p \in Request \union {Sender, Looper} |-> Resting]
    /\ arrivals = 0 /\ lapses = 0
    /\ accepted = {} /\ reused = {} /\ unchecked = {} /\ revived = {}

AdmissionNext ==
    \/ \E q \in Request : Arrive(q) \/ Add(q) \/ Enqueue(q) \/ Resolve(q) \/ Decide(q) \/ Mark(q)
    \/ \E p \in Request \union {Sender} : Delete(p) \/ Purge(p)
    \/ \E p \in {Sender, Looper} : Terminate(p)
    \/ queue # <<>> /\ Dispatch(Head(queue))
    \/ \E t \in Task : Read(t) \/ Evolve(t)

AdmissionSpec == AdmissionInit /\ [][AdmissionNext]_avars

-----------------------------------------------------------------------------
(* Properties *)

\* Whoever changes the cluster is an admin by every entry of the token file.
AdminByEveryEntry ==
    \A q \in Request : ~Does(q, "rest") /\ tokenFile # NoFile =>
        LET mine == {i \in DOMAIN tokenFile : tokenFile[i].hash = work[q].token}
        IN  mine # {} /\ \A i \in mine : tokenFile[i].role = "admin"

\* The ports of a stored task are in range and distinct.
StoredSound == \A t \in Task : recs[t].sound

\* A name means one task.  Exempt are a task taken while the tasks could not
\* be listed, one written back after its deletion, and an ID used twice.
NamesUnique ==
    \A t, u \in Task :
        t # u /\ Exists(t) /\ Exists(u) /\ recs[t].name = recs[u].name /\ recs[t].name # NoName
            => {t, u} \intersect (unchecked \union revived \union reused) # {}

\* However submissions, deletions and dispatches overlap, a Pending task has
\* its start queued, unless its ID was used before: then the deletion of the
\* former life may take the start of the new one.
PendingHasStart ==
    \A t \in Task : recs[t].state = "Pending" =>
        \/ \E i \in DOMAIN queue : queue[i].task = t /\ queue[i].kind = "start"
        \/ \E p \in DOMAIN work : work[p].task = t /\ (Does(p, "queue") \/ Does(p, "end"))
        \/ t \in reused

\* A stop the API has queued finds its task marked, so that no policy undoes
\* it, or ended for good; exempt are stops submitted as such.
StopsMarked ==
    \A i \in DOMAIN queue :
        LET t == queue[i].task
        IN  queue[i].kind = "stop" /\ ~queue[i].direct /\ Exists(t)
                => recs[t].manual \/ recs[t].state = "Over" \/ t \in reused
=============================================================================
