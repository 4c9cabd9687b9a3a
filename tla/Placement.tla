----------------------------- MODULE Placement -----------------------------
(***************************************************************************)
(* Where a task goes: the reservation table, the port inventories of the   *)
(* workers, their resource samples and the two schedulers.                 *)
(*                                                                         *)
(* selectAndReserveWorker holds the table's lock while it asks one worker  *)
(* after the other for its ports, so a selection is a sequence of steps;   *)
(* what it learned may be old when it decides.  Reservations are given     *)
(* back under the same lock.  Each task has one goroutine that tries to    *)
(* start, restart or stop it; Manager.tla has several at once.             *)
(***************************************************************************)
EXTENDS TasksAndWorkers

CONSTANTS
    Key,            \* "proto:port" keys
    PinSets,        \* the host ports that each task pins, one way or another
    Foreign,        \* host ports other programs hold on each worker
    Room,           \* tasks that fit on each worker by its last sample
    MaxTries,       \* bound: selections, for each scheduler
    MaxTroubles     \* bound: requests that fail, outages of a worker, restarts of the manager

ASSUME PlacementAssumption ==
    /\ PinSets \subseteq [Task -> SUBSET Key]
    /\ Foreign \in [Node -> SUBSET Key]
    /\ Room \in [Node -> SUBSET Task]
    /\ MaxTries \in [{"epvm", "roundrobin"} -> Nat] /\ MaxTroubles \in Nat

VARIABLES
    pins,       \* host ports each task pins, fixed by its submission
    scheduler,  \* "epvm" or "roundrobin", fixed by the command line
    lastWorker, \* RoundRobin.LastWorker, as a position: 0 is none yet
    table,      \* ReservationTable.byWorker
    holder,     \* whose selection holds the table's lock
    owner,      \* Assignments
    hostPorts,  \* tasks whose record names the ports of their container
    attempt,    \* local state of the goroutines
    sampled,    \* workers with a resource sample
    alive,      \* workers that can be reached
    orders,     \* orders a worker accepted and has not run
    running,    \* containers that are up
    tries, troubles,
    surrendered,     \* history: tasks that gave a reservation back or lost one
    steady,     \* history: workers able to take the task ever since its attempt began
    lastPick    \* history: the workers the last selection chose from, and its choice

pvars == <<pins, scheduler, lastWorker, table, holder, owner, hostPorts, attempt, sampled, alive,
           orders, running, tries, troubles, surrendered, steady, lastPick>>

choice  == <<scheduler, lastWorker, lastPick>>
reservations == <<table, holder>>
records == <<owner, hostPorts>>
workers == <<alive, orders, running>>
bounds  == <<tries, troubles>>

\* left and able are the candidates still to be asked and those found able.
Rest == [pc |-> "rest", left |-> <<>>, able |-> <<>>, node |-> NoNode]
In(t, pc) == attempt[t].pc = pc
Becomes(t, a) == attempt' = [attempt EXCEPT ![t] = a]
Step(t, pc) == Becomes(t, [attempt[t] EXCEPT !.pc = pc])

-----------------------------------------------------------------------------
(* The reservation table *)

Held(tab, n, t) == {k \in Key : tab[n][k] = t}

Clash(n, t, allowOwn) ==
    \E k \in pins[t] : table[n][k] # NoTask /\ (table[n][k] # t \/ ~allowOwn)

Claimed(tab, n, t) == [tab EXCEPT ![n] = [k \in Key |-> IF k \in pins[t] THEN t ELSE tab[n][k]]]

\* Mutant of LockFree: the table is used without its lock.
LockFreeAlways == TRUE

LockFree == holder = NoTask

\* Mutant of Freed: whoever holds the ports loses them.
FreedAnyones(tab, n, t) ==
    IF n = NoNode THEN tab
    ELSE [tab EXCEPT ![n] = [k \in Key |-> IF k \in pins[t] THEN NoTask ELSE tab[n][k]]]

\* Only the task's own reservations go.
Freed(tab, n, t) ==
    IF n = NoNode THEN tab
    ELSE [tab EXCEPT ![n] = [k \in Key |-> IF k \in pins[t] /\ tab[n][k] = t THEN NoTask ELSE tab[n][k]]]

-----------------------------------------------------------------------------
(* What the workers answer *)

Queued(n, t) == "start" \in {orders[n][t][i] : i \in DOMAIN orders[n][t]}

\* Mutant of Busy: only what is up counts.
BusyRunning(n) == Foreign[n] \union UNION {pins[t] : t \in running[n]}

\* GET /ports: listening sockets, running containers, and the ports of tasks
\* accepted and not started yet.
Busy(n) == Foreign[n] \union UNION {pins[t] : t \in {u \in Task : u \in running[n] \/ Queued(n, u)}}

\* Mutant of Hidden: the task's own container counts as a conflict.
HiddenNothing(n, t, own) == {}

\* The ports of its container do not hinder a task that stays.
Hidden(n, t, own) == IF own /\ t \in hostPorts THEN pins[t] ELSE {}

CanHost(n, t, own) == pins[t] \intersect (Busy(n) \ Hidden(n, t, own)) = {}

Flaky == troubles < MaxTroubles /\ troubles' = troubles + 1
Fetches(n) == n \in alive /\ troubles' = troubles
Unfetched(n) == (n \notin alive /\ troubles' = troubles) \/ Flaky

\* SelectCandidateNodes: the worst a sample can tell is that the disk is full.
Candidates(t) ==
    LET Fits(n) == scheduler = "epvm" => n \in sampled /\ t \in Room[n]
    IN  Kept(WorkerNodes, {i \in DOMAIN WorkerNodes : Fits(WorkerNodes[i])})

-----------------------------------------------------------------------------
(* selectAndReserveWorker *)

\* A task without an owner is dispatched, one with an owner restarted.
Begin(t) ==
    /\ In(t, "rest") /\ LockFree /\ tries < MaxTries[scheduler]
    /\ tries' = tries + 1
    /\ holder' = t
    /\ \E list \in Candidates(t) :
           Becomes(t, IF owner[t] = NoNode THEN [Rest EXCEPT !.pc = "scan", !.left = list]
                      ELSE [Rest EXCEPT !.pc = "keep"])
    /\ UNCHANGED <<choice, table, records, sampled, workers, troubles, surrendered>>

Selected(t, n) == Becomes(t, [Rest EXCEPT !.pc = "post", !.node = n]) /\ holder' = NoTask

\* The owner is kept if its ports are the task's own or free.
Keep(t) ==
    /\ In(t, "keep")
    /\ LET n == owner[t]
           scan == /\ \E list \in Candidates(t) : Becomes(t, [Rest EXCEPT !.pc = "scan", !.left = list])
                   /\ UNCHANGED reservations
       IN  \/ /\ ~Clash(n, t, TRUE)
              /\ \/ pins[t] = {} /\ Selected(t, n) /\ UNCHANGED <<table, troubles>>
                 \/ pins[t] # {} /\ Fetches(n) /\ CanHost(n, t, TRUE) /\ Selected(t, n)
                    /\ table' = Claimed(table, n, t)
                 \/ pins[t] # {} /\ Fetches(n) /\ ~CanHost(n, t, TRUE) /\ scan
                 \/ pins[t] # {} /\ Unfetched(n) /\ scan
           \/ Clash(n, t, TRUE) /\ scan /\ troubles' = troubles
    /\ UNCHANGED <<choice, records, sampled, workers, tries, surrendered>>

\* The next candidate: its ports if it needs to be asked, then the table.
Scan(t) ==
    /\ In(t, "scan") /\ attempt[t].left # <<>>
    /\ LET n == Head(attempt[t].left)
           pass(yes) == Becomes(t, [attempt[t] EXCEPT !.left = Tail(@),
                                                    !.able = IF yes THEN Append(@, n) ELSE @])
       IN  \/ pins[t] = {} /\ pass(TRUE) /\ troubles' = troubles
           \/ pins[t] # {} /\ Fetches(n) /\ pass(CanHost(n, t, FALSE) /\ ~Clash(n, t, FALSE))
           \/ pins[t] # {} /\ Unfetched(n) /\ pass(FALSE)
    /\ UNCHANGED <<choice, reservations, records, sampled, workers, tries, surrendered>>

\* Mutant of Turn: the index wraps one worker too early.
TurnShort(able) == IF lastWorker + 1 < Len(able) THEN lastWorker + 1 ELSE 1

\* RoundRobin.Score moves the index, over whatever list it is given.
Turn(able) == IF lastWorker + 1 <= Len(able) THEN lastWorker + 1 ELSE 1

\* Epvm picks any worker that still has a sample: its costs are not modelled.
\* The reservation is tried, though the lock should make a failure impossible.
Pick(t) ==
    /\ In(t, "scan") /\ attempt[t].left = <<>>
    /\ LET able == attempt[t].able
           pos == {i \in DOMAIN able : IF scheduler = "roundrobin" THEN i = Turn(able) ELSE able[i] \in sampled}
           none == Becomes(t, [Rest EXCEPT !.pc = "judge"]) /\ holder' = NoTask /\ table' = table
       IN  \/ \E i \in pos :
                  /\ IF scheduler = "roundrobin"
                     THEN lastWorker' = i /\ lastPick' = [able |-> able, node |-> able[i]]
                     ELSE UNCHANGED <<lastWorker, lastPick>>
                  /\ IF Clash(able[i], t, TRUE) THEN none
                     ELSE table' = Claimed(table, able[i], t) /\ Selected(t, able[i])
           \/ pos = {} /\ none /\ UNCHANGED <<lastWorker, lastPick>>
    /\ UNCHANGED <<scheduler, records, sampled, workers, bounds, surrendered>>

\* Why it failed, asked after the lock is released: no sample yet, nobody
\* answers, or nobody can take the task.
Judge(t) ==
    /\ In(t, "judge")
    /\ IF sampled = {} THEN Becomes(t, Rest) ELSE Step(t, "probe")
    /\ UNCHANGED <<choice, reservations, records, sampled, workers, bounds, surrendered>>

Probe(t) ==
    /\ In(t, "probe")
    /\ IF alive = {} THEN Becomes(t, Rest) ELSE Step(t, "end")
    /\ UNCHANGED <<choice, reservations, records, sampled, workers, bounds, surrendered>>

-----------------------------------------------------------------------------
(* The request that follows *)

Accepted(ord, n, t, o) == [ord EXCEPT ![n][t] = Append(@, o)]

\* A stop sent best effort: it may not arrive.
Halted(n, t) ==
    IF n = NoNode THEN UNCHANGED <<orders, troubles>>
    ELSE \/ n \in alive /\ orders' = Accepted(orders, n, t, "stop") /\ troubles' = troubles
         \/ Unfetched(n) /\ orders' = orders

\* POST /tasks to the worker: accepted, or not, or accepted but unheard.
Send(t) ==
    /\ In(t, "post")
    /\ LET n == attempt[t].node
       IN  \/ /\ n \in alive /\ orders' = Accepted(orders, n, t, "start")
              /\ \/ troubles' = troubles /\ Step(t, "commit")
                 \/ Flaky /\ Step(t, "fail")
           \/ Unfetched(n) /\ orders' = orders /\ Step(t, "fail")
    /\ UNCHANGED <<choice, reservations, records, sampled, alive, running, tries, surrendered>>

\* A failed attempt gives the reservation back, its own container's included.
Fail(t) ==
    /\ In(t, "fail") /\ LockFree
    /\ table' = Freed(table, attempt[t].node, t)
    /\ surrendered' = surrendered \union {t}
    /\ Becomes(t, Rest)
    /\ UNCHANGED <<choice, holder, records, sampled, workers, bounds>>

\* The record loses the ports of a container it leaves behind.
Settle(t) ==
    /\ In(t, "commit")
    /\ LET n == attempt[t].node
           old == owner[t]
       IN  /\ owner' = [owner EXCEPT ![t] = n]
           /\ IF old = n THEN hostPorts' = hostPorts /\ Becomes(t, Rest)
              ELSE /\ hostPorts' = hostPorts \ {t}
                   /\ Becomes(t, IF old = NoNode THEN Rest ELSE [Rest EXCEPT !.pc = "leave", !.node = old])
    /\ UNCHANGED <<choice, reservations, sampled, workers, bounds, surrendered>>

\* The previous owner's ports and container.
Leave(t) ==
    /\ In(t, "leave") /\ LockFree
    /\ table' = Freed(table, attempt[t].node, t)
    /\ surrendered' = surrendered \union {t}
    /\ Halted(attempt[t].node, t)
    /\ Becomes(t, Rest)
    /\ UNCHANGED <<choice, holder, records, sampled, alive, running, tries>>

\* stopTaskTerminal, or the user's stop: the ports go, whether or not the
\* worker hears of it.
End(t) ==
    /\ In(t, "end") /\ LockFree
    /\ table' = Freed(table, owner[t], t)
    /\ surrendered' = surrendered \union {t}
    /\ Halted(owner[t], t)
    /\ Becomes(t, [Rest EXCEPT !.pc = "over"])
    /\ UNCHANGED <<choice, holder, records, sampled, alive, running, tries>>

UserStops(t) ==
    /\ In(t, "rest") /\ owner[t] # NoNode
    /\ Step(t, "end")
    /\ UNCHANGED <<choice, reservations, records, sampled, workers, bounds, surrendered>>

Attempting(t) == \/ Begin(t) \/ Keep(t) \/ Scan(t) \/ Pick(t) \/ Judge(t) \/ Probe(t)
                 \/ Send(t) \/ Fail(t) \/ Settle(t) \/ Leave(t) \/ End(t) \/ UserStops(t)

-----------------------------------------------------------------------------
(* The workers and the loops that watch them *)

\* Docker refuses a host port that is taken.
Binds(n, t) == pins[t] \intersect (Foreign[n] \union UNION {pins[u] : u \in running[n] \ {t}}) = {}

Obey(n, t) ==
    /\ orders[n][t] # <<>>
    /\ orders' = [orders EXCEPT ![n][t] = Tail(@)]
    /\ running' = [running EXCEPT ![n] = IF Head(orders[n][t]) = "start" /\ Binds(n, t)
                                          THEN @ \union {t} ELSE @ \ {t}]
    /\ UNCHANGED <<choice, reservations, records, attempt, sampled, alive, bounds, surrendered>>

Exit(n, t) ==
    /\ t \in running[n]
    /\ running' = [running EXCEPT ![n] = @ \ {t}]
    /\ UNCHANGED <<choice, reservations, records, attempt, sampled, alive, orders, bounds, surrendered>>

\* updateTasks: the owner reports the ports of the container.
Report(t) ==
    /\ owner[t] \in alive /\ t \in running[owner[t]] \ hostPorts
    /\ hostPorts' = hostPorts \union {t}
    /\ UNCHANGED <<choice, reservations, owner, attempt, sampled, workers, bounds, surrendered>>

\* RefreshNodeStats: a worker that does not answer loses its sample.
Refresh(n) ==
    /\ sampled' = IF n \in alive THEN sampled \union {n} ELSE sampled \ {n}
    /\ sampled' # sampled
    /\ UNCHANGED <<choice, reservations, records, attempt, workers, bounds, surrendered>>

Outage(n) ==
    /\ \/ n \in alive /\ Flaky /\ alive' = alive \ {n}
       \/ n \notin alive /\ troubles' = troubles /\ alive' = alive \union {n}
    /\ UNCHANGED <<choice, reservations, records, attempt, sampled, orders, running, tries, surrendered>>

\* New on the same bolt file: reconcileOnStartup claims the ports of the tasks
\* that are recorded as scheduled or running, as far as they do not conflict.
Reboot ==
    /\ Flaky
    /\ \E live \in SUBSET {t \in Task : owner[t] # NoNode /\ ~In(t, "end") /\ ~In(t, "over")} :
           /\ \A t, u \in live : t # u /\ owner[t] = owner[u] => pins[t] \intersect pins[u] = {}
           /\ table' = [n \in Node |-> [k \in Key |->
                  LET mine == {t \in live : owner[t] = n /\ k \in pins[t]}
                  IN  IF mine = {} THEN NoTask ELSE CHOOSE t \in mine : TRUE]]
    /\ surrendered' = surrendered \union
           {t \in Task : \E n \in Node : Held(table, n, t) # {} /\ Held(table', n, t) = {}}
    /\ attempt' = [t \in Task |-> IF In(t, "end") \/ In(t, "over") THEN [Rest EXCEPT !.pc = "over"] ELSE Rest]
    /\ holder' = NoTask /\ sampled' = {} /\ lastWorker' = 0
    /\ lastPick' = [able |-> <<>>, node |-> NoNode]
    /\ UNCHANGED <<scheduler, records, workers, tries>>

-----------------------------------------------------------------------------

PlacementInit ==
    /\ pins \in PinSets
    /\ scheduler \in {"epvm", "roundrobin"}
    /\ lastWorker = 0
    /\ table = [n \in Node |-> [k \in Key |-> NoTask]]
    /\ holder = NoTask
    /\ owner = [t \in Task |-> NoNode]
    /\ attempt = [t \in Task |-> Rest]
    /\ alive = Node
    /\ orders = [n \in Node |-> [t \in Task |-> <<>>]]
    /\ running = [n \in Node |-> {}]
    /\ hostPorts = {} /\ sampled = {} /\ surrendered = {}
    /\ tries = 0 /\ troubles = 0
    /\ steady = [t \in Task |-> {}]
    /\ lastPick = [able |-> <<>>, node |-> NoNode]

\* Able to take t: it can be reached, it has room, and its ports are free or
\* t's own as far as the manager knows.
Suits(n, t) ==
    LET own == n = owner[t]
        mine == IF own /\ t \in hostPorts THEN pins[t] ELSE {}
    IN  /\ n \in alive
        /\ scheduler = "epvm" => n \in sampled /\ t \in Room[n]
        /\ pins[t] \intersect Busy(n) \subseteq mine
        /\ ~Clash(n, t, own)

\* The history of an attempt starts when it takes the lock; a failed request
\* ends it.
Watch == steady' = [t \in Task |->
    IF attempt'[t].pc = "rest" \/ troubles' # troubles THEN {}
    ELSE {n \in IF In(t, "rest") THEN Node ELSE steady[t] : Suits(n, t)'}]

PlacementNext ==
    /\ \/ \E t \in Task : Attempting(t) \/ Report(t)
       \/ \E n \in Node, t \in Task : Obey(n, t) \/ Exit(n, t)
       \/ \E n \in Node : Refresh(n) \/ Outage(n)
       \/ Reboot
    /\ pins' = pins /\ Watch

PlacementSpec == PlacementInit /\ [][PlacementNext]_pvars

-----------------------------------------------------------------------------
(* Properties *)

\* A task reserves all its ports on a worker, or none.
AllOrNothing == \A n \in Node, t \in Task : Held(table, n, t) \in {{}, pins[t]}

\* A worker that a selection has found able stays so until it is chosen: no
\* reservation fails at the end of a selection.
RaceNeverLost ==
    \A t \in Task : In(t, "scan") => \A i \in DOMAIN attempt[t].able : ~Clash(attempt[t].able[i], t, TRUE)

\* No worker is told to start a task whose port another task has there,
\* unless both gave a reservation back or lost one: by an attempt that failed,
\* a stop, a move or a restart, with the container perhaps still up.
NoDoubleBooking ==
    \A n \in Node, t, u \in Task :
        t # u /\ pins[t] \intersect pins[u] # {} /\ Queued(n, t) /\ (u \in running[n] \/ Queued(n, u))
            => t \in surrendered /\ u \in surrendered

\* A task is given up only if no worker could have taken it all along.
NotGivenUpLightly == \A t \in Task : In(t, "judge") => steady[t] = {}

\* RoundRobin does not choose the same of several workers twice in a row
\* from the same list.
TakesTurns ==
    [][\A t \in Task :
           /\ scheduler = "roundrobin" /\ Len(attempt[t].able) > 1 /\ lastPick.able = attempt[t].able
           /\ In(t, "scan") /\ attempt'[t].pc \in {"post", "judge"}
           => lastPick'.node # lastPick.node]_pvars
=============================================================================
