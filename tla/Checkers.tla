------------------------------ MODULE Checkers ------------------------------
(***************************************************************************)
(* The manager's health checkers: the registry of checkers and the pass    *)
(* that starts and stops them (reconcileCheckers), the goroutine of each   *)
(* checker (runChecker) and the shutdown that cancels them all.            *)
(*                                                                         *)
(* A cancelled checker goes on until it looks at its context, and its task *)
(* may have a new checker by then.  Records change under the checkers'     *)
(* feet; what a restart does is the matter of Manager.tla.                 *)
(***************************************************************************)
EXTENDS TasksAndWorkers

CONSTANTS
    Checked,        \* tasks with an http or tcp check: no other task gets a checker
    Monitor,        \* checker goroutines, each used again when it is done
    NoMonitor,
    Retries         \* failures in a row that make a task unhealthy

ASSUME CheckersAssumption == Checked \subseteq Task /\ NoMonitor \notin Monitor /\ Retries \in Nat \ {0}

VARIABLES
    health,         \* records, as the checkers see them
    byTask,         \* checkerSet: the registered checker of a task
    monitor,        \* local state of the checkers
    pass,           \* local state of reconcileCheckers
    quit            \* the manager's root context is cancelled

cvars == <<health, byTask, monitor, pass, quit>>

\* The record of a checked task: running or not, or deleted; a running one
\* may have no owner.
Health == {"running", "unowned", "other", "gone"}
Managed(h) == h \in {"running", "unowned"}

\* cancelled tells of the checker's own cancel function.
MonitorState == [pc : {"free", "start", "watch", "probe", "act", "exit"}, task : Checked \union {NoTask},
                 cancelled : BOOLEAN, failures : 0 .. Retries]
Free == [pc |-> "free", task |-> NoTask, cancelled |-> FALSE, failures |-> 0]

\* Mutant of Done: the shutdown does not reach the checkers.
DoneOwn(m) == monitor[m].cancelled

\* A checker's context ends with its own cancel function or the root context.
Done(m) == monitor[m].cancelled \/ quit

\* Mutant of Unhealthy: one failure more is let pass.
UnhealthyLate(m) == monitor[m].failures + 1 > Retries

Unhealthy(m) == monitor[m].failures + 1 >= Retries

\* list is what is left of the snapshot, seen the IDs in it, new the task
\* whose checker is about to be started.
PassIdle == [pc |-> "idle", list |-> {}, seen |-> {}, new |-> NoTask]

Set(m, pc)    == monitor' = [monitor EXCEPT ![m].pc = pc]
Cancelled(mons) ==
    [m \in Monitor |-> [monitor[m] EXCEPT !.cancelled = @ \/ m \in mons]]
Registered(tasks) == {byTask[t] : t \in tasks} \ {NoMonitor}

\* checkerSet.stop and stopAllExcept: cancel and forget.
Unregister(tasks) ==
    /\ monitor' = Cancelled(Registered(tasks))
    /\ byTask' = [t \in Checked |-> IF t \in tasks THEN NoMonitor ELSE byTask[t]]

-----------------------------------------------------------------------------
(* reconcileCheckers, run by DoHealthChecks *)

\* The loop may tick once more after a shutdown has begun.
PassBegin ==
    /\ pass.pc = "idle"
    /\ LET known == {t \in Checked : health[t] # "gone"}
       IN  pass' = [pc |-> "visit", list |-> {<<t, Managed(health[t])>> : t \in known},
                    seen |-> known, new |-> NoTask]
    /\ UNCHANGED <<health, byTask, monitor, quit>>

PassVisit ==
    /\ pass.pc = "visit"
    /\ \E e \in pass.list :
           LET t == e[1]
               rest == [pass EXCEPT !.list = @ \ {e}]
           IN  \/ ~e[2] /\ Unregister({t}) /\ pass' = rest
               \/ e[2] /\ byTask[t] # NoMonitor /\ pass' = rest /\ UNCHANGED <<byTask, monitor>>
               \/ /\ e[2] /\ byTask[t] = NoMonitor
                  /\ pass' = [rest EXCEPT !.pc = "start", !.new = t]
                  /\ UNCHANGED <<byTask, monitor>>
    /\ UNCHANGED <<health, quit>>

\* startChecker, if no other has been registered since.
PassStart ==
    /\ pass.pc = "start"
    /\ LET t == pass.new
       IN  IF byTask[t] # NoMonitor THEN UNCHANGED <<byTask, monitor>>
           ELSE \E m \in Monitor :
                    /\ monitor[m].pc = "free"
                    /\ byTask' = [byTask EXCEPT ![t] = m]
                    /\ monitor' = [monitor EXCEPT ![m] = [Free EXCEPT !.pc = "start", !.task = t]]
    /\ pass' = [pass EXCEPT !.pc = "visit", !.new = NoTask]
    /\ UNCHANGED <<health, quit>>

\* Tasks deleted since the last pass.
PassEnd ==
    /\ pass.pc = "visit" /\ pass.list = {}
    /\ Unregister(Checked \ pass.seen)
    /\ pass' = PassIdle
    /\ UNCHANGED <<health, quit>>

Reconcile == PassBegin \/ PassVisit \/ PassStart \/ PassEnd

-----------------------------------------------------------------------------
(* runChecker *)

\* Without a worker there is nothing to check.  The worker is not read again.
\* A task that is not running may have one.
MonitorStart(m) ==
    /\ monitor[m].pc = "start"
    /\ \/ health[monitor[m].task] \in {"running", "other"} /\ Set(m, "watch")
       \/ health[monitor[m].task] # "running" /\ Set(m, "exit")
    /\ UNCHANGED <<health, byTask, pass, quit>>

\* A tick and a cancelled context race.
MonitorTick(m) ==
    /\ monitor[m].pc = "watch"
    /\ Set(m, IF Managed(health[monitor[m].task]) THEN "probe" ELSE "exit")
    /\ UNCHANGED <<health, byTask, pass, quit>>

MonitorCancelled(m) ==
    /\ monitor[m].pc = "watch" /\ Done(m)
    /\ Set(m, "exit")
    /\ UNCHANGED <<health, byTask, pass, quit>>

\* A probe cut off by the cancellation counts as a failure.
MonitorProbe(m) ==
    /\ monitor[m].pc = "probe"
    /\ \/ ~Done(m) /\ monitor' = [monitor EXCEPT ![m].pc = "watch", ![m].failures = 0]
       \/ monitor' = [monitor EXCEPT ![m].pc = IF Unhealthy(m) THEN "act" ELSE "watch",
                                     ![m].failures = @ + 1]
    /\ UNCHANGED <<health, byTask, pass, quit>>

\* The task is restarted or ended, whatever its record says now; in its
\* backoff nothing happens.
MonitorAct(m) ==
    /\ monitor[m].pc = "act"
    /\ LET t == monitor[m].task
       IN  \/ health' = health
           \/ health[t] # "gone" /\ health' = [health EXCEPT ![t] = "other"]
    /\ Set(m, "exit")
    /\ UNCHANGED <<byTask, pass, quit>>

\* Mutant of Forgotten: a stale handle tears down a newer registration.
ForgottenAnyway(m) == [byTask EXCEPT ![monitor[m].task] = NoMonitor]

\* Mutant of Forgotten: the exited checker stays registered.
ForgottenNever(m) == byTask

\* finished: only the checker's own registration goes.
Forgotten(m) ==
    LET t == monitor[m].task
    IN  IF byTask[t] = m THEN [byTask EXCEPT ![t] = NoMonitor] ELSE byTask

MonitorExit(m) ==
    /\ monitor[m].pc = "exit"
    /\ byTask' = Forgotten(m)
    /\ monitor' = [monitor EXCEPT ![m] = Free]
    /\ UNCHANGED <<health, pass, quit>>

Watching(m) == MonitorStart(m) \/ MonitorCancelled(m) \/ MonitorProbe(m) \/ MonitorAct(m) \/ MonitorExit(m)

-----------------------------------------------------------------------------
(* The rest of the manager *)

\* Tasks start, end, lose or gain an owner and are deleted; IDs do not return.
RecordChanges(t) ==
    /\ health[t] # "gone"
    /\ \E h \in Health \ {health[t]} : health' = [health EXCEPT ![t] = h]
    /\ UNCHANGED <<byTask, monitor, pass, quit>>

Shutdown ==
    /\ ~quit /\ quit' = TRUE
    /\ UNCHANGED <<health, byTask, monitor, pass>>

CheckersInit ==
    /\ health = [t \in Checked |-> "other"]
    /\ byTask = [t \in Checked |-> NoMonitor]
    /\ monitor = [m \in Monitor |-> Free]
    /\ pass = PassIdle
    /\ quit = FALSE

CheckersNext ==
    \/ Reconcile
    \/ \E m \in Monitor : Watching(m) \/ MonitorTick(m)
    \/ \E t \in Checked : RecordChanges(t)
    \/ Shutdown

CheckersSpec == CheckersInit /\ [][CheckersNext]_cvars

Reconciling == ~quit /\ Reconcile

\* The loop ticks until the shutdown, goroutines go on and tickers tick.
CheckersFairness ==
    /\ WF_cvars(Reconciling)
    /\ \A m \in Monitor : WF_cvars(Watching(m)) /\ WF_cvars(MonitorTick(m))

-----------------------------------------------------------------------------
(* Properties *)

CheckersTypeOK ==
    /\ health \in [Checked -> Health]
    /\ byTask \in [Checked -> Monitor \union {NoMonitor}]
    /\ monitor \in [Monitor -> MonitorState]
    /\ \A m \in Monitor : monitor[m].pc # "free" => monitor[m].task \in Checked
    /\ pass \in [pc : {"idle", "visit", "start"}, list : SUBSET (Checked \X BOOLEAN),
                 seen : SUBSET Checked, new : Checked \union {NoTask}]
    /\ pass.pc = "start" => pass.new \in Checked
    /\ quit \in BOOLEAN

Live(m, t) == monitor[m].pc # "free" /\ monitor[m].task = t /\ ~monitor[m].cancelled

\* However passes, exits and cancellations interleave, a task has at most one
\* checker that has not been told to stop, and it is the registered one.
OneMonitor ==
    \A t \in Checked, m \in Monitor : Live(m, t) <=> byTask[t] = m

\* A running task is watched again and again: no checker that has exited
\* stands in the way of the next one.
Watched ==
    \A t \in Checked : []<>(\/ health[t] # "running" \/ quit
                         \/ \E m \in Monitor : Live(m, t) /\ monitor[m].pc \in {"watch", "probe"})

\* A shutdown, like the end of its task, ends a checker.
EndsWhenTold ==
    \A m \in Monitor :
        (monitor[m].pc # "free" /\ (monitor[m].cancelled \/ quit)) ~> monitor[m].pc = "free"
=============================================================================
