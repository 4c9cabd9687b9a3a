---------------------------- MODULE TaskService ----------------------------
(***************************************************************************)
(* What the manager promises a user about a task, whatever goroutines,     *)
(* queues, ports and workers it takes: a submitted task is placed or ended *)
(* and does not wait for ever; an ended task may be restarted until the    *)
(* user stops it, and is not placed again after that.                      *)
(***************************************************************************)
CONSTANT Task

VARIABLES
    phase,  \* where each task is in its life
    final   \* tasks the user stopped or deleted

service == <<phase, final>>

Phase == {"new", "waiting", "placed", "ended", "gone"}

TypeOK == phase \in [Task -> Phase] /\ final \subseteq Task

Init == phase = [t \in Task |-> "new"] /\ final = {}

Move(t, from, to) == phase[t] \in from /\ phase' = [phase EXCEPT ![t] = to]

Submit(t)  == Move(t, {"new"}, "waiting") /\ final' = final

\* A waiting task is placed, or given up where no worker can take it.
Place(t)   == Move(t, {"waiting"}, "placed") /\ final' = final
GiveUp(t)  == Move(t, {"waiting"}, "ended") /\ final' = final

End(t)     == Move(t, {"placed"}, "ended") /\ final' = final
Restart(t) == t \notin final /\ Move(t, {"ended"}, "placed") /\ final' = final

\* A user's DELETE: of a task that lives, or of one that is over.
Stop(t)    == phase[t] \in {"placed", "ended"} /\ phase' = phase /\ final' = final \union {t}
Delete(t)  == Move(t, {"waiting", "placed", "ended"}, "gone") /\ final' = final \union {t}

\* A deleted task's record may come back, as that of an ended task.
Revive(t)  == Move(t, {"gone"}, "ended") /\ final' = final

Next == \E t \in Task : \/ Submit(t) \/ Place(t) \/ GiveUp(t) \/ End(t) \/ Restart(t)
                        \/ Stop(t) \/ Delete(t) \/ Revive(t)

\* No task waits for ever.
Progress ==
    \A t \in Task : phase[t] = "waiting" ~> phase[t] # "waiting"

Spec == Init /\ [][Next]_service /\ Progress
=============================================================================
