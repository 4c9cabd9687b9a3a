--------------------------- MODULE TaskLifecycle ---------------------------
(***************************************************************************)
(* The task state machine both programs share: package task,               *)
(* state_machine.go and the policy predicates of task.go.                  *)
(***************************************************************************)
EXTENDS Naturals

State == {"Pending", "Scheduled", "Running", "Completed", "Failed"}

\* Mutant of Successors: a running task cannot be stopped.
SuccessorsWithoutStop(s) ==
    CASE s = "Pending"   -> {"Scheduled"}
      [] s = "Running"   -> {"Running", "Scheduled", "Failed"}
      [] s = "Completed" -> {"Scheduled", "Completed"}
      [] OTHER           -> {"Scheduled", "Running", "Failed", "Completed"}

\* stateTransitionMap; Completed -> Scheduled restarts a clean exit,
\* Completed -> Completed keeps a repeated stop idempotent.
Successors(s) ==
    CASE s = "Pending"   -> {"Scheduled"}
      [] s = "Scheduled" -> {"Scheduled", "Running", "Failed"}
      [] s = "Running"   -> {"Running", "Scheduled", "Completed", "Failed"}
      [] s = "Completed" -> {"Scheduled", "Completed"}
      [] s = "Failed"    -> {"Scheduled", "Completed"}
      [] OTHER           -> {}

ValidStateTransition(from, to) == to \in Successors(from)

\* The restart policies; the empty policy behaves like on-failure.
Policy == {"no", "on-failure", "always", "unless-stopped"}

ShouldRestart(policy) == policy \in {"on-failure", "always", "unless-stopped"}

ShouldRestartOnSuccess(policy) == policy \in {"always", "unless-stopped"}

\* A task's own MaxRestarts overrides the cluster default when positive.
EffectiveMaxRestarts(own, cluster) == IF own > 0 THEN own ELSE cluster

AtRestartCap(count, own, cluster) == count >= EffectiveMaxRestarts(own, cluster)

\* Failed with a finish time is the manager's terminal stamp.
IsTerminal(state, finished) == state = "Failed" /\ finished
=============================================================================
