------------------------- MODULE TasksAndWorkers -------------------------
(***************************************************************************)
(* What the parts of the manager that are modelled on their own share: the *)
(* tasks and the configured workers.                                       *)
(***************************************************************************)
EXTENDS Data

CONSTANTS
    Task,           \* task IDs
    NoTask,         \* no task: the owner of a free port
    Node,           \* worker addresses
    NoNode,         \* "" as a worker address
    WorkerNodes     \* the configured workers, in order

ASSUME TasksAndWorkersAssumption ==
    /\ NoTask \notin Task
    /\ NoNode \notin Node
    /\ WorkerNodes \in Seq(Node)
    /\ \A n \in Node : \E i \in DOMAIN WorkerNodes : WorkerNodes[i] = n
=============================================================================
