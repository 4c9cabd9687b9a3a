CONSTANTS
    t1 = t1
    t2 = t2
    f1 = f1
    f2 = f2
    a1 = a1
    a2 = a2
    NoTask = NoTask
    Runner = Runner
    Task <- TwoTasks
    Forgetter <- OneForgetter
    Adder <- OneAdder
    Timed <- TwoTasks
    Named <- TwoTasks
    MaxEvents = 2
    DockerFaults = TRUE
    Overlap = TRUE
    Durable = TRUE
    MaxCrashes = 1
SPECIFICATION Spec
INVARIANT TypeOK
INVARIANT OwnContainers
CHECK_DEADLOCK FALSE
SYMMETRY TaskSymmetry
