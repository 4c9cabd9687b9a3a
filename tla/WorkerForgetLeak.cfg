CONSTANTS
    t1 = t1
    t2 = t2
    f1 = f1
    f2 = f2
    a1 = a1
    a2 = a2
    NoTask = NoTask
    Runner = Runner
    Task <- OneTask
    Forgetter <- OneForgetter
    Adder <- OneAdder
    Timed <- OneTask
    Named <- NoTasks
    MaxEvents = 2
    DockerFaults = FALSE
    Overlap = TRUE
    Durable = TRUE
    MaxCrashes = 0
SPECIFICATION Spec
PROPERTY ForgetStopsContainer
CHECK_DEADLOCK FALSE
