CONSTANTS
    t1 = t1
    t2 = t2
    f1 = f1
    f2 = f2
    a1 = a1
    a2 = a2
    NoTask = NoTask
    Runner = Runner
    Task <- OneTask
    Forgetter <- OneForgetter
    Adder <- OneAdder
    Timed <- OneTask
    Named <- NoTasks
    MaxEvents = 3
    DockerFaults = FALSE
    Overlap = FALSE
    Durable = TRUE
    MaxCrashes = 1
SPECIFICATION FairSpec
INVARIANT ScheduledIffStarting
 
PROPERTY StopTakesEffect
PROPERTY GoneContainerNoticed
CHECK_DEADLOCK FALSE
