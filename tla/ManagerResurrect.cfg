CONSTANTS
    t1 = t1
    n1 = n1
    n2 = n2
    s1 = s1
    NoTask = NoTask
    NoNode = NoNode
    Dispatcher = Dispatcher
    Loop = Loop
    Task <- OneTask
    Node <- OneNode
    Stopper <- OneStopper
    Checked <- NoTasks
    Pinned <- NoTasks
    PolicyOf <- OnFailure
    OwnCap <- NoOwnCap
    MaxRestarts = 1
    Hasty = FALSE
    Fault <- NoFaults
    MaxFaults = 0
    MaxCrashes = 0
    MaxDown = 0
    MaxStops = 1
    MaxQueue = 2
SPECIFICATION Spec
PROPERTY NotResurrected
CHECK_DEADLOCK FALSE
