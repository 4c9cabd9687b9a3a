CONSTANTS
    t1 = t1
    n1 = n1
    n2 = n2
    s1 = s1
    NoTask = NoTask
    NoNode = NoNode
    Dispatcher = Dispatcher
    Loop = Loop
    Task <- OneTask
    Node <- TwoNodes
    Stopper <- OneStopper
    Checked <- NoTasks
    Pinned <- OneTask
    PolicyOf <- OnFailure
    OwnCap <- NoOwnCap
    MaxRestarts = 1
    Hasty = FALSE
    Fault <- HeardFaults
    MaxFaults = 2
    MaxCrashes = 0
    MaxDown = 0
    MaxStops = 2
    MaxQueue = 2
SPECIFICATION Spec
INVARIANT NoPortLeak
SYMMETRY NodeSymmetry
PROPERTIES FollowsService StopsFinal
CHECK_DEADLOCK FALSE
