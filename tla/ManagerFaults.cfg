CONSTANTS
    t1 = t1
    n1 = n1
    n2 = n2
    s1 = s1
    NoTask = NoTask
    NoNode = NoNode
    Dispatcher = Dispatcher
    Loop = Loop
    Task <- OneTask
    Node <- OneNode
    Stopper <- OneStopper
    Checked <- OneTask
    Pinned <- NoTasks
    PolicyOf <- Always
    OwnCap <- NoOwnCap
    MaxRestarts = 1
    Hasty = TRUE
    Fault <- LossFaults
    MaxFaults = 1
    MaxCrashes = 1
    MaxDown = 1
    MaxStops = 0
    MaxQueue = 2
SPECIFICATION Spec
INVARIANT TypeOK
INVARIANT PendingHasEvent
INVARIANT CountBounded
PROPERTY FollowsService
CHECK_DEADLOCK FALSE
