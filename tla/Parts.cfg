CONSTANTS
    t1 = t1  t2 = t2  n1 = n1  n2 = n2  m1 = m1  m2 = m2
    h1 = h1  h2 = h2  q1 = q1  q2 = q2  name1 = name1
    NoTask = NoTask  NoNode = NoNode  NoMonitor = NoMonitor  NoName = NoName  NoHash = NoHash
    NoFile = NoFile  Absent = Absent  Bad = Bad  Sender = Sender  Looper = Looper
    Task <- MCTask  Node <- MCNode  WorkerNodes <- MCWorkerNodes
    Key <- MCKey  PinSets <- MCPinSets  Foreign <- MCForeign  Room <- MCRoom
    MaxTries <- MCMaxTries  MaxTroubles = 1
    Checked <- MCChecked  Monitor <- MCMonitor  Retries = 2
    Name <- MCName  Hash <- MCHash  TokenFiles <- MCTokenFiles  Payload <- MCPayload  Request <- MCRequest
    MaxArrivals = 3  MaxLapses = 1
    Files <- MCFiles  Lines <- MCLines  Defaults <- MCDefaults
    Width = 8  Second = 20  MaxCount = 10
SPECIFICATION PartsSpec
INVARIANTS
    AllOrNothing RaceNeverLost NoDoubleBooking NotGivenUpLightly
    CheckersTypeOK OneMonitor
    AdminByEveryEntry StoredSound NamesUnique PendingHasStart 
    RunsAsConfigured RefusedForCause BackoffExact TickersPositive
PROPERTIES
    TakesTurns Watched EndsWhenTold
CHECK_DEADLOCK FALSE
