SPECIFICATION ProgressSpec
CONSTANTS
    p1 = p1
    m1 = m1
    m2 = m2
    Ids = {a, b}
    Clients = {c1, c2}
    NoTask = NoTask
    NoCopy = NoCopy
    MaxDeps = 1
    None = None
    Schedulers = {p1}
    Operators = {}
    Requests <- NoRequests
    Missions = {m1, m2}
    Priority <- Urgency
    Initial <- Queue
    LeaseTicks = 2
    MaxCrashes = 2
    DaemonRequests = {}
    DaemonOutcomes = {"running", "idle", "paused", "blocked", "failed", "stopped"}
    MaxAttempts = 2
    MaxLoops = 2
    MaxFaults = 3
    Workers = {}
    Fits <- Fitting
    Seconds = {}
    Fresh = 0
    Reports = {}
    MaxTime = 0
    MaxLeases = 0
    Writers = {w1}
    Keys = {k1, k2}
    NoKey = NoKey
    Torn = Torn
    Empty = Empty
    MaxCalls = 5
INVARIANT Durable
PROPERTIES
    Unblocked
    EndsOnce
    Recorded
    IterationEnds
CHECK_DEADLOCK FALSE
