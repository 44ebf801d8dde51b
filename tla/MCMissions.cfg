SPECIFICATION MissionsSpec
CONSTANTS
    o1 = o1
    o2 = o2
    m1 = m1
    None = None
    Schedulers = {p1}
    Operators = {o1, o2}
    Requests <- Asked
    Missions = {m1}
    Priority <- Urgency
    Initial <- Unqueued
    LeaseTicks = 1
    MaxCrashes = 1
    DaemonRequests = {"pause", "resume", "stop"}
    DaemonOutcomes = {"running", "failed"}
    MaxAttempts = 1
    MaxLoops = 2
    MaxFaults = 2
    Workers = {w1, w2}
    Fits <- Fitting
    Seconds = {2}
    Fresh = 1
    Reports = {"leased", "failed"}
    MaxTime = 2
    MaxLeases = 2
    Writers = {v1, v2}
    Keys = {k1}
    NoKey = NoKey
    Torn = Torn
    Empty = Empty
    MaxCalls = 4
INVARIANTS
    OneLease
    Announced
    CompletedIsDone
    CompletedFully
    KeyOnce
PROPERTIES
    GivenToLive
    SchedulerOnce
