SPECIFICATION FairSpec
CONSTANTS
    k1 = k1
    k2 = k2
    t1 = t1
    t2 = t2
    a = a
    b = b
    NoId = NoId
    NoKey = NoKey
    NoTask = NoTask
    NoSession = NoSession
    NoIdentity = NoIdentity
    Keys = {k1, k2}
    TaskIds = {t1, t2}
    Sessions = {}
    TaskOf <- MCTaskOf
    SessionOf <- MCSessionOf
    Branched = {}
    WorkIdentity <- MCWorkIdentity
    MaxRetries <- MCMaxRetries
    Priorities = {0}
    Times = {0}
    MaxSeq = 2
    MaxWorkers = 1
    Threads = {a, b}
    Dispatchers = {a, b}
    RetryOnFail = TRUE
    MaxRequests = 3
PROPERTIES
    PoppedSettles
    RoundsEnd
