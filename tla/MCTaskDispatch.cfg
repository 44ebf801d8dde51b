SPECIFICATION Spec
CONSTANTS
    k1 = k1
    k2 = k2
    t1 = t1
    t2 = t2
    a = a
    b = b
    NoId = NoId
    NoKey = NoKey
    NoTask = NoTask
    NoSession = NoSession
    NoIdentity = NoIdentity
    Keys = {k1, k2}
    TaskIds = {t1, t2}
    Sessions = {}
    TaskOf <- MCTaskOf
    SessionOf <- MCSessionOf
    Branched = {}
    WorkIdentity <- MCWorkIdentity
    MaxRetries <- MCMaxRetries
    Priorities = {0, 1}
    Times = {0}
    MaxSeq = 3
    MaxWorkers = 2
    Threads = {a, b}
    Dispatchers = {a, b}
    RetryOnFail = FALSE
    MaxRequests = 3
SYMMETRY ThreadSymmetry
INVARIANTS
    TypeOK
    SlotAccounted
PROPERTIES
    PoolImplementsTable
