SPECIFICATION QueueSpec
CONSTANTS
    kPlain = kPlain
    kBranch = kBranch
    kTwin = kTwin
    t1 = t1
    t2 = t2
    s1 = s1
    s2 = s2
    work = work
    NoId = NoId
    NoKey = NoKey
    NoTask = NoTask
    NoSession = NoSession
    NoIdentity = NoIdentity
    Keys <- MCKeys
    TaskIds = {t1, t2}
    Sessions = {s1, s2}
    TaskOf <- MCTaskOf
    SessionOf <- MCSessionOf
    Branched <- MCBranched
    WorkIdentity <- MCWorkIdentity
    MaxRetries <- MCMaxRetries
    Priorities = {0, 1}
    Times = {0, 1}
    MaxSeq = 3
INVARIANTS
    QueuedStatus
    HeadRanksFirst
    OneTaskPerWork
    SessionIsolation
