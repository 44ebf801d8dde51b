SPECIFICATION StoreSpec
CONSTANTS
    t1 = t1
    t2 = t2
    t3 = t3
    p1 = p1
    p2 = p2
    Procs = {p1, p2}
    Threads = {t1, t2, t3}
    ProcOf <- Owners
    Contents <- Stored
    Empty <- NoTasks
    Ops <- Changes
    Apply <- Changed
    Nobody = Nobody
    MaxDepth = 2
    Ids = {a, b, c}
    Clients = {c1}
    NoTask = NoTask
    NoCopy = NoCopy
    MaxDeps = 2
SYMMETRY IdSymmetry
INVARIANTS
    MutualExclusion
    NoLeak
    Acyclic
    DependenciesKnown
    DetectsExactly
PROPERTIES
    TransactionsAtomic
    QueuedJustified
