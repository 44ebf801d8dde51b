SPECIFICATION Spec
CONSTANTS
    replaced = replaced
    created = created
    deleted = deleted
    file = file
    sub = sub
    elsewhere = elsewhere
    old = old
    new = new
    Missing = Missing
    Dir = Dir
    FullDir = FullDir
    NotCopied = NotCopied
    Nobody = Nobody
    Gone = Gone
    Procs = {p1, p2}
    Paths = {replaced, created, deleted, file, sub, elsewhere}
    Watched = {replaced, created, deleted, file, sub}
    Files <- MCFiles
    Expected <- MCExpected
    Contents = {old, new}
    TestsTouch = {created, file, sub, elsewhere}
    InitDisks <- MCInitDisks
SYMMETRY InvocationSymmetry
INVARIANTS
    TypeOK
    RolledBackExact
    CommittedExact
    Recoverable
PROPERTY ClaimedOnce
