SPECIFICATION SessionsSpec
CONSTANTS
    Clients = {c1, c2}
    Inputs <- InputIds
    TypeOf <- InputTypes
    Transactions = {"first", "other"}
    TransactionOf <- InputTransactions
    Calls = {x1, x2}
    Nobody = Nobody
    Gone = Gone
    NoInput = NoInput
    NoCall = NoCall
    Torn = Torn
    Empty = Empty
    NoFile = NoFile
    Owners = {o1, o2}
    Ttls = {1, 2}
    ZombieAfter = 2
    NoLease = NoLease
    NoSession = NoSession
    MaxTick = 3
    MaxGeneration = 2
SYMMETRY SessionSymmetry
INVARIANTS
    ApprovalChain
    OutcomeReal
    OneActiveLease
    OwnerRecorded
