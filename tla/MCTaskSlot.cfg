CONSTANTS
    j1 = j1
    full = full
    Jobs <- JobsMC
    Results <- ResultsMC
    Full <- FullMC
    MaxTasks = 2
    BatchCap = 1
    DetailCap = 1
    TextCap = 1
    MaxWorkers = 1
SPECIFICATION FairSpec
INVARIANTS
    TypeOK
    OwnerIsHeard
    PendingIsUndelivered
PROPERTIES
    OwnerIsServed
    ImplementsOwnership
CHECK_DEADLOCK FALSE
