CONSTANTS
    k1 = k1
    k2 = k2
    Keys <- KeysMC
    Statuses <- StatusesMC
    Edited <- EditedMC
    MaxTasks = 2
    Scopes <- ScopesMC
SYMMETRY Symmetry
SPECIFICATION Spec
INVARIANTS
    TypeOK
    UniqueRows
PROPERTIES
    NoJobVanishes
    FinishedTaskKeepsStatus
    FinishedTaskIsSaved
CHECK_DEADLOCK FALSE
