CONSTANTS
    k1 = k1
    k2 = k2
    Keys <- KeysMC
    Statuses <- StatusesMC
    Edited <- EditedMC
    MaxTasks = 2
    Scopes <- WideMC
SYMMETRY Symmetry
SPECIFICATION Spec
PROPERTIES
    EnrichedJobKeepsStatus
CHECK_DEADLOCK FALSE
