CONSTANTS
    u1 = u1
    c1 = c1
    c2 = c2
    c3 = c3
    b1 = b1
    Urls <- UrlsMC
    Calls <- CallsMC
    Batches <- BatchesMC
    MaxRegistries = 2
    None = None
    Slots = 2
    Worlds <- WorldsMC
SPECIFICATION EnrichSpec
INVARIANTS
    TypeOK
    SingleFlight
    CancelledIsForgotten
    AnswerIsOfThisRegistry
    TrustIsEarned
    BatchIsShared
    SentIsFinal
PROPERTIES
    EveryRequestEnds
CHECK_DEADLOCK FALSE
