CONSTANTS
    u1 = u1
    c1 = c1
    c2 = c2
    c3 = c3
    b1 = b1
    Urls <- UrlsMC
    Calls <- CallsMC
    Batches <- BatchesMC
    MaxRegistries = 2
SPECIFICATION Spec
INVARIANTS
    CheckSeesTheSite
CHECK_DEADLOCK FALSE
