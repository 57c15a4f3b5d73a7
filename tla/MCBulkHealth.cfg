CONSTANTS
    j1 = j1
    j2 = j2
    j3 = j3
    l1 = l1
    l2 = l2
    None = None
    Jobs <- JobsMC
    Nameless <- NamelessMC
    Companies <- CompaniesMC
    Concurrency = 2
    MaxRuns = 2
    Watched <- WatchedMC
    Worlds <- WorldsMC
    ThisYear = 2026
    CleanTitles = 1
    BrowserSlots = 1
    LLMSlots = 1
    StoryLimit = 2
    MaxAge = 3
    Credentials <- CredentialsMC
    Accesses <- AccessesMC
SPECIFICATION RefreshSpec
INVARIANTS
    TypeOK
    LookupsAreBounded
    BrowserIsReleased
    ReportsAreSound
    FactsAreTheBest
    CredentialsAreOnesOwn
PROPERTIES
    OnlySharedAreLeft
    RefreshEnds
CHECK_DEADLOCK FALSE
