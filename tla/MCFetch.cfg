CONSTANTS
    Listings <- ListingsMC
    KeyOf <- KeyOfMC
    Criteria <- CriteriaMC
    Fits <- FitsMC
    Description <- DescriptionMC
    Tasks <- TasksMC
    SiteOf <- SiteOfMC
    HostOf <- HostOfMC
    KindOf <- KindOfMC
    Posted <- PostedMC
    Profiles <- ProfilesMC
    ProfileOf <- ProfileOfMC
    Caption <- CaptionMC
    Elsewhere <- ElsewhereMC
    Feeds <- FeedsMC
    Plans <- PlansMC
    SavedAtFirst <- SavedAtFirstMC
    CandidateLimit = 2
    SiteConcurrency = 2
    BrowserSlots = 1
    AcceptedLimit = 2
    Details <- DetailsMC
    MaxBatch = 2
    MaxPrompt = 3
CHECK_DEADLOCK FALSE
SPECIFICATION FairSpec
INVARIANTS
    TypeOK
    LimitHeld
    BlockedIsLeftAlone
    BrowserIsClosed
    RejectionsAreDeserved
    OffersAreNew
    NothingUnexplained
PROPERTIES
    ProfilesStop
    FetchAnswers
