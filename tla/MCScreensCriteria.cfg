CONSTANTS
    hosted = hosted
    local = local
    a = a
    b = b
    Hosted <- HostedMC
    Local <- LocalMC
    Default = hosted
    Switches <- SwitchesMC
    FieldCount = 2
    Typed <- TypedMC
    OwnModels = 2
    FetchedModels = 1
    MaxResumes = 1
    Jobs <- JobsMC
    Previewed = {a}
    Statuses <- StatusesMC
    SortKeys <- SortKeysMC
    Ranks <- RanksMC
    Searches <- SearchesMC
    MaxScore = 2
    Parts <- WizardPartsMC
    MaxLookups = 1
    NameMatches <- NameMatchesMC
    Arguments <- ArgumentsMC
    MaxWords = 4
    CallWords <- CallWordsMC
SPECIFICATION FairSpec
PROPERTIES
    SavedCriteriaStay
