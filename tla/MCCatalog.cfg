SPECIFICATION Spec
CONSTANTS
    Plans <- MCPlans
    NoPlan = NoPlan
    Versions <- MCVersions
    NoVersion = NoVersion
    Rank <- MCRank
    Names <- MCNames
    NoName = NoName
    QueryName <- MCQueryName
    NameTemplates <- MCTemplates
    Workflows <- MCWorkflows
    Documents <- MCDocuments
    MaxDocuments = 3
    HasMatcher = TRUE
INVARIANTS ServesWhatItLoaded LatestIsNewest SurfacesReachEntries
CHECK_DEADLOCK FALSE
