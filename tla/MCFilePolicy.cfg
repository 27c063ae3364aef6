CONSTANTS
    Libs <- Libraries
    PlanReleases <- ThreePlanReleases
    SharedReleases <- TwoSharedReleases
    StructData = FALSE
    MaxLoads = 2
SPECIFICATION Spec
INVARIANTS
    EachFileWasThere
    NeverUnpoliced
