CONSTANTS
    plan = plan
    query = query
    other = other
    Lists = {l1, l2}
    Targets <- ListedTargets
    Foreign <- OtherTools
    HelpRevs <- SomeHelp
SPECIFICATION Spec
INVARIANTS
    EntriesAreOwn
    HelpReachesItsTool
