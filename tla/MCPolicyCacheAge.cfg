SPECIFICATION Spec
CONSTANTS
    Callers = {p1, p2}
    Plans = {k1}
    Flights = {f1, f2}
    NoFlight = NoFlight
    NoKey = NoKey
    SharedKey = SharedKey
    SharedRevs = {1, 2}
    PlanRevs = {1}
    EmptyShared = {}
    EmptyPlans = {}
    HasShared = TRUE
    TTL = 2
    MaxTime = 3
    LoadsMayFail = FALSE
    LoadsMayPanic = TRUE
    PromptLoads = TRUE
SYMMETRY Symmetry
VIEW LiveAges
INVARIANTS BoundedPolicyAge NoCircularWait
