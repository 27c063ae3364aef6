SPECIFICATION Spec
CONSTANTS
    Callers = {p1, p2}
    Plans = {k1}
    Flights = {f1, f2}
    NoFlight = NoFlight
    NoKey = NoKey
    SharedKey = SharedKey
    SharedRevs = {1, 2}
    PlanRevs = {1, 2}
    EmptyShared = {1}
    EmptyPlans = {}
    HasShared = TRUE
    TTL = 1
    MaxTime = 2
    LoadsMayFail = TRUE
    LoadsMayPanic = TRUE
    PromptLoads = FALSE
SYMMETRY Symmetry
VIEW LiveFloors
INVARIANT FailClosed
