SPECIFICATION FairSpec
CONSTANTS
    Callers = {p1, p2, p3}
    Keys = {k1}
    Val = {v1, v2}
    Zero = Zero
    Flights = {f1, f2, f3}
    NoFlight = NoFlight
    NoKey = NoKey
    TTL = 2
    LoadsMayPanic = TRUE
    MaxTime = 2
INVARIANTS SingleFlight FlightOwnership WaitersServed WaitersAgree StaleOnError
PROPERTIES GetReturns
