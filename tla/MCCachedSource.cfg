SPECIFICATION SourceSpec
CONSTANTS
    Callers = {p1, p2, p3}
    Keys = {k1}
    Val = {1, 2}
    Zero = 0
    Flights = {f1, f2, f3}
    NoFlight = NoFlight
    NoKey = NoKey
    TTL = 1
    LoadsMayPanic = FALSE
    MaxFlight = 1
    MaxTime = 2
SYMMETRY Symmetry
PROPERTIES EntriesAdvance KeepsPromise
