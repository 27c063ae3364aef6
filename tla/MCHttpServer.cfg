SPECIFICATION FairSpec
CONSTANTS
    Requests = {r1, r2, r3}
    HasTimeout = TRUE
INVARIANTS NilMeansDrained
PROPERTIES StreamsLast CancelEnds NothingLeaks RESTAnswered
CHECK_DEADLOCK FALSE
