CONSTANTS
    r1 = r1
    r2 = r2
    c1 = c1
    c2 = c2
    Runs <- PurchaseRuns
    Corrs <- CorrelationIds
    CorrChoices <- OwnOrShared
    Wait = 2
    RestartMillis = 2
    MaxRestarts = 1
SPECIFICATION Spec
INVARIANTS
    ConfirmsOwnOrder
    NotReadyMeansRestart
    OrderIdsUnique
    GivesUpAtDeadline
PROPERTY
    EveryPurchaseEnds
