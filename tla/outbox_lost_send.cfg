SPECIFICATION Spec
CONSTANTS
    Intents = {i1}
    None = None
    MaxAttempts = 2
    ClaimBatch = 1
    MaxFaults = 0
    MayFile = TRUE
    MayTouch = FALSE
INVARIANTS
    AcceptedMeansDelivered
CHECK_DEADLOCK FALSE
