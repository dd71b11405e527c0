SPECIFICATION FairSpec
CONSTANTS
    Intents = {i1, i2}
    None = None
    MaxAttempts = 2
    ClaimBatch = 2
    MaxFaults = 2
    MayFile = FALSE
    MayTouch = FALSE
INVARIANTS
  IndInv
  AcceptedMeansDelivered
  DraftHeldUntilSent
PROPERTIES
  Settles
CHECK_DEADLOCK FALSE
