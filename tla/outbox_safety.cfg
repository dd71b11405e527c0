SPECIFICATION Spec
CONSTANTS
    Intents = {i1, i2}
    None = None
    MaxAttempts = 2
    ClaimBatch = 2
    MaxFaults = 1
    MayFile = TRUE
    MayTouch = TRUE
SYMMETRY Symmetry
INVARIANTS
  IndInv
PROPERTIES
  KeepsPromise
  NoSendAfterRecord
CHECK_DEADLOCK FALSE
