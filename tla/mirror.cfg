SPECIFICATION MCSpec
CONSTANTS
  MaxUid = 3
  Initial = 2
  RecentFrom = 2
  FetchWindow = 1
  Poison = {1}
  Starts = {"empty", "synced"}
  MayWrite = FALSE
  MaxValidity = 1
  MaxChanges = 2
  MaxFaults = 1
  Blobs = {b1, b2}
  Accounts = {a1}
  Writers = {w1, w2}
  MaxIds = 1
  MaxAge = 1
  MayFail = TRUE
  MayDrop = TRUE
SYMMETRY MirrorSymmetry
INVARIANTS
  SyncSafe
  BlobInv
PROPERTIES
  CursorMonotone
