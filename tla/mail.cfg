SPECIFICATION MCSpec
CONSTANTS
  Msgs = {1, 2}
  Fresh = {2}
  Handlers = {h1, h2}
  Ids = {1, 2, 3, 4}
  Keywords = {"k1", "k2"}
  Hidden = {"deleted"}
  KeywordCeiling = 1
  FirstModSeqs = {0, 1}
  MaxWrites <- MCMaxWrites
  MaxEvents = 1
  MaxHappenings = 2
  AskedPatches <- MCPatches
  Leaves = {"a", "b"}
  Letters = {1, 2}
  Editors = {e1, e2}
  BoxIds = {1, 2, 3, 4, 5, 6, 7}
  MaxDepth = 3
  DefaultSearchWindow = 1
  maxEmptyMailboxPasses = 3
  MaxRequests = 2
  MaxOthers = 1
  Contents <- MCContents
  Workers = {w1, w2}
  MaxMail = 3
  MaxBatch = 2
  MaxIncidents = 1
  threadMergeMaxMembers = 1
  MaxSubject = 4
  Watched = {b1, b2}
  QuietTime = 2
  MaxWait = 4
  Heartbeat = 4
  MaxClock = 9
SYMMETRY MailSymmetry
INVARIANTS
  WritesSafe
  FoldersSafe
  ThreadsSafe
  DispatchSafe
PROPERTIES
  MailSteps
CHECK_DEADLOCK FALSE
