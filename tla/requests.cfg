SPECIFICATION MCSpec
CONSTANTS
  MaxMail = 5
  MaxSearchLimit = 2
  CollapseWindow = 3
  RankCandidateWindow = 2
  MaxQueryReach = 7
  maxCollapsePasses = 4
  MaxArrivals = 2
  MaxObjectsInGet = 3
  maxScheduledPerAccount = 1
  MaxCreators = 2
  MaxSubmissions = 4
  MaxDepth = 3
  MaxParts = 7
  MaxRFC822Depth = 1
  MaxPartSize = 2
  MaxUnterminatedDepth = 1
  MaxTotalSize = 4
  maxTNEFAttributes = 4
  maxTNEFAttachments = 2
  maxCreateStructureDepth = 1
  maxCreateStructureParts = 2
  maxAttachmentsBytes = 3
  lineLimit = 8
  Raws <- MCRaws
  Objects <- MCObjects
  PartLists <- MCPartLists
  Headers <- MCHeaders
  MaxCallsInRequest = 3
  MaxEscaped = 4
  Supported <- MCSupported
  Uses <- MCUses
  Calls <- MCCalls
  Documents <- MCDocuments
  Pointers <- MCPointers
  MaxRaw = 5
  MaxPath = 5
  MaxEntries = 3
INVARIANTS
  QueriesSafe
  FormatSafe
  EngineSafe
  GateSafe
PROPERTIES
  AnsweredInTurn
CHECK_DEADLOCK FALSE
