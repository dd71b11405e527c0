SPECIFICATION MCSpec
CONSTANTS
  Msgs = {"m1"}
  Copies <- MCCopies
  Owner <- MCOwner
  Handlers = {"h1", "h2"}
  To <- MCTo
  Cc <- MCCc
  Own = {"me"}
  MaxWakeAttempts = 2
  MaxOps = 2
  MaxFaults = 2
  Kinds = {"Email", "Mailbox", "Thread", "EmailSubmission", "Identity", "Snooze", "Mute", "SieveScript"}
  Ids <- MCIds
  Batched = {"Email"}
  Writers = {w1, w2}
  Streams = {s1}
  MaxTx = 2
  MaxChanges = 1
  MaxSSE = 1
  MaxFeedFaults <- MCMaxFeedFaults
INVARIANTS
  SnoozeSafe
  FeedSafe
PROPERTIES
  SnoozesEnd
  ClientCatchesUp
CHECK_DEADLOCK FALSE
