SPECIFICATION FairSpec
CONSTANTS
    MaxUid = 2
    Initial = 1
    RecentFrom = 2
    FetchWindow = 1
    Poison = {1}
    Starts = {"empty", "synced"}
    MayWrite = TRUE
    MaxValidity = 2
    MaxChanges = 2
    MaxFaults = 1
INVARIANTS
    OneIncarnation
PROPERTIES
    RebuildOnlyIfRecreated
    Converges
CHECK_DEADLOCK FALSE
