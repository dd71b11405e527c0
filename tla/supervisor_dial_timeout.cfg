SPECIFICATION SupSpec
CONSTANTS
    Accts = {a1, a2}
    Concurrency = 1
    BreakerThreshold = 2
    MaxOutages = 1
    MaxRestarts = 0
    MaxErrors = 3
PROPERTY EveryAccountWatched
CHECK_DEADLOCK FALSE
