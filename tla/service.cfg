SPECIFICATION MCSpec
CONSTANTS
  Callers = {c1, c2}
  MaxCalls <- MCMaxCalls
  MaxFaults = 2
  MaxExports = 2
  Accts = {a1, a2}
  Concurrency = 1
  BreakerThreshold = 2
  MaxOutages = 3
  MaxRestarts = 1
  MaxErrors = 3
INVARIANTS
  AccountsSafe
  SupervisorSafe
  DaemonSafe
PROPERTIES
  ServiceSteps
  ServiceEnds
  WatchedInTheEnd
CHECK_DEADLOCK FALSE
