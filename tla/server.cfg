SPECIFICATION MCSpec
CONSTANTS
  Browsers = {c1, c2}
  Passwords = {p1, p2}
  CacheTTL = 1
  MaxCached = 1
  LockoutBase = 1
  LockoutMax = 5
  Budget = 1
  Window = 2
  SessionTTL = 2
  SessionMax = 3
  RenewGrace = 1
  TokenTTL = 1
  MaxTokens = 2
  Burst = 2
  PerWindow = 2
  RateWindow = 3
  Requests = 4
  LastSecond = 2
  Clients = {c1, c2}
  MaxConcurrentRequests = 1
  Optional <- MCOptional
  MaxBoots = 2
  MaxRowWrites = 1
  MaxWrites = 2
  maxFilenameLength = 3
  MaxName = 4
  Procs = {c1, c2}
  Users = {ana, eva}
  Kinds = {"logo", "icon"}
  Names <- MCNames
  ShortRunes = 2
  NameRunes = 3
  brandingCacheTTL = 1
  MaxNow = 1
  MaxJobs = 2
  MaxRestarts = 1
SYMMETRY ServerSymmetry
INVARIANTS
  AccessSafe
  HttpSafe
  BrandSafe
PROPERTIES
  ServerSteps
CHECK_DEADLOCK FALSE
