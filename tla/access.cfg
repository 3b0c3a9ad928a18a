SPECIFICATION Spec
CONSTANTS
  Keys = {k1}
  Requests = {r1, r2, r3}
  CacheTTL = 2
  Tier = "free"
  TierLimit <- Limits
  IPLimit = 2
  Window <- Windows
  MaxLatency = 1
  MaxTime = 4
  MaxFaults = 1
SYMMETRY Interchangeable
INVARIANTS
  TypeOK
  RevokedKeyAgesOut
  SlidingLimit
PROPERTIES
  RefusalIsRight
  QuietIsAdmitted
CHECK_DEADLOCK FALSE
