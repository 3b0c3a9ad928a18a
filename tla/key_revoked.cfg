SPECIFICATION Spec
CONSTANTS
  Keys = {k1}
  Requests = {r1}
  CacheTTL = 2
  Tier = "free"
  TierLimit <- Limits
  IPLimit = 2
  Window <- Windows
  MaxLatency = 1
  MaxTime = 1
  MaxFaults = 0
PROPERTIES RevokeInvalidates
CHECK_DEADLOCK FALSE
