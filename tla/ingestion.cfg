SPECIFICATION FairSpec
CONSTANTS
  plain = plain
  texts = texts
  unknown = unknown
  Events = {plain, texts, unknown}
  Request <- Requests
  QueueCap = 2
  MaxSdkBatch = 3
  maxBatchSize = 2
  MaxRetries = 1
  MaxFaults = 1
  MaxWindows = 1
INVARIANTS
  TypeOK
  HeldInOnePlace
  AcceptedIsStored
  DuplicatesNeedAWindow
  
PROPERTIES
  ShutdownCompletes
  QueuedIsSettled
CHECK_DEADLOCK FALSE
