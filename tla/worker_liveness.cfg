SPECIFICATION FairSpec
CONSTANTS
  m1 = m1
  m2 = m2
  m3 = m3
  Msgs = {m1, m2}
  Undecodable = {m2}
  Consumers = {c1}
  AsyncFlushers = {a1}
  Size <- Sizes
  BatchSize = 3
  MaxMemBytes = 9
  FetchSize = 2
  MaxDeliver = 2
  MaxAckPending = 2
  MaxInsertFailures = 1
  MaxStops = 2
  MaxExpired = 0
PROPERTIES EventuallyStored EventuallyStoredOrSpent ShutdownCompletes
