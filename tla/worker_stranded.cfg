SPECIFICATION Spec
CONSTANTS
  m1 = m1
  m2 = m2
  m3 = m3
  Msgs = {m1}
  Undecodable = {}
  Consumers = {c1}
  AsyncFlushers = {a1}
  Size <- Sizes
  BatchSize = 2
  MaxMemBytes = 9
  FetchSize = 1
  MaxDeliver = 2
  MaxAckPending = 1
  MaxInsertFailures = 1
  MaxStops = 1
  MaxExpired = 0
INVARIANTS NoMessageStranded
