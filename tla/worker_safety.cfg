SPECIFICATION Spec
CONSTANTS
  m1 = m1
  m2 = m2
  m3 = m3
  Msgs = {m1, m2}
  Undecodable = {}
  Consumers = {c1, c2}
  AsyncFlushers = {a1, a2}
  Size <- Sizes
  BatchSize = 2
  MaxMemBytes = 3
  FetchSize = 1
  MaxDeliver = 2
  MaxAckPending = 2
  MaxInsertFailures = 1
  MaxStops = 1
  MaxExpired = 1

SYMMETRY Interchangeable
INVARIANTS TypeOK AcksMatchEvents MemBytesExact RowsExplained NoEventLost
PROPERTIES DeliverySpec
