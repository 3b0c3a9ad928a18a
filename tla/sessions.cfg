SPECIFICATION Spec
CONSTANTS
  ana = ana
  Browsers = {b1, b2}
  Owner <- Owners
  Requests = {r1, r2}
  AccessTTL = 1
  RefreshTTL = 2
  MaxTokens = 3
  MaxTime = 3
  MaxFaults = 1
SYMMETRY Interchangeable
INVARIANTS
  TypeOK
  ReuseEndsSessions
  RotationAccounted
  SignedInUnlessDisturbed
CHECK_DEADLOCK FALSE
