SPECIFICATION Spec
CONSTANTS
  Events = {1, 2, 3}
  Attr <- Rows
  Questions <- AllQuestions
  Requests = {r1, r2}
  Hour = 2
  Day = 4
  Week = 8
  Period <- Lengths
  Compared <- Adjacent
  Top = 1
  Limit = 2
  CacheTTL <- Lives
  MaxLatency = 1
  MaxRows = 2
  MaxTime = 3
  MaxAsked = 2
  MaxFaults = 1
CONSTRAINT Apart
SYMMETRY Interchangeable
INVARIANTS
  TypeOK
  SeriesPartition
  
  
  
CHECK_DEADLOCK FALSE
