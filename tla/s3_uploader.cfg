SPECIFICATION FairSpec
CONSTANTS
  e1 = e1
  e2 = e2
  none = none
  Events = {e1, e2}
  NoEvent = none
  QueueCap = 1
  Limit = 1
  MaxDeliver = 1
  MaxFailures = 1
  MaxStops = 1
CHECK_DEADLOCK FALSE
INVARIANTS
  TypeOK
  UploadedMeansObject
PROPERTY EventuallyUploaded
