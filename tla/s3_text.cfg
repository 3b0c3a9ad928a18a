SPECIFICATION Spec
CONSTANTS
  e1 = e1
  e2 = e2
  none = none
  Events = {e1, e2}
  NoEvent = none
  QueueCap = 2
  Limit = 2
  MaxDeliver = 1
  MaxFailures = 0
  MaxStops = 0
CHECK_DEADLOCK FALSE
PROPERTY TextKept
