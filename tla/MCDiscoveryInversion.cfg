CONSTANTS
  Ports = {p, q}
  MaxRounds = 0
  MaxChanges = 0
  MaxFaults = 1
  MaxNet = 1
SPECIFICATION FairSpec
CHECK_DEADLOCK FALSE
PROPERTIES
  EventuallyDiscovered
