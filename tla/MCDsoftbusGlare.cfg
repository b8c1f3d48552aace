CONSTANTS
  Devices = {d1, d2}
  MaxChannels = 2
  MaxFaults = 0
SPECIFICATION FairSpec
CHECK_DEADLOCK FALSE
PROPERTIES
  EventuallyConnected
