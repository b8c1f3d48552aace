CONSTANTS
  Ports = {p, q}
  MaxRounds = 0
  MaxChanges = 1
  MaxFaults = 1
  MaxNet = 2
SPECIFICATION FairSpec
CHECK_DEADLOCK FALSE
INVARIANTS
  TypeOK
  MatchedWhenQuiet
PROPERTIES
  ViewNeverGoesBack
  EventuallyDiscoveredByPeers
