CONSTANTS
  Devices = {d1, d2}
  MaxChannels = 1
  MaxFaults = 1
SPECIFICATION FairSpec
CHECK_DEADLOCK FALSE
INVARIANTS
  TypeOK
  LaneLivesWithChannel
  ReassignedOnlyByStop
  NoSocketLeaked
  KnownWhenQuiet
PROPERTIES
  HalfOpenEnds
  EventuallyConnectedOrOneSided
  StopReturns
