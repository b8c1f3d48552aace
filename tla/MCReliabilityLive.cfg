CONSTANTS
  Threads = {t1}
  LocalReaders = {}
  RemoteReaders = {r1}
  TransientLocal = {}
  BestEffort = {}
  WriterProfiles <- LiveProfiles
  Window = 2
  MaxSeq = 4
  MaxClock = 1
  MaxNet = 2
  MaxDowns = 1
SPECIFICATION FairSpec
CHECK_DEADLOCK FALSE
PROPERTIES
  EventuallyHealedOrStalled
