CONSTANTS
  Threads = {t1}
  LocalReaders = {}
  RemoteReaders = {r1}
  TransientLocal = {}
  BestEffort = {}
  WriterProfiles <- OneProfile
  Window = 2
  MaxSeq = 4
  MaxClock = 1
  MaxNet = 2
  MaxDowns = 0
SPECIFICATION FairSpec
CHECK_DEADLOCK FALSE
PROPERTIES
  EventuallyHealed
