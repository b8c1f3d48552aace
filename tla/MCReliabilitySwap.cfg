CONSTANTS
  Threads = {t1, t2}
  LocalReaders = {}
  RemoteReaders = {r1}
  TransientLocal = {}
  BestEffort = {}
  WriterProfiles <- OneProfile
  Window = 2
  MaxSeq = 2
  MaxClock = 2
  MaxNet = 1
  MaxDowns = 0
SPECIFICATION Spec
CHECK_DEADLOCK FALSE
INVARIANTS
  GapOnlyUnavailable
