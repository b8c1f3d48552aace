CONSTANTS
  Threads = {t1, t2}
  LocalReaders = {l1}
  RemoteReaders = {r1}
  TransientLocal = {l1}
  BestEffort = {}
  WriterProfiles <- AllProfiles
  Window = 2
  MaxSeq = 3
  MaxClock = 2
  MaxNet = 1
  MaxDowns = 1
SPECIFICATION Spec
CHECK_DEADLOCK FALSE
INVARIANTS
  TypeOK
  HistoryContiguous
  NeverAheadOfWriter
  GapOnlyUnavailableOrSwapped
SYMMETRY ThreadSymmetry
