CONSTANTS
  Lanes = {a, b}
  Threads = {t1, t2}
  Lens = {1, 2}
  ByteLimit = 4
  GlobalLimit = 5
  MaxPushes = 4
  MaxStops = 1
SPECIFICATION FairSpec
CHECK_DEADLOCK FALSE
INVARIANTS
  TypeOK
  BudgetExact
  LaneWithinLimit
  BoundedOverrun
  ExitLeavesNothing
PROPERTIES
  FifoRefinement
  QueuesEmpty
  StopReturns
