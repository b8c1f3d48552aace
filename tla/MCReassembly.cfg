CONSTANTS
  big = big
  small = small
  Samples = {big, small}
  Size <- Sizes
  Limits = {3, 5, 6, 8}
  DataOverhead = 1
  FragOverhead = 3
  Timeout = 1
  MaxSends = 3
SPECIFICATION FairSpec
CHECK_DEADLOCK FALSE
INVARIANTS
  TypeOK
  IntervalsExact
  DeliveredWhole
  NothingWithheld
PROPERTIES
  PartialsEnd
