CONSTANTS
  Base = 8
  U16 = 2
  U32 = 3
  U64 = 4
  GuidSize = 2
  MaxPayload = 63
  Messages <- AllMessages
  LaterEntries <- SomeEntries
  LaterRests <- SomeRests
SPECIFICATION Spec
INVARIANTS
  NothingGarbled
  WholeFrameAccepted
