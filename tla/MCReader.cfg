CONSTANTS
  Writers = {w1}
  Perishable = {w1}
  Window = 3
  MaxSeq = 5
  MaxDepth = 2
SPECIFICATION Spec
INVARIANTS
  TypeOK
  AtMostOnce
  NackIsHonest
  ReaderInv
  NoSilentLoss
  KeepAllKeeps
PROPERTIES
  FateRefinement
