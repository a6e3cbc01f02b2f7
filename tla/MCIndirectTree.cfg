CONSTANTS
  p1 = p1
  p2 = p2
  Process = {p1, p2}
  NBlocks = 4
  DIRECT = 1
  PTRS = 2
  Sector = {0, 1, 3, 4}
SPECIFICATION Spec
SYMMETRY Symmetric
INVARIANTS
  OwnedOnce
  TruncateDone
PROPERTIES
  KeepsBlocks
  MapsWhatItReturns
