CONSTANTS
  f1 = f1
  f2 = f2
  p1 = p1
  p2 = p2
  File = {f1, f2}
  NoFile = NoFile
  Process = {p1, p2}
  FirstZone = 2
  NZones = 6
  DIRECT = 2
  MAX_LEN = 2
  Sector <- MCSector
  SectorsPerPage = 4
SPECIFICATION Spec
SYMMETRY Symmetric
INVARIANTS
  InDataZones
  OwnedOnce
  BusyAccounted
PROPERTIES
  KeepsZones
CONSTRAINT
  Undamaged
