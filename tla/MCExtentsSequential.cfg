CONSTANTS
  f1 = f1
  f2 = f2
  p1 = p1
  p2 = p2
  File = {f1, f2}
  NoFile = NoFile
  Process = {p1}
  FirstZone = 2
  NZones = 8
  DIRECT = 2
  MAX_LEN = 4
  Sector <- MCAllSectors
  SectorsPerPage = 4
SPECIFICATION Spec
SYMMETRY SymmetricFiles
PROPERTIES
  SearchFinds
CONSTRAINT
  Undamaged
