CONSTANTS
  n1 = n1
  n2 = n2
  s1 = s1
  s2 = s2
  Name = {n1}
  NoName = NoName
  MaxDepth = 1
  NSlots = 1
  MaxOpen = 2
  MaxSurplus = 1
  INODE_NUM = 4
  BYTE = 2
  MAP = 6
  MAPS = 3
  BLOCK_START = 2
  DevSizes = {11, 18}
  Clean <- CleanMaps
  DIRECT = 1
  IND = 2
  BLOCK_SIZE = 2
  Length = {3, 10}
  MaxLength = 13
  Source = {s1}
SPECIFICATION Spec
SYMMETRY Symmetric
INVARIANTS
  OwnedOnce
  ReadsBackApart
CONSTRAINT
  OnlySound
