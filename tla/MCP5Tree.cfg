CONSTANTS
  n1 = n1
  n2 = n2
  s1 = s1
  s2 = s2
  Name = {n1, n2}
  NoName = NoName
  MaxDepth = 2
  NSlots = 2
  MaxOpen = 2
  MaxSurplus = 1
  INODE_NUM = 4
  BYTE = 2
  MAP = 6
  MAPS = 1
  BLOCK_START = 2
  DevSizes = {5}
  Clean <- Zeros
  DIRECT = 1
  IND = 2
  BLOCK_SIZE = 2
  Length = {1}
  MaxLength = 1
  Source = {s1}
SPECIFICATION Spec
SYMMETRY Symmetric
INVARIANTS
  OwnedOnce
  DescriptorsCounted
PROPERTIES
  KeepsFiles
CONSTRAINT
  OnlySound
