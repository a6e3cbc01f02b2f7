CONSTANTS
  x = x
  y = y
  Name = {x, y}
  NInodes = 4
  LinkMax = 4
  LinkSpace = 6
  MaxHeld = 1
  MaxHurt = 0
  MaxCalls = 2
SPECIFICATION MountedSpec
SYMMETRY Symmetric
INVARIANTS
  LinkCountsMatch
  InodesAccounted
  DiskAgrees
  ParentIsDotDot
  ValidFlag
PROPERTIES
  FailureChangesNothing
CHECK_DEADLOCK FALSE
