CONSTANTS
  t1 = t1
  t2 = t2
  t3 = t3
  Thread = {t1, t2, t3}
  Programs <- MCPrograms
  IntMax = 1
SPECIFICATION FairSpec
INVARIANTS
  NoAssertFails
  ServedInOrder
PROPERTIES
  ImplementsMutex
  Termination
