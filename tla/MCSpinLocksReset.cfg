CONSTANTS
  t1 = t1
  t2 = t2
  t3 = t3
  Thread = {t1, t2}
  Programs <- MCReset
  IntMax = 1
SPECIFICATION Spec
INVARIANTS
  NoAssertFails
CHECK_DEADLOCK FALSE
