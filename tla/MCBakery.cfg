CONSTANTS
  N = 2
  MaxEntries = 2
SPECIFICATION FairSpec
INVARIANTS
  NoAssertFails
  MutualExclusion
  FirstComeFirstServed
PROPERTIES
  ImplementsMutex
  Termination
