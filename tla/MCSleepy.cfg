CONSTANTS
  w1 = w1
  w2 = w2
  r1 = r1
  Writer = {w1, w2}
  Reader = {r1}
  Seconds <- MCSeconds
  HZ = 2
  Nobody = Nobody
  MaxCalls = 3
  MaxElapsed = 2
SPECIFICATION FairSpec
INVARIANTS
  FlagHasResetter
  NoLostWakeup
  SleepsForItsNumber
PROPERTIES
  CallsReturn
