CONSTANTS
  p1 = p1
  p2 = p2
  c1 = c1
  c2 = c2
  Producer = {p1, p2}
  Consumer = {c1, c2}
  SIZE = 2
  MaxItems = 3
SPECIFICATION FairSpec
INVARIANTS
  Accounting
PROPERTIES
  ImplementsFifo
  Termination
