CONSTANTS
  p1 = p1
  p2 = p2
  Process = {p1, p2}
  Ndevices = 2
  FirstTicket = 3
  MaxTickets = 5
SPECIFICATION Spec
SYMMETRY Symmetric
INVARIANTS
  NothingLeftBehind
  UsesAreSound
  TicketsGivenOnce
  HookSound
CHECK_DEADLOCK FALSE
