SPECIFICATION Spec
CONSTANTS
  p1 = p1  p2 = p2  p3 = p3  p4 = p4
  Procs = {p1, p2, p3}
  Scenarios <- Rejoin
  MaxCalls = 2
  MaxBlk = 3
INVARIANTS BlockOutlivesItsCompletions
CHECK_DEADLOCK FALSE
