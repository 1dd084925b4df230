SPECIFICATION Spec
CONSTANTS
  Callers = {p1, p2}
  MaxGen = 2
INVARIANTS
  DoneClosedOnce
CHECK_DEADLOCK FALSE
