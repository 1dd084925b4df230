SPECIFICATION FairSpec
CONSTANTS
  Callers = {p1}
  MaxGen = 1
PROPERTIES
  DisconnectReturns
CHECK_DEADLOCK FALSE
