SPECIFICATION FairSpec
CONSTANTS
  Callers = {p1}
  MaxGen = 1
PROPERTIES
  ServerCloseIsSeen
CHECK_DEADLOCK FALSE
