SPECIFICATION FairSpec
CONSTANTS
  Callers = {p1}
  MaxGen = 2
INVARIANTS
  TypeOK
  CleanupOwnership
  ReadersEndFirst
  CleanupUnblocked
PROPERTIES
  CleanupCompletes
  ErrorTearsDown
CHECK_DEADLOCK FALSE
