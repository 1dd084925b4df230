SPECIFICATION FairSpec
CONSTANTS
  Callers = {a}
  Inner = {i}
  WriteChannelSize = 1
  MaxGen = 1
INVARIANTS
  CallbacksGetNoAnswer
PROPERTIES
  OwnContextEndsCall
  CleanupFreesCallback
  AnsweredCallReturns
CHECK_DEADLOCK FALSE
