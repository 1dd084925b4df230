SPECIFICATION Spec
CONSTANTS
  Callers = {a, b}
  Inner = {}
  WriteChannelSize = 1
  MaxGen = 2
SYMMETRY Symmetry
INVARIANTS
  TypeOK
  EntriesAreLive
PROPERTIES
  ImplementsCalls
  PanicsOnlyInFirstConnect
CHECK_DEADLOCK FALSE
