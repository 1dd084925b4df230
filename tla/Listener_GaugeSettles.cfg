SPECIFICATION Spec
CONSTANTS
  Handlers = {h1, h2}
  Callers = {s1}
INVARIANT
  GaugeSettles
CHECK_DEADLOCK FALSE
