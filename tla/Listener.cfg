SPECIFICATION FairSpec
CONSTANTS
  Handlers = {h1, h2}
  Callers = {s1, s2}
INVARIANTS
  StragglersAreRacers
  ReturnMeansSignalled
  NilMeansDrained
PROPERTIES
  NoLateAdmission
  ShutdownCompletes
CHECK_DEADLOCK FALSE
