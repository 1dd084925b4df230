SPECIFICATION FairSpec
CONSTANTS
  ticker = ticker
  alert = alert
  trace = trace
  Absent = Absent
  Topics <- MCTopics
  InitialTopics <- MCInitialTopics
  Allowed <- MCAllowed
  Events <- MCEvents
  QueueSize = 2
INVARIANTS
  AckedSubsActive
  DrainedBeforeClose
  ReturnedMeansClean
  NoLeakWhenReaderCleans
PROPERTIES
  FailureEndsConnection
  ImplementsLife
