SPECIFICATION Spec
CONSTANTS
  ticker = ticker
  alert = alert
  trace = trace
  Absent = Absent
  Topics = {alert}
  InitialTopics = {}
  Allowed = {alert}
  Events <- MCClientEvents
  QueueSize = 1
INVARIANT
  NoLeakedSubscription
