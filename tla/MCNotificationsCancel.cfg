SPECIFICATION Spec
CONSTANTS
  Logs = {l1}
  Unrouted = {}
  Workers = {w1}
  Clients = {c1}
  NoLog = NoLog
  BatchSize = 1
  MaxTime = 2
  MaxRequests = 3
  MaxCrashes = 0
PROPERTIES
  OnlyScheduledIsCancelled
CHECK_DEADLOCK FALSE
