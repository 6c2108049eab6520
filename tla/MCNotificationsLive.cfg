SPECIFICATION FairSpec
CONSTANTS
  Logs = {l1, l2}
  Unrouted = {l2}
  Workers = {w1, w2}
  Clients = {c1}
  NoLog = NoLog
  BatchSize = 1
  MaxTime = 2
  MaxRequests = 3
  MaxCrashes = 1
PROPERTIES
  DueIsHandled
\* The system may stop: the bounds on time, requests and crashes run out.
CHECK_DEADLOCK FALSE
