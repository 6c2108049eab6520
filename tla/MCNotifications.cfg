SPECIFICATION Spec
CONSTANTS
  Logs = {l1, l2}
  Unrouted = {}
  Workers = {w1, w2}
  Clients = {c1, c2}
  NoLog = NoLog
  BatchSize = 2
  MaxTime = 2
  MaxRequests = 4
  MaxCrashes = 1
SYMMETRY ActorSymmetry
INVARIANTS
  TypeOK
  ClaimsHold
  DispatchedOncePerChance
  SentWasDelivered
  PendingHasOwner
PROPERTIES
  ImplementsLifecycle
\* The system may stop: the bounds on time, requests and crashes run out.
CHECK_DEADLOCK FALSE
