SPECIFICATION Spec
CONSTANTS
  Deliveries = {d1, d2}
  Threads = {t1, t2}
  NoDelivery = NoDelivery
  MaxRetries = 2
  MaxRotations = 2
  MaxRequests = 5
  MaxCrashes = 1
SYMMETRY ActorSymmetry
INVARIANTS
  TypeOK
  SuccessWasAccepted
  PendingHasSender
  ScheduleIsSound
  AttemptsCounted
  SecretIsLatest
\* The system may stop: the bound on requests runs out.
CHECK_DEADLOCK FALSE
