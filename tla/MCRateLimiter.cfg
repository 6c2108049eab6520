SPECIFICATION Spec
CONSTANTS
  Rules <- TwoRules
  RateLimit <- OneEach
  BurstLimit <- Bursts
  Period <- Periods
  TicksPerSecond = 2
  Buffer = 1
  MaxDelay = 1
  Threads = {t1, t2}
  MaxTime = 8
  MaxRequests = 3
SYMMETRY ThreadSymmetry
INVARIANTS
  TypeOK
  WithinLimit
PROPERTIES
  RejectedOnlyWhenFull
  RetryAfterSuffices
\* The system may stop: the bounds on time and requests run out.
CHECK_DEADLOCK FALSE
