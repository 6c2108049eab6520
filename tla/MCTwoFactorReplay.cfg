SPECIFICATION Spec
CONSTANTS
  Threads = {t1, t2}
  CodesPerBatch = 1
  ChallengeTTL = 1
  MaxTime = 2
  MaxSetups = 1
  MaxBatches = 2
  MaxRequests = 4
  NoCode = NoCode
INVARIANTS
  NeverTakenTwice
CHECK_DEADLOCK FALSE
