SPECIFICATION Spec
CONSTANTS
  Threads = {t1, t2}
  CodesPerBatch = 1
  ChallengeTTL = 1
  MaxTime = 3
  MaxSetups = 2
  MaxBatches = 3
  MaxRequests = 4
  NoCode = NoCode
SYMMETRY ThreadSymmetry
INVARIANTS
  TypeOK
  AcceptedOnce
  ConfirmedWasProven
  RecoveryRaceIsBounded
PROPERTIES
  OnlyCurrentCodes
\* The system may stop: the bounds on time and replacements run out.
CHECK_DEADLOCK FALSE
