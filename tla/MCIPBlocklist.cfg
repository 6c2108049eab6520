SPECIFICATION FairSpec
CONSTANTS
  a = a
  b = b
  c1 = c1
  s1 = s1
  s2 = s2
  Checks = {c1}
  Staff = {s1, s2}
  Caches = {a, b}
  CacheOf <- MCCacheOf
  MaxTime = 1
  MaxRows = 2
INVARIANTS
  TypeOK
  BlockSurvives
  ConfirmedBlockIsEnforced
PROPERTIES
  CacheFollowsTable
\* The system may stop: the bounds on time and entries run out.
CHECK_DEADLOCK FALSE
