SPECIFICATION FairSpec
CONSTANTS
  Keys = {k1, "all_public"}
  Processes = {p1, p2}
  SharedCache = TRUE
  MaxWrites = 3
INVARIANTS
  TypeOK
  FreshWhenSerial
  NothingUncommitted
PROPERTIES
  SettlesFresh
\* The system may stop: the bound on writes runs out.
CHECK_DEADLOCK FALSE
