SPECIFICATION Spec
CONSTANTS
  Users = {u1, u2, u3}
  Staff = {u3}
  Invitations = {i1, i2}
  Threads = {t1, t2}
  NoOne = NoOne
  MaxRequests = 4
SYMMETRY ActorSymmetry
INVARIANTS
  TypeOK
  OwnershipTraceable
  OneOwner
  SingleUse
  OnePendingPerAddress
PROPERTIES
  ImplementsLifecycle
\* The system may stop: the bound on requests runs out.
CHECK_DEADLOCK FALSE
