SPECIFICATION Spec
CONSTANTS
  Users = {u1, u2}
  Staff = {}
  Invitations = {i1, i2}
  Threads = {t1}
  NoOne = NoOne
  MaxRequests = 6
PROPERTIES
  AcceptMakesMember
CHECK_DEADLOCK FALSE
