SPECIFICATION Spec
CONSTANTS
  k1 = k1
  u1 = u1
  editor = editor
  team = team
  grant = grant
  ban = ban
  Keys = {k1}
  Users = {u1}
  Roles = {editor}
  Groups = {team}
  Permissions = {grant, ban}
  StartPolicies <- Start
  Owner <- OwnerOf
  Staff = {s1, s2}
  Requests = {t1}
  MaxSecrets = 2
  MaxChanges = 3
INVARIANTS
  TypeOK
  RevokedIsRefused
  ScopeBinds
  CalmAnswerIsRight
\* The system may stop: the bound on changes runs out.
CHECK_DEADLOCK FALSE
