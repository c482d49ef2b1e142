CONSTANTS
  NULL = NULL
  Ids = {u1, u2}
  Contacts = {mail}
  UserTypes = {"candidate"}
  SessionIds = {s1}
  CodeIds = {1, 2}
  MaxAttempts = 1
SYMMETRY Symmetry
SPECIFICATION Spec
INVARIANTS
  TypeOK
  CodesAreSpent
  SessionRoleIsHeld
PROPERTIES
  EndedSessionStaysEnded
  InactiveAccountsRest
CHECK_DEADLOCK FALSE
