CONSTANTS
  NULL = NULL
  Ids = {u1}
  Contacts = {mail}
  UserTypes = {"candidate", "hr"}
  SessionIds = {s1}
  CodeIds = {1}
  MaxAttempts = 1
SYMMETRY Symmetry
SPECIFICATION Spec
INVARIANT SwitchedRoleIsAdmitted
CHECK_DEADLOCK FALSE
