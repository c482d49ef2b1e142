CONSTANTS
  NULL = NULL
  UserIds = {u}
  Ips = {ip}
  Emails = {mail, work}
  Windows = {2, 4}
  RATE_LIMIT_BURSTS <- MCBursts
  LimitInputs = {1}
  RegisterWindow = 4
  RegisterLimit = 2
  IP_WINDOW = 3
  IP_LIMIT = 2
  EMAIL_WINDOW = 3
  EMAIL_LIMIT = 1
  MaxTime = 8
SPECIFICATION Spec
CONSTRAINT OneLimitAtATime
CHECK_DEADLOCK FALSE
INVARIANT BurstsAreSmooth
INVARIANT CodesAreSpaced
PROPERTY CleanupIsInvisible
