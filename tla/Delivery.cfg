CONSTANTS
  Rows = {1, 2, 3}
  Unreachable = {2}
  Batches = {b1, b2}
  BatchSize = 2
  MaxAttempts = 2
  MaxFaults = 1
  MaxRetries = 1
SPECIFICATION FairSpec
INVARIANTS
  TypeOK
  SuccessWasAcked
  PendingHasAttemptsLeft
  OvershootIsBounded
PROPERTY
  EventuallyAllSettled
CHECK_DEADLOCK FALSE
