CONSTANTS
  Rows = {1}
  Unreachable = {}
  Batches = {b1, b2, b3}
  BatchSize = 2
  MaxAttempts = 3
  MaxFaults = 0
  MaxRetries = 0
SPECIFICATION Spec
INVARIANT AtMostMaxRetries
CHECK_DEADLOCK FALSE
