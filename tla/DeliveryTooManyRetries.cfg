SPECIFICATION Spec
CONSTANTS
  Events = {e1}
  Workers = {w1}
  MaxRetries = 4
  RetrySlots = 3
  Stamps = 1
  MaxStalled = 1
  MaxFaults = 0
  Env <- FailingEnv
  LeanDocHasId = TRUE
PROPERTY EventuallySettled
CHECK_DEADLOCK FALSE
