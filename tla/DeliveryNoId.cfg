SPECIFICATION Spec
CONSTANTS
  Events = {e1}
  Workers = {w1}
  MaxRetries = 2
  RetrySlots = 2
  Stamps = 2
  MaxStalled = 1
  MaxFaults = 0
  Env <- FailingEnv
  LeanDocHasId = FALSE
PROPERTY EventuallySettled
CHECK_DEADLOCK FALSE
