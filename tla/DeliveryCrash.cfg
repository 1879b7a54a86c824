SPECIFICATION Spec
CONSTANTS
  Events = {e1}
  Workers = {w1}
  MaxRetries = 2
  RetrySlots = 2
  Stamps = 2
  MaxStalled = 0
  MaxFaults = 2
  Env <- CrashEnv
  LeanDocHasId = TRUE
PROPERTY RateQueuedMovesOn
CHECK_DEADLOCK FALSE
