SPECIFICATION Spec
CONSTANTS
  Events = {e1}
  Workers = {w1, w2}
  MaxRetries = 3
  RetrySlots = 3
  Stamps = 2
  MaxStalled = 2
  MaxFaults = 2
  Env <- CalmEnv
  LeanDocHasId = TRUE
INVARIANT NoOrphan
PROPERTIES SentWhileOpen LifecycleSpec
CHECK_DEADLOCK FALSE
