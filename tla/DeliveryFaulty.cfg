SPECIFICATION Safe
CONSTANTS
  Events = {e1}
  Workers = {w1, w2}
  MaxRetries = 2
  RetrySlots = 2
  Stamps = 1
  MaxStalled = 1
  MaxFaults = 1
  Env <- FaultyEnv
  LeanDocHasId = TRUE
SYMMETRY Sym
INVARIANTS TypeOK BudgetSpent DeliveredWasAccepted
CHECK_DEADLOCK FALSE
