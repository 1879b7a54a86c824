SPECIFICATION Spec
CONSTANTS
  Askers = {r1, r2}
  Allowance = 3
  LastMonth = 2
INVARIANT RefusedForThisMonth
CHECK_DEADLOCK FALSE
