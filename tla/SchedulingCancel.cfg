SPECIFICATION Spec
CONSTANTS
  Schedules = {s1}
  Keys = {k1}
  NoKey = NoKey
  NoSchedule = NoSchedule
  Passes = {p1}
  Batch = 1
  MaxCalls = 1
  MaxDeaths = 0
PROPERTY CancelledIsNotSent
CHECK_DEADLOCK FALSE
