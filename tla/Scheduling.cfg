SPECIFICATION Spec
CONSTANTS
  Schedules = {s1, s2}
  Keys = {k1}
  NoKey = NoKey
  NoSchedule = NoSchedule
  Passes = {p1, p2}
  Batch = 2
  MaxCalls = 1
  MaxDeaths = 1
INVARIANT SchedulingSafe
PROPERTIES DueIsDispatched IntakeSpec
CHECK_DEADLOCK FALSE
