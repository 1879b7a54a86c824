SPECIFICATION Spec
CONSTANTS
  Senders = {s1, s2}
  Threshold = 3
  Window = 4
  ResetFor = 3
  BreakerLag = 1
  MaxFails = 4
  Rows = {w1, w2, w3, w4}
  BatchSize = 3
  MaxBuffer = 5
  Deliveries = {d1, d2}
  Ttl = 2
  CacheLag = 1
  MaxVersion = 2
INVARIANTS BreakerSafe WriterSafe CacheSafe
PROPERTIES OpenEnds TrafficDrains Converges
CHECK_DEADLOCK FALSE
