SPECIFICATION Spec
CONSTANTS
  Jobs = {j1}
  People = {h1, h2}
  Callers = {h1, h2}
  MaxCount = 3
  Readers = {q1, q2, q3}
  MaxMails = 3
  EncKeys = {"k1", "k2"}
  Labels = {"v0", "v1"}
  MaxTexts = 2
  Items = {1, 2, 3}
  MaxStamp = 2
  PageSize = 1
  MaxChanges = 2
  Letters = {e1, e2}
  Encrypted = {e2}
  Agents = {h1, h2}
  BatchMax = 2
  MaxDeaths <- Deaths
  MaxStopped = 1
  EndpointIds = {i1, i2}
  Urls = {p1, p2}
  Editors = {h1, h2}
  EndpointsLimit = 1
  MaxKeys = 3
  MaxEdits = 1
  EventTypes <- PathTypes
  Latencies = {0, 1, 2}
  Recorders = {h1, h2}
  MaxRecords = 3
  LastHour = 2
  Views = {v1, v2, v3}
  Visitors = {h1, h2}
  Life = 2
  Handling = 1
  MaxStore = 2
  Trials = {p1, p2}
  Sweepers = {h1, h2}
  Hour = 3
  Slack = 1
  WarnFrom = 2
  WarnTo = 3
  LastTick = 4
  Targets = {t1, t2, t3}
  Couriers = {h1, h2}
  MaxBreakers = 2
  MaxMade = 3
  MaxReopened = 1
  p1 = p1
  p2 = p2
  c1 = c1
  r1 = r1
  u1 = u1
  Users = {u1}
  Nobody = Nobody
  Payments = {p1, p2, c1, r1}
  Buys <- Kinds
  Owner <- Mine
  Handlers = {h1, h2}
  MaxCalls = 2
  MaxFaults = 1
  PassesId = TRUE
SYMMETRY Sym
INVARIANTS BillingSafe TrialMailsSafe LocalBreakersSafe EndpointsSafe LettersSafe ListSafe
  BucketsSafe AnswersSafe KeysSafe CareersSafe NewsletterSafe
PROPERTY PaidStaysActive
CHECK_DEADLOCK FALSE
