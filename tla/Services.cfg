SPECIFICATION Spec
CONSTANTS
  Calls = {h1, h2}
  Windows <- TwoWindows
  Order <- ShortFirst
  Length <- Lengths
  Cap <- Caps
  LimiterLag = 1
  MaxTime = 9
  Requests = {h1, h2}
  Keys <- AllKeys
  Marks <- Payloads
  MarkOf <- SameOrOther
  Windowed <- WithWindow
  EventLimit = 1
  Monthly = 1
  MaxDeaths = 1
  Workers = {h1, h2}
  MaxSecond = 1
  MaxRows = 3
  MaxLinks = 1
  MaxEpochs = 2
  Desks = {h1, h2}
  PerLot = 2
  MaxLots = 2
  Emails = {e1, e2}
  Clerks = {h1, h2}
  MaxTokens = 3
  MaxStops = 1
  Tunnels = {t1, t2, t3}
  Streams = {h1, h2}
  MaxTunnels = 2
  Grants = {g1, g2, g3}
  Processes = {h1, h2}
  Life = 2
  Sweep = 1
  MaxClock = 5
  Bytes = {0, 129, 255}
  MaxBytes = 6
  Words = 4096
SYMMETRY Sym
INVARIANTS LimiterSafe IngestSafe
  SessionsSafe FactorSafe AccountsSafe TunnelsSafe CodesSafe Base32Safe
PROPERTIES QuotaSpec IntakeSpec
CHECK_DEADLOCK FALSE
