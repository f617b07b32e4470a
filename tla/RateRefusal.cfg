SPECIFICATION BenchSpec
CONSTANTS
  Hosts = {h1, h2, h3}
  None = None
  MaxLoad = 3
  Limit = 2
  Emission = 2
  Burst = 2
  Requests = {p1, p2}
  Costs = {1, 2}
  MaxRecords = 2
  MaxTaken = 3
  MaxSpent = 4
  MaxTime = 6
  Routes <- MCRoutes
  RouteCosts = {1}
  MaxCount = 4
  MaxClock = 3
  Inss <- MCInss
  Replicas = 2
  Points = 4
  MaxWraps = 4
  MaxHops = 3
  TraceProcs = {g1, g2}
  MaxSpans = 4
  Closers = {c1, c2}
  Registrars = {r1, r2, r3}
  NullColumns = {"a", "b"}
  NoProc = NoProc
INVARIANT RefusalAlwaysWins
SYMMETRY MCSymmetry
CHECK_DEADLOCK FALSE
