SPECIFICATION ConsulSpec
CONSTANTS
  Watchers = {w1, w2}
  Stoppers = {c1}
  AgentFails = TRUE
  MaxSets = 2
  MaxIndex = 2
  Procs = {p1, p2}
  Registrars = {p1}
  CanDisable = TRUE
  MaxCc = 3
  MaxForgets = 1
  Dcs <- MCDc
  Endpoints <- MCEndpoints
  Lists <- MCLists
  Values = {v1, v2}
  MaxDcIndex = 3
  MaxFails = 1
  MaxRestores = 1
INVARIANTS RegistryExact AgentAgrees
PROPERTIES Follows WatchersConverge CallsReturn HeartbeatRestores WatchDelivers
CHECK_DEADLOCK FALSE
