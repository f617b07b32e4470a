SPECIFICATION ConsulSpec
CONSTANTS
  Watchers = {w1}
  Stoppers = {c1}
  AgentFails = FALSE
  MaxSets = 1
  MaxIndex = 1
  Procs = {p1}
  Registrars = {p1}
  CanDisable = TRUE
  MaxCc = 1
  MaxForgets = 0
  Dcs <- MCDcs
  Endpoints <- MCEndpoints
  Lists <- MCLists
  Values = {v1, v2}
  MaxDcIndex = 3
  MaxFails = 0
  MaxRestores = 0
PROPERTY EveryDatacenter
CHECK_DEADLOCK FALSE
