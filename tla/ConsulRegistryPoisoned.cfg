SPECIFICATION Spec
CONSTANTS
  Watchers = {w1, w2}
  Stoppers = {c1}
  AgentFails = TRUE
  MaxSets = 2
  MaxIndex = 1
PROPERTY EveryWatcherResolves
CHECK_DEADLOCK FALSE
