SPECIFICATION PartsSpec
CONSTANTS
  Users = {u1, u2, u3}
  PoolSize = 2
  PoolReady = 1
  MaxDials = 3
  Callers = {c1, c2}
  Threshold = 2
  Timeout = 2
  Settings = {a, b}
  Env = a
  Absent = Absent
  Bad = Bad
  MaxChanges = 2
  EndpointOf <- MCEndpointOf
  None = "none"
  Lists <- MCLists
  SubsetSize = 2
  MaxPublish = 2
INVARIANTS
  OneOwner
  IdleFollows
PROPERTIES
  GetServed
  Recovers
  
  
CHECK_DEADLOCK FALSE
