SPECIFICATION Spec
CONSTANTS
  Hosts = {h1}
  MaxAttempts = 2
  HasVerifier = TRUE
INVARIANTS OneSupervisor
  
CHECK_DEADLOCK FALSE
