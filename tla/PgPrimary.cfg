SPECIFICATION Spec
CONSTANTS
  Hosts = {m}
  Master = m
  MaxAttempts = 2
  HasVerifier = TRUE
  PromptSubscribe = TRUE
INVARIANTS NoChangeDropped ErrorIsHandled
PROPERTIES AutoReconnect CloseStopsAll
CHECK_DEADLOCK FALSE
