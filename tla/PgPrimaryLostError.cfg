SPECIFICATION Spec
CONSTANTS
  Hosts = {m}
  Master = m
  MaxAttempts = 2
  HasVerifier = TRUE
  PromptSubscribe = FALSE
PROPERTY AutoReconnect
CHECK_DEADLOCK FALSE
