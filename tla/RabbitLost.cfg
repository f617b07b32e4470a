CONSTANTS
  MaxConns = 3
  Msgs = {m1}
  MaxWorkers = 1
  MaxRetries = 2
  MaxSends = 3
SPECIFICATION Spec

PROPERTY ComesBack
CHECK_DEADLOCK FALSE
