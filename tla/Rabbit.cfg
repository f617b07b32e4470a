CONSTANTS
  MaxConns = 3
  Msgs = {m1}
  MaxWorkers = 1
  MaxRetries = 2
  MaxSends = 3
SPECIFICATION Spec
INVARIANTS NoLimbo  
PROPERTIES Reconnects PublishReturns
CHECK_DEADLOCK FALSE
