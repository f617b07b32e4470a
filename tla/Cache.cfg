CONSTANTS
  Readers = {p1}
  Writers = {p2}
  Refreshers = {r1, r2}
  MaxVersion = 2
SPECIFICATION Spec
INVARIANTS  OneRefresh
PROPERTY EventuallyFresh
CHECK_DEADLOCK FALSE
