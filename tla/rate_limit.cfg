SPECIFICATION Spec
CONSTANTS
  IPs = {a, b}
  Limit = 2
  Window = 2
  MaxTime = 5
INVARIANTS
  LimitInEveryWindow
PROPERTY
  IsSlidingWindow
CHECK_DEADLOCK FALSE
