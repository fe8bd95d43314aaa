SPECIFICATION Spec
CONSTANTS
  Ips = {i1, i2}
  Requests = {q1, q2}
  None = None
  MaxAttempts = 2
  Window = 2
  Second = 2
  Horizon = 8
  MaxMade = 4
INVARIANTS TypeOK NeverFlooded PromiseKept NoIdleWait
CHECK_DEADLOCK FALSE
