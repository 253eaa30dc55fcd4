\* A replica restarts while the other has a retry pending.
SPECIFICATION Spec
CONSTANTS
  Processes = {p1, p2}
  Messages = {m1}
  Items = 2
  RetryCap = 2
  RetryDelay = 1
  Timeout = 2
  MinTtl = 2
  Grace = 1
  Deployments <- RollingRestarts
INVARIANTS
  SentOnce
CHECK_DEADLOCK FALSE
