CONSTANTS
  Messages = {m1, m2, m3, m4}
  Echoes = {}
  Flushes = {f1, f2}
  Channel = "messenger"
  Replies <- OneReply
  Failures = {"permanent"}
  MaxReprocess = 1
  MaxRetryAttempts = 1
  Deployments <- InMemory
  MaxQueued = 2
  MaxRedelivered = 2
SPECIFICATION Spec
SYMMETRY Symmetry
CHECK_DEADLOCK FALSE
INVARIANTS
  IdleIsDrained
