CONSTANTS
  Messages = {m1, m2}
  Echoes = {}
  Flushes = {f1}
  Channel = "messenger"
  Replies <- ShortReplies
  Failures = {"permanent"}
  MaxReprocess = 1
  MaxRetryAttempts = 1
  Deployments <- OnBullMQ
  MaxQueued = 2
  MaxRedelivered = 2
SPECIFICATION Spec
SYMMETRY Symmetry
CHECK_DEADLOCK FALSE
INVARIANTS
  BufferedIsAwaited
