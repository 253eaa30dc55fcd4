CONSTANTS
  Messages = {m1}
  Echoes = {}
  Flushes = {f1}
  Channel = "whatsapp"
  Replies <- LongReply
  Failures = {"transient"}
  MaxReprocess = 1
  MaxRetryAttempts = 1
  Deployments <- InMemory
  MaxQueued = 2
  MaxRedelivered = 2
SPECIFICATION Spec
SYMMETRY Symmetry
CHECK_DEADLOCK FALSE
PROPERTIES
  CursorPassesOnlySettled
