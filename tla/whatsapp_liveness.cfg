CONSTANTS
  Messages = {m1, m2}
  Echoes = {}
  Flushes = {f1, f2}
  Channel = "whatsapp"
  Replies <- ShortReplies
  Failures = {"permanent", "transient", "window_closed"}
  MaxReprocess = 1
  MaxRetryAttempts = 1
  Deployments <- InMemory
  MaxQueued = 1
  MaxRedelivered = 1
SPECIFICATION FairSpec
CHECK_DEADLOCK FALSE
PROPERTIES
  EveryInboundAnswered
  EveryTurnEnds
