\* Five messages and an echo, and two flushes that may overlap, in every deployment.
CONSTANTS
  Messages = {m1, m2, m3, m4, m5}
  Echoes = {e1}
  Flushes = {f1, f2}
  Channel = "messenger"
  Replies <- ShortReplies
  Failures = {"permanent"}
  MaxReprocess = 1
  MaxRetryAttempts = 1
  Deployments <- Anywhere
  MaxQueued = 4
  MaxRedelivered = 2
SPECIFICATION Spec
SYMMETRY Symmetry
CHECK_DEADLOCK FALSE
INVARIANTS
  TypeOK
  NoInboundLost
  HandledOnce
  LateArrivalsAreOwned
  AwaitedInMemory
  OneTurnOnBullMQ
  DrainedOnBullMQ
PROPERTIES
  ImplementsTurnTaking
