\* Skips, and retries to the cap, of two messages a turn, on both schedulers; in
\* memory two flushes may overlap.
CONSTANTS
  Messages = {m1, m2}
  Echoes = {}
  Flushes = {f1, f2}
  Channel = "whatsapp"
  Replies <- MixedReplies
  Failures = {"permanent", "transient"}
  MaxReprocess = 1
  MaxRetryAttempts = 1
  Deployments <- Answering
  MaxQueued = 2
  MaxRedelivered = 2
SPECIFICATION Spec
SYMMETRY Symmetry
CHECK_DEADLOCK FALSE
INVARIANTS
  ItemsAreAccountedFor
PROPERTIES
  NoStraySend
  OnlyTimeoutsPassUnsettled
