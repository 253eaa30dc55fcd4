\* Comments of a page and of an Instagram account, webhooks and sweeps of two
\* replicas over a post that grows old, with claims that outlive the time it is
\* polled; two payloads that are delivered twice each; ids that can be claimed again
\* while they are still delivered; gaps over two thresholds and several checks; two
\* users with two businesses each; an unsuffixed account, a named one and a suffix
\* that is no name.
CONSTANTS
  Processes = {p1, p2}
  Comments = {c1}
  OwnReplies = {r1}
  Answers <- AnswersOfChannels
  ClaimTtl = 3
  Lookback = 1
  PageSize = 1
  MaxTime = 2
  Payloads <- Batches
  MaxTries = 2
  MessageIds = {i1, i2}
  Callers = {h1, h2}
  Nobody = Nobody
  DedupeTtl = 2
  RetryWindow = 7
  LastDay = 3
  WatchedChannels = {"messenger", "instagram"}
  Threshold = 3
  Interval = 2
  LastCheck = 9
  Probes = {"p1", "p2"}
  Users = {"u1", "u2"}
  Businesses = {"b1", "b2"}
  ContactNames = {"n1"}
  Nothing = "nothing"
  MaxInbounds = 2
  Channels = {"whatsapp", "instagram"}
  AccountNames = {"unsuffixed", "reed", "default"}
  Bare = "unsuffixed"
  IllFormed = {"default"}
  BusinessIds = {"id1", "id2"}
SPECIFICATION PartsSpec
CHECK_DEADLOCK FALSE
INVARIANTS
  AskedAtMostOnce
  ActsAsAnswered
  TakenOnceInOrder
  SilenceIsAlerted
  RightParties
PROPERTIES
  ReadyIsTrue
  KeepsThePromise
  NothingIsLeftLying
