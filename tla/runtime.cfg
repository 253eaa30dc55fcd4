\* Every status of a message at two moments, and watermarks over two messages;
\* restarts of one and of two replicas; two keys that share two worker slots.
CONSTANTS
  Messages = {m1, m2}
  Channels <- StatusChannels
  MaxSends <- OneOrTwoSends
  Categories = {rate_limit}
  MaxTime = 1
  Processes <- TwoProcesses
  Inbounds <- TwoInbounds
  Items = 2
  RetryCap = 2
  RetryDelay = 1
  Timeout = 2
  MinTtl = 2
  Grace = 1
  Deployments <- RestartDeployments
  Keys = {k1, k2}
  Concurrency = 2
  MaxHandlers = 2
  MaxCalls = 4
SPECIFICATION PartsSpec
CHECK_DEADLOCK FALSE
INVARIANTS
  RecordsAreWhatArrived
  SentOnce
  OwedIsPending
PROPERTIES
  NeverRegresses
  StoredIsNotLost
  RestartedTurnEnds
  ImplementsFlushPromise
