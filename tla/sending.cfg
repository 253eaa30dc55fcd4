\* Two sends of a line under way at once on any replica, and the key expires; a
\* line in memory has bursts of four.  Two days of two hours in memory, one on Redis; a
\* send and a read with two rounds of both retry loops.  Every knob of the delays at its
\* extremes: a base of one millisecond, a maximum equal to the base, no growth and no
\* noise, full noise.
CONSTANTS
  Sends = {s1, s2, s3, s4}
  SharedStore = TRUE
  Interval = 2
  Ttl = 8
  Start = 2
  MaxLatency = 1
  MaxAhead = 2
  MaxTime = 8
  Caps <- TightCaps
  DayHours = 2
  RedisHours = 1
  MemoryHours = 3
  BaseTimeouts = {1, 2, 25}
  MaxTimeouts = {1, 3, 60}
  GrowthFactors = {10, 15, 30}
  NoiseDeviations = {0, 2, 10}
  Counts = {1, 2, 3}
  Tenths = {0, 1, 2, 3, 4, 5, 6, 7, 8, 9}
  Posts = {"send"}
  Gets = {"read"}
  MaxRetries = 2
  MaxRetryAttempts = 2
SPECIFICATION PartsSpec
SYMMETRY Symmetry
CHECK_DEADLOCK FALSE
INVARIANTS
  SlotsAreApart
  AlertsAreRight
  DelaysAreBounded
  SendsAreAsBelieved
