------------------------------ MODULE MCSending ------------------------------
(***************************************************************************)
(* TLC's instances of what a send passes on its way to Meta: the pacing of *)
(* its line, the counters of the line, the delays, and the request with    *)
(* its retries.  They share no state, so a behaviour is of one of them:    *)
(* part says of which, and the others rest.                                *)
(***************************************************************************)
EXTENDS SendPacing, TLC

CONSTANTS
  Caps, DayHours, RedisHours, MemoryHours,     \* WindowCounters; the last hours of either store
  BaseTimeouts, MaxTimeouts, GrowthFactors, NoiseDeviations, Counts, Tenths,   \* Delays
  Posts, Gets, MaxRetries, MaxRetryAttempts    \* GraphSend

VARIABLES
  part,
  hour, counters, keys, recording, recorded, reply, logged,  \* WindowCounters
  config, count, random, delay,                              \* Delays
  phase, attempt, sends, status, effects, lost               \* GraphSend

windowVars == <<hour, counters, keys, recording, recorded, reply, logged>>
delayVars == <<config, count, random, delay>>
requestVars == <<phase, attempt, sends, status, effects, lost>>

Parts == {"pacing on redis", "pacing in memory", "windows on redis", "windows in memory", "delays",
          "requests"}

\* The line of the Redis pacer, on one process.
Memory == INSTANCE SendPacing WITH SharedStore <- FALSE, MaxAhead <- 4

\* The hour is warned of at its first send and full at its second, the day at
\* its second and third.
TightCaps == [hour |-> 2, day |-> 3]

\* Replicas that count the sends of one line at once; calls fail.
RedisWindows ==
  INSTANCE WindowCounters WITH SharedStore <- TRUE, MaxHour <- RedisHours

\* Sends over days, counted in one process.
MemoryWindows ==
  INSTANCE WindowCounters WITH SharedStore <- FALSE, MaxHour <- MemoryHours

Delay == INSTANCE Delays

Request == INSTANCE GraphSend

ASSUME WindowsAssumption ==
  /\ RedisWindows!StoreAssumption /\ RedisWindows!CapsAssumption /\ RedisWindows!ClockAssumption
  /\ MemoryWindows!StoreAssumption /\ MemoryWindows!ClockAssumption
ASSUME KnobsAssumption == Delay!TimeoutsAssumption /\ Delay!FactorsAssumption /\ Delay!InputsAssumption
ASSUME RequestAssumption == Request!RequestsAssumption /\ Request!RetriesAssumption

PartsInit ==
  /\ part \in Parts
  /\ Init
  /\ IF part = "windows in memory" THEN MemoryWindows!Init ELSE RedisWindows!Init
  /\ IF part = "delays" THEN Delay!Init
     ELSE config = 0 /\ count = 0 /\ random = 0 /\ delay = [c \in Delay!Computations |-> Delay!None]
  /\ Request!Init

PaceOnRedis ==
  part = "pacing on redis" /\ Next /\ UNCHANGED <<part, windowVars, delayVars, requestVars>>

PaceInMemory ==
  part = "pacing in memory" /\ Memory!Next /\ UNCHANGED <<part, windowVars, delayVars, requestVars>>

CountOnRedis ==
  part = "windows on redis" /\ RedisWindows!Next /\ UNCHANGED <<part, vars, delayVars, requestVars>>

CountInMemory ==
  part = "windows in memory" /\ MemoryWindows!Next /\ UNCHANGED <<part, vars, delayVars, requestVars>>

ComputeDelays == part = "delays" /\ Delay!Next /\ UNCHANGED <<part, vars, windowVars, requestVars>>

SendRequests == part = "requests" /\ Request!Next /\ UNCHANGED <<part, vars, windowVars, delayVars>>

PartsNext ==
  PaceOnRedis \/ PaceInMemory \/ CountOnRedis \/ CountInMemory \/ ComputeDelays \/ SendRequests

PartsSpec == PartsInit /\ [][PartsNext]_<<part, vars, windowVars, delayVars, requestVars>>

Symmetry == Permutations(Sends)

\* One log line for each threshold that the sends of a window reach, and for no
\* other (logWindowThreshold); on Redis, where a call may fail, never two.
AlertsAreRight ==
  /\ part = "windows in memory" => MemoryWindows!AlertsMatchSends
  /\ part = "windows on redis" => RedisWindows!AtMostOneAlert

\* The three delays stay within what their knobs say, for every draw
\* (calculateBufferTimeout, transientRetryDelayMs, computeDelay).
DelaysAreBounded == part = "delays" => Delay!DelaysAreBounded

\* Through the retries of the client and of the agent, a send is repeated only
\* for an answer that was lost, and given up on only if it was not carried out.
SendsAreAsBelieved == Request!SendsAreAsBelieved
=============================================================================
