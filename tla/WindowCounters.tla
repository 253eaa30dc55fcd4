--------------------------- MODULE WindowCounters ---------------------------
(***************************************************************************)
(* The outbound counters of one line: recordOutbound of                    *)
(* src/src/limits/tracker.ts, which counts each send in the fixed window   *)
(* of its hour and of its day and logs when a count crosses 80% of a cap   *)
(* or reaches it.  Nothing waits for the counters and nothing is gated.    *)
(*                                                                         *)
(* In memory both windows are counted in one step.  In Redis each window   *)
(* is a key of its own, bumped by a script of its own, and either fails    *)
(* alone.                                                                  *)
(***************************************************************************)
EXTENDS Naturals, FiniteSets

CONSTANTS
  Sends,       \* the sends on the line
  SharedStore, \* the store is the Redis one
  Caps,        \* the configured cap of each window; 0 disables it
  DayHours,    \* hours in a day; the clock counts hours
  MaxHour      \* the last hour (bound)

Windows == {"hour", "day"}

Levels == {"warn", "error"}

StoreAssumption == SharedStore \in BOOLEAN
CapsAssumption == Caps \in [Windows -> Nat]
ClockAssumption == DayHours \in Nat \ {0} /\ MaxHour \in Nat

VARIABLES
  hour,      \* the clock
  counters,  \* in memory: the live bucket of each window and its count
  keys,      \* in Redis: the count of each bucket of each window
  recording, \* of each send: where its recordOutbound is
  recorded,  \* of each send: the clock it read
  reply,     \* of each send and window: the count it got, 0 before, or "failed"
  logged     \* auxiliary: how often each level was logged of each bucket

vars == <<hour, counters, keys, recording, recorded, reply, logged>>

Buckets == 0 .. MaxHour

Bucket(w, t) == IF w = "hour" THEN t ELSE t \div DayHours

Failed == [failed |-> TRUE]

Counted(n) == [failed |-> FALSE, count |-> n]

Init ==
  /\ hour = 0
  /\ counters = [w \in Windows |-> [bucket |-> 0, count |-> 0]]
  /\ keys = [w \in Windows |-> [b \in Buckets |-> 0]]
  /\ recording = [s \in Sends |-> "no"]
  /\ recorded = [s \in Sends |-> 0]
  /\ reply = [s \in Sends |-> [w \in Windows |-> Counted(0)]]
  /\ logged = [w \in Windows |-> [b \in Buckets |-> [l \in Levels |-> 0]]]

-----------------------------------------------------------------------------
(* The log *)

WarnAt(cap) == (cap * 8) \div 10

\* Mutant of Crosses: every send past a threshold is logged.
CrossesAgain(level, count, cap) == cap > 0 /\ count >= (IF level = "warn" THEN WarnAt(cap) ELSE cap)

\* The count has come exactly to the threshold of the level.
Crosses(level, count, cap) == cap > 0 /\ count = (IF level = "warn" THEN WarnAt(cap) ELSE cap)

\* logWindowThreshold for both windows, with the counts got at clock t.
LogThresholds(t, count) ==
  logged' = [w \in Windows |-> [b \in Buckets |-> [l \in Levels |->
    IF b = Bucket(w, t) /\ Crosses(l, count[w], Caps[w]) THEN logged[w][b][l] + 1
                                                         ELSE logged[w][b][l]]]]

-----------------------------------------------------------------------------
(* Counting *)

\* Mutant of Bumped: the count of the window before is carried over.
BumpedOn(counter, b) == [bucket |-> b, count |-> counter.count + 1]

\* A new bucket starts at 1, the live one goes on.
Bumped(counter, b) ==
  [bucket |-> b, count |-> IF counter.bucket = b THEN counter.count + 1 ELSE 1]

\* InMemoryLimitCounterStore.incrementWindowCounters, and the log.
RecordInMemory(s) ==
  /\ ~SharedStore
  /\ recording[s] = "no"
  /\ recording' = [recording EXCEPT ![s] = "over"]
  /\ recorded' = [recorded EXCEPT ![s] = hour]
  /\ counters' = [w \in Windows |-> Bumped(counters[w], Bucket(w, hour))]
  /\ LogThresholds(hour, [w \in Windows |-> counters'[w].count])
  /\ UNCHANGED <<hour, keys, reply>>

\* The clock is read and both scripts are sent.
AskRedis(s) ==
  /\ SharedStore
  /\ recording[s] = "no"
  /\ recording' = [recording EXCEPT ![s] = "asking"]
  /\ recorded' = [recorded EXCEPT ![s] = hour]
  /\ UNCHANGED <<hour, counters, keys, reply, logged>>

Awaits(s, w) == SharedStore /\ recording[s] # "no" /\ reply[s][w] = Counted(0)

\* BUMP_WINDOW_LUA increments the key of the bucket.
RedisBumps(s, w) ==
  /\ Awaits(s, w)
  /\ LET b == Bucket(w, recorded[s]) IN
       /\ keys' = [keys EXCEPT ![w][b] = @ + 1]
       /\ reply' = [reply EXCEPT ![s][w] = Counted(keys[w][b] + 1)]
  /\ UNCHANGED <<hour, counters, recording, recorded, logged>>

\* One of the two calls fails.
RedisFails(s, w) ==
  /\ Awaits(s, w)
  /\ reply' = [reply EXCEPT ![s][w] = Failed]
  /\ UNCHANGED <<hour, counters, keys, recording, recorded, logged>>

\* Both counts have come: they are logged.
LogReplies(s) ==
  /\ recording[s] = "asking"
  /\ \A w \in Windows : ~reply[s][w].failed /\ reply[s][w] # Counted(0)
  /\ LogThresholds(recorded[s], [w \in Windows |-> reply[s][w].count])
  /\ recording' = [recording EXCEPT ![s] = "over"]
  /\ UNCHANGED <<hour, counters, keys, recorded, reply>>

\* Promise.all rejects at the first failure: nothing is logged, and the other
\* call may still be under way.
SkipReplies(s) ==
  /\ recording[s] = "asking"
  /\ \E w \in Windows : reply[s][w].failed
  /\ recording' = [recording EXCEPT ![s] = "over"]
  /\ UNCHANGED <<hour, counters, keys, recorded, reply, logged>>

Tick ==
  /\ hour < MaxHour
  /\ hour' = hour + 1
  /\ UNCHANGED <<counters, keys, recording, recorded, reply, logged>>

Next ==
  \/ Tick
  \/ \E s \in Sends :
       \/ RecordInMemory(s) \/ AskRedis(s) \/ LogReplies(s) \/ SkipReplies(s)
       \/ \E w \in Windows : RedisBumps(s, w) \/ RedisFails(s, w)

Spec == Init /\ [][Next]_vars

-----------------------------------------------------------------------------
(* Properties *)

\* The sends that were counted in a bucket.
Sent(w, b) ==
  {s \in Sends : /\ Bucket(w, recorded[s]) = b
                 /\ \/ recording[s] = "over" /\ ~SharedStore
                    \/ ~reply[s][w].failed /\ reply[s][w] # Counted(0)}

\* "a steady stream over the cap emits ONE warn + ONE error per window, not a
\* log line on every send past the threshold" (logWindowThreshold): never more
\* than one, whatever concurrent sends and roll-overs.
AtMostOneAlert ==
  \A w \in Windows, b \in Buckets, l \in Levels : logged[w][b][l] <= 1

\* An operator is told of every window whose sends reached a threshold, and of
\* no other: none of its records being under way, a bucket was logged once per
\* level that its count has passed.
AlertsMatchSends ==
  \A w \in Windows, b \in Buckets, l \in Levels :
    (\A s \in Sends : recording[s] = "asking" => Bucket(w, recorded[s]) # b) =>
      (logged[w][b][l] = 1 <=> \E n \in 1 .. Cardinality(Sent(w, b)) : Crosses(l, n, Caps[w]))
=============================================================================
