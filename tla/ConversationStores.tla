------------------------- MODULE ConversationStores -------------------------
(***************************************************************************)
(* The claims of the two stores behind the agent: InMemoryConversationStore *)
(* (src/src/conversation/store.ts), whose entries are compared with the    *)
(* clock and never swept, and RedisConversationStore (redis-store.ts),     *)
(* whose keys expire.  The platform delivers an event again until it sees  *)
(* a 200; the admin route peeks at a claim.                                *)
(***************************************************************************)
EXTENDS Integers

CONSTANTS
  Ids,         \* channel message ids
  Callers,     \* handlers, in one process or (on Redis) in several
  Nobody,      \* not a caller
  DedupeTtl,   \* dedupeTtlSeconds, in days
  RetryWindow, \* how long the platform delivers again, in days
  MaxTime      \* the last day (bound)

StoresAssumption ==
  /\ Nobody \notin Callers
  /\ DedupeTtl \in Nat \ {0} /\ RetryWindow \in Nat /\ MaxTime \in Nat

VARIABLES
  onRedis, \* which of the two stores this deployment has
  now,
  handles, \* of each id: the expiry the store holds, or Absent
  seen,    \* auxiliary: of each id, what the last peek answered
  taker,   \* auxiliary: of each id, who was told to process it last
  until,   \* auxiliary: of each id, when a claim of it is over
  first,   \* auxiliary: when an id was delivered first, or Absent
  taken    \* auxiliary: how often an id was processed

vars == <<onRedis, now, handles, seen, taker, until, first, taken>>

Absent == -1

Init ==
  /\ onRedis \in BOOLEAN
  /\ now = 0
  /\ handles = [i \in Ids |-> Absent]
  /\ seen = [i \in Ids |-> [at |-> Absent, present |-> FALSE]]
  /\ taker = [i \in Ids |-> Nobody]
  /\ until = [i \in Ids |-> 0]
  /\ first = [i \in Ids |-> Absent]
  /\ taken = [i \in Ids |-> 0]

\* Mutant of IsHeld: an id is free a moment early.
IsHeldNever(i) == handles[i] > now + 1

\* A key of Redis is there until it expires; an entry of the map is compared.
IsHeld(i) == IF onRedis THEN handles[i] # Absent ELSE handles[i] > now

\* The platform delivers, for the first time or again.
Deliver(i) ==
  /\ first[i] = Absent \/ now <= first[i] + RetryWindow
  /\ first' = [first EXCEPT ![i] = IF @ = Absent THEN now ELSE @]

\* SET NX EX, or its equivalent within one turn of the event loop: the expiry is
\* that of the claim, a refused caller does not touch it.
Claim(i, c) ==
  /\ Deliver(i)
  /\ IF IsHeld(i)
     THEN UNCHANGED <<handles, taker, until, taken>>
     ELSE /\ handles' = [handles EXCEPT ![i] = now + DedupeTtl]
          /\ taker' = [taker EXCEPT ![i] = c]
          /\ until' = [until EXCEPT ![i] = now + DedupeTtl]
          /\ taken' = [taken EXCEPT ![i] = @ + 1]
  /\ UNCHANGED <<onRedis, now, seen>>

\* GET /admin/dedupe: TTL alone, or the comparison with the clock.
Peek(i) ==
  /\ seen' = [seen EXCEPT ![i] = [at |-> now, present |-> IsHeld(i)]]
  /\ UNCHANGED <<onRedis, now, handles, taker, until, first, taken>>

Tick ==
  /\ now < MaxTime
  /\ now' = now + 1
  /\ handles' = [i \in Ids |-> IF onRedis /\ handles[i] <= now' THEN Absent ELSE handles[i]]
  /\ UNCHANGED <<onRedis, seen, taker, until, first, taken>>

Next ==
  \/ Tick
  \/ \E i \in Ids: Peek(i)
  \/ \E i \in Ids, c \in Callers: Claim(i, c)

Spec == Init /\ [][Next]_vars

-----------------------------------------------------------------------------
\* The answer of the admin route agrees with what a handler would be told at that
\* moment: a key is not reported after it can be claimed again, nor missed before.
PeekIsTruthful == \A i \in Ids: seen[i].at = now /\ taken[i] > 0 =>
  \/ seen[i].present = (until[i] > now)
  \/ until[i] = now + DedupeTtl      \* claimed since
=============================================================================
