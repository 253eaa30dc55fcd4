----------------------------- MODULE SendPacing -----------------------------
(***************************************************************************)
(* The pacing of the sends of one line (channel and business account):     *)
(* acquireSendSlot of src/src/limits/tracker.ts over either counter store. *)
(*                                                                         *)
(* A send reserves the next slot of a virtual clock and sleeps until it.   *)
(* In memory, reading the clock and reserving are one step.  With Redis    *)
(* the clock is read by the process and the slot reserved by a script that *)
(* runs later, beside those of other replicas; the key that holds the last *)
(* slot expires.                                                           *)
(***************************************************************************)
EXTENDS Naturals, FiniteSets

CONSTANTS
  Sends,       \* the sends on the line, of any conversation and replica
  SharedStore, \* the store is the Redis one
  Interval,    \* 1000 / perSecond; pacing is not disabled
  Ttl,         \* lifetime of the slot key, max(4 * Interval, 1 s)
  Start,       \* the clock when the line is first used
  MaxLatency,  \* time from the reading of the clock to the script (bound)
  MaxAhead,    \* sends of the line that are under way at once (bound)
  MaxTime      \* time after which no send starts (bound)

ASSUME IntervalAssumption == Interval \in Nat \ {0}
ASSUME StoreAssumption == SharedStore \in BOOLEAN /\ Ttl \in Nat /\ Ttl >= 4 * Interval
ASSUME ClockAssumption == Start \in Nat /\ MaxLatency \in Nat /\ MaxTime \in Nat
ASSUME AheadAssumption == MaxAhead \in Nat

VARIABLES
  now,       \* the clock of the processes and of Redis
  lastSlot,  \* the slot reserved last
  expiry,    \* when the Redis key of lastSlot is forgotten
  stage,     \* of each send: where it is in acquireSendSlot
  asked,     \* of each send: the clock it read
  slot       \* of each send: the slot it reserved

vars == <<now, lastSlot, expiry, stage, asked, slot>>

\* "sent" is a send on its way to Meta, "unpaced" one that went without a slot.
Stages == {"idle", "asking", "sleeping", "sent", "unpaced"}

TypeOK ==
  /\ now \in Nat
  /\ lastSlot \in Nat
  /\ expiry \in Nat
  /\ stage \in [Sends -> Stages]
  /\ asked \in [Sends -> Nat]
  /\ slot \in [Sends -> Nat]

Init ==
  /\ now = Start
  /\ lastSlot = 0
  /\ expiry = 0
  /\ stage = [s \in Sends |-> "idle"]
  /\ asked = [s \in Sends |-> 0]
  /\ slot = [s \in Sends |-> 0]

UnderWay == {s \in Sends : stage[s] \in {"asking", "sleeping"}}

MayStart(s) == stage[s] = "idle" /\ now <= MaxTime /\ Cardinality(UnderWay) < MaxAhead

-----------------------------------------------------------------------------
(* Reserving a slot *)

\* Mutant of NextSlot: a burst shares the slot that was reserved last.
NextSlotShared(at, last) == IF at > last THEN at ELSE last

\* The virtual clock: an idle line starts at the clock, a busy one an interval
\* after the last slot.
NextSlot(at, last) == IF at > last + Interval THEN at ELSE last + Interval

\* The slot is s's and becomes the last one of the line.
Reserve(s, at, reserved) ==
  /\ asked' = [asked EXCEPT ![s] = at]
  /\ slot' = [slot EXCEPT ![s] = reserved]
  /\ lastSlot' = reserved
  /\ stage' = [stage EXCEPT ![s] = "sleeping"]

\* InMemoryLimitCounterStore.acquireOutboundSlot; an unused line counts from 0.
ReserveInMemory(s) ==
  /\ ~SharedStore
  /\ MayStart(s)
  /\ Reserve(s, now, NextSlot(now, lastSlot))
  /\ UNCHANGED <<now, expiry>>

\* RedisLimitCounterStore.acquireOutboundSlot reads the clock and calls eval.
AskRedis(s) ==
  /\ SharedStore
  /\ MayStart(s)
  /\ asked' = [asked EXCEPT ![s] = now]
  /\ stage' = [stage EXCEPT ![s] = "asking"]
  /\ UNCHANGED <<now, lastSlot, expiry, slot>>

\* A missing key counts as a slot one interval before the clock that was read.
RedisSlot(at) == IF now < expiry THEN NextSlot(at, lastSlot) ELSE at

\* ACQUIRE_LUA runs, and the lifetime of the key starts over.
RedisReserves(s) ==
  /\ stage[s] = "asking"
  /\ Reserve(s, asked[s], RedisSlot(asked[s]))
  /\ expiry' = now + Ttl
  /\ UNCHANGED now

ProceedUnpaced(s) == stage' = [stage EXCEPT ![s] = "unpaced"]

\* The call of Redis fails: pacing fails open.
RedisFails(s) ==
  /\ stage[s] = "asking"
  /\ ProceedUnpaced(s)
  /\ UNCHANGED <<now, lastSlot, expiry, asked, slot>>

\* The sleep until the slot is over.
SendPaced(s) ==
  /\ stage[s] = "sleeping"
  /\ now >= slot[s]
  /\ stage' = [stage EXCEPT ![s] = "sent"]
  /\ UNCHANGED <<now, lastSlot, expiry, asked, slot>>

\* Time passes, but no call of Redis takes longer than MaxLatency.
Tick ==
  /\ now < MaxTime \/ \E s \in Sends : stage[s] = "sleeping" /\ now < slot[s]
  /\ \A s \in Sends : stage[s] = "asking" => now < asked[s] + MaxLatency
  /\ now' = now + 1
  /\ UNCHANGED <<lastSlot, expiry, stage, asked, slot>>

Acquire(s) ==
  \/ ReserveInMemory(s)
  \/ AskRedis(s)
  \/ RedisReserves(s)
  \/ RedisFails(s)
  \/ SendPaced(s)

Next == Tick \/ \E s \in Sends : Acquire(s)

Spec == Init /\ [][Next]_vars

-----------------------------------------------------------------------------
(* Properties *)

Paced(s) == stage[s] = "sleeping" \/ stage[s] = "sent"

Apart(a, b) == a >= b + Interval \/ b >= a + Interval

\* No two slots of a line are closer than the interval, whatever bursts, idle
\* times and replicas: "a burst of N back-to-back calls is spread out at
\* `intervalMs` apart" (store.ts), "every replica observes a strictly advancing
\* slot clock" (redis-store.ts).
SlotsAreApart == \A s, t \in Sends : s # t /\ Paced(s) /\ Paced(t) => Apart(slot[s], slot[t])
=============================================================================
