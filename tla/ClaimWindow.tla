----------------------------- MODULE ClaimWindow -----------------------------
(***************************************************************************)
(* What claimInboundHandle promises (the ConversationStore interface of    *)
(* src/src/conversation/store.ts): whoever asks for an id first has it,    *)
(* and nobody else has it until the lifetime of the claim is over.         *)
(***************************************************************************)
EXTENDS Integers

CONSTANTS
  Ids,     \* channel message ids
  Callers, \* the handlers that claim
  Ttl,     \* dedupeTtlSeconds
  Nobody   \* not a caller

VARIABLES
  now,
  holder,  \* of each id: who has it
  until    \* of each id: when it is free again

vars == <<now, holder, until>>

Init ==
  /\ now = 0
  /\ holder = [i \in Ids |-> Nobody]
  /\ until = [i \in Ids |-> 0]

Grant(i, c) ==
  /\ until[i] <= now
  /\ holder' = [holder EXCEPT ![i] = c]
  /\ until' = [until EXCEPT ![i] = now + Ttl]
  /\ UNCHANGED now

Tick ==
  /\ now' = now + 1
  /\ UNCHANGED <<holder, until>>

Next == Tick \/ \E i \in Ids, c \in Callers: Grant(i, c)

Spec == Init /\ [][Next]_vars
=============================================================================
