---------------------------- MODULE WebhookIntake ----------------------------
(***************************************************************************)
(* The way of a webhook: the signed POST is acknowledged, parsed           *)
(* (src/src/meta/parser.ts) and dispatched item by item                    *)
(* (src/src/http/app.ts) to the agent, which claims the handle of every    *)
(* message in the store (src/src/conversation/agent.ts).  The platform     *)
(* delivers again what it saw no 200 for.  A shutdown closes the agent and *)
(* the store's connection before the server (src/src/index.ts).            *)
(***************************************************************************)
EXTENDS Naturals, Sequences, FiniteSets

CONSTANTS
  Payloads,  \* what the platform delivers: sequences of events
  MaxTries   \* deliveries of one payload (bound)

Kinds == {"message", "postback", "unknown", "reaction", "status"}

PayloadsAssumption ==
  \A p \in Payloads: DOMAIN p = 1 .. Len(p) /\ \A i \in DOMAIN p: p[i].kind \in Kinds

EventsAssumption ==
  \A p, q \in Payloads: \A i \in DOMAIN p, j \in DOMAIN q: p[i].id = q[j].id => p[i] = q[j]

\* What the platform's ids and moments are taken to mean: older postbacks of one moment
\* are one, events of one moment come in one payload, once each, a reaction is not
\* repeated, and a payload has one status of a message.
MomentsAssumption ==
  \A p, q \in Payloads: \A i \in DOMAIN p, j \in DOMAIN q:
    LET e == p[i]
        f == q[j]
    IN e.kind = f.kind =>
         /\ e.kind \in {"postback", "unknown"} /\ e.business = f.business /\ e.stamp = f.stamp =>
              IF e.kind = "postback" THEN e = f ELSE p = q /\ (e = f => i = j)
         /\ e.kind = "reaction" /\ e.user = f.user /\ e.target = f.target /\ e.action = f.action =>
              e = f
         /\ e.kind = "status" /\ p = q /\ e.target = f.target => e = f

\* A message is delivered again with the payload it came in.
BatchesAssumption ==
  \A p, q \in Payloads: \A i \in DOMAIN p, j \in DOMAIN q: p[i] = q[j] => p = q

TriesAssumption == MaxTries \in Nat \ {0}

VARIABLES
  tries,     \* of each payload: how often it was delivered
  settled,   \* the payloads whose 200 the platform has seen
  server,    \* "open", "draining" (the agent closes), "cut off" (from the store) or "down"
  dispatch,  \* of each delivery: the places of the items that the agent has yet to take
  claims,    \* the handles in the store
  taken,     \* the events that the agent took, in order
  dropped,   \* auxiliary: the events that were taken for duplicates
  lost       \* auxiliary: the events whose handling failed, after the 200

vars == <<tries, settled, server, dispatch, claims, taken, dropped, lost>>

Deliveries == Payloads \X (1 .. MaxTries)

Init ==
  /\ tries = [p \in Payloads |-> 0]
  /\ settled = {}
  /\ server = "open"
  /\ dispatch = [d \in Deliveries |-> {}]
  /\ claims = {}
  /\ taken = <<>>
  /\ dropped = {}
  /\ lost = {}

-----------------------------------------------------------------------------
(* The parser *)

\* Mutant of Nth: no counter; events of one moment share a handle.
NthWithoutCounter(p, i) == 1

\* The place of an unmodeled event among the payload's unmodeled events.
Nth(p, i) == Cardinality({j \in 1 .. i: p[j].kind = "unknown"})

\* channelMessageId: a message has the platform's own id,
MessageHandle(e) == <<"mid", e.id>>

\* a postback, in older payloads, has none: page and moment stand for it,
PostbackHandle(e) == <<"postback", e.business, e.stamp>>

\* as they do, with the counter, for an event that the parser has no case for,
UnknownHandle(p, i) == <<"unknown", p[i].business, p[i].stamp, Nth(p, i)>>

\* and a reaction is known by who did what to which message.
ReactionHandle(e) == <<"reaction", e.user, e.target, e.action>>

\* A status has the id of the message that it is about.
StatusHandle(e) == <<"mid", e.target>>

HandleOf(p, i) ==
  CASE p[i].kind = "message"  -> MessageHandle(p[i])
    [] p[i].kind = "postback" -> PostbackHandle(p[i])
    [] p[i].kind = "unknown"  -> UnknownHandle(p, i)
    [] p[i].kind = "reaction" -> ReactionHandle(p[i])
    [] p[i].kind = "status"   -> StatusHandle(p[i])

\* The items of a payload, by their places.
Messages(p) == {i \in DOMAIN p: p[i].kind # "status"}

Statuses(p) == DOMAIN p \ Messages(p)

\* dedupeById keeps the first of each handle.
DedupeById(p, items) ==
  {i \in items: \A j \in items: j < i => HandleOf(p, j) # HandleOf(p, i)}

Parsed ==
  [p \in Payloads |-> DedupeById(p, Messages(p)) \union DedupeById(p, Statuses(p))]

\* The messages are dispatched before the statuses.
Before(p, i, j) ==
  \/ i \in Messages(p) /\ j \in Statuses(p)
  \/ i < j /\ ({i, j} \subseteq Messages(p) \/ {i, j} \subseteq Statuses(p))

EventsOf(p, items) == {p[i]: i \in items}

-----------------------------------------------------------------------------
(* The server *)

Listens == server \in {"open", "draining", "cut off"}

\* The 200 goes out before the payload is parsed; the platform may miss it.
Receive(p) ==
  /\ Listens
  /\ p \notin settled
  /\ tries[p] < MaxTries
  /\ tries' = [tries EXCEPT ![p] = @ + 1]
  /\ settled' \in {settled, settled \union {p}}
  /\ dispatch' = [dispatch EXCEPT ![<<p, tries'[p]>>] = Parsed[p]]
  /\ dropped' = dropped \union (EventsOf(p, DOMAIN p) \ EventsOf(p, Parsed[p]))
  /\ UNCHANGED <<server, claims, taken, lost>>

\* The items of a delivery are awaited one by one.
Items(d) == {i \in dispatch[d]: \A j \in dispatch[d] \ {i}: Before(d[1], i, j)}

\* Mutant of IsClaimed: the store's answer is ignored.
IsClaimedNever(p, i) == FALSE

\* claimInboundHandle; a status is not claimed.
IsClaimed(p, i) == i \in Messages(p) /\ HandleOf(p, i) \in claims

\* handleInbound and handleStatus fail softly: without the store the event is gone.
Take(d, i) ==
  LET p == d[1]
  IN /\ dispatch' = [dispatch EXCEPT ![d] = @ \ {i}]
     /\ IF server = "cut off"
          THEN /\ lost' = lost \union {p[i]}
               /\ UNCHANGED <<claims, taken, dropped>>
          ELSE IF IsClaimed(p, i)
            THEN /\ dropped' = dropped \union {p[i]}
                 /\ UNCHANGED <<claims, taken, lost>>
            ELSE /\ claims' = claims \union {HandleOf(p, j): j \in {i} \intersect Messages(p)}
                 /\ taken' = Append(taken, p[i])
                 /\ UNCHANGED <<dropped, lost>>
     /\ UNCHANGED <<tries, settled, server>>

HandleNext(d) ==
  /\ Listens
  /\ \E i \in Items(d): Take(d, i)

Sigterm ==
  /\ server = "open"
  /\ server' = "draining"
  /\ UNCHANGED <<tries, settled, dispatch, claims, taken, dropped, lost>>

\* agent.close() has resolved: the shared connection is closed.
Disconnect ==
  /\ server = "draining"
  /\ server' = "cut off"
  /\ UNCHANGED <<tries, settled, dispatch, claims, taken, dropped, lost>>

\* The process ends: killed, crashed, forced to exit, or after server.close().
Exit ==
  /\ Listens
  /\ server' = "down"
  /\ dispatch' = [d \in Deliveries |-> {}]
  /\ UNCHANGED <<tries, settled, claims, taken, dropped, lost>>

Restart ==
  /\ server = "down"
  /\ server' = "open"
  /\ UNCHANGED <<tries, settled, dispatch, claims, taken, dropped, lost>>

Next ==
  \/ \E p \in Payloads: Receive(p)
  \/ \E d \in Deliveries: HandleNext(d)
  \/ Sigterm
  \/ Disconnect
  \/ Exit
  \/ Restart

Spec == Init /\ [][Next]_vars

-----------------------------------------------------------------------------
(* Properties *)

IsTaken(e) == \E i \in DOMAIN taken: taken[i] = e

\* The agent takes a message once, however often and in how many payloads at
\* once it is delivered, and whatever process takes the second delivery.
TakenOnce ==
  \A i, j \in DOMAIN taken:
    taken[i] = taken[j] /\ taken[i].kind # "status" => i = j

\* Two messages of one payload are taken in the order they first stand in, also when the delivery
\* is repeated while the first one is still dispatched.
InOrder ==
  \A p \in Payloads: \A i, j \in Messages(p):
    i < j /\ p[j] \notin EventsOf(p, Messages(p) \intersect 1 .. i) =>
      \A k, l \in DOMAIN taken: taken[k] = p[i] /\ taken[l] = p[j] => k < l

\* What is dropped as a duplicate was taken before, or is in the same delivery
\* once more: no event is mistaken for another one (parser.ts:20, agent.ts:413).
DroppedIsDuplicate ==
  \A e \in dropped:
    \/ IsTaken(e)
    \/ e \in lost
    \/ \E d \in Deliveries: e \in EventsOf(d[1], dispatch[d])
    \/ server = "down"

HasWork == \E d \in Deliveries: dispatch[d] # {}

\* As long as the process lives and keeps its store, every delivery that was
\* answered with 200 is dispatched to its end.
AnsweredIsDispatched == HasWork ~> ~HasWork \/ server # "open"
=============================================================================
