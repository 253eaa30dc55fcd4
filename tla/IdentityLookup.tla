--------------------------- MODULE IdentityLookup ---------------------------
(***************************************************************************)
(* The enrichment of a conversation with the sender's contact: the         *)
(* resolver (src/src/identity/resolver.ts), its cache (contact-store.ts)   *)
(* and the inbound handler that asks (agent.ts, under the lock of the      *)
(* conversation's key).  A user can have a conversation with each of       *)
(* several businesses; their lookups run at the same time.                 *)
(***************************************************************************)
EXTENDS Naturals, FiniteSets

CONSTANTS
  Users, Businesses,
  Names,      \* what the developer's endpoint can answer of a user
  Nothing,    \* no contact
  MaxInbounds \* inbound messages of a conversation (bound)

Conversations == Users \X Businesses

Replies == Names \cup {Nothing}

NothingAssumption == Nothing \notin Names

VARIABLES
  contact, \* of each conversation: record.contact
  cache,   \* of each user: what the ContactStore holds
  asking,  \* of each conversation: the lookup its handler awaits, in the lock
  inbounds,\* auxiliary: messages handled
  calls    \* auxiliary: of each conversation, how often the endpoint was called

vars == <<contact, cache, asking, inbounds, calls>>

\* Of each user, a contact: whose it is and what it says.
NoContact == [of |-> Nothing, name |-> Nothing]

Init ==
  /\ contact = [c \in Conversations |-> NoContact]
  /\ cache = [k \in Users |-> NoContact]
  /\ asking = [c \in Conversations |-> FALSE]
  /\ inbounds = [c \in Conversations |-> 0]
  /\ calls = [c \in Conversations |-> 0]

\* Mutant of ContactKey: the cache does not tell users apart.
ContactKeyOfOne(user) == CHOOSE u \in Users: TRUE

\* contactKey: the channel and the user, and not the business.
ContactKey(user) == user

\* Stamped with the request's user; an answer without a known field is no contact.
ShapeContact(user, name) == IF name = Nothing THEN NoContact ELSE [of |-> user, name |-> name]

IsEnriched(c) == contact[c] # NoContact

\* handleInbound, up to the await: a contact is kept, a cached one is taken, else
\* the endpoint is called.
Inbound(c) ==
  /\ ~asking[c]
  /\ inbounds[c] < MaxInbounds
  /\ inbounds' = [inbounds EXCEPT ![c] = @ + 1]
  /\ LET cached == cache[ContactKey(c[1])] IN
     CASE IsEnriched(c) -> UNCHANGED <<contact, asking, calls>>
       [] ~IsEnriched(c) /\ cached # NoContact ->
            /\ contact' = [contact EXCEPT ![c] = cached]
            /\ UNCHANGED <<asking, calls>>
       [] OTHER ->
            /\ asking' = [asking EXCEPT ![c] = TRUE]
            /\ calls' = [calls EXCEPT ![c] = @ + 1]
            /\ UNCHANGED contact
  /\ UNCHANGED cache

\* The answer, shaped and cached; or none: a status, a timeout, an unreadable
\* body, all of them the same to the caller.
Answer(c, name) ==
  /\ asking[c]
  /\ asking' = [asking EXCEPT ![c] = FALSE]
  /\ LET found == ShapeContact(c[1], name) IN
     IF found = NoContact
     THEN UNCHANGED <<contact, cache>>
     ELSE /\ cache' = [cache EXCEPT ![ContactKey(c[1])] = found]
          /\ contact' = [contact EXCEPT ![c] = found]
  /\ UNCHANGED <<inbounds, calls>>

\* The record expires in the store; the cache of the process does not.
Expire(c) ==
  /\ ~asking[c]
  /\ contact[c] # NoContact
  /\ contact' = [contact EXCEPT ![c] = NoContact]
  /\ UNCHANGED <<cache, asking, inbounds, calls>>

Restart ==
  /\ cache' = [k \in Users |-> NoContact]
  /\ asking' = [c \in Conversations |-> FALSE]
  /\ UNCHANGED <<contact, inbounds, calls>>

Next ==
  \/ Restart
  \/ \E c \in Conversations: Inbound(c) \/ Expire(c) \/ \E name \in Replies: Answer(c, name)

Spec == Init /\ [][Next]_vars

-----------------------------------------------------------------------------
\* A conversation is enriched with its own user's contact, through the cache too,
\* whatever the endpoint answers for whom at the same time.
OwnContact == \A c \in Conversations: contact[c].of \in {c[1], Nothing}
=============================================================================
