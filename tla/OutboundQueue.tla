--------------------------- MODULE OutboundQueue ---------------------------
(***************************************************************************)
(* The outbound queue of a conversation turn: its items, its cursor and    *)
(* the per-channel advancement policy (src/src/delivery/queue.ts,          *)
(* src/src/delivery/types.ts).  Only constant operators: the state machine *)
(* that drives the queue is ConversationAgent.                             *)
(*                                                                         *)
(* What a reply says is abstracted to the kind of each deliverable item:   *)
(*   "message"   message, reply, template, media: the send returns an id;  *)
(*   "reaction"  reaction, typing: fire and forget, no id.                 *)
(* Capability filtering, downgrades and target resolution decide WHICH     *)
(* items a reply yields, so a reply here is the sequence of kinds that     *)
(* buildOutboundItems returns; the empty one is silence, no actions, or    *)
(* nothing deliverable.                                                    *)
(***************************************************************************)
EXTENDS Naturals, Sequences

Channels == {"whatsapp", "messenger", "instagram"}

Kinds == {"message", "reaction"}

\* The absent id: ids (uuids and channel message ids) are minted from 1 up.
None == 0

(***************************************************************************)
(* An OutboundItem.  retryCount counts the synchronous transient retries   *)
(* and asyncFailRetryCount the ones a failed status asked for.  attempts   *)
(* is auxiliary: the send calls made for the item, read by no action.      *)
(***************************************************************************)
Items == [id: Nat \ {None}, kind: Kinds, channelMessageId: Nat, skipped: BOOLEAN,
          retryCount: Nat, asyncFailRetryCount: Nat, attempts: Nat]

NewItem(id, kind) ==
  [id |-> id, kind |-> kind, channelMessageId |-> None, skipped |-> FALSE,
   retryCount |-> 0, asyncFailRetryCount |-> 0, attempts |-> 0]

\* Mutant of BuildOutboundItems: the ids are off by one.
BuildOutboundItemsOffByOne(reply, last) ==
  [i \in 1 .. Len(reply) |-> NewItem(last + i - 1, reply[i])]

\* The items of a reply, with the uuids that follow `last`.
BuildOutboundItems(reply, last) ==
  [i \in 1 .. Len(reply) |-> NewItem(last + i, reply[i])]

AdvancementMode(channel) ==
  IF channel = "whatsapp" THEN "on_status" ELSE "on_send"

StatusAdvancesQueue(channel, status) ==
  /\ AdvancementMode(channel) = "on_status"
  /\ status \in {"sent", "delivered"}

\* The cursor counts from 0, as the array index of the code does.
IsQueueComplete(items, cursor) == cursor >= Len(items)

CurrentItem(items, cursor) == items[cursor + 1]

\* The queue with the item at the cursor replaced; none there, no change.
UpdateCurrent(items, cursor, item) ==
  IF IsQueueComplete(items, cursor) THEN items
  ELSE [items EXCEPT ![cursor + 1] = item]
=============================================================================
