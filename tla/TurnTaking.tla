----------------------------- MODULE TurnTaking -----------------------------
(***************************************************************************)
(* What a conversation promises its user, whatever the buffering, aborts,  *)
(* interrupts and failed calls in between: every accepted message is part  *)
(* of exactly one turn, turns follow one another, and a turn settles all   *)
(* the messages it took, which are the oldest unsettled ones.              *)
(*                                                                         *)
(* ConversationAgent implements it under the BullMQ scheduler, where at    *)
(* most one flush of a key is alive (ImplementsTurnTaking).                *)
(***************************************************************************)
EXTENDS SequencesExt

CONSTANT Messages

VARIABLES
  accepted,   \* the messages, in the order in which they were accepted
  answered    \* those of the settled turns, in the order of the turns

Init ==
  /\ accepted = <<>>
  /\ answered = <<>>

Accept(m) ==
  /\ m \notin Range(accepted)
  /\ accepted' = Append(accepted, m)
  /\ UNCHANGED answered

\* A turn of the messages up to the n-th is settled.
Settle(n) ==
  /\ answered' = SubSeq(accepted, 1, n)
  /\ UNCHANGED accepted

Next ==
  \/ \E m \in Messages : Accept(m)
  \/ \E n \in Len(answered) + 1 .. Len(accepted) : Settle(n)

Spec == Init /\ [][Next]_<<accepted, answered>>
=============================================================================
