---------------------------- MODULE MCReactions ----------------------------
(***************************************************************************)
(* WebhookIntake with the three webhooks of a reaction that is put on, taken *)
(* off and put on again, one message long: the same emoji, the same target. *)
(***************************************************************************)
EXTENDS WebhookIntake

React(id, action) ==
  [id |-> id, kind |-> "reaction", user |-> "ada", business |-> "page", stamp |-> 4,
   target |-> "sent", action |-> action]

Reactions == {<<React(1, "react")>>, <<React(2, "unreact")>>, <<React(3, "react")>>}
=============================================================================
