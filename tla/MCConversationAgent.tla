------------------------ MODULE MCConversationAgent ------------------------
(***************************************************************************)
(* The instances of ConversationAgent that TLC checks: the deployments and *)
(* the replies a run uses, and the symmetry of the runs that check no      *)
(* liveness.                                                               *)
(***************************************************************************)
EXTENDS ConversationAgent, TLC

Anywhere == AgentDeps
Answering == {deps \in AgentDeps : deps.hasAdapter}
InMemory == {[scheduler |-> "in_memory", hasAdapter |-> TRUE]}
OnBullMQ == {[scheduler |-> "bullmq", hasAdapter |-> TRUE]}

Silence == <<>>
OneMessage == <<"message">>
TwoMessages == <<"message", "message">>
ReactionFirst == <<"reaction", "message">>

ShortReplies == {Silence, OneMessage}
OneReply == {OneMessage}
LongReply == {TwoMessages}
MixedReplies == {Silence, TwoMessages, ReactionFirst}

\* Messages and flush slots are interchangeable: nothing orders them.
Symmetry == Permutations(Messages) \union Permutations(Flushes)
=============================================================================
