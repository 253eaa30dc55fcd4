---------------------------- MODULE MCAgentRecovery ----------------------------
(* TLC's instance of AgentRecovery in which replicas restart one by one. *)
EXTENDS AgentRecovery

\* A replica restarts while the other has a retry pending.
RollingRestarts ==
  {[replicas |-> Processes, inbound |-> Messages, onStatus |-> TRUE, maxCrashes |-> 2,
    quiet |-> FALSE]}
=============================================================================
