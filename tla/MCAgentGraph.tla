---------------------------- MODULE MCAgentGraph ----------------------------
(* Instances of AgentGraph for TLC. *)
EXTENDS AgentGraph

OneTask == { <<{}>> }
=============================================================================
