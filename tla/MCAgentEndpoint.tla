-------------------------- MODULE MCAgentEndpoint --------------------------
(* Configurations of the agent endpoint for TLC. *)
EXTENDS AgentEndpoint
=============================================================================
