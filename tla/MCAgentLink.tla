---------------------------- MODULE MCAgentLink ----------------------------
(* Small instances of AgentLink for TLC. *)
EXTENDS AgentLink
=============================================================================
