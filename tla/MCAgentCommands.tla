-------------------------- MODULE MCAgentCommands --------------------------
(* Instances of AgentCommands for TLC.                                     *)
EXTENDS AgentCommands
=============================================================================
