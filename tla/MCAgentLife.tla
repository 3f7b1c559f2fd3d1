---------------------------- MODULE MCAgentLife ----------------------------
(* Bounds for AgentLife: one chat, its generations, crashes and drops.     *)
EXTENDS AgentLife
=============================================================================
