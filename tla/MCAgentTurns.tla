--------------------------- MODULE MCAgentTurns ---------------------------
(* A session with two turns of at most two events each, over a queue of one. *)
EXTENDS AgentTurns
=============================================================================
