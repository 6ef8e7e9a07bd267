---------------------------- MODULE MCCodexTurn ----------------------------
(* A turn over a server that sends a few messages, of the turn and of        *)
(* another one, in any order and at any time.                                *)
EXTENDS CodexTurn
=============================================================================
