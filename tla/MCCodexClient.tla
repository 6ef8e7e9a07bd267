--------------------------- MODULE MCCodexClient ---------------------------
(* A connection with the request that opens the thread and two more, so that *)
(* callers and the reader wait for the write lock, and a queue that overflows. *)
EXTENDS CodexClient
=============================================================================
