-------------------------- MODULE MCClaudeSession --------------------------
(* A session of two turns, and requests that differ in what open_session and *)
(* the permission callback make of them.                                     *)
EXTENDS ClaudeSession

MCRequest(flaws, approval, schema, mcp) ==
    [flaws |-> flaws, approval |-> approval, handler |-> approval = "ask", schema |-> schema,
     mcp |-> mcp]

MCRequests ==
    {MCRequest({}, "ask", FALSE, "optional down"),
     MCRequest({}, "allow", TRUE, "connected"),
     MCRequest({}, "provider_review", FALSE, "connected"),
     MCRequest({}, "deny", FALSE, "required down"),
     MCRequest({"internal", "developer"}, "deny", FALSE, "connected"),
     MCRequest({"full access"}, "ask", FALSE, "connected")}
=============================================================================
