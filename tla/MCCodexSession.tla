--------------------------- MODULE MCCodexSession ---------------------------
EXTENDS CodexSession

\* A contained session with a declared tool, two resumed ones that are streamed,
\* and a contained fork without tools; each with the messages its turns meet.
Ends_ == {<<"turn/completed", "-", "", "completed">>, <<"turn/completed", "-", "", "interrupted">>}
Said == {<<"item/completed", "m", "agentMessage", "final_answer">>}
MCSetups == {
    [open |-> "new", contained |-> TRUE, tools |-> TRUE, controlled |-> TRUE,
     emits |-> Ends_ \cup Said \cup {
        <<"item/started", "d", "dynamic", "declared">>, <<"call", "r", "d", "same">>,
        <<"item/completed", "d", "dynamic", "completed">>,
        <<"item/completed", "d", "dynamic", "failed">>, <<"resolved", "r", "", "">>}],
    [open |-> "resume", contained |-> FALSE, tools |-> FALSE, controlled |-> FALSE,
     emits |-> Ends_ \cup Said \cup {
        <<"turn/started", "-", "", "">>,
        <<"item/started", "i", "native", "">>, <<"item/completed", "i", "native", "">>,
        <<"activity", "i", "native", "">>,
        <<"request", "r", "i", "item">>, <<"resolved", "r", "", "">>,
        <<"rerouted", "-", "", "">>}],
    [open |-> "resume", contained |-> FALSE, tools |-> FALSE, controlled |-> FALSE,
     emits |-> Ends_ \cup Said \cup {
        <<"item/started", "c", "custom", "k">>, <<"item/completed", "c", "custom", "k">>,
        <<"item/completed", "k", "output", "">>,
        <<"item/started", "p", "mcp", "allowed">>, <<"item/completed", "p", "mcp", "">>,
        <<"settings", "-", "", "same">>, <<"inert", "-", "", "">>, <<"forbidden", "-", "", "">>}],
    [open |-> "fork", contained |-> TRUE, tools |-> FALSE, controlled |-> TRUE,
     emits |-> Ends_ \cup Said \cup {
        <<"raw", "f", "function_call", "unpublished">>,
        <<"raw", "f", "function_call_output", "refused">>,
        <<"raw", "f", "function_call_output", "output">>,
        <<"item/completed", "u", "userMessage", "prepared">>,
        <<"hook", "h", "hook", "started">>, <<"diff", "-", "", "">>,
        <<"process", "p", "", "">>, <<"settings", "-", "", "changed">>}]}
=============================================================================
