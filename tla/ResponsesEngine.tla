--------------------------- MODULE ResponsesEngine ---------------------------
(***************************************************************************)
(* The OpenAI Responses adapter (engines/openai_responses.py). The ordered *)
(* output items are the replay state of a turn: "text", "tool", "refusal"  *)
(* and "thinking" (reasoning) items.                                       *)
(***************************************************************************)
EXTENDS EngineCommon

ResponsesOwnedOptions ==
    {"model", "input", "max_output_tokens", "store", "include", "tools",
     "tool_choice", "text", "stream"}
ResponsesEngineKeys == ResponsesOwnedOptions \cup {"extra_body"}

----------------------------------------------------------------------------
\* Encoding.

ResponsesText(blocks) == [type |-> "text", text |-> TextOf(blocks)]

\* The prior turn's items, spliced back if they say what the turn says.
ResponsesReplayFits(message, row, intent) ==
    LET items == message.continuation.blocks IN
    /\ ContinuationFits(message.continuation, row, intent)
    /\ items # <<>>
    /\ \A call \in ToSet(ToolsOf(items)) : IsObject(call.arguments)
    /\ Signatures(ToolsOf(items)) = Signatures(message.tools)
    /\ TextOf(items) = message.text

\* A tool turn cannot be rebuilt from its typed calls alone.
ResponsesFits(message, row, intent) ==
    message.role = "assistant" =>
        IF message.continuation # Absent THEN ResponsesReplayFits(message, row, intent)
        ELSE message.tools = <<>>

\* The input items of one message; a replayed turn's items are one turn here.
ResponsesItems(message) ==
    CASE message.role = "assistant" ->
            <<[role |-> "assistant",
               blocks |-> IF message.continuation = Absent
                          THEN <<[type |-> "text", text |-> message.text]>>
                          ELSE message.continuation.blocks]>>
      [] message.role = "tool" ->
            <<[role |-> "user", blocks |-> <<[type |-> "result", id |-> message.id]>>]>>
      [] OTHER -> <<[role |-> message.role, blocks |-> <<ResponsesText(message.blocks)>>]>>

ResponsesInput(intent) ==
    Concat([i \in DOMAIN intent.messages |-> ResponsesItems(intent.messages[i])])

ResponsesRequest(row, intent) ==
    LET fault == RequestFault(row, intent, ResponsesEngineKeys, ResponsesOwnedOptions)
        knob == RowReasoning(row, intent).fragment
    IN IF fault # Absent THEN fault
       ELSE IF \E message \in ToSet(intent.messages) : ~ ResponsesFits(message, row, intent)
       THEN InvalidRequest
       ELSE [turns |-> ResponsesInput(intent),
             options |-> intent.options,
             keys |-> {"model", "input", "max_output_tokens", "store", "include"} \cup knob
                        \cup (IF intent.tools THEN {"tools", "tool_choice"} ELSE {})
                        \cup (IF intent.output = "json" THEN {"text"} ELSE {})]

----------------------------------------------------------------------------
\* Decoding. Nothing this provider answers is known to be free of charge.

ResponsesMeta(row, usage) == Meta(row.model, usage, "PossiblyBillable")

\* Already cache-inclusive; counts that are not integers are malformed.
ResponsesUsage(usage) ==
    IF usage = Absent THEN Absent
    ELSE IF Absent \in {usage.input, usage.output} THEN Defect("malformed_usage")
    ELSE [input |-> usage.input, output |-> usage.output]

ResponsesToolCall(item, fallback) ==
    [id |-> item.id, name |-> item.name,
     arguments |-> IF item.arguments = Absent THEN fallback ELSE item.arguments]

\* _incomplete_reason
ResponsesIncomplete(reason, meta) ==
    CASE reason = "max_tokens" -> Incomplete("max_output_tokens", meta)
      [] reason = "content_filter" -> Incomplete("content_filter_partial", meta)
      [] OTHER -> Defect("unknown_incomplete_reason")

\* _collect_refusal
ResponsesRefuses(items) == \E item \in ToSet(items) : item.type = "refusal"

ResponsesDecode(row, intent, response) ==
    LET usage == ResponsesUsage(response.usage)
        meta == ResponsesMeta(row, usage)
        tools == ToolsOf(response.items)
    IN IF response.model = Absent THEN Defect("missing_model")
       ELSE IF usage # Absent /\ IsError(usage) THEN usage
       ELSE IF ResponsesRefuses(response.items) THEN Outcome("Refused", "", meta)
       ELSE IF response.status = "incomplete"
       THEN ResponsesIncomplete(response.reason, meta)
       ELSE IF response.status # "completed" THEN Defect("unknown_response_status")
       ELSE IF \E item \in ToSet(tools) : ~ IsObject(item.arguments)
       THEN Failure("InvalidToolArguments", meta)
       ELSE Answer(row, intent, TextOf(response.items),
                   [i \in DOMAIN tools |-> ResponsesToolCall(tools[i], <<>>)],
                   response.items, meta)

----------------------------------------------------------------------------
\* A stream of frames.

ResponsesStart ==
    [text |-> <<>>, refused |-> FALSE, items |-> <<>>, open |-> <<>>,
     tools |-> <<>>, semantic |-> FALSE]

ResponsesSemantic(state, event) == Goes([state EXCEPT !.semantic = TRUE], <<event>>)

ResponsesItemAdded(state, frame) ==
    IF frame.item.type # "tool" THEN Goes(state, <<>>)
    ELSE ResponsesSemantic(
             [state EXCEPT !.open = [k \in DOMAIN @ \cup {frame.item.id} |->
                                       IF k = frame.item.id THEN <<>> ELSE @[k]]],
             ToolStart(frame.item))

\* Fragments for a call that was never added are dropped.
ResponsesArgumentsDelta(state, frame) ==
    IF frame.id \notin DOMAIN state.open \/ frame.text = <<>> THEN Goes(state, <<>>)
    ELSE ResponsesSemantic([state EXCEPT !.open[frame.id] = @ \o frame.text],
                           ToolDelta(frame.id, frame.text))

\* Mutant: the item is captured only if it yields nothing.
ResponsesItemDoneUncaptured(state, frame, row) ==
    LET call == ResponsesToolCall(frame.item, <<>>) IN
    IF frame.item.type = "tool"
    THEN ResponsesSemantic([state EXCEPT !.tools = Append(@, call)], ToolDone(call))
    ELSE Goes([state EXCEPT !.items = Append(@, frame.item),
                            !.refused = @ \/ frame.item.type = "refusal"], <<>>)

\* A finished item is captured verbatim. A call's own arguments win over the
\* fragments; a message may carry a refusal that had no delta.
ResponsesItemDone(state, frame, row) ==
    LET captured == [state EXCEPT !.items = Append(@, frame.item)]
        id == frame.item.id
        call == ResponsesToolCall(frame.item,
                    IF id \in DOMAIN state.open THEN state.open[id] ELSE <<>>)
    IN IF frame.item.type # "tool"
       THEN Goes([captured EXCEPT !.refused = @ \/ frame.item.type = "refusal"], <<>>)
       ELSE IF ~ IsObject(call.arguments)
       THEN Returns(captured, <<Terminal(Failure("InvalidToolArguments",
                                                 ResponsesMeta(row, Absent)))>>)
       ELSE ResponsesSemantic(
                [captured EXCEPT !.tools = Append(@, call),
                                 !.open = [k \in DOMAIN @ \ {id} |-> @[k]]],
                ToolDone(call))

\* A refusal is looked for only in a stream that completed.
ResponsesTerminal(state, frame, row, intent) ==
    LET usage == ResponsesUsage(frame.response.usage)
        meta == ResponsesMeta(row, usage)
        outcome ==
            IF frame.response.model = Absent THEN Defect("missing_model")
            ELSE IF usage # Absent /\ IsError(usage) THEN usage
            ELSE IF frame.type = "incomplete"
            THEN ResponsesIncomplete(frame.response.reason, meta)
            ELSE IF state.refused THEN Incomplete("content_filter_partial", meta)
            ELSE Answer(row, intent, state.text, state.tools, state.items, meta)
    IN IF IsError(outcome) THEN Raises(state, outcome) ELSE Returns(state, Closing(outcome))

\* An error in band: a failed or error frame, or one the SDK raises itself.
ResponsesInband(code) ==
    CASE code = "rate_limit_exceeded" -> RateLimited(Absent)
      [] code = "server_error" -> Unavailable
      [] OTHER -> Defect("provider_stream_failure")

ResponsesFrame(state, frame, row, intent) ==
    CASE frame.type = "text_delta" ->
            IF frame.text = <<>> THEN Goes(state, <<>>)
            ELSE ResponsesSemantic([state EXCEPT !.text = @ \o frame.text],
                                   TextDelta(frame.text))
      [] frame.type = "refusal_delta" -> Goes([state EXCEPT !.refused = TRUE], <<>>)
      [] frame.type = "item_added" -> ResponsesItemAdded(state, frame)
      [] frame.type = "arguments_delta" -> ResponsesArgumentsDelta(state, frame)
      [] frame.type = "item_done" -> ResponsesItemDone(state, frame, row)
      [] frame.type \in {"completed", "incomplete"} ->
            ResponsesTerminal(state, frame, row, intent)
      [] frame.type \in {"failed", "error"} -> Raises(state, ResponsesInband(frame.code))
      [] OTHER -> Goes(state, <<>>)

\* The source ended without a terminal frame.
ResponsesCut(state) == Interrupted(state.semantic, "PossiblyBillable")

----------------------------------------------------------------------------
\* The provider.

ResponsesResponse(answer, row) ==
    [model |-> row.model, items |-> answer.blocks,
     usage |-> [input |-> 3, output |-> answer.output],
     status |-> IF answer.finish \in {"stop", "refusal"} THEN "completed" ELSE "incomplete",
     reason |-> answer.finish]

ResponsesItemFrames(item) ==
    LET Deltas(type, text) ==
            [i \in DOMAIN text |-> [type |-> type, id |-> item.id, text |-> <<text[i]>>]]
    IN <<[type |-> "item_added", item |-> item]>>
         \o (CASE item.type = "text" -> Deltas("text_delta", item.text)
               [] item.type = "tool" -> Deltas("arguments_delta", item.arguments)
               [] item.type = "refusal" -> <<[type |-> "refusal_delta"]>>
               [] OTHER -> <<>>)
         \o <<[type |-> "item_done", item |-> item]>>

ResponsesFrames(answer, row) ==
    LET response == ResponsesResponse(answer, row) IN
    <<[type |-> "created"]>>
      \o Concat([i \in DOMAIN answer.blocks |-> ResponsesItemFrames(answer.blocks[i])])
      \o <<[type |-> response.status, response |-> response]>>
----------------------------------------------------------------------------
\* One attempt, its answer whole or a stream.

\* Why a request is not answered; Absent if it is.
ResponsesRejection(row, reply) ==
    CASE reply.kind = "connection" -> TransientConnection(reply)
      [] reply.kind = "http" -> Rejected(row, OpenAIHttpFailure(reply.http))
      [] OTHER -> Absent

ResponsesGenerate(row, intent, reply) ==
    LET rejection == ResponsesRejection(row, reply) IN
    IF rejection # Absent THEN rejection
    ELSE IF reply.kind = "malformed" THEN Defect("unparseable_response")
    ELSE ResponsesDecode(row, intent, ResponsesResponse(reply.answer, row))

ResponsesOpen(row, reply) == Opens(ResponsesStart, ResponsesRejection(row, reply))

\* What breaks an accepted stream; the SDK may raise an error object itself.
ResponsesFails(state, failure) ==
    CASE failure.kind = "transport" -> Broken(failure.timeout, "PossiblyBillable")
      [] failure.kind = "inband" -> ResponsesInband(failure.code)
      [] failure.kind = "malformed" -> Defect("malformed_stream_frame")
=============================================================================
