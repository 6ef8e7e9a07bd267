---------------------------- MODULE GeminiEngine ----------------------------
(***************************************************************************)
(* The Gemini adapter (engines/gemini_generate.py). A turn is a list of    *)
(* parts: "text", "tool" (functionCall) and "thinking" (a thought with its *)
(* signature); a stream's chunk carries the next parts of one candidate.   *)
(***************************************************************************)
EXTENDS EngineCommon

\* The config keys that occur here, in the casing the adapter writes them, with
\* the other casing the SDK accepts.
GeminiCamel ==
    [system_instruction |-> "systemInstruction",
     max_output_tokens |-> "maxOutputTokens",
     tools |-> "tools",
     tool_config |-> "toolConfig",
     response_mime_type |-> "responseMimeType",
     response_json_schema |-> "responseJsonSchema",
     response_schema |-> "responseSchema",
     candidate_count |-> "candidateCount",
     http_options |-> "httpOptions",
     automatic_function_calling |-> "automaticFunctionCalling",
     thinking_config |-> "thinkingConfig",
     temperature |-> "temperature"]
GeminiBoth(keys) == keys \cup {GeminiCamel[k] : k \in keys}

GeminiEngineKeys ==
    GeminiBoth({"max_output_tokens", "automatic_function_calling", "system_instruction",
                "tools", "tool_config", "response_mime_type", "response_json_schema"})
GeminiOwnedKeys ==
    GeminiBoth({"system_instruction", "max_output_tokens", "tools", "tool_config",
                "response_mime_type", "response_json_schema", "response_schema",
                "candidate_count", "http_options", "automatic_function_calling"})

\* The SDK validates its config closed.
GeminiExpressible == GeminiBoth(DOMAIN GeminiCamel)

----------------------------------------------------------------------------
\* Encoding.

\* _row_reasoning, and the options: the knob's keys are owned in both casings.
GeminiFault(row, intent) ==
    LET reasoning == RowReasoning(row, intent) IN
    IF IsError(reasoning) THEN reasoning
    ELSE IF GeminiEngineKeys \cap reasoning.owned # {}
              \/ ~ reasoning.fragment \subseteq GeminiExpressible
    THEN RegistryInvalid
    ELSE IF (GeminiOwnedKeys \cup GeminiBoth(reasoning.owned)) \cap intent.options # {}
              \/ ~ intent.options \subseteq GeminiExpressible
    THEN InvalidRequest
    ELSE Absent

\* Only the calls of a replayed turn are compared with the normalized ones.
GeminiReplayFits(message, row, intent) ==
    /\ ContinuationFits(message.continuation, row, intent)
    /\ Signatures(ToolsOf(message.continuation.blocks)) = Signatures(message.tools)

GeminiAssistant(message) ==
    IF message.continuation # Absent THEN message.continuation.blocks
    ELSE (IF message.text = <<>> THEN <<>> ELSE <<[type |-> "text", text |-> message.text]>>)
           \o [i \in DOMAIN message.tools |->
                 [type |-> "tool", id |-> Absent, name |-> message.tools[i].name,
                  arguments |-> message.tools[i].arguments]]

GeminiUnique(tools) == \A i, j \in DOMAIN tools : tools[i].id = tools[j].id => i = j

\* flush_results: consecutive results are one user turn.
GeminiFlush(wire) ==
    IF wire.pending = <<>> THEN wire
    ELSE [wire EXCEPT !.turns = Append(@, [role |-> "user", blocks |-> wire.pending]),
                      !.pending = <<>>]

\* One message onto the wire. A result resolves only against the calls of the
\* latest assistant turn: a later turn may use an id again.
GeminiContent(wire, message, row, intent) ==
    LET flushed == GeminiFlush(wire)
        Put(role, blocks, fits) ==
            [flushed EXCEPT !.turns = Append(@, [role |-> role, blocks |-> blocks]),
                            !.fits = @ /\ fits]
    IN CASE message.role = "system" -> flushed
         [] message.role = "user" -> Put("user", message.blocks, TRUE)
         [] message.role = "assistant" ->
              [Put("assistant", GeminiAssistant(message),
                   /\ GeminiUnique(message.tools)
                   /\ message.continuation = Absent \/ GeminiReplayFits(message, row, intent))
                 EXCEPT !.calls = {call.id : call \in ToSet(message.tools)}]
         [] message.role = "tool" ->
              [wire EXCEPT !.fits = @ /\ message.id \in wire.calls,
                           !.pending = Append(@, [type |-> "result", id |-> message.id])]

GeminiContents(row, intent) ==
    GeminiFlush(
        FoldLeft(LAMBDA wire, message : GeminiContent(wire, message, row, intent),
                 [turns |-> <<>>, pending |-> <<>>, calls |-> {}, fits |-> TRUE],
                 intent.messages))

GeminiRequest(row, intent) ==
    LET fault == GeminiFault(row, intent)
        wire == GeminiContents(row, intent)
        knob == RowReasoning(row, intent).fragment
        system == \E message \in ToSet(intent.messages) : message.role = "system"
    IN IF fault # Absent THEN fault
       ELSE IF ~ wire.fits THEN InvalidRequest
       ELSE [turns |-> wire.turns,
             options |-> intent.options,
             keys |-> GeminiBoth(
                 {"max_output_tokens", "automatic_function_calling"} \cup knob
                   \cup (IF system THEN {"system_instruction"} ELSE {})
                   \cup (IF intent.tools THEN {"tools", "tool_config"} ELSE {})
                   \cup (IF intent.output = "json" THEN {"response_mime_type"} ELSE {})
                   \cup (IF intent.output = "json" /\ row.native
                         THEN {"response_json_schema"} ELSE {}))]

----------------------------------------------------------------------------
\* Failures.

\* _classify_api_error: Absent is the context that is too large.
GeminiHttpFailure(http) ==
    IF http.status = 429 \/ http.type = "RESOURCE_EXHAUSTED"
    THEN RateLimited(RetryAfterSeconds(http.retryAfter))
    ELSE IF http.status >= 500 \/ http.type = "overloaded" THEN Unavailable
    ELSE IF http.status \in {401, 403} \/ http.type = "bad_key" THEN CredentialRejected
    ELSE IF http.type = "overflow" THEN Absent
    ELSE HttpDefect("unclassified_provider_error")

\* _inband_cause
GeminiInband(code) ==
    IF code = 429 THEN RateLimited(Absent)
    ELSE IF code # Absent /\ code >= 500 THEN Unavailable
    ELSE Defect("inband_error_frame")

\* Mutant: what was yielded does not change the cause.
GeminiInterruptedBare(state, error) == error

\* interrupted(): once something was yielded, any transient failure cut it off.
GeminiInterrupted(state, error) ==
    IF error.error = "TransientAttempt" /\ state.semantic
    THEN Interrupted(TRUE, error.billability)
    ELSE error

----------------------------------------------------------------------------
\* Decoding.

\* Cumulative counts; zero and nothing are the same on this wire.
GeminiFold(fold, usage) ==
    IF usage = Absent THEN fold
    ELSE IF fold = Absent THEN usage
    ELSE [k \in DOMAIN fold |-> IF usage[k] = 0 THEN fold[k] ELSE usage[k]]

GeminiMeta(model, usage) == Meta(model, usage, "PossiblyBillable")

\* A call without a name or an id is malformed.
GeminiPartsFit(parts) ==
    \A part \in ToSet(ToolsOf(parts)) : "" \notin {part.id, part.name}

GeminiCalls(parts) ==
    LET tools == ToolsOf(parts) IN
    [i \in DOMAIN tools |->
       [id |-> tools[i].id, name |-> tools[i].name, arguments |-> tools[i].arguments]]

\* Only calls and signatures need replaying natively.
GeminiContinuation(row, intent, parts) ==
    IF \E part \in ToSet(parts) : part.type \in {"tool", "thinking"}
    THEN Artifact(row, intent, parts) ELSE Absent

GeminiStop(row, intent, parts, meta) ==
    LET content == ResponseContent(intent, TextOf(parts), GeminiCalls(parts)) IN
    IF content = Absent THEN Failure("InvalidStructuredOutput", meta)
    ELSE Success(content, GeminiContinuation(row, intent, parts), meta)

\* _non_stop_outcome
GeminiNonStop(finish, meta) ==
    CASE finish = "MAX_TOKENS" -> Incomplete("max_output_tokens", meta)
      [] finish = "SAFETY" -> Incomplete("content_filter_partial", meta)
      [] finish = "MALFORMED_FUNCTION_CALL" -> Failure("InvalidToolArguments", meta)
      [] OTHER -> Defect("unknown_finish_reason")

GeminiDecode(row, intent, response) ==
    LET meta == GeminiMeta(row.model, response.usage) IN
    IF response.finish = "blocked" THEN Incomplete("content_filter_partial", meta)
    ELSE IF ~ GeminiPartsFit(response.parts) THEN Defect("malformed_candidate")
    ELSE IF response.finish = Absent THEN Defect("missing_finish_reason")
    ELSE IF response.finish # "STOP" THEN GeminiNonStop(response.finish, meta)
    ELSE GeminiStop(row, intent, response.parts, meta)

\* There is no usage event on this wire: counts fold silently.
GeminiStart == [model |-> Absent, usage |-> Absent, parts |-> <<>>, semantic |-> FALSE]

\* A call comes whole: it is started and done at once.
GeminiCallEvents(calls) ==
    Concat([i \in DOMAIN calls |-> <<ToolStart(calls[i]), ToolDone(calls[i])>>])

GeminiChunk(state, chunk, row, intent) ==
    LET usage == GeminiFold(state.usage, chunk.usage)
        meta == GeminiMeta(row.model, usage)
        text == TextOf(chunk.parts)
        calls == GeminiCalls(chunk.parts)
        events == (IF text = <<>> THEN <<>> ELSE <<TextDelta(text)>>) \o GeminiCallEvents(calls)
        grown == [state EXCEPT !.usage = usage, !.parts = @ \o chunk.parts,
                               !.semantic = @ \/ events # <<>>]
        outcome == IF chunk.finish = "STOP"
                   THEN GeminiStop(row, intent, grown.parts, meta)
                   ELSE GeminiNonStop(chunk.finish, meta)
    IN IF chunk.finish = "blocked"
       THEN Returns(grown, <<Terminal(Incomplete("content_filter_partial", meta))>>)
       ELSE IF ~ GeminiPartsFit(chunk.parts) THEN Raises(state, Defect("malformed_candidate"))
       ELSE IF chunk.finish = Absent THEN Goes(grown, events)
       ELSE IF IsError(outcome) THEN [Raises(grown, outcome) EXCEPT !.events = events]
       ELSE Returns(grown, events \o Closing(outcome))

\* The source ended without a finish reason.
GeminiCut(state) == GeminiInterrupted(state, Interrupted(FALSE, "PossiblyBillable"))

----------------------------------------------------------------------------
\* The provider: a prompt it blocks has no candidate at all.

GeminiResponse(answer) ==
    [finish |-> answer.finish, parts |-> answer.blocks,
     usage |-> [input |-> 3, output |-> answer.output]]

GeminiFrames(answer) ==
    LET Chunk(parts, finish) ==
            [type |-> "chunk", usage |-> [input |-> 3, output |-> answer.output],
             parts |-> parts, finish |-> finish]
        Pieces(block) ==
            IF block.type = "text"
            THEN [i \in DOMAIN block.text |->
                    Chunk(<<[block EXCEPT !.text = <<block.text[i]>>]>>, Absent)]
            ELSE <<Chunk(<<block>>, Absent)>>
    IN Concat([i \in DOMAIN answer.blocks |-> Pieces(answer.blocks[i])])
         \o <<Chunk(<<>>, answer.finish)>>
----------------------------------------------------------------------------
\* One attempt, its answer whole or a stream.

\* _timeout_attempt and _transport_attempt: httpx's own errors come through.
GeminiConnection(failure) ==
    IF failure.phase = "connect"
    THEN Broken(failure.timeout, "NotDispatched")
    ELSE Broken(failure.timeout, "PossiblyBillable")

\* Why a request is not answered; Absent if it is.
GeminiRejection(row, reply) ==
    CASE reply.kind = "connection" -> GeminiConnection(reply)
      [] reply.kind = "http" -> Rejected(row, GeminiHttpFailure(reply.http))
      [] OTHER -> Absent

GeminiGenerate(row, intent, reply) ==
    LET rejection == GeminiRejection(row, reply) IN
    IF rejection # Absent THEN rejection
    ELSE IF reply.kind = "malformed" THEN Defect("malformed_json")
    ELSE GeminiDecode(row, intent, GeminiResponse(reply.answer))

GeminiOpen(row, reply) == Opens(GeminiStart, GeminiRejection(row, reply))

\* What breaks an accepted stream; a defect stays one whatever was yielded.
GeminiFails(state, failure) ==
    GeminiInterrupted(state,
        CASE failure.kind = "transport" -> Broken(failure.timeout, "PossiblyBillable")
          [] failure.kind = "inband" -> GeminiInband(failure.code)
          [] failure.kind = "malformed" -> Defect("malformed_stream_frame"))
=============================================================================
