--------------------------- MODULE AnthropicEngine ---------------------------
(***************************************************************************)
(* The Anthropic Messages adapter (engines/anthropic_messages.py): how a   *)
(* transcript is put on the wire, how a whole response and a stream of     *)
(* frames are decoded, and how failures are classified.                    *)
(***************************************************************************)
EXTENDS EngineCommon

AnthropicOwnedOptions ==
    {"model", "max_tokens", "messages", "system", "cache_control", "tools",
     "tool_choice", "output_config", "stream"}
AnthropicEngineKeys ==
    {"model", "max_tokens", "messages", "system", "tools", "tool_choice",
     "extra_body", "stream"}

----------------------------------------------------------------------------
\* Encoding.

AnthropicText(text) == [type |-> "text", text |-> text]
AnthropicTool(call) ==
    [type |-> "tool", id |-> call.id, name |-> call.name, arguments |-> call.arguments]

\* Empty text blocks are dropped from the wire.
AnthropicUserBlocks(message) ==
    SelectSeq(message.blocks, LAMBDA b : ~ (b.type = "text" /\ b.text = <<>>))

\* A continuation replays its blocks verbatim, if they say what the normalized
\* message says.
AnthropicReplayFits(message, row, intent) ==
    LET blocks == message.continuation.blocks IN
    /\ ContinuationFits(message.continuation, row, intent)
    /\ blocks # <<>>
    /\ Signatures(ToolsOf(blocks)) = Signatures(message.tools)
    /\ TextOf(blocks) = message.text

AnthropicAssistant(message) ==
    IF message.continuation # Absent THEN message.continuation.blocks
    ELSE (IF message.text = <<>> THEN <<>> ELSE <<AnthropicText(message.text)>>)
           \o [i \in DOMAIN message.tools |-> AnthropicTool(message.tools[i])]

AnthropicTurn(role, blocks) == [role |-> role, blocks |-> blocks]

\* flush_tool_results: the results since the last turn are one user turn.
AnthropicFlush(wire) ==
    IF wire.pending = <<>> THEN wire
    ELSE [wire EXCEPT !.turns = Append(@, AnthropicTurn("user", wire.pending)),
                      !.pending = <<>>]

\* One message onto the wire; a refused one leaves no wire.
AnthropicMessage(wire, message, row, intent) ==
    LET flushed == AnthropicFlush(wire)
        Put(role, blocks, fits) ==
            [flushed EXCEPT !.turns = Append(@, AnthropicTurn(role, blocks)),
                            !.first = FALSE, !.fits = @ /\ fits /\ blocks # <<>>]
    IN CASE message.role = "system" ->
              [wire EXCEPT !.fits = @ /\ wire.first,
                           !.system = @ \o AnthropicUserBlocks(message)]
         [] message.role = "user" -> Put("user", AnthropicUserBlocks(message), TRUE)
         [] message.role = "assistant" ->
              Put("assistant", AnthropicAssistant(message),
                  message.continuation = Absent \/ AnthropicReplayFits(message, row, intent))
         [] message.role = "tool" ->
              [wire EXCEPT !.first = FALSE,
                           !.pending = Append(@, [type |-> "result", id |-> message.id])]

AnthropicMessages(row, intent) ==
    AnthropicFlush(
        FoldLeft(LAMBDA wire, message : AnthropicMessage(wire, message, row, intent),
                 [system |-> <<>>, turns |-> <<>>, pending |-> <<>>,
                  first |-> TRUE, fits |-> TRUE],
                 intent.messages))

\* The one cache breakpoint: the last user turn before the new one, or the end
\* of the system prompt; 0 stands for that one.
AnthropicBreakpoint(turns) ==
    LET prefix == {i \in 1 .. Len(turns) - 1 : turns[i].role # "assistant"} IN
    IF prefix = {} THEN 0 ELSE Max(prefix)

\* The request, or the error it is refused with, before anything is sent.
AnthropicRequest(row, intent) ==
    LET fault == RequestFault(row, intent, AnthropicEngineKeys, AnthropicOwnedOptions)
        wire == AnthropicMessages(row, intent)
        knob == RowReasoning(row, intent).fragment
    IN IF fault # Absent THEN fault
       ELSE IF ~ wire.fits THEN InvalidRequest
       ELSE [turns |-> wire.turns,
             cached |-> AnthropicBreakpoint(wire.turns),
             options |-> intent.options,
             keys |-> {"model", "max_tokens", "messages"} \cup knob
                        \cup (IF wire.system = <<>> THEN {} ELSE {"system"})
                        \cup (IF intent.tools THEN {"tools", "tool_choice"} ELSE {})
                        \cup (IF intent.output = "json" /\ row.native
                              THEN {"output_config"} ELSE {})]

----------------------------------------------------------------------------
\* Failures.

\* _terminal_http_failure: Absent is the context that is too large.
AnthropicHttpFailure(http) ==
    IF http.status = 429 THEN RateLimited(RetryAfterSeconds(http.retryAfter))
    ELSE IF http.status \in {500, 502, 503, 504, 529} \/ http.type = "overloaded"
    THEN Unavailable
    ELSE IF http.status = 413 \/ http.type = "overflow" THEN Absent
    ELSE IF http.status \in {401, 403} THEN CredentialRejected
    ELSE IF http.status = 402 \/ http.type = "quota" THEN HttpDefect("quota_exhausted")
    ELSE HttpDefect("unclassified_provider_error")

\* An error event inside a stream that was accepted.
AnthropicInband(type) ==
    IF type \in {"overloaded_error", "api_error"} THEN Unavailable
    ELSE Defect("stream_error_event")

\* A refusal before any output is not billed, and usage says so.
AnthropicRefusalBillability(usage) ==
    IF usage # Absent /\ usage.output = 0
    THEN "ConfirmedNonBillable" ELSE "PossiblyBillable"

----------------------------------------------------------------------------
\* Usage: folded over the frames, cache-inclusive once complete.

AnthropicNoUsage ==
    [input |-> Absent, output |-> Absent, read |-> Absent, write |-> Absent]

AnthropicAbsorb(fold, frame) ==
    [k \in DOMAIN fold |-> IF frame[k] = Absent THEN fold[k] ELSE frame[k]]

OrZero(count) == IF count = Absent THEN 0 ELSE count

AnthropicUsage(fold) ==
    IF Absent \in {fold.input, fold.output} THEN Absent
    ELSE [input |-> fold.input + OrZero(fold.read) + OrZero(fold.write),
          output |-> fold.output]

----------------------------------------------------------------------------
\* A whole response.

AnthropicStops == {"end_turn", "tool_use", "stop_sequence"}

\* The arms a stop reason decides alone; Absent when the content decides.
AnthropicStopped(stop, meta) ==
    CASE stop = "max_tokens" -> Incomplete("max_output_tokens", meta)
      [] stop = "model_context_window_exceeded" -> Failure("ProviderContextTooLarge", meta)
      [] stop \in AnthropicStops -> Absent
      [] OTHER -> Defect("unknown_stop_reason")

AnthropicToolCall(block) ==
    [id |-> block.id, name |-> block.name, arguments |-> block.arguments]

AnthropicDecode(row, intent, response) ==
    LET usage == AnthropicUsage(AnthropicAbsorb(AnthropicNoUsage, response.usage))
        meta == Meta(row.model, usage, "PossiblyBillable")
        stopped == AnthropicStopped(response.stop, meta)
        tools == ToolsOf(response.blocks)
    IN IF response.stop = "refusal"
       THEN Outcome("Refused", "",
                    Meta(row.model, usage, AnthropicRefusalBillability(usage)))
       ELSE IF stopped # Absent THEN stopped
       ELSE IF \E b \in ToSet(response.blocks) : b.type = "unknown"
       THEN Defect("unknown_content_block")
       ELSE IF \E b \in ToSet(tools) : ~ IsObject(b.arguments)
       THEN Failure("InvalidToolArguments", meta)
       ELSE Answer(row, intent, TextOf(response.blocks),
                   [i \in DOMAIN tools |-> AnthropicToolCall(tools[i])],
                   response.blocks, meta)

----------------------------------------------------------------------------
\* A stream of frames.

\* native keeps the blocks as the wire gave them, by index; open the tool calls
\* whose block has not stopped.
AnthropicStart ==
    [model |-> Absent, fold |-> AnthropicNoUsage, stop |-> Absent, text |-> <<>>,
     open |-> <<>>, tools |-> <<>>, native |-> <<>>, semantic |-> FALSE]

Bind(map, key, value) == [k \in DOMAIN map \cup {key} |-> IF k = key THEN value ELSE map[k]]
Unbind(map, key) == [k \in DOMAIN map \ {key} |-> map[k]]

AnthropicSemantic(state, event) == Goes([state EXCEPT !.semantic = TRUE], <<event>>)

AnthropicBlockStart(state, frame) ==
    LET block == frame.block
        kept == [state EXCEPT !.native = Bind(@, frame.index, block)]
    IN CASE block.type \in {"text", "thinking"} -> Goes(kept, <<>>)
         [] block.type = "tool" ->
              AnthropicSemantic(
                  [kept EXCEPT !.open = Bind(@, frame.index, [block EXCEPT !.arguments = <<>>])],
                  ToolStart(block))
         [] OTHER -> Raises(state, Defect("unknown_content_block"))

AnthropicTextDelta(state, frame) ==
    IF frame.index \notin DOMAIN state.native \/ state.native[frame.index].type # "text"
    THEN Raises(state, Defect("malformed_stream_event"))
    ELSE LET grown == [state EXCEPT !.text = @ \o frame.text,
                                    !.native[frame.index].text = @ \o frame.text]
         IN IF frame.text = <<>> THEN Goes(grown, <<>>)
            ELSE AnthropicSemantic(grown, TextDelta(frame.text))

AnthropicJsonDelta(state, frame) ==
    IF frame.index \notin DOMAIN state.open
    THEN Raises(state, Defect("malformed_stream_event"))
    ELSE LET grown == [state EXCEPT !.open[frame.index].arguments = @ \o frame.text]
         IN IF frame.text = <<>> THEN Goes(grown, <<>>)
            ELSE AnthropicSemantic(grown, ToolDelta(state.open[frame.index].id, frame.text))

\* Thinking text and its signature grow the native block, and yield nothing.
AnthropicThinkingDelta(state, frame) ==
    IF frame.index \notin DOMAIN state.native
    THEN Raises(state, Defect("malformed_stream_event"))
    ELSE Goes([state EXCEPT !.native[frame.index].signature = @ \o frame.text], <<>>)

\* Mutant: the native block is left without the call's arguments.
AnthropicBlockStopBare(state, frame, row) ==
    IF frame.index \notin DOMAIN state.open THEN Goes(state, <<>>)
    ELSE LET call == AnthropicToolCall(state.open[frame.index]) IN
         IF ~ IsObject(call.arguments)
         THEN Returns(state, <<Terminal(Failure("InvalidToolArguments",
                                                Meta(row.model, Absent, "PossiblyBillable")))>>)
         ELSE AnthropicSemantic([state EXCEPT !.open = Unbind(@, frame.index),
                                              !.tools = Append(@, call)],
                                ToolDone(call))

\* A tool block that stops is a finished call; no fragment at all means {}.
AnthropicBlockStop(state, frame, row) ==
    IF frame.index \notin DOMAIN state.open THEN Goes(state, <<>>)
    ELSE LET open == state.open[frame.index]
             call == AnthropicToolCall(
                         [open EXCEPT !.arguments = IF @ = <<>> THEN <<"{", "}">> ELSE @])
             meta == Meta(row.model, AnthropicUsage(state.fold), "PossiblyBillable")
         IN IF ~ IsObject(call.arguments)
            THEN Returns(state, <<Terminal(Failure("InvalidToolArguments", meta))>>)
            ELSE AnthropicSemantic(
                     [state EXCEPT !.open = Unbind(@, frame.index),
                                   !.tools = Append(@, call),
                                   !.native[frame.index].arguments = call.arguments],
                     ToolDone(call))

\* The stop reason, and usage so far: telemetry, but it too blocks a retry.
AnthropicMessageDelta(state, frame) ==
    LET told == [state EXCEPT !.stop = IF frame.stop = Absent THEN @ ELSE frame.stop,
                              !.fold = AnthropicAbsorb(@, frame.usage)]
        usage == AnthropicUsage(told.fold)
    IN IF usage = Absent THEN Goes(told, <<>>) ELSE AnthropicSemantic(told, UsageEvent(usage))

\* A stream has no Refused: a refusal is an incomplete answer, invalidated.
AnthropicMessageStop(state, row, intent) ==
    LET usage == AnthropicUsage(state.fold)
        meta == Meta(state.model, usage, "PossiblyBillable")
        stopped == AnthropicStopped(state.stop, meta)
        outcome ==
            IF state.model = Absent THEN Defect("malformed_stream_event")
            ELSE IF state.stop = "refusal"
            THEN Incomplete("content_filter_partial",
                            Meta(state.model, usage, AnthropicRefusalBillability(usage)))
            ELSE IF stopped # Absent THEN stopped
            ELSE Answer(row, intent, state.text, state.tools, InOrder(state.native), meta)
    IN IF IsError(outcome) THEN Raises(state, outcome) ELSE Returns(state, Closing(outcome))

\* Unknown events are ignored; text deltas of unknown kinds are not.
AnthropicFrame(state, frame, row, intent) ==
    CASE frame.type = "message_start" ->
            Goes([state EXCEPT !.model = frame.model,
                               !.fold = AnthropicAbsorb(@, frame.usage)], <<>>)
      [] frame.type = "block_start" -> AnthropicBlockStart(state, frame)
      [] frame.type = "text_delta" -> AnthropicTextDelta(state, frame)
      [] frame.type = "json_delta" -> AnthropicJsonDelta(state, frame)
      [] frame.type = "thinking_delta" -> AnthropicThinkingDelta(state, frame)
      [] frame.type = "unknown_delta" -> Raises(state, Defect("malformed_stream_event"))
      [] frame.type = "block_stop" -> AnthropicBlockStop(state, frame, row)
      [] frame.type = "message_delta" -> AnthropicMessageDelta(state, frame)
      [] frame.type = "message_stop" -> AnthropicMessageStop(state, row, intent)
      [] OTHER -> Goes(state, <<>>)

\* The source ended without message_stop.
AnthropicCut(state) == Interrupted(state.semantic, "PossiblyBillable")

----------------------------------------------------------------------------
\* The provider: the whole response, and the frames it streams it in.

\* A whole response always gives a call an input object.
AnthropicResponse(answer) ==
    [stop |-> answer.finish,
     blocks |-> [i \in DOMAIN answer.blocks |->
                   LET block == answer.blocks[i] IN
                   IF block.type = "tool" /\ block.arguments = <<>>
                   THEN [block EXCEPT !.arguments = <<"{", "}">>] ELSE block],
     usage |-> [AnthropicNoUsage EXCEPT !.input = 2, !.output = answer.output, !.read = 1]]

AnthropicBlockFrames(block, index) ==
    LET Frames(type, text) ==
            [i \in DOMAIN text |-> [type |-> type, index |-> index, text |-> <<text[i]>>]]
        Opened(empty) == <<[type |-> "block_start", index |-> index, block |-> empty]>>
        stop == <<[type |-> "block_stop", index |-> index]>>
    IN CASE block.type = "text" ->
              Opened([block EXCEPT !.text = <<>>]) \o Frames("text_delta", block.text) \o stop
         [] block.type = "tool" ->
              Opened([block EXCEPT !.arguments = <<>>])
                \o Frames("json_delta", block.arguments) \o stop
         [] block.type = "thinking" ->
              Opened([block EXCEPT !.signature = <<>>])
                \o Frames("thinking_delta", block.signature) \o stop
         [] OTHER -> Opened(block) \o stop

AnthropicFrames(answer, row) ==
    LET response == AnthropicResponse(answer) IN
    <<[type |-> "message_start", model |-> row.model,
       usage |-> [response.usage EXCEPT !.output = Absent]]>>
      \o Concat([i \in DOMAIN answer.blocks |-> AnthropicBlockFrames(answer.blocks[i], i)])
      \o <<[type |-> "message_delta", stop |-> answer.finish,
            usage |-> [AnthropicNoUsage EXCEPT !.output = answer.output]],
           [type |-> "message_stop"]>>
----------------------------------------------------------------------------
\* One attempt, its answer whole or a stream.

\* _transient_connection: the adapter's own reading of the SDK's chain of causes.
AnthropicConnection(failure) ==
    LET preConnect == failure.phase = "connect" IN
    Broken(failure.timeout, IF preConnect THEN "NotDispatched" ELSE "PossiblyBillable")

\* Why a request is not answered; Absent if it is.
AnthropicRejection(row, reply) ==
    CASE reply.kind = "connection" -> AnthropicConnection(reply)
      [] reply.kind = "http" -> Rejected(row, AnthropicHttpFailure(reply.http))
      [] OTHER -> Absent

AnthropicGenerate(row, intent, reply) ==
    LET rejection == AnthropicRejection(row, reply) IN
    IF rejection # Absent THEN rejection
    ELSE IF reply.kind = "malformed" THEN Defect("unparseable_response")
    ELSE AnthropicDecode(row, intent, AnthropicResponse(reply.answer))

AnthropicOpen(row, reply) == Opens(AnthropicStart, AnthropicRejection(row, reply))

\* What breaks an accepted stream, its source's early end apart.
AnthropicFails(state, failure) ==
    CASE failure.kind = "transport" -> Broken(failure.timeout, "PossiblyBillable")
      [] failure.kind = "inband" -> AnthropicInband(failure.code)
      [] failure.kind = "malformed" -> Defect("malformed_stream_event")
=============================================================================
