----------------------------- MODULE ChatEngine -----------------------------
(***************************************************************************)
(* The Chat Completions adapter (engines/openai_chat.py), which serves two *)
(* dialects, deepseek and xai. A stream's chunk may carry usage, fragments *)
(* of tool calls, text, reasoning and a finish reason at once.             *)
(***************************************************************************)
EXTENDS EngineCommon

ChatOwnedKeys ==
    {"model", "messages", "max_tokens", "max_completion_tokens",
     "response_format", "tools", "tool_choice", "stream", "stream_options"}

----------------------------------------------------------------------------
\* Encoding.

\* DeepSeek's thinking mode has no tool_choice; only its default can be left out.
ChatThinks(row, intent) == row.provider = "deepseek" /\ intent.reasoning # "none"
ChatChoiceFits(row, intent) ==
    intent.tools /\ ChatThinks(row, intent) => intent.choice = "auto"

\* The native message of the prior turn, if it says what the turn says. Its
\* arguments are parsed again, and here no string at all is not an object.
ChatReplayFits(message, row, intent) ==
    LET native == message.continuation.blocks IN
    /\ ContinuationFits(message.continuation, row, intent)
    /\ \A call \in ToSet(ToolsOf(native)) : IsObject(call.arguments)
    /\ ToolsOf(native) = [i \in DOMAIN message.tools |->
                            [type |-> "tool"] @@ message.tools[i]]
    /\ TextOf(native) = message.text

\* xAI accepts the shape, but not reasoning: it is stripped on the way back.
ChatAssistant(row, message) ==
    IF message.continuation = Absent
    THEN <<[type |-> "text", text |-> message.text]>>
           \o [i \in DOMAIN message.tools |-> [type |-> "tool"] @@ message.tools[i]]
    ELSE SelectSeq(message.continuation.blocks,
                   LAMBDA b : row.provider = "deepseek" \/ b.type # "thinking")

ChatMessage(row, message) ==
    CASE message.role = "assistant" ->
            [role |-> "assistant", blocks |-> ChatAssistant(row, message)]
      [] message.role = "tool" ->
            [role |-> "user", blocks |-> <<[type |-> "result", id |-> message.id]>>]
      [] OTHER ->
            [role |-> message.role,
             blocks |-> <<[type |-> "text", text |-> TextOf(message.blocks)]>>]

\* Where the protocol instruction of JSON mode goes: after the application's
\* own system messages.
ChatInstructed(wire) ==
    LET index == CHOOSE i \in 0 .. Len(wire) :
                    /\ \A j \in 1 .. i : wire[j].role = "system"
                    /\ i < Len(wire) => wire[i + 1].role # "system"
    IN SubSeq(wire, 1, index)
         \o <<[role |-> "system", blocks |-> <<[type |-> "text", text |-> <<"json only">>]>>]>>
         \o SubSeq(wire, index + 1, Len(wire))

ChatRequest(row, intent) ==
    LET fault == RequestFault(row, intent, ChatOwnedKeys, ChatOwnedKeys)
        knob == RowReasoning(row, intent).fragment
        wire == [i \in DOMAIN intent.messages |-> ChatMessage(row, intent.messages[i])]
    IN IF fault # Absent THEN fault
       ELSE IF ~ ChatChoiceFits(row, intent)
                 \/ \E message \in ToSet(intent.messages) :
                      /\ message.role = "assistant" /\ message.continuation # Absent
                      /\ ~ ChatReplayFits(message, row, intent)
       THEN InvalidRequest
       ELSE [turns |-> IF intent.output = "json" /\ ~ row.native
                       THEN ChatInstructed(wire) ELSE wire,
             options |-> intent.options,
             keys |-> {"model", "messages"} \cup knob
                        \cup {IF row.provider = "xai"
                              THEN "max_completion_tokens" ELSE "max_tokens"}
                        \cup (IF intent.tools THEN {"tools"} ELSE {})
                        \cup (IF intent.tools /\ ~ ChatThinks(row, intent)
                              THEN {"tool_choice"} ELSE {})
                        \cup (IF intent.output = "json" THEN {"response_format"} ELSE {})]

----------------------------------------------------------------------------
\* Failures.

\* _classify_status: Absent is the context that is too large.
ChatHttpFailure(http) ==
    IF http.status \in {401, 403} THEN CredentialRejected
    ELSE IF http.status = 402 \/ http.type = "quota" THEN HttpDefect("quota_exhausted")
    ELSE IF http.status = 429 THEN RateLimited(RetryAfterSeconds(http.retryAfter))
    ELSE IF http.status >= 500 THEN Unavailable
    ELSE IF http.type = "overflow" THEN Absent
    ELSE IF http.type = "empty" THEN Defect("unparseable_error_body")
    ELSE HttpDefect("unclassified_provider_error")

\* An error object inside a 200: its code is a number, or nothing.
ChatInband(code) ==
    IF code = Absent THEN Unavailable
    ELSE IF code = 429 THEN RateLimited(Absent)
    ELSE IF code \in 400 .. 499 THEN Defect("inband_provider_error")
    ELSE Unavailable

----------------------------------------------------------------------------
\* Decoding.

\* Field-wise: later values win, nothing is erased; Absent is no frame yet.
ChatFoldUsage(base, new) ==
    IF new = Absent THEN base
    ELSE IF base = Absent THEN new
    ELSE [k \in DOMAIN base |-> IF new[k] = Absent THEN base[k] ELSE new[k]]

\* Counts the provider left out are zero.
ChatUsage(raw) ==
    LET Count(n) == IF n = Absent THEN 0 ELSE n IN
    [input |-> Count(raw.input), output |-> Count(raw.output)]

ChatMeta(row, raw) ==
    Meta(row.model, IF raw = Absent THEN Absent ELSE ChatUsage(raw), "PossiblyBillable")

\* No argument string at all is the empty object.
ChatArguments(raw) == IF raw = <<>> THEN <<"{", "}">> ELSE raw

ChatToolCall(slot) ==
    [id |-> slot.id, name |-> slot.name, arguments |-> ChatArguments(slot.arguments)]

\* The calls of a whole message or of the accumulator's slots: the calls, the
\* failure to be the outcome, or a defect. The first that is wrong decides.
ChatToolCalls(slots) ==
    LET calls == [i \in DOMAIN slots |-> ChatToolCall(slots[i])]
        Bad(i) == "" \in {calls[i].id, calls[i].name} \/ ~ IsObject(calls[i].arguments)
        first == CHOOSE i \in DOMAIN calls : Bad(i) /\ \A j \in 1 .. i - 1 : ~ Bad(j)
    IN IF \A i \in DOMAIN calls : ~ Bad(i) THEN [calls |-> calls]
       ELSE IF "" \in {calls[first].id, calls[first].name}
       THEN Defect("malformed_tool_call")
       ELSE [failure |-> "InvalidToolArguments"]

\* _terminal_outcome
ChatOutcome(finish, meta, intent, text, tools, continuation) ==
    LET content == ResponseContent(intent, text, tools) IN
    CASE finish \in {"stop", "tool_calls"} ->
            IF content = Absent THEN Failure("InvalidStructuredOutput", meta)
            ELSE Success(content, continuation, meta)
      [] finish = "length" -> Incomplete("max_output_tokens", meta)
      [] finish = "content_filter" -> Incomplete("content_filter_partial", meta)
      [] OTHER -> Defect("unknown_finish_reason")

\* A message is worth replaying natively if it reasoned or called tools.
ChatContinuation(row, intent, blocks) ==
    IF \E b \in ToSet(blocks) : b.type \in {"tool", "thinking"}
    THEN Artifact(row, intent, blocks) ELSE Absent

ChatDecode(row, intent, completion) ==
    LET meta == ChatMeta(row, completion.usage)
        tools == ChatToolCalls(ToolsOf(completion.blocks))
    IN IF completion.failed THEN ChatInband(Absent)
       ELSE IF completion.model = Absent THEN Defect("missing_model")
       ELSE IF IsError(tools) THEN tools
       ELSE IF "failure" \in DOMAIN tools THEN Failure(tools.failure, meta)
       ELSE ChatOutcome(completion.finish, meta, intent, TextOf(completion.blocks),
                        tools.calls, ChatContinuation(row, intent, completion.blocks))

----------------------------------------------------------------------------
\* A stream of chunks.

ChatStart ==
    [model |-> Absent, usage |-> Absent, text |-> <<>>, reasoning |-> <<>>,
     slots |-> <<>>, finish |-> Absent, finished |-> <<>>, semantic |-> FALSE]

ChatSlot == [id |-> "", name |-> "", arguments |-> <<>>, started |-> FALSE]

\* One entry of a chunk's fragments: the call starts once it has both its
\* id and its name; fragments that come before are kept, and not yielded.
ChatEntry(step, entry) ==
    LET old == IF entry.index \in DOMAIN step.slots THEN step.slots[entry.index] ELSE ChatSlot
        named == [old EXCEPT !.id = IF entry.id = "" THEN @ ELSE entry.id,
                             !.name = IF entry.name = "" THEN @ ELSE entry.name,
                             !.arguments = @ \o entry.text]
        begins == ~ old.started /\ "" \notin {named.id, named.name}
        slot == [named EXCEPT !.started = @ \/ begins]
    IN [slots |-> [k \in DOMAIN step.slots \cup {entry.index} |->
                     IF k = entry.index THEN slot ELSE step.slots[k]],
        events |-> step.events
                     \o (IF begins THEN <<ToolStart(slot)>> ELSE <<>>)
                     \o (IF entry.text # <<>> /\ slot.started
                         THEN <<ToolDelta(slot.id, entry.text)>> ELSE <<>>)]

\* _ToolCallAccumulator.apply
ChatApply(slots, entries) ==
    LET applied[n \in 0 .. Len(entries)] ==
            IF n = 0 THEN [slots |-> slots, events |-> <<>>]
            ELSE ChatEntry(applied[n - 1], entries[n])
    IN applied[Len(entries)]

ChatSlots(state) == InOrder(state.slots)

\* Mutant: a repeated finish reason folds the accumulator again.
ChatFinishAgain(state, events, finish, row) ==
    LET tools == ChatToolCalls(ChatSlots(state)) IN
    IF finish = Absent THEN Goes(state, events)
    ELSE IF finish = "error" THEN [Raises(state, Unavailable) EXCEPT !.events = events]
    ELSE IF IsError(tools) THEN [Raises(state, tools) EXCEPT !.events = events]
    ELSE IF "failure" \in DOMAIN tools
    THEN Returns(state, Append(events, Terminal(Failure(tools.failure,
                                                        ChatMeta(row, state.usage)))))
    ELSE Goes([state EXCEPT !.finish = finish, !.finished = ChatSlots(state),
                            !.semantic = @ \/ tools.calls # <<>>],
              events \o [i \in DOMAIN tools.calls |-> ToolDone(tools.calls[i])])

\* The first finish reason decides and folds the accumulator, once.
ChatFinish(state, events, finish, row) ==
    LET tools == ChatToolCalls(ChatSlots(state)) IN
    IF finish = Absent \/ state.finish # Absent THEN Goes(state, events)
    ELSE IF finish = "error" THEN [Raises(state, Unavailable) EXCEPT !.events = events]
    ELSE IF IsError(tools) THEN [Raises(state, tools) EXCEPT !.events = events]
    ELSE IF "failure" \in DOMAIN tools
    THEN Returns(state, Append(events, Terminal(Failure(tools.failure,
                                                        ChatMeta(row, state.usage)))))
    ELSE Goes([state EXCEPT !.finish = finish, !.finished = ChatSlots(state),
                            !.semantic = @ \/ tools.calls # <<>>],
              events \o [i \in DOMAIN tools.calls |-> ToolDone(tools.calls[i])])

\* Usage first, then fragments of calls, text and reasoning, then the finish.
ChatChunk(state, chunk, row) ==
    LET applied == ChatApply(state.slots, chunk.entries)
        usage == ChatFoldUsage(state.usage, chunk.usage)
        events == (IF chunk.usage = Absent THEN <<>> ELSE <<UsageEvent(ChatUsage(usage))>>)
                    \o applied.events
                    \o (IF chunk.text = <<>> THEN <<>> ELSE <<TextDelta(chunk.text)>>)
        grown == [state EXCEPT !.model = IF @ = Absent THEN chunk.model ELSE @,
                               !.usage = usage, !.slots = applied.slots,
                               !.text = @ \o chunk.text,
                               !.reasoning = @ \o chunk.reasoning,
                               !.semantic = @ \/ events # <<>>]
    IN ChatFinish(grown, events, chunk.finish, row)

\* The native message a stream amounts to, its arguments as they came raw.
ChatNative(state) ==
    (IF state.text = <<>> THEN <<>> ELSE <<[type |-> "text", text |-> state.text]>>)
      \o (IF state.reasoning = <<>> THEN <<>>
          ELSE <<[type |-> "thinking", signature |-> state.reasoning]>>)
      \o [i \in DOMAIN state.finished |->
            [type |-> "tool", id |-> state.finished[i].id, name |-> state.finished[i].name,
             arguments |-> state.finished[i].arguments]]

\* The source has ended. Without a finish reason it was cut; with one it closed,
\* and the continuation goes before the terminal, whatever that is.
ChatEnd(state, row, intent) ==
    LET continuation == ChatContinuation(row, intent, ChatNative(state))
        calls == ChatToolCalls(state.finished).calls
        outcome == ChatOutcome(state.finish, ChatMeta(row, state.usage), intent,
                               state.text, calls, continuation)
        events == IF continuation = Absent THEN <<>> ELSE <<ContinuationDelta(continuation)>>
    IN IF state.finish = Absent
       THEN Raises(state, Interrupted(state.semantic, "PossiblyBillable"))
       ELSE IF state.model = Absent THEN Raises(state, Defect("missing_model"))
       ELSE IF IsError(outcome) THEN [Raises(state, outcome) EXCEPT !.events = events]
       ELSE Returns(state, Append(events, Terminal(outcome)))

----------------------------------------------------------------------------
\* The provider. A late one names a call after its first fragment. A whole
\* response that failed has an error object, a stream a finish of its own.

ChatCompletion(answer, row) ==
    [model |-> row.model, finish |-> answer.finish, failed |-> answer.finish = "error",
     blocks |-> answer.blocks,
     usage |-> [input |-> 3, output |-> answer.output]]

ChatBare(row) ==
    [type |-> "chunk", model |-> row.model, usage |-> Absent, entries |-> <<>>,
     text |-> <<>>, reasoning |-> <<>>, finish |-> Absent]

ChatBlockChunks(block, index, late, row) ==
    LET Entry(id, name, text) ==
            [ChatBare(row) EXCEPT !.entries =
                <<[index |-> index, id |-> id, name |-> name, text |-> text]>>]
        Fragment(i) == Entry("", IF late /\ i = 1 THEN block.name ELSE "",
                             <<block.arguments[i]>>)
    IN CASE block.type = "text" ->
              [i \in DOMAIN block.text |-> [ChatBare(row) EXCEPT !.text = <<block.text[i]>>]]
         [] block.type = "thinking" ->
              <<[ChatBare(row) EXCEPT !.reasoning = block.signature]>>
         [] block.type = "tool" ->
              <<Entry(block.id, IF late THEN "" ELSE block.name, <<>>)>>
                \o [i \in DOMAIN block.arguments |-> Fragment(i)]
                \o (IF late /\ block.arguments = <<>> THEN <<Entry("", block.name, <<>>)>>
                    ELSE <<>>)
         [] OTHER -> <<>>

\* The finish chunk, one that repeats it, and a last one with usage alone.
ChatFrames(answer, row) ==
    LET finish == [ChatBare(row) EXCEPT !.finish = answer.finish] IN
    Concat([i \in DOMAIN answer.blocks |->
              ChatBlockChunks(answer.blocks[i], i, answer.late, row)])
      \o <<finish, finish,
           [ChatBare(row) EXCEPT !.usage = [input |-> 3, output |-> answer.output]]>>
----------------------------------------------------------------------------
\* One attempt, its answer whole or a stream.

\* Why a request is not answered; Absent if it is.
ChatRejection(row, reply) ==
    CASE reply.kind = "connection" -> TransientConnection(reply)
      [] reply.kind = "http" -> Rejected(row, ChatHttpFailure(reply.http))
      [] OTHER -> Absent

ChatGenerate(row, intent, reply) ==
    LET rejection == ChatRejection(row, reply) IN
    IF rejection # Absent THEN rejection
    ELSE IF reply.kind = "malformed" THEN Defect("malformed_json")
    ELSE ChatDecode(row, intent, ChatCompletion(reply.answer, row))

ChatOpen(row, reply) == Opens(ChatStart, ChatRejection(row, reply))

\* What breaks an accepted stream: told as it happened, output or not.
ChatFails(state, failure) ==
    CASE failure.kind = "transport" -> Broken(failure.timeout, "PossiblyBillable")
      [] failure.kind = "inband" -> ChatInband(failure.code)
      [] failure.kind = "malformed" -> Defect("malformed_json")
=============================================================================
