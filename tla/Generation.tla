----------------------------- MODULE Generation -----------------------------
(***************************************************************************)
(* A conversation with one model through its protocol adapter: the first   *)
(* request, its answer, whole or streamed, and the requests that continue  *)
(* it with the results of the calls it made. It composes the adapters      *)
(* (AnthropicEngine, ResponsesEngine, ChatEngine, GeminiEngine) with the   *)
(* runtime's checks and the continuation that carries the transcript from  *)
(* call to call (Continuation). Retries are GenerateCall's and             *)
(* StreamCall's: one attempt per call here.                                *)
(***************************************************************************)
EXTENDS Continuation, AnthropicEngine, ResponsesEngine, ChatEngine, GeminiEngine

CONSTANTS
    Rows,       \* the registry: the row of every vendor
    Intents,    \* the requests a caller may begin with, but for their target
    Answers,    \* what each vendor's model may answer
    Https,      \* the HTTP errors a provider may reject a request with
    Codes,      \* the codes of an error inside an accepted stream
    MaxCalls    \* bound: calls of one conversation

VARIABLES
    vendor,     \* the vendor of this conversation
    version,    \* the fingerprint of its registry row
    held,       \* the latest artifact the caller was given
    calls,      \* calls made
    phase,      \* of the current call: idle, ready, streaming, done
    call,       \* its intent, continuation state, request, and the answer to it
    rest,       \* the frames that are still to come
    decoder,    \* the adapter's decoder
    events,     \* what the adapter yielded
    end,        \* how its stream ended: open, returned, or an error
    result      \* the outcome of the call, or the error it raised

vars == <<vendor, version, held, calls, phase, call, rest, decoder, events,
          end, result>>

\* A row names one of the adapters the runtime has. An answer consists of blocks
\* of the kinds its protocol has, a text, the arguments of a call and a signature
\* of fragments, and has a reason to stop.
Engines == {"anthropic_messages", "openai_responses", "openai_chat", "gemini_generate"}
RowsFit ==
    \A row \in {Rows[v] : v \in DOMAIN Rows} :
        /\ {"engine", "version", "model", "codec"} \subseteq DOMAIN row
        /\ row.engine \in Engines /\ row.model # Absent
BlockTypes(engine) ==
    {"text", "tool", "thinking"}
      \cup (CASE engine = "anthropic_messages" -> {"unknown"}
              [] engine = "openai_responses" -> {"refusal"}
              [] OTHER -> {})
KnownBlock(block, engine) ==
    LET Has(field) == field \in DOMAIN block /\ IsSequence(block[field]) IN
    /\ block = [field \in DOMAIN block |-> block[field]]
    /\ "type" \in DOMAIN block /\ block.type \in BlockTypes(engine)
    /\ block.type = "text" => Has("text")
    /\ block.type = "tool" =>
         Has("arguments") /\ block.arguments # Absent /\ {"id", "name"} \subseteq DOMAIN block
    /\ block.type = "thinking" => Has("signature")
AnswerFits(answer, engine) ==
    /\ answer.finish # Absent
    /\ engine = "gemini_generate" /\ answer.finish = "blocked" => answer.blocks = <<>>
    /\ IsSequence(answer.blocks)
    /\ \A i \in DOMAIN answer.blocks : KnownBlock(answer.blocks[i], engine)
AnswersFit ==
    \A v \in DOMAIN Rows : \A answer \in Answers[v] : AnswerFits(answer, Rows[v].engine)
ASSUME RegistryAssumption == RowsFit /\ AnswersFit

Vendors == DOMAIN Rows
Row == [Rows[vendor] EXCEPT !.version = version]

----------------------------------------------------------------------------
\* _engine: the adapter that serves a row.

Request(row, intent) ==
    CASE row.engine = "anthropic_messages" -> AnthropicRequest(row, intent)
      [] row.engine = "openai_responses" -> ResponsesRequest(row, intent)
      [] row.engine = "openai_chat" -> ChatRequest(row, intent)
      [] row.engine = "gemini_generate" -> GeminiRequest(row, intent)

\* One attempt for a whole answer.
Generate(row, intent, reply) ==
    CASE row.engine = "anthropic_messages" -> AnthropicGenerate(row, intent, reply)
      [] row.engine = "openai_responses" -> ResponsesGenerate(row, intent, reply)
      [] row.engine = "openai_chat" -> ChatGenerate(row, intent, reply)
      [] row.engine = "gemini_generate" -> GeminiGenerate(row, intent, reply)

Frames(row, answer) ==
    CASE row.engine = "anthropic_messages" -> AnthropicFrames(answer, row)
      [] row.engine = "openai_responses" -> ResponsesFrames(answer, row)
      [] row.engine = "openai_chat" -> ChatFrames(answer, row)
      [] row.engine = "gemini_generate" -> GeminiFrames(answer)

\* How the stream of an attempt opens.
Opening(row, reply) ==
    CASE row.engine = "anthropic_messages" -> AnthropicOpen(row, reply)
      [] row.engine = "openai_responses" -> ResponsesOpen(row, reply)
      [] row.engine = "openai_chat" -> ChatOpen(row, reply)
      [] row.engine = "gemini_generate" -> GeminiOpen(row, reply)

\* What one frame makes of the decoder.
Step(row, intent, frame) ==
    CASE row.engine = "anthropic_messages" ->
            AnthropicFrame(decoder, frame, row, intent)
      [] row.engine = "openai_responses" ->
            ResponsesFrame(decoder, frame, row, intent)
      [] row.engine = "openai_chat" -> ChatChunk(decoder, frame, row)
      [] row.engine = "gemini_generate" -> GeminiChunk(decoder, frame, row, intent)

\* What the end of the source makes of it.
SourceEnd(row, intent) ==
    CASE row.engine = "anthropic_messages" -> Raises(decoder, AnthropicCut(decoder))
      [] row.engine = "openai_responses" -> Raises(decoder, ResponsesCut(decoder))
      [] row.engine = "openai_chat" -> ChatEnd(decoder, row, intent)
      [] row.engine = "gemini_generate" -> Raises(decoder, GeminiCut(decoder))

\* What breaks it while it is read.
Fails(row, failure) ==
    CASE row.engine = "anthropic_messages" -> AnthropicFails(decoder, failure)
      [] row.engine = "openai_responses" -> ResponsesFails(decoder, failure)
      [] row.engine = "openai_chat" -> ChatFails(decoder, failure)
      [] row.engine = "gemini_generate" -> GeminiFails(decoder, failure)

----------------------------------------------------------------------------
NoCall == [streaming |-> FALSE]

Init ==
    /\ vendor \in Vendors /\ version = 0 /\ held = Absent
    /\ calls = 0 /\ phase = "idle" /\ call = NoCall
    /\ rest = <<>> /\ decoder = Absent /\ events = <<>>
    /\ end = Open /\ result = Absent

\* A request that passed the runtime's checks is encoded by its adapter; one
\* that did not, or that the adapter cannot express, is refused unsent.
Dispatch(prepared, streaming) ==
    LET request == IF IsError(prepared) THEN prepared ELSE Request(Row, prepared.intent) IN
    /\ phase \in {"idle", "done"} /\ calls < MaxCalls
    /\ calls' = calls + 1
    /\ IF IsError(request)
       THEN phase' = "done" /\ result' = request /\ call' = NoCall
       ELSE /\ phase' = "ready" /\ result' = Absent
            /\ call' = [streaming |-> streaming, intent |-> prepared.intent,
                        state |-> prepared.state, request |-> request,
                        answer |-> Absent, fault |-> "none"]
    /\ rest' = <<>> /\ decoder' = Absent
    /\ events' = <<>> /\ end' = Open
    /\ UNCHANGED <<vendor, version, held>>

Begin ==
    /\ calls = 0
    /\ \E intent \in Intents, streaming \in BOOLEAN :
         Dispatch(PrepareFirst(Row, intent @@ [target |-> Row.target], streaming), streaming)

\* The results the caller gives: those asked for, too few, or in another order.
GivenResults ==
    LET asked == Last(held.payload.turns).calls
        Given(big) == [i \in DOMAIN asked |-> [id |-> asked[i].id, big |-> big]]
    IN {Given(FALSE), Given(TRUE), Tail(Given(FALSE)), Reverse(Given(FALSE))}

\* A caller keeps its artifact as bytes, and decodes them for the current row.
Continue ==
    /\ held # Absent
    /\ LET stored == DecodeContinuation(held, Row.target, Row.codec) IN
       /\ ~ IsError(stored)
       /\ \E results \in GivenResults, streaming \in BOOLEAN :
            Dispatch(PrepareNext(Row, stored, results, streaming), streaming)

\* A new release defines the model otherwise.
Redefine ==
    /\ version = 0 /\ held # Absent /\ phase = "done"
    /\ version' = 1
    /\ UNCHANGED <<vendor, held, calls, phase, call, rest, decoder, events, end, result>>

\* The adapter's attempt is over, with an outcome or an error: the runtime
\* seals the outcome, and the caller holds the artifact it carries.
Settle(ended) ==
    LET sealed == IF IsError(ended) THEN ended
                  ELSE SealOutcome(Row, call.intent, call.state, ended)
    IN /\ result' = sealed
       /\ phase' = "done"
       /\ held' = IF IsError(sealed) \/ sealed.arm # "Succeeded" \/ sealed.continuation = Absent
                  THEN held ELSE sealed.continuation

\* A model calls tools only if it was given some.
Possible == {answer \in Answers[vendor] :
               ToolsOf(answer.blocks) # <<>> => call.intent.tools /\ call.intent.choice = "auto"}

\* What may come of a request; nothing is sent if the connection does not stand.
Replies == [kind : {"connection"}, phase : {"connect", "read"}, timeout : BOOLEAN]
             \cup [kind : {"http"}, http : Https]
             \cup [kind : {"malformed"}]
             \cup [kind : {"answer"}, answer : Possible]

Replied(reply) ==
    IF reply.kind = "answer" THEN [call EXCEPT !.answer = reply.answer]
    ELSE [call EXCEPT !.fault = reply.kind]

AnswerWhole ==
    /\ phase = "ready" /\ ~ call.streaming
    /\ \E reply \in Replies :
         /\ call' = Replied(reply)
         /\ Settle(Generate(Row, call.intent, reply))
    /\ UNCHANGED <<vendor, version, calls, rest, decoder, events, end>>

\* The decoder goes on, or its stream ends.
Advance(step) ==
    /\ decoder' = step.state
    /\ events' = events \o step.events
    /\ end' = step.end
    /\ IF step.end = Open THEN phase' = "streaming" /\ UNCHANGED <<held, result>>
       ELSE Settle(IF step.end = Returned THEN Last(events').outcome ELSE step.end)

\* The headers of a stream come first: its frames may be malformed, they not.
OpenStream ==
    /\ phase = "ready" /\ call.streaming
    /\ \E reply \in {r \in Replies : r.kind # "malformed"} :
         /\ call' = Replied(reply)
         /\ rest' = IF reply.kind = "answer" THEN Frames(Row, reply.answer) ELSE <<>>
         /\ Advance(Opening(Row, reply))
    /\ UNCHANGED <<vendor, version, calls>>

Deliver ==
    /\ phase = "streaming" /\ rest # <<>>
    /\ Advance(Step(Row, call.intent, Head(rest)))
    /\ rest' = Tail(rest)
    /\ UNCHANGED <<vendor, version, calls, call>>

\* The source ends, after its last frame or before it.
End ==
    /\ phase = "streaming"
    /\ Advance(SourceEnd(Row, call.intent))
    /\ call' = IF rest = <<>> THEN call ELSE [call EXCEPT !.fault = "cut"]
    /\ UNCHANGED <<vendor, version, calls, rest>>

\* The connection breaks, the provider reports an error, or a frame is no JSON.
Failures == [kind : {"transport"}, timeout : BOOLEAN]
              \cup [kind : {"inband"}, code : Codes[Row.engine]]
              \cup [kind : {"malformed"}]

Fail ==
    /\ phase = "streaming"
    /\ \E failure \in Failures :
         /\ Advance(Raises(decoder, Fails(Row, failure)))
         /\ call' = [call EXCEPT !.fault = failure.kind]
    /\ UNCHANGED <<vendor, version, calls, rest>>

Next ==
    \/ Begin \/ Continue \/ Redefine
    \/ AnswerWhole \/ OpenStream \/ Deliver \/ End \/ Fail

Spec == Init /\ [][Next]_vars

----------------------------------------------------------------------------
\* Properties.

\* An adapter's stream is what StreamCall takes it for.
Kind(event) ==
    CASE event.event = "start" -> "start"
      [] event.event = "continuation" -> "continuation"
      [] event.event = "terminal" -> "terminal"
      [] OTHER -> "semantic"
Contract == INSTANCE EngineContract WITH yielded <- [i \in DOMAIN events |-> Kind(events[i])],
                                         end <- end
ImplementsEngine == Contract!Spec

\* What an outcome says: how the text was cut into blocks does not matter.
Says(blocks) ==
    <<TextOf(blocks), [i \in DOMAIN ToolsOf(blocks) |->
                         <<Signature(ToolsOf(blocks)[i]), ToolsOf(blocks)[i].arguments>>]>>
Meaning(outcome) ==
    IF IsError(outcome) THEN <<outcome.error>>
    ELSE IF outcome.arm = "Refused" THEN <<"Incomplete", "content_filter_partial">>
    ELSE IF outcome.arm = "Succeeded"
    THEN <<"Succeeded", outcome.content, outcome.meta,
           IF outcome.continuation = Absent THEN Absent
           ELSE Says(Last(outcome.continuation.payload.turns).native)>>
    ELSE <<outcome.arm, outcome.detail>>

\* The calls of an answer are complete: one without arguments too, but as an item
\* of the Responses protocol.
CallsFit(row, answer) ==
    \A block \in ToSet(ToolsOf(answer.blocks)) :
        \/ IsObject(block.arguments)
        \/ block.arguments = <<>> /\ row.engine # "openai_responses"

\* What a stream may tell at once, before the reason the model stopped for is
\* known: a call that is broken, a block of an unknown kind. And an answer of the
\* Responses protocol that refuses and is cut short is refused if it comes whole,
\* and incomplete if it is streamed.
ToldFirst(row, answer, said) ==
    \/ said = <<"Failed", "InvalidToolArguments">> /\ ~ CallsFit(row, answer)
    \/ /\ said = <<"ProtocolDefect">> /\ row.engine = "anthropic_messages"
       /\ \E block \in ToSet(answer.blocks) : block.type = "unknown"
    \/ /\ said \in {<<"Incomplete", "max_output_tokens">>, <<"ProtocolDefect">>}
       /\ row.engine = "openai_responses" /\ ResponsesRefuses(answer.blocks)
       /\ answer.finish \notin {"stop", "refusal"}

\* A streamed answer means what the same answer means when it comes whole: the
\* same content, usage, billability and continuation, or the same failure; or it
\* fails for what the stream tells first.
StreamAgreesWithGenerate ==
    (phase = "done" /\ call # NoCall /\ call.streaming /\ call.answer # Absent
       /\ call.fault = "none")
    => LET whole == Generate(Row, call.intent, [kind |-> "answer", answer |-> call.answer])
           sealed == IF IsError(whole) THEN whole
                     ELSE SealOutcome(Row, call.intent, call.state, whole)
       IN \/ Meaning(result) = Meaning(sealed)
          \/ ToldFirst(Row, call.answer, Meaning(result))

\* What the consumer of a stream was given: the text of its deltas, and the calls
\* that were done.
TextShown(es) ==
    Concat([i \in DOMAIN es |-> IF es[i].event = "text" THEN es[i].text ELSE <<>>])
CallsDone(es) ==
    Concat([i \in DOMAIN es |-> IF es[i].event = "done" THEN <<es[i].call>> ELSE <<>>])

Completed ==
    phase = "done" /\ end = Returned /\ ~ IsError(result) /\ result.arm = "Succeeded"

\* It is the content of the outcome that the stream ends with, neither more nor
\* less.
ContentAddsUp ==
    Completed => /\ TextShown(events) = result.content.text
                 /\ CallsDone(events) = result.content.tools

\* Its calls are each started once, given in fragments that are its arguments,
\* and done once. Only a Gemini call has no fragments, and one without arguments
\* none; a late name swallows what came before it.
CallsUnfold ==
    Completed
    => LET At(kind, id) == {i \in DOMAIN events :
                              events[i].event = kind
                                /\ id = (CASE kind = "call" -> events[i].call[1]
                                           [] kind = "delta" -> events[i].id
                                           [] kind = "done" -> events[i].call.id)}
           Fragments(id) == Concat([i \in DOMAIN events |->
                                      IF i \in At("delta", id) THEN events[i].text ELSE <<>>])
       IN \A call_ \in ToSet(result.content.tools) :
            /\ Cardinality(At("call", call_.id)) = 1
            /\ Cardinality(At("done", call_.id)) = 1
            /\ \A i \in At("call", call_.id), j \in At("delta", call_.id),
                 k \in At("done", call_.id) : i < j /\ j < k
            /\ Fragments(call_.id) \in {call_.arguments, <<>>}
                 \/ call.answer.late

\* The events of a stream add up to the outcome it ends with.
EventsAddUp == ContentAddsUp /\ CallsUnfold

\* An artifact the runtime sealed can be resumed with results that fit, as long
\* as the model is defined as it was.
Resumable(artifact) ==
    LET asked == PendingToolCalls(Row, artifact)
        results == [i \in DOMAIN asked.calls |-> [id |-> asked.calls[i].id, big |-> FALSE]]
        prepared == PrepareNext(Row, artifact, results, TRUE)
    IN ~ IsError(asked) /\ ~ IsError(prepared) /\ ~ IsError(Request(Row, prepared.intent))

EveryReplayAccepted ==
    held # Absent /\ held.payload.version = version => Resumable(held)

\* The same, but for a streamed chat call that came without any argument text:
\* it is kept raw in the native turn, which then cannot be replayed.
ReplayAccepted ==
    held # Absent /\ held.payload.version = version =>
        \/ Resumable(held)
        \/ /\ Row.engine = "openai_chat"
           /\ \E turn \in ToSet(held.payload.turns) :
                \E block \in ToSet(ToolsOf(turn.native)) : block.arguments = <<>>

\* What a call puts on the wire is the whole transcript: every turn of the
\* model as the model gave it, in order, each followed by exactly the results
\* its calls asked for. Only xAI is not given its own reasoning again.
WireIsTheTranscript ==
    call # NoCall =>
        LET turns == call.request.turns
            Turns(role) == SetToSortSeq({i \in DOMAIN turns : turns[i].role = role}, <)
            own == Turns("assistant")
            Native(i) == SelectSeq(call.state.turns[i].native,
                                   LAMBDA b : Row.provider # "xai" \/ b.type # "thinking")
            Until(i) == IF i < Len(own) THEN own[i + 1] ELSE Len(turns) + 1
            Results(i) == SelectSeq(Concat([j \in 1 .. Until(i) - own[i] - 1 |->
                                              turns[own[i] + j].blocks]),
                                    LAMBDA b : b.type = "result")
            Ids(blocks) == [j \in DOMAIN blocks |-> blocks[j].id]
        IN /\ Len(own) = Len(call.state.turns)
           /\ \A i \in DOMAIN own :
                /\ turns[own[i]].blocks = Native(i)
                /\ Ids(Results(i)) = Ids(ToolsOf(Native(i)))

=============================================================================
