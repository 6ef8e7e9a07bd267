---------------------------- MODULE Continuation ----------------------------
(***************************************************************************)
(* The continuation of a generation that waits for tool results            *)
(* (continuation.py) and the checks on a request before it is dispatched   *)
(* (runtime.py, _validate_intent, _prepare and _seal_outcome). An artifact *)
(* is the frozen first request and the native turns since, each with the   *)
(* results that answered its calls.                                        *)
(***************************************************************************)
EXTENDS EngineCommon

CONSTANT Capacity   \* what an encoded artifact may hold, in messages, turns
                    \* and big results

TooLarge == [error |-> "ValueError", cause |-> "too_large"]

\* encode_continuation: 16 MiB of JSON, counted in what it consists of.
Weight(payload) ==
    LET turns == payload.turns
        answered == {i \in DOMAIN turns : turns[i].results # Absent}
        Big(i) == {j \in DOMAIN turns[i].results : turns[i].results[j].big}
    IN Len(payload.first.messages) + Len(turns)
         + Cardinality(UNION {{i} \X Big(i) : i \in answered})
EncodeContinuation(artifact) == Weight(artifact.payload) <= Capacity

\* decode_continuation: only the exact encoding of an artifact of this target
\* and codec comes back.
DecodeContinuation(artifact, target, codec) ==
    IF artifact.target = target /\ artifact.codec = codec /\ EncodeContinuation(artifact)
    THEN artifact ELSE InvalidRequest

\* _first_state
FirstState(row, intent) ==
    IF \A message \in ToSet(intent.messages) : message.role \in {"system", "user"}
    THEN [version |-> row.version, first |-> intent, turns |-> <<>>]
    ELSE InvalidRequest

Sealed(row, intent, payload) ==
    [target |-> intent.target, codec |-> row.codec, payload |-> payload]

\* preflight_generation: a prefix that may need an artifact must fit one.
Preflight(row, intent) ==
    LET state == FirstState(row, intent) IN
    IF IsError(state) THEN state
    ELSE IF intent.tools /\ intent.choice # "none"
              /\ ~ EncodeContinuation(Sealed(row, intent, state))
    THEN InvalidRequest
    ELSE state

----------------------------------------------------------------------------
\* Resuming.

\* A turn as the messages it is replayed as.
TurnMessages(row, payload, turn) ==
    <<[role |-> "assistant", text |-> turn.text, tools |-> turn.calls,
       continuation |-> [target |-> payload.first.target, codec |-> row.codec,
                         blocks |-> turn.native]]>>
      \o [i \in DOMAIN turn.results |-> [role |-> "tool"] @@ turn.results[i]]

\* The artifact fits the current row, and its last turn waits for exactly these
\* results, in order.
PendingFits(row, artifact, results) ==
    LET payload == artifact.payload
        calls == Last(payload.turns).calls
    IN /\ EncodeContinuation(artifact)
       /\ artifact.target = row.target /\ artifact.codec = row.codec
       /\ payload.version = row.version
       /\ payload.turns # <<>>
       /\ Last(payload.turns).results = Absent
       /\ calls # <<>>
       /\ \A i, j \in DOMAIN calls : calls[i].id = calls[j].id => i = j
       /\ [i \in DOMAIN results |-> results[i].id] = [i \in DOMAIN calls |-> calls[i].id]

\* Mutant: only the last turn is replayed.
ResumedLastOnly(row, payload) ==
    [payload.first EXCEPT !.messages = @ \o TurnMessages(row, payload, Last(payload.turns))]

\* The frozen request, followed by every turn and its results.
Resumed(row, payload) ==
    [payload.first EXCEPT !.messages =
        @ \o Concat([i \in DOMAIN payload.turns |->
                       TurnMessages(row, payload, payload.turns[i])])]

\* resume_generation: the intent and the state that goes on, or a refusal.
ResumeGeneration(row, artifact, results) ==
    LET payload == [artifact.payload EXCEPT
                      !.turns[Len(artifact.payload.turns)].results = results]
    IN IF ~ PendingFits(row, artifact, results) THEN InvalidRequest
       ELSE IF ~ EncodeContinuation([artifact EXCEPT !.payload = payload])
       THEN InvalidRequest
       ELSE [intent |-> Resumed(row, payload), state |-> payload]

----------------------------------------------------------------------------
\* Sealing.

\* seal_generation: one turn more, only when it calls tools.
SealGeneration(row, intent, state, outcome) ==
    LET content == outcome.content
        native == outcome.continuation
        grown == [state EXCEPT !.turns =
                    Append(@, [text |-> content.text, calls |-> content.tools,
                               native |-> native.blocks, results |-> Absent])]
    IN IF content.tools = <<>> THEN Success(content, Absent, outcome.meta)
       ELSE IF native = Absent THEN InvalidRequest
       ELSE IF native.target # intent.target \/ native.codec # row.codec
       THEN InvalidRequest
       ELSE IF ~ EncodeContinuation(Sealed(row, intent, grown)) THEN TooLarge
       ELSE Success(content, Sealed(row, intent, grown), outcome.meta)

\* _seal_outcome: what does not fit is a failure of the call that was made.
SealOutcome(row, intent, state, outcome) ==
    IF outcome.arm # "Succeeded" THEN outcome
    ELSE LET sealed == SealGeneration(row, intent, state, outcome) IN
         IF sealed = TooLarge THEN Failure("ContinuationTooLarge", outcome.meta)
         ELSE sealed

\* pending_tool_calls: the calls to answer, if empty answers would resume it.
PendingToolCalls(row, artifact) ==
    LET calls == Last(artifact.payload.turns).calls
        blank == [i \in DOMAIN calls |-> [id |-> calls[i].id, big |-> FALSE]]
    IN IF IsError(ResumeGeneration(row, artifact, blank)) THEN InvalidRequest
       ELSE [calls |-> calls]

----------------------------------------------------------------------------
\* What is checked before anything is sent.

\* _validate_intent
ValidIntent(row, intent, streaming) ==
    /\ ~ IsError(RowReasoning(row, intent))
    /\ streaming => row.streaming
    /\ intent.tools => row.tools /\ intent.output = "text"
    /\ \A message \in ToSet(intent.messages) :
         message.role = "user" =>
             \A block \in ToSet(message.blocks) : block.type = "image" => row.images

\* _prepare: the intent and its state, or a refusal.
PrepareFirst(row, intent, streaming) ==
    LET state == Preflight(row, intent) IN
    IF ~ ValidIntent(row, intent, streaming) THEN InvalidRequest
    ELSE IF IsError(state) THEN state
    ELSE [intent |-> intent, state |-> state]

PrepareNext(row, artifact, results, streaming) ==
    LET resumed == ResumeGeneration(row, artifact, results) IN
    IF IsError(resumed) THEN resumed
    ELSE IF ~ ValidIntent(row, resumed.intent, streaming) THEN InvalidRequest
    ELSE resumed
=============================================================================
