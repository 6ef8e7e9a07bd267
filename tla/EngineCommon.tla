---------------------------- MODULE EngineCommon ----------------------------
(***************************************************************************)
(* What the four protocol adapters share (engines/_common.py and           *)
(* engines/_openai_common.py): the values they exchange with the runtime,  *)
(* the checks on a request, and the classification of what goes wrong.     *)
(*                                                                         *)
(* A text, or the arguments of a tool call, is a sequence of fragments; a  *)
(* document of the provider is the sequence <<"{", "}">>, so that a text   *)
(* that lost a fragment no longer parses.                                  *)
(***************************************************************************)
EXTENDS Naturals, Sequences, FiniteSets, SequencesExt

CONSTANT Absent     \* Absent()

\* json.loads gives an object.
IsObject(text) == text = <<"{", "}">>

IsSequence(s) == s \in Seq({s[i] : i \in DOMAIN s})

\* The texts one after the other: the loop of the lists below, a function over the
\* length of what it runs through.
Concat(texts) ==
    LET joined[n \in 0 .. Len(texts)] ==
            IF n = 0 THEN <<>> ELSE joined[n - 1] \o texts[n]
    IN joined[Len(texts)]

\* The text, and the calls, among the blocks of an answer, in order.
TextOf(blocks) ==
    Concat([i \in DOMAIN blocks |-> IF blocks[i].type = "text" THEN blocks[i].text ELSE <<>>])
ToolsOf(blocks) ==
    Concat([i \in DOMAIN blocks |-> IF blocks[i].type = "tool" THEN <<blocks[i]>> ELSE <<>>])
Signature(call) == <<call.id, call.name>>
Signatures(calls) == [i \in DOMAIN calls |-> Signature(calls[i])]

\* The values of a map in the order of its numeric keys.
KeyAt(keys, i) == CHOOSE key \in keys : Cardinality({k \in keys : k < key}) = i - 1
InOrder(map) == [i \in 1 .. Cardinality(DOMAIN map) |-> map[KeyAt(DOMAIN map, i)]]

----------------------------------------------------------------------------
\* What an attempt ends with: an outcome, or an error it raises.

Outcome(arm, detail, meta) ==
    [arm |-> arm, detail |-> detail, meta |-> meta, content |-> Absent,
     continuation |-> Absent]
Success(content, continuation, meta) ==
    [arm |-> "Succeeded", detail |-> "", meta |-> meta, content |-> content,
     continuation |-> continuation]
Failure(failure, meta) == Outcome("Failed", failure, meta)
Incomplete(reason, meta) == Outcome("Incomplete", reason, meta)

\* The adapters' one-attempt CallMeta; its trace is the runtime's to renumber.
Meta(model, usage, billability) ==
    [model |-> model, usage |-> usage, billability |-> billability]

Transient(cause, billability) ==
    [error |-> "TransientAttempt", cause |-> cause, billability |-> billability]
Interrupted(partial, billability) ==
    Transient([kind |-> "interrupted", partial |-> partial], billability)
Unavailable == Transient([kind |-> "unavailable"], "PossiblyBillable")
RateLimited(retryAfter) ==
    Transient([kind |-> "rate_limit", retryAfter |-> retryAfter], "PossiblyBillable")
Defect(code) == [error |-> "ProtocolDefect", cause |-> code]
HttpDefect(code) == [error |-> "RuntimeDefect", cause |-> code]
CredentialRejected == [error |-> "CredentialRejected", cause |-> "credential"]
InvalidRequest == [error |-> "InvalidRequest", cause |-> "request"]
RegistryInvalid == [error |-> "RuntimeDefect", cause |-> "registry_invalid"]

IsError(result) == "error" \in DOMAIN result

\* What one frame makes of a stream decoder: its state, the events it yields,
\* and how it ends, if it does: it returns, or raises an error.
Open == [error |-> "no"]
Returned == [error |-> "returned"]
Goes(state, events) == [state |-> state, events |-> events, end |-> Open]
Returns(state, events) == [state |-> state, events |-> events, end |-> Returned]
Raises(state, error) == [state |-> state, events |-> <<>>, end |-> error]

StreamStart == [event |-> "start"]
TextDelta(text) == [event |-> "text", text |-> text]
ToolStart(call) == [event |-> "call", call |-> Signature(call)]
ToolDelta(id, text) == [event |-> "delta", id |-> id, text |-> text]
ToolDone(call) == [event |-> "done", call |-> call]
UsageEvent(usage) == [event |-> "usage", usage |-> usage]
ContinuationDelta(artifact) == [event |-> "continuation", artifact |-> artifact]
Terminal(outcome) == [event |-> "terminal", outcome |-> outcome]

\* The events that follow a decoded stream: the continuation of a success, and
\* the terminal.
Closing(outcome) ==
    IF outcome.arm = "Succeeded" /\ outcome.continuation # Absent
    THEN <<ContinuationDelta(outcome.continuation), Terminal(outcome)>>
    ELSE <<Terminal(outcome)>>

----------------------------------------------------------------------------
\* Requests.

\* The row's knob: the keys the declared level writes, and those any level can.
RowReasoning(row, intent) ==
    IF intent.reasoning \in DOMAIN row.levels
    THEN [fragment |-> row.levels[intent.reasoning],
          owned |-> UNION {row.levels[l] : l \in DOMAIN row.levels}]
    ELSE InvalidRequest

ContinuationFits(artifact, row, intent) ==
    artifact.target = intent.target /\ artifact.codec = row.codec

\* The blocks an artifact carries, or none when there is nothing to carry.
Artifact(row, intent, blocks) ==
    IF blocks = <<>> THEN Absent
    ELSE [target |-> intent.target, codec |-> row.codec, blocks |-> blocks]

\* The first check that fails decides: a poisoned row is the operator's fault,
\* an option that overrides a request field the caller's.
RequestFault(row, intent, engineKeys, ownedOptions) ==
    LET reasoning == RowReasoning(row, intent) IN
    IF IsError(reasoning) THEN reasoning
    ELSE IF engineKeys \cap reasoning.owned # {} THEN RegistryInvalid
    ELSE IF (ownedOptions \cup reasoning.owned) \cap intent.options # {}
    THEN InvalidRequest
    ELSE Absent

----------------------------------------------------------------------------
\* Answers.

\* response_content: only a final answer must satisfy the requested output;
\* Absent stands for InvalidStructuredOutput.
ResponseContent(intent, text, tools) ==
    IF tools # <<>> \/ intent.output = "text" \/ IsObject(text)
    THEN [text |-> text, tools |-> tools]
    ELSE Absent

\* The end of every decoder: the content, or the failure to be the output.
Answer(row, intent, text, tools, blocks, meta) ==
    LET content == ResponseContent(intent, text, tools) IN
    IF content = Absent THEN Failure("InvalidStructuredOutput", meta)
    ELSE Success(content, Artifact(row, intent, blocks), meta)

----------------------------------------------------------------------------
\* Failures on the way to an answer.

\* Only a finite number of seconds, at least zero, has a consumer.
RetryAfterSeconds(header) == IF header \in Nat THEN header ELSE Absent

\* A failure of the connection, before or after the answer began.
Broken(timeout, billability) ==
    Transient([kind |-> IF timeout THEN "timeout" ELSE "unavailable"], billability)

\* Only a failure before the connection was up proves that nothing was sent: it
\* is read off the chain of causes of what the SDK raised.
TransientConnection(failure) ==
    Broken(failure.timeout,
           IF failure.phase = "connect" THEN "NotDispatched" ELSE "PossiblyBillable")

\* terminal_http_failure of the OpenAI SDK's errors: Absent is the one failure
\* that is an outcome, the context that is too large.
OpenAIHttpFailure(http) ==
    IF http.status \in {401, 403} THEN CredentialRejected
    ELSE IF http.status = 402 \/ http.type = "quota" THEN HttpDefect("quota_exhausted")
    ELSE IF http.type = "overflow" THEN Absent
    ELSE IF http.status = 429 THEN RateLimited(RetryAfterSeconds(http.retryAfter))
    ELSE IF http.status \in {500, 502, 503, 504} THEN Unavailable
    ELSE HttpDefect("unclassified_provider_error")

----------------------------------------------------------------------------
\* One attempt. The reply to a request is a connection that failed, an HTTP
\* error, a body that is malformed, or an answer. Absent is a request that
\* nothing was wrong with.

\* A rejected request has no usage, and its model is the row's.
Rejected(row, failure) ==
    IF failure = Absent
    THEN Failure("ProviderContextTooLarge", Meta(row.model, Absent, "PossiblyBillable"))
    ELSE failure

\* A stream opens with its start, or not at all: only the terminal of a context
\* that is too large comes without one.
Opens(start, rejection) ==
    IF rejection = Absent THEN Goes(start, <<StreamStart>>)
    ELSE IF IsError(rejection) THEN Raises(start, rejection)
    ELSE Returns(start, <<Terminal(rejection)>>)
=============================================================================
