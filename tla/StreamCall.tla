----------------------------- MODULE StreamCall -----------------------------
(***************************************************************************)
(* One ProviderRuntime.stream call (runtime.py, _stream_events): an async  *)
(* generator the consumer pulls, which itself pulls one engine stream per  *)
(* attempt. Each pull of the engine stream races the cancel signal; the    *)
(* engine stream is closed after every attempt; the consumer may stop      *)
(* pulling, abandon the generator, or be cancelled at any await.           *)
(***************************************************************************)
EXTENDS CallMeta, FiniteSets

CONSTANTS
    AttemptTimes,   \* how long the next engine event, or a close, may take
    Oversleeps,     \* how late the event loop may wake a sleeping task
    MaxEvents       \* bound: engine events before an attempt's last one

ASSUME TimesAssumption == AttemptTimes \subseteq Nat /\ Oversleeps \subseteq Nat

VARIABLES
    pc,                 \* where the generator is suspended, or how it ended
    then,               \* what it does when it is resumed or has closed a source
    cancel,             \* the CancelSignal is set
    clock, attempt, begun, trace, billability, wakeAt,  \* as in generate
    cause,              \* last_cause, of the attempt to be retried
    startForwarded, semanticForwarded,
    emitted,            \* the envelopes the consumer got: seq, event, and the
                        \* engine stream that was current
    source,             \* the engine stream: none, suspended, running, closed
    pulled,             \* engine events of this attempt so far
    slot,               \* the result of the finished pull, at most one
    held,               \* the terminal that follows a continuation, at most one
    dispatched,         \* engine streams opened
    unsettled           \* attempts the provider may really charge

vars == <<pc, then, cancel, clock, attempt, begun, trace, billability, wakeAt,
          cause, startForwarded, semanticForwarded, emitted, source, pulled,
          slot, held, dispatched, unsettled>>

\* What only an attempt's own bookkeeping changes.
book == <<attempt, begun, trace, billability, wakeAt, cause, dispatched>>

Ended == {"returned", "raised", "masked", "abandoned", "aborted"}

\* What one pull of an engine stream may end with. Every byte of an event came
\* from the provider, so an attempt that produced one may be billed.
Events ==
    (IF pulled = 0 THEN {[kind |-> "start"]} ELSE {})
        \cup {[kind |-> "semantic"], [kind |-> "native"]}
LastItems ==
    [kind : {"terminal"}, arm : EngineArms, continuation : BOOLEAN,
     billability : {"PossiblyBillable"}]
      \cup [kind : {"transient"}, cause : Cause,
            billability : IF pulled = 0 THEN Billability ELSE {"PossiblyBillable"}]
      \cup [kind : {"defect"}]

Init ==
    /\ pc = "ready" /\ then = "none"
    /\ cancel \in BOOLEAN
    /\ clock = 0 /\ attempt = 0 /\ begun = 0 /\ wakeAt = 0
    /\ trace = <<>> /\ billability = "NotDispatched" /\ cause = Absent
    /\ startForwarded = FALSE /\ semanticForwarded = FALSE
    /\ emitted = <<>> /\ source = "none" /\ pulled = 0
    /\ slot = {} /\ held = {} /\ dispatched = 0 /\ unsettled = {}

----------------------------------------------------------------------------
\* The environment: the caller's signal and the engine.

SetCancel ==
    /\ ~ cancel /\ pc \notin Ended
    /\ cancel' = TRUE
    /\ UNCHANGED <<pc, then, clock, book, startForwarded, semanticForwarded,
                   emitted, source, pulled, slot, held, unsettled>>

EngineProduces ==
    /\ pc = "reading" /\ source = "running"
    /\ \E item \in (IF pulled < MaxEvents THEN Events ELSE {}) \cup LastItems,
          d \in AttemptTimes :
        /\ slot' = {item}
        /\ clock' = clock + d
        /\ source' = IF item.kind \in {"transient", "defect"}
                     THEN "closed"
                     ELSE "suspended"
        /\ unsettled' = IF item.kind = "transient" /\ item.billability # "PossiblyBillable"
                        THEN unsettled
                        ELSE unsettled \cup {attempt}
    /\ pulled' = pulled + 1
    /\ UNCHANGED <<pc, then, cancel, book, startForwarded, semanticForwarded,
                   emitted, held>>

----------------------------------------------------------------------------
\* The generator: emitting, and suspending at a yield.

\* Yield an event in an envelope with the next seq, to go on with what follows.
Yield(event, next) ==
    /\ emitted' = Append(emitted, [seq |-> Len(emitted) + 1, event |-> event,
                                   source |-> dispatched])
    /\ pc' = "yielded" /\ then' = next

YieldTerminal(outcome) ==
    /\ Yield([kind |-> "terminal", outcome |-> outcome], "return")
    /\ held' = {}

\* Pull the engine stream once more, racing the signal.
Read == pc' = "reading" /\ source' = "running" /\ slot' = {}

\* The finally clause awaits the source's close, and goes on with next.
CloseAnd(next) == pc' = "closing" /\ then' = next

CancelledBeforeAttempt ==
    /\ pc = "ready" /\ cancel
    /\ attempt' = attempt + 1 /\ begun' = clock
    /\ trace' = Append(trace, Record(attempt', FinalAttempt, clock, clock))
    /\ source' = "none"
    /\ YieldTerminal(Terminal("Cancelled", trace', billability))
    /\ UNCHANGED <<cancel, clock, billability, wakeAt, cause, startForwarded,
                   semanticForwarded, pulled, slot, dispatched, unsettled>>

\* Mutant: the signal is not looked at.
StartAttemptUnchecked ==
    /\ pc = "ready"
    /\ attempt' = attempt + 1 /\ begun' = clock
    /\ dispatched' = dispatched + 1 /\ pulled' = 0
    /\ Read
    /\ UNCHANGED <<then, cancel, clock, trace, billability, wakeAt, cause,
                   startForwarded, semanticForwarded, emitted, held, unsettled>>

StartAttempt ==
    /\ pc = "ready" /\ ~ cancel
    /\ attempt' = attempt + 1 /\ begun' = clock
    /\ dispatched' = dispatched + 1 /\ pulled' = 0
    /\ Read
    /\ UNCHANGED <<then, cancel, clock, trace, billability, wakeAt, cause,
                   startForwarded, semanticForwarded, emitted, held, unsettled>>

\* A finished pull wins the race even when the signal has been set.
Take(kinds) ==
    /\ pc = "reading"
    /\ \E item \in slot : item.kind \in kinds
    /\ UNCHANGED <<cancel, clock, attempt, begun, wakeAt, pulled, dispatched,
                   unsettled>>

Taken == CHOOSE item \in slot : TRUE

\* At most one StreamStart crosses the envelope, even across retried attempts.
TakeStart ==
    /\ Take({"start"})
    /\ startForwarded' = TRUE
    /\ IF startForwarded
       THEN Read /\ UNCHANGED <<then, emitted>>
       ELSE /\ Yield([kind |-> "start"], "read")
            /\ slot' = {} /\ UNCHANGED source
    /\ UNCHANGED <<trace, billability, cause, semanticForwarded, held>>

\* The native continuation is not forwarded, but it ends the retries.
TakeNative ==
    /\ Take({"native"})
    /\ semanticForwarded' = TRUE
    /\ Read
    /\ UNCHANGED <<then, trace, billability, cause, startForwarded, emitted, held>>

TakeSemantic ==
    /\ Take({"semantic"})
    /\ semanticForwarded' = TRUE
    /\ Yield([kind |-> "semantic"], "read")
    /\ slot' = {}
    /\ UNCHANGED <<trace, billability, cause, startForwarded, source, held>>

\* The engine's terminal, absorbed and sealed. A success that carries a
\* continuation yields the sealed continuation first.
TakeTerminal ==
    /\ Take({"terminal"})
    /\ slot' = {}
    /\ trace' = Absorbed(trace, begun, clock)
    /\ billability' = FoldBillability(billability, Taken.billability)
    /\ \E arm \in SealedArms(Taken.arm) :
        LET outcome == Terminal(arm, trace', billability') IN
        CASE arm = "Refused" ->
                CloseAnd("raised") /\ UNCHANGED <<emitted, held>>
          [] arm = "Succeeded" /\ Taken.continuation ->
                Yield([kind |-> "continuation"], "terminal") /\ held' = {outcome}
          [] OTHER ->
                YieldTerminal(outcome)
    /\ UNCHANGED <<cause, startForwarded, semanticForwarded, source>>

\* A bare end of the engine stream, or a defect it raises.
TakeDefect ==
    /\ Take({"defect"})
    /\ slot' = {}
    /\ CloseAnd("raised")
    /\ UNCHANGED <<trace, billability, cause, startForwarded, semanticForwarded,
                   emitted, source, held>>

\* After semantic output any transient failure is terminal.
Interrupted ==
    /\ Take({"transient"}) /\ semanticForwarded
    /\ slot' = {}
    /\ billability' = FoldBillability(billability, Taken.billability)
    /\ trace' = Append(trace, Record(attempt, FinalAttempt, begun, clock))
    /\ YieldTerminal(Terminal("Exhausted", trace', billability'))
    /\ UNCHANGED <<cause, startForwarded, semanticForwarded, source>>

\* Mutant: any transient failure is retried.
TransientFailureAlways ==
    /\ Take({"transient"})
    /\ slot' = {}
    /\ billability' = FoldBillability(billability, Taken.billability)
    /\ cause' = Taken.cause
    /\ trace' = Append(trace, Record(attempt, Taken.cause, begun, clock))
    /\ CloseAnd("retry")
    /\ UNCHANGED <<startForwarded, semanticForwarded, emitted, source, held>>

\* Before it, the attempt is recorded and, its source closed, retried.
TransientFailure ==
    /\ Take({"transient"}) /\ ~ semanticForwarded
    /\ slot' = {}
    /\ billability' = FoldBillability(billability, Taken.billability)
    /\ cause' = Taken.cause
    /\ trace' = Append(trace, Record(attempt, Taken.cause, begun, clock))
    /\ CloseAnd("retry")
    /\ UNCHANGED <<startForwarded, semanticForwarded, emitted, source, held>>

\* The signal wins: the pull is cancelled and awaited. The request may have
\* left for the provider.
CancelWins ==
    /\ pc = "reading" /\ source = "running" /\ cancel
    /\ pc' = "settling"
    /\ unsettled' = unsettled \cup {attempt}
    /\ UNCHANGED <<then, cancel, clock, book, startForwarded, semanticForwarded,
                   emitted, source, pulled, slot, held>>

\* The cancelled pull has settled, whatever it ended with.
CancelledMidAttempt ==
    /\ pc = "settling"
    /\ source' \in {"suspended", "closed"}
    /\ billability' = FoldBillability(billability, "PossiblyBillable")
    /\ trace' = Append(trace, Record(attempt, FinalAttempt, begun, clock))
    /\ YieldTerminal(Terminal("Cancelled", trace', billability'))
    /\ UNCHANGED <<cancel, clock, attempt, begun, wakeAt, cause, startForwarded,
                   semanticForwarded, pulled, slot, dispatched, unsettled>>

\* After the source is closed the attempt iterator decides: sleep, or exhaust.
\* The clock is read here, so the time the close took counts.
AfterClose(elapsed) ==
    \/ /\ then = "retry"
       /\ \E delay \in Retries(attempt, cause, elapsed) : wakeAt' = clock' + delay
       /\ pc' = "sleeping"
       /\ UNCHANGED <<then, trace, emitted, held>>
    \/ /\ then = "retry" /\ Exhausts(attempt, cause, elapsed)
       /\ trace' = Exhausted(trace)
       /\ YieldTerminal(Terminal("Exhausted", trace', billability))
       /\ UNCHANGED wakeAt
    \/ /\ then \in Ended
       /\ pc' = then
       /\ UNCHANGED <<then, wakeAt, trace, emitted, held>>

CloseSource ==
    /\ pc = "closing" /\ source # "running"
    /\ source' = "closed"
    /\ \E d \in AttemptTimes : clock' = clock + d /\ AfterClose(clock')
    /\ UNCHANGED <<cancel, attempt, begun, billability, cause, startForwarded,
                   semanticForwarded, pulled, slot, dispatched, unsettled>>

\* aclose() of a generator that is still running raises RuntimeError, which
\* replaces whatever was being raised.
CloseRunningSource ==
    /\ pc = "closing" /\ source = "running"
    /\ pc' = "masked"
    /\ UNCHANGED <<then, cancel, clock, book, startForwarded, semanticForwarded,
                   emitted, source, pulled, slot, held, unsettled>>

\* Mutant: a signal set during the sleep is never noticed.
SleepEndsUncancelled ==
    /\ pc = "sleeping" /\ ~ cancel
    /\ \E late \in Oversleeps : clock' = wakeAt + late
    /\ pc' = "ready"
    /\ UNCHANGED <<then, cancel, book, startForwarded, semanticForwarded, emitted,
                   source, pulled, slot, held, unsettled>>

\* Only the next handle looks at the signal: the sleep is not raced against it.
SleepEnds ==
    /\ pc = "sleeping"
    /\ \E late \in Oversleeps : clock' = wakeAt + late
    /\ pc' = "ready"
    /\ UNCHANGED <<then, cancel, book, startForwarded, semanticForwarded, emitted,
                   source, pulled, slot, held, unsettled>>

----------------------------------------------------------------------------
\* The consumer.

\* It asks for the next event: the generator goes on where it yielded.
Pull ==
    /\ pc = "yielded"
    /\ \/ /\ then = "read" /\ Read
          /\ UNCHANGED <<then, emitted, held>>
       \/ /\ then = "terminal"
          /\ \E outcome \in held : YieldTerminal(outcome)
          /\ UNCHANGED <<source, slot>>
       \/ /\ then = "return" /\ source \notin {"none", "closed"}
          /\ CloseAnd("returned")
          /\ UNCHANGED <<emitted, source, slot, held>>
       \/ /\ then = "return" /\ source \in {"none", "closed"}
          /\ pc' = "returned"
          /\ UNCHANGED <<then, emitted, source, slot, held>>
    /\ UNCHANGED <<cancel, clock, book, startForwarded, semanticForwarded, pulled,
                   unsettled>>

\* It closes the generator at a yield: GeneratorExit runs the finally clauses.
Abandon ==
    /\ pc = "yielded"
    /\ CloseAnd("abandoned")
    /\ UNCHANGED <<cancel, clock, book, startForwarded, semanticForwarded, emitted,
                   source, pulled, slot, held, unsettled>>

\* Its task is cancelled while the generator awaits. Parked in the race, the
\* pull is settled first and the source then closed; in the close, the source
\* ends with the CancelledError; asleep, there is no source.
Abort ==
    /\ \/ pc = "reading" /\ source' \in {"suspended", "closed"} /\ CloseAnd("aborted")
       \/ pc = "closing" /\ source # "running" /\ source' = "closed"
          /\ pc' = "aborted" /\ UNCHANGED then
       \/ pc = "sleeping" /\ pc' = "aborted" /\ UNCHANGED <<then, source>>
    /\ slot' = {}
    /\ UNCHANGED <<cancel, clock, book, startForwarded, semanticForwarded, emitted,
                   pulled, held, unsettled>>

\* It is cancelled while the generator awaits the pull the signal cancelled:
\* the pull is not settled when the finally clause closes the source.
AbortWhileSettling ==
    /\ pc = "settling"
    /\ CloseAnd("aborted")
    /\ UNCHANGED <<cancel, clock, book, startForwarded, semanticForwarded, emitted,
                   source, pulled, slot, held, unsettled>>

\* The generator is over.
Stop == pc \in Ended /\ UNCHANGED vars

Generator ==
    \/ CancelledBeforeAttempt \/ StartAttempt
    \/ TakeStart \/ TakeNative \/ TakeSemantic \/ TakeTerminal \/ TakeDefect
    \/ Interrupted \/ TransientFailure
    \/ CancelWins \/ CancelledMidAttempt
    \/ CloseSource \/ CloseRunningSource \/ SleepEnds

Next ==
    \/ SetCancel \/ EngineProduces \/ Generator
    \/ Pull \/ Abandon \/ Abort \/ AbortWhileSettling \/ Stop

Spec == Init /\ [][Next]_vars

\* A consumer that keeps pulling, over an engine that may hang.
FairSpec == Spec /\ WF_vars(Generator) /\ WF_vars(Pull)

\* Every SDK client runs under a timeout, so a pull of the engine ends.
EngineFairness == WF_vars(EngineProduces)

----------------------------------------------------------------------------
\* Type correctness of the stream's state.
Envelope ==
    [seq : Nat, source : Nat,
     event : [kind : {"start", "semantic", "continuation"}]
               \cup [kind : {"terminal"}, outcome : Outcome]]

Item ==
    [kind : {"start", "semantic", "native", "defect"}]
      \cup [kind : {"terminal"}, arm : EngineArms, continuation : BOOLEAN,
            billability : Billability]
      \cup [kind : {"transient"}, cause : Cause, billability : Billability]

Kind(i) == emitted[i].event.kind
Terminals == {i \in 1 .. Len(emitted) : Kind(i) = "terminal"}
Shown == \E i \in 1 .. Len(emitted) : Kind(i) = "semantic"

\* The output a consumer sees is one attempt's, the last: nothing of an attempt
\* that was retried is mixed into it.
OutputOfOneAttempt ==
    \A i \in 1 .. Len(emitted) :
        Kind(i) \in {"semantic", "continuation"} =>
            emitted[i].source = dispatched

\* The envelope across all attempts: seq is contiguous, a start comes first and
\* once, the output is one attempt's, a continuation only before a successful
\* terminal, and the terminal last.
Grammar ==
    /\ \A i \in 1 .. Len(emitted) :
        /\ emitted[i].seq = i
        /\ Kind(i) = "start" => i = 1
        /\ Kind(i) = "terminal" => i = Len(emitted)
        /\ Kind(i) = "continuation" /\ i < Len(emitted) =>
            i + 1 \in Terminals /\ emitted[i + 1].event.outcome.arm = "Succeeded"
    /\ OutputOfOneAttempt
    /\ pc = "returned" => Terminals # {}

\* A stream whose consumer keeps pulling ends, if the engine's pulls end.
StreamEnds == EngineFairness => <>(pc \in Ended)

\* The stream implements the contract of a provider call. What it has shown is
\* the output that crossed the envelope.
Promised == INSTANCE CallContract WITH
    open <- Terminals = {} /\ pc \notin Ended,
    cancelled <- cancel,
    shown <- Shown,
    exposed <- unsettled # {},
    result <- {[records |-> Len(emitted[t].event.outcome.trace),
                cancellation |-> emitted[t].event.outcome.arm = "Cancelled",
                billable |-> emitted[t].event.outcome.billability
                                = "PossiblyBillable"] : t \in Terminals}

ImplementsContract == Promised!Contract

=============================================================================
