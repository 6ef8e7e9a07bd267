---------------------------- MODULE GenerateCall ----------------------------
(***************************************************************************)
(* One ProviderRuntime.generate call (runtime.py): the retry loop, the     *)
(* race of each engine attempt against the caller's cancel signal, and the *)
(* outcome it returns. The caller's task and the engine's task interleave  *)
(* at their awaits; the cancel signal and an external task cancellation    *)
(* may come at any point in between.                                       *)
(***************************************************************************)
EXTENDS CallMeta, FiniteSets

CONSTANTS
    AttemptTimes,   \* how long an engine attempt may take
    Oversleeps      \* how late the event loop may wake a sleeping task

ASSUME TimesAssumption == AttemptTimes \subseteq Nat /\ Oversleeps \subseteq Nat

VARIABLES
    pc,           \* where the call is suspended, or how it ended
    cancel,       \* the CancelSignal is set
    clock,        \* time since the call began
    attempt,      \* handle.number of the current attempt
    begun,        \* started_ms of the current attempt
    trace,        \* the records appended so far
    billability,  \* the folded billability
    engine,       \* the engine task: idle, running, or done with a result
    wakeAt,       \* when the backoff sleep is over
    outcome,      \* the returned outcome, a set of at most one
    dispatched,   \* engine attempts started
    unsettled     \* attempts that reached the provider and were not confirmed
                  \* non-billable: what the provider may really charge

vars == <<pc, cancel, clock, attempt, begun, trace, billability, engine,
          wakeAt, outcome, dispatched, unsettled>>

Ended == {"returned", "raised", "aborted"}

\* What an engine attempt may end with. An attempt that never reached the
\* provider says so; one that did says whether it is known not to be billed.
Results(sent) ==
    LET bills == IF sent THEN Billability \ {"NotDispatched"} ELSE {"NotDispatched"}
    IN  [kind : {"transient"}, cause : Cause, billability : bills]
          \cup [kind : {"outcome"}, arm : EngineArms, billability : bills]
          \cup [kind : {"defect"}]

Idle == [state |-> "idle", sent |-> FALSE]

Init ==
    /\ pc = "ready"
    /\ cancel \in BOOLEAN
    /\ clock = 0 /\ attempt = 0 /\ begun = 0 /\ wakeAt = 0
    /\ trace = <<>> /\ billability = "NotDispatched"
    /\ engine = Idle
    /\ outcome = {} /\ dispatched = 0 /\ unsettled = {}

----------------------------------------------------------------------------
\* The environment.

SetCancel ==
    /\ ~ cancel /\ pc \notin Ended
    /\ cancel' = TRUE
    /\ UNCHANGED <<pc, clock, attempt, begun, trace, billability, engine,
                   wakeAt, outcome, dispatched, unsettled>>

\* The engine's request leaves for the provider.
EngineSends ==
    /\ pc = "racing" /\ engine.state = "running" /\ ~ engine.sent
    /\ engine' = [engine EXCEPT !.sent = TRUE]
    /\ unsettled' = unsettled \cup {attempt}
    /\ UNCHANGED <<pc, cancel, clock, attempt, begun, trace, billability,
                   wakeAt, outcome, dispatched>>

\* The engine's coroutine returns or raises.
EngineFinishes ==
    /\ pc = "racing" /\ engine.state = "running"
    /\ \E result \in Results(engine.sent), d \in AttemptTimes :
        /\ engine' = [state |-> "done", sent |-> engine.sent, result |-> result]
        /\ clock' = clock + d
        /\ unsettled' = IF result.kind # "defect"
                           /\ result.billability = "ConfirmedNonBillable"
                        THEN unsettled \ {attempt}
                        ELSE unsettled
    /\ UNCHANGED <<pc, cancel, attempt, begun, trace, billability, wakeAt, outcome, dispatched>>

----------------------------------------------------------------------------
\* The call.

\* The call returns an outcome of its own making, or one the engine decoded.
Return(arm, records, bill) ==
    /\ pc' = "returned"
    /\ outcome' = {Terminal(arm, records, bill)}

\* A fresh handle while the signal is set: nothing more is dispatched.
CancelledBeforeAttempt ==
    /\ pc = "ready" /\ cancel
    /\ attempt' = attempt + 1 /\ begun' = clock
    /\ trace' = Append(trace, Record(attempt', FinalAttempt, clock, clock))
    /\ Return("Cancelled", trace', billability)
    /\ UNCHANGED <<cancel, clock, billability, engine, wakeAt, dispatched, unsettled>>

\* Mutant: the signal is not looked at.
StartAttemptUnchecked ==
    /\ pc = "ready"
    /\ attempt' = attempt + 1 /\ begun' = clock
    /\ engine' = [state |-> "running", sent |-> FALSE]
    /\ pc' = "racing"
    /\ dispatched' = dispatched + 1
    /\ UNCHANGED <<cancel, clock, trace, billability, wakeAt, outcome, unsettled>>

StartAttempt ==
    /\ pc = "ready" /\ ~ cancel
    /\ attempt' = attempt + 1 /\ begun' = clock
    /\ engine' = [state |-> "running", sent |-> FALSE]
    /\ pc' = "racing"
    /\ dispatched' = dispatched + 1
    /\ UNCHANGED <<cancel, clock, trace, billability, wakeAt, outcome, unsettled>>

\* The engine's result is taken, even when the signal has been set meanwhile.
EngineResult(kind) ==
    /\ pc = "racing" /\ engine.state = "done" /\ engine.result.kind = kind
    /\ engine' = Idle
    /\ UNCHANGED <<cancel, clock, attempt, begun, dispatched, unsettled>>

AttemptReturns ==
    /\ EngineResult("outcome")
    /\ trace' = Absorbed(trace, begun, clock)
    /\ billability' = FoldBillability(billability, engine.result.billability)
    /\ \E arm \in SealedArms(engine.result.arm) : Return(arm, trace', billability')
    /\ UNCHANGED wakeAt

AttemptRaises ==
    /\ EngineResult("defect")
    /\ pc' = "raised"
    /\ UNCHANGED <<trace, billability, wakeAt, outcome, dispatched>>

\* except TransientAttempt: fold, record the cause, mark the handle.
TransientFailure ==
    /\ EngineResult("transient")
    /\ billability' = FoldBillability(billability, engine.result.billability)

BackOff ==
    /\ TransientFailure
    /\ trace' = Append(trace, Record(attempt, engine.result.cause, begun, clock))
    /\ \E delay \in Retries(attempt, engine.result.cause, clock) :
        wakeAt' = clock + delay
    /\ pc' = "sleeping"
    /\ UNCHANGED outcome

Exhaust ==
    /\ TransientFailure
    /\ Exhausts(attempt, engine.result.cause, clock)
    /\ trace' = Exhausted(
            Append(trace, Record(attempt, engine.result.cause, begun, clock)))
    /\ Return("Exhausted", trace', billability')
    /\ UNCHANGED wakeAt

\* Mutant: a signal set during the sleep is never noticed.
SleepEndsUncancelled ==
    /\ pc = "sleeping" /\ ~ cancel
    /\ \E late \in Oversleeps : clock' = wakeAt + late
    /\ pc' = "ready"
    /\ UNCHANGED <<cancel, attempt, begun, trace, billability, engine, wakeAt,
                   outcome, dispatched, unsettled>>

\* Only the next handle looks at the signal: the sleep is not raced against it.
SleepEnds ==
    /\ pc = "sleeping"
    /\ \E late \in Oversleeps : clock' = wakeAt + late
    /\ pc' = "ready"
    /\ UNCHANGED <<cancel, attempt, begun, trace, billability, engine, wakeAt,
                   outcome, dispatched, unsettled>>

\* The signal wins: the engine task is cancelled and awaited.
CancelWins ==
    /\ pc = "racing" /\ cancel /\ engine.state = "running"
    /\ pc' = "settling"
    /\ UNCHANGED <<cancel, clock, attempt, begun, trace, billability, engine,
                   wakeAt, outcome, dispatched, unsettled>>

\* Whatever the cancelled engine task ends with is dropped.
CancelledMidAttempt ==
    /\ pc = "settling"
    /\ engine' = Idle
    /\ billability' = FoldBillability(billability, "PossiblyBillable")
    /\ trace' = Append(trace, Record(attempt, FinalAttempt, begun, clock))
    /\ Return("Cancelled", trace', billability')
    /\ UNCHANGED <<cancel, clock, attempt, begun, wakeAt, dispatched, unsettled>>

\* The caller's own task is cancelled while parked in the race or asleep; the
\* race settles its engine task before it lets the CancelledError through.
Abort ==
    /\ pc \in {"racing", "sleeping"}
    /\ engine' = Idle
    /\ pc' = "aborted"
    /\ UNCHANGED <<cancel, clock, attempt, begun, trace, billability, wakeAt,
                   outcome, dispatched, unsettled>>

\* The same while it awaits the engine task the signal cancelled: that task is
\* left behind, still running.
AbortWhileSettling ==
    /\ pc = "settling"
    /\ pc' = "aborted"
    /\ UNCHANGED <<cancel, clock, attempt, begun, trace, billability, engine,
                   wakeAt, outcome, dispatched, unsettled>>

\* The call is over.
Stop == pc \in Ended /\ UNCHANGED vars

Caller ==
    \/ CancelledBeforeAttempt \/ StartAttempt
    \/ AttemptReturns \/ AttemptRaises \/ BackOff \/ Exhaust
    \/ SleepEnds \/ CancelWins \/ CancelledMidAttempt

Next ==
    \/ SetCancel \/ EngineSends \/ EngineFinishes
    \/ Caller \/ Abort \/ AbortWhileSettling \/ Stop

Spec == Init /\ [][Next]_vars

\* The event loop resumes the caller's task whenever it can run.
CallerFairness == WF_vars(Caller)

\* Every SDK client runs under a timeout, so an attempt ends.
EngineFairness == WF_vars(EngineFinishes)

\* An engine that may hang forever.
FairSpec == Spec /\ CallerFairness

----------------------------------------------------------------------------
\* Type correctness of the call's state.
TypeOK ==
    /\ pc \in {"ready", "racing", "settling", "sleeping"} \cup Ended
    /\ cancel \in BOOLEAN
    /\ clock \in Nat /\ attempt \in Nat /\ begun \in Nat /\ wakeAt \in Nat
    /\ dispatched \in Nat
    /\ trace \in Seq(AttemptRecord)
    /\ billability \in Billability
    /\ \/ engine = Idle
       \/ engine \in [state : {"running"}, sent : BOOLEAN]
       \/ \E sent \in BOOLEAN :
            engine \in [state : {"done"}, sent : {sent}, result : Results(sent)]
    /\ outcome \subseteq Outcome
    /\ unsettled \subseteq Nat

\* Nexus bills from the trace of the outcome (types.py: attempt_count is its
\* length): it holds one record per handle, numbered in order, and only the
\* last is a FinalAttempt, across renumbering, cancellation and exhaustion.
TraceFaithful ==
    \A o \in outcome :
        /\ Len(o.trace) = attempt /\ attempt \in 1 .. MaxAttempts
        /\ \A i \in 1 .. attempt :
            /\ o.trace[i].attempt = i
            /\ (o.trace[i].signal = FinalAttempt) <=> (i = attempt)

\* A retry never starts before the window the provider stated has passed, nor
\* does a retry follow a window beyond the cap (retry.py: never retry early).
WindowsHonoured ==
    \A i \in 1 .. Len(trace) :
        LET window == trace[i].signal.retryAfter
            next == IF i < Len(trace) THEN trace[i + 1].started ELSE begun
        IN  (window # Absent /\ attempt > i) =>
                window <= RetryAfterCap /\ next >= trace[i].ended + window

\* No attempt begins past the wall-clock deadline, but for the time the event
\* loop oversleeps: the pending delay counts against it.
DeadlineHonoured ==
    Deadline # Absent /\ attempt > 1 =>
        \E late \in Oversleeps \cup {0} : begun <= Deadline + late

\* Reservations settle on the billability of the outcome: it is
\* PossiblyBillable when some attempt, an earlier or a cancelled one included,
\* may be charged, and only then unless the call was cancelled.
ChargesReported ==
    \A o \in outcome :
        /\ unsettled # {} => o.billability = "PossiblyBillable"
        /\ o.billability = "PossiblyBillable" /\ o.arm # "Cancelled"
                => unsettled # {}

\* A call ends: attempts and sleeps are bounded.
CallEnds == EngineFairness => <>(pc \in Ended)

\* The call implements the contract of a provider call: it shows no output.
Promised == INSTANCE CallContract WITH
    open <- pc \notin Ended,
    cancelled <- cancel,
    shown <- FALSE,
    exposed <- unsettled # {},
    result <- {[records |-> Len(o.trace),
                cancellation |-> o.arm = "Cancelled",
                billable |-> o.billability = "PossiblyBillable"] : o \in outcome}

ImplementsContract == Promised!Contract
=============================================================================
