------------------------- MODULE GenerateCallProofs -------------------------
(***************************************************************************)
(* Theorems about GenerateCall, for every retry policy and every timing.   *)
(***************************************************************************)
EXTENDS GenerateCall, TLAPS

LEMMA FoldIsMaximum ==
    ASSUME NEW a \in Billability, NEW b \in Billability
    PROVE  /\ FoldBillability(a, b) \in Billability
           /\ FoldBillability(a, b) = "PossiblyBillable"
                <=> a = "PossiblyBillable" \/ b = "PossiblyBillable"
BY DEF FoldBillability, BillabilityRank, Billability

LEMMA FinalIsNoCause == FinalAttempt \notin Cause
BY DEF FinalAttempt, Cause

\* What a retry needs: budget left, a window within the cap, and the deadline.
LEMMA RetryBounds ==
    ASSUME NEW n \in Nat, NEW cause \in Cause, NEW elapsed \in Nat,
           NEW delay \in Retries(n, cause, elapsed)
    PROVE  /\ delay \in Nat
           /\ n < MaxAttempts
           /\ cause.retryAfter # Absent =>
                delay = cause.retryAfter /\ cause.retryAfter <= RetryAfterCap
           /\ Deadline # Absent => elapsed + delay <= Deadline
<1>1. cause.retryAfter \in Nat \cup {Absent}
  BY PolicyAssumption DEF Cause
<1>2. delay \in Nat
  BY <1>1, PolicyAssumption DEF Retries, Delays
<1> QED BY <1>1, <1>2, PolicyAssumption
        DEF Retries, Delays, ExceedsRetryAfterCap, DeadlineExhausted
-----------------------------------------------------------------------------
LEMMA RecordType ==
    ASSUME NEW number \in Nat, NEW signal \in Signal, NEW s \in Nat, NEW e \in Nat
    PROVE  Record(number, signal, s, e) \in AttemptRecord
BY DEF Record, AttemptRecord

LEMMA AppendRecord ==
    ASSUME NEW t \in Seq(AttemptRecord), NEW r \in AttemptRecord
    PROVE  /\ Append(t, r) \in Seq(AttemptRecord)
           /\ Len(Append(t, r)) = Len(t) + 1
           /\ \A i \in 1 .. Len(t) : Append(t, r)[i] = t[i]
           /\ Append(t, r)[Len(t) + 1] = r
OBVIOUS

\* Exhaustion changes the last signal and nothing else.
LEMMA ExhaustedTrace ==
    ASSUME NEW t \in Seq(AttemptRecord), Len(t) > 0
    PROVE  /\ Exhausted(t) \in Seq(AttemptRecord)
           /\ Len(Exhausted(t)) = Len(t)
           /\ \A i \in 1 .. Len(t) - 1 : Exhausted(t)[i] = t[i]
           /\ Exhausted(t)[Len(t)] = [t[Len(t)] EXCEPT !.signal = FinalAttempt]
<1>1. t[Len(t)] \in AttemptRecord
  OBVIOUS
<1>2. [t[Len(t)] EXCEPT !.signal = FinalAttempt] \in AttemptRecord
  BY <1>1 DEF AttemptRecord, Signal
<1> QED BY <1>1, <1>2 DEF Exhausted

\* The result an engine attempt ended with.
LEMMA ResultType ==
    ASSUME TypeOK, engine.state = "done"
    PROVE  /\ engine.result.kind \in {"transient", "outcome"}
                => engine.result.billability \in Billability
           /\ engine.result.kind = "transient" => engine.result.cause \in Cause
           /\ engine.result.kind = "outcome" => engine.result.arm \in EngineArms
<1>1. PICK sent \in BOOLEAN :
        engine \in [state : {"done"}, sent : {sent}, result : Results(sent)]
  BY DEF TypeOK, Idle
<1>2. engine.result \in Results(sent)
  BY <1>1
<1>3. engine.result \in
        [kind : {"transient"}, cause : Cause, billability : Billability]
          \cup [kind : {"outcome"}, arm : EngineArms, billability : Billability]
          \cup [kind : {"defect"}]
  BY <1>2 DEF Results, Billability
<1> QED BY <1>3

LEMMA OutcomeType ==
    ASSUME NEW t \in Seq(AttemptRecord), NEW b \in Billability,
           NEW arm \in EngineArms \cup {"Cancelled", "Exhausted", "TooLarge"}
    PROVE  Terminal(arm, t, b) \in Outcome
BY DEF Terminal, Outcome
-----------------------------------------------------------------------------
LEMMA TypeStep == TypeOK /\ [Next]_vars => TypeOK'
<1> SUFFICES ASSUME TypeOK, [Next]_vars PROVE TypeOK'
  OBVIOUS
<1> USE DEF TypeOK, Ended, Return
<1>1. CASE UNCHANGED vars
  BY <1>1 DEF vars
<1>2. CASE SetCancel
  BY <1>2 DEF SetCancel
<1>3. CASE EngineSends
  BY <1>3 DEF EngineSends, Idle
<1>4. CASE EngineFinishes
  BY <1>4, TimesAssumption DEF EngineFinishes, Idle
<1>5. CASE CancelledBeforeAttempt
  <2>1. Record(attempt + 1, FinalAttempt, clock, clock) \in AttemptRecord
    BY DEF Record, AttemptRecord, Signal
  <2>2. trace' \in Seq(AttemptRecord)
    BY <1>5, <2>1, AppendRecord DEF CancelledBeforeAttempt
  <2>3. outcome' \subseteq Outcome
    BY <1>5, <2>2, OutcomeType DEF CancelledBeforeAttempt
  <2> QED BY <1>5, <2>2, <2>3 DEF CancelledBeforeAttempt
<1>6. CASE StartAttempt
  BY <1>6 DEF StartAttempt
<1>7. CASE AttemptReturns
  <2>1. engine.result.billability \in Billability /\ engine.result.arm \in EngineArms
    BY <1>7, ResultType DEF AttemptReturns, EngineResult
  <2>2. trace' \in Seq(AttemptRecord)
    <3>1. Record(Len(trace) + 1, FinalAttempt, begun, clock) \in AttemptRecord
      BY RecordType DEF Signal
    <3> QED BY <1>7, <3>1, AppendRecord DEF AttemptReturns, Absorbed
  <2>3. billability' \in Billability
    BY <1>7, <2>1, FoldIsMaximum DEF AttemptReturns
  <2>4. outcome' \subseteq Outcome
    <3>1. SealedArms(engine.result.arm)
              \subseteq EngineArms \cup {"Cancelled", "Exhausted", "TooLarge"}
      BY <2>1 DEF SealedArms
    <3> QED BY <1>7, <2>2, <2>3, <3>1, OutcomeType DEF AttemptReturns
  <2> QED BY <1>7, <2>2, <2>3, <2>4 DEF AttemptReturns, EngineResult
<1>8. CASE AttemptRaises
  BY <1>8 DEF AttemptRaises, EngineResult
<1>9. CASE BackOff
  <2>1. engine.result.billability \in Billability /\ engine.result.cause \in Cause
    BY <1>9, ResultType DEF BackOff, TransientFailure, EngineResult
  <2>2. trace' \in Seq(AttemptRecord)
    <3>1. Record(attempt, engine.result.cause, begun, clock) \in AttemptRecord
      BY <2>1, RecordType DEF Signal
    <3> QED BY <1>9, <3>1, AppendRecord DEF BackOff
  <2>3. billability' \in Billability
    BY <1>9, <2>1, FoldIsMaximum DEF BackOff, TransientFailure
  <2>4. wakeAt' \in Nat
    BY <1>9, <2>1, RetryBounds DEF BackOff
  <2> QED BY <1>9, <2>2, <2>3, <2>4 DEF BackOff, TransientFailure, EngineResult
<1>10. CASE Exhaust
  <2>1. engine.result.billability \in Billability /\ engine.result.cause \in Cause
    BY <1>10, ResultType DEF Exhaust, TransientFailure, EngineResult
  <2> DEFINE longer == Append(trace, Record(attempt, engine.result.cause, begun, clock))
  <2>2. longer \in Seq(AttemptRecord) /\ Len(longer) > 0
    <3>1. Record(attempt, engine.result.cause, begun, clock) \in AttemptRecord
      BY <2>1, RecordType DEF Signal
    <3> QED BY <3>1, AppendRecord
  <2>3. trace' \in Seq(AttemptRecord)
    <3> HIDE DEF longer
    <3>1. Exhausted(longer) \in Seq(AttemptRecord)
      BY <2>2, ExhaustedTrace
    <3> QED BY <1>10, <3>1 DEF Exhaust, longer
  <2>4. billability' \in Billability
    BY <1>10, <2>1, FoldIsMaximum DEF Exhaust, TransientFailure
  <2>5. outcome' \subseteq Outcome
    BY <1>10, <2>3, <2>4, OutcomeType DEF Exhaust
  <2> QED BY <1>10, <2>3, <2>4, <2>5 DEF Exhaust, TransientFailure, EngineResult
<1>11. CASE SleepEnds
  BY <1>11, TimesAssumption DEF SleepEnds
<1>12. CASE CancelWins
  BY <1>12 DEF CancelWins
<1>13. CASE CancelledMidAttempt
  <2>1. trace' \in Seq(AttemptRecord)
    <3>1. Record(attempt, FinalAttempt, begun, clock) \in AttemptRecord
      BY RecordType DEF Signal
    <3> QED BY <1>13, <3>1, AppendRecord DEF CancelledMidAttempt
  <2>2. billability' \in Billability
    BY <1>13, FoldIsMaximum DEF CancelledMidAttempt, Billability
  <2>3. outcome' \subseteq Outcome
    BY <1>13, <2>1, <2>2, OutcomeType DEF CancelledMidAttempt
  <2> QED BY <1>13, <2>1, <2>2, <2>3 DEF CancelledMidAttempt
<1>14. CASE Abort
  BY <1>14 DEF Abort
<1>15. CASE AbortWhileSettling
  BY <1>15 DEF AbortWhileSettling
<1>16. CASE Stop
  BY <1>16 DEF Stop, vars
<1> QED
  BY <1>1, <1>2, <1>3, <1>4, <1>5, <1>6, <1>7, <1>8, <1>9, <1>10, <1>11,
     <1>12, <1>13, <1>14, <1>15, <1>16 DEF Next, Caller

\* Type correctness (TypeOK) of every reachable state of a generate call.
THEOREM Typing == Spec => []TypeOK
<1>1. Init => TypeOK
  BY DEF Init, TypeOK, Idle, Billability
<1>2. TypeOK /\ [Next]_vars => TypeOK'
  BY TypeStep
<1> QED BY <1>1, <1>2, PTL DEF Spec
-----------------------------------------------------------------------------
(***************************************************************************)
(* The inductive invariant. The properties speak of the outcome; what makes *)
(* them true is kept at every await: the handles used and the records       *)
(* appended, the windows the next attempt has to wait for, and which of the *)
(* finished attempts the folded billability stands for.                     *)
(***************************************************************************)
Accounting ==
    /\ pc # "returned" => outcome = {}
    /\ pc \notin Ended => dispatched = attempt
    /\ pc = "settling" => cancel
    /\ pc = "returned" =>
        /\ \E arm \in EngineArms \cup {"Cancelled", "Exhausted", "TooLarge"} :
            outcome = {Terminal(arm, trace, billability)}
        /\ Len(trace) = attempt /\ attempt \in 1 .. MaxAttempts
    /\ pc \in {"ready", "sleeping"} => Len(trace) = attempt /\ attempt < MaxAttempts
    /\ pc \in {"racing", "settling"} => Len(trace) + 1 = attempt /\ attempt <= MaxAttempts
    /\ \A i \in 1 .. Len(trace) :
        /\ trace[i].attempt = i
        /\ pc # "returned" \/ i < Len(trace) => trace[i].signal \in Cause
        /\ pc = "returned" /\ i = Len(trace) => trace[i].signal = FinalAttempt

\* The window of record i is within the cap and over at time t.
WindowOver(i, t) ==
    LET window == trace[i].signal.retryAfter IN
    window # Absent => window <= RetryAfterCap /\ t >= trace[i].ended + window

Timing ==
    /\ \A i \in 1 .. Len(trace) :
        /\ i < Len(trace) => WindowOver(i, trace[i + 1].started)
        /\ i = Len(trace) =>
            /\ attempt > i => WindowOver(i, begun)
            /\ pc = "sleeping" => WindowOver(i, wakeAt)
            /\ pc = "ready" => WindowOver(i, clock)
    /\ Deadline # Absent =>
        /\ attempt > 1 => \E late \in Oversleeps \cup {0} : begun <= Deadline + late
        /\ pc = "sleeping" => wakeAt <= Deadline
        /\ pc = "ready" /\ attempt > 0 =>
            \E late \in Oversleeps \cup {0} : clock <= Deadline + late

Charges ==
    /\ unsettled \subseteq 1 .. attempt
    /\ pc \in {"ready", "sleeping"} =>
        (unsettled # {} <=> billability = "PossiblyBillable")
    /\ pc = "racing" =>
        /\ (unsettled \ {attempt} # {}) <=> billability = "PossiblyBillable"
        /\ engine.state \in {"running", "done"}
        /\ engine.state = "running" => (attempt \in unsettled <=> engine.sent)
        /\ engine.state = "done" /\ engine.result.kind # "defect" =>
            (attempt \in unsettled <=> engine.result.billability = "PossiblyBillable")
    /\ \A o \in outcome :
        /\ unsettled # {} => billability = "PossiblyBillable"
        /\ billability = "PossiblyBillable" /\ o.arm # "Cancelled" => unsettled # {}

Inv == TypeOK /\ Accounting /\ Timing /\ Charges

LEMMA InvInit == Init => Inv
<1> SUFFICES ASSUME Init PROVE Inv
  OBVIOUS
<1>1. TypeOK
  BY DEF Init, TypeOK, Idle, Billability
<1>2. Accounting
  BY PolicyAssumption DEF Init, Accounting, Ended
<1>3. Timing
  BY DEF Init, Timing
<1>4. Charges
  BY DEF Init, Charges
<1> QED BY <1>1, <1>2, <1>3, <1>4 DEF Inv

LEMMA AccountingStep == Inv /\ [Next]_vars => Accounting'
<1> SUFFICES ASSUME Inv, [Next]_vars PROVE Accounting'
  OBVIOUS
<1> USE DEF Inv, Accounting, Ended
<1>0. attempt \in Nat /\ dispatched \in Nat /\ trace \in Seq(AttemptRecord)
      /\ clock \in Nat /\ begun \in Nat
  BY DEF TypeOK
<1>1. CASE UNCHANGED vars
  BY <1>1 DEF vars
<1>2. CASE SetCancel
  BY <1>2 DEF SetCancel
<1>3. CASE EngineSends
  BY <1>3 DEF EngineSends
<1>4. CASE EngineFinishes
  BY <1>4 DEF EngineFinishes
<1>5. CASE CancelledBeforeAttempt
  <2> DEFINE r == Record(attempt + 1, FinalAttempt, clock, clock)
  <2>1. r \in AttemptRecord /\ r.attempt = attempt + 1 /\ r.signal = FinalAttempt
    BY <1>0 DEF Record, AttemptRecord, Signal
  <2>2. trace' = Append(trace, r) /\ attempt' = attempt + 1
    BY <1>5 DEF CancelledBeforeAttempt
  <2> HIDE DEF r
  <2>3. Len(trace') = Len(trace) + 1 /\ trace'[Len(trace) + 1] = r
        /\ \A i \in 1 .. Len(trace) : trace'[i] = trace[i]
    BY <1>0, <2>1, <2>2, AppendRecord
  <2> QED BY <1>0, <1>5, <2>1, <2>2, <2>3, PolicyAssumption
          DEF CancelledBeforeAttempt, Return
<1>6. CASE StartAttempt
  BY <1>0, <1>6, PolicyAssumption DEF StartAttempt
<1>7. CASE AttemptReturns
  <2> DEFINE r == Record(Len(trace) + 1, FinalAttempt, begun, clock)
  <2>1. r \in AttemptRecord /\ r.attempt = Len(trace) + 1 /\ r.signal = FinalAttempt
    BY <1>0 DEF Record, AttemptRecord, Signal
  <2>2. trace' = Append(trace, r) /\ attempt' = attempt /\ pc = "racing"
    BY <1>7 DEF AttemptReturns, EngineResult, Absorbed
  <2> HIDE DEF r
  <2>3. Len(trace') = Len(trace) + 1 /\ trace'[Len(trace) + 1] = r
        /\ \A i \in 1 .. Len(trace) : trace'[i] = trace[i]
    BY <1>0, <2>1, <2>2, AppendRecord
  <2>4. \E arm \in EngineArms \cup {"Cancelled", "Exhausted", "TooLarge"} :
            outcome' = {Terminal(arm, trace', billability')} /\ pc' = "returned"
    <3>1. engine.result.arm \in EngineArms
      BY <1>7, ResultType DEF AttemptReturns, EngineResult
    <3> QED BY <1>7, <3>1 DEF AttemptReturns, Return, SealedArms
  <2> QED BY <1>0, <2>1, <2>2, <2>3, <2>4, PolicyAssumption
<1>8. CASE AttemptRaises
  BY <1>8 DEF AttemptRaises, EngineResult
<1>9. CASE BackOff
  <2> DEFINE r == Record(attempt, engine.result.cause, begun, clock)
  <2>1. engine.result.cause \in Cause /\ pc = "racing"
    BY <1>9, ResultType DEF BackOff, TransientFailure, EngineResult
  <2>2. r \in AttemptRecord /\ r.attempt = attempt /\ r.signal = engine.result.cause
    BY <1>0, <2>1 DEF Record, AttemptRecord, Signal
  <2>3. trace' = Append(trace, r) /\ attempt' = attempt /\ pc' = "sleeping"
        /\ dispatched' = dispatched /\ outcome' = outcome
    BY <1>9 DEF BackOff, TransientFailure, EngineResult
  <2>4. attempt < MaxAttempts
    BY <1>0, <1>9, <2>1, RetryBounds DEF BackOff
  <2> HIDE DEF r
  <2>5. Len(trace') = Len(trace) + 1 /\ trace'[Len(trace) + 1] = r
        /\ \A i \in 1 .. Len(trace) : trace'[i] = trace[i]
    BY <1>0, <2>2, <2>3, AppendRecord
  <2> QED BY <1>0, <2>1, <2>2, <2>3, <2>4, <2>5
<1>10. CASE Exhaust
  <2> DEFINE r == Record(attempt, engine.result.cause, begun, clock)
             t == Append(trace, r)
  <2>1. engine.result.cause \in Cause /\ pc = "racing"
    BY <1>10, ResultType DEF Exhaust, TransientFailure, EngineResult
  <2>2. r \in AttemptRecord /\ r.attempt = attempt
    BY <1>0, <2>1 DEF Record, AttemptRecord, Signal
  <2>3. trace' = Exhausted(t) /\ attempt' = attempt /\ pc' = "returned"
        /\ outcome' = {Terminal("Exhausted", trace', billability')}
    BY <1>10 DEF Exhaust, TransientFailure, EngineResult, Return
  <2> HIDE DEF r
  <2>4. t \in Seq(AttemptRecord) /\ Len(t) = Len(trace) + 1 /\ t[Len(trace) + 1] = r
        /\ \A i \in 1 .. Len(trace) : t[i] = trace[i]
    BY <1>0, <2>2, AppendRecord
  <2> HIDE DEF t
  <2>5. Len(trace') = Len(t) /\ \A i \in 1 .. Len(trace) : trace'[i] = trace[i]
    <3>1. Len(t) > 0 /\ Len(t) - 1 = Len(trace)
      BY <1>0, <2>4
    <3> QED BY <2>3, <2>4, <3>1, ExhaustedTrace
  <2>6. trace'[Len(t)] = [r EXCEPT !.signal = FinalAttempt]
    BY <1>0, <2>3, <2>4, ExhaustedTrace
  <2>7. trace'[Len(t)].attempt = attempt /\ trace'[Len(t)].signal = FinalAttempt
    BY <2>2, <2>6 DEF AttemptRecord
  <2> QED BY <1>0, <2>1, <2>3, <2>4, <2>5, <2>7
<1>11. CASE SleepEnds
  BY <1>11 DEF SleepEnds
<1>12. CASE CancelWins
  BY <1>12 DEF CancelWins
<1>13. CASE CancelledMidAttempt
  <2> DEFINE r == Record(attempt, FinalAttempt, begun, clock)
  <2>1. r \in AttemptRecord /\ r.attempt = attempt /\ r.signal = FinalAttempt
    BY <1>0 DEF Record, AttemptRecord, Signal
  <2>2. trace' = Append(trace, r) /\ attempt' = attempt /\ pc = "settling"
        /\ pc' = "returned" /\ outcome' = {Terminal("Cancelled", trace', billability')}
    BY <1>13 DEF CancelledMidAttempt, Return
  <2> HIDE DEF r
  <2>3. Len(trace') = Len(trace) + 1 /\ trace'[Len(trace) + 1] = r
        /\ \A i \in 1 .. Len(trace) : trace'[i] = trace[i]
    BY <1>0, <2>1, <2>2, AppendRecord
  <2> QED BY <1>0, <2>1, <2>2, <2>3, PolicyAssumption
<1>14. CASE Abort
  BY <1>14 DEF Abort
<1>15. CASE AbortWhileSettling
  BY <1>15 DEF AbortWhileSettling
<1>16. CASE Stop
  BY <1>16 DEF Stop, vars
<1> QED
  BY <1>1, <1>2, <1>3, <1>4, <1>5, <1>6, <1>7, <1>8, <1>9, <1>10, <1>11,
     <1>12, <1>13, <1>14, <1>15, <1>16 DEF Next, Caller

\* A record appended to the trace leaves the windows before it as they were;
\* the last of them is over when the new record's attempt started.
LEMMA WindowsAppend ==
    ASSUME TypeOK, Timing, NEW start,
           trace' \in Seq(AttemptRecord),
           Len(trace') = Len(trace) + 1,
           \A i \in 1 .. Len(trace) : trace'[i] = trace[i],
           trace'[Len(trace) + 1].started = start,
           Len(trace) > 0 => WindowOver(Len(trace), start)
    PROVE  \A i \in 1 .. Len(trace') :
                i < Len(trace') => WindowOver(i, trace[i + 1].started)'
<1>0. Len(trace) \in Nat
  BY DEF TypeOK
<1> SUFFICES ASSUME NEW i \in 1 .. Len(trace)
             PROVE  WindowOver(i, trace[i + 1].started)'
  BY <1>0
<1>1. CASE i = Len(trace)
  BY <1>0, <1>1 DEF WindowOver
<1>2. CASE i < Len(trace)
  <2>1. WindowOver(i, trace[i + 1].started)
    BY <1>0, <1>2 DEF Timing
  <2>2. trace'[i + 1] = trace[i + 1]
    BY <1>0, <1>2
  <2> QED BY <2>1, <2>2 DEF WindowOver
<1> QED BY <1>0, <1>1, <1>2

\* A call that returns from an attempt recorded its start.
LEMMA TimingOfReturn ==
    ASSUME Inv, pc \in {"racing", "settling"}, pc' = "returned",
           trace' \in Seq(AttemptRecord),
           Len(trace') = Len(trace) + 1,
           \A i \in 1 .. Len(trace) : trace'[i] = trace[i],
           trace'[Len(trace) + 1].started = begun,
           attempt' = attempt, begun' = begun
    PROVE  Timing'
<1> USE DEF Inv
<1>0. attempt \in Nat /\ Len(trace) \in Nat /\ attempt = Len(trace) + 1
  BY DEF TypeOK, Accounting
<1>1. Len(trace) > 0 => WindowOver(Len(trace), begun)
  BY <1>0 DEF Timing
<1>2. \A i \in 1 .. Len(trace') :
            i < Len(trace') => WindowOver(i, trace[i + 1].started)'
  BY <1>1, WindowsAppend
<1>3. Deadline # Absent /\ attempt > 1 =>
            \E late \in Oversleeps \cup {0} : begun <= Deadline + late
  BY DEF Timing
<1> QED BY <1>0, <1>2, <1>3 DEF Timing

LEMMA TimingStep == Inv /\ [Next]_vars => Timing'
<1> SUFFICES ASSUME Inv, [Next]_vars PROVE Timing'
  OBVIOUS
<1> USE DEF Inv, Ended
<1>0. attempt \in Nat /\ dispatched \in Nat /\ trace \in Seq(AttemptRecord)
      /\ clock \in Nat /\ begun \in Nat /\ wakeAt \in Nat /\ Len(trace) \in Nat
  BY DEF TypeOK
<1>1. CASE UNCHANGED vars
  BY <1>1 DEF vars, Timing, WindowOver
<1>2. CASE SetCancel
  BY <1>2 DEF SetCancel, Timing, WindowOver
<1>3. CASE EngineSends
  BY <1>3 DEF EngineSends, Timing, WindowOver
<1>4. CASE EngineFinishes
  BY <1>4 DEF EngineFinishes, Timing, WindowOver
<1>5. CASE CancelledBeforeAttempt
  <2> DEFINE r == Record(attempt + 1, FinalAttempt, clock, clock)
  <2>1. r \in AttemptRecord /\ r.started = clock
    BY <1>0 DEF Record, AttemptRecord, Signal
  <2>2. trace' = Append(trace, r) /\ attempt' = attempt + 1 /\ begun' = clock
        /\ pc = "ready" /\ pc' = "returned"
    BY <1>5 DEF CancelledBeforeAttempt, Return
  <2> HIDE DEF r
  <2>3. trace' \in Seq(AttemptRecord) /\ Len(trace') = Len(trace) + 1
        /\ trace'[Len(trace) + 1] = r
        /\ \A i \in 1 .. Len(trace) : trace'[i] = trace[i]
    BY <1>0, <2>1, <2>2, AppendRecord
  <2>4. Len(trace) = attempt
    BY <2>2 DEF Accounting
  <2>5. Len(trace) > 0 => WindowOver(Len(trace), clock)
    BY <1>0, <2>2 DEF Timing
  <2>6. \A i \in 1 .. Len(trace') :
            i < Len(trace') => WindowOver(i, trace[i + 1].started)'
    BY <2>1, <2>3, <2>5, WindowsAppend
  <2>7. Deadline # Absent /\ attempt > 0 =>
            \E late \in Oversleeps \cup {0} : clock <= Deadline + late
    BY <2>2 DEF Timing
  <2> QED BY <1>0, <2>2, <2>3, <2>4, <2>6, <2>7 DEF Timing
<1>6. CASE StartAttempt
  BY <1>0, <1>6 DEF StartAttempt, Timing, WindowOver, Accounting
<1>7. CASE AttemptReturns
  <2> DEFINE r == Record(Len(trace) + 1, FinalAttempt, begun, clock)
  <2>1. r \in AttemptRecord /\ r.started = begun
    BY <1>0 DEF Record, AttemptRecord, Signal
  <2>2. trace' = Append(trace, r) /\ pc = "racing" /\ pc' = "returned"
        /\ attempt' = attempt /\ begun' = begun
    BY <1>7 DEF AttemptReturns, EngineResult, Absorbed, Return
  <2> HIDE DEF r
  <2>3. trace' \in Seq(AttemptRecord) /\ Len(trace') = Len(trace) + 1
        /\ trace'[Len(trace) + 1] = r
        /\ \A i \in 1 .. Len(trace) : trace'[i] = trace[i]
    BY <1>0, <2>1, <2>2, AppendRecord
  <2> QED BY <2>1, <2>2, <2>3, TimingOfReturn
<1>8. CASE AttemptRaises
  BY <1>8 DEF AttemptRaises, EngineResult, Timing, WindowOver
<1>9. CASE BackOff
  <2> DEFINE r == Record(attempt, engine.result.cause, begun, clock)
  <2>1. engine.result.cause \in Cause /\ pc = "racing"
    BY <1>9, ResultType DEF BackOff, TransientFailure, EngineResult
  <2>2. r \in AttemptRecord /\ r.started = begun /\ r.ended = clock
        /\ r.signal = engine.result.cause
    BY <1>0, <2>1 DEF Record, AttemptRecord, Signal
  <2>3. trace' = Append(trace, r) /\ pc' = "sleeping" /\ attempt' = attempt
        /\ begun' = begun
    BY <1>9 DEF BackOff, TransientFailure, EngineResult
  <2>4. PICK delay \in Retries(attempt, engine.result.cause, clock) :
            wakeAt' = clock + delay
    BY <1>9 DEF BackOff
  <2>5. /\ delay \in Nat
        /\ engine.result.cause.retryAfter # Absent =>
              delay = engine.result.cause.retryAfter
              /\ engine.result.cause.retryAfter <= RetryAfterCap
        /\ Deadline # Absent => clock + delay <= Deadline
    BY <1>0, <2>1, RetryBounds
  <2> HIDE DEF r
  <2>6. trace' \in Seq(AttemptRecord) /\ Len(trace') = Len(trace) + 1
        /\ trace'[Len(trace) + 1] = r
        /\ \A i \in 1 .. Len(trace) : trace'[i] = trace[i]
    BY <1>0, <2>2, <2>3, AppendRecord
  <2>7. attempt = Len(trace) + 1
    BY <1>0, <2>1 DEF Accounting
  <2>8. Len(trace) > 0 => WindowOver(Len(trace), begun)
    BY <1>0, <2>7 DEF Timing
  <2>9. \A i \in 1 .. Len(trace') :
            i < Len(trace') => WindowOver(i, trace[i + 1].started)'
    BY <2>2, <2>6, <2>8, WindowsAppend
  <2>10. ASSUME NEW i \in 1 .. Len(trace'), i = Len(trace')
         PROVE  WindowOver(i, wakeAt)'
    <3>1. trace'[i].signal = engine.result.cause /\ trace'[i].ended = clock
      BY <1>0, <2>2, <2>6, <2>10
    <3> QED BY <1>0, <2>1, <2>4, <2>5, <3>1, PolicyAssumption DEF WindowOver, Cause
  <2>11. Deadline # Absent /\ attempt > 1 =>
            \E late \in Oversleeps \cup {0} : begun <= Deadline + late
    BY DEF Timing
  <2> QED BY <1>0, <2>3, <2>4, <2>5, <2>6, <2>7, <2>9, <2>10, <2>11 DEF Timing
<1>10. CASE Exhaust
  <2> DEFINE r == Record(attempt, engine.result.cause, begun, clock)
             t == Append(trace, r)
  <2>1. engine.result.cause \in Cause /\ pc = "racing"
    BY <1>10, ResultType DEF Exhaust, TransientFailure, EngineResult
  <2>2. r \in AttemptRecord /\ r.started = begun
    BY <1>0, <2>1 DEF Record, AttemptRecord, Signal
  <2>3. trace' = Exhausted(t) /\ attempt' = attempt /\ pc' = "returned"
        /\ begun' = begun
    BY <1>10 DEF Exhaust, TransientFailure, EngineResult, Return
  <2> HIDE DEF r
  <2>4. t \in Seq(AttemptRecord) /\ Len(t) = Len(trace) + 1 /\ t[Len(trace) + 1] = r
        /\ \A i \in 1 .. Len(trace) : t[i] = trace[i]
    BY <1>0, <2>2, AppendRecord
  <2> HIDE DEF t
  <2>5. Len(t) > 0 /\ Len(t) - 1 = Len(trace)
    BY <1>0, <2>4
  <2>6. trace' \in Seq(AttemptRecord) /\ Len(trace') = Len(t)
        /\ (\A i \in 1 .. Len(trace) : trace'[i] = trace[i])
        /\ trace'[Len(t)] = [r EXCEPT !.signal = FinalAttempt]
    BY <2>3, <2>4, <2>5, ExhaustedTrace
  <2>7. trace'[Len(trace) + 1].started = begun
    BY <2>2, <2>4, <2>6 DEF AttemptRecord
  <2> QED BY <2>1, <2>3, <2>4, <2>6, <2>7, TimingOfReturn
<1>11. CASE SleepEnds
  <2>1. PICK late \in Oversleeps : clock' = wakeAt + late
    BY <1>11 DEF SleepEnds
  <2>2. late \in Nat
    BY TimesAssumption
  <2>3. pc = "sleeping" /\ pc' = "ready"
        /\ UNCHANGED <<attempt, begun, trace>>
    BY <1>11 DEF SleepEnds
  <2>4. ASSUME NEW i \in 1 .. Len(trace), i = Len(trace)
        PROVE  WindowOver(i, clock)'
    <3>1. WindowOver(i, wakeAt)
      BY <2>3, <2>4 DEF Timing
    <3>2. CASE trace[i].signal.retryAfter # Absent
      <4>1. trace[i] \in AttemptRecord
        BY <1>0
      <4>2. trace[i].ended \in Nat /\ trace[i].signal \in Signal
        BY <4>1 DEF AttemptRecord
      <4>3. trace[i].signal.retryAfter \in Nat
        <5>1. trace[i].signal # FinalAttempt
          BY <3>2 DEF FinalAttempt
        <5>2. trace[i].signal \in Cause
          BY <4>2, <5>1 DEF Signal
        <5> QED BY <3>2, <5>2, PolicyAssumption DEF Cause
      <4>4. trace[i].signal.retryAfter <= RetryAfterCap
            /\ wakeAt >= trace[i].ended + trace[i].signal.retryAfter
        BY <3>1, <3>2 DEF WindowOver
      <4>5. clock' >= trace[i].ended + trace[i].signal.retryAfter
        BY <1>0, <2>1, <2>2, <4>2, <4>3, <4>4
      <4> QED BY <2>3, <4>4, <4>5 DEF WindowOver
    <3>3. CASE trace[i].signal.retryAfter = Absent
      BY <2>3, <3>3 DEF WindowOver
    <3> QED BY <3>2, <3>3
  <2>5. Deadline # Absent => clock' <= Deadline + late
    BY <1>0, <2>1, <2>2, <2>3, PolicyAssumption DEF Timing
  <2>6. ASSUME NEW i \in 1 .. Len(trace)
        PROVE  /\ i < Len(trace) => WindowOver(i, trace[i + 1].started)'
               /\ i = Len(trace) /\ attempt > i => WindowOver(i, begun)'
    BY <2>3 DEF Timing, WindowOver
  <2>7. Deadline # Absent /\ attempt > 1 =>
            \E l \in Oversleeps \cup {0} : begun <= Deadline + l
    BY DEF Timing
  <2> QED BY <2>3, <2>4, <2>5, <2>6, <2>7 DEF Timing
<1>12. CASE CancelWins
  BY <1>12 DEF CancelWins, Timing, WindowOver
<1>13. CASE CancelledMidAttempt
  <2> DEFINE r == Record(attempt, FinalAttempt, begun, clock)
  <2>1. r \in AttemptRecord /\ r.started = begun
    BY <1>0 DEF Record, AttemptRecord, Signal
  <2>2. trace' = Append(trace, r) /\ pc = "settling" /\ pc' = "returned"
        /\ attempt' = attempt /\ begun' = begun
    BY <1>13 DEF CancelledMidAttempt, Return
  <2> HIDE DEF r
  <2>3. trace' \in Seq(AttemptRecord) /\ Len(trace') = Len(trace) + 1
        /\ trace'[Len(trace) + 1] = r
        /\ \A i \in 1 .. Len(trace) : trace'[i] = trace[i]
    BY <1>0, <2>1, <2>2, AppendRecord
  <2> QED BY <2>1, <2>2, <2>3, TimingOfReturn
<1>14. CASE Abort
  BY <1>14 DEF Abort, Timing, WindowOver
<1>15. CASE AbortWhileSettling
  BY <1>15 DEF AbortWhileSettling, Timing, WindowOver
<1>16. CASE Stop
  BY <1>16 DEF Stop, vars, Timing, WindowOver
<1> QED
  BY <1>1, <1>2, <1>3, <1>4, <1>5, <1>6, <1>7, <1>8, <1>9, <1>10, <1>11,
     <1>12, <1>13, <1>14, <1>15, <1>16 DEF Next, Caller

\* Folding the attempt's own billability makes the fold stand for all attempts.
LEMMA FoldOfAttempt ==
    ASSUME TypeOK, Charges, pc = "racing", engine.state = "done",
           engine.result.kind \in {"transient", "outcome"}
    PROVE  FoldBillability(billability, engine.result.billability) = "PossiblyBillable"
                <=> unsettled # {}
<1>1. billability \in Billability /\ engine.result.billability \in Billability
  BY ResultType DEF TypeOK
<1> QED BY <1>1, FoldIsMaximum DEF Charges

LEMMA ChargesStep == Inv /\ [Next]_vars => Charges'
<1> SUFFICES ASSUME Inv, [Next]_vars PROVE Charges'
  OBVIOUS
<1> USE DEF Inv, Charges, Ended
<1>0. attempt \in Nat /\ billability \in Billability
  BY DEF TypeOK
<1>1. CASE UNCHANGED vars
  BY <1>1 DEF vars
<1>2. CASE SetCancel
  BY <1>2 DEF SetCancel
<1>3. CASE EngineSends
  <2>1. engine \in [state : {"running"}, sent : BOOLEAN]
    BY <1>3 DEF EngineSends, TypeOK, Idle
  <2>2. engine'.state = "running" /\ engine'.sent = TRUE
    BY <1>3, <2>1 DEF EngineSends
  <2>3. attempt >= 1
    BY <1>0, <1>3 DEF EngineSends, Accounting, TypeOK
  <2> QED BY <1>0, <1>3, <2>2, <2>3 DEF EngineSends, Accounting
<1>4. CASE EngineFinishes
  <2>1. engine \in [state : {"running"}, sent : BOOLEAN]
    BY <1>4 DEF EngineFinishes, TypeOK, Idle
  <2>2. PICK result \in Results(engine.sent), d \in AttemptTimes :
        /\ engine' = [state |-> "done", sent |-> engine.sent, result |-> result]
        /\ unsettled' = IF result.kind # "defect"
                           /\ result.billability = "ConfirmedNonBillable"
                        THEN unsettled \ {attempt}
                        ELSE unsettled
    BY <1>4 DEF EngineFinishes
  <2>3. result.kind # "defect" =>
            IF engine.sent
            THEN result.billability \in {"ConfirmedNonBillable", "PossiblyBillable"}
            ELSE result.billability = "NotDispatched"
    BY <2>1, <2>2 DEF Results, Billability
  <2>4. engine'.state = "done" /\ engine'.result = result
    BY <2>2
  <2>5. attempt \in unsettled <=> engine.sent
    BY <1>4, <2>1 DEF EngineFinishes
  <2>6. unsettled' \ {attempt} = unsettled \ {attempt}
    BY <2>2
  <2>7. result.kind # "defect" =>
            (attempt \in unsettled' <=> result.billability = "PossiblyBillable")
    BY <2>1, <2>2, <2>3, <2>5
  <2>8. pc = "racing" /\ UNCHANGED <<pc, attempt, billability, outcome>> /\ outcome = {}
    BY <1>4 DEF EngineFinishes, Accounting
  <2> QED BY <2>2, <2>4, <2>6, <2>7, <2>8
<1>5. CASE CancelledBeforeAttempt
  <2>1. pc = "ready" /\ pc' = "returned" /\ attempt' = attempt + 1
        /\ UNCHANGED <<billability, unsettled>>
        /\ outcome' = {Terminal("Cancelled", trace', billability)}
    BY <1>5 DEF CancelledBeforeAttempt, Return
  <2>2. \A o \in outcome' : o.arm = "Cancelled"
    BY <2>1 DEF Terminal
  <2> QED BY <1>0, <2>1, <2>2
<1>6. CASE StartAttempt
  BY <1>0, <1>6 DEF StartAttempt
<1>7. CASE AttemptReturns
  <2>1. engine.state = "done" /\ engine.result.kind = "outcome" /\ pc = "racing"
        /\ pc' = "returned" /\ UNCHANGED <<attempt, unsettled>>
        /\ billability' = FoldBillability(billability, engine.result.billability)
    BY <1>7 DEF AttemptReturns, EngineResult, Return
  <2>2. unsettled # {} <=> billability' = "PossiblyBillable"
    BY <1>0, <2>1, ResultType, FoldOfAttempt
  <2> QED BY <2>1, <2>2
<1>8. CASE AttemptRaises
  BY <1>8 DEF AttemptRaises, EngineResult
<1>9. CASE BackOff
  <2>1. engine.state = "done" /\ engine.result.kind = "transient" /\ pc = "racing"
        /\ pc' = "sleeping" /\ UNCHANGED <<attempt, unsettled, outcome>>
        /\ billability' = FoldBillability(billability, engine.result.billability)
    BY <1>9 DEF BackOff, TransientFailure, EngineResult
  <2>2. unsettled # {} <=> billability' = "PossiblyBillable"
    BY <1>0, <2>1, ResultType, FoldOfAttempt
  <2> QED BY <2>1, <2>2
<1>10. CASE Exhaust
  <2>1. engine.state = "done" /\ engine.result.kind = "transient" /\ pc = "racing"
        /\ pc' = "returned" /\ UNCHANGED <<attempt, unsettled>>
        /\ billability' = FoldBillability(billability, engine.result.billability)
    BY <1>10 DEF Exhaust, TransientFailure, EngineResult, Return
  <2>2. unsettled # {} <=> billability' = "PossiblyBillable"
    BY <1>0, <2>1, ResultType, FoldOfAttempt
  <2> QED BY <2>1, <2>2
<1>11. CASE SleepEnds
  BY <1>11 DEF SleepEnds
<1>12. CASE CancelWins
  BY <1>12 DEF CancelWins
<1>13. CASE CancelledMidAttempt
  <2>1. billability' = "PossiblyBillable"
    BY <1>0, <1>13, FoldIsMaximum DEF CancelledMidAttempt, Billability
  <2>2. \A o \in outcome' : o.arm = "Cancelled"
    BY <1>13 DEF CancelledMidAttempt, Return, Terminal
  <2> QED BY <1>0, <1>13, <2>1, <2>2 DEF CancelledMidAttempt, Return
<1>14. CASE Abort
  BY <1>14 DEF Abort
<1>15. CASE AbortWhileSettling
  BY <1>15 DEF AbortWhileSettling
<1>16. CASE Stop
  BY <1>16 DEF Stop, vars
<1> QED
  BY <1>1, <1>2, <1>3, <1>4, <1>5, <1>6, <1>7, <1>8, <1>9, <1>10, <1>11,
     <1>12, <1>13, <1>14, <1>15, <1>16 DEF Next, Caller

LEMMA InvStep == Inv /\ [Next]_vars => Inv'
BY TypeStep, AccountingStep, TimingStep, ChargesStep DEF Inv

THEOREM Invariance == Spec => []Inv
BY InvInit, InvStep, PTL DEF Spec
-----------------------------------------------------------------------------
\* The trace an outcome carries is one record per handle, in order, with the
\* only FinalAttempt last (runtime.py: _absorbed, cancellation, exhaustion).
THEOREM TraceIsFaithful == Spec => []TraceFaithful
<1>1. Inv => TraceFaithful
  <2> SUFFICES ASSUME Inv, NEW o \in outcome
               PROVE  /\ Len(o.trace) = attempt /\ attempt \in 1 .. MaxAttempts
                      /\ \A i \in 1 .. attempt :
                          /\ o.trace[i].attempt = i
                          /\ (o.trace[i].signal = FinalAttempt) <=> (i = attempt)
    BY DEF TraceFaithful
  <2>1. pc = "returned" /\ o.trace = trace
    BY DEF Inv, Accounting, Terminal
  <2> QED BY <2>1, FinalIsNoCause DEF Inv, Accounting, TypeOK
<1> QED BY <1>1, Invariance, PTL

\* No retry starts before the window the provider stated (retry.py: never
\* retry early), for every policy and every timing.
THEOREM WindowsAreHonoured == Spec => []WindowsHonoured
<1>1. Inv => WindowsHonoured
  <2> SUFFICES ASSUME Inv, NEW i \in 1 .. Len(trace),
                      trace[i].signal.retryAfter # Absent, attempt > i
               PROVE  LET next == IF i < Len(trace) THEN trace[i + 1].started ELSE begun
                      IN  /\ trace[i].signal.retryAfter <= RetryAfterCap
                          /\ next >= trace[i].ended + trace[i].signal.retryAfter
    BY DEF WindowsHonoured
  <2>1. Len(trace) \in Nat
    BY DEF Inv, TypeOK
  <2> QED BY <2>1 DEF Inv, Timing, WindowOver
<1> QED BY <1>1, Invariance, PTL

\* No attempt begins past the deadline of the call.
THEOREM DeadlineIsHonoured == Spec => []DeadlineHonoured
<1>1. Inv => DeadlineHonoured
  BY DEF Inv, Timing, DeadlineHonoured
<1> QED BY <1>1, Invariance, PTL

\* An outcome says PossiblyBillable exactly when some attempt may be charged,
\* or the call was cancelled.
THEOREM ChargesAreReported == Spec => []ChargesReported
<1>1. Inv => ChargesReported
  <2> SUFFICES ASSUME Inv, NEW o \in outcome
               PROVE  /\ unsettled # {} => o.billability = "PossiblyBillable"
                      /\ o.billability = "PossiblyBillable" /\ o.arm # "Cancelled"
                            => unsettled # {}
    BY DEF ChargesReported
  <2>1. o.billability = billability
    BY DEF Inv, Accounting, Terminal
  <2> QED BY <2>1 DEF Inv, Charges
<1> QED BY <1>1, Invariance, PTL
-----------------------------------------------------------------------------
\* A returning step answers the caller: one record per attempt dispatched, or
\* one more when it returns a cancellation, and every charge told.
LEMMA ReturnIsAnswer ==
    ASSUME Inv, Inv', pc \notin Ended, pc' = "returned",
           NEW arm, outcome' = {Terminal(arm, trace', billability')},
           arm = "Cancelled" => cancel,
           Len(trace') \in {dispatched, dispatched + 1},
           Len(trace') # dispatched \/ dispatched = 0 => arm = "Cancelled",
           UNCHANGED <<cancel, dispatched, unsettled>>
    PROVE  Promised!Answer
<1> DEFINE o == Terminal(arm, trace', billability')
           told == [records |-> Len(trace'),
                    cancellation |-> arm = "Cancelled",
                    billable |-> billability' = "PossiblyBillable"]
<1>1. outcome' = {o} /\ o.arm = arm /\ o.trace = trace' /\ o.billability = billability'
  BY DEF Terminal
<1>2. unsettled # {} => billability' = "PossiblyBillable"
  BY <1>1 DEF Inv, Charges
<1>3. {[records |-> Len(x.trace),
        cancellation |-> x.arm = "Cancelled",
        billable |-> x.billability = "PossiblyBillable"] : x \in outcome'} = {told}
  BY <1>1
<1>4. told.records \in {dispatched, dispatched + 1}
      /\ told.cancellation \in BOOLEAN /\ told.billable \in BOOLEAN
  OBVIOUS
<1> QED BY <1>2, <1>3, <1>4 DEF Promised!Answer, Ended

LEMMA StepImplements ==
    Inv /\ Inv' /\ [Next]_vars => [Promised!ContractNext]_(Promised!contract)
<1> SUFFICES ASSUME Inv, Inv', [Next]_vars
             PROVE  [Promised!ContractNext]_(Promised!contract)
  OBVIOUS
<1> USE DEF Ended
<1>0. attempt \in Nat /\ dispatched \in Nat /\ trace \in Seq(AttemptRecord)
      /\ Len(trace) \in Nat /\ cancel \in BOOLEAN
  BY DEF Inv, TypeOK
<1>a. pc \notin Ended => dispatched = attempt /\ outcome = {}
  BY DEF Inv, Accounting
<1>1. CASE UNCHANGED vars
  BY <1>1 DEF vars, Promised!contract
<1>2. CASE SetCancel
  <2>1. Promised!Cancel
    BY <1>2 DEF SetCancel, Promised!Cancel
  <2> QED BY <2>1 DEF Promised!ContractNext
<1>3. CASE EngineSends
  <2>1. Promised!Expose
    BY <1>0, <1>3, <1>a DEF EngineSends, Promised!Expose, Inv, Accounting
  <2> QED BY <2>1 DEF Promised!ContractNext
<1>4. CASE EngineFinishes
  <2>1. Promised!Expose
    BY <1>0, <1>4, <1>a DEF EngineFinishes, Promised!Expose, Inv, Accounting
  <2> QED BY <2>1 DEF Promised!ContractNext
<1>5. CASE CancelledBeforeAttempt
  <2>1. Len(trace') = Len(trace) + 1 /\ Len(trace) = attempt
    <3>1. Record(attempt + 1, FinalAttempt, clock, clock) \in AttemptRecord
      BY <1>0 DEF Inv, TypeOK, Record, AttemptRecord, Signal
    <3> QED BY <1>0, <1>5, <3>1, AppendRecord
            DEF CancelledBeforeAttempt, Inv, Accounting
  <2>2. Promised!Answer
    BY <1>0, <1>5, <1>a, <2>1, ReturnIsAnswer DEF CancelledBeforeAttempt, Return
  <2> QED BY <2>2 DEF Promised!ContractNext
<1>6. CASE StartAttempt
  <2>1. Promised!Dispatch
    BY <1>0, <1>6, <1>a DEF StartAttempt, Promised!Dispatch, Inv, Accounting
  <2> QED BY <2>1 DEF Promised!ContractNext
<1>7. CASE AttemptReturns
  <2>1. PICK arm \in SealedArms(engine.result.arm) :
            outcome' = {Terminal(arm, trace', billability')} /\ pc' = "returned"
    BY <1>7 DEF AttemptReturns, Return
  <2>2. arm # "Cancelled" /\ pc = "racing" /\ UNCHANGED <<cancel, dispatched, unsettled>>
    <3>1. engine.result.arm \in EngineArms
      BY <1>7, ResultType DEF AttemptReturns, EngineResult, Inv
    <3> QED BY <1>7, <2>1, <3>1 DEF AttemptReturns, EngineResult, SealedArms, EngineArms
  <2>3. Len(trace') = dispatched /\ dispatched > 0
    BY <1>0, <1>7, <1>a, <2>1, <2>2 DEF AttemptReturns, EngineResult, Inv, Accounting
  <2>4. Promised!Answer
    BY <1>0, <2>1, <2>2, <2>3, ReturnIsAnswer
  <2> QED BY <2>4 DEF Promised!ContractNext
<1>8. CASE AttemptRaises
  <2>1. Promised!GiveUp
    BY <1>8, <1>a DEF AttemptRaises, EngineResult, Promised!GiveUp
  <2> QED BY <2>1 DEF Promised!ContractNext
<1>9. CASE BackOff
  BY <1>9 DEF BackOff, TransientFailure, EngineResult, Promised!contract
<1>10. CASE Exhaust
  <2>1. pc = "racing" /\ pc' = "returned"
        /\ UNCHANGED <<attempt, cancel, dispatched, unsettled>>
        /\ outcome' = {Terminal("Exhausted", trace', billability')}
    BY <1>10 DEF Exhaust, TransientFailure, EngineResult, Return
  <2>2. Len(trace') = dispatched /\ dispatched > 0
    BY <1>0, <1>a, <2>1 DEF Inv, Accounting
  <2>3. Promised!Answer
    BY <1>0, <2>1, <2>2, ReturnIsAnswer
  <2> QED BY <2>3 DEF Promised!ContractNext
<1>11. CASE SleepEnds
  BY <1>11 DEF SleepEnds, Promised!contract
<1>12. CASE CancelWins
  BY <1>12 DEF CancelWins, Promised!contract
<1>13. CASE CancelledMidAttempt
  <2>1. pc = "settling" /\ pc' = "returned"
        /\ UNCHANGED <<attempt, cancel, dispatched, unsettled>>
        /\ outcome' = {Terminal("Cancelled", trace', billability')}
    BY <1>13 DEF CancelledMidAttempt, Return
  <2>2. Len(trace') = dispatched /\ dispatched > 0
    BY <1>0, <1>a, <2>1 DEF Inv, Accounting
  <2>3. cancel
    BY <2>1 DEF Inv, Accounting
  <2>4. Promised!Answer
    BY <1>0, <2>1, <2>2, <2>3, ReturnIsAnswer
  <2> QED BY <2>4 DEF Promised!ContractNext
<1>14. CASE Abort
  <2>1. Promised!GiveUp
    BY <1>14, <1>a DEF Abort, Promised!GiveUp
  <2> QED BY <2>1 DEF Promised!ContractNext
<1>15. CASE AbortWhileSettling
  <2>1. Promised!GiveUp
    BY <1>15, <1>a DEF AbortWhileSettling, Promised!GiveUp
  <2> QED BY <2>1 DEF Promised!ContractNext
<1>16. CASE Stop
  BY <1>16 DEF Stop, vars, Promised!contract
<1> QED
  BY <1>1, <1>2, <1>3, <1>4, <1>5, <1>6, <1>7, <1>8, <1>9, <1>10, <1>11,
     <1>12, <1>13, <1>14, <1>15, <1>16 DEF Next, Caller

\* A generate call implements the contract of a provider call.
THEOREM ContractIsImplemented == Spec => ImplementsContract
<1>1. Init => Promised!ContractInit
  BY DEF Init, Promised!ContractInit, Ended
<1> QED BY <1>1, StepImplements, Invariance, PTL
        DEF Spec, ImplementsContract, Promised!Contract
=============================================================================
