------------------------------ MODULE CallMeta ------------------------------
(***************************************************************************)
(* The bookkeeping a call of the provider lane keeps across its attempts:  *)
(* the attempt trace and the folded billability, as they end up in the     *)
(* CallMeta of every outcome.                                              *)
(***************************************************************************)
EXTENDS Retry, Sequences

Billability == {"NotDispatched", "ConfirmedNonBillable", "PossiblyBillable"}

BillabilityRank(billability) ==
    CASE billability = "NotDispatched"        -> 0
      [] billability = "ConfirmedNonBillable" -> 1
      [] billability = "PossiblyBillable"     -> 2

\* Mutant: the fold keeps the latest.
FoldLatest(folded, observed) == observed

FoldBillability(folded, observed) ==
    IF BillabilityRank(observed) > BillabilityRank(folded)
    THEN observed
    ELSE folded

FinalAttempt == [kind |-> "final", retryAfter |-> Absent]

Signal == Cause \cup {FinalAttempt}

AttemptRecord ==
    [attempt : Nat, signal : Signal, started : Nat, ended : Nat]

Record(number, signal, started, ended) ==
    [attempt |-> number, signal |-> signal, started |-> started, ended |-> ended]

\* Mutant: the engine's own number is kept.
AbsorbedUnnumbered(prior, started, ended) ==
    Append(prior, Record(1, FinalAttempt, started, ended))

\* An engine numbers its only record 1; it is renumbered onto the trace.
Absorbed(prior, started, ended) ==
    Append(prior, Record(Len(prior) + 1, FinalAttempt, started, ended))

\* The exhausting attempt's record carries FinalAttempt instead of its cause.
Exhausted(trace) == [trace EXCEPT ![Len(trace)].signal = FinalAttempt]

\* The terminals a call may end with: the arms an engine returns, and the two
\* the runtime builds itself.
EngineArms == {"Succeeded", "Refused", "Incomplete", "Failed"}

Outcome == [arm : EngineArms \cup {"Cancelled", "Exhausted", "TooLarge"},
            trace : Seq(AttemptRecord),
            billability : Billability]

Terminal(arm, trace, billability) ==
    [arm |-> arm, trace |-> trace, billability |-> billability]

\* _seal_outcome: sealing the continuation of a success may overflow its bound.
SealedArms(arm) == IF arm = "Succeeded" THEN {"Succeeded", "TooLarge"} ELSE {arm}
=============================================================================
