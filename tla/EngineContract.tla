--------------------------- MODULE EngineContract ---------------------------
(***************************************************************************)
(* What an adapter's stream of one attempt promises the runtime, whatever  *)
(* the provider's protocol: it starts once, then yields output, at most    *)
(* one continuation, and a terminal, or it raises. Billing and partial     *)
(* output are told as they were. StreamCall's engine stream is this one.   *)
(***************************************************************************)
EXTENDS Naturals, Sequences

VARIABLES
    yielded,    \* the kinds of the events of this attempt, in order
    end         \* open, returned, or what the attempt raised

Open == [error |-> "no"]
Returned == [error |-> "returned"]
Kinds == {"start", "semantic", "continuation", "terminal"}

\* The start is first, unless the provider never accepted the request; nothing
\* but a terminal, or the end of the attempt, follows a continuation.
Orderly(kinds) ==
    kinds = <<"terminal">> \/ \A i \in DOMAIN kinds :
        /\ kinds[i] = "start" <=> i = 1
        /\ kinds[i] = "terminal" => i = Len(kinds)
        /\ kinds[i] = "continuation" =>
              i = Len(kinds) \/ (i + 1 = Len(kinds) /\ kinds[i + 1] = "terminal")

HasOutput(kinds) == \E i \in DOMAIN kinds : kinds[i] = "semantic"

Init == yielded = <<>> /\ end = Open

Begin == yielded' = <<>> /\ end' = Open

\* A step appends events, and may end the attempt: only a terminal returns.
Grows(kinds) ==
    /\ Len(yielded') >= Len(yielded) /\ SubSeq(yielded', 1, Len(yielded)) = yielded
    /\ \A i \in Len(yielded) + 1 .. Len(yielded') : yielded'[i] \in kinds

Goes ==
    /\ end = Open
    /\ Grows(Kinds)
    /\ Orderly(yielded')
    /\ end' = IF yielded' # <<>> /\ yielded'[Len(yielded')] = "terminal"
              THEN Returned ELSE Open

Raises ==
    /\ end = Open
    /\ Grows(Kinds \ {"terminal"})
    /\ Orderly(yielded')
    /\ end' \notin {Open, Returned}
    /\ end'.error = "TransientAttempt" =>
         \* An attempt that was answered may be billed,
         /\ yielded' # <<>> => end'.billability = "PossiblyBillable"
         \* and one that broke off says truly whether output was lost.
         /\ end'.cause.kind = "interrupted" => (end'.cause.partial <=> HasOutput(yielded'))

Next == Begin \/ Goes \/ Raises

Spec == Init /\ [][Next]_<<yielded, end>>
=============================================================================
