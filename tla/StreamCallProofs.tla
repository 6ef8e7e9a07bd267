-------------------------- MODULE StreamCallProofs --------------------------
(***************************************************************************)
(* Theorems about StreamCall, for every retry policy and every timing: the  *)
(* grammar of the stream a consumer sees, and the contract of a provider    *)
(* call.                                                                    *)
(***************************************************************************)
EXTENDS StreamCall, TLAPS

Event ==
    [kind : {"start", "semantic", "continuation"}]
      \cup [kind : {"terminal"}, outcome : Outcome]

TypeOK ==
    /\ pc \in {"ready", "reading", "settling", "yielded", "closing", "sleeping"}
                \cup Ended
    /\ then \in {"none", "read", "terminal", "return", "retry"} \cup Ended
    /\ cancel \in BOOLEAN
    /\ clock \in Nat /\ attempt \in Nat /\ begun \in Nat /\ wakeAt \in Nat
    /\ trace \in Seq(AttemptRecord)
    /\ billability \in Billability
    /\ cause \in Cause \cup {Absent}
    /\ startForwarded \in BOOLEAN /\ semanticForwarded \in BOOLEAN
    /\ emitted \in Seq(Envelope)
    /\ source \in {"none", "suspended", "running", "closed"}
    /\ pulled \in Nat /\ dispatched \in Nat
    /\ slot \in {{}} \cup {{item} : item \in Item}
    /\ held \subseteq Outcome

\* The call will look at its policy again before it reads.
Retrying == pc \in {"ready", "sleeping"} \/ (pc = "closing" /\ then = "retry")

\* An attempt's stream is being read.
Reading == pc \in {"reading", "settling"} \/ (pc = "yielded" /\ then = "read")

\* The continuation is out and the terminal it announces is not.
Waiting == pc = "yielded" /\ then = "terminal"

\* How the generator's position, the pulls and the signal hang together.
Position ==
    /\ pc = "closing" => then \in {"retry"} \cup Ended
    /\ pc = "yielded" => then \in {"read", "terminal", "return"}
    /\ pc = "settling" => cancel
    /\ semanticForwarded \/ slot # {} => pulled > 0
    /\ pc = "yielded" /\ then = "read" => pulled > 0
    /\ Retrying => ~ semanticForwarded
    /\ \A item \in slot : item.kind = "start" => ~ semanticForwarded

\* What the consumer has been given.
Output ==
    /\ Grammar
    /\ Retrying \/ Reading =>
        \A i \in 1 .. Len(emitted) :
            \/ Kind(i) = "start" /\ startForwarded
            \/ Kind(i) = "semantic" /\ semanticForwarded
    /\ Waiting =>
        /\ Len(emitted) > 0
        /\ \A i \in 1 .. Len(emitted) :
            IF i = Len(emitted)
            THEN Kind(i) = "continuation"
            ELSE Kind(i) \in {"start", "semantic"}
    /\ (pc = "closing" /\ then = "returned") \/ (pc = "yielded" /\ then = "return") =>
        Terminals # {}

\* Attempts dispatched, and records of them.
Counting ==
    /\ Retrying \/ Reading \/ Waiting => dispatched = attempt
    /\ Reading => Len(trace) + 1 = attempt /\ attempt <= MaxAttempts
    /\ Retrying => Len(trace) = attempt
    /\ pc \in {"ready", "sleeping"} => attempt < MaxAttempts
    /\ pc = "closing" /\ then = "retry" => attempt > 0 /\ cause \in Cause
    /\ Waiting =>
        /\ Len(trace) = attempt /\ attempt > 0
        /\ \A o \in held : o = Terminal("Succeeded", trace, billability)

\* Which attempts the folded billability stands for: all that are over.
Charges ==
    /\ unsettled \subseteq 1 .. attempt
    /\ Retrying \/ Waiting => (unsettled # {} => billability = "PossiblyBillable")
    /\ Reading => (unsettled \ {attempt} # {} => billability = "PossiblyBillable")
    /\ pc = "reading" /\ pulled = 0 => attempt \notin unsettled
    /\ pc = "reading" =>
        \A item \in slot :
            /\ item.kind = "terminal" => item.billability = "PossiblyBillable"
            /\ item.kind = "transient" /\ item.billability # "PossiblyBillable" =>
                attempt \notin unsettled

Inv == TypeOK /\ Position /\ Output /\ Counting /\ Charges
-----------------------------------------------------------------------------
LEMMA FoldIsMaximum ==
    ASSUME NEW a \in Billability, NEW b \in Billability
    PROVE  /\ FoldBillability(a, b) \in Billability
           /\ FoldBillability(a, b) = "PossiblyBillable"
                <=> a = "PossiblyBillable" \/ b = "PossiblyBillable"
BY DEF FoldBillability, BillabilityRank, Billability

LEMMA RetryNeedsBudget ==
    ASSUME NEW n \in Nat, NEW failure \in Cause, NEW elapsed \in Nat,
           NEW delay \in Retries(n, failure, elapsed)
    PROVE  delay \in Nat /\ n < MaxAttempts
<1>1. failure.retryAfter \in Nat \cup {Absent}
  BY PolicyAssumption DEF Cause
<1> QED BY <1>1, PolicyAssumption DEF Retries, Delays

\* One more record, of the attempt that is over.
LEMMA TraceGrows ==
    ASSUME NEW t \in Seq(AttemptRecord), NEW n \in Nat, NEW signal \in Signal,
           NEW s \in Nat, NEW e \in Nat
    PROVE  /\ Append(t, Record(n, signal, s, e)) \in Seq(AttemptRecord)
           /\ Len(Append(t, Record(n, signal, s, e))) = Len(t) + 1
<1>1. Record(n, signal, s, e) \in AttemptRecord
  BY DEF Record, AttemptRecord
<1> QED BY <1>1

\* Exhaustion rewrites the last record's signal and adds none.
LEMMA ExhaustedTrace ==
    ASSUME NEW t \in Seq(AttemptRecord), Len(t) > 0
    PROVE  Exhausted(t) \in Seq(AttemptRecord) /\ Len(Exhausted(t)) = Len(t)
<1>1. t[Len(t)] \in AttemptRecord
  OBVIOUS
<1>2. [t[Len(t)] EXCEPT !.signal = FinalAttempt] \in AttemptRecord
  BY <1>1 DEF AttemptRecord, Signal
<1> QED BY <1>1, <1>2 DEF Exhausted

LEMMA OutcomeType ==
    ASSUME NEW t \in Seq(AttemptRecord), NEW b \in Billability,
           NEW arm \in EngineArms \cup {"Cancelled", "Exhausted", "TooLarge"}
    PROVE  /\ Terminal(arm, t, b) \in Outcome
           /\ Terminal(arm, t, b).arm = arm
           /\ Terminal(arm, t, b).trace = t
           /\ Terminal(arm, t, b).billability = b
BY DEF Terminal, Outcome

\* The one item in the slot, and what an item of each kind carries.
LEMMA TakenItem ==
    ASSUME TypeOK, NEW item \in slot
    PROVE  /\ slot = {item} /\ Taken = item
           /\ item.kind \in {"terminal", "transient"} => item.billability \in Billability
           /\ item.kind = "terminal" => item.arm \in EngineArms
           /\ item.kind = "transient" => item.cause \in Cause
<1>1. slot = {item} /\ item \in Item
  BY DEF TypeOK
<1>2. Taken = item
  BY <1>1 DEF Taken
<1> QED BY <1>1, <1>2 DEF Item

LEMMA TakeTakes ==
    ASSUME TypeOK, NEW kinds, Take(kinds)
    PROVE  /\ pc = "reading" /\ slot = {Taken} /\ Taken \in slot /\ Taken.kind \in kinds
           /\ UNCHANGED <<cancel, clock, attempt, begun, wakeAt, pulled, dispatched,
                          unsettled>>
<1>1. PICK item \in slot : item.kind \in kinds
  BY DEF Take
<1> QED BY <1>1, TakenItem DEF Take

\* The ways an engine's terminal may go on.
LEMMA TerminalGoesOn ==
    ASSUME TypeOK, TakeTerminal
    PROVE  \E arm \in SealedArms(Taken.arm) :
              \/ /\ arm = "Refused" /\ pc' = "closing" /\ then' = "raised"
                 /\ UNCHANGED <<emitted, held>>
              \/ /\ arm = "Succeeded" /\ Yield([kind |-> "continuation"], "terminal")
                 /\ held' = {Terminal(arm, trace', billability')}
              \/ /\ arm \in EngineArms \cup {"TooLarge"}
                 /\ YieldTerminal(Terminal(arm, trace', billability'))
<1>1. Taken.arm \in EngineArms
  BY TakeTakes, TakenItem DEF TakeTerminal
<1>2. PICK arm \in SealedArms(Taken.arm) :
        CASE arm = "Refused" ->
                CloseAnd("raised") /\ UNCHANGED <<emitted, held>>
          [] arm = "Succeeded" /\ Taken.continuation ->
                /\ Yield([kind |-> "continuation"], "terminal")
                /\ held' = {Terminal(arm, trace', billability')}
          [] OTHER ->
                YieldTerminal(Terminal(arm, trace', billability'))
  BY DEF TakeTerminal
<1>3. arm \in EngineArms \cup {"TooLarge"}
  BY <1>1 DEF SealedArms
<1>4. CASE arm = "Refused"
  BY <1>2, <1>4 DEF CloseAnd
<1>5. CASE arm = "Succeeded" /\ Taken.continuation
  BY <1>2, <1>5
<1>6. CASE arm # "Refused" /\ ~ (arm = "Succeeded" /\ Taken.continuation)
  BY <1>2, <1>3, <1>6
<1> QED BY <1>4, <1>5, <1>6

\* A yield appends one envelope and leaves the others as they were.
LEMMA YieldAppends ==
    ASSUME TypeOK, NEW event \in Event, NEW next, Yield(event, next)
    PROVE  /\ pc' = "yielded" /\ then' = next
           /\ emitted' \in Seq(Envelope)
           /\ Len(emitted') = Len(emitted) + 1
           /\ \A i \in 1 .. Len(emitted) : emitted'[i] = emitted[i]
           /\ emitted'[Len(emitted')].event = event
           /\ emitted'[Len(emitted')].seq = Len(emitted')
           /\ emitted'[Len(emitted')].source = dispatched
<1> DEFINE e == [seq |-> Len(emitted) + 1, event |-> event, source |-> dispatched]
<1>1. e \in Envelope /\ e.seq = Len(emitted) + 1 /\ e.event = event
      /\ e.source = dispatched
  BY DEF TypeOK, Envelope, Event
<1>2. emitted' = Append(emitted, e) /\ pc' = "yielded" /\ then' = next
  BY DEF Yield
<1> HIDE DEF e
<1>3. emitted \in Seq(Envelope)
  BY DEF TypeOK
<1> QED BY <1>1, <1>2, <1>3
-----------------------------------------------------------------------------
LEMMA TypeStep == Inv /\ [Next]_vars => TypeOK'
<1> SUFFICES ASSUME Inv, TypeOK, [Next]_vars PROVE TypeOK'
  BY DEF Inv
<1> USE DEF Ended
<1>0. /\ attempt \in Nat /\ begun \in Nat /\ clock \in Nat /\ dispatched \in Nat
      /\ trace \in Seq(AttemptRecord) /\ billability \in Billability
      /\ FinalAttempt \in Signal /\ Cause \subseteq Signal
  BY DEF TypeOK, Signal
<1>a. ASSUME NEW event \in Event, NEW next \in {"read", "terminal", "return"},
             Yield(event, next)
      PROVE  /\ emitted' \in Seq(Envelope)
             /\ pc' = "yielded" /\ then' \in {"read", "terminal", "return"}
  BY <1>a, YieldAppends
<1>b. ASSUME NEW o \in Outcome, YieldTerminal(o)
      PROVE  /\ emitted' \in Seq(Envelope) /\ held' = {}
             /\ pc' = "yielded" /\ then' = "return"
  <2>1. [kind |-> "terminal", outcome |-> o] \in Event
    BY DEF Event
  <2> QED BY <1>b, <2>1, YieldAppends DEF YieldTerminal
<1>1. CASE UNCHANGED vars
  BY <1>1 DEF vars, TypeOK
<1>2. CASE SetCancel
  BY <1>2 DEF SetCancel, book, TypeOK
<1>3. CASE EngineProduces
  <2>1. PICK item \in Events \cup LastItems, d \in AttemptTimes :
            slot' = {item} /\ clock' = clock + d
            /\ source' \in {"closed", "suspended"}
    BY <1>3 DEF EngineProduces
  <2>2. item \in Item
    BY <2>1 DEF Events, LastItems, Item, Billability
  <2>3. clock' \in Nat
    BY <1>0, <2>1, TimesAssumption
  <2>4. slot' \in {{i} : i \in Item}
    BY <2>1, <2>2
  <2> QED BY <1>3, <2>1, <2>3, <2>4 DEF EngineProduces, book, TypeOK
<1>4. CASE CancelledBeforeAttempt
  <2>1. trace' \in Seq(AttemptRecord)
    BY <1>0, <1>4, TraceGrows DEF CancelledBeforeAttempt
  <2>2. Terminal("Cancelled", trace', billability) \in Outcome
    BY <1>0, <2>1, OutcomeType
  <2> QED BY <1>0, <1>4, <1>b, <2>1, <2>2 DEF CancelledBeforeAttempt, TypeOK
<1>5. CASE StartAttempt
  BY <1>5 DEF StartAttempt, Read, TypeOK
<1>6. CASE TakeStart
  <2>1. [kind |-> "start"] \in Event
    BY DEF Event
  <2> QED BY <1>6, <1>a, <2>1, TakeTakes DEF TakeStart, Read, TypeOK
<1>7. CASE TakeNative
  BY <1>7, TakeTakes DEF TakeNative, Read, TypeOK
<1>8. CASE TakeSemantic
  <2>1. [kind |-> "semantic"] \in Event
    BY DEF Event
  <2> QED BY <1>8, <1>a, <2>1, TakeTakes DEF TakeSemantic, TypeOK
<1>9. CASE TakeTerminal
  <2>1. Taken.billability \in Billability /\ Taken.arm \in EngineArms
    BY <1>9, TakeTakes, TakenItem DEF TakeTerminal
  <2>2. trace' \in Seq(AttemptRecord)
    BY <1>0, <1>9, TraceGrows DEF TakeTerminal, Absorbed
  <2>3. billability' \in Billability
    BY <1>0, <1>9, <2>1, FoldIsMaximum DEF TakeTerminal
  <2>4. ASSUME NEW arm \in SealedArms(Taken.arm)
        PROVE  Terminal(arm, trace', billability') \in Outcome
    BY <2>1, <2>2, <2>3, <2>4, OutcomeType DEF SealedArms
  <2>5. [kind |-> "continuation"] \in Event
    BY DEF Event
  <2>6. /\ emitted' \in Seq(Envelope) /\ held' \subseteq Outcome
        /\ pc' \in {"closing", "yielded"}
        /\ then' \in {"raised", "terminal", "return"}
    <3>1. held \subseteq Outcome /\ emitted \in Seq(Envelope)
      BY DEF TypeOK
    <3>2. PICK arm \in SealedArms(Taken.arm) :
              \/ pc' = "closing" /\ then' = "raised" /\ UNCHANGED <<emitted, held>>
              \/ /\ Yield([kind |-> "continuation"], "terminal")
                 /\ held' = {Terminal(arm, trace', billability')}
              \/ YieldTerminal(Terminal(arm, trace', billability'))
      BY <1>9, TerminalGoesOn
    <3>3. CASE pc' = "closing" /\ then' = "raised" /\ UNCHANGED <<emitted, held>>
      BY <3>1, <3>3
    <3>4. CASE /\ Yield([kind |-> "continuation"], "terminal")
               /\ held' = {Terminal(arm, trace', billability')}
      <4>1. /\ emitted' \in Seq(Envelope)
            /\ pc' = "yielded" /\ then' \in {"read", "terminal", "return"}
        BY <1>a, <2>5, <3>4
      <4>2. then' = "terminal"
        BY <3>4 DEF Yield
      <4> QED BY <2>4, <3>4, <4>1, <4>2
    <3>5. CASE YieldTerminal(Terminal(arm, trace', billability'))
      BY <1>b, <2>4, <3>5
    <3> QED BY <3>2, <3>3, <3>4, <3>5
  <2> QED BY <1>9, <2>2, <2>3, <2>6, TakeTakes DEF TakeTerminal, TypeOK
<1>10. CASE TakeDefect
  BY <1>10, TakeTakes DEF TakeDefect, CloseAnd, TypeOK
<1>11. CASE Interrupted
  <2>1. Taken.billability \in Billability
    BY <1>11, TakeTakes, TakenItem DEF Interrupted
  <2>2. trace' \in Seq(AttemptRecord) /\ billability' \in Billability
    BY <1>0, <1>11, <2>1, TraceGrows, FoldIsMaximum DEF Interrupted
  <2>3. Terminal("Exhausted", trace', billability') \in Outcome
    BY <2>2, OutcomeType
  <2> QED BY <1>11, <1>b, <2>2, <2>3, TakeTakes DEF Interrupted, TypeOK
<1>12. CASE TransientFailure
  <2>1. Taken.billability \in Billability /\ Taken.cause \in Cause
    BY <1>12, TakeTakes, TakenItem DEF TransientFailure
  <2>2. trace' \in Seq(AttemptRecord) /\ billability' \in Billability
    BY <1>0, <1>12, <2>1, TraceGrows, FoldIsMaximum DEF TransientFailure
  <2> QED BY <1>12, <2>1, <2>2, TakeTakes DEF TransientFailure, CloseAnd, TypeOK
<1>13. CASE CancelWins
  BY <1>13 DEF CancelWins, book, TypeOK
<1>14. CASE CancelledMidAttempt
  <2>1. trace' \in Seq(AttemptRecord) /\ billability' \in Billability
    BY <1>0, <1>14, TraceGrows, FoldIsMaximum DEF CancelledMidAttempt, Billability
  <2>2. Terminal("Cancelled", trace', billability') \in Outcome
    BY <2>1, OutcomeType
  <2> QED BY <1>14, <1>b, <2>1, <2>2 DEF CancelledMidAttempt, TypeOK
<1>15. CASE CloseSource
  <2>1. PICK d \in AttemptTimes : clock' = clock + d /\ AfterClose(clock')
    BY <1>15 DEF CloseSource
  <2>2. clock' \in Nat
    BY <1>0, <2>1, TimesAssumption
  <2>3. CASE then = "retry"
    <3>1. Len(trace) > 0 /\ cause \in Cause
      BY <1>0, <1>15, <2>3 DEF CloseSource, Inv, Counting, Retrying
    <3>2. \A delay \in Retries(attempt, cause, clock') : delay \in Nat
      BY <1>0, <2>2, <3>1, RetryNeedsBudget
    <3>3. Exhausted(trace) \in Seq(AttemptRecord)
      BY <1>0, <3>1, ExhaustedTrace
    <3>4. Terminal("Exhausted", Exhausted(trace), billability) \in Outcome
      BY <1>0, <3>3, OutcomeType
    <3> QED BY <1>15, <1>b, <2>1, <2>2, <2>3, <3>2, <3>3, <3>4
            DEF CloseSource, AfterClose, TypeOK
  <2>4. CASE then \in Ended
    BY <1>15, <2>1, <2>2, <2>4 DEF CloseSource, AfterClose, TypeOK
  <2> QED BY <2>1, <2>3, <2>4 DEF AfterClose
<1>16. CASE CloseRunningSource
  BY <1>16 DEF CloseRunningSource, book, TypeOK
<1>17. CASE SleepEnds
  BY <1>17, TimesAssumption DEF SleepEnds, book, TypeOK
<1>18. CASE Pull
  <2>1. \A outcome \in held : outcome \in Outcome
    BY DEF TypeOK
  <2> QED BY <1>18, <1>b, <2>1 DEF Pull, Read, CloseAnd, book, TypeOK
<1>19. CASE Abandon
  BY <1>19 DEF Abandon, CloseAnd, book, TypeOK
<1>20. CASE Abort
  BY <1>20 DEF Abort, CloseAnd, book, TypeOK
<1>21. CASE AbortWhileSettling
  BY <1>21 DEF AbortWhileSettling, CloseAnd, book, TypeOK
<1>22. CASE Stop
  BY <1>22 DEF Stop, vars, TypeOK
<1> QED
  BY <1>1, <1>2, <1>3, <1>4, <1>5, <1>6, <1>7, <1>8, <1>9, <1>10, <1>11, <1>12,
     <1>13, <1>14, <1>15, <1>16, <1>17, <1>18, <1>19, <1>20, <1>21, <1>22
  DEF Next, Generator

LEMMA PositionStep == Inv /\ [Next]_vars => Position'
<1> SUFFICES ASSUME Inv, [Next]_vars PROVE Position'
  OBVIOUS
<1> USE DEF Position, Retrying, Ended
<1>1. CASE UNCHANGED vars
  BY <1>1 DEF Inv, vars
<1>2. CASE SetCancel
  BY <1>2 DEF Inv, SetCancel, book
<1>3. CASE EngineProduces
  <2>1. pulled \in Nat /\ pulled' = pulled + 1 /\ pc = "reading"
        /\ UNCHANGED <<pc, then, cancel, semanticForwarded>>
    BY <1>3 DEF EngineProduces, Inv, TypeOK
  <2>2. \A item \in slot' : item.kind = "start" => pulled = 0
    <3>1. PICK item \in Events \cup LastItems : slot' = {item}
      BY <1>3 DEF EngineProduces
    <3> QED BY <3>1 DEF Events, LastItems
  <2> QED BY <2>1, <2>2 DEF Inv
<1>4. CASE CancelledBeforeAttempt
  BY <1>4 DEF Inv, CancelledBeforeAttempt, YieldTerminal, Yield
<1>5. CASE StartAttempt
  BY <1>5 DEF Inv, StartAttempt, Read
<1>6. CASE TakeStart
  BY <1>6, TakeTakes DEF Inv, TakeStart, Read, Yield
<1>7. CASE TakeNative
  BY <1>7, TakeTakes DEF Inv, TakeNative, Read
<1>8. CASE TakeSemantic
  BY <1>8, TakeTakes DEF Inv, TakeSemantic, Yield
<1>9. CASE TakeTerminal
  BY <1>9, TakeTakes, TerminalGoesOn DEF Inv, TakeTerminal, YieldTerminal, Yield
<1>10. CASE TakeDefect
  BY <1>10, TakeTakes DEF Inv, TakeDefect, CloseAnd
<1>11. CASE Interrupted
  BY <1>11, TakeTakes DEF Inv, Interrupted, YieldTerminal, Yield
<1>12. CASE TransientFailure
  BY <1>12, TakeTakes DEF Inv, TransientFailure, CloseAnd
<1>13. CASE CancelWins
  BY <1>13 DEF Inv, CancelWins, book
<1>14. CASE CancelledMidAttempt
  BY <1>14 DEF Inv, CancelledMidAttempt, YieldTerminal, Yield
<1>15. CASE CloseSource
  BY <1>15 DEF Inv, CloseSource, AfterClose, YieldTerminal, Yield
<1>16. CASE CloseRunningSource
  BY <1>16 DEF Inv, CloseRunningSource, book
<1>17. CASE SleepEnds
  BY <1>17 DEF Inv, SleepEnds, book
<1>18. CASE Pull
  BY <1>18 DEF Inv, Pull, Read, CloseAnd, YieldTerminal, Yield, book
<1>19. CASE Abandon
  BY <1>19 DEF Inv, Abandon, CloseAnd, book
<1>20. CASE Abort
  BY <1>20 DEF Inv, Abort, CloseAnd, book
<1>21. CASE AbortWhileSettling
  BY <1>21 DEF Inv, AbortWhileSettling, CloseAnd, book
<1>22. CASE Stop
  BY <1>22 DEF Inv, Stop, vars
<1> QED
  BY <1>1, <1>2, <1>3, <1>4, <1>5, <1>6, <1>7, <1>8, <1>9, <1>10, <1>11, <1>12,
     <1>13, <1>14, <1>15, <1>16, <1>17, <1>18, <1>19, <1>20, <1>21, <1>22
  DEF Next, Generator

LEMMA CountingStep == Inv /\ [Next]_vars => Counting'
<1> SUFFICES ASSUME Inv, [Next]_vars PROVE Counting'
  OBVIOUS
<1> USE DEF Counting, Retrying, Reading, Waiting, Ended
<1>0. /\ attempt \in Nat /\ begun \in Nat /\ clock \in Nat /\ dispatched \in Nat
      /\ trace \in Seq(AttemptRecord) /\ billability \in Billability
      /\ FinalAttempt \in Signal /\ Cause \subseteq Signal
  BY DEF Inv, TypeOK, Signal
<1>1. CASE UNCHANGED vars
  BY <1>1 DEF Inv, vars
<1>2. CASE SetCancel
  BY <1>2 DEF Inv, SetCancel, book
<1>3. CASE EngineProduces
  BY <1>3 DEF Inv, EngineProduces, book
<1>4. CASE CancelledBeforeAttempt
  BY <1>4 DEF Inv, CancelledBeforeAttempt, YieldTerminal, Yield
<1>5. CASE StartAttempt
  BY <1>0, <1>5, PolicyAssumption DEF Inv, StartAttempt, Read
<1>6. CASE TakeStart
  BY <1>6, TakeTakes DEF Inv, TakeStart, Read, Yield
<1>7. CASE TakeNative
  BY <1>7, TakeTakes DEF Inv, TakeNative, Read
<1>8. CASE TakeSemantic
  BY <1>8, TakeTakes DEF Inv, TakeSemantic, Yield
<1>9. CASE TakeTerminal
  <2>1. pc = "reading" /\ UNCHANGED <<attempt, dispatched>>
    BY <1>9, TakeTakes DEF Inv, TakeTerminal
  <2>2. Len(trace') = Len(trace) + 1
    BY <1>0, <1>9, TraceGrows DEF TakeTerminal, Absorbed
  <2>3. PICK arm \in SealedArms(Taken.arm) :
            \/ pc' = "closing" /\ then' = "raised"
            \/ /\ arm = "Succeeded" /\ pc' = "yielded" /\ then' = "terminal"
               /\ held' = {Terminal(arm, trace', billability')}
            \/ pc' = "yielded" /\ then' = "return"
    BY <1>9, TerminalGoesOn DEF Inv, YieldTerminal, Yield
  <2> QED BY <1>0, <2>1, <2>2, <2>3 DEF Inv
<1>10. CASE TakeDefect
  BY <1>10, TakeTakes DEF Inv, TakeDefect, CloseAnd
<1>11. CASE Interrupted
  BY <1>11, TakeTakes DEF Inv, Interrupted, YieldTerminal, Yield
<1>12. CASE TransientFailure
  <2>1. Taken.cause \in Cause /\ pc = "reading" /\ UNCHANGED <<attempt, dispatched>>
        /\ pc' = "closing" /\ then' = "retry" /\ cause' = Taken.cause
    BY <1>12, TakeTakes, TakenItem DEF Inv, TransientFailure, CloseAnd
  <2>2. Len(trace') = Len(trace) + 1
    BY <1>0, <1>12, <2>1, TraceGrows DEF TransientFailure
  <2> QED BY <1>0, <2>1, <2>2 DEF Inv
<1>13. CASE CancelWins
  BY <1>13 DEF Inv, CancelWins, book
<1>14. CASE CancelledMidAttempt
  BY <1>14 DEF Inv, CancelledMidAttempt, YieldTerminal, Yield
<1>15. CASE CloseSource
  <2>1. PICK d \in AttemptTimes : clock' = clock + d /\ AfterClose(clock')
    BY <1>15 DEF CloseSource
  <2>2. clock' \in Nat
    BY <1>0, <2>1, TimesAssumption
  <2>3. CASE then = "retry"
    <3>1. attempt > 0 /\ Len(trace) = attempt /\ dispatched = attempt /\ cause \in Cause
      BY <1>15, <2>3 DEF CloseSource, Inv
    <3>2. \A delay \in Retries(attempt, cause, clock') : attempt < MaxAttempts
      BY <1>0, <2>2, <3>1, RetryNeedsBudget
    <3> QED BY <1>0, <1>15, <2>1, <2>3, <3>1, <3>2
            DEF CloseSource, AfterClose, YieldTerminal, Yield
  <2>4. CASE then \in Ended
    BY <1>15, <2>1, <2>4 DEF CloseSource, AfterClose
  <2> QED BY <2>1, <2>3, <2>4 DEF AfterClose
<1>16. CASE CloseRunningSource
  BY <1>16 DEF Inv, CloseRunningSource, book
<1>17. CASE SleepEnds
  BY <1>17 DEF Inv, SleepEnds, book
<1>18. CASE Pull
  BY <1>18 DEF Inv, Pull, Read, CloseAnd, YieldTerminal, Yield, book
<1>19. CASE Abandon
  BY <1>19 DEF Inv, Abandon, CloseAnd, book
<1>20. CASE Abort
  BY <1>20 DEF Inv, Abort, CloseAnd, book
<1>21. CASE AbortWhileSettling
  BY <1>21 DEF Inv, AbortWhileSettling, CloseAnd, book
<1>22. CASE Stop
  BY <1>22 DEF Inv, Stop, vars
<1> QED
  BY <1>1, <1>2, <1>3, <1>4, <1>5, <1>6, <1>7, <1>8, <1>9, <1>10, <1>11, <1>12,
     <1>13, <1>14, <1>15, <1>16, <1>17, <1>18, <1>19, <1>20, <1>21, <1>22
  DEF Next, Generator

LEMMA ChargesStep == Inv /\ [Next]_vars => Charges'
<1> SUFFICES ASSUME Inv, [Next]_vars PROVE Charges'
  OBVIOUS
<1> USE DEF Charges, Retrying, Reading, Waiting, Ended
<1>0. /\ attempt \in Nat /\ billability \in Billability /\ pulled \in Nat
      /\ trace \in Seq(AttemptRecord) /\ Len(trace) \in Nat
  BY DEF Inv, TypeOK
<1>1. CASE UNCHANGED vars
  BY <1>1 DEF Inv, vars
<1>2. CASE SetCancel
  BY <1>2 DEF Inv, SetCancel, book
<1>3. CASE EngineProduces
  <2>1. PICK item \in Events \cup LastItems :
            /\ slot' = {item}
            /\ unsettled' = IF item.kind = "transient"
                               /\ item.billability # "PossiblyBillable"
                            THEN unsettled
                            ELSE unsettled \cup {attempt}
    BY <1>3 DEF EngineProduces
  <2>2. /\ item.kind = "terminal" => item.billability = "PossiblyBillable"
        /\ item.kind = "transient" /\ item.billability # "PossiblyBillable" => pulled = 0
    BY <2>1 DEF Events, LastItems
  <2>3. pc = "reading" /\ pulled' = pulled + 1
        /\ UNCHANGED <<pc, then, attempt, billability>>
    BY <1>3 DEF EngineProduces, book
  <2>4. attempt > 0
    BY <1>0, <2>3 DEF Inv, Counting, Reading
  <2> QED BY <1>0, <2>1, <2>2, <2>3, <2>4 DEF Inv
<1>4. CASE CancelledBeforeAttempt
  BY <1>0, <1>4 DEF Inv, CancelledBeforeAttempt, YieldTerminal, Yield
<1>5. CASE StartAttempt
  BY <1>0, <1>5 DEF Inv, StartAttempt, Read, Position
<1>6. CASE TakeStart
  <2>1. slot # {} /\ pulled > 0 /\ pc = "reading"
        /\ UNCHANGED <<attempt, billability, unsettled, pulled>>
    BY <1>6, TakeTakes DEF Inv, TakeStart, Position
  <2> QED BY <1>0, <1>6, <2>1 DEF Inv, TakeStart, Read, Yield
<1>7. CASE TakeNative
  <2>1. slot # {} /\ pulled > 0 /\ pc = "reading"
        /\ UNCHANGED <<attempt, billability, unsettled, pulled>>
    BY <1>7, TakeTakes DEF Inv, TakeNative, Position
  <2> QED BY <1>0, <1>7, <2>1 DEF Inv, TakeNative, Read
<1>8. CASE TakeSemantic
  BY <1>8, TakeTakes DEF Inv, TakeSemantic, Yield
<1>9. CASE TakeTerminal
  <2>1. /\ Taken \in slot /\ pc = "reading" /\ UNCHANGED <<attempt, unsettled>>
        /\ Taken.kind = "terminal" /\ Taken.billability \in Billability
    BY <1>9, TakeTakes, TakenItem DEF Inv, TakeTerminal
  <2>2. billability' = "PossiblyBillable"
    BY <1>0, <1>9, <2>1, FoldIsMaximum DEF Inv, TakeTerminal
  <2>3. pc' \in {"closing", "yielded"} /\ then' \in {"raised", "terminal", "return"}
    BY <1>9, TerminalGoesOn DEF Inv, YieldTerminal, Yield
  <2> QED BY <1>0, <2>1, <2>2, <2>3 DEF Inv
<1>10. CASE TakeDefect
  BY <1>10, TakeTakes DEF Inv, TakeDefect, CloseAnd
<1>11. CASE Interrupted
  BY <1>11, TakeTakes DEF Inv, Interrupted, YieldTerminal, Yield
<1>12. CASE TransientFailure
  <2>1. /\ Taken \in slot /\ pc = "reading" /\ UNCHANGED <<attempt, unsettled>>
        /\ Taken.kind = "transient" /\ Taken.billability \in Billability
        /\ pc' = "closing" /\ then' = "retry" /\ slot' = {}
    BY <1>12, TakeTakes, TakenItem DEF Inv, TransientFailure, CloseAnd
  <2>2. unsettled # {} => billability' = "PossiblyBillable"
    BY <1>0, <1>12, <2>1, FoldIsMaximum DEF Inv, TransientFailure
  <2> QED BY <1>0, <2>1, <2>2 DEF Inv
<1>13. CASE CancelWins
  <2>1. attempt > 0
    BY <1>0, <1>13 DEF CancelWins, Inv, Counting
  <2> QED BY <1>0, <1>13, <2>1 DEF Inv, CancelWins, book
<1>14. CASE CancelledMidAttempt
  BY <1>14 DEF Inv, CancelledMidAttempt, YieldTerminal, Yield
<1>15. CASE CloseSource
  BY <1>15 DEF Inv, CloseSource, AfterClose, YieldTerminal, Yield
<1>16. CASE CloseRunningSource
  BY <1>16 DEF Inv, CloseRunningSource, book
<1>17. CASE SleepEnds
  BY <1>17 DEF Inv, SleepEnds, book
<1>18. CASE Pull
  <2>1. UNCHANGED <<attempt, billability, unsettled, pulled>> /\ pc = "yielded"
    BY <1>18 DEF Pull, book
  <2>2. CASE then = "read" /\ pc' = "reading" /\ slot' = {} /\ pulled > 0
    BY <1>0, <2>1, <2>2 DEF Inv
  <2>3. CASE pc' \in {"yielded", "closing", "returned"} /\ then' \in {"return", "returned"}
    BY <2>1, <2>3 DEF Inv
  <2> QED BY <1>18, <2>1, <2>2, <2>3
          DEF Inv, Position, Pull, Read, CloseAnd, YieldTerminal, Yield
<1>19. CASE Abandon
  BY <1>19 DEF Inv, Abandon, CloseAnd, book
<1>20. CASE Abort
  BY <1>20 DEF Inv, Abort, CloseAnd, book
<1>21. CASE AbortWhileSettling
  BY <1>21 DEF Inv, AbortWhileSettling, CloseAnd, book
<1>22. CASE Stop
  BY <1>22 DEF Inv, Stop, vars
<1> QED
  BY <1>1, <1>2, <1>3, <1>4, <1>5, <1>6, <1>7, <1>8, <1>9, <1>10, <1>11, <1>12,
     <1>13, <1>14, <1>15, <1>16, <1>17, <1>18, <1>19, <1>20, <1>21, <1>22
  DEF Next, Generator

\* A step that yields nothing leaves the output as good as it was.
LEMMA OutputIsKept ==
    ASSUME Inv, UNCHANGED <<emitted, dispatched>>,
           (Retrying \/ Reading)' => Retrying \/ Reading,
           startForwarded => startForwarded', semanticForwarded => semanticForwarded',
           Waiting' => Waiting,
           pc' = "returned" => Terminals # {},
           pc' = "closing" /\ then' = "returned" => Terminals # {},
           pc' = "yielded" /\ then' = "return" => Terminals # {}
    PROVE  Output'
BY DEF Inv, Output, Grammar, OutputOfOneAttempt, Kind, Terminals

\* A yield in a position that allows it extends the stream by its grammar.
LEMMA YieldKeepsGrammar ==
    ASSUME Inv, NEW event \in Event, NEW next, Yield(event, next), dispatched' = dispatched,
           Retrying \/ Reading \/ Waiting,
           Waiting => event.kind = "terminal" /\ event.outcome.arm = "Succeeded",
           event.kind = "start" => Len(emitted) = 0
    PROVE  Grammar'
<1> DEFINE n == Len(emitted) + 1
<1>1. /\ emitted' \in Seq(Envelope) /\ Len(emitted') = n /\ pc' = "yielded"
      /\ emitted'[n].event = event /\ emitted'[n].seq = n
      /\ emitted'[n].source = dispatched
      /\ Len(emitted) \in Nat
      /\ \A i \in 1 .. Len(emitted) : emitted'[i] = emitted[i]
  BY YieldAppends DEF Inv, TypeOK
<1> HIDE DEF n
<1>2. n = Len(emitted) + 1
  BY DEF n
<1>3. \A i \in 1 .. Len(emitted) :
        /\ emitted[i].seq = i
        /\ emitted[i].event.kind = "start" => i = 1
        /\ emitted[i].event.kind # "terminal"
        /\ emitted[i].event.kind = "continuation" => Waiting /\ i = Len(emitted)
        /\ emitted[i].event.kind \in {"semantic", "continuation"} =>
            emitted[i].source = dispatched
  BY DEF Inv, Output, Grammar, OutputOfOneAttempt, Kind, Terminals
<1>4. ASSUME NEW i \in 1 .. n
      PROVE  /\ emitted'[i].seq = i
             /\ emitted'[i].event.kind = "start" => i = 1
             /\ emitted'[i].event.kind = "terminal" => i = n
             /\ emitted'[i].event.kind = "continuation" /\ i < n =>
                /\ i + 1 = n
                /\ event.kind = "terminal" /\ event.outcome.arm = "Succeeded"
             /\ emitted'[i].event.kind \in {"semantic", "continuation"} =>
                emitted'[i].source = dispatched'
  <2>1. CASE i = n
    BY <1>1, <1>2, <2>1
  <2>2. CASE i \in 1 .. Len(emitted)
    BY <1>1, <1>2, <1>3, <2>2
  <2> QED BY <1>1, <1>2, <2>1, <2>2
<1> QED BY <1>1, <1>2, <1>4 DEF Grammar, OutputOfOneAttempt, Kind, Terminals

\* The terminal is the last thing yielded.
LEMMA TerminalIsOutput ==
    ASSUME Inv, NEW o \in Outcome, YieldTerminal(o), dispatched' = dispatched,
           Retrying \/ Reading \/ Waiting, Waiting => o.arm = "Succeeded"
    PROVE  Output'
<1> DEFINE event == [kind |-> "terminal", outcome |-> o]
<1>1. event \in Event /\ event.kind = "terminal" /\ event.outcome = o
      /\ Yield(event, "return")
  BY DEF Event, YieldTerminal
<1> HIDE DEF event
<1>2. Grammar'
  BY <1>1, YieldKeepsGrammar
<1>3. /\ pc' = "yielded" /\ then' = "return"
      /\ Len(emitted') = Len(emitted) + 1 /\ Len(emitted) \in Nat
      /\ emitted'[Len(emitted')].event.kind = "terminal"
  BY <1>1, YieldAppends DEF Inv, TypeOK
<1>4. Terminals' # {}
  BY <1>3 DEF Terminals, Kind
<1> QED BY <1>2, <1>3, <1>4 DEF Output, Retrying, Reading, Waiting

LEMMA OutputStep == Inv /\ [Next]_vars => Output'
<1> SUFFICES ASSUME Inv, [Next]_vars PROVE Output'
  OBVIOUS
<1> USE DEF Ended
<1>0. /\ billability \in Billability /\ trace \in Seq(AttemptRecord)
      /\ billability' \in Billability /\ trace' \in Seq(AttemptRecord)
  BY TypeStep DEF Inv, TypeOK
<1>1. CASE UNCHANGED vars
  BY <1>1 DEF Inv, vars, Output, Grammar, OutputOfOneAttempt, Kind, Terminals,
             Retrying, Reading, Waiting
<1>2. CASE SetCancel
  BY <1>2, OutputIsKept
  DEF Inv, Output, SetCancel, book, Retrying, Reading, Waiting
<1>3. CASE EngineProduces
  BY <1>3, OutputIsKept
  DEF Inv, EngineProduces, book, Retrying, Reading, Waiting
<1>4. CASE CancelledBeforeAttempt
  <2>1. Terminal("Cancelled", trace', billability) \in Outcome
    BY <1>0, OutcomeType
  <2>2. Retrying /\ ~ Waiting
    BY <1>4 DEF CancelledBeforeAttempt, Retrying, Waiting
  <2> QED BY <1>4, <2>1, <2>2, TerminalIsOutput DEF CancelledBeforeAttempt
<1>5. CASE StartAttempt
  <2>1. /\ Retrying /\ ~ semanticForwarded /\ pc' = "reading"
        /\ UNCHANGED <<emitted, startForwarded, semanticForwarded>>
    BY <1>5 DEF Inv, Position, StartAttempt, Read, Retrying
  <2>2. \A i \in 1 .. Len(emitted) : Kind(i) = "start" /\ startForwarded
    BY <2>1 DEF Inv, Output
  <2> QED BY <2>1, <2>2 DEF Inv, Output, Grammar, OutputOfOneAttempt, Kind, Terminals,
                        Retrying, Reading, Waiting
<1>6. CASE TakeStart
  <2>1. pc = "reading" /\ dispatched' = dispatched /\ ~ semanticForwarded
        /\ startForwarded' = TRUE /\ semanticForwarded' = semanticForwarded
    BY <1>6, TakeTakes DEF Inv, Position, TakeStart
  <2>2. CASE startForwarded
    <3>1. pc' = "reading" /\ UNCHANGED emitted
      BY <1>6, <2>2 DEF TakeStart, Read
    <3> QED BY <2>1, <3>1, OutputIsKept DEF Retrying, Reading, Waiting
  <2>3. CASE ~ startForwarded
    <3>1. Yield([kind |-> "start"], "read")
      BY <1>6, <2>3 DEF TakeStart
    <3>2. Len(emitted) = 0
      <4>1. Len(emitted) \in Nat
        BY DEF Inv, TypeOK
      <4>2. 1 \notin 1 .. Len(emitted)
        BY <2>1, <2>3 DEF Inv, Output, Reading
      <4> QED BY <4>1, <4>2
    <3> DEFINE event == [kind |-> "start"]
    <3>3. event \in Event /\ event.kind = "start"
      BY DEF Event
    <3> HIDE DEF event
    <3>4. Reading /\ ~ Waiting /\ Yield(event, "read")
      BY <2>1, <3>1 DEF Reading, Waiting, event
    <3>5. Grammar'
      BY <2>1, <3>2, <3>3, <3>4, YieldKeepsGrammar
    <3>6. /\ pc' = "yielded" /\ then' = "read"
          /\ \A i \in 1 .. Len(emitted') : emitted'[i].event.kind = "start"
      BY <3>2, <3>3, <3>4, YieldAppends DEF Inv, TypeOK
    <3> QED BY <2>1, <3>5, <3>6 DEF Output, Kind, Retrying, Reading, Waiting
  <2> QED BY <2>2, <2>3
<1>7. CASE TakeNative
  BY <1>7, TakeTakes, OutputIsKept DEF Inv, TakeNative, Read, Retrying, Reading, Waiting
<1>8. CASE TakeSemantic
  <2> DEFINE event == [kind |-> "semantic"]
  <2>1. event \in Event /\ event.kind = "semantic"
    BY DEF Event
  <2> HIDE DEF event
  <2>2. pc = "reading" /\ dispatched' = dispatched /\ Yield(event, "read")
        /\ semanticForwarded' = TRUE /\ startForwarded' = startForwarded
    BY <1>8, TakeTakes DEF Inv, TakeSemantic, event
  <2>3. Grammar'
    BY <2>1, <2>2, YieldKeepsGrammar DEF Reading, Waiting
  <2>4. /\ pc' = "yielded" /\ then' = "read"
        /\ Len(emitted') = Len(emitted) + 1 /\ Len(emitted) \in Nat
        /\ emitted'[Len(emitted')].event.kind = "semantic"
        /\ \A i \in 1 .. Len(emitted) : emitted'[i] = emitted[i]
    BY <2>1, <2>2, YieldAppends DEF Inv, TypeOK
  <2>5. \A i \in 1 .. Len(emitted') :
            \/ emitted'[i].event.kind = "start" /\ startForwarded'
            \/ emitted'[i].event.kind = "semantic"
    BY <2>2, <2>4 DEF Inv, Output, Reading, Kind
  <2> QED BY <2>2, <2>3, <2>4, <2>5 DEF Output, Kind, Retrying, Reading, Waiting
<1>9. CASE TakeTerminal
  <2>1. pc = "reading" /\ UNCHANGED <<dispatched, startForwarded, semanticForwarded>>
    BY <1>9, TakeTakes DEF Inv, TakeTerminal
  <2>2. PICK arm \in SealedArms(Taken.arm) :
            \/ pc' = "closing" /\ then' = "raised" /\ UNCHANGED emitted
            \/ Yield([kind |-> "continuation"], "terminal")
            \/ /\ arm \in EngineArms \cup {"TooLarge"}
               /\ YieldTerminal(Terminal(arm, trace', billability'))
    BY <1>9, TerminalGoesOn DEF Inv
  <2>3. CASE pc' = "closing" /\ then' = "raised" /\ UNCHANGED emitted
    BY <2>1, <2>3, OutputIsKept DEF Retrying, Reading, Waiting
  <2>4. CASE Yield([kind |-> "continuation"], "terminal")
    <3> DEFINE event == [kind |-> "continuation"]
    <3>1. event \in Event /\ event.kind = "continuation" /\ Yield(event, "terminal")
      BY <2>4 DEF Event
    <3> HIDE DEF event
    <3>2. Grammar'
      BY <2>1, <3>1, YieldKeepsGrammar DEF Reading, Waiting
    <3>3. /\ pc' = "yielded" /\ then' = "terminal"
          /\ Len(emitted') = Len(emitted) + 1 /\ Len(emitted) \in Nat
          /\ emitted'[Len(emitted')].event.kind = "continuation"
          /\ \A i \in 1 .. Len(emitted) : emitted'[i] = emitted[i]
      BY <3>1, YieldAppends DEF Inv, TypeOK
    <3>4. \A i \in 1 .. Len(emitted) : emitted[i].event.kind \in {"start", "semantic"}
      BY <2>1 DEF Inv, Output, Reading, Kind
    <3> QED BY <3>2, <3>3, <3>4 DEF Output, Kind, Retrying, Reading, Waiting
  <2>5. CASE /\ arm \in EngineArms \cup {"TooLarge"}
             /\ YieldTerminal(Terminal(arm, trace', billability'))
    <3>1. Terminal(arm, trace', billability') \in Outcome
      BY <1>0, <2>5, OutcomeType
    <3> QED BY <2>1, <2>5, <3>1, TerminalIsOutput DEF Reading, Waiting
  <2> QED BY <2>2, <2>3, <2>4, <2>5
<1>10. CASE TakeDefect
  BY <1>10, TakeTakes, OutputIsKept
  DEF Inv, TakeDefect, CloseAnd, Retrying, Reading, Waiting
<1>11. CASE Interrupted
  <2>1. pc = "reading" /\ dispatched' = dispatched
    BY <1>11, TakeTakes DEF Inv, Interrupted
  <2>2. Terminal("Exhausted", trace', billability') \in Outcome
    BY <1>0, OutcomeType
  <2> QED BY <1>11, <2>1, <2>2, TerminalIsOutput DEF Interrupted, Reading, Waiting
<1>12. CASE TransientFailure
  BY <1>12, TakeTakes, OutputIsKept
  DEF Inv, TransientFailure, CloseAnd, Retrying, Reading, Waiting
<1>13. CASE CancelWins
  BY <1>13, OutputIsKept
  DEF Inv, CancelWins, book, Retrying, Reading, Waiting
<1>14. CASE CancelledMidAttempt
  <2>1. Terminal("Cancelled", trace', billability') \in Outcome
    BY <1>0, OutcomeType
  <2> QED BY <1>14, <2>1, TerminalIsOutput DEF CancelledMidAttempt, Reading, Waiting
<1>15. CASE CloseSource
  <2>1. PICK d \in AttemptTimes : AfterClose(clock')
    BY <1>15 DEF CloseSource
  <2>2. pc = "closing" /\ UNCHANGED <<dispatched, startForwarded, semanticForwarded>>
    BY <1>15 DEF CloseSource
  <2>3. CASE then = "retry" /\ pc' = "sleeping" /\ UNCHANGED <<then, emitted>>
    BY <2>2, <2>3, OutputIsKept DEF Retrying, Reading, Waiting
  <2>4. CASE then = "retry" /\ trace' = Exhausted(trace)
             /\ YieldTerminal(Terminal("Exhausted", trace', billability))
    <3>1. Terminal("Exhausted", trace', billability) \in Outcome
      BY <1>0, OutcomeType
    <3> QED BY <2>2, <2>4, <3>1, TerminalIsOutput DEF Retrying, Waiting
  <2>5. CASE then \in Ended /\ pc' = then /\ UNCHANGED <<then, emitted>>
    BY <2>2, <2>5, OutputIsKept DEF Inv, Output, Retrying, Reading, Waiting
  <2> QED BY <2>1, <2>3, <2>4, <2>5 DEF AfterClose
<1>16. CASE CloseRunningSource
  BY <1>16, OutputIsKept
  DEF Inv, CloseRunningSource, book, Retrying, Reading, Waiting
<1>17. CASE SleepEnds
  BY <1>17, OutputIsKept
  DEF Inv, SleepEnds, book, Retrying, Reading, Waiting
<1>18. CASE Pull
  <2>1. pc = "yielded" /\ UNCHANGED <<dispatched, startForwarded, semanticForwarded>>
    BY <1>18 DEF Pull, book
  <2>2. CASE then = "read" /\ Read /\ UNCHANGED <<then, emitted>>
    BY <2>1, <2>2, OutputIsKept DEF Read, Retrying, Reading, Waiting
  <2>3. CASE then = "terminal" /\ \E outcome \in held : YieldTerminal(outcome)
    <3>1. PICK outcome \in held : YieldTerminal(outcome)
      BY <2>3
    <3>2. Waiting
      BY <2>1, <2>3 DEF Waiting
    <3>3. outcome \in Outcome /\ outcome.arm = "Succeeded"
      BY <1>0, <3>2, OutcomeType DEF Inv, TypeOK, Counting, EngineArms
    <3> QED BY <2>1, <3>1, <3>2, <3>3, TerminalIsOutput
  <2>4. CASE then = "return" /\ pc' \in {"closing", "returned"} /\ UNCHANGED emitted
             /\ (then' = "returned" \/ pc' = "returned")
    BY <2>1, <2>4, OutputIsKept DEF Inv, Output, Retrying, Reading, Waiting
  <2> QED BY <1>18, <2>2, <2>3, <2>4 DEF Pull, CloseAnd
<1>19. CASE Abandon
  BY <1>19, OutputIsKept
  DEF Inv, Abandon, CloseAnd, book, Retrying, Reading, Waiting
<1>20. CASE Abort
  BY <1>20, OutputIsKept
  DEF Inv, Abort, CloseAnd, book, Retrying, Reading, Waiting
<1>21. CASE AbortWhileSettling
  BY <1>21, OutputIsKept
  DEF Inv, AbortWhileSettling, CloseAnd, book, Retrying, Reading, Waiting
<1>22. CASE Stop
  BY <1>22 DEF Inv, Stop, vars, Output, Grammar, OutputOfOneAttempt, Kind,
               Terminals, Retrying, Reading, Waiting
<1> QED
  BY <1>1, <1>2, <1>3, <1>4, <1>5, <1>6, <1>7, <1>8, <1>9, <1>10, <1>11, <1>12,
     <1>13, <1>14, <1>15, <1>16, <1>17, <1>18, <1>19, <1>20, <1>21, <1>22
  DEF Next, Generator

LEMMA InvInit == Init => Inv
<1> SUFFICES ASSUME Init PROVE Inv
  OBVIOUS
<1> USE DEF Init, Ended
<1>1. TypeOK
  <2>1. trace \in Seq(AttemptRecord) /\ emitted \in Seq(Envelope)
    OBVIOUS
  <2>2. slot \in {{}} /\ held \subseteq Outcome
    OBVIOUS
  <2> QED BY <2>1, <2>2 DEF TypeOK, Billability
<1>2. Position
  BY DEF Position, Retrying
<1>3. Output
  BY DEF Output, Grammar, OutputOfOneAttempt, Kind, Terminals, Waiting
<1>4. Counting
  BY PolicyAssumption DEF Counting, Reading, Waiting
<1>5. Charges
  BY DEF Charges, Reading
<1> QED BY <1>1, <1>2, <1>3, <1>4, <1>5 DEF Inv

LEMMA InvStep == Inv /\ [Next]_vars => Inv'
BY TypeStep, PositionStep, OutputStep, CountingStep, ChargesStep DEF Inv

\* The inductive invariant holds in every reachable state of a stream.
THEOREM Invariance == Spec => []Inv
BY InvInit, InvStep, PTL DEF Spec

\* What a consumer is given is one start at most, the output of one attempt,
\* a continuation only before its success, and the terminal last
\* (runtime.py, _stream_events), whatever the policy, the engine and the signal.
THEOREM StreamsAreGrammatical == Spec => []Grammar
<1>1. Inv => Grammar
  BY DEF Inv, Output
<1> QED BY <1>1, Invariance, PTL
-----------------------------------------------------------------------------
\* While a stream goes on it is open in the contract's sense.
LEMMA GoingIsOpen ==
    ASSUME Inv, Retrying \/ Reading \/ Waiting
    PROVE  /\ Terminals = {} /\ pc \notin Ended
           /\ ~ semanticForwarded /\ ~ Waiting => ~ Shown
BY DEF Inv, Output, Terminals, Shown, Kind, Retrying, Reading, Waiting, Ended

\* What a yield changes of the contract: its terminal, or that output was shown.
LEMMA OutputIsRead ==
    ASSUME Inv, NEW event \in Event, NEW next, Yield(event, next)
    PROVE  /\ Terminals' = IF event.kind = "terminal"
                           THEN Terminals \cup {Len(emitted')}
                           ELSE Terminals
           /\ Shown' <=> Shown \/ event.kind = "semantic"
           /\ pc' \notin Ended
           /\ Len(emitted') \in 1 .. Len(emitted')
<1> DEFINE n == Len(emitted) + 1
<1>1. /\ Len(emitted') = n /\ pc' = "yielded" /\ Len(emitted) \in Nat
      /\ emitted'[n].event = event
      /\ \A i \in 1 .. Len(emitted) : emitted'[i] = emitted[i]
  BY YieldAppends DEF Inv, TypeOK
<1> QED BY <1>1 DEF Terminals, Shown, Kind, Ended

\* A terminal accounts for the call: one record per attempt dispatched, or one
\* more for a cancellation before the next, and every charge told.
Accounts(arm, t, b) ==
    /\ arm \in EngineArms \cup {"Cancelled", "Exhausted", "TooLarge"}
    /\ t \in Seq(AttemptRecord)
    /\ b \in Billability
    /\ unsettled # {} => b = "PossiblyBillable"
    /\ arm = "Cancelled" => cancel
    /\ Len(t) \in {dispatched, dispatched + 1}
    /\ Len(t) # dispatched \/ dispatched = 0 => arm = "Cancelled"

\* The step that yields such a terminal answers the caller.
LEMMA TerminalIsAnswer ==
    ASSUME Inv, NEW arm, NEW t, NEW b, Accounts(arm, t, b),
           YieldTerminal(Terminal(arm, t, b)),
           Retrying \/ Reading \/ Waiting,
           UNCHANGED <<cancel, dispatched, unsettled>>
    PROVE  Promised!Answer
<1> DEFINE o == Terminal(arm, t, b)
           event == [kind |-> "terminal", outcome |-> o]
           told == [records |-> Len(t), cancellation |-> arm = "Cancelled",
                    billable |-> b = "PossiblyBillable"]
           n == Len(emitted')
<1>1. o \in Outcome /\ o.arm = arm /\ o.trace = t /\ o.billability = b
  BY OutcomeType DEF Accounts
<1>2. event \in Event /\ event.kind = "terminal" /\ event.outcome = o
      /\ Yield(event, "return")
  BY <1>1 DEF Event, YieldTerminal
<1>3. emitted'[n].event = event
  BY <1>2, YieldAppends DEF Inv
<1>4. Terminals = {} /\ pc \notin Ended
  BY GoingIsOpen
<1>5. Terminals' = {n} /\ (Shown' <=> Shown) /\ pc' \notin Ended
  BY <1>2, <1>4, OutputIsRead
<1> HIDE DEF o, event, n
<1>6. {[records |-> Len(emitted'[i].event.outcome.trace),
        cancellation |-> emitted'[i].event.outcome.arm = "Cancelled",
        billable |-> emitted'[i].event.outcome.billability = "PossiblyBillable"]
            : i \in Terminals'} = {told}
  BY <1>1, <1>2, <1>3, <1>5
<1>7. told.records \in {dispatched, dispatched + 1}
      /\ told.cancellation \in BOOLEAN /\ told.billable \in BOOLEAN
  BY DEF Accounts
<1>8. (Terminals' = {}) = FALSE
  BY <1>5
<1>9. \E records \in {dispatched, dispatched + 1}, cancellation, billable \in BOOLEAN :
        /\ {told} = {[records |-> records, cancellation |-> cancellation,
                      billable |-> billable]}
        /\ unsettled # {} => billable
        /\ cancellation => cancel
        /\ (records # dispatched \/ dispatched = 0) => cancellation
  BY <1>7 DEF Accounts
<1> HIDE DEF told
<1>10. (Terminals = {} /\ pc \notin Ended)' = FALSE
  BY <1>8
<1>11. UNCHANGED <<cancel, dispatched, Shown, unsettled # {}>>
  <2>1. Shown \in BOOLEAN /\ Shown' \in BOOLEAN
    BY DEF Shown
  <2> QED BY <1>5, <2>1
<1> QED BY <1>4, <1>6, <1>9, <1>10, <1>11 DEF Promised!Answer

\* A step that yields nothing is one the contract need not see, or the end of
\* the call.
LEMMA SilentStep ==
    ASSUME UNCHANGED <<emitted, cancel, dispatched>>, (unsettled' = {}) = (unsettled = {}),
           pc \in Ended => pc' \in Ended
    PROVE  [Promised!ContractNext]_(Promised!contract)
<1>1. UNCHANGED <<Terminals, Shown>>
  BY DEF Terminals, Shown, Kind
<1>2. (pc \in Ended) \in BOOLEAN /\ (pc' \in Ended) \in BOOLEAN
  OBVIOUS
<1>3. CASE pc \notin Ended /\ pc' \in Ended /\ Terminals = {}
  BY <1>1, <1>3 DEF Promised!ContractNext, Promised!GiveUp
<1>4. CASE ~ (pc \notin Ended /\ pc' \in Ended /\ Terminals = {})
  BY <1>1, <1>2, <1>4 DEF Promised!contract
<1> QED BY <1>3, <1>4

\* A yield of a start or a continuation is no step of the contract.
LEMMA YieldedIsSilent ==
    ASSUME Inv, pc = "reading", pc' \notin Ended, UNCHANGED <<Terminals, Shown>>,
           UNCHANGED <<cancel, dispatched, unsettled>>
    PROVE  UNCHANGED Promised!contract
<1>1. Terminals = {} /\ Terminals' = {} /\ pc \notin Ended
  BY GoingIsOpen DEF Reading
<1>2. UNCHANGED (Terminals = {} /\ pc \notin Ended)
  BY <1>1
<1> QED BY <1>1, <1>2 DEF Promised!contract

LEMMA StepImplements ==
    Inv /\ Inv' /\ [Next]_vars => [Promised!ContractNext]_(Promised!contract)
<1> SUFFICES ASSUME Inv, Inv', [Next]_vars
             PROVE  [Promised!ContractNext]_(Promised!contract)
  OBVIOUS
<1>0. /\ billability \in Billability /\ trace \in Seq(AttemptRecord)
      /\ billability' \in Billability /\ trace' \in Seq(AttemptRecord)
      /\ dispatched \in Nat /\ attempt \in Nat /\ Len(trace) \in Nat
      /\ FinalAttempt \in Signal /\ Cause \subseteq Signal
      /\ clock \in Nat /\ begun \in Nat /\ cancel \in BOOLEAN
  BY DEF Inv, TypeOK, Signal
<1>1. CASE UNCHANGED vars
  BY <1>1, SilentStep DEF vars
<1>2. CASE SetCancel
  <2>1. UNCHANGED <<Terminals, Shown>>
    BY <1>2 DEF SetCancel, Terminals, Shown, Kind
  <2> QED BY <1>2, <2>1
          DEF SetCancel, book, Promised!ContractNext, Promised!Cancel
<1>3. CASE EngineProduces
  <2>1. pc = "reading" /\ UNCHANGED <<pc, emitted, cancel, dispatched>> /\ dispatched > 0
    BY <1>0, <1>3 DEF EngineProduces, book, Inv, Counting, Reading
  <2>2. Terminals = {} /\ UNCHANGED <<Terminals, Shown>>
    BY <2>1, GoingIsOpen DEF Reading, Terminals, Shown, Kind
  <2> QED BY <2>1, <2>2 DEF Promised!ContractNext, Promised!Expose, Ended
<1>4. CASE CancelledBeforeAttempt
  <2>1. Len(trace') = Len(trace) + 1 /\ Len(trace) = dispatched
    BY <1>0, <1>4, TraceGrows DEF CancelledBeforeAttempt, Inv, Counting, Retrying
  <2>2. Retrying /\ (unsettled # {} => billability = "PossiblyBillable")
    BY <1>4 DEF CancelledBeforeAttempt, Inv, Charges, Retrying
  <2>3. Accounts("Cancelled", trace', billability)
    BY <1>0, <1>4, <2>1, <2>2 DEF CancelledBeforeAttempt, Accounts
  <2>4. Promised!Answer
    BY <1>4, <2>2, <2>3, TerminalIsAnswer DEF CancelledBeforeAttempt
  <2> QED BY <2>4 DEF Promised!ContractNext
<1>5. CASE StartAttempt
  <2>1. UNCHANGED <<Terminals, Shown, pc \in Ended>> /\ Terminals = {} /\ ~ Shown
    BY <1>5, GoingIsOpen
    DEF StartAttempt, Read, Inv, Position, Retrying, Waiting, Terminals, Shown, Kind, Ended
  <2>2. dispatched < MaxAttempts /\ dispatched' = dispatched + 1 /\ ~ cancel
        /\ UNCHANGED <<cancel, emitted, unsettled>>
    BY <1>0, <1>5 DEF StartAttempt, Inv, Counting, Retrying
  <2> QED BY <1>5, <2>1, <2>2
          DEF StartAttempt, Promised!ContractNext, Promised!Dispatch, Ended
<1>6. CASE TakeStart
  <2>1. pc = "reading" /\ UNCHANGED <<cancel, dispatched, unsettled>>
    BY <1>6, TakeTakes DEF TakeStart, Inv
  <2>2. CASE UNCHANGED emitted
    BY <2>1, <2>2, SilentStep DEF Ended
  <2>3. CASE Yield([kind |-> "start"], "read")
    <3>1. UNCHANGED <<Terminals, Shown>> /\ pc' \notin Ended
      <4>1. [kind |-> "start"] \in Event /\ [kind |-> "start"].kind = "start"
        BY DEF Event
      <4>2. Shown \in BOOLEAN /\ Shown' \in BOOLEAN
        BY DEF Shown
      <4> QED BY <2>3, <4>1, <4>2, OutputIsRead
    <3> QED BY <2>1, <2>3, <3>1, YieldedIsSilent
  <2> QED BY <1>6, <2>2, <2>3 DEF TakeStart
<1>7. CASE TakeNative
  BY <1>7, TakeTakes, SilentStep DEF TakeNative, Inv, Ended
<1>8. CASE TakeSemantic
  <2> DEFINE event == [kind |-> "semantic"]
  <2>1. event \in Event /\ event.kind = "semantic"
    BY DEF Event
  <2> HIDE DEF event
  <2>2. pc = "reading" /\ UNCHANGED <<cancel, dispatched, unsettled>>
        /\ Yield(event, "read")
    BY <1>8, TakeTakes DEF TakeSemantic, Inv, event
  <2>3. Terminals = {} /\ UNCHANGED Terminals /\ Shown' = TRUE /\ pc' \notin Ended
    <3>1. Shown' \in BOOLEAN
      BY DEF Shown
    <3> QED BY <2>1, <2>2, <3>1, GoingIsOpen, OutputIsRead DEF Reading
  <2>4. dispatched > 0
    BY <1>0, <2>2 DEF Inv, Counting, Reading
  <2> QED BY <2>2, <2>3, <2>4 DEF Promised!ContractNext, Promised!Show, Ended
<1>9. CASE TakeTerminal
  <2>1. /\ pc = "reading" /\ UNCHANGED <<cancel, dispatched, unsettled>>
        /\ Taken \in slot /\ Taken.kind = "terminal"
        /\ Taken.arm \in EngineArms /\ Taken.billability \in Billability
    BY <1>9, TakeTakes, TakenItem DEF TakeTerminal, Inv
  <2>2. PICK arm \in SealedArms(Taken.arm) :
            \/ pc' = "closing" /\ then' = "raised" /\ UNCHANGED emitted
            \/ Yield([kind |-> "continuation"], "terminal")
            \/ /\ arm \in EngineArms \cup {"TooLarge"}
               /\ YieldTerminal(Terminal(arm, trace', billability'))
    BY <1>9, TerminalGoesOn DEF Inv
  <2>3. CASE pc' = "closing" /\ then' = "raised" /\ UNCHANGED emitted
    BY <2>1, <2>3, SilentStep DEF Ended
  <2>4. CASE Yield([kind |-> "continuation"], "terminal")
    <3>1. UNCHANGED <<Terminals, Shown>> /\ pc' \notin Ended
      <4>1. [kind |-> "continuation"] \in Event
            /\ [kind |-> "continuation"].kind = "continuation"
        BY DEF Event
      <4>2. Shown \in BOOLEAN /\ Shown' \in BOOLEAN
        BY DEF Shown
      <4> QED BY <2>4, <4>1, <4>2, OutputIsRead
    <3> QED BY <2>1, <2>4, <3>1, YieldedIsSilent
  <2>5. CASE /\ arm \in EngineArms \cup {"TooLarge"}
             /\ YieldTerminal(Terminal(arm, trace', billability'))
    <3>1. Len(trace') = dispatched /\ dispatched > 0
      BY <1>0, <1>9, <2>1, TraceGrows DEF TakeTerminal, Absorbed, Inv, Counting, Reading
    <3>2. billability' = "PossiblyBillable"
      <4>1. Taken.billability = "PossiblyBillable"
        BY <2>1 DEF Inv, Charges
      <4> QED BY <1>0, <1>9, <2>1, <4>1, FoldIsMaximum DEF TakeTerminal
    <3>3. arm # "Cancelled"
      BY <2>5 DEF EngineArms
    <3>4. Accounts(arm, trace', billability')
      BY <1>0, <2>5, <3>1, <3>2, <3>3 DEF Accounts
    <3>5. Promised!Answer
      BY <2>1, <2>5, <3>4, TerminalIsAnswer DEF Reading
    <3> QED BY <3>5 DEF Promised!ContractNext
  <2> QED BY <2>2, <2>3, <2>4, <2>5
<1>10. CASE TakeDefect
  BY <1>10, TakeTakes, SilentStep DEF TakeDefect, Inv, Ended
<1>11. CASE Interrupted
  <2>1. /\ pc = "reading" /\ UNCHANGED <<cancel, dispatched, unsettled>>
        /\ Taken \in slot /\ Taken.kind = "transient"
        /\ Taken.billability \in Billability
    BY <1>11, TakeTakes, TakenItem DEF Interrupted, Inv
  <2>2. Len(trace') = dispatched /\ dispatched > 0
    BY <1>0, <1>11, <2>1, TraceGrows DEF Interrupted, Inv, Counting, Reading
  <2>3. unsettled = {} \/ billability' = "PossiblyBillable"
    BY <1>0, <1>11, <2>1, FoldIsMaximum DEF Interrupted, Inv, Charges, Reading
  <2>4. Accounts("Exhausted", trace', billability')
    BY <1>0, <2>2, <2>3 DEF Accounts
  <2>5. Promised!Answer
    BY <1>11, <2>1, <2>4, TerminalIsAnswer DEF Interrupted, Reading
  <2> QED BY <2>5 DEF Promised!ContractNext
<1>12. CASE TransientFailure
  BY <1>12, TakeTakes, SilentStep DEF TransientFailure, Inv, Ended
<1>13. CASE CancelWins
  <2>1. pc = "reading" /\ UNCHANGED <<emitted, cancel, dispatched>> /\ dispatched > 0
        /\ pc' = "settling"
    BY <1>0, <1>13 DEF CancelWins, book, Inv, Counting, Reading
  <2>2. Terminals = {} /\ UNCHANGED <<Terminals, Shown>>
    BY <2>1, GoingIsOpen DEF Reading, Terminals, Shown, Kind
  <2> QED BY <2>1, <2>2 DEF Promised!ContractNext, Promised!Expose, Ended
<1>14. CASE CancelledMidAttempt
  <2>1. pc = "settling" /\ cancel /\ UNCHANGED <<cancel, dispatched, unsettled>>
    BY <1>14 DEF CancelledMidAttempt, Inv, Position
  <2>2. Len(trace') = dispatched /\ dispatched > 0
    BY <1>0, <1>14, <2>1, TraceGrows DEF CancelledMidAttempt, Inv, Counting, Reading
  <2>3. billability' = "PossiblyBillable"
    BY <1>0, <1>14, FoldIsMaximum DEF CancelledMidAttempt, Billability
  <2>4. Accounts("Cancelled", trace', billability')
    BY <1>0, <2>1, <2>2, <2>3 DEF Accounts
  <2>5. Promised!Answer
    BY <1>14, <2>1, <2>4, TerminalIsAnswer DEF CancelledMidAttempt, Reading
  <2> QED BY <2>5 DEF Promised!ContractNext
<1>15. CASE CloseSource
  <2>1. PICK d \in AttemptTimes : AfterClose(clock')
    BY <1>15 DEF CloseSource
  <2>2. pc = "closing" /\ UNCHANGED <<cancel, dispatched, unsettled, billability>>
    BY <1>15 DEF CloseSource
  <2>3. CASE then = "retry" /\ pc' = "sleeping" /\ UNCHANGED emitted
    BY <2>2, <2>3, SilentStep DEF Ended
  <2>4. CASE then = "retry" /\ trace' = Exhausted(trace)
             /\ YieldTerminal(Terminal("Exhausted", trace', billability))
    <3>1. Retrying
      BY <2>2, <2>4 DEF Retrying
    <3>2. Len(trace') = dispatched /\ dispatched > 0
      BY <1>0, <2>2, <2>4, <3>1, ExhaustedTrace DEF Inv, Counting
    <3>3. unsettled = {} \/ billability = "PossiblyBillable"
      BY <3>1 DEF Inv, Charges
    <3>4. Accounts("Exhausted", trace', billability)
      BY <1>0, <2>2, <3>2, <3>3 DEF Accounts
    <3>5. Promised!Answer
      BY <2>2, <2>4, <3>1, <3>4, TerminalIsAnswer
    <3> QED BY <3>5 DEF Promised!ContractNext
  <2>5. CASE then \in Ended /\ pc' = then /\ UNCHANGED emitted
    BY <2>2, <2>5, SilentStep DEF Ended
  <2> QED BY <2>1, <2>3, <2>4, <2>5 DEF AfterClose
<1>16. CASE CloseRunningSource
  BY <1>16, SilentStep DEF CloseRunningSource, book, Ended
<1>17. CASE SleepEnds
  BY <1>17, SilentStep DEF SleepEnds, book, Ended
<1>18. CASE Pull
  <2>1. pc = "yielded" /\ UNCHANGED <<cancel, dispatched, unsettled, trace, billability>>
    BY <1>18 DEF Pull, book
  <2>2. CASE UNCHANGED emitted
    BY <2>1, <2>2, SilentStep DEF Ended
  <2>3. CASE then = "terminal" /\ \E outcome \in held : YieldTerminal(outcome)
    <3>1. Waiting
      BY <2>1, <2>3 DEF Waiting
    <3>2. YieldTerminal(Terminal("Succeeded", trace, billability))
      BY <2>3, <3>1 DEF Inv, Counting
    <3>3. Len(trace) = dispatched /\ dispatched > 0
          /\ (unsettled # {} => billability = "PossiblyBillable")
      BY <1>0, <3>1 DEF Inv, Counting, Charges
    <3>4. Accounts("Succeeded", trace, billability)
      BY <1>0, <3>3 DEF Accounts, EngineArms
    <3>5. Promised!Answer
      BY <2>1, <3>1, <3>2, <3>4, TerminalIsAnswer
    <3> QED BY <3>5 DEF Promised!ContractNext
  <2> QED BY <1>18, <2>2, <2>3 DEF Pull
<1>19. CASE Abandon
  BY <1>19, SilentStep DEF Abandon, book, Ended
<1>20. CASE Abort
  BY <1>20, SilentStep DEF Abort, book, Ended
<1>21. CASE AbortWhileSettling
  BY <1>21, SilentStep DEF AbortWhileSettling, book, Ended
<1>22. CASE Stop
  BY <1>22, SilentStep DEF Stop, vars
<1> QED
  BY <1>1, <1>2, <1>3, <1>4, <1>5, <1>6, <1>7, <1>8, <1>9, <1>10, <1>11, <1>12,
     <1>13, <1>14, <1>15, <1>16, <1>17, <1>18, <1>19, <1>20, <1>21, <1>22
  DEF Next, Generator

\* A stream implements the contract of a provider call: what it showed, what it
\* dispatched after the signal or after output, and what its terminal says of
\* attempts and charges (runtime.py, _stream_events).
THEOREM ContractIsImplemented == Spec => ImplementsContract
<1>1. Init => Promised!ContractInit
  BY DEF Init, Promised!ContractInit, Terminals, Shown, Ended
<1> QED BY <1>1, StepImplements, Invariance, PTL
        DEF Spec, ImplementsContract, Promised!Contract
=============================================================================
