-------------------------- MODULE CodexClientProofs --------------------------
(***************************************************************************)
(* Theorems about CodexClient, for any number of requests and frames and   *)
(* every bound of the queue, and about CodexTurn, whose turns it carries:  *)
(* what the evidence of a turn proves, whoever settles it, for every       *)
(* server, any number of messages and any deadline.                        *)
(***************************************************************************)
EXTENDS CodexClient, CodexTurn, FiniteSetTheorems, TLAPS

USE ClientAssumption

(***************************************************************************)
(* The inductive invariant.                                                *)
(***************************************************************************)
Typed ==
    /\ failure \in Causes /\ thread \in BOOLEAN
    /\ task \in [Writers -> {"idle", "reading", "locking", "sending", "waiting",
                             "closing", "done"}]
    /\ outcome \in [Requests -> {"none", "value", "raised"}]
    /\ future \in [Requests -> {"open", "value", "rejected"} \cup Causes]
    /\ pending \subseteq Requests /\ owed \subseteq Requests
    /\ abandoned \subseteq Requests
    /\ inbox \in Seq({Message, Failure}) /\ foreign \in Nat
    /\ told \in Nat /\ shown \in Nat

\* A caller whose future is open can still be found by the response, or by the
\* failure: it is pending.
Tracked ==
    /\ Failed => pending = {}
    /\ \A r \in Requests :
         task[r] \in {"sending", "waiting"} /\ future[r] = "open" => r \in pending

\* The server owes answers only to requests that are pending or that were given
\* up inside the writer, as long as the connection lives.
Correlated ==
    /\ \A r \in Requests : task[r] \in {"idle", "locking"} => r \notin owed
    /\ ~ Failed =>
         /\ owed \subseteq pending \cup abandoned
         /\ \A r \in Requests : task[r] = "locking" => r \in pending

\* The thread is known before the caller that opened it hears so.
Selected ==
    /\ future[Opening] = "value" => thread
    /\ outcome[Opening] = "value" => thread /\ foreign = 0

\* The failure is queued behind the messages that are still due.
InOrder ==
    /\ ~ Failed =>
         /\ consumer # "raised"
         /\ shown + Len(inbox) = told
         /\ \A i \in 1 .. Len(inbox) : inbox[i] = Message
    /\ Failed /\ consumer # "raised" =>
         /\ shown <= told /\ told - shown < Len(inbox)
         /\ inbox[told - shown + 1] = Failure
         /\ \A i \in 1 .. told - shown : inbox[i] = Message
    /\ consumer = "raised" => shown = told

Inv ==
    /\ Typed /\ ReaderNeverSilent /\ Tracked /\ LateAnswersKept /\ Correlated
    /\ Selected /\ InOrder

\* __init__: nothing is pending, owed or queued.
LEMMA Initially == Init => Inv
<1> SUFFICES ASSUME Init PROVE Inv
  OBVIOUS
<1>1. Typed
  <2>1. inbox \in Seq({Message, Failure})
    BY DEF Init
  <2> QED BY <2>1 DEF Init, Typed, Causes, Writers
<1>2. ReaderNeverSilent /\ Tracked /\ LateAnswersKept /\ Correlated
  BY DEF Init, ReaderNeverSilent, Tracked, LateAnswersKept, Correlated, Failed, Writers
<1>3. Selected /\ InOrder
  BY DEF Init, Selected, InOrder, Failed
<1> QED BY <1>1, <1>2, <1>3 DEF Inv
-----------------------------------------------------------------------------
\* _fail tells everybody: the callers, by their futures, and the consumer, by
\* the last item of its queue.
LEMMA Failing ==
    ASSUME Inv, NEW why \in Causes \ {"none"}, Fail(why)
    PROVE  /\ Failed' /\ failure' \in Causes
           /\ pending' = {}
           /\ future' \in [Requests -> {"open", "value", "rejected"} \cup Causes]
           /\ \A r \in Requests : future'[r] = future[r] \/ r \in pending
           /\ \A r \in pending : future'[r] = why \/ Failed
           /\ inbox' \in Seq({Message, Failure})
           /\ failure' = IF Failed THEN failure ELSE why
<1>1. CASE Failed
  BY <1>1 DEF Inv, Typed, Tracked, Fail, FailFrom, Failed
<1>2. CASE ~ Failed
  BY <1>2 DEF Inv, Typed, Tracked, Fail, FailFrom, Failed, Causes, Defects, Message,
              Failure
<1> QED BY <1>1, <1>2

\* The failure comes behind the messages that the consumer still waits for.
LEMMA FailingInOrder ==
    ASSUME Inv, NEW why \in Causes \ {"none"}, Fail(why),
           UNCHANGED <<told, shown, consumer>>
    PROVE  InOrder'
<1>1. CASE Failed
  BY <1>1 DEF Inv, InOrder, Fail, FailFrom, Failed
<1>2. CASE ~ Failed
  <2>1. inbox' = Append(inbox, Failure) /\ Failed' /\ Len(inbox') = Len(inbox) + 1
    BY <1>2 DEF Inv, Typed, Fail, FailFrom, Failed, Causes, Message, Failure
  <2>2. told' - shown' = Len(inbox)
    BY <1>2 DEF Inv, InOrder, Typed
  <2> QED BY <1>2, <2>1, <2>2 DEF Inv, InOrder, Typed, Message, Failure
<1> QED BY <1>1, <1>2

-----------------------------------------------------------------------------
\* request(), until the request is sent, or refused.
LEMMA RequestKeeps ==
    ASSUME Inv, NEW r \in Requests, Request(r)
    PROVE  Inv'
<1> USE DEF Request, Ends, At, messages, hosts, Failed
<1>1. Typed'
  BY DEF Inv, Typed, Writers
<1>2. ReaderNeverSilent'
  BY DEF Inv, Typed, Writers, ReaderNeverSilent
<1>3. Tracked' /\ LateAnswersKept'
  BY DEF Inv, Typed, Writers, Tracked, LateAnswersKept
<1>4. Correlated'
  BY DEF Inv, Typed, Writers, Correlated, Tracked
<1>5. Selected'
  BY DEF Inv, Typed, Selected
<1>6. InOrder'
  BY DEF Inv, InOrder
<1> QED BY <1>1, <1>2, <1>3, <1>4, <1>5, <1>6 DEF Inv

\* _write refuses a connection that failed while the lock was awaited.
LEMMA AcquiresKeeps ==
    ASSUME Inv, NEW w \in Writers, Acquires(w)
    PROVE  Inv'
<1> USE DEF Acquires, ReaderRaises, Ends, At, messages, hosts, Failed
<1>1. Typed'
  BY DEF Inv, Typed, Writers
<1>2. ReaderNeverSilent'
  BY DEF Inv, Typed, Writers, ReaderNeverSilent
<1>3. Tracked' /\ LateAnswersKept'
  BY DEF Inv, Typed, Writers, Tracked, LateAnswersKept, Correlated
<1>4. Correlated'
  BY DEF Inv, Typed, Writers, Correlated, Tracked
<1>5. Selected'
  BY DEF Inv, Typed, Selected, Writers
<1>6. InOrder'
  BY DEF Inv, InOrder
<1> QED BY <1>1, <1>2, <1>3, <1>4, <1>5, <1>6 DEF Inv

\* The request is in the server's hands.
LEMMA SentKeeps ==
    ASSUME Inv, NEW r \in Requests, Sent(r)
    PROVE  Inv'
<1> USE DEF Sent, At, messages, hosts, correlation, Failed
<1>1. Typed' /\ ReaderNeverSilent'
  BY DEF Inv, Typed, Writers, ReaderNeverSilent
<1>2. Tracked' /\ LateAnswersKept' /\ Correlated'
  BY DEF Inv, Typed, Writers, Tracked, LateAnswersKept, Correlated
<1>3. Selected' /\ InOrder'
  BY DEF Inv, Selected, InOrder
<1> QED BY <1>1, <1>2, <1>3 DEF Inv

\* A failed send fails the connection: nobody is pending any more.
LEMMA SendFailsKeeps ==
    ASSUME Inv, NEW w \in Writers, SendFails(w)
    PROVE  Inv'
<1> USE DEF SendFails, Ends, At, hosts
<1>1. Fail("unavailable") /\ "unavailable" \in Causes \ {"none"}
  BY DEF Causes
<1>2. /\ Failed' /\ failure' \in Causes /\ pending' = {}
      /\ future' \in [Requests -> {"open", "value", "rejected"} \cup Causes]
      /\ \A r \in Requests : future'[r] = future[r] \/ r \in pending
      /\ \A r \in pending : future'[r] = "unavailable" \/ Failed
      /\ inbox' \in Seq({Message, Failure})
      /\ failure' = IF Failed THEN failure ELSE "unavailable"
  BY <1>1, Failing
<1>3. Typed' /\ ReaderNeverSilent'
  BY <1>2 DEF Inv, Typed, Writers, ReaderNeverSilent
<1>4. Tracked' /\ LateAnswersKept' /\ Correlated'
  BY <1>2 DEF Inv, Typed, Writers, Tracked, LateAnswersKept, Correlated, Failed
<1>5. Selected'
  BY <1>2 DEF Inv, Typed, Writers, Selected, Tracked, Failed
<1>6. InOrder'
  BY <1>1, FailingInOrder
<1> QED BY <1>3, <1>4, <1>5, <1>6 DEF Inv

\* A request given up while it is written leaves pending with its caller.
LEMMA GivesUpKeeps ==
    ASSUME Inv, NEW r \in Requests, GivesUp(r)
    PROVE  Inv'
<1> USE DEF GivesUp, GivesUpWriting, GivesUpWaiting, Ends, At, messages, hosts, Failed
<1>1. Typed' /\ ReaderNeverSilent'
  BY DEF Inv, Typed, Writers, ReaderNeverSilent
<1>2. Tracked' /\ LateAnswersKept'
  BY DEF Inv, Typed, Writers, Tracked, LateAnswersKept
<1>3. Correlated'
  BY DEF Inv, Typed, Writers, Correlated
<1>4. Selected' /\ InOrder'
  BY DEF Inv, Typed, Selected, InOrder
<1> QED BY <1>1, <1>2, <1>3, <1>4 DEF Inv

\* The caller of the request that opens the thread drops what others had sent.
LEMMA ReturnsKeeps ==
    ASSUME Inv, NEW r \in Requests, Returns(r)
    PROVE  Inv'
<1> USE DEF Returns, SelectsThread, Ends, At, hosts, Failed
<1>1. Typed' /\ ReaderNeverSilent'
  BY DEF Inv, Typed, Writers, ReaderNeverSilent
<1>2. Tracked' /\ LateAnswersKept' /\ Correlated'
  BY DEF Inv, Typed, Writers, Tracked, LateAnswersKept, Correlated
<1>3. Selected' /\ InOrder'
  BY DEF Inv, Typed, Selected, InOrder
<1> QED BY <1>1, <1>2, <1>3 DEF Inv
-----------------------------------------------------------------------------
\* The reader fails the connection with a defect; an answer may be used up.
LEMMA ReaderFailing ==
    ASSUME Inv, NEW why \in Defects, ReaderFails(why),
           why = "uncorrelated" /\ ~ Failed => abandoned # {}, owed' \subseteq owed,
           UNCHANGED <<thread, outcome, abandoned, foreign, told, shown, consumer>>
    PROVE  Inv'
<1> USE DEF ReaderFails, At
<1>1. Fail(why) /\ why \in Causes \ {"none"}
  BY DEF Causes, Defects
<1>2. /\ Failed' /\ failure' \in Causes /\ pending' = {}
      /\ future' \in [Requests -> {"open", "value", "rejected"} \cup Causes]
      /\ \A r \in Requests : future'[r] = future[r] \/ r \in pending
      /\ \A r \in pending : future'[r] = why \/ Failed
      /\ inbox' \in Seq({Message, Failure})
      /\ failure' = IF Failed THEN failure ELSE why
  BY <1>1, Failing
<1>3. Typed' /\ ReaderNeverSilent'
  BY <1>2 DEF Inv, Typed, Writers, ReaderNeverSilent
<1>4. Tracked' /\ Correlated'
  BY <1>2 DEF Inv, Typed, Writers, Tracked, Correlated, Failed, Defects
<1>5. LateAnswersKept' /\ Selected'
  BY <1>2 DEF Inv, Typed, Writers, LateAnswersKept, Selected, Tracked, Failed, Defects
<1>6. InOrder'
  BY <1>1, FailingInOrder
<1> QED BY <1>3, <1>4, <1>5, <1>6 DEF Inv

\* _enqueue appends one message that is due, counts a foreign one, or fails.
LEMMA Enqueuing ==
    ASSUME Inv, NEW own \in BOOLEAN, Enqueue(own), thread => own,
           task[Reader] \in {"reading", "sending"},
           UNCHANGED <<thread, outcome, owed, abandoned, shown, consumer>>
    PROVE  Inv'
<1>1. CASE Queued >= QueueLimit
  <2>1. ReaderFails("overflow") /\ UNCHANGED <<foreign, told>>
    BY <1>1 DEF Enqueue
  <2> QED BY <2>1, ReaderFailing DEF Defects
<1>2. CASE ~ (Queued >= QueueLimit)
  <2>1. /\ inbox' = IF own THEN Append(inbox, Message) ELSE inbox
        /\ foreign' = IF own THEN foreign ELSE foreign + 1
        /\ told' = IF own /\ ~ Failed THEN told + 1 ELSE told
        /\ task' = [task EXCEPT ![Reader] = "reading"]
        /\ UNCHANGED <<failure, future, pending>>
    BY <1>2 DEF Enqueue, Told, At
  <2>2. Typed'
    BY <2>1 DEF Inv, Typed, Writers, Message, Failure
  <2>3. ReaderNeverSilent' /\ Tracked' /\ LateAnswersKept' /\ Correlated'
    BY <2>1 DEF Inv, Typed, Writers, ReaderNeverSilent, Tracked, LateAnswersKept,
                Correlated, Failed
  <2>4. Selected'
    BY <2>1 DEF Inv, Selected
  <2>5. InOrder'
    <3>1. CASE own
      <4>1. inbox' = Append(inbox, Message) /\ Len(inbox') = Len(inbox) + 1
        BY <2>1, <3>1 DEF Inv, Typed
      <4> QED BY <2>1, <3>1, <4>1 DEF Inv, Typed, InOrder, Failed, Message, Failure
    <3>2. CASE ~ own
      BY <2>1, <3>2 DEF Inv, InOrder, Failed
    <3> QED BY <3>1, <3>2
  <2> QED BY <2>2, <2>3, <2>4, <2>5 DEF Inv
<1> QED BY <1>1, <1>2

\* _route_response: an answer nobody waits for fails the connection, and only
\* a request given up inside the writer leaves one behind.
LEMMA AnswersKeeps ==
    ASSUME Inv, NEW r \in Requests, Answers(r)
    PROVE  Inv'
<1> USE DEF Answers, Reads, hosts
<1>1. CASE r \notin pending
  <2>1. ReaderFails("uncorrelated")
    BY <1>1
  <2>2. ~ Failed => abandoned # {}
    BY <1>1 DEF Inv, Correlated, Typed
  <2> QED BY <2>1, <2>2, <1>1, ReaderFailing DEF Defects
<1>2. CASE r \in pending
  <2>1. PICK answer \in {"value", "rejected"} :
            /\ future' = [future EXCEPT ![r] = answer]
            /\ thread' = (thread \/ (r = Opening /\ answer = "value"))
    BY <1>2
  <2>2. ~ Failed
    BY <1>2 DEF Inv, Tracked
  <2>3. Typed' /\ ReaderNeverSilent'
    BY <1>2, <2>1 DEF Inv, Typed, ReaderNeverSilent, Failed
  <2>4. Tracked' /\ LateAnswersKept' /\ Correlated'
    BY <1>2, <2>1, <2>2 DEF Inv, Typed, Tracked, LateAnswersKept, Correlated, Failed
  <2>5. Selected' /\ InOrder'
    BY <1>2, <2>1 DEF Inv, Typed, Selected, InOrder, Failed
  <2> QED BY <2>3, <2>4, <2>5 DEF Inv
<1> QED BY <1>1, <1>2

\* The other frames that the server may send of itself.
LEMMA FramesKeep ==
    ASSUME Inv, Notifies \/ Garbles \/ Asks
    PROVE  Inv'
<1>1. CASE Notifies
  <2>1. PICK own \in BOOLEAN : (thread => own) /\ Enqueue(own)
    BY <1>1 DEF Notifies
  <2> QED BY <1>1, <2>1, Enqueuing DEF Notifies, Reads, hosts
<1>2. CASE Garbles
  BY <1>2, ReaderFailing DEF Garbles, hosts, Defects
<1>3. CASE Asks
  <2> USE <1>3 DEF Asks, Reads, ReaderRaises, At, hosts, correlation, Failed
  <2>1. Typed' /\ ReaderNeverSilent'
    BY DEF Inv, Typed, Writers, ReaderNeverSilent
  <2>2. Tracked' /\ LateAnswersKept' /\ Correlated'
    BY DEF Inv, Typed, Writers, Tracked, LateAnswersKept, Correlated
  <2>3. Selected' /\ InOrder'
    BY DEF Inv, Selected, InOrder
  <2> QED BY <2>1, <2>2, <2>3 DEF Inv
<1> QED BY <1>1, <1>2, <1>3

\* What the reader does once its denial is written.
LEMMA DeniedKeeps ==
    ASSUME Inv, Denied
    PROVE  Inv'
<1>0. /\ UNCHANGED <<outcome, owed, abandoned, thread, shown, consumer>>
      /\ task[Reader] = "sending" /\ thread' = thread
      /\ \/ Enqueue(TRUE)
         \/ ReaderFails("authority") /\ UNCHANGED <<foreign, told>>
         \/ ShowsThenFails
  BY DEF Denied, hosts
<1>1. CASE Enqueue(TRUE)
  BY <1>0, <1>1, Enqueuing
<1>2. CASE ReaderFails("authority") /\ UNCHANGED <<foreign, told>>
  BY <1>0, <1>2, ReaderFailing DEF Defects
<1>3. CASE ShowsThenFails /\ ~ (Queued >= QueueLimit)
  <2>1. /\ FailFrom("authority", Append(inbox, Message))
        /\ told' = IF ~ Failed THEN told + 1 ELSE told
        /\ task' = [task EXCEPT ![Reader] = "closing"]
        /\ foreign' = foreign
    BY <1>0, <1>3 DEF ShowsThenFails, Told, At
  <2> DEFINE longer == Append(inbox, Message)
  <2>2. /\ longer \in Seq({Message, Failure}) /\ Len(longer) = Len(inbox) + 1
        /\ longer[Len(inbox) + 1] = Message
        /\ \A i \in 1 .. Len(inbox) : longer[i] = inbox[i]
    BY DEF Inv, Typed
  <2> HIDE DEF longer
  <2>3. CASE Failed
    <3>1. inbox' = longer /\ UNCHANGED <<failure, future, pending, told>>
      BY <1>0, <2>1, <2>3 DEF FailFrom, longer
    <3>2. Typed' /\ ReaderNeverSilent'
      BY <1>0, <2>1, <2>2, <2>3, <3>1 DEF Inv, Typed, Writers, ReaderNeverSilent, Failed
    <3>3. Tracked' /\ LateAnswersKept' /\ Correlated'
      BY <1>0, <2>1, <2>3, <3>1 DEF Inv, Typed, Writers, Tracked, LateAnswersKept,
                              Correlated, Failed
    <3>4. Selected'
      BY <1>0, <2>1, <3>1 DEF Inv, Selected
    <3>5. InOrder'
      BY SMTT(30), <1>0, <2>2, <2>3, <3>1 DEF Inv, Typed, InOrder, Failed
    <3> QED BY <3>2, <3>3, <3>4, <3>5 DEF Inv
  <2>4. CASE ~ Failed
    <3>1. /\ failure' = "authority" /\ pending' = {} /\ told' = told + 1
          /\ future' = [r \in Requests |-> IF r \in pending THEN "authority"
                                            ELSE future[r]]
          /\ inbox' = Append(longer, Failure)
      BY <1>0, <2>1, <2>4 DEF FailFrom, longer
    <3>2. /\ inbox' \in Seq({Message, Failure}) /\ Len(inbox') = Len(inbox) + 2
          /\ inbox'[Len(inbox) + 2] = Failure
          /\ \A i \in 1 .. Len(inbox) + 1 : inbox'[i] = longer[i]
      BY <1>0, <2>2, <3>1, Len(longer) = Len(inbox) + 1 DEF Inv, Typed
    <3>3. Typed' /\ ReaderNeverSilent'
      BY <1>0, <2>1, <3>1, <3>2 DEF Inv, Typed, Writers, ReaderNeverSilent, Failed, Causes,
                              Defects
    <3>4. Tracked' /\ LateAnswersKept' /\ Correlated'
      BY <1>0, <2>1, <2>4, <3>1 DEF Inv, Typed, Writers, Tracked, LateAnswersKept,
                              Correlated, Failed
    <3>5. Selected'
      BY <1>0, <2>1, <3>1 DEF Inv, Typed, Selected
    <3>6. InOrder'
      <4>1. Failed' /\ told' - shown' = Len(inbox) + 1
        BY <1>0, <3>1, <2>4 DEF Inv, Typed, InOrder, Failed
      <4>2. \A i \in 1 .. Len(inbox) + 1 : inbox'[i] = Message
        <5> SUFFICES ASSUME NEW i \in 1 .. Len(inbox) + 1 PROVE inbox'[i] = Message
          OBVIOUS
        <5>1. Len(inbox) \in Nat
          BY DEF Inv, Typed
        <5>2. CASE i = Len(inbox) + 1
          BY <1>0, <2>2, <3>2, <5>1, <5>2
        <5>3. CASE i \in 1 .. Len(inbox)
          BY <1>0, <2>2, <3>2, <2>4, <5>1, <5>3 DEF Inv, InOrder
        <5> QED BY <5>1, <5>2, <5>3
      <4> QED BY <1>0, <4>1, <4>2, <3>1, <3>2, <2>4 DEF Inv, Typed, InOrder
    <3> QED BY <3>3, <3>4, <3>5, <3>6 DEF Inv
  <2> QED BY <2>3, <2>4
<1>4. CASE ShowsThenFails /\ Queued >= QueueLimit
  BY <1>0, <1>4, ReaderFailing DEF ShowsThenFails, Defects
<1> QED BY <1>0, <1>1, <1>2, <1>3, <1>4

\* The reader's end, the close of its connection, and the link's loss.
LEMMA EndKeeps ==
    ASSUME Inv, HearsEnd \/ ReaderCloses \/ Drops
    PROVE  Inv'
<1>1. CASE HearsEnd
  <2> USE <1>1 DEF HearsEnd, At, hosts
  <2>1. Fail("unavailable") /\ "unavailable" \in Causes \ {"none"}
    BY DEF Causes
  <2>2. /\ Failed' /\ failure' \in Causes /\ pending' = {}
        /\ future' \in [Requests -> {"open", "value", "rejected"} \cup Causes]
        /\ \A r \in Requests : future'[r] = future[r] \/ r \in pending
        /\ \A r \in pending : future'[r] = "unavailable" \/ Failed
        /\ inbox' \in Seq({Message, Failure})
        /\ failure' = IF Failed THEN failure ELSE "unavailable"
    BY <2>1, Failing
  <2>3. Typed' /\ ReaderNeverSilent'
    BY <2>2 DEF Inv, Typed, Writers, ReaderNeverSilent
  <2>4. Tracked' /\ LateAnswersKept' /\ Correlated'
    BY <2>2 DEF Inv, Typed, Writers, Tracked, LateAnswersKept, Correlated, Failed
  <2>5. Selected'
    BY <2>2 DEF Inv, Typed, Selected, Tracked, Failed
  <2>6. InOrder'
    BY <2>1, FailingInOrder
  <2> QED BY <2>3, <2>4, <2>5, <2>6 DEF Inv
<1>2. CASE ReaderCloses \/ Drops
  <2> USE <1>2 DEF ReaderCloses, Drops, At, correlation, messages, hosts, Failed
  <2>1. Typed' /\ ReaderNeverSilent'
    BY DEF Inv, Typed, Writers, ReaderNeverSilent
  <2>2. Tracked' /\ LateAnswersKept' /\ Correlated'
    BY DEF Inv, Typed, Writers, Tracked, LateAnswersKept, Correlated
  <2>3. Selected' /\ InOrder'
    BY DEF Inv, Selected, InOrder
  <2> QED BY <2>1, <2>2, <2>3 DEF Inv
<1> QED BY <1>1, <1>2

-----------------------------------------------------------------------------
\* What the consumer takes from the head of its queue.
LEMMA Getting ==
    ASSUME Inv, inbox # <<>>, consumer # "raised", Gets, inbox' = Tail(inbox),
           UNCHANGED <<failure, told>>
    PROVE  InOrder' /\ inbox' \in Seq({Message, Failure}) /\ shown' \in Nat
<1>1. /\ inbox' \in Seq({Message, Failure}) /\ Len(inbox') = Len(inbox) - 1
      /\ Len(inbox) \in Nat \ {0} /\ Head(inbox) = inbox[1]
      /\ \A i \in 1 .. Len(inbox) - 1 : inbox'[i] = inbox[i + 1]
  BY DEF Inv, Typed
<1>2. told \in Nat /\ shown \in Nat /\ Message # Failure
  BY DEF Inv, Typed, Message, Failure
<1>3. CASE inbox[1] = Failure
  <2>1. consumer' = "raised" /\ shown' = shown
    BY <1>1, <1>3 DEF Gets
  <2>2. Failed
    BY <1>1, <1>2, <1>3 DEF Inv, InOrder
  <2>3. told = shown
    BY <1>1, <1>2, <1>3, <2>2 DEF Inv, InOrder
  <2> QED BY <1>1, <1>2, <2>1, <2>2, <2>3 DEF InOrder, Failed
<1>4. CASE inbox[1] # Failure
  <2>1. consumer' = "idle" /\ shown' = shown + 1
    BY <1>1, <1>4 DEF Gets
  <2>2. CASE Failed
    <3>1. told - shown >= 1
      BY <1>1, <1>2, <1>4, <2>2 DEF Inv, InOrder
    <3>2. told - shown' = told - shown - 1
      BY <1>2, <2>1
    <3>3. inbox'[told - shown' + 1] = Failure /\ told - shown' < Len(inbox')
      BY <1>1, <1>2, <2>2, <3>1, <3>2 DEF Inv, InOrder
    <3>4. \A i \in 1 .. told - shown' : inbox'[i] = Message
      BY <1>1, <1>2, <2>2, <3>1, <3>2 DEF Inv, InOrder
    <3> QED BY <1>1, <1>2, <2>1, <2>2, <3>1, <3>3, <3>4 DEF InOrder, Failed
  <2>3. CASE ~ Failed
    BY <1>1, <1>2, <2>1, <2>3 DEF Inv, InOrder, Failed
  <2> QED BY <2>2, <2>3
<1> QED BY <1>3, <1>4

\* next_message()
LEMMA ConsumerKeeps ==
    ASSUME Inv, Pulls \/ Wakes
    PROVE  Inv'
<1> USE DEF Pulls, Wakes, correlation
<1>1. InOrder' /\ inbox' \in Seq({Message, Failure}) /\ shown' \in Nat
  <2>1. CASE inbox # <<>>
    BY <2>1, Getting
  <2>2. CASE inbox = <<>>
    <3>1. Len(inbox) = 0 /\ UNCHANGED <<shown, inbox, told, failure>>
      BY <2>2
    <3>2. ~ Failed
      BY <3>1, <2>2 DEF Inv, Typed, InOrder
    <3> QED BY <3>1, <3>2, <2>2 DEF Inv, Typed, InOrder, Failed
  <2> QED BY <2>1, <2>2
<1>2. Typed' /\ ReaderNeverSilent'
  BY <1>1 DEF Inv, Typed, ReaderNeverSilent, Failed
<1>3. Tracked' /\ LateAnswersKept' /\ Correlated' /\ Selected'
  BY DEF Inv, Tracked, LateAnswersKept, Correlated, Selected, Failed
<1> QED BY <1>1, <1>2, <1>3 DEF Inv

\* close(), whose task fails the connection first and forgets what is pending last.
LEMMA ClosingKeeps ==
    ASSUME Inv, Close \/ Closer
    PROVE  Inv'
<1>1. CASE CloserBegins
  <2> USE <1>1 DEF CloserBegins
  <2>1. Fail("unavailable") /\ "unavailable" \in Causes \ {"none"}
    BY DEF Causes
  <2>2. /\ Failed' /\ failure' \in Causes /\ pending' = {}
        /\ future' \in [Requests -> {"open", "value", "rejected"} \cup Causes]
        /\ \A r \in Requests : future'[r] = future[r] \/ r \in pending
        /\ \A r \in pending : future'[r] = "unavailable" \/ Failed
        /\ inbox' \in Seq({Message, Failure})
        /\ failure' = IF Failed THEN failure ELSE "unavailable"
    BY <2>1, Failing
  <2>3. Typed' /\ ReaderNeverSilent'
    BY <2>2 DEF Inv, Typed, ReaderNeverSilent
  <2>4. Tracked' /\ LateAnswersKept' /\ Correlated'
    BY <2>2 DEF Inv, Typed, Tracked, LateAnswersKept, Correlated, Failed
  <2>5. Selected'
    BY <2>2 DEF Inv, Typed, Selected, Tracked, Failed
  <2>6. InOrder'
    BY <2>1, FailingInOrder
  <2> QED BY <2>3, <2>4, <2>5, <2>6 DEF Inv
<1>2. CASE Close \/ CloserCloses
  BY <1>2 DEF Close, CloserCloses, correlation, messages, Inv, Typed, ReaderNeverSilent,
              Tracked, LateAnswersKept, Correlated, Selected, InOrder, Failed
<1>3. CASE CloserEnds
  <2> USE <1>3 DEF CloserEnds, messages
  <2>1. Failed /\ pending = {}
    BY DEF Inv, ReaderNeverSilent, Tracked
  <2>2. future' = future /\ pending' = pending
    BY <2>1 DEF Inv, Typed
  <2> QED BY <2>2 DEF Inv, Typed, ReaderNeverSilent, Tracked, LateAnswersKept,
                      Correlated, Selected, InOrder, Failed
<1> QED BY <1>1, <1>2, <1>3 DEF Closer
-----------------------------------------------------------------------------
\* The invariant holds in every reachable state: one lemma per group of actions.
THEOREM Invariance == Spec => []Inv
<1>1. Inv /\ [Next]_vars => Inv'
  <2> SUFFICES ASSUME Inv, [Next]_vars PROVE Inv'
    OBVIOUS
  <2>1. ASSUME NEW r \in Requests, Request(r) \/ Caller(r) \/ Sent(r) \/ GivesUp(r)
        PROVE  Inv'
    <3>1. r \in Writers
      BY DEF Writers
    <3> QED BY <2>1, <3>1, RequestKeeps, AcquiresKeeps, SendFailsKeeps, ReturnsKeeps,
               SentKeeps, GivesUpKeeps DEF Caller
  <2>2. CASE ReaderRuns
    BY <2>2, AcquiresKeeps, SendFailsKeeps, EndKeeps DEF ReaderRuns, Writers
  <2>3. CASE Server
    BY <2>3, AnswersKeeps, FramesKeep DEF Server
  <2>4. CASE Rest \/ UNCHANGED vars
    BY <2>4 DEF Rest, vars, correlation, messages, hosts, Inv, Typed, ReaderNeverSilent,
                Tracked, LateAnswersKept, Correlated, Selected, InOrder, Failed
  <2> QED BY <2>1, <2>2, <2>3, <2>4, DeniedKeeps, EndKeeps, ConsumerKeeps, ClosingKeeps
          DEF Next
<1> QED BY <1>1, Initially, PTL DEF Spec

\* The reader task never leaves a connection that looks alive (_reader_loop).
THEOREM ReaderIsHeard == Spec => []ReaderNeverSilent
<1>1. Inv => ReaderNeverSilent
  BY DEF Inv
<1> QED BY <1>1, Invariance, PTL

\* A failed connection keeps no caller and no consumer waiting (_fail).
THEOREM FailureIsShared == Spec => []FailureReleases
<1>1. Inv => FailureReleases
  <2> SUFFICES ASSUME Inv, Failed PROVE FailureReleases
    BY DEF FailureReleases
  <2>1. pending = {} /\ \A r \in Requests : task[r] = "waiting" => future[r] # "open"
    BY DEF Inv, Tracked
  <2>2. consumer = "waiting" => inbox # <<>>
    <3>1. inbox = <<>> => Len(inbox) = 0
      OBVIOUS
    <3> QED BY <3>1 DEF Inv, Typed, InOrder
  <2> QED BY <2>1, <2>2 DEF FailureReleases
<1> QED BY <1>1, Invariance, PTL

\* No message that came before the failure is lost to it (next_message).
THEOREM NothingIsLost == Spec => []FailureComesLast
<1>1. Inv => FailureComesLast
  BY DEF Inv, InOrder, FailureComesLast
<1> QED BY <1>1, Invariance, PTL

\* Other threads' messages are gone once the caller knows its own (_select_thread).
THEOREM ThreadsStayApart == Spec => []OwnThreadOnly
<1>1. Inv => OwnThreadOnly
  BY DEF Inv, Selected, OwnThreadOnly
<1> QED BY <1>1, Invariance, PTL

\* Only a request given up inside the writer costs the connection (_route_response).
THEOREM LatenessIsForgiven == Spec => []LateAnswersKept
<1>1. Inv => LateAnswersKept
  BY DEF Inv
<1> QED BY <1>1, Invariance, PTL
-----------------------------------------------------------------------------
(***************************************************************************)
(* The write lock, and the bounds of the queue and of the pending ids.     *)
(***************************************************************************)
Writing == {"locking", "sending"}

\* Each writer stands at one place of the lock.
Locked ==
    /\ lock \in Seq(Writers)
    /\ \A i, j \in DOMAIN lock : lock[i] = lock[j] => i = j
    /\ WritersTakeTurns

\* A queue at its limit takes one item more: the failure.
Fits == Queued <= IF Failed THEN QueueLimit + 1 ELSE QueueLimit

\* An approval that is still to be shown has been counted when it was read.
Counted ==
    /\ heard \in 0 .. MaxFrames
    /\ IF task[Reader] \in Writing THEN told < heard ELSE told <= heard

\* The bounds of the pending ids, of the queue and of what the consumer is due.
Sized ==
    /\ IsFiniteSet(pending) /\ Cardinality(pending) <= PendingLimit
    /\ Fits /\ Counted

\* What each of the small variables ranges over.
Modes ==
    /\ link \in {"up", "lost", "closed"}
    /\ after \in {"none", "show", "fail", "show and fail"}
    /\ consumer \in {"idle", "waiting", "raised"}
    /\ closer \in {"none", "ready", "closing", "draining", "done"}

\* Inductive relative to Inv.
Orderly == Locked /\ Sized /\ Modes

\* __init__: the lock is free and nothing is queued.
LEMMA OrderlyInitially == Init => Orderly
<1> SUFFICES ASSUME Init PROVE Orderly
  OBVIOUS
<1>1. Locked
  BY DEF Init, Locked, WritersTakeTurns, Writers
<1>2. Sized
  BY FS_EmptySet DEF Init, Sized, Fits, Counted, Queued, Failed, Writers, Writing
<1> QED BY <1>1, <1>2 DEF Init, Orderly, Modes

\* A task that takes the lock, or the last place behind it.
LEMMA Queueing ==
    ASSUME Inv, Locked, NEW w \in Writers, task[w] \notin Writing,
           lock' = Append(lock, w),
           task' = [task EXCEPT ![w] = IF lock = <<>> THEN "sending" ELSE "locking"]
    PROVE  Locked'
<1>1. /\ lock' \in Seq(Writers) /\ Len(lock') = Len(lock) + 1 /\ Len(lock) \in Nat
      /\ DOMAIN lock = 1 .. Len(lock) /\ DOMAIN lock' = 1 .. Len(lock) + 1
      /\ \A i \in 1 .. Len(lock) : lock'[i] = lock[i]
      /\ lock'[Len(lock) + 1] = w
      /\ Head(lock') = lock'[1]
      /\ lock # <<>> => Head(lock) = lock[1] /\ Len(lock) > 0
      /\ lock = <<>> => Len(lock) = 0
  BY DEF Locked
<1>2. \A i \in DOMAIN lock : lock[i] # w
  BY DEF Locked, WritersTakeTurns, Writing
<1>3. ASSUME NEW i \in DOMAIN lock', NEW j \in DOMAIN lock', lock'[i] = lock'[j]
      PROVE  i = j
  BY <1>1, <1>2, <1>3 DEF Locked
<1>4. ASSUME NEW v \in Writers
      PROVE  /\ task'[v] \in {"locking", "sending"} <=> \E i \in DOMAIN lock' : lock'[i] = v
             /\ task'[v] = "sending" => Head(lock') = v
  <2>0. task \in [Writers -> {"idle", "reading", "locking", "sending", "waiting",
                              "closing", "done"}]
    BY DEF Inv, Typed
  <2>1. CASE v = w
    BY <1>1, <2>0, <2>1
  <2>2. CASE v # w
    <3>1. task'[v] = task[v]
      BY <2>0, <2>2
    <3>2. (\E i \in DOMAIN lock' : lock'[i] = v) <=> \E i \in DOMAIN lock : lock[i] = v
      BY <1>1, <2>2
    <3>3. task[v] = "sending" => Head(lock') = v
      BY <1>1 DEF Locked, WritersTakeTurns
    <3> QED BY <3>1, <3>2, <3>3 DEF Locked, WritersTakeTurns
  <2> QED BY <2>1, <2>2
<1> QED BY <1>1, <1>3, <1>4 DEF Locked, WritersTakeTurns

\* The holder that releases the lock.
LEMMA Releasing ==
    ASSUME Inv, Locked, NEW w \in Writers, lock # <<>>, Head(lock) = w,
           lock' = Tail(lock), NEW pc, pc \notin Writing, task' = [task EXCEPT ![w] = pc]
    PROVE  Locked'
<1>1. /\ lock' \in Seq(Writers) /\ Len(lock') = Len(lock) - 1 /\ Len(lock) \in Nat \ {0}
      /\ DOMAIN lock = 1 .. Len(lock) /\ DOMAIN lock' = 1 .. Len(lock) - 1
      /\ \A i \in 1 .. Len(lock) - 1 : lock'[i] = lock[i + 1]
      /\ lock[1] = w
  BY DEF Locked
<1>3. ASSUME NEW i \in DOMAIN lock', NEW j \in DOMAIN lock', lock'[i] = lock'[j]
      PROVE  i = j
  BY <1>1, <1>3 DEF Locked
<1>4. ASSUME NEW v \in Writers
      PROVE  /\ task'[v] \in {"locking", "sending"} <=> \E i \in DOMAIN lock' : lock'[i] = v
             /\ task'[v] = "sending" => Head(lock') = v
  <2>0. task \in [Writers -> {"idle", "reading", "locking", "sending", "waiting",
                              "closing", "done"}]
    BY DEF Inv, Typed
  <2>1. CASE v = w
    <3>1. \A i \in DOMAIN lock' : lock'[i] # w
      BY <1>1 DEF Locked
    <3> QED BY <2>0, <2>1, <3>1 DEF Writing
  <2>2. CASE v # w
    <3>1. task'[v] = task[v] /\ task[v] # "sending"
      BY <2>0, <2>2 DEF Locked, WritersTakeTurns
    <3>2. ASSUME NEW i \in DOMAIN lock, lock[i] = v
          PROVE  \E k \in DOMAIN lock' : lock'[k] = v
      <4>1. i # 1 /\ i \in 1 .. Len(lock)
        BY <1>1, <2>2, <3>2
      <4>2. i - 1 \in DOMAIN lock' /\ lock'[i - 1] = lock[i]
        BY <1>1, <4>1
      <4> QED BY <3>2, <4>2
    <3>3. ASSUME NEW k \in DOMAIN lock', lock'[k] = v
          PROVE  \E i \in DOMAIN lock : lock[i] = v
      <4>1. k + 1 \in DOMAIN lock /\ lock[k + 1] = v
        BY <1>1, <3>3
      <4> QED BY <4>1
    <3> QED BY <3>1, <3>2, <3>3 DEF Locked, WritersTakeTurns
  <2> QED BY <2>1, <2>2
<1> QED BY <1>1, <1>3, <1>4 DEF Locked, WritersTakeTurns

\* A caller that gives up, at whatever place it stood.
LEMMA Leaving ==
    ASSUME Inv, Locked, NEW w \in Writers, task[w] \in Writing,
           lock' = Released(w), NEW pc, pc \notin Writing, task' = [task EXCEPT ![w] = pc]
    PROVE  Locked'
<1> DEFINE p == CHOOSE i \in DOMAIN lock : lock[i] = w
           n == Len(lock)
<1>0. p \in DOMAIN lock /\ lock[p] = w /\ n \in Nat /\ DOMAIN lock = 1 .. n
      /\ p \in 1 .. n /\ \A i \in 1 .. n : lock[i] \in Writers
  BY DEF Locked, WritersTakeTurns, Writing
<1>1. lock' = SubSeq(lock, 1, p - 1) \o SubSeq(lock, p + 1, n)
  BY DEF Released
<1> HIDE DEF p, n
<1> DEFINE a == SubSeq(lock, 1, p - 1)
           b == SubSeq(lock, p + 1, n)
<1>2. /\ a \in Seq(Writers) /\ Len(a) = p - 1
      /\ \A i \in 1 .. p - 1 : a[i] = lock[i]
  BY <1>0 DEF Locked
<1>3. /\ b \in Seq(Writers) /\ Len(b) = n - p
      /\ \A i \in 1 .. n - p : b[i] = lock[p + i]
  BY <1>0 DEF Locked
<1>c. lock' = a \o b
  BY <1>1
<1> HIDE DEF a, b
<1>4. /\ lock' \in Seq(Writers) /\ Len(lock') = n - 1 /\ DOMAIN lock' = 1 .. n - 1
      /\ \A i \in 1 .. n - 1 : lock'[i] = IF i < p THEN a[i] ELSE b[i - (p - 1)]
  BY <1>0, <1>c, <1>2, <1>3
<1>5. \A i \in 1 .. n - 1 : lock'[i] = IF i < p THEN lock[i] ELSE lock[i + 1]
  <2> TAKE i \in 1 .. n - 1
  <2>1. CASE i < p
    BY <1>0, <1>2, <1>4, <2>1
  <2>2. CASE ~ (i < p)
    <3>1. i - (p - 1) \in 1 .. n - p /\ p + (i - (p - 1)) = i + 1
      BY <1>0, <2>2
    <3> QED BY <1>0, <1>3, <1>4, <2>2, <3>1
  <2> QED BY <2>1, <2>2
<1>6. \A i, j \in 1 .. n : lock[i] = lock[j] => i = j
  BY <1>0 DEF Locked
<1>7. ASSUME NEW i \in DOMAIN lock', NEW j \in DOMAIN lock', lock'[i] = lock'[j]
      PROVE  i = j
  BY <1>0, <1>4, <1>5, <1>6, <1>7
<1>8. ASSUME NEW v \in Writers
      PROVE  /\ task'[v] \in {"locking", "sending"} <=> \E i \in DOMAIN lock' : lock'[i] = v
             /\ task'[v] = "sending" => Head(lock') = v
  <2>0. task \in [Writers -> {"idle", "reading", "locking", "sending", "waiting",
                              "closing", "done"}]
    BY DEF Inv, Typed
  <2>1. CASE v = w
    <3>1. \A i \in DOMAIN lock' : lock'[i] # w
      BY <1>0, <1>4, <1>5, <1>6
    <3> QED BY <2>0, <2>1, <3>1 DEF Writing
  <2>2. CASE v # w
    <3>1. task'[v] = task[v]
      BY <2>0, <2>2
    <3>2. ASSUME NEW i \in DOMAIN lock, lock[i] = v
          PROVE  \E k \in DOMAIN lock' : lock'[k] = v
      <4>1. i # p /\ i \in 1 .. n
        BY <1>0, <2>2, <3>2
      <4>2. CASE i < p
        <5>1. i \in DOMAIN lock' /\ lock'[i] = v
          BY <1>0, <1>4, <1>5, <3>2, <4>1, <4>2
        <5> QED BY <5>1
      <4>3. CASE i > p
        <5>1. i - 1 \in 1 .. n - 1 /\ ~ (i - 1 < p) /\ (i - 1) + 1 = i
          BY <1>0, <4>1, <4>3
        <5>2. i - 1 \in DOMAIN lock' /\ lock'[i - 1] = v
          BY <1>4, <1>5, <3>2, <5>1
        <5> QED BY <5>2
      <4> QED BY <1>0, <4>1, <4>2, <4>3
    <3>3. ASSUME NEW k \in DOMAIN lock', lock'[k] = v
          PROVE  \E i \in DOMAIN lock : lock[i] = v
      <4>1. k \in 1 .. n - 1
        BY <1>4
      <4>2. k \in DOMAIN lock /\ k + 1 \in DOMAIN lock
        BY <1>0, <4>1
      <4> QED BY <1>5, <3>3, <4>1, <4>2
    <3>4. ASSUME task[v] = "sending"
          PROVE  Head(lock') = v
      <4>1. lock # <<>> /\ Head(lock) = v /\ n > 0
        BY <1>0, <3>4 DEF Locked, WritersTakeTurns
      <4>2. lock[1] = v
        BY <4>1 DEF Locked
      <4>3. p # 1 /\ 1 < p /\ n > 1
        BY <1>0, <2>2, <4>2
      <4>4. lock'[1] = v /\ lock' # <<>>
        BY <1>0, <1>4, <1>5, <4>2, <4>3
      <4> QED BY <1>4, <4>4
    <3> QED BY <3>1, <3>2, <3>3, <3>4 DEF Locked, WritersTakeTurns
  <2> QED BY <2>1, <2>2
<1> QED BY <1>4, <1>7, <1>8 DEF Locked, WritersTakeTurns

\* A task that neither takes nor frees the lock.
LEMMA LockStays ==
    ASSUME Inv, Locked, NEW w \in Writers, NEW pc, UNCHANGED lock,
           pc \in Writing <=> task[w] \in Writing,
           pc = "sending" => Head(lock) = w,
           task' = task \/ task' = [task EXCEPT ![w] = pc]
    PROVE  Locked'
  BY DEF Inv, Typed, Locked, WritersTakeTurns, Writing

-----------------------------------------------------------------------------
\* _fail forgets what is pending, and queues one item when it is the first.
LEMMA FailingFits ==
    ASSUME Inv, Sized, NEW why \in Causes \ {"none"}, Fail(why), UNCHANGED foreign
    PROVE  Fits' /\ IsFiniteSet(pending') /\ Cardinality(pending') <= PendingLimit
<1>1. pending' = {}
  BY Failing
<1>2. Fits'
  <2>1. CASE Failed
    BY <2>1 DEF Sized, Fits, Queued, Fail, FailFrom, Failed
  <2>2. CASE ~ Failed
    <3>1. Failed' /\ Len(inbox') = Len(inbox) + 1
      BY <2>2 DEF Inv, Typed, Fail, FailFrom, Failed, Causes, Message, Failure
    <3> QED BY <2>2, <3>1 DEF Inv, Typed, Sized, Fits, Queued
  <2> QED BY <2>1, <2>2
<1> QED BY <1>1, <1>2, FS_EmptySet

\* What leaves pending makes room.
LEMMA PendingShrinks ==
    ASSUME Sized, pending' \subseteq pending
    PROVE  IsFiniteSet(pending') /\ Cardinality(pending') <= PendingLimit
<1>1. IsFiniteSet(pending') /\ Cardinality(pending') <= Cardinality(pending)
  BY FS_Subset DEF Sized
<1>2. Cardinality(pending') \in Nat /\ Cardinality(pending) \in Nat
  BY <1>1, FS_CardinalityType DEF Sized
<1> QED BY <1>1, <1>2 DEF Sized

\* request() keeps within the bound of pending ids, and queues for the lock.
LEMMA RequestOrderly ==
    ASSUME Inv, Orderly, NEW r \in Requests, Request(r)
    PROVE  Orderly'
<1> USE DEF Request, Ends, At, messages, hosts
<1>1. CASE Failed \/ Cardinality(pending) >= PendingLimit
  <2>1. Locked'
    <3>1. task' = [task EXCEPT ![r] = "done"] /\ lock' = lock
      BY <1>1
    <3>2. /\ r \in Writers /\ task[r] \notin Writing
          /\ "done" \notin Writing /\ "done" # "sending"
      BY DEF Writers, Writing
    <3> QED BY <3>1, <3>2, LockStays DEF Orderly
  <2>2. Sized' /\ Modes'
    BY <1>1 DEF Inv, Typed, Orderly, Sized, Modes, Fits, Counted, Queued, Failed, Writers
  <2> QED BY <2>1, <2>2 DEF Orderly
<1>2. CASE ~ (Failed \/ Cardinality(pending) >= PendingLimit)
  <2>1. Locked'
    <3>1. /\ task' = [task EXCEPT ![r] = IF lock = <<>> THEN "sending" ELSE "locking"]
          /\ lock' = Append(lock, r) /\ task[r] = "idle"
      BY <1>2
    <3> QED BY <3>1, Queueing DEF Orderly, Writers, Writing
  <2>2. IsFiniteSet(pending') /\ Cardinality(pending') <= PendingLimit
    <3>1. Cardinality(pending) \in Nat
      BY FS_CardinalityType DEF Orderly, Sized
    <3>2. /\ IsFiniteSet(pending \cup {r})
          /\ Cardinality(pending \cup {r}) =
                IF r \in pending THEN Cardinality(pending) ELSE Cardinality(pending) + 1
      BY FS_AddElement DEF Orderly, Sized
    <3>3. pending' = pending \cup {r} /\ ~ (Cardinality(pending) >= PendingLimit)
      BY <1>2
    <3> HIDE DEF Request
    <3>4. Cardinality(pending') <= PendingLimit
      BY <3>1, <3>2, <3>3
    <3> QED BY <3>2, <3>3, <3>4
  <2>3. Fits' /\ Counted' /\ Modes'
    BY <1>2 DEF Inv, Typed, Orderly, Sized, Modes, Fits, Counted, Queued, Failed, Writers
  <2> QED BY <2>1, <2>2, <2>3 DEF Orderly, Sized
<1> QED BY <1>1, <1>2

\* _write goes on with the lock, or frees it when the connection has failed.
LEMMA AcquiresOrderly ==
    ASSUME Inv, Orderly, NEW w \in Writers, Acquires(w)
    PROVE  Orderly'
<1> USE DEF Acquires, ReaderRaises, Ends, At, messages, hosts
<1>0. lock # <<>>
  <2>1. PICK i \in DOMAIN lock : lock[i] = w
    BY DEF Orderly, Locked, WritersTakeTurns
  <2> QED BY <2>1
<1>1. Locked'
  <2>1. CASE ~ Failed
    <3>1. task' = [task EXCEPT ![w] = "sending"] /\ lock' = lock
      BY <2>1
    <3> QED BY <3>1, LockStays DEF Orderly, Writing
  <2>2. CASE Failed
    <3> DEFINE pc == IF w = Reader /\ failure \in Defects THEN "closing" ELSE "done"
    <3>1. task' = [task EXCEPT ![w] = pc] /\ lock' = Tail(lock) /\ pc \notin Writing
      BY <2>2 DEF Writing
    <3> HIDE DEF pc
    <3> QED BY <1>0, <3>1, Releasing DEF Orderly
  <2> QED BY <2>1, <2>2
<1>2. IsFiniteSet(pending') /\ Cardinality(pending') <= PendingLimit
  BY PendingShrinks DEF Orderly
<1>3. Fits' /\ Modes'
  BY DEF Orderly, Sized, Fits, Queued, Failed, Modes
<1>4. Counted'
  BY DEF Inv, Typed, Orderly, Sized, Counted, Writing, Writers
<1> QED BY <1>1, <1>2, <1>3, <1>4 DEF Orderly, Sized

\* The lock goes to the next once the request is sent.
LEMMA SentOrderly ==
    ASSUME Inv, Orderly, NEW r \in Requests, Sent(r)
    PROVE  Orderly'
<1> USE DEF Sent, At, messages, hosts, correlation
<1>0. lock # <<>> /\ Head(lock) = r
  <2>1. PICK i \in DOMAIN lock : lock[i] = r
    BY DEF Orderly, Locked, WritersTakeTurns, Writers
  <2> QED BY <2>1 DEF Orderly, Locked, WritersTakeTurns, Writers
<1>1. Locked'
  <2>1. /\ r \in Writers /\ "waiting" \notin Writing
        /\ task' = [task EXCEPT ![r] = "waiting"] /\ lock' = Tail(lock)
    BY DEF Writers, Writing
  <2> QED BY <1>0, <2>1, Releasing DEF Orderly
<1>2. Sized' /\ Modes'
  BY DEF Inv, Typed, Orderly, Sized, Modes, Fits, Counted, Queued, Failed, Writers, Writing
<1> QED BY <1>1, <1>2 DEF Orderly

\* So it does when the send fails.
LEMMA SendFailsOrderly ==
    ASSUME Inv, Orderly, NEW w \in Writers, SendFails(w)
    PROVE  Orderly'
<1> USE DEF SendFails, Ends, At, hosts
<1>0. lock # <<>> /\ Head(lock) = w
  <2>1. PICK i \in DOMAIN lock : lock[i] = w
    BY DEF Orderly, Locked, WritersTakeTurns
  <2> QED BY <2>1 DEF Orderly, Locked, WritersTakeTurns
<1>1. Locked'
  BY <1>0, Releasing DEF Orderly, Writing
<1>2. Fits' /\ IsFiniteSet(pending') /\ Cardinality(pending') <= PendingLimit
  BY FailingFits DEF Orderly, Causes
<1>3. Counted'
  <2>1. task'[Reader] \in Writing => task[Reader] \in Writing
    BY DEF Inv, Typed, Writers, Writing
  <2> QED BY <2>1 DEF Inv, Typed, Orderly, Sized, Counted
<1>4. Modes'
  BY DEF Orderly, Modes
<1> QED BY <1>1, <1>2, <1>3, <1>4 DEF Orderly, Sized

\* A caller that gives up leaves the lock, or had left it.
LEMMA GivesUpOrderly ==
    ASSUME Inv, Orderly, NEW r \in Requests, GivesUp(r)
    PROVE  Orderly'
<1> USE DEF GivesUp, GivesUpWriting, GivesUpWaiting, Ends, At, messages, hosts
<1>1. Locked'
  <2>1. CASE GivesUpWriting(r)
    <3>1. /\ task' = [task EXCEPT ![r] = "done"] /\ lock' = Released(r)
          /\ task[r] \in Writing
      BY <2>1 DEF Writing
    <3> QED BY <3>1, Leaving DEF Orderly, Writers, Writing
  <2>2. CASE GivesUpWaiting(r)
    <3>1. task' = [task EXCEPT ![r] = "done"] /\ lock' = lock
      BY <2>2
    <3>2. /\ r \in Writers /\ task[r] \notin Writing
          /\ "done" \notin Writing /\ "done" # "sending"
      BY <2>2 DEF Writers, Writing
    <3> QED BY <3>1, <3>2, LockStays DEF Orderly
  <2> QED BY <2>1, <2>2
<1>2. IsFiniteSet(pending') /\ Cardinality(pending') <= PendingLimit
  BY PendingShrinks DEF Orderly
<1>3. Fits' /\ Counted' /\ Modes'
  BY DEF Inv, Typed, Orderly, Sized, Fits, Queued, Failed, Modes, Counted, Writing, Writers
<1> QED BY <1>1, <1>2, <1>3 DEF Orderly, Sized

\* Selecting the thread makes room in the queue.
LEMMA ReturnsOrderly ==
    ASSUME Inv, Orderly, NEW r \in Requests, Returns(r)
    PROVE  Orderly'
<1> USE DEF Returns, SelectsThread, Ends, At, hosts
<1>1. Locked'
  <2>1. task' = [task EXCEPT ![r] = "done"] /\ lock' = lock
    OBVIOUS
  <2>2. /\ r \in Writers /\ task[r] \notin Writing
        /\ "done" \notin Writing /\ "done" # "sending"
    BY DEF Writers, Writing
  <2> QED BY <2>1, <2>2, LockStays DEF Orderly
<1>2. Fits'
  BY DEF Inv, Typed, Orderly, Sized, Fits, Queued, Failed
<1>3. IsFiniteSet(pending') /\ Cardinality(pending') <= PendingLimit /\ Counted' /\ Modes'
  BY DEF Inv, Typed, Orderly, Sized, Modes, Counted, Writing, Writers
<1> QED BY <1>1, <1>2, <1>3 DEF Orderly, Sized
-----------------------------------------------------------------------------
\* The reader's own steps: it stands outside the lock before and after.
LEMMA ReaderStepsAside ==
    ASSUME Inv, Locked, UNCHANGED lock, task[Reader] \notin Writing,
           NEW pc, pc \notin Writing, task' = task \/ task' = [task EXCEPT ![Reader] = pc]
    PROVE  Locked'
<1>1. Reader \in Writers /\ pc # "sending"
  BY DEF Writers, Writing
<1> QED BY <1>1, LockStays

\* _enqueue takes what fits and fails the connection otherwise.
LEMMA EnqueueFits ==
    ASSUME Inv, Sized, NEW own \in BOOLEAN, Enqueue(own)
    PROVE  /\ Fits' /\ IsFiniteSet(pending') /\ Cardinality(pending') <= PendingLimit
           /\ task' = [task EXCEPT ![Reader] = "closing"]
                \/ task' = [task EXCEPT ![Reader] = "reading"]
           /\ told' = told \/ told' = told + 1
<1>1. CASE Queued >= QueueLimit
  <2>1. Fail("overflow") /\ task' = [task EXCEPT ![Reader] = "closing"]
        /\ UNCHANGED <<foreign, told>>
    BY <1>1 DEF Enqueue, ReaderFails, At
  <2> QED BY <2>1, FailingFits DEF Causes, Defects
<1>2. CASE ~ (Queued >= QueueLimit)
  <2>1. /\ inbox' = IF own THEN Append(inbox, Message) ELSE inbox
        /\ foreign' = IF own THEN foreign ELSE foreign + 1
        /\ told' = told \/ told' = told + 1
        /\ task' = [task EXCEPT ![Reader] = "reading"]
        /\ UNCHANGED <<failure, future, pending>>
    BY <1>2 DEF Enqueue, Told, At
  <2>2. Queued' = Queued + 1 /\ Queued \in Nat
    BY <2>1 DEF Inv, Typed, Queued
  <2> QED BY <1>2, <2>1, <2>2 DEF Sized, Fits, Failed
<1> QED BY <1>1, <1>2

\* A response makes room among the pending ids, or fails the connection.
LEMMA AnswersOrderly ==
    ASSUME Inv, Orderly, NEW r \in Requests, Answers(r)
    PROVE  Orderly'
<1> USE DEF Answers, Reads, ReaderFails, At, hosts
<1>0. task[Reader] \notin Writing /\ Reader \in Writers /\ "closing" \notin Writing
  BY DEF Writing, Writers
<1>1. Locked'
  <2>1. lock' = lock /\ (task' = task \/ task' = [task EXCEPT ![Reader] = "closing"])
    OBVIOUS
  <2> QED BY <1>0, <2>1, ReaderStepsAside DEF Orderly
<1>2. Fits' /\ IsFiniteSet(pending') /\ Cardinality(pending') <= PendingLimit
  <2>1. CASE r \in pending
    <3>1. pending' \subseteq pending /\ UNCHANGED <<failure, inbox, foreign>>
      BY <2>1
    <3> QED BY <3>1, PendingShrinks DEF Orderly, Sized, Fits, Queued, Failed
  <2>2. CASE r \notin pending
    <3>1. Fail("uncorrelated") /\ UNCHANGED foreign
      BY <2>2
    <3> QED BY <3>1, FailingFits DEF Orderly, Causes, Defects
  <2> QED BY <2>1, <2>2
<1>3. Counted'
  BY <1>0 DEF Inv, Typed, Orderly, Sized, Counted
<1>4. Modes'
  BY DEF Orderly, Modes
<1> QED BY <1>1, <1>2, <1>3, <1>4 DEF Orderly, Sized

\* What the server sends of itself is counted as it is read.
LEMMA FramesOrderly ==
    ASSUME Inv, Orderly, Notifies \/ Garbles \/ Asks
    PROVE  Orderly'
<1>0. /\ task[Reader] \notin Writing /\ Reader \in Writers
      /\ "closing" \notin Writing /\ "reading" \notin Writing /\ "done" \notin Writing
      /\ heard' = heard + 1 /\ heard < MaxFrames
      /\ task \in [Writers -> {"idle", "reading", "locking", "sending", "waiting",
                               "closing", "done"}]
      /\ heard \in 0 .. MaxFrames /\ told \in Nat /\ told <= heard
  BY DEF Writing, Writers, Notifies, Garbles, Asks, Reads, HearsFrame, Orderly, Sized,
         Counted, Inv, Typed
<1>n. /\ heard' \in 0 .. MaxFrames /\ told < heard'
      /\ told \in Nat /\ heard' \in Nat
  BY <1>0
<1>1. CASE Notifies
  <2>1. PICK own \in BOOLEAN : Enqueue(own)
    BY <1>1 DEF Notifies
  <2>2. /\ Fits' /\ IsFiniteSet(pending') /\ Cardinality(pending') <= PendingLimit
        /\ task' = [task EXCEPT ![Reader] = "closing"]
             \/ task' = [task EXCEPT ![Reader] = "reading"]
        /\ told' = told \/ told' = told + 1
    BY <2>1, EnqueueFits DEF Orderly
  <2>3. Locked'
    BY <1>0, <1>1, <2>2, ReaderStepsAside DEF Notifies, Orderly
  <2>4. Counted'
    BY <1>0, <2>2 DEF Counted
  <2>5. Modes'
    BY <1>1 DEF Notifies, hosts, Orderly, Modes
  <2> QED BY <2>2, <2>3, <2>4, <2>5 DEF Orderly, Sized
<1>2. CASE Garbles
  <2>1. /\ Fail("malformed") /\ task' = [task EXCEPT ![Reader] = "closing"]
        /\ UNCHANGED <<link, lock, after, foreign, told, consumer, closer>>
    BY <1>2 DEF Garbles, ReaderFails, At, hosts
  <2>2. Fits' /\ IsFiniteSet(pending') /\ Cardinality(pending') <= PendingLimit
    BY <2>1, FailingFits DEF Orderly, Causes, Defects
  <2>3. Locked'
    BY <1>0, <2>1, ReaderStepsAside DEF Orderly
  <2>4. Counted'
    <3>1. told' = told
      BY <2>1
    <3> QED BY <1>n, <3>1 DEF Counted
  <2>5. Modes'
    BY <2>1 DEF Modes, Orderly
  <2> QED BY <2>2, <2>3, <2>4, <2>5 DEF Orderly, Sized
<1>3. CASE Asks
  <2>1. /\ after' \in {"show", "fail", "show and fail"}
        /\ UNCHANGED <<link, failure, pending, inbox, foreign, told, consumer, closer>>
    BY <1>3 DEF Asks, correlation, hosts
  <2>2. Locked'
    <3>1. CASE lock = <<>> /\ Failed
      <4> DEFINE pc == IF failure \in Defects THEN "closing" ELSE "done"
      <4>1. task' = [task EXCEPT ![Reader] = pc] /\ lock' = lock /\ pc \notin Writing
        BY <1>0, <1>3, <3>1 DEF Asks, ReaderRaises, At
      <4> HIDE DEF pc
      <4> QED BY <1>0, <4>1, ReaderStepsAside DEF Orderly
    <3>2. CASE ~ (lock = <<>> /\ Failed)
      <4>1. /\ lock' = Append(lock, Reader)
            /\ task' = [task EXCEPT ![Reader] = IF lock = <<>> THEN "sending"
                                                ELSE "locking"]
        BY <1>3, <3>2 DEF Asks, At
      <4> QED BY <1>0, <4>1, Queueing DEF Orderly
    <3> QED BY <3>1, <3>2
  <2>3. Counted'
    <3>1. told' = told
      BY <2>1
    <3> QED BY <1>n, <3>1 DEF Counted
  <2>4. Modes' /\ Fits' /\ IsFiniteSet(pending') /\ Cardinality(pending') <= PendingLimit
    BY <2>1 DEF Orderly, Modes, Sized, Fits, Queued, Failed
  <2> QED BY <2>2, <2>3, <2>4 DEF Orderly, Sized
<1> QED BY <1>1, <1>2, <1>3

\* What is shown and then fails takes at most two places, one for the failure.
LEMMA ShowingFits ==
    ASSUME Inv, Sized, ShowsThenFails
    PROVE  /\ Fits' /\ IsFiniteSet(pending') /\ Cardinality(pending') <= PendingLimit
           /\ task' = [task EXCEPT ![Reader] = "closing"]
           /\ told' = told \/ told' = told + 1
<1>1. CASE Queued >= QueueLimit
  <2>1. Fail("overflow") /\ task' = [task EXCEPT ![Reader] = "closing"]
        /\ UNCHANGED <<foreign, told>>
    BY <1>1 DEF ShowsThenFails, ReaderFails, At
  <2> QED BY <2>1, FailingFits DEF Causes, Defects
<1>2. CASE ~ (Queued >= QueueLimit)
  <2> DEFINE longer == Append(inbox, Message)
  <2>1. /\ FailFrom("authority", longer) /\ foreign' = foreign
        /\ told' = told \/ told' = told + 1
        /\ task' = [task EXCEPT ![Reader] = "closing"]
    BY <1>2 DEF ShowsThenFails, Told, At
  <2>2. /\ longer \in Seq({Message, Failure}) /\ Len(longer) = Len(inbox) + 1
        /\ Len(inbox) + foreign < QueueLimit /\ Len(inbox) \in Nat /\ foreign \in Nat
    BY <1>2 DEF Inv, Typed, Queued
  <2> HIDE DEF longer
  <2>3. CASE Failed
    <3>1. inbox' = longer /\ UNCHANGED <<failure, pending>>
      BY <2>1, <2>3 DEF FailFrom
    <3> QED BY <2>1, <2>2, <2>3, <3>1 DEF Sized, Fits, Queued, Failed
  <2>4. CASE ~ Failed
    <3>1. failure' = "authority" /\ pending' = {} /\ inbox' = Append(longer, Failure)
      BY <2>1, <2>4 DEF FailFrom
    <3>2. Len(inbox') = Len(longer) + 1
      BY <2>2, <3>1
    <3> QED BY <2>1, <2>2, <3>1, <3>2, FS_EmptySet DEF Fits, Queued, Failed
  <2> QED BY <2>3, <2>4
<1> QED BY <1>1, <1>2

\* The denial frees the lock; its approval takes the place it was counted for.
LEMMA DeniedOrderly ==
    ASSUME Inv, Orderly, Denied
    PROVE  Orderly'
<1>0. /\ task[Reader] = "sending" /\ Reader \in Writers
      /\ "closing" \notin Writing /\ "reading" \notin Writing
      /\ lock' = Tail(lock) /\ after' = "none"
      /\ UNCHANGED <<link, heard, consumer, closer>>
      /\ task \in [Writers -> {"idle", "reading", "locking", "sending", "waiting",
                               "closing", "done"}]
      /\ heard \in 0 .. MaxFrames /\ told \in Nat /\ told < heard
  BY DEF Denied, Writing, Writers, hosts, Orderly, Sized, Counted, Inv, Typed
<1>1. lock # <<>> /\ Head(lock) = Reader
  <2>1. PICK i \in DOMAIN lock : lock[i] = Reader
    BY <1>0 DEF Orderly, Locked, WritersTakeTurns
  <2> QED BY <1>0, <2>1 DEF Orderly, Locked, WritersTakeTurns
<1>2. /\ Fits' /\ IsFiniteSet(pending') /\ Cardinality(pending') <= PendingLimit
      /\ task' = [task EXCEPT ![Reader] = "closing"]
           \/ task' = [task EXCEPT ![Reader] = "reading"]
      /\ told' = told \/ told' = told + 1
  <2>1. CASE Enqueue(TRUE)
    BY <2>1, EnqueueFits DEF Orderly
  <2>2. CASE ReaderFails("authority") /\ UNCHANGED <<foreign, told>>
    BY <2>2, FailingFits DEF ReaderFails, At, Orderly, Causes, Defects
  <2>3. CASE ShowsThenFails
    BY <2>3, ShowingFits DEF Orderly
  <2> QED BY <2>1, <2>2, <2>3 DEF Denied
<1>3. Locked'
  BY <1>0, <1>1, <1>2, Releasing DEF Orderly
<1>4. Counted'
  BY <1>0, <1>2 DEF Counted
<1>5. Modes'
  BY <1>0 DEF Orderly, Modes
<1> QED BY <1>2, <1>3, <1>4, <1>5 DEF Orderly, Sized

\* The reader's end, and the link's.
LEMMA EndOrderly ==
    ASSUME Inv, Orderly, HearsEnd \/ ReaderCloses \/ Drops
    PROVE  Orderly'
<1>0. /\ lock' = lock /\ Reader \in Writers /\ "done" \notin Writing
      /\ UNCHANGED <<after, heard, told, foreign, consumer, closer>>
      /\ link' \in {"up", "lost", "closed"}
      /\ task \in [Writers -> {"idle", "reading", "locking", "sending", "waiting",
                               "closing", "done"}]
  BY DEF HearsEnd, ReaderCloses, Drops, Writers, Writing, messages, hosts, Orderly, Modes,
         Inv, Typed
<1>1. \/ task' = task
      \/ task' = [task EXCEPT ![Reader] = "done"] /\ task[Reader] \notin Writing
  BY DEF HearsEnd, Reads, ReaderCloses, Drops, At, Writing
<1>2. Locked'
  <2>1. CASE task' = task
    BY <1>0, <2>1 DEF Orderly, Locked, WritersTakeTurns
  <2>2. CASE task' = [task EXCEPT ![Reader] = "done"] /\ task[Reader] \notin Writing
    BY <1>0, <2>2, ReaderStepsAside DEF Orderly
  <2> QED BY <1>1, <2>1, <2>2
<1>3. Fits' /\ IsFiniteSet(pending') /\ Cardinality(pending') <= PendingLimit
  <2>1. CASE HearsEnd
    BY <1>0, <2>1, FailingFits DEF HearsEnd, Orderly, Causes
  <2>2. CASE ReaderCloses \/ Drops
    BY <2>2 DEF ReaderCloses, Drops, correlation, messages, Orderly, Sized, Fits, Queued,
                Failed
  <2> QED BY <2>1, <2>2
<1>4. Counted'
  BY <1>0, <1>1 DEF Orderly, Sized, Counted
<1>5. Modes'
  BY <1>0 DEF Orderly, Modes
<1> QED BY <1>2, <1>3, <1>4, <1>5 DEF Orderly, Sized

\* The consumer makes room; close() forgets what is pending.
LEMMA HostsOrderly ==
    ASSUME Inv, Orderly, Pulls \/ Wakes \/ Close \/ Closer \/ Rest \/ UNCHANGED vars
    PROVE  Orderly'
<1>0. /\ lock' = lock /\ task' = task
      /\ UNCHANGED <<after, heard, told, foreign>>
      /\ link' \in {"up", "lost", "closed"}
      /\ consumer' \in {"idle", "waiting", "raised"}
      /\ closer' \in {"none", "ready", "closing", "draining", "done"}
  BY DEF Pulls, Wakes, Gets, Close, Closer, CloserBegins, CloserCloses, CloserEnds, Rest,
         vars, correlation, messages, hosts, Orderly, Modes
<1>1. Locked' /\ Modes'
  BY <1>0 DEF Orderly, Locked, WritersTakeTurns, Modes
<1>2. Counted'
  BY <1>0 DEF Orderly, Sized, Counted
<1>3. Fits' /\ IsFiniteSet(pending') /\ Cardinality(pending') <= PendingLimit
  <2>1. CASE CloserBegins
    BY <1>0, <2>1, FailingFits DEF CloserBegins, Orderly, Causes
  <2>2. CASE Pulls \/ Wakes
    <3>1. \/ inbox' = inbox
          \/ inbox # <<>> /\ inbox' = Tail(inbox)
      BY <2>2 DEF Pulls, Wakes
    <3>2. Len(inbox') <= Len(inbox) /\ Len(inbox') \in Nat /\ Len(inbox) \in Nat
      BY <3>1 DEF Inv, Typed
    <3>3. UNCHANGED <<failure, pending, foreign>> /\ foreign \in Nat
      BY <2>2 DEF Pulls, Wakes, correlation, Inv, Typed
    <3> QED BY <3>2, <3>3 DEF Orderly, Sized, Fits, Queued, Failed
  <2>3. CASE Close \/ CloserCloses \/ Rest \/ UNCHANGED vars
    BY <2>3 DEF Close, CloserCloses, Rest, vars, correlation, messages, Orderly, Sized,
                Fits, Queued, Failed
  <2>4. CASE CloserEnds
    BY <2>4, FS_EmptySet DEF CloserEnds, messages, Orderly, Sized, Fits, Queued, Failed
  <2> QED BY <2>1, <2>2, <2>3, <2>4 DEF Closer
<1> QED BY <1>1, <1>2, <1>3 DEF Orderly, Sized

\* The lock and the bounds hold in every reachable state.
THEOREM OrderlyInvariance == Spec => []Orderly
<1>1. Inv /\ Orderly /\ [Next]_vars => Orderly'
  <2> SUFFICES ASSUME Inv, Orderly, [Next]_vars PROVE Orderly'
    OBVIOUS
  <2>1. ASSUME NEW r \in Requests, Request(r) \/ Caller(r) \/ Sent(r) \/ GivesUp(r)
        PROVE  Orderly'
    <3>1. r \in Writers
      BY DEF Writers
    <3> QED BY <2>1, <3>1, RequestOrderly, AcquiresOrderly, SendFailsOrderly,
               ReturnsOrderly, SentOrderly, GivesUpOrderly DEF Caller
  <2>2. CASE ReaderRuns
    BY <2>2, AcquiresOrderly, SendFailsOrderly, EndOrderly DEF ReaderRuns, Writers
  <2>3. CASE Server
    BY <2>3, AnswersOrderly, FramesOrderly DEF Server
  <2> QED BY <2>1, <2>2, <2>3, DeniedOrderly, EndOrderly, HostsOrderly DEF Next
<1> QED BY <1>1, OrderlyInitially, Invariance, PTL DEF Spec

\* One task at a time writes on the socket, and a task that gave up keeps neither
\* the lock nor a place behind it (_write).
THEOREM OneWriterAtATime == Spec => []WritersTakeTurns
<1>1. Orderly => WritersTakeTurns
  BY DEF Orderly, Locked
<1> QED BY <1>1, OrderlyInvariance, PTL

\* The types, and the two bounds: the pending ids stay within theirs, and the queue
\* exceeds its own by the failure at most (request, _enqueue, _fail).
THEOREM BoundsHold == Spec => []TypeOK
<1>1. Inv /\ Orderly => TypeOK
  <2> SUFFICES ASSUME Inv, Orderly PROVE TypeOK
    OBVIOUS
  <2>1. told \in 0 .. MaxFrames
    BY DEF Inv, Typed, Orderly, Sized, Counted
  <2>2. Queued <= QueueLimit + 1
    <3>1. Queued \in Nat
      BY DEF Inv, Typed, Queued
    <3> QED BY <3>1 DEF Orderly, Sized, Fits
  <2> QED BY <2>1, <2>2 DEF TypeOK, Inv, Typed, Orderly, Locked, Sized, Counted, Modes
<1> QED BY <1>1, Invariance, OrderlyInvariance, PTL

(***************************************************************************)
(* CodexTurn: the types of its state, and its inductive invariant.         *)
(***************************************************************************)

Links == {"up", "failed", "closing", "closed"}
SenderStates == {"none", "ready", "lock", "sending", "waiting", "settling", "done"}
CloserStates == {"none", "ready", "sender", "reader", "reader cancelled",
                 "interrupting", "discarding", "done"}

\* How a turn ended: not yet, by a local stop, or by its own completion.
Seals ==
    [origin : {"none", "local"}, turn : {NoTurn}]
      \cup [origin : {"native"}, turn : TurnIds \ {NoTurn}]

SessionType ==
    /\ connection \in Links /\ queue \in Seq(Messages) /\ sent \in Nat
    /\ response \subseteq Responses
    /\ rebase \in BOOLEAN /\ turnId \in TurnIds /\ unfinished \in BOOLEAN

EvidenceType ==
    /\ {submission, accepted, returned} \subseteq Evidence
    /\ terminal \in Seals
    /\ error \in BOOLEAN

TaskType ==
    /\ {writerEntered, revoked, closed, finished} \subseteq BOOLEAN
    /\ released \in {0, 1} /\ cancels \in Nat
    /\ submit \in {"idle", "waiting", "closing", "returned", "cancelled"}
    /\ sender \in SenderStates
    /\ reader \in {"none", "reading", "quiescing", "done"}
    /\ closeTask \in CloserStates
    /\ control \in {"idle"} \cup Controls
    /\ written \subseteq {"start", "steer", "interrupt"}

TurnTypeOK == SessionType /\ EvidenceType /\ TaskType

(***************************************************************************)
(* The inductive invariant. The writer is entered at most once and is what *)
(* evidence rests on; "not submitted" is said, by any task, only when no   *)
(* sender is left that could enter it.                                     *)
(***************************************************************************)
WillNotWrite ==
    /\ ~ writerEntered
    /\ \/ sender \in {"settling", "done"}
       \/ sender = "none" /\ (revoked \/ submit # "idle")

Writer ==
    /\ "start" \in written <=> writerEntered
    /\ sender \in {"none", "ready", "lock"} => ~ writerEntered
    /\ submission.tag \in {"uncertain", "accepted"} <=> writerEntered
    /\ NotSubmitted \in {submission, accepted, returned} => WillNotWrite

\* The turn that the evidence names is the turn of the session.
Naming ==
    /\ submission.tag = "accepted" => submission.turn = turnId
    /\ submission.tag = "uncertain" => submission.turn \in {NoTurn, turnId}
    /\ terminal.origin = "native" => submission = Accepted(terminal.turn)
    /\ terminal # NoTerminal => writerEntered /\ reader = "done"

\* The tasks begin and end together; the close outlives the others.
Ordering ==
    /\ submit = "idle" => sender = "none" /\ reader = "none"
    /\ reader = "quiescing" => revoked /\ ~ writerEntered
    /\ closeTask \notin {"none", "ready"} => revoked
    /\ closeTask \notin {"none", "ready", "sender"} => Gone(sender)
    /\ closeTask \in {"interrupting", "discarding", "done"} => Gone(reader)

Release ==
    /\ released = 1 => Gone(sender) /\ Gone(reader)
    /\ released = 1 /\ ~ writerEntered => submission = NotSubmitted
    /\ released = 1 /\ submit = "idle" => revoked
    /\ closeTask = "done" => released = 1
    /\ SurvivorIsIdle

TurnInv == TurnTypeOK /\ Writer /\ Naming /\ Ordering /\ Release
-----------------------------------------------------------------------------
(***************************************************************************)
(* The operators the actions share.                                        *)
(***************************************************************************)
LEMMA EvidenceBuilt ==
    /\ None \in Evidence /\ NotSubmitted \in Evidence
    /\ Uncertain(NoTurn) \in Evidence
    /\ \A t \in TurnIds : Uncertain(t) \in Evidence
    /\ \A t \in TurnIds \ {NoTurn} : Accepted(t) \in Evidence
BY DEF Evidence, None, NotSubmitted, Uncertain, Accepted, TurnIds

LEMMA EvidenceRead ==
    ASSUME NEW e \in Evidence
    PROVE  /\ e.tag \in {"none", "not_submitted", "uncertain", "accepted"}
           /\ e.turn \in TurnIds
           /\ e.tag \in {"none", "not_submitted"} => e.turn = NoTurn
           /\ e.tag = "accepted" => e.turn # NoTurn
           /\ e.tag = "none" => e = None
           /\ e.tag = "not_submitted" => e = NotSubmitted
           /\ e.tag = "uncertain" => e = Uncertain(e.turn)
           /\ e.tag = "accepted" => e = Accepted(e.turn)
BY DEF Evidence, None, NotSubmitted, Uncertain, Accepted, TurnIds

LEMMA TagsDiffer ==
    /\ None.tag = "none" /\ NotSubmitted.tag = "not_submitted"
    /\ \A t : Uncertain(t).tag = "uncertain" /\ Uncertain(t).turn = t
    /\ \A t : Accepted(t).tag = "accepted" /\ Accepted(t).turn = t
BY DEF None, NotSubmitted, Uncertain, Accepted

LEMMA SealsBuilt ==
    /\ NoTerminal \in Seals
    /\ [origin |-> "local", turn |-> NoTurn] \in Seals
    /\ \A t \in TurnIds \ {NoTurn} : [origin |-> "native", turn |-> t] \in Seals
BY DEF Seals, NoTerminal

LEMMA SealsRead ==
    ASSUME NEW s \in Seals
    PROVE  /\ s.origin \in {"none", "local", "native"}
           /\ s.origin = "none" <=> s = NoTerminal
           /\ s.origin = "native" => s.turn \in TurnIds \ {NoTurn}
BY DEF Seals, NoTerminal

LEMMA MessagesRead ==
    ASSUME NEW m \in Messages
    PROVE  /\ m.turn \in TurnIds
           /\ m.kind \in {"begin", "end"} => m.turn # NoTurn
           /\ m.kind = "item" => m.open \in BOOLEAN
BY TurnsAssumption DEF Messages, TurnIds

\* A message is read by a turn that has no name yet, or has that name.
LEMMA IdentityIsKept ==
    ASSUME TurnTypeOK, NEW t \in TurnIds
    PROVE  /\ Identified(t) \in TurnIds
           /\ turnId # NoTurn => Identified(t) = turnId
           /\ t # NoTurn => Identified(t) # NoTurn
BY DEF Identified, TurnTypeOK, SessionType

LEMMA TurnRefIsSeen ==
    ASSUME submission \in Evidence, NEW seen \in TurnIds
    PROVE  /\ TurnRef(seen) \in TurnIds
           /\ TurnRef(seen) \in {NoTurn, seen, submission.turn}
           /\ submission.tag = "uncertain" /\ submission.turn # NoTurn
                => TurnRef(seen) = submission.turn
BY EvidenceRead DEF TurnRef, TurnIds

\* Evidence that is uncertain of the turn it was uncertain of, or of the turn
\* the session has seen.
StillUncertain(e) ==
    /\ e.tag = "uncertain" /\ e.turn \in {NoTurn, turnId, submission.turn}
    /\ submission.tag = "uncertain" /\ submission.turn # NoTurn => e.turn = submission.turn

\* The failure handler of the sender keeps an acceptance, and what else was
\* settled before it.
LEMMA SenderFails ==
    ASSUME TurnTypeOK, FailBeforeWriter \/ FailAfterWriter \/ Unacknowledged
    PROVE  /\ sender \in {"ready", "lock", "sending", "waiting"}
           /\ sender' \in {"settling", "done"}
           /\ sender' = "done" => submission.tag = "accepted"
           /\ connection' \in {connection, "closing"}
           /\ (connection = "closed" => connection' = "closed")
           /\ error' \in BOOLEAN
           /\ UNCHANGED <<queue, sent, response, rebase, turnId, unfinished, terminal,
                          returned, flags, submit, reader, closeTask, control, cancels,
                          written>>
           /\ \/ /\ UNCHANGED <<submission, accepted>>
                 /\ terminal # NoTerminal \/ submission.tag = "accepted"
              \/ /\ terminal = NoTerminal /\ submission.tag # "accepted"
                 /\ ~ writerEntered => submission' = NotSubmitted
                 /\ writerEntered => StillUncertain(submission')
                 /\ {submission', accepted'} \subseteq Evidence
                 /\ accepted' \in {accepted, submission'}
<1>1. PICK defect \in BOOLEAN : Settle(defect)
  BY DEF FailBeforeWriter, FailAfterWriter, Unacknowledged
<1>2. sender \in {"ready", "lock", "sending", "waiting"}
  BY DEF FailBeforeWriter, FailAfterWriter, Unacknowledged, SenderAt
<1>3. turnId \in TurnIds /\ submission \in Evidence /\ accepted \in Evidence
  BY DEF TurnTypeOK, SessionType, EvidenceType
<1>4. /\ Uncertain(TurnRef(turnId)) \in Evidence /\ NotSubmitted \in Evidence
      /\ StillUncertain(Uncertain(TurnRef(turnId)))
  BY <1>3, TurnRefIsSeen, EvidenceBuilt, TagsDiffer DEF StillUncertain
<1> QED BY <1>1, <1>2, <1>3, <1>4
        DEF Settle, CloseClient, Resolve, TurnTypeOK, EvidenceType, SessionType, Links

\* An acknowledged start names the turn, as an earlier message may have done.
LEMMA AcknowledgedIsNamed ==
    ASSUME TurnTypeOK, Acknowledged
    PROVE  /\ sender = "waiting" /\ sender' = "done" /\ writerEntered
           /\ turnId' \in TurnIds \ {NoTurn} /\ (turnId # NoTurn => turnId' = turnId)
           /\ UNCHANGED <<connection, queue, sent, response, rebase, unfinished, terminal,
                          error, returned, flags, submit, reader, closeTask, control,
                          cancels, written>>
           /\ submission' = Accepted(turnId')
           /\ accepted' \in {accepted, submission'}
<1>1. PICK r \in response : r.kind = "turn" /\ Acknowledges(r.turn)
  BY DEF Acknowledged
<1>2. r.turn \in TurnIds \ {NoTurn}
  BY <1>1, TurnsAssumption DEF TurnTypeOK, SessionType, Responses, TurnIds
<1> QED BY <1>1, <1>2 DEF Acknowledged, Acknowledges, Resolve, SenderAt

\* The reader's finally clause, whatever it has read.
LEMMA ReaderEndsOnce ==
    ASSUME TurnTypeOK, NEW latest, ReaderEnds(latest)
    PROVE  /\ reader' \in {"done", "quiescing"}
           /\ reader' = "quiescing" => sender # "done" /\ revoked' /\ ~ writerEntered
           /\ revoked' \in BOOLEAN /\ (revoked => revoked')
           /\ finished' \in BOOLEAN /\ cancels' \in Nat
           /\ writerEntered => submission' = latest /\ reader' = "done"
           /\ ~ writerEntered => submission' \in {latest, NotSubmitted}
           /\ ~ writerEntered /\ sender = "done" => submission' = NotSubmitted
           /\ ~ writerEntered /\ sender # "done" =>
                submission' = latest /\ UNCHANGED accepted
           /\ accepted' \in {accepted, submission'}
<1>1. CASE writerEntered \/ sender = "done"
  <2>1. /\ submission' = IF writerEntered THEN latest ELSE NotSubmitted
        /\ accepted' = IF accepted = None THEN submission' ELSE accepted
        /\ revoked' = (revoked \/ ~ writerEntered)
        /\ finished' = TRUE /\ reader' = "done" /\ cancels' = cancels
    BY <1>1 DEF ReaderEnds, Resolve
  <2> QED BY <1>1, <2>1 DEF TurnTypeOK, TaskType
<1>2. CASE ~ (writerEntered \/ sender = "done")
  <2>1. /\ submission' = latest /\ revoked' = TRUE /\ cancels' = cancels + 1
        /\ reader' = "quiescing" /\ accepted' = accepted /\ finished' = finished
    BY <1>2 DEF ReaderEnds
  <2> QED BY <1>2, <2>1 DEF TurnTypeOK, TaskType
<1> QED BY <1>1, <1>2

\* What a reader that fails, is stopped or times out leaves as evidence.
LEMMA ReaderStops ==
    ASSUME TurnTypeOK, ReadFailure \/ ReadDefect \/ ReaderCancelled \/ DeadlinePasses
    PROVE  /\ reader = "reading"
           /\ turnId' \in TurnIds /\ (turnId # NoTurn => turnId' = turnId)
           /\ queue' \in Seq(Messages) /\ error' \in BOOLEAN
           /\ UNCHANGED <<connection, sent, response, rebase, unfinished, returned,
                          writerEntered, closed, released, submit, sender, closeTask,
                          control, written>>
           /\ \/ UNCHANGED terminal
              \/ writerEntered /\ terminal' = [origin |-> "local", turn |-> NoTurn]
           /\ \E latest : /\ ReaderEnds(latest)
                          /\ \/ latest = submission
                             \/ /\ submission.tag # "accepted"
                                /\ latest = IF writerEntered
                                            THEN Uncertain(TurnRef(turnId')) ELSE None
<1> DEFINE Left == IF submission.tag = "accepted" THEN submission
                   ELSE IF writerEntered THEN Uncertain(TurnRef(turnId')) ELSE None
<1>0. /\ turnId \in TurnIds /\ queue \in Seq(Messages) /\ error \in BOOLEAN
  BY DEF TurnTypeOK, SessionType, EvidenceType
<1>1. CASE ReadFailure
  <2>1. ReaderEnds(Left)
    BY <1>1 DEF ReadFailure, ReadingFails
  <2> QED BY <1>0, <1>1, <2>1 DEF ReadFailure, ReadingFails, session
<1>2. CASE ReadDefect
  <2>1. PICK m \in Messages : /\ ReadsNext(m) /\ ReadingFails
                               /\ UNCHANGED <<rebase, unfinished, terminal>>
    BY <1>2 DEF ReadDefect
  <2>2. ReaderEnds(Left)
    BY <2>1 DEF ReadingFails
  <2>3. turnId' \in TurnIds /\ (turnId # NoTurn => turnId' = turnId)
    BY <2>1, MessagesRead, IdentityIsKept DEF ReadsNext
  <2>4. queue' \in Seq(Messages)
    BY <1>0, <2>1 DEF ReadsNext
  <2>5. error' = TRUE
    BY <2>1 DEF ReadingFails
  <2> QED BY <2>1, <2>2, <2>3, <2>4, <2>5 DEF ReadsNext
<1>3. CASE ReaderCancelled
  BY <1>0, <1>3 DEF ReaderCancelled, session
<1>4. CASE DeadlinePasses
  BY <1>0, <1>4 DEF DeadlinePasses, session
<1> QED BY <1>1, <1>2, <1>3, <1>4

\* A completion is the turn's own, after the writer was entered.
LEMMA CompletionIsNative ==
    ASSUME TurnTypeOK, ReadCompletion
    PROVE  /\ reader = "reading" /\ writerEntered
           /\ turnId' \in TurnIds \ {NoTurn} /\ (turnId # NoTurn => turnId' = turnId)
           /\ queue' \in Seq(Messages)
           /\ UNCHANGED <<connection, sent, response, rebase, unfinished, error, returned,
                          writerEntered, closed, released, submit, sender, closeTask,
                          control, written>>
           /\ terminal' = [origin |-> "native", turn |-> turnId']
           /\ ReaderEnds(Accepted(turnId'))
<1>1. PICK m \in Messages :
          /\ Valid(m) /\ m.kind = "end" /\ ReadsNext(m)
          /\ terminal' = [origin |-> "native", turn |-> turnId']
          /\ ReaderEnds(Accepted(turnId'))
          /\ UNCHANGED <<rebase, unfinished, error>>
  BY DEF ReadCompletion
<1>2. turnId' \in TurnIds \ {NoTurn} /\ (turnId # NoTurn => turnId' = turnId)
  BY <1>1, MessagesRead, IdentityIsKept DEF ReadsNext
<1>3. queue' \in Seq(Messages)
  BY <1>1 DEF ReadsNext, TurnTypeOK, SessionType
<1>4. writerEntered
  BY <1>1 DEF Valid
<1> QED BY <1>1, <1>2, <1>3, <1>4 DEF ReadsNext

\* A message that does not end the turn may begin it.
LEMMA ProgressIsNamed ==
    ASSUME TurnTypeOK, ReadProgress
    PROVE  /\ reader = "reading"
           /\ turnId' \in TurnIds /\ (turnId # NoTurn => turnId' = turnId)
           /\ queue' \in Seq(Messages)
           /\ rebase' \in BOOLEAN /\ unfinished' \in BOOLEAN
           /\ UNCHANGED <<connection, sent, response, terminal, error, returned, flags,
                          submit, sender, reader, closeTask, control, cancels, written>>
           /\ \/ UNCHANGED <<submission, accepted>>
              \/ /\ writerEntered /\ turnId' # NoTurn
                 /\ submission' = Accepted(turnId')
                 /\ accepted' \in {accepted, submission'}
<1>1. PICK m \in Messages :
          /\ Valid(m) /\ m.kind # "end" /\ ReadsNext(m)
          /\ rebase' = (rebase /\ m.kind # "usage")
          /\ unfinished' = IF m.kind = "item" THEN m.open ELSE unfinished
          /\ IF m.kind = "begin"
             THEN submission' = Accepted(turnId') /\ Resolve(submission')
             ELSE UNCHANGED <<submission, accepted>>
  BY DEF ReadProgress
<1>2. turnId' \in TurnIds /\ (turnId # NoTurn => turnId' = turnId)
      /\ (m.kind = "begin" => turnId' # NoTurn)
  BY <1>1, MessagesRead, IdentityIsKept DEF ReadsNext
<1>3. queue' \in Seq(Messages)
  BY <1>1 DEF ReadsNext, TurnTypeOK, SessionType
<1>4. m.kind = "begin" => writerEntered
  BY <1>1 DEF Valid
<1>5. rebase' \in BOOLEAN /\ unfinished' \in BOOLEAN
  BY <1>1, MessagesRead DEF TurnTypeOK, SessionType
<1>6. UNCHANGED <<terminal, error, revoked, finished, reader, cancels>>
  BY DEF ReadProgress
<1> QED BY <1>1, <1>2, <1>3, <1>4, <1>5, <1>6 DEF ReadsNext, Resolve, flags
-----------------------------------------------------------------------------
LEMMA SessionTypeStep == TurnTypeOK /\ [TurnNext]_turnVars => SessionType'
<1> SUFFICES ASSUME TurnTypeOK, [TurnNext]_turnVars PROVE SessionType'
  OBVIOUS
<1> USE DEF TurnTypeOK, SessionType, Links, session, evidence, flags, tasks
<1>1. CASE UNCHANGED turnVars
  BY <1>1 DEF turnVars
<1>2. CASE ServerSends \/ ServerResponds \/ LinkFails \/ LinkCloses
  BY <1>2 DEF ServerSends, ServerResponds, LinkFails, LinkCloses
<1>3. CASE CallControl
  BY <1>3 DEF CallControl
<1>4. CASE ControlWrites
  BY <1>4, TurnsAssumption DEF ControlWrites, MayWrite
<1>5. CASE ControlFails \/ TurnRest
  BY <1>5 DEF ControlFails, TurnRest, turnVars
<1>6. CASE SubmitRevoked
  BY <1>6 DEF SubmitRevoked
<1>7. CASE Submit
  BY <1>7 DEF Submit
<1>8. CASE SubmitReturns
  BY <1>8 DEF SubmitReturns
<1>9. CASE CancelSubmit \/ SubmitCancelled
  BY <1>9 DEF CancelSubmit, SubmitCancelled, RequestClose
<1>10. CASE Revoke
  BY <1>10 DEF Revoke
<1>11. CASE CloseTurn
  BY <1>11 DEF CloseTurn, RequestClose
<1>12. CASE SenderStarts \/ SenderSent \/ Settled
  BY <1>12 DEF SenderStarts, SenderSent, Settled, SenderAt
<1>13. CASE EnterWriter
  BY <1>13 DEF EnterWriter, SenderAt, Authority
<1>14. CASE FailBeforeWriter \/ FailAfterWriter \/ Unacknowledged
  <2>1. CASE UNCHANGED <<submission, accepted>>
    BY <1>14, <2>1, SenderFails
  <2>2. CASE ~ UNCHANGED <<submission, accepted>>
    BY <1>14, <2>2, SenderFails DEF StillUncertain
  <2> QED BY <1>14, <2>1, <2>2, SenderFails
<1>15. CASE Acknowledged
  BY <1>15, AcknowledgedIsNamed
<1>16. CASE SenderCancelled
  BY <1>16 DEF SenderCancelled, Resolve
<1>17. CASE ReadFailure \/ ReadDefect \/ ReaderCancelled \/ DeadlinePasses
  <2>1. PICK latest : ReaderEnds(latest) /\ \/ latest = submission
                                             \/ /\ submission.tag # "accepted"
                                                /\ latest = IF writerEntered
                                                            THEN Uncertain(TurnRef(turnId'))
                                                            ELSE None
    BY <1>17, ReaderStops
  <2> QED BY <1>17, <2>1, ReaderStops, ReaderEndsOnce, TurnRefIsSeen
<1>18. CASE ReadProgress
  BY <1>18, ProgressIsNamed
<1>19. CASE ReadCompletion
  BY <1>19, CompletionIsNative, ReaderEndsOnce
<1>20. CASE ReaderQuiesces
  BY <1>20 DEF ReaderQuiesces, Resolve
<1>21. CASE CloseBegins
  BY <1>21 DEF CloseBegins
<1>22. CASE CloseAwaitsReader
  BY <1>22 DEF CloseAwaitsReader
<1>23. CASE CloseStopsReader
  BY <1>23 DEF CloseStopsReader
<1>24. CASE CloseKeeps
  BY <1>24 DEF CloseKeeps, EndClose, Quiet, NeedsDiscard
<1>25. CASE CloseFinishes
  BY <1>25 DEF CloseFinishes, EndClose
<1>26. CASE CloseDiscards
  BY <1>26 DEF CloseDiscards, Quiet, CloseClient, NeedsDiscard
<1>27. CASE CloseInterrupts
  BY <1>27 DEF CloseInterrupts, CloseClient
<1> QED
  BY <1>1, <1>2, <1>3, <1>4, <1>5, <1>6, <1>7, <1>8, <1>9, <1>10, <1>11, <1>12, <1>13, <1>14,
     <1>15, <1>16, <1>17, <1>18, <1>19, <1>20, <1>21, <1>22, <1>23, <1>24, <1>25, <1>26, <1>27
     DEF TurnNext, Sender, ReadTask, CloseTask

LEMMA EvidenceTypeStep == TurnTypeOK /\ [TurnNext]_turnVars => EvidenceType'
<1> SUFFICES ASSUME TurnTypeOK, [TurnNext]_turnVars PROVE EvidenceType'
  OBVIOUS
<1> USE DEF TurnTypeOK, SessionType, EvidenceType, session, evidence, flags, tasks
<1>1. CASE UNCHANGED turnVars
  BY <1>1, EvidenceBuilt, SealsBuilt DEF turnVars
<1>2. CASE ServerSends \/ ServerResponds \/ LinkFails \/ LinkCloses
  BY <1>2, EvidenceBuilt, SealsBuilt DEF ServerSends, ServerResponds, LinkFails, LinkCloses
<1>3. CASE CallControl
  BY <1>3, EvidenceBuilt, SealsBuilt DEF CallControl
<1>4. CASE ControlWrites
  BY <1>4, TurnsAssumption, EvidenceBuilt, SealsBuilt DEF ControlWrites, MayWrite
<1>5. CASE ControlFails \/ TurnRest
  BY <1>5, EvidenceBuilt, SealsBuilt DEF ControlFails, TurnRest, turnVars
<1>6. CASE SubmitRevoked
  BY <1>6, EvidenceBuilt, SealsBuilt DEF SubmitRevoked
<1>7. CASE Submit
  BY <1>7, EvidenceBuilt, SealsBuilt DEF Submit
<1>8. CASE SubmitReturns
  BY <1>8, EvidenceBuilt, SealsBuilt DEF SubmitReturns
<1>9. CASE CancelSubmit \/ SubmitCancelled
  BY <1>9, EvidenceBuilt, SealsBuilt DEF CancelSubmit, SubmitCancelled, RequestClose
<1>10. CASE Revoke
  BY <1>10, EvidenceBuilt, SealsBuilt DEF Revoke
<1>11. CASE CloseTurn
  BY <1>11, EvidenceBuilt, SealsBuilt DEF CloseTurn, RequestClose
<1>12. CASE SenderStarts \/ SenderSent \/ Settled
  BY <1>12, EvidenceBuilt, SealsBuilt DEF SenderStarts, SenderSent, Settled, SenderAt
<1>13. CASE EnterWriter
  BY <1>13, EvidenceBuilt, SealsBuilt DEF EnterWriter, SenderAt, Authority
<1>14. CASE FailBeforeWriter \/ FailAfterWriter \/ Unacknowledged
  <2>1. CASE UNCHANGED <<submission, accepted>>
    BY <1>14, <2>1, SenderFails, EvidenceBuilt, SealsBuilt
  <2>2. CASE ~ UNCHANGED <<submission, accepted>>
    <3>1. /\ terminal = NoTerminal /\ submission.tag # "accepted"
          /\ ~ writerEntered => submission' = NotSubmitted
          /\ writerEntered => StillUncertain(submission')
          /\ {submission', accepted'} \subseteq Evidence
          /\ accepted' \in {accepted, submission'}
      BY <1>14, <2>2, SenderFails
    <3> QED BY <1>14, <3>1, SenderFails, EvidenceBuilt, SealsBuilt DEF StillUncertain
  <2> QED BY <1>14, <2>1, <2>2, SenderFails
<1>15. CASE Acknowledged
  BY <1>15, AcknowledgedIsNamed, EvidenceBuilt, SealsBuilt
<1>16. CASE SenderCancelled
  BY <1>16, EvidenceBuilt, SealsBuilt DEF SenderCancelled, Resolve
<1>17. CASE ReadFailure \/ ReadDefect \/ ReaderCancelled \/ DeadlinePasses
  <2>1. PICK latest : ReaderEnds(latest) /\ \/ latest = submission
                                             \/ /\ submission.tag # "accepted"
                                                /\ latest = IF writerEntered
                                                            THEN Uncertain(TurnRef(turnId'))
                                                            ELSE None
    BY <1>17, ReaderStops
  <2> QED BY <1>17, <2>1, ReaderStops, ReaderEndsOnce, TurnRefIsSeen, EvidenceBuilt, SealsBuilt
<1>18. CASE ReadProgress
  BY <1>18, ProgressIsNamed, EvidenceBuilt, SealsBuilt
<1>19. CASE ReadCompletion
  BY <1>19, CompletionIsNative, ReaderEndsOnce, EvidenceBuilt, SealsBuilt
<1>20. CASE ReaderQuiesces
  BY <1>20, EvidenceBuilt, SealsBuilt DEF ReaderQuiesces, Resolve
<1>21. CASE CloseBegins
  BY <1>21, EvidenceBuilt, SealsBuilt DEF CloseBegins
<1>22. CASE CloseAwaitsReader
  BY <1>22, EvidenceBuilt, SealsBuilt DEF CloseAwaitsReader
<1>23. CASE CloseStopsReader
  BY <1>23, EvidenceBuilt, SealsBuilt DEF CloseStopsReader
<1>24. CASE CloseKeeps
  BY <1>24, EvidenceBuilt, SealsBuilt DEF CloseKeeps, EndClose, Quiet, NeedsDiscard
<1>25. CASE CloseFinishes
  BY <1>25, EvidenceBuilt, SealsBuilt DEF CloseFinishes, EndClose
<1>26. CASE CloseDiscards
  BY <1>26, EvidenceBuilt, SealsBuilt DEF CloseDiscards, Quiet, CloseClient, NeedsDiscard
<1>27. CASE CloseInterrupts
  BY <1>27, EvidenceBuilt, SealsBuilt DEF CloseInterrupts, CloseClient
<1> QED
  BY <1>1, <1>2, <1>3, <1>4, <1>5, <1>6, <1>7, <1>8, <1>9, <1>10, <1>11, <1>12, <1>13, <1>14,
     <1>15, <1>16, <1>17, <1>18, <1>19, <1>20, <1>21, <1>22, <1>23, <1>24, <1>25, <1>26, <1>27
     DEF TurnNext, Sender, ReadTask, CloseTask

LEMMA TaskTypeStep == TurnTypeOK /\ [TurnNext]_turnVars => TaskType'
<1> SUFFICES ASSUME TurnTypeOK, [TurnNext]_turnVars PROVE TaskType'
  OBVIOUS
<1> USE DEF TurnTypeOK, TaskType, SenderStates, CloserStates, Gone, session, evidence, flags, tasks
<1>1. CASE UNCHANGED turnVars
  BY <1>1, TurnsAssumption DEF turnVars
<1>2. CASE ServerSends \/ ServerResponds \/ LinkFails \/ LinkCloses
  <2>1. UNCHANGED <<flags, tasks, written>>
    BY <1>2 DEF ServerSends, ServerResponds, LinkFails, LinkCloses
  <2> QED BY <2>1
<1>3. CASE CallControl
  BY <1>3, TurnsAssumption DEF CallControl
<1>4. CASE ControlWrites
  BY <1>4, TurnsAssumption, TurnsAssumption DEF ControlWrites, MayWrite
<1>5. CASE ControlFails \/ TurnRest
  <2>1. /\ UNCHANGED <<flags, submit, sender, reader, closeTask, cancels, written>>
        /\ control' \in {"idle", control}
    BY <1>5 DEF ControlFails, TurnRest, turnVars
  <2> QED BY <2>1
<1>6. CASE SubmitRevoked
  BY <1>6, TurnsAssumption DEF SubmitRevoked
<1>7. CASE Submit
  BY <1>7, TurnsAssumption DEF Submit
<1>8. CASE SubmitReturns
  BY <1>8, TurnsAssumption DEF SubmitReturns
<1>9. CASE CancelSubmit \/ SubmitCancelled
  BY <1>9, TurnsAssumption DEF CancelSubmit, SubmitCancelled, RequestClose
<1>10. CASE Revoke
  BY <1>10, TurnsAssumption DEF Revoke
<1>11. CASE CloseTurn
  BY <1>11, TurnsAssumption DEF CloseTurn, RequestClose
<1>12. CASE SenderStarts \/ SenderSent \/ Settled
  BY <1>12, TurnsAssumption DEF SenderStarts, SenderSent, Settled, SenderAt
<1>13. CASE EnterWriter
  BY <1>13, TurnsAssumption DEF EnterWriter, SenderAt, Authority
<1>14. CASE FailBeforeWriter \/ FailAfterWriter \/ Unacknowledged
  <2>1. CASE UNCHANGED <<submission, accepted>>
    BY <1>14, <2>1, SenderFails, TurnsAssumption
  <2>2. CASE ~ UNCHANGED <<submission, accepted>>
    BY ZenonT(40), <1>14, <2>2, SenderFails, TurnsAssumption DEF StillUncertain
  <2> QED BY <1>14, <2>1, <2>2, SenderFails
<1>15. CASE Acknowledged
  BY <1>15, AcknowledgedIsNamed, TurnsAssumption
<1>16. CASE SenderCancelled
  BY <1>16, TurnsAssumption DEF SenderCancelled, Resolve
<1>17. CASE ReadFailure \/ ReadDefect \/ ReaderCancelled \/ DeadlinePasses
  <2>1. PICK latest : ReaderEnds(latest) /\ \/ latest = submission
                                             \/ /\ submission.tag # "accepted"
                                                /\ latest = IF writerEntered
                                                            THEN Uncertain(TurnRef(turnId'))
                                                            ELSE None
    BY <1>17, ReaderStops
  <2> QED BY ZenonT(40), <1>17, <2>1, ReaderStops, ReaderEndsOnce, TurnRefIsSeen, TurnsAssumption
<1>18. CASE ReadProgress
  BY <1>18, ProgressIsNamed, TurnsAssumption
<1>19. CASE ReadCompletion
  BY <1>19, CompletionIsNative, ReaderEndsOnce, TurnsAssumption
<1>20. CASE ReaderQuiesces
  BY <1>20, TurnsAssumption DEF ReaderQuiesces, Resolve
<1>21. CASE CloseBegins
  BY <1>21, TurnsAssumption DEF CloseBegins
<1>22. CASE CloseAwaitsReader
  BY <1>22, TurnsAssumption DEF CloseAwaitsReader
<1>23. CASE CloseStopsReader
  BY <1>23, TurnsAssumption DEF CloseStopsReader
<1>24. CASE CloseKeeps
  BY <1>24, TurnsAssumption DEF CloseKeeps, EndClose, Quiet, NeedsDiscard
<1>25. CASE CloseFinishes
  BY <1>25, TurnsAssumption DEF CloseFinishes, EndClose
<1>26. CASE CloseDiscards
  BY <1>26, TurnsAssumption DEF CloseDiscards, Quiet, CloseClient, NeedsDiscard
<1>27. CASE CloseInterrupts
  BY <1>27, TurnsAssumption DEF CloseInterrupts, CloseClient
<1> QED
  BY <1>1, <1>2, <1>3, <1>4, <1>5, <1>6, <1>7, <1>8, <1>9, <1>10, <1>11, <1>12, <1>13, <1>14,
     <1>15, <1>16, <1>17, <1>18, <1>19, <1>20, <1>21, <1>22, <1>23, <1>24, <1>25, <1>26, <1>27
     DEF TurnNext, Sender, ReadTask, CloseTask

LEMMA WriterStep == TurnInv /\ [TurnNext]_turnVars => Writer'
<1> SUFFICES ASSUME TurnInv, [TurnNext]_turnVars PROVE Writer'
  OBVIOUS
<1> USE DEF TurnInv, TurnTypeOK, SessionType, EvidenceType, TaskType, Writer, Naming, Ordering,
       Release, SurvivorIsIdle, WillNotWrite, Gone, session, evidence, flags, tasks
<1>1. CASE UNCHANGED turnVars
  BY <1>1, EvidenceBuilt, EvidenceRead, TagsDiffer, SealsRead, SealsBuilt DEF turnVars
<1>2. CASE ServerSends \/ ServerResponds \/ LinkFails \/ LinkCloses
  BY <1>2, EvidenceBuilt, EvidenceRead, TagsDiffer, SealsRead, SealsBuilt DEF ServerSends,
     ServerResponds, LinkFails, LinkCloses
<1>3. CASE CallControl
  BY <1>3, EvidenceBuilt, EvidenceRead, TagsDiffer, SealsRead, SealsBuilt DEF CallControl
<1>4. CASE ControlWrites
  BY <1>4, TurnsAssumption, EvidenceBuilt, EvidenceRead, TagsDiffer, SealsRead, SealsBuilt
     DEF ControlWrites, MayWrite
<1>5. CASE ControlFails \/ TurnRest
  BY <1>5, EvidenceBuilt, EvidenceRead, TagsDiffer, SealsRead, SealsBuilt DEF ControlFails,
     TurnRest, turnVars
<1>6. CASE SubmitRevoked
  BY <1>6, EvidenceBuilt, EvidenceRead, TagsDiffer, SealsRead, SealsBuilt DEF SubmitRevoked
<1>7. CASE Submit
  BY <1>7, EvidenceBuilt, EvidenceRead, TagsDiffer, SealsRead, SealsBuilt DEF Submit
<1>8. CASE SubmitReturns
  BY <1>8, EvidenceBuilt, EvidenceRead, TagsDiffer, SealsRead, SealsBuilt DEF SubmitReturns
<1>9. CASE CancelSubmit \/ SubmitCancelled
  BY <1>9, EvidenceBuilt, EvidenceRead, TagsDiffer, SealsRead, SealsBuilt DEF CancelSubmit,
     SubmitCancelled, RequestClose
<1>10. CASE Revoke
  BY <1>10, EvidenceBuilt, EvidenceRead, TagsDiffer, SealsRead, SealsBuilt DEF Revoke
<1>11. CASE CloseTurn
  BY <1>11, EvidenceBuilt, EvidenceRead, TagsDiffer, SealsRead, SealsBuilt DEF CloseTurn,
     RequestClose
<1>12. CASE SenderStarts \/ SenderSent \/ Settled
  BY <1>12, EvidenceBuilt, EvidenceRead, TagsDiffer, SealsRead, SealsBuilt DEF SenderStarts,
     SenderSent, Settled, SenderAt
<1>13. CASE EnterWriter
  BY <1>13, EvidenceBuilt, EvidenceRead, TagsDiffer, SealsRead, SealsBuilt DEF EnterWriter,
     SenderAt, Authority
<1>14. CASE FailBeforeWriter \/ FailAfterWriter \/ Unacknowledged
  <2>1. CASE UNCHANGED <<submission, accepted>>
    BY <1>14, <2>1, SenderFails, EvidenceBuilt, EvidenceRead, TagsDiffer, SealsRead, SealsBuilt
  <2>2. CASE ~ UNCHANGED <<submission, accepted>>
    <3>1. /\ terminal = NoTerminal /\ submission.tag # "accepted"
          /\ ~ writerEntered => submission' = NotSubmitted
          /\ writerEntered => StillUncertain(submission')
          /\ {submission', accepted'} \subseteq Evidence
          /\ accepted' \in {accepted, submission'}
      BY <1>14, <2>2, SenderFails
    <3> QED BY <1>14, <3>1, SenderFails, EvidenceBuilt, EvidenceRead, TagsDiffer, SealsRead,
               SealsBuilt DEF StillUncertain
  <2> QED BY <1>14, <2>1, <2>2, SenderFails
<1>15. CASE Acknowledged
  BY <1>15, AcknowledgedIsNamed, EvidenceBuilt, EvidenceRead, TagsDiffer, SealsRead, SealsBuilt
<1>16. CASE SenderCancelled
  BY <1>16, EvidenceBuilt, EvidenceRead, TagsDiffer, SealsRead, SealsBuilt
     DEF SenderCancelled, Resolve
<1>17. CASE ReadFailure \/ ReadDefect \/ ReaderCancelled \/ DeadlinePasses
  <2>1. PICK latest : ReaderEnds(latest) /\ \/ latest = submission
                                             \/ /\ submission.tag # "accepted"
                                                /\ latest = IF writerEntered
                                                            THEN Uncertain(TurnRef(turnId'))
                                                            ELSE None
    BY <1>17, ReaderStops
  <2> QED BY <1>17, <2>1, ReaderStops, ReaderEndsOnce, TurnRefIsSeen, EvidenceBuilt,
             EvidenceRead, TagsDiffer, SealsRead, SealsBuilt
<1>18. CASE ReadProgress
  BY <1>18, ProgressIsNamed, EvidenceBuilt, EvidenceRead, TagsDiffer, SealsRead, SealsBuilt
<1>19. CASE ReadCompletion
  BY <1>19, CompletionIsNative, ReaderEndsOnce, EvidenceBuilt, EvidenceRead, TagsDiffer,
     SealsRead, SealsBuilt
<1>20. CASE ReaderQuiesces
  BY <1>20, EvidenceBuilt, EvidenceRead, TagsDiffer, SealsRead, SealsBuilt DEF ReaderQuiesces,
     Resolve
<1>21. CASE CloseBegins
  BY <1>21, EvidenceBuilt, EvidenceRead, TagsDiffer, SealsRead, SealsBuilt DEF CloseBegins
<1>22. CASE CloseAwaitsReader
  BY <1>22, EvidenceBuilt, EvidenceRead, TagsDiffer, SealsRead, SealsBuilt DEF CloseAwaitsReader
<1>23. CASE CloseStopsReader
  BY <1>23, EvidenceBuilt, EvidenceRead, TagsDiffer, SealsRead, SealsBuilt DEF CloseStopsReader
<1>24. CASE CloseKeeps
  BY <1>24, EvidenceBuilt, EvidenceRead, TagsDiffer, SealsRead, SealsBuilt DEF CloseKeeps,
     EndClose, Quiet, NeedsDiscard
<1>25. CASE CloseFinishes
  BY <1>25, EvidenceBuilt, EvidenceRead, TagsDiffer, SealsRead, SealsBuilt DEF CloseFinishes,
     EndClose
<1>26. CASE CloseDiscards
  BY <1>26, EvidenceBuilt, EvidenceRead, TagsDiffer, SealsRead, SealsBuilt DEF CloseDiscards,
     Quiet, CloseClient, NeedsDiscard
<1>27. CASE CloseInterrupts
  BY <1>27, EvidenceBuilt, EvidenceRead, TagsDiffer, SealsRead, SealsBuilt
     DEF CloseInterrupts, CloseClient
<1> QED
  BY <1>1, <1>2, <1>3, <1>4, <1>5, <1>6, <1>7, <1>8, <1>9, <1>10, <1>11, <1>12, <1>13, <1>14,
     <1>15, <1>16, <1>17, <1>18, <1>19, <1>20, <1>21, <1>22, <1>23, <1>24, <1>25, <1>26, <1>27
     DEF TurnNext, Sender, ReadTask, CloseTask

LEMMA NamingStep == TurnInv /\ [TurnNext]_turnVars => Naming'
<1> SUFFICES ASSUME TurnInv, [TurnNext]_turnVars PROVE Naming'
  OBVIOUS
<1> USE DEF TurnInv, TurnTypeOK, SessionType, EvidenceType, TaskType, Writer, Naming, Ordering,
       Release, SurvivorIsIdle, WillNotWrite, Gone, session, evidence, flags, tasks
<1>1. CASE UNCHANGED turnVars
  BY <1>1, EvidenceBuilt, EvidenceRead, TagsDiffer, SealsRead, SealsBuilt DEF turnVars
<1>2. CASE ServerSends \/ ServerResponds \/ LinkFails \/ LinkCloses
  BY <1>2, EvidenceBuilt, EvidenceRead, TagsDiffer, SealsRead, SealsBuilt DEF ServerSends,
     ServerResponds, LinkFails, LinkCloses
<1>3. CASE CallControl
  BY <1>3, EvidenceBuilt, EvidenceRead, TagsDiffer, SealsRead, SealsBuilt DEF CallControl
<1>4. CASE ControlWrites
  BY <1>4, TurnsAssumption, EvidenceBuilt, EvidenceRead, TagsDiffer, SealsRead, SealsBuilt
     DEF ControlWrites, MayWrite
<1>5. CASE ControlFails \/ TurnRest
  BY <1>5, EvidenceBuilt, EvidenceRead, TagsDiffer, SealsRead, SealsBuilt DEF ControlFails,
     TurnRest, turnVars
<1>6. CASE SubmitRevoked
  BY <1>6, EvidenceBuilt, EvidenceRead, TagsDiffer, SealsRead, SealsBuilt DEF SubmitRevoked
<1>7. CASE Submit
  BY <1>7, EvidenceBuilt, EvidenceRead, TagsDiffer, SealsRead, SealsBuilt DEF Submit
<1>8. CASE SubmitReturns
  BY <1>8, EvidenceBuilt, EvidenceRead, TagsDiffer, SealsRead, SealsBuilt DEF SubmitReturns
<1>9. CASE CancelSubmit \/ SubmitCancelled
  BY <1>9, EvidenceBuilt, EvidenceRead, TagsDiffer, SealsRead, SealsBuilt DEF CancelSubmit,
     SubmitCancelled, RequestClose
<1>10. CASE Revoke
  BY <1>10, EvidenceBuilt, EvidenceRead, TagsDiffer, SealsRead, SealsBuilt DEF Revoke
<1>11. CASE CloseTurn
  BY <1>11, EvidenceBuilt, EvidenceRead, TagsDiffer, SealsRead, SealsBuilt DEF CloseTurn,
     RequestClose
<1>12. CASE SenderStarts \/ SenderSent \/ Settled
  BY <1>12, EvidenceBuilt, EvidenceRead, TagsDiffer, SealsRead, SealsBuilt DEF SenderStarts,
     SenderSent, Settled, SenderAt
<1>13. CASE EnterWriter
  BY <1>13, EvidenceBuilt, EvidenceRead, TagsDiffer, SealsRead, SealsBuilt DEF EnterWriter,
     SenderAt, Authority
<1>14. CASE FailBeforeWriter \/ FailAfterWriter \/ Unacknowledged
  <2>1. CASE UNCHANGED <<submission, accepted>>
    BY <1>14, <2>1, SenderFails, EvidenceBuilt, EvidenceRead, TagsDiffer, SealsRead, SealsBuilt
  <2>2. CASE ~ UNCHANGED <<submission, accepted>>
    <3>1. /\ terminal = NoTerminal /\ submission.tag # "accepted"
          /\ ~ writerEntered => submission' = NotSubmitted
          /\ writerEntered => StillUncertain(submission')
          /\ {submission', accepted'} \subseteq Evidence
          /\ accepted' \in {accepted, submission'}
      BY <1>14, <2>2, SenderFails
    <3> QED BY <1>14, <3>1, SenderFails, EvidenceBuilt, EvidenceRead, TagsDiffer, SealsRead,
               SealsBuilt DEF StillUncertain
  <2> QED BY <1>14, <2>1, <2>2, SenderFails
<1>15. CASE Acknowledged
  BY <1>15, AcknowledgedIsNamed, EvidenceBuilt, EvidenceRead, TagsDiffer, SealsRead, SealsBuilt
<1>16. CASE SenderCancelled
  BY <1>16, EvidenceBuilt, EvidenceRead, TagsDiffer, SealsRead, SealsBuilt
     DEF SenderCancelled, Resolve
<1>17. CASE ReadFailure \/ ReadDefect \/ ReaderCancelled \/ DeadlinePasses
  <2>1. PICK latest : ReaderEnds(latest) /\ \/ latest = submission
                                             \/ /\ submission.tag # "accepted"
                                                /\ latest = IF writerEntered
                                                            THEN Uncertain(TurnRef(turnId'))
                                                            ELSE None
    BY <1>17, ReaderStops
  <2> QED BY <1>17, <2>1, ReaderStops, ReaderEndsOnce, TurnRefIsSeen, EvidenceBuilt,
             EvidenceRead, TagsDiffer, SealsRead, SealsBuilt
<1>18. CASE ReadProgress
  BY <1>18, ProgressIsNamed, EvidenceBuilt, EvidenceRead, TagsDiffer, SealsRead, SealsBuilt
<1>19. CASE ReadCompletion
  BY <1>19, CompletionIsNative, ReaderEndsOnce, EvidenceBuilt, EvidenceRead, TagsDiffer,
     SealsRead, SealsBuilt
<1>20. CASE ReaderQuiesces
  BY <1>20, EvidenceBuilt, EvidenceRead, TagsDiffer, SealsRead, SealsBuilt DEF ReaderQuiesces,
     Resolve
<1>21. CASE CloseBegins
  BY <1>21, EvidenceBuilt, EvidenceRead, TagsDiffer, SealsRead, SealsBuilt DEF CloseBegins
<1>22. CASE CloseAwaitsReader
  BY <1>22, EvidenceBuilt, EvidenceRead, TagsDiffer, SealsRead, SealsBuilt DEF CloseAwaitsReader
<1>23. CASE CloseStopsReader
  BY <1>23, EvidenceBuilt, EvidenceRead, TagsDiffer, SealsRead, SealsBuilt DEF CloseStopsReader
<1>24. CASE CloseKeeps
  BY <1>24, EvidenceBuilt, EvidenceRead, TagsDiffer, SealsRead, SealsBuilt DEF CloseKeeps,
     EndClose, Quiet, NeedsDiscard
<1>25. CASE CloseFinishes
  BY <1>25, EvidenceBuilt, EvidenceRead, TagsDiffer, SealsRead, SealsBuilt DEF CloseFinishes,
     EndClose
<1>26. CASE CloseDiscards
  BY <1>26, EvidenceBuilt, EvidenceRead, TagsDiffer, SealsRead, SealsBuilt DEF CloseDiscards,
     Quiet, CloseClient, NeedsDiscard
<1>27. CASE CloseInterrupts
  BY <1>27, EvidenceBuilt, EvidenceRead, TagsDiffer, SealsRead, SealsBuilt
     DEF CloseInterrupts, CloseClient
<1> QED
  BY <1>1, <1>2, <1>3, <1>4, <1>5, <1>6, <1>7, <1>8, <1>9, <1>10, <1>11, <1>12, <1>13, <1>14,
     <1>15, <1>16, <1>17, <1>18, <1>19, <1>20, <1>21, <1>22, <1>23, <1>24, <1>25, <1>26, <1>27
     DEF TurnNext, Sender, ReadTask, CloseTask

LEMMA OrderingStep == TurnInv /\ [TurnNext]_turnVars => Ordering'
<1> SUFFICES ASSUME TurnInv, [TurnNext]_turnVars PROVE Ordering'
  OBVIOUS
<1> USE DEF TurnInv, TurnTypeOK, SessionType, EvidenceType, TaskType, Writer, Naming, Ordering,
       Release, SurvivorIsIdle, WillNotWrite, Gone, session, evidence, flags, tasks
<1>1. CASE UNCHANGED turnVars
  BY <1>1 DEF turnVars
<1>2. CASE ServerSends \/ ServerResponds \/ LinkFails \/ LinkCloses
  BY <1>2 DEF ServerSends, ServerResponds, LinkFails, LinkCloses
<1>3. CASE CallControl
  BY <1>3 DEF CallControl
<1>4. CASE ControlWrites
  BY <1>4, TurnsAssumption DEF ControlWrites, MayWrite
<1>5. CASE ControlFails \/ TurnRest
  BY <1>5 DEF ControlFails, TurnRest, turnVars
<1>6. CASE SubmitRevoked
  BY <1>6 DEF SubmitRevoked
<1>7. CASE Submit
  BY <1>7 DEF Submit
<1>8. CASE SubmitReturns
  BY <1>8 DEF SubmitReturns
<1>9. CASE CancelSubmit \/ SubmitCancelled
  BY <1>9 DEF CancelSubmit, SubmitCancelled, RequestClose
<1>10. CASE Revoke
  BY <1>10 DEF Revoke
<1>11. CASE CloseTurn
  BY <1>11 DEF CloseTurn, RequestClose
<1>12. CASE SenderStarts \/ SenderSent \/ Settled
  BY <1>12 DEF SenderStarts, SenderSent, Settled, SenderAt
<1>13. CASE EnterWriter
  BY <1>13 DEF EnterWriter, SenderAt, Authority
<1>14. CASE FailBeforeWriter \/ FailAfterWriter \/ Unacknowledged
  <2>1. CASE UNCHANGED <<submission, accepted>>
    BY <1>14, <2>1, SenderFails
  <2>2. CASE ~ UNCHANGED <<submission, accepted>>
    BY <1>14, <2>2, SenderFails DEF StillUncertain
  <2> QED BY <1>14, <2>1, <2>2, SenderFails
<1>15. CASE Acknowledged
  BY <1>15, AcknowledgedIsNamed
<1>16. CASE SenderCancelled
  BY <1>16 DEF SenderCancelled, Resolve
<1>17. CASE ReadFailure \/ ReadDefect \/ ReaderCancelled \/ DeadlinePasses
  <2>1. PICK latest : ReaderEnds(latest) /\ \/ latest = submission
                                             \/ /\ submission.tag # "accepted"
                                                /\ latest = IF writerEntered
                                                            THEN Uncertain(TurnRef(turnId'))
                                                            ELSE None
    BY <1>17, ReaderStops
  <2> QED BY <1>17, <2>1, ReaderStops, ReaderEndsOnce, TurnRefIsSeen
<1>18. CASE ReadProgress
  BY <1>18, ProgressIsNamed
<1>19. CASE ReadCompletion
  BY <1>19, CompletionIsNative, ReaderEndsOnce
<1>20. CASE ReaderQuiesces
  BY <1>20 DEF ReaderQuiesces, Resolve
<1>21. CASE CloseBegins
  BY <1>21 DEF CloseBegins
<1>22. CASE CloseAwaitsReader
  BY <1>22 DEF CloseAwaitsReader
<1>23. CASE CloseStopsReader
  BY <1>23 DEF CloseStopsReader
<1>24. CASE CloseKeeps
  BY <1>24 DEF CloseKeeps, EndClose, Quiet, NeedsDiscard
<1>25. CASE CloseFinishes
  BY <1>25 DEF CloseFinishes, EndClose
<1>26. CASE CloseDiscards
  BY <1>26 DEF CloseDiscards, Quiet, CloseClient, NeedsDiscard
<1>27. CASE CloseInterrupts
  BY <1>27 DEF CloseInterrupts, CloseClient
<1> QED
  BY <1>1, <1>2, <1>3, <1>4, <1>5, <1>6, <1>7, <1>8, <1>9, <1>10, <1>11, <1>12, <1>13, <1>14,
     <1>15, <1>16, <1>17, <1>18, <1>19, <1>20, <1>21, <1>22, <1>23, <1>24, <1>25, <1>26, <1>27
     DEF TurnNext, Sender, ReadTask, CloseTask

LEMMA ReleaseStep == TurnInv /\ [TurnNext]_turnVars => Release'
<1> SUFFICES ASSUME TurnInv, [TurnNext]_turnVars PROVE Release'
  OBVIOUS
<1> USE DEF TurnInv, TurnTypeOK, SessionType, EvidenceType, TaskType, Writer, Naming, Ordering,
       Release, SurvivorIsIdle, WillNotWrite, Gone, session, evidence, flags, tasks
<1>1. CASE UNCHANGED turnVars
  BY <1>1, EvidenceBuilt, EvidenceRead, TagsDiffer, SealsRead, SealsBuilt DEF turnVars
<1>2. CASE ServerSends \/ ServerResponds \/ LinkFails \/ LinkCloses
  BY <1>2, EvidenceBuilt, EvidenceRead, TagsDiffer, SealsRead, SealsBuilt DEF ServerSends,
     ServerResponds, LinkFails, LinkCloses
<1>3. CASE CallControl
  BY <1>3, EvidenceBuilt, EvidenceRead, TagsDiffer, SealsRead, SealsBuilt DEF CallControl
<1>4. CASE ControlWrites
  BY <1>4, TurnsAssumption, EvidenceBuilt, EvidenceRead, TagsDiffer, SealsRead, SealsBuilt
     DEF ControlWrites, MayWrite
<1>5. CASE ControlFails \/ TurnRest
  BY <1>5, EvidenceBuilt, EvidenceRead, TagsDiffer, SealsRead, SealsBuilt DEF ControlFails,
     TurnRest, turnVars
<1>6. CASE SubmitRevoked
  BY <1>6, EvidenceBuilt, EvidenceRead, TagsDiffer, SealsRead, SealsBuilt DEF SubmitRevoked
<1>7. CASE Submit
  BY <1>7, EvidenceBuilt, EvidenceRead, TagsDiffer, SealsRead, SealsBuilt DEF Submit
<1>8. CASE SubmitReturns
  BY <1>8, EvidenceBuilt, EvidenceRead, TagsDiffer, SealsRead, SealsBuilt DEF SubmitReturns
<1>9. CASE CancelSubmit \/ SubmitCancelled
  BY <1>9, EvidenceBuilt, EvidenceRead, TagsDiffer, SealsRead, SealsBuilt DEF CancelSubmit,
     SubmitCancelled, RequestClose
<1>10. CASE Revoke
  BY <1>10, EvidenceBuilt, EvidenceRead, TagsDiffer, SealsRead, SealsBuilt DEF Revoke
<1>11. CASE CloseTurn
  BY <1>11, EvidenceBuilt, EvidenceRead, TagsDiffer, SealsRead, SealsBuilt DEF CloseTurn,
     RequestClose
<1>12. CASE SenderStarts \/ SenderSent \/ Settled
  BY <1>12, EvidenceBuilt, EvidenceRead, TagsDiffer, SealsRead, SealsBuilt DEF SenderStarts,
     SenderSent, Settled, SenderAt
<1>13. CASE EnterWriter
  BY <1>13, EvidenceBuilt, EvidenceRead, TagsDiffer, SealsRead, SealsBuilt DEF EnterWriter,
     SenderAt, Authority
<1>14. CASE FailBeforeWriter \/ FailAfterWriter \/ Unacknowledged
  <2>1. CASE UNCHANGED <<submission, accepted>>
    BY <1>14, <2>1, SenderFails, EvidenceBuilt, EvidenceRead, TagsDiffer, SealsRead, SealsBuilt
  <2>2. CASE ~ UNCHANGED <<submission, accepted>>
    BY <1>14, <2>2, SenderFails, EvidenceBuilt, EvidenceRead, TagsDiffer, SealsRead,
       SealsBuilt DEF StillUncertain
  <2> QED BY <1>14, <2>1, <2>2, SenderFails
<1>15. CASE Acknowledged
  BY <1>15, AcknowledgedIsNamed, EvidenceBuilt, EvidenceRead, TagsDiffer, SealsRead, SealsBuilt
<1>16. CASE SenderCancelled
  BY <1>16, EvidenceBuilt, EvidenceRead, TagsDiffer, SealsRead, SealsBuilt
     DEF SenderCancelled, Resolve
<1>17. CASE ReadFailure \/ ReadDefect \/ ReaderCancelled \/ DeadlinePasses
  <2>1. PICK latest : ReaderEnds(latest) /\ \/ latest = submission
                                             \/ /\ submission.tag # "accepted"
                                                /\ latest = IF writerEntered
                                                            THEN Uncertain(TurnRef(turnId'))
                                                            ELSE None
    BY <1>17, ReaderStops
  <2> QED BY <1>17, <2>1, ReaderStops, ReaderEndsOnce, TurnRefIsSeen, EvidenceBuilt,
             EvidenceRead, TagsDiffer, SealsRead, SealsBuilt
<1>18. CASE ReadProgress
  BY <1>18, ProgressIsNamed, EvidenceBuilt, EvidenceRead, TagsDiffer, SealsRead, SealsBuilt
<1>19. CASE ReadCompletion
  BY <1>19, CompletionIsNative, ReaderEndsOnce, EvidenceBuilt, EvidenceRead, TagsDiffer,
     SealsRead, SealsBuilt
<1>20. CASE ReaderQuiesces
  BY <1>20, EvidenceBuilt, EvidenceRead, TagsDiffer, SealsRead, SealsBuilt DEF ReaderQuiesces,
     Resolve
<1>21. CASE CloseBegins
  BY <1>21, EvidenceBuilt, EvidenceRead, TagsDiffer, SealsRead, SealsBuilt DEF CloseBegins
<1>22. CASE CloseAwaitsReader
  BY <1>22, EvidenceBuilt, EvidenceRead, TagsDiffer, SealsRead, SealsBuilt DEF CloseAwaitsReader
<1>23. CASE CloseStopsReader
  BY <1>23, EvidenceBuilt, EvidenceRead, TagsDiffer, SealsRead, SealsBuilt DEF CloseStopsReader
<1>24. CASE CloseKeeps
  BY <1>24, EvidenceBuilt, EvidenceRead, TagsDiffer, SealsRead, SealsBuilt DEF CloseKeeps,
     EndClose, Quiet, NeedsDiscard
<1>25. CASE CloseFinishes
  BY <1>25, EvidenceBuilt, EvidenceRead, TagsDiffer, SealsRead, SealsBuilt DEF CloseFinishes,
     EndClose
<1>26. CASE CloseDiscards
  BY <1>26, EvidenceBuilt, EvidenceRead, TagsDiffer, SealsRead, SealsBuilt DEF CloseDiscards,
     Quiet, CloseClient, NeedsDiscard
<1>27. CASE CloseInterrupts
  BY <1>27, EvidenceBuilt, EvidenceRead, TagsDiffer, SealsRead, SealsBuilt
     DEF CloseInterrupts, CloseClient
<1> QED
  BY <1>1, <1>2, <1>3, <1>4, <1>5, <1>6, <1>7, <1>8, <1>9, <1>10, <1>11, <1>12, <1>13, <1>14,
     <1>15, <1>16, <1>17, <1>18, <1>19, <1>20, <1>21, <1>22, <1>23, <1>24, <1>25, <1>26, <1>27
     DEF TurnNext, Sender, ReadTask, CloseTask

LEMMA TurnInvInit == TurnInit => TurnInv
<1> SUFFICES ASSUME TurnInit PROVE TurnInv
  OBVIOUS
<1>1. SessionType
  <2>1. queue \in Seq(Messages) /\ response \subseteq Responses
    BY DEF TurnInit
  <2> QED BY <2>1 DEF TurnInit, SessionType, Links, TurnIds
<1>2. EvidenceType
  BY EvidenceBuilt, SealsBuilt DEF TurnInit, EvidenceType
<1>3. TaskType
  BY DEF TurnInit, TaskType, SenderStates, CloserStates
<1>4. Writer /\ Naming
  BY TagsDiffer, SealsBuilt, SealsRead DEF TurnInit, Writer, Naming
<1>5. Ordering /\ Release
  BY DEF TurnInit, Ordering, Release, SurvivorIsIdle, Gone
<1> QED BY <1>1, <1>2, <1>3, <1>4, <1>5 DEF TurnInv, TurnTypeOK

LEMMA TurnInvStep == TurnInv /\ [TurnNext]_turnVars => TurnInv'
BY SessionTypeStep, EvidenceTypeStep, TaskTypeStep, WriterStep, NamingStep,
   OrderingStep, ReleaseStep DEF TurnInv, TurnTypeOK

\* The inductive invariant of a prepared turn.
THEOREM TurnInvariance == TurnSpec => []TurnInv
BY TurnInvInit, TurnInvStep, PTL DEF TurnSpec

-----------------------------------------------------------------------------
\* NotSubmitted is proof that turn/start was not written: of the evidence that
\* any of the tasks settles, and of what submit() returned (codex_sdk.py).
THEOREM NotSubmittedProves == TurnSpec => []NotSubmittedIsProof
<1>1. TurnInv => NotSubmittedIsProof
  BY EvidenceRead DEF TurnInv, TurnTypeOK, EvidenceType, Writer, WillNotWrite, NotSubmittedIsProof
<1> QED BY <1>1, TurnInvariance, PTL

\* What was written leaves an acceptance or an uncertainty behind, and a native
\* seal rests on the acceptance of the turn it names.
THEOREM EvidenceTellsTheTruth == TurnSpec => []EvidenceIsHonest
<1>1. TurnInv => EvidenceIsHonest
  BY SealsRead DEF TurnInv, TurnTypeOK, EvidenceType, Writer, Naming, NoTerminal, EvidenceIsHonest
<1> QED BY <1>1, TurnInvariance, PTL

\* A session that is kept after its turn's close has no turn and no item open.
THEOREM SurvivorsAreIdle == TurnSpec => []SurvivorIsIdle
<1>1. TurnInv => SurvivorIsIdle
  BY DEF TurnInv, Release
<1> QED BY <1>1, TurnInvariance, PTL
-----------------------------------------------------------------------------
\* What one step may make of the evidence.
Sharper ==
    /\ submission.tag = "accepted" => submission' = submission
    /\ submission.tag = "uncertain" =>
        /\ submission'.tag \in {"uncertain", "accepted"}
        /\ submission.turn # NoTurn => submission'.turn = submission.turn
    /\ submission.tag = "not_submitted" => submission'.tag \in {"not_submitted", "none"}

LEMMA SharperStep == TurnInv /\ [TurnNext]_turnVars => Sharper \/ UNCHANGED submission
<1> SUFFICES ASSUME TurnInv, [TurnNext]_turnVars PROVE Sharper \/ UNCHANGED submission
  OBVIOUS
<1>0. /\ TurnTypeOK /\ Writer /\ Naming /\ Ordering
      /\ turnId \in TurnIds /\ submission \in Evidence
  BY DEF TurnInv, TurnTypeOK, SessionType, EvidenceType
<1> USE <1>0 DEF Sharper
<1>1. CASE UNCHANGED turnVars
  BY <1>1 DEF turnVars, evidence
<1>2. CASE ServerSends \/ ServerResponds \/ LinkFails \/ LinkCloses
  BY <1>2 DEF ServerSends, ServerResponds, LinkFails, LinkCloses, evidence
<1>3. CASE Submit \/ SubmitReturns \/ CancelSubmit \/ SubmitCancelled \/ Revoke \/ CloseTurn
  BY <1>3 DEF Submit, SubmitReturns, CancelSubmit, SubmitCancelled, Revoke, CloseTurn, evidence
<1>4. CASE CallControl \/ ControlWrites \/ ControlFails \/ TurnRest
  BY <1>4 DEF CallControl, ControlWrites, ControlFails, TurnRest, turnVars, evidence
<1>5. CASE SubmitRevoked
  BY <1>5, TagsDiffer DEF SubmitRevoked, Writer, Ordering
<1>6. CASE SenderStarts \/ SenderSent \/ Settled
  BY <1>6 DEF SenderStarts, SenderSent, Settled, evidence
<1>7. CASE EnterWriter
  BY <1>7, EvidenceRead DEF EnterWriter, SenderAt, Writer, WillNotWrite
<1>8. CASE FailBeforeWriter \/ FailAfterWriter \/ Unacknowledged
  BY <1>8, SenderFails, TagsDiffer DEF StillUncertain, Writer
<1>9. CASE Acknowledged
  BY <1>9, AcknowledgedIsNamed, EvidenceRead, TagsDiffer DEF Writer, Naming
<1>10. CASE SenderCancelled
  BY <1>10, TagsDiffer DEF SenderCancelled, Writer
<1>11. CASE ReadFailure \/ ReadDefect \/ ReaderCancelled \/ DeadlinePasses
  <2>1. PICK latest :
            /\ ReaderEnds(latest)
            /\ \/ latest = submission
               \/ /\ submission.tag # "accepted"
                  /\ latest = IF writerEntered THEN Uncertain(TurnRef(turnId')) ELSE None
    BY <1>11, ReaderStops
  <2>2. turnId' \in TurnIds /\ (turnId # NoTurn => turnId' = turnId)
    BY <1>11, ReaderStops
  <2> QED BY <2>1, <2>2, ReaderEndsOnce, TurnRefIsSeen, TagsDiffer DEF Writer
<1>12. CASE ReadProgress
  BY <1>12, ProgressIsNamed, EvidenceRead, TagsDiffer DEF Writer, Naming
<1>13. CASE ReadCompletion
  BY <1>13, CompletionIsNative, ReaderEndsOnce, EvidenceRead, TagsDiffer
     DEF Writer, Naming
<1>14. CASE ReaderQuiesces
  BY <1>14, TagsDiffer DEF ReaderQuiesces, Writer, Ordering
<1>15. CASE CloseBegins \/ CloseAwaitsReader \/ CloseStopsReader \/ CloseDiscards
              \/ CloseInterrupts
  BY <1>15 DEF CloseBegins, CloseAwaitsReader, CloseStopsReader, CloseDiscards,
               CloseInterrupts, evidence
<1>16. CASE CloseKeeps \/ CloseFinishes
  BY <1>16, TagsDiffer DEF CloseKeeps, CloseFinishes, EndClose, Writer
<1> QED
  BY <1>1, <1>2, <1>3, <1>4, <1>5, <1>6, <1>7, <1>8, <1>9, <1>10, <1>11, <1>12,
     <1>13, <1>14, <1>15, <1>16 DEF TurnNext, Sender, ReadTask, CloseTask

\* Evidence only sharpens, whichever task settles it (AgentSubmission).
THEOREM EvidenceOnlySharpens == TurnSpec => EvidenceSharpens
<1>1. TurnInv /\ [TurnNext]_turnVars => [Sharper]_submission
  BY SharperStep
<1> QED BY <1>1, TurnInvariance, PTL DEF TurnSpec, EvidenceSharpens, Sharper

-----------------------------------------------------------------------------
\* What a step may do once the slot was given back.
Quieter ==
    released > 0 =>
        /\ released' = 1
        /\ Gone(sender) /\ Gone(reader)
        /\ UNCHANGED <<submission, terminal, writerEntered>>

\* A turn without a sender and a reader has settled its evidence; only a submit
\* that comes too late, or the end of the close, says so again.
LEMMA QuietStep == TurnInv /\ [TurnNext]_turnVars => Quieter
<1> SUFFICES ASSUME TurnInv, [TurnNext]_turnVars, released > 0 PROVE Quieter
  BY DEF Quieter
<1>0. /\ released = 1 /\ Gone(sender) /\ Gone(reader)
      /\ TurnTypeOK /\ Writer /\ Ordering /\ Release
      /\ submission \in Evidence /\ submission.tag = "accepted" => writerEntered
  BY DEF TurnInv, TurnTypeOK, TaskType, EvidenceType, Release, Writer
<1> USE <1>0 DEF Quieter
<1>1. CASE UNCHANGED turnVars
  BY <1>1 DEF turnVars, evidence, flags
<1>2. CASE ServerSends \/ ServerResponds \/ LinkFails \/ LinkCloses
  BY <1>2 DEF ServerSends, ServerResponds, LinkFails, LinkCloses, evidence, flags
<1>3. CASE Submit \/ SubmitReturns \/ CancelSubmit \/ SubmitCancelled \/ Revoke \/ CloseTurn
  BY <1>3 DEF Submit, SubmitReturns, CancelSubmit, SubmitCancelled, Revoke, CloseTurn,
              evidence, flags
<1>4. CASE CallControl \/ ControlWrites \/ ControlFails \/ TurnRest
  BY <1>4 DEF CallControl, ControlWrites, ControlFails, TurnRest, turnVars, evidence, flags
<1>5. CASE SubmitRevoked
  BY <1>5 DEF SubmitRevoked, Writer, Ordering, Release
<1>6. CASE Sender
  BY <1>6, SenderFails, AcknowledgedIsNamed
     DEF Sender, SenderStarts, EnterWriter, SenderSent, Settled, SenderCancelled,
         SenderAt, Gone
<1>7. CASE ReadTask \/ DeadlinePasses
  BY <1>7, ReaderStops, ProgressIsNamed, CompletionIsNative
     DEF ReadTask, ReaderQuiesces, Gone
<1>8. CASE CloseBegins \/ CloseAwaitsReader \/ CloseStopsReader \/ CloseDiscards
             \/ CloseInterrupts
  BY <1>8 DEF CloseBegins, CloseAwaitsReader, CloseStopsReader, CloseDiscards,
              CloseInterrupts, evidence, flags
<1>9. CASE CloseKeeps \/ CloseFinishes
  BY <1>9 DEF CloseKeeps, CloseFinishes, EndClose, Release
<1> QED
  BY <1>1, <1>2, <1>3, <1>4, <1>5, <1>6, <1>7, <1>8, <1>9 DEF TurnNext, CloseTask

\* The slot of the session is given back once, and nothing of the turn is left
\* to change what its evidence says (_release_slot).
THEOREM SlotIsReleasedQuiet == TurnSpec => SlotReleasedQuiet
<1>1. TurnInv /\ [TurnNext]_turnVars => [Quieter]_turnVars
  BY QuietStep
<1> QED BY <1>1, TurnInvariance, PTL DEF TurnSpec, SlotReleasedQuiet, Quieter

=============================================================================
