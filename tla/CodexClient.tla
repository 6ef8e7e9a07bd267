----------------------------- MODULE CodexClient -----------------------------
(***************************************************************************)
(* One Codex app-server connection (codex_app_server.py,                   *)
(* CodexAppServerClient): requests correlated by id, one reader task, one  *)
(* write lock, one queue of messages for one consumer, and a close task.   *)
(* The server answers each request it received at most once and sends what *)
(* it likes besides; the link may drop or stall at any time.               *)
(***************************************************************************)
EXTENDS Naturals, Sequences, FiniteSets

CONSTANTS
    Requests,       \* calls of request()
    Opening,        \* the one of them that selects the thread
    Reader,         \* the reader task
    MaxFrames,      \* bound: frames that are not responses
    QueueLimit,     \* _MAX_EVENT_COUNT = 100_000
    PendingLimit    \* 128

ASSUME ClientAssumption ==
    /\ Opening \in Requests /\ Reader \notin Requests
    /\ MaxFrames \in Nat /\ QueueLimit \in Nat \ {0} /\ PendingLimit \in Nat \ {0}

VARIABLES
    link,           \* the WebSocket: up, lost, closed
    failure,        \* _failure, by its cause
    thread,         \* _thread_id is known
    task,           \* where each caller of request(), and the reader, stands
    outcome,        \* how each request ended for its caller
    future, pending,
    owed,           \* requests the server may have received and not answered
    lock,           \* _write_lock: its holder, then who waits for it
    after,          \* what the reader does once its denial is written
    inbox, foreign, \* _messages: in order, but for those of other threads, which
                    \* nobody takes: they are only counted
    heard, told, shown,     \* frames read; messages due to, and taken by, the consumer
    consumer, closer,
    abandoned       \* requests given up inside the writer

correlation == <<outcome, future, pending, owed, abandoned>>
messages == <<thread, after, inbox, foreign, heard, told>>
hosts == <<shown, consumer, closer>>
vars == <<link, failure, task, lock, correlation, messages, hosts>>

Writers == Requests \cup {Reader}
Message == "message"
Failure == "failure"
Queued == Len(inbox) + foreign

\* CodexConnectionUnavailable is no ProtocolDefect: the reader does not catch it.
Defects == {"malformed", "overflow", "uncorrelated", "authority"}
Failed == failure # "none"

Init ==
    /\ link = "up" /\ failure = "none" /\ thread = FALSE
    /\ task = [w \in Writers |-> IF w = Reader THEN "reading" ELSE "idle"]
    /\ outcome = [r \in Requests |-> "none"]
    /\ future = [r \in Requests |-> "open"]
    /\ pending = {} /\ owed = {} /\ abandoned = {}
    /\ lock = <<>> /\ after = "none"
    /\ inbox = <<>> /\ foreign = 0 /\ heard = 0 /\ told = 0 /\ shown = 0
    /\ consumer = "idle" /\ closer = "none"

(***************************************************************************)
(* Shared helpers.                                                         *)
(***************************************************************************)
\* Mutant: the callers that wait are not told.
FailQuietly(why, queue) ==
    /\ inbox' = IF Failed THEN queue ELSE Append(queue, Failure)
    /\ failure' = IF Failed THEN failure ELSE why
    /\ UNCHANGED <<future, pending>>

\* _fail: the first failure wins, ends what is pending and queues up last.
FailFrom(why, queue) ==
    IF Failed THEN inbox' = queue /\ UNCHANGED <<failure, future, pending>>
    ELSE /\ failure' = why
         /\ future' = [r \in Requests |-> IF r \in pending THEN why ELSE future[r]]
         /\ pending' = {}
         /\ inbox' = Append(queue, Failure)

Fail(why) == FailFrom(why, inbox)

\* The write lock without w, which holds it or waits for it.
Released(w) ==
    LET place == CHOOSE i \in DOMAIN lock : lock[i] = w
    IN  SubSeq(lock, 1, place - 1) \o SubSeq(lock, place + 1, Len(lock))

At(w, pc) == task' = [task EXCEPT ![w] = pc]

\* A caller of request() leaves, by a result or by an exception.
Ends(r, result) ==
    /\ At(r, "done")
    /\ outcome' = [outcome EXCEPT ![r] = result]

\* The reader fails the connection with a defect and then closes it.
ReaderFails(why) == Fail(why) /\ At(Reader, "closing")

\* What the reader raises from a connection that had failed before it wrote.
ReaderRaises == At(Reader, IF failure \in Defects THEN "closing" ELSE "done")

(***************************************************************************)
(* request().                                                              *)
(***************************************************************************)
\* The host opens its thread first. A lock nobody holds is taken at once.
Request(r) ==
    /\ task[r] = "idle"
    /\ r = Opening \/ outcome[Opening] = "value"
    /\ IF Failed \/ Cardinality(pending) >= PendingLimit
       THEN Ends(r, "raised") /\ UNCHANGED <<pending, owed, lock>>
       ELSE /\ pending' = pending \cup {r}
            /\ lock' = Append(lock, r)
            /\ At(r, IF lock = <<>> THEN "sending" ELSE "locking")
            /\ owed' = IF lock = <<>> THEN owed \cup {r} ELSE owed
            /\ UNCHANGED outcome
    /\ UNCHANGED <<link, failure, messages, hosts, future, abandoned>>

\* _write, once the lock is ours: a connection that failed meanwhile is refused.
Acquires(w) ==
    /\ task[w] = "locking" /\ Head(lock) = w
    /\ IF ~ Failed
       THEN /\ At(w, "sending")
            /\ owed' = IF w = Reader THEN owed ELSE owed \cup {w}
            /\ UNCHANGED <<lock, outcome, pending>>
       ELSE /\ lock' = Tail(lock)
            /\ IF w = Reader THEN ReaderRaises /\ UNCHANGED <<outcome, pending>>
               ELSE Ends(w, "raised") /\ pending' = pending \ {w}
            /\ UNCHANGED owed
    /\ UNCHANGED <<link, failure, messages, hosts, future, abandoned>>

Sent(r) ==
    /\ task[r] = "sending" /\ link = "up"
    /\ At(r, "waiting")
    /\ lock' = Tail(lock)
    /\ UNCHANGED <<link, failure, correlation, messages, hosts>>

\* connection.send raises OSError or ConnectionClosed.
SendFails(w) ==
    /\ task[w] = "sending" /\ link # "up"
    /\ Fail("unavailable")
    /\ lock' = Tail(lock)
    /\ IF w = Reader THEN At(w, "done") /\ UNCHANGED outcome
       ELSE Ends(w, "raised")
    /\ UNCHANGED <<link, owed, abandoned, hosts, thread, after, foreign, heard,
                   told>>

\* The timeout, or the caller's cancellation, while the request is written: it
\* is no longer pending, whether or not the server got it.
GivesUpWriting(r) ==
    /\ task[r] \in {"locking", "sending"}
    /\ Ends(r, "raised")
    /\ pending' = pending \ {r}
    /\ lock' = Released(r)
    /\ abandoned' = IF task[r] = "sending" THEN abandoned \cup {r} ELSE abandoned
    /\ UNCHANGED <<link, failure, future, owed, messages, hosts>>

\* Mutant: so is a request whose response is late.
GivesUpWaitingForgetful(r) ==
    /\ task[r] = "waiting"
    /\ Ends(r, "raised")
    /\ pending' = pending \ {r}
    /\ UNCHANGED <<link, failure, future, owed, abandoned, lock, messages, hosts>>

\* The same while its response is awaited: it stays pending.
GivesUpWaiting(r) ==
    /\ task[r] = "waiting"
    /\ Ends(r, "raised")
    /\ UNCHANGED <<link, failure, future, pending, owed, abandoned, lock, messages,
                   hosts>>

\* Mutant: the messages of other threads stay in the queue.
SelectsNothing == UNCHANGED foreign

\* _select_thread: what other threads had sent is dropped.
SelectsThread == foreign' = 0

\* The future is resolved.
Returns(r) ==
    /\ task[r] = "waiting" /\ future[r] # "open"
    /\ IF r = Opening /\ future[r] = "value" /\ ~ Failed
       THEN SelectsThread ELSE UNCHANGED foreign
    /\ Ends(r, IF future[r] = "value" /\ (r = Opening => ~ Failed)
               THEN "value" ELSE "raised")
    /\ UNCHANGED <<link, failure, future, pending, owed, abandoned, lock, hosts,
                   thread, after, inbox, heard, told>>

(***************************************************************************)
(* The reader: _reader_loop, _route_line and what they call.               *)
(***************************************************************************)
Reads == task[Reader] = "reading"

\* Messages that the consumer shall get, whatever becomes of the connection.
Told(own) == told' = IF own /\ ~ Failed THEN told + 1 ELSE told

\* _enqueue
Enqueue(own) ==
    IF Queued >= QueueLimit
    THEN ReaderFails("overflow") /\ UNCHANGED <<foreign, told>>
    ELSE /\ inbox' = IF own THEN Append(inbox, Message) ELSE inbox
         /\ foreign' = IF own THEN foreign ELSE foreign + 1
         /\ Told(own)
         /\ At(Reader, "reading")
         /\ UNCHANGED <<failure, future, pending>>

ShowsThenFails ==
    IF Queued >= QueueLimit
    THEN ReaderFails("overflow") /\ UNCHANGED <<foreign, told>>
    ELSE /\ FailFrom("authority", Append(inbox, Message))
         /\ Told(TRUE)
         /\ At(Reader, "closing")
         /\ UNCHANGED foreign

\* A response, by id; a rejection ends the request just as well.
Answers(r) ==
    /\ Reads /\ r \in owed
    /\ owed' = owed \ {r}
    /\ IF r \in pending
       THEN /\ \E answer \in {"value", "rejected"} :
                 /\ future' = [future EXCEPT ![r] = answer]
                 /\ thread' = (thread \/ (r = Opening /\ answer = "value"))
            /\ pending' = pending \ {r}
            /\ UNCHANGED <<failure, inbox, task>>
       ELSE ReaderFails("uncorrelated") /\ UNCHANGED thread
    /\ UNCHANGED <<link, outcome, abandoned, lock, after, foreign, heard, told, hosts>>

HearsFrame == heard < MaxFrames /\ heard' = heard + 1

\* A notification; those of other threads are dropped once the thread is known.
Notifies ==
    /\ Reads /\ HearsFrame
    /\ \E own \in BOOLEAN :
         /\ thread => own
         /\ Enqueue(own)
    /\ UNCHANGED <<link, outcome, owed, abandoned, lock, thread, after, hosts>>

\* A frame that is no message, or a server request without its thread.
Garbles ==
    /\ Reads /\ HearsFrame
    /\ ReaderFails("malformed")
    /\ UNCHANGED <<link, outcome, owed, abandoned, lock, thread, after, foreign, told,
                   hosts>>

\* A server request: an approval is declined and then shown; anything else is
\* refused, and then the connection fails, of one kind after it is shown too.
Asks ==
    /\ Reads /\ HearsFrame /\ thread
    /\ after' \in {"show", "fail", "show and fail"}
    /\ IF lock = <<>> /\ Failed
       THEN ReaderRaises /\ UNCHANGED lock
       ELSE /\ lock' = Append(lock, Reader)
            /\ At(Reader, IF lock = <<>> THEN "sending" ELSE "locking")
    /\ UNCHANGED <<link, failure, correlation, hosts, thread, inbox, foreign, told>>

Denied ==
    /\ task[Reader] = "sending" /\ link = "up"
    /\ lock' = Tail(lock)
    /\ after' = "none"
    /\ \/ after = "show" /\ Enqueue(TRUE)
       \/ after = "fail" /\ ReaderFails("authority") /\ UNCHANGED <<foreign, told>>
       \/ after = "show and fail" /\ ShowsThenFails
    /\ UNCHANGED <<link, outcome, owed, abandoned, thread, heard, hosts>>

\* The connection ends under the reader; if we close it, it has failed already.
HearsEnd ==
    /\ Reads /\ link # "up"
    /\ Fail("unavailable")
    /\ At(Reader, "done")
    /\ UNCHANGED <<link, outcome, owed, abandoned, lock, thread, after, foreign, heard,
                   told, hosts>>

\* await connection.close(), of a connection that failed with a defect.
ReaderCloses ==
    /\ task[Reader] = "closing"
    /\ link' = "closed"
    /\ At(Reader, "done")
    /\ UNCHANGED <<failure, lock, correlation, messages, hosts>>

Drops ==
    /\ link = "up"
    /\ link' = "lost"
    /\ UNCHANGED <<failure, task, lock, correlation, messages, hosts>>

(***************************************************************************)
(* next_message(), for one consumer, and close().                          *)
(***************************************************************************)
Gets ==
    IF Head(inbox) = Failure THEN consumer' = "raised" /\ UNCHANGED shown
    ELSE consumer' = "idle" /\ shown' = shown + 1

\* Mutant: a failure is raised before what is queued.
PullsImpatiently ==
    /\ consumer = "idle" /\ outcome[Opening] = "value"
    /\ IF Failed THEN consumer' = "raised" /\ UNCHANGED <<shown, inbox>>
       ELSE IF inbox # <<>> THEN Gets /\ inbox' = Tail(inbox)
       ELSE consumer' = "waiting" /\ UNCHANGED <<shown, inbox>>
    /\ UNCHANGED <<link, failure, task, lock, correlation, closer, thread, after,
                   foreign, heard, told>>

Pulls ==
    /\ consumer = "idle" /\ outcome[Opening] = "value"
    /\ IF inbox # <<>> THEN Gets /\ inbox' = Tail(inbox)
       ELSE /\ consumer' = IF Failed THEN "raised" ELSE "waiting"
            /\ UNCHANGED <<shown, inbox>>
    /\ UNCHANGED <<link, failure, task, lock, correlation, closer, thread, after,
                   foreign, heard, told>>

Wakes ==
    /\ consumer = "waiting" /\ inbox # <<>>
    /\ Gets /\ inbox' = Tail(inbox)
    /\ UNCHANGED <<link, failure, task, lock, correlation, closer, thread, after,
                   foreign, heard, told>>

\* Concurrent callers share the task.
Close ==
    /\ closer = "none"
    /\ closer' = "ready"
    /\ UNCHANGED <<link, failure, task, lock, correlation, messages, shown, consumer>>

CloserBegins ==
    /\ closer = "ready"
    /\ closer' = "closing"
    /\ Fail("unavailable")
    /\ UNCHANGED <<link, task, lock, outcome, owed, abandoned, thread, after, foreign,
                   heard, told, shown, consumer>>

\* Mutant: the reader is awaited on a connection that is not closed.
CloserClosesNothing ==
    /\ closer = "closing"
    /\ closer' = "draining"
    /\ UNCHANGED <<link, failure, task, lock, correlation, messages, shown, consumer>>

\* await connection.close(), bounded by close_timeout.
CloserCloses ==
    /\ closer = "closing"
    /\ link' = "closed"
    /\ closer' = "draining"
    /\ UNCHANGED <<failure, task, lock, correlation, messages, shown, consumer>>

CloserEnds ==
    /\ closer = "draining" /\ task[Reader] = "done"
    /\ closer' = "done"
    /\ pending' = {}
    /\ future' = [r \in Requests |-> IF r \in pending THEN "unavailable" ELSE future[r]]
    /\ UNCHANGED <<link, failure, task, lock, outcome, owed, abandoned, messages, shown,
                   consumer>>

\* The client is closed and nobody waits for it.
Rest ==
    /\ closer = "done" /\ consumer # "waiting"
    /\ \A r \in Requests : task[r] \in {"idle", "done"}
    /\ UNCHANGED vars

Caller(r) == Acquires(r) \/ SendFails(r) \/ Returns(r)
GivesUp(r) == GivesUpWriting(r) \/ GivesUpWaiting(r)
ReaderRuns == Acquires(Reader) \/ SendFails(Reader) \/ HearsEnd \/ ReaderCloses
Server == (\E r \in Requests : Answers(r)) \/ Notifies \/ Garbles \/ Asks
Closer == CloserBegins \/ CloserCloses \/ CloserEnds

Next ==
    \/ \E r \in Requests : Request(r) \/ Caller(r) \/ Sent(r) \/ GivesUp(r)
    \/ ReaderRuns \/ Denied \/ Server \/ Drops
    \/ Pulls \/ Wakes \/ Close \/ Closer \/ Rest

Spec == Init /\ [][Next]_vars

\* Ready tasks run, timers fire, a closed connection ends what uses it. The
\* server and the network owe nothing: a send or an answer may never come.
ClientFairness ==
    /\ \A r \in Requests : WF_vars(Caller(r)) /\ WF_vars(GivesUp(r))
    /\ WF_vars(ReaderRuns) /\ WF_vars(Closer) /\ WF_vars(Wakes)

FairSpec == Spec /\ ClientFairness

(***************************************************************************)
(* Properties.                                                             *)
(***************************************************************************)
Causes == {"none", "unavailable"} \cup Defects

TypeOK ==
    /\ link \in {"up", "lost", "closed"}
    /\ failure \in Causes
    /\ thread \in BOOLEAN
    /\ task \in [Writers -> {"idle", "reading", "locking", "sending", "waiting",
                             "closing", "done"}]
    /\ outcome \in [Requests -> {"none", "value", "raised"}]
    /\ future \in [Requests -> {"open", "value", "rejected"} \cup Causes]
    /\ pending \subseteq Requests /\ Cardinality(pending) <= PendingLimit
    /\ owed \subseteq Requests /\ abandoned \subseteq Requests
    /\ lock \in Seq(Writers)
    /\ after \in {"none", "show", "fail", "show and fail"}
    /\ inbox \in Seq({Message, Failure}) /\ foreign \in Nat
    /\ Queued <= QueueLimit + 1
    /\ heard \in 0 .. MaxFrames /\ told \in 0 .. MaxFrames /\ shown \in Nat
    /\ consumer \in {"idle", "waiting", "raised"}
    /\ closer \in {"none", "ready", "closing", "draining", "done"}

\* The write lock is held and awaited by those who write, and by nobody who gave
\* up or failed; one task at a time is in connection.send (_write).
WritersTakeTurns ==
    \A w \in Writers :
        /\ task[w] \in {"locking", "sending"} <=> \E i \in DOMAIN lock : lock[i] = w
        /\ task[w] = "sending" => Head(lock) = w

\* A connection whose reader is gone has failed: nobody waits for a message or
\* a response that no task would ever read.
ReaderNeverSilent == task[Reader] \in {"closing", "done"} => Failed

\* A failed connection keeps no caller: no future stays open behind it, and the
\* consumer finds the failure in its queue.
FailureReleases ==
    Failed =>
        /\ pending = {}
        /\ \A r \in Requests : task[r] = "waiting" => future[r] # "open"
        /\ consumer = "waiting" => inbox # <<>>

\* The consumer gets every message that came before the failure, then the failure.
FailureComesLast == consumer = "raised" => shown = told

\* A session never sees what the server sent to another thread.
OwnThreadOnly == outcome[Opening] = "value" => foreign = 0

\* A late answer does not cost the connection, unless its request was given up
\* inside the writer.
LateAnswersKept == failure = "uncorrelated" => abandoned # {}

\* close() ends, though the reader may wait for a write that stalls.
CloseEnds == closer = "ready" ~> closer = "done"
=============================================================================
