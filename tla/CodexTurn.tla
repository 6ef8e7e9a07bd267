------------------------------ MODULE CodexTurn ------------------------------
(***************************************************************************)
(* One prepared Codex turn (codex_sdk.py, _CodexAgentTurn) over the app-   *)
(* server client of its session. The turn has a sender task, which writes  *)
(* turn/start and awaits its response; a reader task, which alone reads    *)
(* the session's messages; a close task; and the host, which submits,      *)
(* revokes, steers, interrupts and closes when it likes. They interleave   *)
(* at awaits only.                                                         *)
(***************************************************************************)
EXTENDS Naturals, Sequences, FiniteSets

CONSTANTS
    NoTurn,         \* None, where a native turn id may be absent
    Turns,          \* the turn ids the server's messages of this turn may carry
    Replayed,       \* the id of an earlier turn, in the usage a resume replays
    MaxMessages,    \* bound: messages the server sends
    HasDeadline,    \* TurnRequest.timeout_seconds is set
    Controls        \* the controls the host uses

ASSUME TurnsAssumption ==
    /\ NoTurn \notin Turns \cup {Replayed}
    /\ MaxMessages \in Nat /\ HasDeadline \in BOOLEAN
    /\ Controls \subseteq {"steer", "interrupt"}

VARIABLES
    connection,     \* the client's connection: up, failed, closing, closed
    queue, sent,    \* the client's queue of messages, and how many it ever had
    response,       \* the future of turn/start: at most one response
    rebase,         \* usage accounting still waits for a resume's replay
    turnId,         \* state.turn_id
    unfinished,     \* native items or callbacks are open
    submission, terminal, error,
    writerEntered, revoked, closed, finished,
    accepted,       \* the _accepted future: what it was set to, if it was
    released,       \* how often the session's slot was released
    submit, sender, reader, closeTask, control, \* where each task is
    cancels,        \* cancellations of the sender task
    returned,       \* what submit() returned
    written         \* the requests that entered the writer

session == <<connection, queue, sent, response, rebase, turnId, unfinished>>
evidence == <<submission, terminal, error, accepted, returned>>
flags == <<writerEntered, revoked, closed, finished, released>>
tasks == <<submit, sender, reader, closeTask, control, cancels>>
turnVars == <<session, evidence, flags, tasks, written>>

TurnIds == Turns \cup {Replayed, NoTurn}

None == [tag |-> "none", turn |-> NoTurn]
NotSubmitted == [tag |-> "not_submitted", turn |-> NoTurn]
Uncertain(turn) == [tag |-> "uncertain", turn |-> turn]
Accepted(turn) == [tag |-> "accepted", turn |-> turn]

NoTerminal == [origin |-> "none", turn |-> NoTurn]

\* What the server may send on the thread: the turn's start (or a callback,
\* which proves it too), an item that begins or ends, the turn's completion, a
\* message the adapter rejects, and the usage replayed by a resume.
Messages ==
    [kind : {"begin"}, turn : Turns]
      \cup [kind : {"defect"}, turn : Turns \cup {NoTurn}]
      \cup [kind : {"item"}, turn : Turns, open : BOOLEAN]
      \cup [kind : {"end"}, turn : Turns, aborted : BOOLEAN]
      \cup [kind : {"usage"}, turn : {Replayed}]

Responses == [kind : {"turn"}, turn : Turns] \cup [kind : {"error", "malformed"}]

Gone(task) == task \in {"none", "done"}

TurnInit ==
    /\ connection = "up" /\ queue = <<>> /\ sent = 0 /\ response = {}
    /\ rebase \in BOOLEAN
    /\ turnId = NoTurn /\ unfinished = FALSE
    /\ submission = None /\ terminal = NoTerminal /\ error = FALSE
    /\ accepted = None /\ returned = None
    /\ writerEntered = FALSE /\ revoked = FALSE /\ closed = FALSE
    /\ finished = FALSE /\ released = 0
    /\ submit = "idle" /\ sender = "none" /\ reader = "none"
    /\ closeTask = "none" /\ control = "idle" /\ cancels = 0
    /\ written = {}

\* The turn the evidence points at; a turn id seen on the wire is enough until
\* the turn is closed or known not to be submitted.
TurnRef(seen) ==
    IF submission.tag \in {"accepted", "uncertain"} /\ submission.turn # NoTurn
    THEN submission.turn
    ELSE IF closed \/ submission.tag = "not_submitted" THEN NoTurn ELSE seen

Authority == ~ revoked /\ ~ closed /\ ~ finished

Resolve(value) == accepted' = IF accepted = None THEN value ELSE accepted

CloseClient == connection' = IF connection = "closed" THEN "closed" ELSE "closing"

----------------------------------------------------------------------------
\* The session's connection and the server.

ServerSends ==
    /\ connection = "up" /\ sent < MaxMessages
    /\ \E m \in Messages : (m.kind = "usage" => rebase) /\ queue' = Append(queue, m)
    /\ sent' = sent + 1
    /\ UNCHANGED <<connection, response, rebase, turnId, unfinished, evidence,
                   flags, tasks, written>>

ServerResponds ==
    /\ connection = "up" /\ sender \in {"sending", "waiting"} /\ response = {}
    /\ \E r \in Responses : response' = {r}
    /\ UNCHANGED <<connection, queue, sent, rebase, turnId, unfinished, evidence,
                   flags, tasks, written>>

LinkFails ==
    /\ connection = "up"
    /\ connection' = "failed"
    /\ UNCHANGED <<queue, sent, response, rebase, turnId, unfinished, evidence,
                   flags, tasks, written>>

LinkCloses ==
    /\ connection = "closing"
    /\ connection' = "closed"
    /\ UNCHANGED <<queue, sent, response, rebase, turnId, unfinished, evidence,
                   flags, tasks, written>>

----------------------------------------------------------------------------
\* The host: submit and revoke.

SubmitRevoked ==
    /\ submit = "idle" /\ (revoked \/ closed)
    /\ submission' = NotSubmitted /\ returned' = NotSubmitted
    /\ submit' = "returned" /\ finished' = TRUE
    /\ released' = IF released = 0 THEN 1 ELSE released
    /\ UNCHANGED <<session, terminal, error, accepted, writerEntered, revoked,
                   closed, sender, reader, closeTask, control, cancels, written>>

\* The reader's task runs before anything can cancel it, the sender's may not.
Submit ==
    /\ submit = "idle" /\ ~ revoked /\ ~ closed
    /\ submit' = "waiting" /\ reader' = "reading" /\ sender' = "ready"
    /\ UNCHANGED <<session, evidence, flags, closeTask, control, cancels, written>>

SubmitReturns ==
    /\ submit = "waiting" /\ accepted # None
    /\ submit' = "returned" /\ returned' = accepted
    /\ UNCHANGED <<session, submission, terminal, error, accepted, flags, sender,
                   reader, closeTask, control, cancels, written>>

RequestClose == closeTask' = IF closeTask = "none" THEN "ready" ELSE closeTask

CancelSubmit ==
    /\ submit = "waiting"
    /\ submit' = "closing" /\ revoked' = TRUE
    /\ RequestClose
    /\ UNCHANGED <<session, evidence, writerEntered, closed, finished, released,
                   sender, reader, control, cancels, written>>

SubmitCancelled ==
    /\ submit = "closing" /\ closeTask = "done"
    /\ submit' = "cancelled"
    /\ UNCHANGED <<session, evidence, flags, sender, reader, closeTask, control,
                   cancels, written>>

Revoke ==
    /\ ~ revoked
    /\ revoked' = TRUE
    /\ UNCHANGED <<session, evidence, writerEntered, closed, finished, released,
                   tasks, written>>

----------------------------------------------------------------------------
\* The sender task: turn/start. A cancelled task takes no other step than the
\* cancellation.

SenderAt(pc) == sender = pc /\ cancels = 0

\* The evidence names the turn, which an earlier message may have named.
Acknowledges(turn) ==
    /\ turnId \in {NoTurn, turn} /\ writerEntered
    /\ turnId' = turn
    /\ submission' = Accepted(turn)
    /\ Resolve(Accepted(turn))

SenderStarts ==
    /\ SenderAt("ready") /\ connection = "up"
    /\ sender' = "lock"
    /\ UNCHANGED <<session, evidence, flags, submit, reader, closeTask, control,
                   cancels, written>>

\* Mutant: entering the writer does not latch the uncertainty.
EnterWriterUnlatched ==
    /\ SenderAt("lock") /\ connection = "up" /\ Authority
    /\ writerEntered' = TRUE
    /\ written' = written \cup {"start"}
    /\ sender' = "sending"
    /\ UNCHANGED <<session, evidence, revoked, closed,
                   finished, released, submit, reader, closeTask, control, cancels>>

EnterWriter ==
    /\ SenderAt("lock") /\ connection = "up" /\ Authority
    /\ writerEntered' = TRUE
    /\ submission' = Uncertain(NoTurn)
    /\ written' = written \cup {"start"}
    /\ sender' = "sending"
    /\ UNCHANGED <<session, terminal, error, accepted, returned, revoked, closed,
                   finished, released, submit, reader, closeTask, control, cancels>>

SenderSent ==
    /\ SenderAt("sending")
    /\ sender' = "waiting"
    /\ UNCHANGED <<session, evidence, flags, submit, reader, closeTask, control,
                   cancels, written>>

\* Mutant: a failed request makes the turn uncertain again.
SettleAgain(defect) ==
    /\ submission' = IF writerEntered THEN Uncertain(NoTurn) ELSE NotSubmitted
    /\ Resolve(submission')
    /\ error' = TRUE /\ CloseClient /\ sender' = "settling"
    /\ UNCHANGED <<queue, sent, response, rebase, turnId, unfinished, terminal,
                   returned, flags, submit, reader, closeTask, control, cancels,
                   written>>

\* The failure handler: evidence that is not yet an acceptance is settled, and
\* the client closed; the task waits for that.
Settle(defect) ==
    /\ IF terminal # NoTerminal \/ (submission.tag = "accepted" /\ defect)
       THEN /\ error' = TRUE /\ CloseClient /\ sender' = "settling"
            /\ UNCHANGED <<submission, accepted>>
       ELSE IF submission.tag = "accepted"
       THEN /\ sender' = "done"
            /\ UNCHANGED <<connection, submission, accepted, error>>
       ELSE /\ submission' = IF writerEntered THEN Uncertain(TurnRef(turnId)) ELSE NotSubmitted
            /\ Resolve(submission')
            /\ error' = TRUE /\ CloseClient /\ sender' = "settling"
    /\ UNCHANGED <<queue, sent, response, rebase, turnId, unfinished, terminal,
                   returned, flags, submit, reader, closeTask, control, cancels,
                   written>>

\* Before the writer: the request is refused, waits for the writer too long,
\* finds the client failed, or the turn's authority gone.
FailBeforeWriter ==
    /\ SenderAt("ready") \/ SenderAt("lock")
    /\ Settle(FALSE)

\* In the write, or for want of a response: a timeout, or a failed connection.
FailAfterWriter ==
    /\ SenderAt("sending") \/ (SenderAt("waiting") /\ response = {})
    /\ \E defect \in BOOLEAN : (defect => connection # "up") /\ Settle(defect)

Acknowledged ==
    /\ SenderAt("waiting")
    /\ \E r \in response :
        /\ r.kind = "turn"
        /\ Acknowledges(r.turn)
    /\ sender' = "done"
    /\ UNCHANGED <<connection, queue, sent, response, rebase, unfinished, terminal,
                   error, returned, flags, submit, reader, closeTask, control,
                   cancels, written>>

Unacknowledged ==
    /\ SenderAt("waiting")
    /\ \E r \in response :
        /\ r.kind = "turn" => turnId \notin {NoTurn, r.turn}
        /\ Settle(r.kind # "error")

\* A second cancellation does not wait for the client.
Settled ==
    /\ sender = "settling" /\ (connection = "closed" \/ cancels > 1)
    /\ sender' = "done"
    /\ UNCHANGED <<session, evidence, flags, submit, reader, closeTask, control,
                   cancels, written>>

\* A task that never began has no handler to run.
SenderCancelled ==
    /\ cancels > 0 /\ sender \in {"ready", "lock", "sending", "waiting"}
    /\ sender' = "done"
    /\ IF sender = "lock" /\ submission.tag # "accepted"
       THEN submission' = NotSubmitted /\ Resolve(NotSubmitted)
       ELSE UNCHANGED <<submission, accepted>>
    /\ UNCHANGED <<session, terminal, error, returned, flags, submit, reader,
                   closeTask, control, cancels, written>>

Sender ==
    \/ SenderStarts \/ EnterWriter \/ SenderSent
    \/ FailBeforeWriter \/ FailAfterWriter
    \/ Acknowledged \/ Unacknowledged \/ Settled \/ SenderCancelled

----------------------------------------------------------------------------
\* The reader task. Its finally clause ends the turn: if the writer was never
\* entered it first revokes the turn and waits for the sender to be cancelled.

ReaderEnds(latest) ==
    IF writerEntered \/ sender = "done"
    THEN /\ submission' = IF writerEntered THEN latest ELSE NotSubmitted
         /\ Resolve(submission')
         /\ revoked' = (revoked \/ ~ writerEntered)
         /\ finished' = TRUE /\ reader' = "done"
         /\ UNCHANGED cancels
    ELSE /\ submission' = latest
         /\ revoked' = TRUE /\ cancels' = cancels + 1
         /\ reader' = "quiescing"
         /\ UNCHANGED <<accepted, finished>>

\* Mutant: nobody answers a submit whose sender never began.
ReaderQuiescesUnresolved ==
    /\ reader = "quiescing" /\ sender = "done"
    /\ submission' = NotSubmitted
    /\ finished' = TRUE /\ reader' = "done"
    /\ UNCHANGED <<session, terminal, error, accepted, returned, writerEntered,
                   revoked, closed, released, submit, sender, closeTask, control,
                   cancels, written>>

ReaderQuiesces ==
    /\ reader = "quiescing" /\ sender = "done"
    /\ submission' = NotSubmitted
    /\ Resolve(NotSubmitted)
    /\ finished' = TRUE /\ reader' = "done"
    /\ UNCHANGED <<session, terminal, error, returned, writerEntered, revoked,
                   closed, released, submit, sender, closeTask, control, cancels,
                   written>>

\* The handler of any other exception keeps what is already known.
ReadingFails ==
    /\ error' = TRUE
    /\ ReaderEnds(IF submission.tag = "accepted" THEN submission
                  ELSE IF writerEntered THEN Uncertain(TurnRef(turnId'))
                  ELSE None)

\* Messages queued before the failure are read first.
ReadFailure ==
    /\ reader = "reading" /\ queue = <<>> /\ connection # "up"
    /\ UNCHANGED session
    /\ ReadingFails
    /\ UNCHANGED <<terminal, returned, writerEntered, closed, released, submit,
                   sender, closeTask, control, written>>

\* The first message that names a turn names this one.
Identified(turn) == IF turnId = NoTurn THEN turn ELSE turnId

\* A replayed snapshot is a baseline once, while accounting waits for it.
Baseline(m) == m.kind = "usage" /\ rebase

\* What the adapter lets pass: the identity is the turn's, nothing native is
\* open at a completion that was not aborted, and no evidence precedes the
\* writer.
Valid(m) ==
    /\ m.kind # "defect"
    /\ m.turn = Identified(m.turn) \/ Baseline(m)
    /\ m.kind = "end" => ~ unfinished \/ m.aborted
    /\ m.kind \in {"begin", "end"} => writerEntered

ReadsNext(m) ==
    /\ reader = "reading" /\ queue # <<>>
    /\ m = Head(queue) /\ queue' = Tail(queue)
    /\ turnId' = Identified(m.turn)
    /\ UNCHANGED <<connection, sent, response, returned, writerEntered, closed,
                   released, submit, sender, closeTask, control, written>>

ReadProgress ==
    \E m \in Messages :
        /\ Valid(m) /\ m.kind # "end"
        /\ ReadsNext(m)
        /\ rebase' = (rebase /\ m.kind # "usage")
        /\ unfinished' = IF m.kind = "item" THEN m.open ELSE unfinished
        /\ IF m.kind = "begin"
           THEN submission' = Accepted(turnId') /\ Resolve(submission')
           ELSE UNCHANGED <<submission, accepted>>
    /\ UNCHANGED <<terminal, error, revoked, finished, reader, cancels>>

ReadCompletion ==
    \E m \in Messages :
        /\ Valid(m) /\ m.kind = "end"
        /\ ReadsNext(m)
        /\ terminal' = [origin |-> "native", turn |-> turnId']
        /\ ReaderEnds(Accepted(turnId'))
        /\ UNCHANGED <<rebase, unfinished, error>>

\* Mutant: a failed reader forgets that the writer was entered.
ReadDefectForgetful ==
    \E m \in Messages :
        /\ ~ Valid(m)
        /\ ReadsNext(m)
        /\ error' = TRUE
        /\ ReaderEnds(IF submission.tag = "accepted" THEN submission
                      ELSE NotSubmitted)
        /\ UNCHANGED <<rebase, unfinished, terminal>>

ReadDefect ==
    \E m \in Messages :
        /\ ~ Valid(m)
        /\ ReadsNext(m)
        /\ ReadingFails
        /\ UNCHANGED <<rebase, unfinished, terminal>>

\* TurnRequest.timeout_seconds is over: before the writer the turn was not
\* started, after it the turn ends locally.
DeadlinePasses ==
    /\ HasDeadline /\ reader = "reading"
    /\ IF writerEntered
       THEN /\ terminal' = [origin |-> "local", turn |-> NoTurn]
            /\ UNCHANGED error
       ELSE error' = TRUE /\ UNCHANGED terminal
    /\ ReaderEnds(submission)
    /\ UNCHANGED <<session, returned, writerEntered, closed, released, submit,
                   sender, closeTask, control, written>>

ReaderCancelled ==
    /\ reader = "reading" /\ closeTask = "reader cancelled"
    /\ ReaderEnds(submission)
    /\ UNCHANGED <<session, terminal, error, returned, writerEntered, closed,
                   released, submit, sender, closeTask, control, written>>

ReadTask ==
    \/ ReadFailure \/ ReadProgress \/ ReadCompletion
    \/ ReadDefect \/ ReaderCancelled \/ ReaderQuiesces

----------------------------------------------------------------------------
\* The controls: one steering or interrupt at a time, whose authority is
\* checked when it is called and again when it enters the writer.

HasEnded == terminal # NoTerminal

MayCall(op) ==
    /\ TurnRef(turnId) # NoTurn /\ ~ closed /\ connection = "up"
    /\ IF op = "steer"
       THEN ~ finished /\ ~ revoked
       ELSE ~ (finished /\ terminal.origin = "native")

MayWrite(op) ==
    /\ connection = "up"
    /\ IF op = "steer" THEN Authority ELSE ~ closed /\ ~ HasEnded

CallControl ==
    /\ control = "idle"
    /\ \E op \in Controls \ written :
        MayCall(op) /\ control' = op
    /\ UNCHANGED <<session, evidence, flags, submit, sender, reader, closeTask,
                   cancels, written>>

ControlWrites ==
    /\ control # "idle" /\ MayWrite(control)
    /\ written' = written \cup {control}
    /\ control' = "idle"
    /\ UNCHANGED <<session, evidence, flags, submit, sender, reader, closeTask,
                   cancels>>

\* Refused at the writer, or timed out before it.
ControlFails ==
    /\ control # "idle"
    /\ control' = "idle"
    /\ UNCHANGED <<session, evidence, flags, submit, sender, reader, closeTask,
                   cancels, written>>

----------------------------------------------------------------------------
\* The close task: it revokes, stops the sender, gives the reader a moment,
\* and discards the session unless its native turn is known to be over.

\* Mutant: a local stop counts as the turn's end.
NeedsDiscardUnlessStopped ==
    connection # "up" \/ unfinished \/ (writerEntered /\ terminal = NoTerminal)

NeedsDiscard ==
    connection # "up" \/ unfinished \/ (writerEntered /\ terminal.origin # "native")

CloseBegins ==
    /\ closeTask = "ready"
    /\ closeTask' = "sender" /\ revoked' = TRUE
    /\ cancels' = IF Gone(sender) THEN cancels ELSE cancels + 1
    /\ UNCHANGED <<session, evidence, writerEntered, closed, finished, released,
                   submit, sender, reader, control, written>>

\* Mutant: the sender is cancelled, not awaited.
CloseAwaitsReaderOnly ==
    /\ closeTask = "sender"
    /\ closeTask' = "reader"
    /\ UNCHANGED <<session, evidence, flags, submit, sender, reader, control,
                   cancels, written>>

CloseAwaitsReader ==
    /\ closeTask = "sender" /\ Gone(sender)
    /\ closeTask' = "reader"
    /\ UNCHANGED <<session, evidence, flags, submit, sender, reader, control,
                   cancels, written>>

\* Mutant: the reader is awaited without a bound.
CloseStopsReaderNever ==
    /\ closeTask = "reader" /\ ~ Gone(reader) /\ connection # "up"
    /\ closeTask' = "reader cancelled"
    /\ UNCHANGED <<session, evidence, flags, submit, sender, reader, control,
                   cancels, written>>

CloseStopsReader ==
    /\ closeTask = "reader" /\ ~ Gone(reader)
    /\ closeTask' = "reader cancelled"
    /\ UNCHANGED <<session, evidence, flags, submit, sender, reader, control,
                   cancels, written>>

Quiet == closeTask \in {"reader", "reader cancelled"} /\ Gone(reader)

EndClose ==
    /\ closeTask' = "done" /\ closed' = TRUE /\ finished' = TRUE
    /\ submission' = IF writerEntered \/ submission.tag = "accepted"
                     THEN submission
                     ELSE NotSubmitted
    /\ released' = IF released = 0 THEN 1 ELSE released

CloseKeeps ==
    /\ Quiet /\ ~ NeedsDiscard
    /\ EndClose
    /\ UNCHANGED <<session, terminal, error, accepted, returned, writerEntered,
                   revoked, submit, sender, reader, control, cancels, written>>

CloseDiscards ==
    /\ Quiet /\ NeedsDiscard
    /\ IF connection = "up" /\ turnId # NoTurn /\ terminal.origin # "native"
       THEN closeTask' = "interrupting" /\ UNCHANGED connection
       ELSE closeTask' = "discarding" /\ CloseClient
    /\ UNCHANGED <<queue, sent, response, rebase, turnId, unfinished, evidence,
                   flags, submit, sender, reader, control, cancels, written>>

CloseInterrupts ==
    /\ closeTask = "interrupting"
    /\ \/ MayCall("interrupt") /\ MayWrite("interrupt")
          /\ written' = written \cup {"interrupt"}
       \/ UNCHANGED written
    /\ closeTask' = "discarding" /\ CloseClient
    /\ UNCHANGED <<queue, sent, response, rebase, turnId, unfinished, evidence,
                   flags, submit, sender, reader, control, cancels>>

CloseFinishes ==
    /\ closeTask = "discarding" /\ connection = "closed"
    /\ EndClose
    /\ UNCHANGED <<session, terminal, error, accepted, returned, writerEntered,
                   revoked, submit, sender, reader, control, cancels, written>>

CloseTurn ==
    /\ closeTask = "none"
    /\ RequestClose
    /\ UNCHANGED <<session, evidence, flags, submit, sender, reader, control,
                   cancels, written>>

CloseTask ==
    \/ CloseBegins \/ CloseAwaitsReader \/ CloseStopsReader
    \/ CloseKeeps \/ CloseDiscards \/ CloseInterrupts \/ CloseFinishes

\* Nothing is left to do.
TurnRest ==
    /\ closeTask = "done" /\ submit \in {"returned", "cancelled"}
    /\ control = "idle"
    /\ UNCHANGED turnVars

TurnNext ==
    \/ ServerSends \/ ServerResponds \/ LinkFails \/ LinkCloses
    \/ SubmitRevoked \/ Submit \/ SubmitReturns \/ CancelSubmit
    \/ SubmitCancelled \/ Revoke \/ CloseTurn
    \/ Sender \/ ReadTask \/ DeadlinePasses \/ CloseTask
    \/ CallControl \/ ControlWrites \/ ControlFails
    \/ TurnRest

TurnSpec == TurnInit /\ [][TurnNext]_turnVars

\* Tasks run when they can, a request ends by its timeout at the latest, and a
\* closing connection closes. The server may stay silent.
FairTurnSpec ==
    /\ TurnSpec
    /\ WF_turnVars(Sender) /\ WF_turnVars(ReadTask) /\ WF_turnVars(CloseTask)
    /\ WF_turnVars(SubmitReturns) /\ WF_turnVars(SubmitCancelled)
    /\ WF_turnVars(LinkCloses)

----------------------------------------------------------------------------
Evidence ==
    [tag : {"none", "not_submitted"}, turn : {NoTurn}]
      \cup [tag : {"uncertain"}, turn : TurnIds]
      \cup [tag : {"accepted"}, turn : TurnIds \ {NoTurn}]

\* provider-native-turns.md:20: NotSubmitted is proof that turn/start was not
\* and will not be written, whoever settled it, and so is what submit returned.
NotSubmittedIsProof ==
    "not_submitted" \in {submission.tag, returned.tag} => "start" \notin written

\* Whatever happens once the writer was entered leaves an acceptance or an
\* uncertainty behind; a seal or a local stop rests on it, and a native seal on
\* the acceptance of the very turn it names.
EvidenceIsHonest ==
    /\ "start" \in written => submission.tag \in {"uncertain", "accepted"}
    /\ terminal.origin = "local" => "start" \in written
    /\ terminal.origin = "native" => submission = Accepted(terminal.turn)

\* Evidence only sharpens: an acceptance is final, an uncertain turn keeps the
\* turn it names, and a turn that was not submitted never turns out to be.
EvidenceSharpens ==
    [][/\ submission.tag = "accepted" => submission' = submission
       /\ submission.tag = "uncertain" =>
            /\ submission'.tag \in {"uncertain", "accepted"}
            /\ submission.turn # NoTurn => submission'.turn = submission.turn
       /\ submission.tag = "not_submitted" =>
            submission'.tag \in {"not_submitted", "none"}]_submission

\* The slot is given back once, when no task of the turn is left and nothing of
\* its evidence will change any more.
SlotReleasedQuiet ==
    [][released > 0 =>
        /\ released' = 1
        /\ Gone(sender) /\ Gone(reader)
        /\ UNCHANGED <<submission, terminal, writerEntered>>]_turnVars

\* A session that outlives its turn's close owes the server nothing: the writer
\* was not entered, or the native turn has ended, and no item is open.
SurvivorIsIdle ==
    closeTask = "done" /\ connection = "up" =>
        /\ ~ writerEntered \/ terminal.origin = "native"
        /\ ~ unfinished

\* submit() returns and close() ends, whatever the server does.
SubmitEnds == submit = "waiting" ~> submit \in {"returned", "cancelled"}
CloseAlwaysEnds == closeTask = "ready" ~> closeTask = "done"

=============================================================================
