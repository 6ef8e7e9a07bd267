----------------------------- MODULE AgentTurns -----------------------------
(***************************************************************************)
(* The turns of one agent session (agent_runtime/runtime.py, AgentRuntime: *)
(* stream_turn, _drive_turn, _interruptible_stream, close_session). A turn *)
(* is a consumer, the host's generator; a driver task, which feeds it from *)
(* the adapter's stream through a bounded queue; and a stop watcher. All   *)
(* turns and the session's close task share one _SessionBinding. Tasks     *)
(* interleave at awaits only; an await of the adapter may last, fail, or   *)
(* be cancelled.                                                           *)
(***************************************************************************)
EXTENDS Naturals, Sequences, FiniteSets

CONSTANTS
    MaxTurns,       \* bound: turns of the session
    MaxEvents,      \* bound: events of a turn before its terminal
    QueueSize,      \* asyncio.Queue(maxsize=256)
    Overlap,        \* the host starts a turn before it ended the last stream
    Impatient       \* the host cancels a consumer again while it cleans up

ASSUME BoundsAssumption ==
    /\ MaxTurns \in Nat \ {0} /\ MaxEvents \in Nat /\ QueueSize \in Nat \ {0}
    /\ Overlap \in BOOLEAN /\ Impatient \in BOOLEAN

Turns == 1 .. MaxTurns
NoTurn == 0

VARIABLES
    session,        \* AgentSession and its place in the runtime's tables
    binding,        \* what the session's turns share
    current,        \* the turn of binding.turn_driver
    driver, watcher, queue, taken, consumer,    \* per turn
    closer          \* the session's close task

vars == <<session, binding, current, driver, watcher, queue, taken, consumer,
          closer>>

Item(t, kind) == [of |-> t, kind |-> kind]
Error(t, kind) == [of |-> t, kind |-> kind]
NoError == Error(NoTurn, "none")

Init ==
    /\ session = [closed |-> FALSE, listed |-> TRUE]
    \* active is turn_active and AgentSession._turn_active, which move together.
    /\ binding = [active |-> FALSE, invalidated |-> FALSE, interrupted |-> FALSE,
                  error |-> NoError, forced |-> NoTurn]
    /\ current = NoTurn
    /\ driver = [t \in Turns |->
         [pc |-> "none", primary |-> "none", enq |-> "none", hold |-> "none",
          emitted |-> 0, cancel |-> FALSE, fault |-> FALSE, asks |-> FALSE,
          open |-> TRUE, broken |-> FALSE]]
    /\ watcher = [t \in Turns |-> "off"]
    /\ queue = [t \in Turns |-> <<>>]
    /\ taken = [t \in Turns |-> FALSE]
    /\ consumer = [t \in Turns |->
         [pc |-> "idle", shown |-> <<>>, result |-> "none", by |-> NoTurn]]
    /\ closer = "none"

DriverDone(t) == driver[t].pc = "done"

\* driver.cancel()
Cancel(t) ==
    IF DriverDone(t) THEN UNCHANGED driver
    ELSE driver' = [driver EXCEPT ![t].cancel = TRUE]

(***************************************************************************)
(* The driver's unwinding. d and b are the driver and the binding as they  *)
(* stand in the middle of a step.                                          *)
(***************************************************************************)
Becomes(t, d, b) ==
    /\ driver' = [driver EXCEPT ![t] = d]
    /\ binding' = b

\* Mutant: the slot is freed before the session is fenced.
FinishUnfenced(t, d, b) ==
    LET hard == d.fault \/ d.primary = "defect" IN
    Becomes(t,
        [d EXCEPT !.pc = IF hard THEN "hard" ELSE "done"],
        [b EXCEPT !.active = FALSE,
            !.error = IF ~ hard /\ d.primary = "none" THEN NoError ELSE @])

\* The end of the finally block: the slot is free, and a clean-up that failed,
\* or a defect, costs the session.
Finish(t, d, b) ==
    LET hard == d.fault \/ d.primary = "defect" IN
    Becomes(t,
        [d EXCEPT !.pc = IF hard THEN "hard" ELSE "done"],
        [b EXCEPT !.active = FALSE, !.invalidated = @ \/ hard,
            !.error = IF ~ hard /\ d.primary = "none" THEN NoError ELSE @])

\* await source.aclose(), which suspends only if the stream has not ended.
Finally(t, d, b) ==
    IF d.open THEN Becomes(t, [d EXCEPT !.pc = "closing"], b)
    ELSE Finish(t, d, b)

\* What the error of the turn means to the consumer.
Classified(t, d, b) ==
    IF ~ b.invalidated THEN [b EXCEPT !.error = Error(t, d.primary)]
    ELSE IF d.enq = "none" THEN [b EXCEPT !.error = Error(t, "notstarted")]
    ELSE IF d.enq = "event" THEN [b EXCEPT !.forced = t]
    ELSE b

Raise(t, d, b) == Finally(t, d, Classified(t, d, b))

Enqueued(t, d, b, kind) ==
    LET e == [d EXCEPT !.enq = kind, !.hold = "none"] IN
    IF kind = "event" THEN Becomes(t, [e EXCEPT !.pc = "streaming"], b)
    ELSE IF ~ taken[t] THEN Becomes(t, [e EXCEPT !.pc = "awaiting"], b)
    ELSE Finally(t, e, b)

\* await queue.put(event)
Offer(t, d, b, kind) ==
    IF Len(queue[t]) < QueueSize
    THEN /\ queue' = [queue EXCEPT ![t] = Append(@, Item(t, kind))]
         /\ Enqueued(t, d, b, kind)
    ELSE /\ Becomes(t, [d EXCEPT !.pc = "putting", !.hold = kind], b)
         /\ UNCHANGED queue

\* The stop watcher is settled; a native interrupt it awaits is cancelled.
Quiet(t, b) == [b EXCEPT !.interrupted = @ /\ watcher[t] # "interrupting"]

\* The interruptible stream is left, by a synthetic terminal or by an error.
Leave(t, d, b) ==
    /\ watcher' = [watcher EXCEPT ![t] = "off"]
    /\ IF d.primary = "stop"
       THEN Offer(t, [d EXCEPT !.primary = "none"], Quiet(t, b), "terminal")
       ELSE Raise(t, d, Quiet(t, b)) /\ UNCHANGED queue

\* Its finally block first interrupts the turn, unless someone already did.
Unwind(t, d) ==
    IF binding.interrupted THEN Leave(t, d, binding)
    ELSE /\ Becomes(t, [d EXCEPT !.pc = "unwinding", !.asks = TRUE],
                       [binding EXCEPT !.interrupted = TRUE])
         /\ UNCHANGED <<watcher, queue>>

(***************************************************************************)
(* The driver: _drive_turn over _interruptible_stream.                     *)
(***************************************************************************)
Runs(t, pc) == driver[t].pc = pc /\ ~ driver[t].cancel
Stopping(t) == watcher[t] \in {"stopped", "failed"}

others == <<session, current, taken, consumer, closer>>

\* The adapter emits an event; one that comes together with a stop is dropped.
Emits(t) ==
    /\ Runs(t, "streaming") /\ ~ Stopping(t)
    /\ driver[t].emitted < MaxEvents
    /\ Offer(t, [driver[t] EXCEPT !.emitted = @ + 1], binding, "event")
    /\ UNCHANGED <<others, watcher>>

\* A native terminal wins over a stop. The grammar releases it only when the
\* stream has ended: the watcher is settled by then.
Completes(t) ==
    /\ Runs(t, "streaming")
    /\ watcher' = [watcher EXCEPT ![t] = "off"]
    /\ Offer(t, driver[t], Quiet(t, binding), "terminal")
    /\ UNCHANGED others

\* The stream raises, or ends without a terminal (a defect).
Breaks(t) ==
    /\ Runs(t, "streaming") /\ ~ Stopping(t)
    /\ \E e \in {"error", "defect"} :
         Unwind(t, [driver[t] EXCEPT !.primary = e, !.open = FALSE,
                                     !.broken = (e = "defect")])
    /\ UNCHANGED others

\* The queue has room again.
Puts(t) ==
    /\ Runs(t, "putting") /\ Len(queue[t]) < QueueSize
    /\ Offer(t, driver[t], binding, driver[t].hold)
    /\ UNCHANGED <<others, watcher>>

\* The consumer took the terminal, or is gone.
TerminalTaken(t) ==
    /\ Runs(t, "awaiting") /\ taken[t]
    /\ Finally(t, driver[t], binding)
    /\ UNCHANGED <<others, watcher, queue>>

\* The caller's signal or the deadline: the turn is interrupted once.
StopFires(t) ==
    /\ watcher[t] = "watching"
    /\ watcher' = [watcher EXCEPT
         ![t] = IF binding.interrupted THEN "stopped" ELSE "interrupting"]
    /\ binding' = [binding EXCEPT !.interrupted = TRUE]
    /\ UNCHANGED <<others, driver, queue>>

InterruptAnswered(t) ==
    /\ watcher[t] = "interrupting"
    /\ watcher' = [watcher EXCEPT ![t] = "stopped"]
    /\ UNCHANGED <<others, binding, driver, queue>>

InterruptFails(t) ==
    /\ watcher[t] = "interrupting"
    /\ watcher' = [watcher EXCEPT ![t] = "failed"]
    /\ binding' = [binding EXCEPT !.interrupted = FALSE]
    /\ UNCHANGED <<others, driver, queue>>

\* The driver sees the stop: it closes the stream, whose error it drops if one
\* came together with the stop, or it raises the failure of the interrupt.
Stops(t) ==
    /\ Runs(t, "streaming") /\ Stopping(t)
    /\ \/ /\ watcher[t] = "stopped"
          /\ \E broken \in BOOLEAN :
               Becomes(t, [driver[t] EXCEPT !.pc = "stopping", !.broken = broken,
                                            !.open = ~ broken], binding)
          /\ UNCHANGED <<watcher, queue>>
       \/ /\ watcher[t] = "failed"
          /\ Unwind(t, [driver[t] EXCEPT !.primary = "error", !.open = FALSE])
    /\ UNCHANGED others

\* The stream is closed: a turn that emitted nothing did not start, any other
\* gets a synthetic terminal. Closing a stream that has not ended may fail.
Stopped(t) ==
    /\ Runs(t, "stopping")
    /\ \E why \in {IF driver[t].emitted = 0 THEN "notstarted" ELSE "stop"}
                    \cup (IF driver[t].open THEN {"error", "defect"} ELSE {}) :
         Unwind(t, [driver[t] EXCEPT !.primary = why, !.open = FALSE])
    /\ UNCHANGED others

Unwound(t) ==
    /\ Runs(t, "unwinding")
    /\ Leave(t, driver[t], binding)
    /\ UNCHANGED others

\* The interrupt fails: a defect, whatever the turn was ending with.
UnwindingFails(t) ==
    /\ Runs(t, "unwinding") /\ driver[t].asks
    /\ Leave(t, [driver[t] EXCEPT !.primary = "defect"],
             [binding EXCEPT !.interrupted = FALSE])
    /\ UNCHANGED others

\* await interrupted.aclose(), of a stream suspended at an event.
Aclosed(t) ==
    /\ Runs(t, "aclosing")
    /\ watcher' = [watcher EXCEPT ![t] = "off"]
    /\ \/ Finally(t, driver[t], Quiet(t, binding))
       \/ /\ driver[t].asks
          /\ Finally(t, [driver[t] EXCEPT !.fault = TRUE],
                     [binding EXCEPT !.interrupted = FALSE])
    /\ UNCHANGED <<others, queue>>

Closed(t) ==
    /\ Runs(t, "closing")
    /\ \E failed \in BOOLEAN :
         Finish(t, [driver[t] EXCEPT !.open = FALSE, !.fault = @ \/ failed], binding)
    /\ UNCHANGED <<others, watcher, queue>>

\* await adapter.close_session(session) ends the driver.
HardEnd(t, fault) ==
    Becomes(t, [driver[t] EXCEPT !.pc = "done", !.cancel = FALSE],
        IF fault THEN [binding EXCEPT !.error = Error(t, "cleanup")] ELSE binding)

HardClosed(t) ==
    /\ Runs(t, "hard")
    /\ \E failed \in BOOLEAN : HardEnd(t, driver[t].fault \/ failed)
    /\ UNCHANGED <<others, watcher, queue>>

\* A cancellation arrives where the driver waits.
Cancelled(t) ==
    LET d == [driver[t] EXCEPT !.cancel = FALSE]
        c == [d EXCEPT !.primary = "cancelled"]
        b == Classified(t, c, binding) IN
    /\ driver[t].cancel
    /\ CASE d.pc = "streaming" ->       \* then the stream's task is settled
              /\ Becomes(t, [c EXCEPT !.pc = "unwinding", !.open = FALSE,
                                      !.asks = ~ binding.interrupted],
                            [binding EXCEPT !.interrupted = TRUE])
              /\ UNCHANGED <<watcher, queue>>
         [] d.pc = "stopping" -> Unwind(t, [c EXCEPT !.open = FALSE])
         [] d.pc = "unwinding" ->
              Leave(t, c, [binding EXCEPT !.interrupted = @ /\ ~ d.asks])
         [] d.pc = "putting" /\ d.hold = "event" ->
              /\ Becomes(t, [c EXCEPT !.pc = "aclosing", !.asks = ~ b.interrupted],
                            [b EXCEPT !.interrupted = TRUE])
              /\ UNCHANGED <<watcher, queue>>
         [] d.pc = "awaiting" \/ (d.pc = "putting" /\ d.hold = "terminal") ->
              Raise(t, c, binding) /\ UNCHANGED <<watcher, queue>>
         [] d.pc = "aclosing" ->
              /\ watcher' = [watcher EXCEPT ![t] = "off"]
              /\ Finally(t, [d EXCEPT !.fault = TRUE],
                         [binding EXCEPT !.interrupted = @ /\ ~ d.asks])
              /\ UNCHANGED queue
         [] d.pc = "closing" ->
              /\ Finish(t, [d EXCEPT !.fault = TRUE, !.open = FALSE], binding)
              /\ UNCHANGED <<watcher, queue>>
         [] d.pc = "hard" ->
              HardEnd(t, TRUE) /\ UNCHANGED <<watcher, queue>>
    /\ UNCHANGED others

(***************************************************************************)
(* The consumer: the generator stream_turn returns, resumed by the host.   *)
(***************************************************************************)
\* Mutant: the last turn's error stays on the binding.
StartDirty(t) ==
    /\ t = current + 1
    /\ Overlap \/ \A u \in 1 .. current : consumer[u].pc = "ended"
    /\ session.listed /\ ~ session.closed
    /\ ~ binding.invalidated /\ ~ binding.active
    /\ current' = t
    /\ binding' = [binding EXCEPT !.active = TRUE, !.interrupted = FALSE]
    /\ driver' = [driver EXCEPT ![t].pc = "streaming"]
    /\ watcher' = [watcher EXCEPT ![t] = "watching"]
    /\ consumer' = [consumer EXCEPT ![t].pc = "pulling"]
    /\ UNCHANGED <<session, queue, taken, closer>>

\* The first anext: the checks, the slot and a new driver.
Start(t) ==
    /\ t = current + 1
    /\ Overlap \/ \A u \in 1 .. current : consumer[u].pc = "ended"
    /\ session.listed /\ ~ session.closed
    /\ ~ binding.invalidated /\ ~ binding.active
    /\ current' = t
    /\ binding' = [binding EXCEPT !.active = TRUE, !.interrupted = FALSE,
                                  !.error = NoError, !.forced = NoTurn]
    /\ driver' = [driver EXCEPT ![t].pc = "streaming"]
    /\ watcher' = [watcher EXCEPT ![t] = "watching"]
    /\ consumer' = [consumer EXCEPT ![t].pc = "pulling"]
    /\ UNCHANGED <<session, queue, taken, closer>>

Shows(t, item, pc) ==
    consumer' = [consumer EXCEPT ![t].pc = pc, ![t].shown = Append(@, item)]

Takes(t) ==
    /\ consumer[t].pc = "pulling" /\ queue[t] # <<>>
    /\ queue' = [queue EXCEPT ![t] = Tail(@)]
    /\ taken' = [taken EXCEPT ![t] = @ \/ Head(queue[t]).kind = "terminal"]
    /\ Shows(t, Head(queue[t]), "holding")
    /\ UNCHANGED <<session, binding, current, driver, watcher, closer>>

Exhausted(t) == consumer[t].pc = "pulling" /\ queue[t] = <<>> /\ DriverDone(t)

\* The terminal that the end of the session forced.
TakesForced(t) ==
    /\ Exhausted(t) /\ binding.forced # NoTurn
    /\ binding' = [binding EXCEPT !.forced = NoTurn]
    /\ Shows(t, Item(binding.forced, "terminal"), "final")
    /\ UNCHANGED <<session, current, driver, watcher, queue, taken, closer>>

\* The generator ends: with the binding's error, or else with its own cause.
Ends(t, cause, error) ==
    consumer' = [consumer EXCEPT
        ![t].pc = "ended",
        ![t].result = IF error = NoError THEN cause ELSE "raised",
        ![t].by = error.of]

\* After the last item, pulled again; the finally block finds the driver done.
Finishes(t) ==
    /\ \/ Exhausted(t) /\ binding.forced = NoTurn
       \/ consumer[t].pc = "resumed"
    /\ taken' = [taken EXCEPT ![t] = TRUE]
    /\ Ends(t, "returned", binding.error)
    /\ UNCHANGED <<session, binding, current, driver, watcher, queue, closer>>

\* The host pulls the next item.
Resumes(t) ==
    /\ \/ /\ consumer[t].pc = "holding"
          /\ consumer' = [consumer EXCEPT ![t].pc = "pulling"]
       \/ /\ consumer[t].pc = "final"
          /\ consumer' = [consumer EXCEPT ![t].pc = "resumed"]
    /\ UNCHANGED <<session, binding, current, driver, watcher, queue, taken, closer>>

\* aclose() between two items, or the cancellation of a consumer that waits.
Abandons(t) ==
    /\ consumer[t].pc \in {"pulling", "holding", "final"}
    /\ taken' = [taken EXCEPT ![t] = TRUE]
    /\ Cancel(t)
    /\ consumer' = [consumer EXCEPT ![t].pc = "settling"]
    /\ UNCHANGED <<session, binding, current, watcher, queue, closer>>

\* A cancelled turn is not an error to the one who abandoned it.
LeftOver == IF binding.error.kind = "cancelled" THEN NoError ELSE binding.error

Settled(t) ==
    /\ consumer[t].pc = "settling"
    /\ DriverDone(t) \/ Impatient      \* a cancellation here is swallowed
    /\ Ends(t, "abandoned", LeftOver)
    /\ UNCHANGED <<session, binding, current, driver, watcher, queue, taken, closer>>

\* Mutant: a driver that does not settle leaves the session usable.
SettleTimesOutUnfenced(t) ==
    /\ consumer[t].pc = "settling" /\ ~ DriverDone(t)
    /\ consumer' = [consumer EXCEPT ![t].pc = "hardclosing"]
    /\ UNCHANGED <<session, binding, current, driver, watcher, queue, taken, closer>>

\* The driver did not settle in _TURN_CLEANUP_TIMEOUT_SECONDS.
SettleTimesOut(t) ==
    /\ consumer[t].pc = "settling" /\ ~ DriverDone(t)
    /\ binding' = [binding EXCEPT !.invalidated = TRUE]
    /\ consumer' = [consumer EXCEPT ![t].pc = "hardclosing"]
    /\ UNCHANGED <<session, current, driver, watcher, queue, taken, closer>>

\* await adapter.close_session(session), then the driver is cancelled again.
HardCloses(t) ==
    /\ consumer[t].pc = "hardclosing"
    /\ \/ UNCHANGED binding
       \/ binding' = [binding EXCEPT !.error = Error(t, "cleanup")]
    /\ Cancel(t)
    /\ consumer' = [consumer EXCEPT ![t].pc = "hardwaiting"]
    /\ UNCHANGED <<session, current, watcher, queue, taken, closer>>

HardSettles(t) ==
    /\ consumer[t].pc = "hardwaiting"
    /\ IF DriverDone(t) THEN Ends(t, "abandoned", LeftOver) /\ UNCHANGED binding
       ELSE /\ binding' = [binding EXCEPT !.error = Error(t, "cleanup")]
            /\ Ends(t, "abandoned", Error(t, "cleanup"))
    /\ UNCHANGED <<session, current, driver, watcher, queue, taken, closer>>

(***************************************************************************)
(* close_session: concurrent callers share one task.                       *)
(***************************************************************************)
\* begin_close, the fence, and the release of a driver that waits for its
\* consumer.
CloseSession ==
    /\ closer = "none"
    /\ session' = [session EXCEPT !.closed = TRUE]
    /\ binding' = [binding EXCEPT !.invalidated = TRUE]
    /\ taken' = [t \in Turns |-> taken[t] \/ t = current]
    /\ closer' = "ready"
    /\ UNCHANGED <<current, driver, watcher, queue, consumer>>

turns == <<current, watcher, queue, taken, consumer>>

\* Mutant: the closer does not wait for the driver.
CloserCancelsOnly ==
    /\ closer' = "adapter"
    /\ IF current = NoTurn THEN UNCHANGED driver ELSE Cancel(current)

\* The driver of the last turn is cancelled if it is not done.
CloserCancels ==
    IF current = NoTurn \/ DriverDone(current)
    THEN closer' = "adapter" /\ UNCHANGED driver
    ELSE closer' = "waiting" /\ Cancel(current)

CloserBegins ==
    /\ closer = "ready"
    /\ IF binding.active /\ ~ binding.interrupted
       THEN /\ binding' = [binding EXCEPT !.interrupted = TRUE]
            /\ closer' = "interrupting"
            /\ UNCHANGED driver
       ELSE CloserCancels /\ UNCHANGED binding
    /\ UNCHANGED <<session, turns>>

\* The interrupt returns, fails, or is cancelled when it is late.
CloserInterrupted ==
    /\ closer = "interrupting"
    /\ \/ UNCHANGED binding
       \/ binding' = [binding EXCEPT !.interrupted = FALSE]
    /\ CloserCancels
    /\ UNCHANGED <<session, turns>>

\* Mutant: the wait for the driver is not bounded.
CloserWaitedUnbounded ==
    /\ closer = "waiting" /\ DriverDone(current)
    /\ closer' = "adapter"
    /\ UNCHANGED <<session, turns, binding, driver>>

\* The driver is done, or late.
CloserWaited ==
    /\ closer = "waiting"
    /\ closer' = IF DriverDone(current) THEN "adapter" ELSE "late"
    /\ UNCHANGED <<session, turns, binding, driver>>

\* adapter.close_session returns, fails, or goes on without the closer, which
\* frees the slot and forgets the session.
CloserEnds ==
    /\ closer \in {"adapter", "late"}
    /\ binding' = [binding EXCEPT !.active = FALSE]
    /\ session' = [session EXCEPT !.listed = FALSE]
    /\ closer' = IF closer = "late" THEN "done late" ELSE "done"
    /\ UNCHANGED <<turns, driver>>

Driver(t) ==
    \/ Puts(t) \/ TerminalTaken(t) \/ Stops(t) \/ Cancelled(t)
Adapter(t) ==
    \/ Stopped(t) \/ Unwound(t) \/ UnwindingFails(t) \/ Aclosed(t) \/ Closed(t)
    \/ HardClosed(t) \/ InterruptAnswered(t) \/ InterruptFails(t)
Stream(t) == Emits(t) \/ Completes(t) \/ Breaks(t)
Consumer(t) ==
    \/ Takes(t) \/ TakesForced(t) \/ Finishes(t) \/ Settled(t) \/ SettleTimesOut(t)
    \/ HardSettles(t)
Host(t) == Start(t) \/ Resumes(t) \/ Abandons(t)
Closer == CloserBegins \/ CloserInterrupted \/ CloserWaited \/ CloserEnds

\* The session is closed and every stream has ended: no task is left.
Rest ==
    /\ closer \in {"done", "done late"}
    /\ \A t \in Turns :
         consumer[t].pc \in {"idle", "ended"} /\ driver[t].pc \in {"none", "done"}
    /\ UNCHANGED vars

Next ==
    \/ \E t \in Turns :
         \/ Host(t) \/ Consumer(t) \/ HardCloses(t)
         \/ Stream(t) \/ StopFires(t) \/ Driver(t) \/ Adapter(t)
    \/ CloseSession \/ Closer \/ Rest

Spec == Init /\ [][Next]_vars

\* The event loop runs every task that can run, and every timer fires: nothing
\* is assumed of the adapter or of the host.
RuntimeFairness ==
    /\ \A t \in Turns :
         WF_vars(Driver(t)) /\ WF_vars(Consumer(t)) /\ WF_vars(StopFires(t))
    /\ WF_vars(Closer)

FairSpec == Spec /\ RuntimeFairness

(***************************************************************************)
(* Properties.                                                             *)
(***************************************************************************)
Kinds == {"none", "error", "defect", "cancelled", "notstarted", "cleanup"}
Items == [of : Turns, kind : {"event", "terminal"}]

TypeOK ==
    /\ session \in [closed : BOOLEAN, listed : BOOLEAN]
    /\ binding \in [active : BOOLEAN, invalidated : BOOLEAN, interrupted : BOOLEAN,
                    error : [of : 0 .. MaxTurns, kind : Kinds], forced : 0 .. MaxTurns]
    /\ current \in 0 .. MaxTurns
    /\ driver \in [Turns ->
         [pc : {"none", "streaming", "putting", "awaiting", "stopping", "unwinding",
                "aclosing", "closing", "hard", "done"},
          primary : Kinds \cup {"stop"}, enq : {"none", "event", "terminal"},
          hold : {"none", "event", "terminal"}, emitted : 0 .. MaxEvents,
          cancel : BOOLEAN, fault : BOOLEAN, asks : BOOLEAN, open : BOOLEAN,
          broken : BOOLEAN]]
    /\ watcher \in [Turns -> {"off", "watching", "interrupting", "stopped", "failed"}]
    /\ \A t \in Turns : queue[t] \in Seq(Items) /\ Len(queue[t]) <= QueueSize
    /\ taken \in [Turns -> BOOLEAN]
    /\ \A t \in Turns :
         /\ consumer[t].pc \in {"idle", "pulling", "holding", "final", "resumed",
                                "settling", "hardclosing", "hardwaiting", "ended"}
         /\ consumer[t].shown \in Seq(Items)
         /\ consumer[t].result \in {"none", "returned", "raised", "abandoned"}
         /\ consumer[t].by \in 0 .. MaxTurns
    /\ closer \in {"none", "ready", "interrupting", "waiting", "adapter", "late",
                   "done", "done late"}

Live(t) == driver[t].pc \notin {"none", "done"}
\* The adapter serves one turn of the session at a time, whatever consumers
\* were abandoned and whatever clean-up was given up.
OneDriver == \A t, u \in Turns : Live(t) /\ Live(u) => t = u

\* A stream raises the error of its own turn only.
RaisedIsOwn == \A t \in Turns : consumer[t].result = "raised" => consumer[t].by = t

\* A stream that has ended leaves a driver behind only in a session that no
\* later turn can use.
EndedIsSettled ==
    \A t \in Turns : consumer[t].pc = "ended" /\ Live(t) => binding.invalidated

\* A session is closed quietly: no driver is left, unless the closer said it
\* was late, and none begins.
ClosedIsQuiet ==
    closer \in {"done", "done late"} =>
        /\ ~ binding.active
        /\ closer = "done" => \A t \in Turns : ~ Live(t)

\* close_session ends, whatever the driver, the consumer and the adapter do.
CloseEnds == closer = "ready" ~> closer \in {"done", "done late"}
=============================================================================
