---------------------------- MODULE AgentRuntime ----------------------------
(* What an AgentRuntime owns and what its close() leaves (agent_runtime/     *)
(* runtime.py): operations that open a session in tasks shielded from their  *)
(* callers, one of which first runs a command of OwnedProcess; the tasks     *)
(* that close one session; and close(), which drains them all within bounds  *)
(* and then closes the adapters. AgentTurns, CodexTurn, ClaudeSession and    *)
(* CodexSession have what happens inside a turn and inside an adapter; here  *)
(* an adapter's open and its teardown end some time, or never.               *)
EXTENDS OwnedProcess, Naturals, FiniteSets

CONSTANTS
    Ops,         \* open_session operations; each opens one session, its own
    Prober,      \* the one for Claude: it asks the CLI's version first
    MaxCancels   \* how often the host cancels its calls

ASSUME RuntimeAssumption == Prober \in Ops /\ MaxCancels \in Nat

VARIABLES
    closed,      \* the runtime's _closed
    op,          \* the operation's task
    caller,      \* the call that awaits it
    native,      \* the session in its adapter
    registered,  \* the runtime's _sessions
    turn,        \* the session's turn: a driver's or a prepared one
    sessionClose, \* the session's close_task
    shutdown,    \* the runtime's close: [pc, ops: the tasks it drains, took, error]
    cancels

runtimeVars == <<closed, op, caller, native, registered, turn, sessionClose, shutdown, cancels>>
allVars == <<runtimeVars, processVars>>

RuntimeInit ==
    /\ ProcessInit
    /\ closed = FALSE /\ registered = {} /\ cancels = 0
    /\ op = [o \in Ops |-> "none"]
    /\ caller = [o \in Ops |-> "none"]
    /\ native = [o \in Ops |-> "none"]
    /\ turn = [o \in Ops |-> "none"]
    /\ sessionClose = [o \in Ops |-> "none"]
    /\ shutdown = [pc |-> "none", ops |-> {}, took |-> {}, error |-> FALSE]

-----------------------------------------------------------------------------
(* open_session: an owned operation and its caller.                          *)

\* A session the adapter still has in hand, or that is its own.
Opening(o) == native[o] \in {"opening", "unwinding"}

Call(o) ==
    /\ op[o] = "none" /\ ~ closed
    /\ caller' = [caller EXCEPT ![o] = "waiting"]
    /\ IF o = Prober
       THEN /\ Spawn
            /\ op' = [op EXCEPT ![o] = "probing"]
            /\ UNCHANGED native
       ELSE /\ op' = [op EXCEPT ![o] = "opening"]
            /\ native' = [native EXCEPT ![o] = "opening"]
            /\ UNCHANGED processVars
    /\ UNCHANGED <<closed, registered, turn, sessionClose, shutdown, cancels>>

Probed ==
    /\ op[Prober] = "probing" /\ CaptureEnded
    /\ IF capture = "returned"
       THEN /\ op' = [op EXCEPT ![Prober] = "opening"]
            /\ native' = [native EXCEPT ![Prober] = "opening"]
       ELSE op' = [op EXCEPT ![Prober] = "done"] /\ UNCHANGED native
    /\ UNCHANGED <<closed, caller, registered, turn, sessionClose, shutdown, cancels, processVars>>

\* The adapter's session is registered, unless the runtime has been closed.
Opened(o) ==
    /\ op[o] = "opening" /\ native[o] = "opening"
    /\ op' = [op EXCEPT ![o] = "done"]
    /\ native' = [native EXCEPT ![o] = "held"]
    /\ registered' = IF closed THEN registered ELSE registered \cup {o}
    /\ UNCHANGED <<closed, caller, turn, sessionClose, shutdown, cancels, processVars>>

\* The adapter fails or is cancelled, and unwinds what it had begun.
OpenFails(o) ==
    /\ op[o] = "opening" /\ native[o] = "opening"
    /\ native' = [native EXCEPT ![o] = "unwinding"]
    /\ UNCHANGED <<closed, op, caller, registered, turn, sessionClose, shutdown, cancels, processVars>>

OpenUnwound(o) ==
    /\ op[o] = "opening" /\ native[o] \in {"unwinding", "closing", "gone", "failed"}
    /\ op' = [op EXCEPT ![o] = "done"]
    /\ native' = IF native[o] = "unwinding" THEN [native EXCEPT ![o] = "gone"] ELSE native
    /\ UNCHANGED <<closed, caller, registered, turn, sessionClose, shutdown, cancels, processVars>>

\* task.cancel() of some of the operations.
CancelOps(tasks) ==
    /\ native' = [o \in Ops |-> IF o \in tasks /\ op[o] = "opening" /\ native[o] = "opening"
                                THEN "unwinding" ELSE native[o]]
    /\ IF Prober \in tasks /\ op[Prober] = "probing" THEN CaptureCancelled
       ELSE UNCHANGED <<ending, capture>>
    /\ UNCHANGED <<child, process>>

\* A caller that is cancelled cancels its operation, and waits for its end.
CallerCancelled(o) ==
    /\ caller[o] \in {"waiting", "unwinding"} /\ cancels < MaxCancels
    /\ cancels' = cancels + 1
    /\ caller' = [caller EXCEPT ![o] = "unwinding"]
    /\ CancelOps({o})
    /\ UNCHANGED <<closed, op, registered, turn, sessionClose, shutdown>>

\* The result is handed over only if the runtime is still open.
Returns(o) ==
    /\ caller[o] \in {"waiting", "unwinding"} /\ op[o] = "done"
    /\ caller' = [caller EXCEPT ![o] =
         IF @ = "waiting" /\ o \in registered /\ ~ closed THEN "got" ELSE "raised"]
    /\ UNCHANGED <<closed, op, native, registered, turn, sessionClose, shutdown, cancels, processVars>>

-----------------------------------------------------------------------------
(* Turns and close_session, as far as close() meets them.                    *)

\* A turn on the session, by the runtime's driver or prepared for the host.
TurnBegins(o) ==
    /\ caller[o] = "got" /\ turn[o] = "none"
    /\ ~ closed /\ o \in registered /\ sessionClose[o] = "none"
    /\ \E kind \in {"driven", "prepared"} : turn' = [turn EXCEPT ![o] = kind]
    /\ UNCHANGED <<closed, op, caller, native, registered, sessionClose, shutdown, cancels, processVars>>

TurnEnds(o) ==
    /\ turn[o] # "none"
    /\ turn' = [turn EXCEPT ![o] = "none"]
    /\ UNCHANGED <<closed, op, caller, native, registered, sessionClose, shutdown, cancels, processVars>>

\* The adapter's teardown of a session is over, one way or the other.
TeardownEnds(o) ==
    /\ native[o] = "closing"
    /\ \E end \in {"gone", "failed"} : native' = [native EXCEPT ![o] = end]
    /\ UNCHANGED <<closed, op, caller, registered, turn, sessionClose, shutdown, cancels, processVars>>

SessionCloses(o) ==
    /\ caller[o] = "got" /\ o \in registered /\ ~ closed /\ sessionClose[o] = "none"
    /\ sessionClose' = [sessionClose EXCEPT ![o] = "settling"]
    /\ UNCHANGED <<closed, op, caller, native, registered, turn, shutdown, cancels, processVars>>

\* The turn has been stopped within its bounds; the adapter closes the session,
\* in a task that no lateness and no cancellation cancels.
SessionSettled(o) ==
    /\ sessionClose[o] = "settling"
    /\ sessionClose' = [sessionClose EXCEPT ![o] = "closing"]
    /\ native' = [native EXCEPT ![o] = IF @ = "held" THEN "closing" ELSE @]
    /\ UNCHANGED <<closed, op, caller, registered, turn, shutdown, cancels, processVars>>

\* The teardown has ended, or its bound has passed: either way the session is
\* forgotten, and the caller told.
SessionClosed(o) ==
    /\ sessionClose[o] = "closing"
    /\ sessionClose' = [sessionClose EXCEPT ![o] = "done"]
    /\ turn' = [turn EXCEPT ![o] = "none"]
    /\ registered' = registered \ {o}
    /\ UNCHANGED <<closed, op, caller, native, shutdown, cancels, processVars>>

-----------------------------------------------------------------------------
(* close.                                                                    *)

\* The tasks of _operation_tasks that are not done.
OpPending(tasks) == {o \in tasks : op[o] \in {"probing", "opening"}}
ClosePending(tasks) == {o \in tasks : sessionClose[o] \in {"settling", "closing"}}
Pending(tasks) == OpPending(tasks) \cup ClosePending(tasks)

\* Mutant: only the sessions' close tasks are drained.
CloseUndrained ==
    /\ ~ closed
    /\ closed' = TRUE
    /\ shutdown' = [shutdown EXCEPT !.pc = "codex", !.ops = ClosePending(Ops)]
    /\ UNCHANGED <<op, caller, native, registered, turn, sessionClose, cancels, processVars>>

Close ==
    /\ ~ closed
    /\ closed' = TRUE
    /\ shutdown' = [shutdown EXCEPT !.pc = "codex", !.ops = Pending(Ops)]
    /\ UNCHANGED <<op, caller, native, registered, turn, sessionClose, cancels, processVars>>

\* A phase of close ends, perhaps with an error to report.
Phase(from, to, errors) ==
    /\ shutdown.pc = from
    /\ \E error \in errors : shutdown' = [shutdown EXCEPT !.pc = to, !.error = @ \/ error]

CodexCloses ==
    /\ Phase("codex", "drain", BOOLEAN)
    /\ UNCHANGED <<closed, op, caller, native, registered, turn, sessionClose, cancels, processVars>>

Drained ==
    /\ Pending(shutdown.ops) = {}
    /\ Phase("drain", "turns", {FALSE}) \/ Phase("settle", "turns", {FALSE})
    /\ UNCHANGED <<closed, op, caller, native, registered, turn, sessionClose, cancels, processVars>>

\* Mutant: an operation that does not end is waited for.
DrainLateNever == FALSE /\ UNCHANGED allVars

\* The bound of the drain: what is left is cancelled. A close task that is
\* cancelled leaves its teardown to end by itself; while it closes a prepared
\* turn it takes the cancellation for an error of that turn, and goes on.
DrainLate ==
    /\ Pending(shutdown.ops) # {}
    /\ Phase("drain", "settle", {FALSE})
    /\ CancelOps(OpPending(shutdown.ops))
    /\ \E deaf \in SUBSET {o \in Ops : sessionClose[o] = "settling" /\ turn[o] = "prepared"} :
         sessionClose' = [o \in Ops |-> IF o \in ClosePending(shutdown.ops) \ deaf THEN "done"
                                        ELSE sessionClose[o]]
    /\ UNCHANGED <<closed, op, caller, registered, turn, cancels>>

SettleLate ==
    /\ Pending(shutdown.ops) # {}
    /\ Phase("settle", "turns", {TRUE})
    /\ UNCHANGED <<closed, op, caller, native, registered, turn, sessionClose, cancels, processVars>>

\* Prepared turns are closed, streamed ones interrupted, each within a bound.
StopsTurns ==
    /\ Phase("turns", "drivers", BOOLEAN)
    /\ turn' = [o \in Ops |-> IF o \in registered /\ turn[o] = "prepared" THEN "none" ELSE turn[o]]
    /\ UNCHANGED <<closed, op, caller, native, registered, sessionClose, cancels, processVars>>

\* Drivers end, or are cancelled; one that does not settle is an error, and
\* its session is released all the same.
DriversEnd ==
    /\ Phase("drivers", "adapters", IF \A o \in registered : turn[o] = "none" THEN {FALSE}
                                    ELSE BOOLEAN)
    /\ turn' = [o \in Ops |-> IF o \in registered THEN "none" ELSE turn[o]]
    /\ UNCHANGED <<closed, op, caller, native, registered, sessionClose, cancels, processVars>>

\* Every adapter closes the sessions it has; Codex also the clients of those
\* it is opening.
AdaptersClose ==
    LET took == {o \in Ops : native[o] = "held" \/ (o # Prober /\ Opening(o))}
    IN /\ shutdown.pc = "adapters"
       /\ shutdown' = [shutdown EXCEPT !.pc = "closing", !.took = took]
       /\ native' = [o \in Ops |-> IF o \in took THEN "closing" ELSE native[o]]
       /\ UNCHANGED <<closed, op, caller, registered, turn, sessionClose, cancels, processVars>>

\* They are done, or late: what is late is reported and goes on.
AdaptersClosed ==
    /\ Phase("closing", "returned",
             {\E o \in shutdown.took : native[o] # "gone"})
    /\ registered' = {}
    /\ UNCHANGED <<closed, op, caller, native, turn, sessionClose, cancels, processVars>>

-----------------------------------------------------------------------------
CloseSteps ==
    \/ CodexCloses \/ Drained \/ DrainLate \/ SettleLate \/ StopsTurns
    \/ DriversEnd \/ AdaptersClose \/ AdaptersClosed

Operation(o) == Call(o) \/ Opened(o) \/ OpenFails(o) \/ OpenUnwound(o)
HostSteps(o) == CallerCancelled(o) \/ Returns(o) \/ TurnBegins(o) \/ SessionCloses(o)
Session(o) == TurnEnds(o) \/ TeardownEnds(o) \/ SessionSettled(o) \/ SessionClosed(o)

\* The command and its capture while they exist.
ProcessStep == (Command \/ Capture) /\ UNCHANGED runtimeVars

RuntimeNext ==
    \/ \E o \in Ops : Operation(o) \/ HostSteps(o) \/ Session(o)
    \/ Probed \/ Close \/ CloseSteps \/ ProcessStep

RuntimeSpec == RuntimeInit /\ [][RuntimeNext]_allVars

\* The runtime's own task runs, and its timers fire; no adapter need answer.
FairRuntimeSpec == RuntimeSpec /\ WF_allVars(CloseSteps)

-----------------------------------------------------------------------------
(* What close() promises.                                                    *)

\* A close that reports no error leaves nothing of its own: no operation, no
\* session that is registered or that an adapter holds, no command alive. Only
\* the teardown of a session the host was closing by itself may not be over.
ClosedOwnsNothing ==
    (shutdown.pc = "returned" /\ ~ shutdown.error) =>
        /\ OpPending(Ops) = {} /\ registered = {}
        /\ \A o \in Ops : \/ native[o] \in {"none", "gone"}
                          \/ sessionClose[o] = "done" /\ native[o] \in {"closing", "failed"}
        /\ GroupSettled

\* close() ends, whatever the adapters, the turns and the command do.
CloseIsBounded == closed ~> shutdown.pc = "returned"
=============================================================================
