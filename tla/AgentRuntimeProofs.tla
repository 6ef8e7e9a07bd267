------------------------- MODULE AgentRuntimeProofs -------------------------
(***************************************************************************)
(* Theorems about the agent runtime (agent_runtime/runtime.py).            *)
(*                                                                         *)
(* AgentRuntime: a close() that reports no error leaves nothing, for any   *)
(* set of operations and any number of cancellations. The invariant says   *)
(* of each phase of close which tasks may still run and who answers for a  *)
(* session; the command's part says that a capture never ends over a live  *)
(* group that close() is not about to end.                                 *)
(*                                                                         *)
(* AgentTurns: the session's slot, its close, and whose error a stream     *)
(* raises, for any number of turns and events and every size of the queue. *)
(***************************************************************************)
EXTENDS AgentRuntime, AgentTurns, TLAPS

-----------------------------------------------------------------------------
(* What the runtime owns.                                                    *)


Phases == {"none", "codex", "drain", "settle", "turns", "drivers", "adapters", "closing", "returned"}
Late == {"turns", "drivers", "adapters", "closing", "returned"}

RuntimeTyped ==
    /\ closed \in BOOLEAN
    /\ op \in [Ops -> {"none", "probing", "opening", "done"}]
    /\ native \in [Ops -> {"none", "opening", "unwinding", "held", "closing", "gone", "failed"}]
    /\ registered \in SUBSET Ops
    /\ sessionClose \in [Ops -> {"none", "settling", "closing", "done"}]
    /\ shutdown \in [pc : Phases, ops : SUBSET Ops, took : SUBSET Ops, error : BOOLEAN]

CommandTypeOK ==
    /\ child \in [leader : {"none", "runs", "zombie", "reaped"}, others : BOOLEAN]
    /\ process \in [pinned : BOOLEAN, exit : BOOLEAN, overflow : BOOLEAN, expired : BOOLEAN]
    /\ ending \in [by : {"none", "wait", "handler", "close"},
                   at : {"off", "watch", "term", "linger", "reap", "settle"}]
    /\ capture \in {"idle", "reading", "waiting", "closing", "closing again",
                    "returned", "raised"}

\* A termination that has killed, or found nobody to kill, leaves nobody alive;
\* a capture that has ended leaves a group only to close.
CommandInv ==
    /\ CommandTypeOK
    /\ capture = "idle" => ~ Alive /\ ending.by = "none"
    /\ capture = "reading" => ending.by = "none"
    /\ capture = "waiting" => ending.by \in {"wait", "handler"}
    /\ capture \in {"closing", "closing again"} => ending.by = "close"
    /\ CaptureEnded => ending.by \in {"none", "close"} /\ GroupSettled
    /\ ending.by = "none" <=> ending.at = "off"
    /\ ending.at \in {"reap", "settle"} => ~ Alive

\* An operation has the command while it probes, and its session while it opens.
HandOver ==
    /\ op[Prober] = "none" => capture = "idle"
    /\ op[Prober] \in {"opening", "done"} => CaptureEnded
    /\ \A o \in Ops :
         /\ native[o] \in {"opening", "unwinding"} => op[o] = "opening"
         /\ op[o] = "none" => native[o] = "none"

\* Every task that runs after close() began is one that it drains; past the
\* drain there is none, or an error to report.
Drains ==
    /\ shutdown.pc = "none" <=> ~ closed
    /\ closed => Pending(Ops) \subseteq shutdown.ops
    /\ shutdown.pc \in Late /\ ~ shutdown.error => Pending(Ops) = {}

\* A session that is torn down belongs to its own close task or to close(),
\* which has answered for it once it returned.
Answered ==
    /\ \A o \in Ops : native[o] \in {"closing", "failed"} =>
         sessionClose[o] \in {"closing", "done"} \/ o \in shutdown.took
    /\ shutdown.pc \notin {"closing", "returned"} => shutdown.took = {}
    /\ shutdown.pc \in {"closing", "returned"} /\ ~ shutdown.error =>
         \A o \in Ops : native[o] # "held"
    /\ shutdown.pc = "returned" => registered = {}
    /\ shutdown.pc = "returned" /\ ~ shutdown.error =>
         \A o \in shutdown.took : native[o] = "gone"

IInv == RuntimeTyped /\ CommandInv /\ HandOver /\ Drains /\ Answered

-----------------------------------------------------------------------------
(* The command.                                                              *)

CommandKept == CommandInv' /\ (CaptureEnded => CaptureEnded') /\ capture' # "idle"

LEMMA CommandRuns ==
    ASSUME CommandInv, Command
    PROVE  CommandInv' /\ capture' = capture
<1>1. CASE LeaderExits
  BY <1>1 DEF CommandInv, CommandTypeOK, LeaderExits, Alive, CaptureEnded, GroupSettled
<1>2. CASE LeaderReaped
  BY <1>2 DEF CommandInv, CommandTypeOK, LeaderReaped, Alive, CaptureEnded, GroupSettled
<1>3. CASE OthersBegin
  BY <1>3 DEF CommandInv, CommandTypeOK, OthersBegin, Alive, CaptureEnded, GroupSettled
<1>4. CASE OthersExit
  BY <1>4 DEF CommandInv, CommandTypeOK, OthersExit, Alive, CaptureEnded, GroupSettled
<1>5. CASE Overflows
  BY <1>5 DEF CommandInv, CommandTypeOK, Overflows, Alive, CaptureEnded, GroupSettled
<1> QED BY <1>1, <1>2, <1>3, <1>4, <1>5 DEF Command

LEMMA CommandSpawns ==
    ASSUME CommandInv, Spawn
    PROVE  CommandInv'
BY DEF CommandInv, CommandTypeOK, Spawn, Alive, CaptureEnded, GroupSettled

LEMMA CommandCancelled ==
    ASSUME CommandInv, CaptureCancelled, UNCHANGED child,
           process' \in [pinned : BOOLEAN, exit : BOOLEAN, overflow : BOOLEAN, expired : BOOLEAN]
    PROVE  CommandInv' /\ (CaptureEnded => CaptureEnded') /\ (capture' = "idle" <=> capture = "idle")
<1>1. CASE capture = "reading"
  BY <1>1 DEF CommandInv, CommandTypeOK, CaptureCancelled, BeginsClose, Alive, CaptureEnded, GroupSettled
<1>2. CASE capture = "waiting"
  <2>1. CASE ending.by = "wait"
    <3>1. ending' = [by |-> "handler", at |-> "term"] /\ capture' = capture
      BY <1>2, <2>1 DEF CaptureCancelled
    <3> QED BY <1>2, <3>1 DEF CommandInv, CommandTypeOK, Alive, CaptureEnded, GroupSettled
  <2>2. CASE ending.by = "handler"
    <3>1. BeginsClose
      BY <1>2, <2>2 DEF CaptureCancelled
    <3> QED BY <1>2, <3>1 DEF BeginsClose, CommandInv, CommandTypeOK, Alive, CaptureEnded, GroupSettled
  <2> QED BY <1>2, <2>1, <2>2 DEF CommandInv
<1>3. CASE capture \in {"closing", "closing again"}
  BY <1>3 DEF CommandInv, CommandTypeOK, CaptureCancelled, BeginsClose, Alive, CaptureEnded, GroupSettled
<1>4. CASE capture \in {"idle", "returned", "raised"}
  BY <1>4 DEF CommandInv, CommandTypeOK, CaptureCancelled, BeginsClose, Alive, CaptureEnded, GroupSettled
<1> QED BY <1>1, <1>2, <1>3, <1>4 DEF CommandInv, CommandTypeOK

LEMMA CaptureRuns ==
    ASSUME CommandInv, Capture
    PROVE  CommandKept
<1> USE DEF CommandKept, CommandInv, CommandTypeOK, Alive, CaptureEnded, GroupSettled
<1>1. CASE ReadsToEnd
  BY <1>1 DEF ReadsToEnd
<1>2. CASE ReadFails
  BY <1>2 DEF ReadFails, BeginsClose
<1>3. CASE Watched
  BY <1>3 DEF Watched, Exists
<1>4. CASE Terminated
  BY ZenonT(40), <1>4 DEF Terminated, Exists
<1>5. CASE Killed
  BY <1>5 DEF Killed
<1>6. CASE Reaped
  BY <1>6 DEF Reaped
<1>7. CASE ReapFails
  <2>1. CASE ending.by = "close"
    <3>1. /\ ending' = [by |-> "none", at |-> "off"] /\ UNCHANGED <<child, process>>
          /\ capture' = "raised" /\ ~ Alive
      BY <1>7, <2>1 DEF ReapFails
    <3> QED BY <3>1
  <2>2. CASE ending.by # "close"
    <3>1. capture = "waiting" /\ BeginsClose /\ UNCHANGED <<child, process>>
      BY <1>7, <2>2 DEF ReapFails
    <3> QED BY <3>1 DEF BeginsClose
  <2> QED BY <2>1, <2>2
<1>8. CASE TerminationSettles
  <2>1. CASE ending.by = "handler"
    <3>1. capture = "waiting" /\ BeginsClose /\ UNCHANGED <<child, process>>
      BY <1>8, <2>1 DEF TerminationSettles
    <3> QED BY <3>1 DEF BeginsClose
  <2>2. CASE ending.by # "handler"
    <3>1. /\ ending' = [by |-> "none", at |-> "off"] /\ UNCHANGED child
          /\ process' = [process EXCEPT !.exit = TRUE, !.pinned = FALSE]
          /\ capture' \in {"returned", "raised"} /\ ~ Alive
      BY <1>8, <2>2 DEF TerminationSettles
    <3> QED BY <3>1
  <2> QED BY <2>1, <2>2
<1>9. CASE TimesOut
  <2>1. process' \in [pinned : BOOLEAN, exit : BOOLEAN, overflow : BOOLEAN, expired : BOOLEAN]
    BY <1>9 DEF TimesOut
  <2>2. CaptureCancelled /\ UNCHANGED child /\ capture # "idle"
    BY <1>9 DEF TimesOut
  <2> QED BY <2>1, <2>2, CommandCancelled
<1> QED BY <1>1, <1>2, <1>3, <1>4, <1>5, <1>6, <1>7, <1>8, <1>9 DEF Capture

-----------------------------------------------------------------------------
(* The runtime.                                                              *)

LEMMA CommandRests ==
    ASSUME CommandInv, UNCHANGED processVars
    PROVE  CommandInv' /\ (CaptureEnded' <=> CaptureEnded) /\ capture' = capture
<1>1. child' = child /\ process' = process /\ ending' = ending /\ capture' = capture
  BY DEF processVars
<1>2. CaptureEnded' <=> CaptureEnded
  BY <1>1 DEF CaptureEnded
<1>3. CommandInv'
  <2>1. CommandTypeOK'
    <3>1. CommandTypeOK
      BY DEF CommandInv
    <3>2. child' \in [leader : {"none", "runs", "zombie", "reaped"}, others : BOOLEAN]
      BY <1>1, <3>1, Zenon DEF CommandTypeOK
    <3>3. process' \in [pinned : BOOLEAN, exit : BOOLEAN, overflow : BOOLEAN, expired : BOOLEAN]
      BY <1>1, <3>1, Zenon DEF CommandTypeOK
    <3>4. ending' \in [by : {"none", "wait", "handler", "close"},
                      at : {"off", "watch", "term", "linger", "reap", "settle"}]
      BY <1>1, <3>1, Zenon DEF CommandTypeOK
    <3>5. capture' \in {"idle", "reading", "waiting", "closing", "closing again",
                        "returned", "raised"}
      BY <1>1, <3>1 DEF CommandTypeOK
    <3> QED BY <3>2, <3>3, <3>4, <3>5, Zenon DEF CommandTypeOK
  <2>2. (Alive' <=> Alive) /\ (GroupSettled' <=> GroupSettled)
    BY <1>1 DEF Alive, GroupSettled
  <2> QED BY <1>1, <1>2, <2>1, <2>2, Zenon DEF CommandInv
<1> QED BY <1>1, <1>2, <1>3

\* What task.cancel() of the operations leaves: a command that is being ended,
\* and opens that unwind.
LEMMA OpsCancelled ==
    ASSUME RuntimeTyped, CommandInv, NEW tasks \in SUBSET Ops, CancelOps(tasks)
    PROVE  /\ CommandInv'
           /\ CaptureEnded => CaptureEnded'
           /\ capture' = "idle" <=> capture = "idle"
           /\ native' \in [Ops -> {"none", "opening", "unwinding", "held", "closing", "gone", "failed"}]
           /\ \A o \in Ops : native'[o] # native[o] =>
                native[o] = "opening" /\ native'[o] = "unwinding"
<1>1. UNCHANGED <<child, process>>
  BY DEF CancelOps
<1>2. CASE UNCHANGED <<ending, capture>>
  <2>1. UNCHANGED processVars
    BY <1>1, <1>2 DEF processVars
  <2> QED BY <2>1, CommandRests DEF CancelOps, RuntimeTyped
<1>3. CASE CaptureCancelled
  <2>1. process' \in [pinned : BOOLEAN, exit : BOOLEAN, overflow : BOOLEAN, expired : BOOLEAN]
    BY <1>1 DEF CommandInv, CommandTypeOK
  <2> QED BY <1>1, <1>3, <2>1, CommandCancelled DEF CancelOps, RuntimeTyped
<1> QED BY <1>2, <1>3 DEF CancelOps

\* The runtime begins with nothing of its own, so with the invariant.
THEOREM InitInvariant == RuntimeInit => IInv
<1> SUFFICES ASSUME RuntimeInit PROVE IInv
  OBVIOUS
<1>1. RuntimeTyped /\ HandOver
  BY RuntimeAssumption DEF RuntimeInit, ProcessInit, RuntimeTyped, Phases, HandOver
<1>2. CommandInv
  BY DEF RuntimeInit, ProcessInit, CommandInv, CommandTypeOK, Alive, CaptureEnded
<1>3. Drains /\ Answered
  BY DEF RuntimeInit, Drains, Answered, Late
<1> QED BY <1>1, <1>2, <1>3 DEF IInv

LEMMA CallKeeps ==
    ASSUME IInv, NEW o \in Ops, Call(o)
    PROVE  IInv'
<1>1. /\ CommandInv' /\ (CaptureEnded => CaptureEnded')
      /\ op'[Prober] = "none" => capture' = "idle"
      /\ op'[Prober] \in {"opening", "done"} => CaptureEnded'
  <2>1. CASE o = Prober
    BY <2>1, CommandSpawns, RuntimeAssumption DEF Call, IInv, RuntimeTyped, HandOver, Spawn, CaptureEnded
  <2>2. CASE o # Prober
    BY <2>2, CommandRests, RuntimeAssumption DEF Call, IInv, RuntimeTyped, HandOver
  <2> QED BY <2>1, <2>2
<1>2. RuntimeTyped'
  BY <1>1 DEF IInv, RuntimeTyped, Phases, Call
<1>3. HandOver'
  BY <1>1, RuntimeAssumption DEF IInv, RuntimeTyped, HandOver, Call
<1>4. Drains'
  BY <1>1 DEF IInv, RuntimeTyped, Drains, Pending, OpPending, ClosePending, Late, Phases, Call
<1>5. Answered'
  BY <1>1 DEF IInv, RuntimeTyped, HandOver, Answered, Drains, Pending, OpPending, ClosePending, Late, Phases, Call
<1> QED BY <1>1, <1>2, <1>3, <1>4, <1>5 DEF IInv

LEMMA ProbedKeeps ==
    ASSUME IInv, Probed
    PROVE  IInv'
<1>1. CommandInv' /\ (CaptureEnded' <=> CaptureEnded) /\ capture' = capture
  BY CommandRests DEF IInv, Probed
<1>2. RuntimeTyped'
  BY <1>1 DEF IInv, RuntimeTyped, Phases, Probed
<1>3. HandOver'
  BY <1>1, RuntimeAssumption DEF IInv, RuntimeTyped, HandOver, Probed
<1>4. Drains'
  BY <1>1 DEF IInv, RuntimeTyped, Drains, Pending, OpPending, ClosePending, Late, Phases, Probed
<1>5. Answered'
  BY <1>1 DEF IInv, RuntimeTyped, HandOver, Answered, Drains, Pending, OpPending, ClosePending, Late, Phases, Probed
<1> QED BY <1>1, <1>2, <1>3, <1>4, <1>5 DEF IInv

LEMMA OpenedKeeps ==
    ASSUME IInv, NEW o \in Ops, Opened(o)
    PROVE  IInv'
<1>1. CommandInv' /\ (CaptureEnded' <=> CaptureEnded) /\ capture' = capture
  BY CommandRests DEF IInv, Opened
<1>2. RuntimeTyped'
  BY <1>1 DEF IInv, RuntimeTyped, Phases, Opened
<1>3. HandOver'
  BY <1>1, RuntimeAssumption DEF IInv, RuntimeTyped, HandOver, Opened
<1>4. Drains'
  BY <1>1 DEF IInv, RuntimeTyped, Drains, Pending, OpPending, ClosePending, Late, Phases, Opened
<1>5. Answered'
  BY <1>1 DEF IInv, RuntimeTyped, HandOver, Answered, Drains, Pending, OpPending, ClosePending, Late, Phases, Opened
<1> QED BY <1>1, <1>2, <1>3, <1>4, <1>5 DEF IInv

LEMMA OpenFailsKeeps ==
    ASSUME IInv, NEW o \in Ops, OpenFails(o)
    PROVE  IInv'
<1>1. CommandInv' /\ (CaptureEnded' <=> CaptureEnded) /\ capture' = capture
  BY CommandRests DEF IInv, OpenFails
<1>2. RuntimeTyped'
  BY <1>1 DEF IInv, RuntimeTyped, Phases, OpenFails
<1>3. HandOver'
  BY <1>1, RuntimeAssumption DEF IInv, RuntimeTyped, HandOver, OpenFails
<1>4. Drains'
  BY <1>1 DEF IInv, RuntimeTyped, Drains, Pending, OpPending, ClosePending, Late, Phases, OpenFails
<1>5. Answered'
  BY <1>1 DEF IInv, RuntimeTyped, HandOver, Answered, Drains, Pending, OpPending, ClosePending, Late, Phases, OpenFails
<1> QED BY <1>1, <1>2, <1>3, <1>4, <1>5 DEF IInv

LEMMA OpenUnwoundKeeps ==
    ASSUME IInv, NEW o \in Ops, OpenUnwound(o)
    PROVE  IInv'
<1>1. CommandInv' /\ (CaptureEnded' <=> CaptureEnded) /\ capture' = capture
  BY CommandRests DEF IInv, OpenUnwound
<1>2. RuntimeTyped'
  BY <1>1 DEF IInv, RuntimeTyped, Phases, OpenUnwound
<1>3. HandOver'
  BY <1>1, RuntimeAssumption DEF IInv, RuntimeTyped, HandOver, OpenUnwound
<1>4. Drains'
  BY <1>1 DEF IInv, RuntimeTyped, Drains, Pending, OpPending, ClosePending, Late, Phases, OpenUnwound
<1>5. Answered'
  BY <1>1 DEF IInv, RuntimeTyped, HandOver, Answered, Drains, Pending, OpPending, ClosePending, Late, Phases, OpenUnwound
<1> QED BY <1>1, <1>2, <1>3, <1>4, <1>5 DEF IInv

LEMMA CallerCancelledKeeps ==
    ASSUME IInv, NEW o \in Ops, CallerCancelled(o)
    PROVE  IInv'
<1>1. /\ CommandInv' /\ (CaptureEnded => CaptureEnded') /\ (capture' = "idle" <=> capture = "idle")
      /\ native' \in [Ops -> {"none", "opening", "unwinding", "held", "closing", "gone", "failed"}]
      /\ \A x \in Ops : native'[x] # native[x] => native[x] = "opening" /\ native'[x] = "unwinding"
  <2>1. {o} \in SUBSET Ops /\ CancelOps({o})
    BY DEF CallerCancelled, OpPending, IInv, RuntimeTyped
  <2> QED BY <2>1, OpsCancelled DEF IInv
<1>2. RuntimeTyped'
  BY <1>1 DEF IInv, RuntimeTyped, Phases, CallerCancelled, CancelOps
<1>3. HandOver'
  BY <1>1, RuntimeAssumption DEF IInv, RuntimeTyped, HandOver, CallerCancelled, CancelOps
<1>4. Drains'
  BY <1>1 DEF IInv, RuntimeTyped, Drains, Pending, OpPending, ClosePending, Late, Phases, CallerCancelled, CancelOps
<1>5. Answered'
  BY <1>1 DEF IInv, RuntimeTyped, HandOver, Answered, Drains, Pending, OpPending, ClosePending, Late, Phases, CallerCancelled, CancelOps
<1> QED BY <1>1, <1>2, <1>3, <1>4, <1>5 DEF IInv

LEMMA ReturnsKeeps ==
    ASSUME IInv, NEW o \in Ops, Returns(o)
    PROVE  IInv'
<1>1. CommandInv' /\ (CaptureEnded' <=> CaptureEnded) /\ capture' = capture
  BY CommandRests DEF IInv, Returns
<1>2. RuntimeTyped'
  BY <1>1 DEF IInv, RuntimeTyped, Phases, Returns
<1>3. HandOver'
  BY <1>1, RuntimeAssumption DEF IInv, RuntimeTyped, HandOver, Returns
<1>4. Drains'
  BY <1>1 DEF IInv, RuntimeTyped, Drains, Pending, OpPending, ClosePending, Late, Phases, Returns
<1>5. Answered'
  BY <1>1 DEF IInv, RuntimeTyped, HandOver, Answered, Drains, Pending, OpPending, ClosePending, Late, Phases, Returns
<1> QED BY <1>1, <1>2, <1>3, <1>4, <1>5 DEF IInv

LEMMA TurnBeginsKeeps ==
    ASSUME IInv, NEW o \in Ops, TurnBegins(o)
    PROVE  IInv'
<1>1. CommandInv' /\ (CaptureEnded' <=> CaptureEnded) /\ capture' = capture
  BY CommandRests DEF IInv, TurnBegins
<1>2. RuntimeTyped'
  BY <1>1 DEF IInv, RuntimeTyped, Phases, TurnBegins
<1>3. HandOver'
  BY <1>1, RuntimeAssumption DEF IInv, RuntimeTyped, HandOver, TurnBegins
<1>4. Drains'
  BY <1>1 DEF IInv, RuntimeTyped, Drains, Pending, OpPending, ClosePending, Late, Phases, TurnBegins
<1>5. Answered'
  BY <1>1 DEF IInv, RuntimeTyped, HandOver, Answered, Drains, Pending, OpPending, ClosePending, Late, Phases, TurnBegins
<1> QED BY <1>1, <1>2, <1>3, <1>4, <1>5 DEF IInv

LEMMA TurnEndsKeeps ==
    ASSUME IInv, NEW o \in Ops, TurnEnds(o)
    PROVE  IInv'
<1>1. CommandInv' /\ (CaptureEnded' <=> CaptureEnded) /\ capture' = capture
  BY CommandRests DEF IInv, TurnEnds
<1>2. RuntimeTyped'
  BY <1>1 DEF IInv, RuntimeTyped, Phases, TurnEnds
<1>3. HandOver'
  BY <1>1, RuntimeAssumption DEF IInv, RuntimeTyped, HandOver, TurnEnds
<1>4. Drains'
  BY <1>1 DEF IInv, RuntimeTyped, Drains, Pending, OpPending, ClosePending, Late, Phases, TurnEnds
<1>5. Answered'
  BY <1>1 DEF IInv, RuntimeTyped, HandOver, Answered, Drains, Pending, OpPending, ClosePending, Late, Phases, TurnEnds
<1> QED BY <1>1, <1>2, <1>3, <1>4, <1>5 DEF IInv

LEMMA TeardownEndsKeeps ==
    ASSUME IInv, NEW o \in Ops, TeardownEnds(o)
    PROVE  IInv'
<1>1. CommandInv' /\ (CaptureEnded' <=> CaptureEnded) /\ capture' = capture
  BY CommandRests DEF IInv, TeardownEnds
<1>2. RuntimeTyped'
  BY <1>1 DEF IInv, RuntimeTyped, Phases, TeardownEnds
<1>3. HandOver'
  BY <1>1, RuntimeAssumption DEF IInv, RuntimeTyped, HandOver, TeardownEnds
<1>4. Drains'
  BY <1>1 DEF IInv, RuntimeTyped, Drains, Pending, OpPending, ClosePending, Late, Phases, TeardownEnds
<1>5. Answered'
  BY <1>1 DEF IInv, RuntimeTyped, HandOver, Answered, Drains, Pending, OpPending, ClosePending, Late, Phases, TeardownEnds
<1> QED BY <1>1, <1>2, <1>3, <1>4, <1>5 DEF IInv

LEMMA SessionClosesKeeps ==
    ASSUME IInv, NEW o \in Ops, SessionCloses(o)
    PROVE  IInv'
<1>1. CommandInv' /\ (CaptureEnded' <=> CaptureEnded) /\ capture' = capture
  BY CommandRests DEF IInv, SessionCloses
<1>2. RuntimeTyped'
  BY <1>1 DEF IInv, RuntimeTyped, Phases, SessionCloses
<1>3. HandOver'
  BY <1>1, RuntimeAssumption DEF IInv, RuntimeTyped, HandOver, SessionCloses
<1>4. Drains'
  BY <1>1 DEF IInv, RuntimeTyped, Drains, Pending, OpPending, ClosePending, Late, Phases, SessionCloses
<1>5. Answered'
  BY <1>1 DEF IInv, RuntimeTyped, HandOver, Answered, Drains, Pending, OpPending, ClosePending, Late, Phases, SessionCloses
<1> QED BY <1>1, <1>2, <1>3, <1>4, <1>5 DEF IInv

LEMMA SessionSettledKeeps ==
    ASSUME IInv, NEW o \in Ops, SessionSettled(o)
    PROVE  IInv'
<1>1. CommandInv' /\ (CaptureEnded' <=> CaptureEnded) /\ capture' = capture
  BY CommandRests DEF IInv, SessionSettled
<1>2. RuntimeTyped'
  BY <1>1 DEF IInv, RuntimeTyped, Phases, SessionSettled
<1>3. HandOver'
  BY <1>1, RuntimeAssumption DEF IInv, RuntimeTyped, HandOver, SessionSettled
<1>4. Drains'
  BY <1>1 DEF IInv, RuntimeTyped, Drains, Pending, OpPending, ClosePending, Late, Phases, SessionSettled
<1>5. Answered'
  BY <1>1 DEF IInv, RuntimeTyped, HandOver, Answered, Drains, Pending, OpPending, ClosePending, Late, Phases, SessionSettled
<1> QED BY <1>1, <1>2, <1>3, <1>4, <1>5 DEF IInv

LEMMA SessionClosedKeeps ==
    ASSUME IInv, NEW o \in Ops, SessionClosed(o)
    PROVE  IInv'
<1>1. CommandInv' /\ (CaptureEnded' <=> CaptureEnded) /\ capture' = capture
  BY CommandRests DEF IInv, SessionClosed
<1>2. RuntimeTyped'
  BY <1>1 DEF IInv, RuntimeTyped, Phases, SessionClosed
<1>3. HandOver'
  BY <1>1, RuntimeAssumption DEF IInv, RuntimeTyped, HandOver, SessionClosed
<1>4. Drains'
  BY <1>1 DEF IInv, RuntimeTyped, Drains, Pending, OpPending, ClosePending, Late, Phases, SessionClosed
<1>5. Answered'
  BY <1>1 DEF IInv, RuntimeTyped, HandOver, Answered, Drains, Pending, OpPending, ClosePending, Late, Phases, SessionClosed
<1> QED BY <1>1, <1>2, <1>3, <1>4, <1>5 DEF IInv

LEMMA RuntimeCloseKeeps ==
    ASSUME IInv, Close
    PROVE  IInv'
<1>1. CommandInv' /\ (CaptureEnded' <=> CaptureEnded) /\ capture' = capture
  BY CommandRests DEF IInv, Close
<1>2. RuntimeTyped'
  BY <1>1 DEF IInv, RuntimeTyped, Phases, Close, Pending, OpPending, ClosePending
<1>3. HandOver'
  BY <1>1, RuntimeAssumption DEF IInv, RuntimeTyped, HandOver, Close
<1>4. Drains'
  BY <1>1 DEF IInv, RuntimeTyped, Drains, Pending, OpPending, ClosePending, Late, Phases, Close
<1>5. Answered'
  BY <1>1 DEF IInv, RuntimeTyped, HandOver, Answered, Drains, Pending, OpPending, ClosePending, Late, Phases, Close
<1> QED BY <1>1, <1>2, <1>3, <1>4, <1>5 DEF IInv

LEMMA CodexClosesKeeps ==
    ASSUME IInv, CodexCloses
    PROVE  IInv'
<1>1. CommandInv' /\ (CaptureEnded' <=> CaptureEnded) /\ capture' = capture
  BY CommandRests DEF IInv, CodexCloses
<1>2. RuntimeTyped'
  BY <1>1 DEF IInv, RuntimeTyped, Phases, CodexCloses, Phase
<1>3. HandOver'
  BY <1>1, RuntimeAssumption DEF IInv, RuntimeTyped, HandOver, CodexCloses, Phase
<1>4. Drains'
  BY <1>1 DEF IInv, RuntimeTyped, Drains, Pending, OpPending, ClosePending, Late, Phases, CodexCloses, Phase
<1>5. Answered'
  BY <1>1 DEF IInv, RuntimeTyped, HandOver, Answered, Drains, Pending, OpPending, ClosePending, Late, Phases, CodexCloses, Phase
<1> QED BY <1>1, <1>2, <1>3, <1>4, <1>5 DEF IInv

LEMMA DrainedKeeps ==
    ASSUME IInv, Drained
    PROVE  IInv'
<1>1. CommandInv' /\ (CaptureEnded' <=> CaptureEnded) /\ capture' = capture
  BY CommandRests DEF IInv, Drained
<1>2. RuntimeTyped'
  BY <1>1 DEF IInv, RuntimeTyped, Phases, Drained, Phase
<1>3. HandOver'
  BY <1>1, RuntimeAssumption DEF IInv, RuntimeTyped, HandOver, Drained, Phase
<1>4. Drains'
  BY <1>1 DEF IInv, RuntimeTyped, Drains, Pending, OpPending, ClosePending, Late, Phases, Drained, Phase
<1>5. Answered'
  BY <1>1 DEF IInv, RuntimeTyped, HandOver, Answered, Drains, Pending, OpPending, ClosePending, Late, Phases, Drained, Phase
<1> QED BY <1>1, <1>2, <1>3, <1>4, <1>5 DEF IInv

LEMMA DrainLateKeeps ==
    ASSUME IInv, DrainLate
    PROVE  IInv'
<1>1. /\ CommandInv' /\ (CaptureEnded => CaptureEnded') /\ (capture' = "idle" <=> capture = "idle")
      /\ native' \in [Ops -> {"none", "opening", "unwinding", "held", "closing", "gone", "failed"}]
      /\ \A x \in Ops : native'[x] # native[x] => native[x] = "opening" /\ native'[x] = "unwinding"
  <2>1. OpPending(shutdown.ops) \in SUBSET Ops /\ CancelOps(OpPending(shutdown.ops))
    BY DEF DrainLate, OpPending, IInv, RuntimeTyped
  <2> QED BY <2>1, OpsCancelled DEF IInv
<1>2. RuntimeTyped'
  BY <1>1 DEF IInv, RuntimeTyped, Phases, DrainLate, Phase, CancelOps
<1>3. HandOver'
  BY <1>1, RuntimeAssumption DEF IInv, RuntimeTyped, HandOver, DrainLate, Phase, CancelOps
<1>4. Drains'
  BY <1>1 DEF IInv, RuntimeTyped, Drains, Pending, OpPending, ClosePending, Late, Phases, DrainLate, Phase, CancelOps
<1>5. Answered'
  BY <1>1 DEF IInv, RuntimeTyped, HandOver, Answered, Drains, Pending, OpPending, ClosePending, Late, Phases, DrainLate, Phase, CancelOps
<1> QED BY <1>1, <1>2, <1>3, <1>4, <1>5 DEF IInv

LEMMA SettleLateKeeps ==
    ASSUME IInv, SettleLate
    PROVE  IInv'
<1>1. CommandInv' /\ (CaptureEnded' <=> CaptureEnded) /\ capture' = capture
  BY CommandRests DEF IInv, SettleLate
<1>2. RuntimeTyped'
  BY <1>1 DEF IInv, RuntimeTyped, Phases, SettleLate, Phase
<1>3. HandOver'
  BY <1>1, RuntimeAssumption DEF IInv, RuntimeTyped, HandOver, SettleLate, Phase
<1>4. Drains'
  BY <1>1 DEF IInv, RuntimeTyped, Drains, Pending, OpPending, ClosePending, Late, Phases, SettleLate, Phase
<1>5. Answered'
  BY <1>1 DEF IInv, RuntimeTyped, HandOver, Answered, Drains, Pending, OpPending, ClosePending, Late, Phases, SettleLate, Phase
<1> QED BY <1>1, <1>2, <1>3, <1>4, <1>5 DEF IInv

LEMMA StopsTurnsKeeps ==
    ASSUME IInv, StopsTurns
    PROVE  IInv'
<1>1. CommandInv' /\ (CaptureEnded' <=> CaptureEnded) /\ capture' = capture
  BY CommandRests DEF IInv, StopsTurns
<1>2. RuntimeTyped'
  BY <1>1 DEF IInv, RuntimeTyped, Phases, StopsTurns, Phase
<1>3. HandOver'
  BY <1>1, RuntimeAssumption DEF IInv, RuntimeTyped, HandOver, StopsTurns, Phase
<1>4. Drains'
  BY <1>1 DEF IInv, RuntimeTyped, Drains, Pending, OpPending, ClosePending, Late, Phases, StopsTurns, Phase
<1>5. Answered'
  BY <1>1 DEF IInv, RuntimeTyped, HandOver, Answered, Drains, Pending, OpPending, ClosePending, Late, Phases, StopsTurns, Phase
<1> QED BY <1>1, <1>2, <1>3, <1>4, <1>5 DEF IInv

LEMMA DriversEndKeeps ==
    ASSUME IInv, DriversEnd
    PROVE  IInv'
<1>1. CommandInv' /\ (CaptureEnded' <=> CaptureEnded) /\ capture' = capture
  BY CommandRests DEF IInv, DriversEnd
<1>2. RuntimeTyped'
  BY <1>1 DEF IInv, RuntimeTyped, Phases, DriversEnd, Phase
<1>3. HandOver'
  BY <1>1, RuntimeAssumption DEF IInv, RuntimeTyped, HandOver, DriversEnd, Phase
<1>4. Drains'
  BY <1>1 DEF IInv, RuntimeTyped, Drains, Pending, OpPending, ClosePending, Late, Phases, DriversEnd, Phase
<1>5. Answered'
  BY <1>1 DEF IInv, RuntimeTyped, HandOver, Answered, Drains, Pending, OpPending, ClosePending, Late, Phases, DriversEnd, Phase
<1> QED BY <1>1, <1>2, <1>3, <1>4, <1>5 DEF IInv

LEMMA AdaptersCloseKeeps ==
    ASSUME IInv, AdaptersClose
    PROVE  IInv'
<1>1. CommandInv' /\ (CaptureEnded' <=> CaptureEnded) /\ capture' = capture
  BY CommandRests DEF IInv, AdaptersClose
<1>2. RuntimeTyped'
  BY <1>1 DEF IInv, RuntimeTyped, Phases, AdaptersClose, Opening
<1>3. HandOver'
  <2>1. op' = op /\ capture' = capture /\ (CaptureEnded' <=> CaptureEnded)
    BY <1>1 DEF AdaptersClose
  <2>2. \A x \in Ops : native'[x] = native[x] \/ (native'[x] = "closing" /\ native[x] # "none")
    <3>1. \A x \in Ops : native'[x] = IF native[x] = "held" \/ (x # Prober /\ Opening(x))
                                   THEN "closing" ELSE native[x]
      BY DEF AdaptersClose
    <3> QED BY <3>1 DEF Opening
  <2>3. ASSUME NEW x \in Ops
        PROVE  /\ native'[x] \in {"opening", "unwinding"} => op'[x] = "opening"
               /\ op'[x] = "none" => native'[x] = "none"
    <3>1. /\ native[x] \in {"opening", "unwinding"} => op[x] = "opening"
          /\ op[x] = "none" => native[x] = "none"
      BY DEF IInv, HandOver
    <3> QED BY <2>1, <2>2, <3>1
  <2>4. /\ op'[Prober] = "none" => capture' = "idle"
        /\ op'[Prober] \in {"opening", "done"} => CaptureEnded'
    BY <2>1 DEF IInv, HandOver
  <2> QED BY <2>3, <2>4 DEF HandOver
<1>4. Drains'
  BY <1>1 DEF IInv, RuntimeTyped, Drains, Pending, OpPending, ClosePending, Late, Phases, AdaptersClose
<1>5. Answered'
  BY <1>1 DEF IInv, RuntimeTyped, HandOver, Answered, Drains, Pending, OpPending, ClosePending, Late, Phases, AdaptersClose, Opening
<1> QED BY <1>1, <1>2, <1>3, <1>4, <1>5 DEF IInv

LEMMA AdaptersClosedKeeps ==
    ASSUME IInv, AdaptersClosed
    PROVE  IInv'
<1>1. CommandInv' /\ (CaptureEnded' <=> CaptureEnded) /\ capture' = capture
  BY CommandRests DEF IInv, AdaptersClosed
<1>2. RuntimeTyped'
  BY <1>1 DEF IInv, RuntimeTyped, Phases, AdaptersClosed, Phase
<1>3. HandOver'
  BY <1>1, RuntimeAssumption DEF IInv, RuntimeTyped, HandOver, AdaptersClosed, Phase
<1>4. Drains'
  BY <1>1 DEF IInv, RuntimeTyped, Drains, Pending, OpPending, ClosePending, Late, Phases, AdaptersClosed, Phase
<1>5. Answered'
  BY <1>1 DEF IInv, RuntimeTyped, HandOver, Answered, Drains, Pending, OpPending, ClosePending, Late, Phases, AdaptersClosed, Phase
<1> QED BY <1>1, <1>2, <1>3, <1>4, <1>5 DEF IInv

\* A step of the command or its capture: the runtime's own state rests.
LEMMA ProcessStepKeeps ==
    ASSUME IInv, ProcessStep
    PROVE  IInv'
<1>1. UNCHANGED runtimeVars
  BY DEF ProcessStep
<1>2. CommandInv' /\ (CaptureEnded => CaptureEnded') /\ (capture = "idle" => capture' = "idle")
  <2>1. CASE Command
    BY <2>1, CommandRuns DEF IInv, CaptureEnded
  <2>2. CASE Capture
    <3>1. capture # "idle"
      <4>1. capture = "idle" => ending.by = "none" /\ ending.at = "off"
        BY DEF IInv, CommandInv
      <4> QED BY <2>2, <4>1 DEF Capture, ReadsToEnd, ReadFails, Watched, Terminated, Killed,
                  Reaped, ReapFails, TerminationSettles, TimesOut
    <3> QED BY <2>2, <3>1, CaptureRuns DEF IInv, CommandKept
  <2> QED BY <2>1, <2>2 DEF ProcessStep
<1>3. RuntimeTyped' /\ Drains' /\ Answered'
  BY <1>1 DEF runtimeVars, IInv, RuntimeTyped, Drains, Answered, Pending, OpPending, ClosePending
<1>4. HandOver'
  BY <1>1, <1>2 DEF runtimeVars, IInv, HandOver
<1> QED BY <1>2, <1>3, <1>4 DEF IInv

LEMMA StutteringKeeps ==
    ASSUME IInv, UNCHANGED allVars
    PROVE  IInv'
<1>1. UNCHANGED runtimeVars /\ CommandInv' /\ (CaptureEnded' <=> CaptureEnded) /\ capture' = capture
  BY CommandRests DEF IInv, allVars
<1>2. RuntimeTyped' /\ Drains' /\ Answered'
  BY <1>1 DEF runtimeVars, IInv, RuntimeTyped, Drains, Answered, Pending, OpPending, ClosePending
<1>3. HandOver'
  BY <1>1 DEF runtimeVars, IInv, HandOver
<1> QED BY <1>1, <1>2, <1>3 DEF IInv

-----------------------------------------------------------------------------

\* Every step of the runtime, its host, its adapters and its command keeps the
\* invariant.
THEOREM RuntimeInvariance == RuntimeSpec => []IInv
<1>1. IInv /\ [RuntimeNext]_allVars => IInv'
  <2> SUFFICES ASSUME IInv, [RuntimeNext]_allVars PROVE IInv'
    OBVIOUS
  <2>1. ASSUME NEW o \in Ops, Operation(o) PROVE IInv'
    BY <2>1, CallKeeps, OpenedKeeps, OpenFailsKeeps, OpenUnwoundKeeps DEF Operation
  <2>2. ASSUME NEW o \in Ops, HostSteps(o) PROVE IInv'
    BY <2>2, CallerCancelledKeeps, ReturnsKeeps, TurnBeginsKeeps, SessionClosesKeeps DEF HostSteps
  <2>3. ASSUME NEW o \in Ops, Session(o) PROVE IInv'
    BY <2>3, TurnEndsKeeps, TeardownEndsKeeps, SessionSettledKeeps, SessionClosedKeeps DEF Session
  <2>4. CASE CloseSteps
    BY <2>4, CodexClosesKeeps, DrainedKeeps, DrainLateKeeps, SettleLateKeeps, StopsTurnsKeeps,
       DriversEndKeeps, AdaptersCloseKeeps, AdaptersClosedKeeps DEF CloseSteps
  <2>5. CASE Probed \/ Close \/ ProcessStep
    BY <2>5, ProbedKeeps, RuntimeCloseKeeps, ProcessStepKeeps
  <2>6. CASE UNCHANGED allVars
    BY <2>6, StutteringKeeps
  <2> QED BY <2>1, <2>2, <2>3, <2>4, <2>5, <2>6 DEF RuntimeNext
<1> QED BY <1>1, InitInvariant, PTL DEF RuntimeSpec

\* A close() that returns without an error leaves no operation, no session of
\* its own and no command that nobody ends, for any operations and
\* cancellations (AgentRuntime.close and ManagedProcess.close).
THEOREM CloseLeavesNothing == RuntimeSpec => []ClosedOwnsNothing
<1>1. IInv => ClosedOwnsNothing
  <2> SUFFICES ASSUME IInv, shutdown.pc = "returned", ~ shutdown.error
               PROVE  /\ OpPending(Ops) = {} /\ registered = {}
                      /\ \A o \in Ops : \/ native[o] \in {"none", "gone"}
                                        \/ sessionClose[o] = "done" /\ native[o] \in {"closing", "failed"}
                      /\ GroupSettled
    BY DEF ClosedOwnsNothing
  <2>1. Pending(Ops) = {} /\ OpPending(Ops) = {} /\ ClosePending(Ops) = {}
    BY DEF IInv, Drains, Late, Pending
  <2>2. registered = {}
    BY DEF IInv, Answered
  <2>3. ASSUME NEW o \in Ops
        PROVE  \/ native[o] \in {"none", "gone"}
               \/ sessionClose[o] = "done" /\ native[o] \in {"closing", "failed"}
    <3>1. native[o] \notin {"held", "opening", "unwinding"}
      BY <2>1 DEF IInv, Answered, HandOver, OpPending
    <3>2. sessionClose[o] # "closing"
      BY <2>1 DEF ClosePending
    <3>3. native[o] \in {"closing", "failed"} => sessionClose[o] = "done"
      BY <3>2 DEF IInv, Answered
    <3> QED BY <3>1, <3>3 DEF IInv, RuntimeTyped
  <2>4. GroupSettled
    <3>1. op[Prober] \in {"none", "done"}
      BY <2>1, RuntimeAssumption DEF IInv, RuntimeTyped, OpPending
    <3>2. CASE op[Prober] = "none"
      BY <3>2 DEF IInv, HandOver, CommandInv, GroupSettled
    <3>3. CASE op[Prober] = "done"
      BY <3>3 DEF IInv, HandOver, CommandInv
    <3> QED BY <3>1, <3>2, <3>3
  <2> QED BY <2>1, <2>2, <2>3, <2>4
<1> QED BY <1>1, RuntimeInvariance, PTL

-----------------------------------------------------------------------------
(* The turns of one session.                                                 *)

USE BoundsAssumption

(***************************************************************************)
(* The inductive invariant.                                                *)
(***************************************************************************)
BindingState ==
    [active : BOOLEAN, invalidated : BOOLEAN, interrupted : BOOLEAN,
     error : [of : 0 .. MaxTurns, kind : Kinds], forced : 0 .. MaxTurns]
DriverState ==
    [pc : {"none", "streaming", "putting", "awaiting", "stopping", "unwinding",
           "aclosing", "closing", "hard", "done"},
     primary : Kinds \cup {"stop"}, enq : {"none", "event", "terminal"},
     hold : {"none", "event", "terminal"}, emitted : 0 .. MaxEvents,
     cancel : BOOLEAN, fault : BOOLEAN, asks : BOOLEAN, open : BOOLEAN,
     broken : BOOLEAN]
ConsumerState ==
    [pc : {"idle", "pulling", "holding", "final", "resumed", "settling",
           "hardclosing", "hardwaiting", "ended"},
     shown : Seq(Items), result : {"none", "returned", "raised", "abandoned"},
     by : 0 .. MaxTurns]

WatcherTyped ==
    watcher \in [Turns -> {"off", "watching", "interrupting", "stopped", "failed"}]
QueueTyped ==
    queue \in [Turns -> Seq(Items)] /\ \A t \in Turns : Len(queue[t]) <= QueueSize

Typed ==
    /\ session \in [closed : BOOLEAN, listed : BOOLEAN]
    /\ binding \in BindingState
    /\ current \in 0 .. MaxTurns
    /\ driver \in [Turns -> DriverState]
    /\ WatcherTyped /\ QueueTyped
    /\ taken \in [Turns -> BOOLEAN]
    /\ consumer \in [Turns -> ConsumerState]
    /\ closer \in {"none", "ready", "interrupting", "waiting", "adapter", "late",
                   "done", "done late"}

\* Only the current turn has a driver, and until the session is fenced that
\* driver holds the slot.
Slot ==
    \A t \in Turns : Live(t) =>
        /\ t = current
        /\ binding.invalidated \/ (binding.active /\ driver[t].pc # "hard")

\* A cancellation is delivered to a driver that runs, and what waits to be put
\* is an item.
Drivers ==
    /\ \A t \in Turns :
        /\ driver[t].cancel => Live(t)
        /\ driver[t].pc = "putting" => driver[t].hold # "none"
        /\ consumer[t].pc # "idle" => driver[t].pc # "none"
    /\ current # NoTurn => driver[current].pc # "none"

\* How a consumer got past its driver.
Consumers ==
    \A t \in Turns :
        /\ consumer[t].pc \in {"final", "resumed"} => DriverDone(t)
        /\ consumer[t].pc \in {"hardclosing", "hardwaiting"} => binding.invalidated

\* The closer fences the session first, and then sees its driver's end.
Closing ==
    /\ closer # "none" => binding.invalidated
    /\ closer \in {"adapter", "done"} => \A t \in Turns : ~ Live(t)
    /\ closer \in {"done", "done late"} => ~ binding.active

\* With one stream at a time, the error on the binding is the current turn's.
Own ==
    /\ \A t \in Turns : consumer[t].pc \notin {"idle", "ended"} => t = current
    /\ binding.error = NoError \/ binding.error.of = current
    /\ RaisedIsOwn

Inv ==
    /\ Typed /\ Slot /\ Drivers /\ Consumers /\ Closing
    /\ ~ Impatient => EndedIsSettled
    /\ ~ Overlap => Own
-----------------------------------------------------------------------------
\* Before the first turn nothing runs.
LEMMA Initially == Init => Inv
<1> SUFFICES ASSUME Init PROVE Inv
  OBVIOUS
<1> USE DEF Init
<1>1. Typed
  <2>1. binding \in BindingState
    BY DEF BindingState, NoError, Error, NoTurn, Kinds
  <2>2. driver \in [Turns -> DriverState]
    BY DEF DriverState, Kinds
  <2>3. <<>> \in Seq(Items) /\ Len(<<>>) = 0
    OBVIOUS
  <2>4. consumer \in [Turns -> ConsumerState]
    BY <2>3 DEF ConsumerState, NoTurn
  <2>5. QueueTyped
    BY <2>3 DEF QueueTyped
  <2> QED BY <2>1, <2>2, <2>4, <2>5 DEF Typed, WatcherTyped, NoTurn
<1>2. Slot /\ Drivers /\ Consumers /\ Closing
  BY DEF Slot, Drivers, Consumers, Closing, Live, NoTurn
<1>3. EndedIsSettled /\ Own
  BY DEF EndedIsSettled, Own, RaisedIsOwn, NoTurn, Error
<1> QED BY <1>1, <1>2, <1>3 DEF Inv

\* The turn of binding.turn_driver is a turn, once there is one.
LEMMA CurrentIsTurn == ASSUME Inv, current # NoTurn PROVE current \in Turns
<1>1. current \in 0 .. MaxTurns
  BY DEF Inv, Typed
<1> QED BY <1>1 DEF Turns, NoTurn
-----------------------------------------------------------------------------
(***************************************************************************)
(* What every step of a driver does to the slot.                           *)
(***************************************************************************)
\* b is the binding, but for an error or a terminal of turn t.
Kept(t, b) ==
    /\ b \in BindingState
    /\ b.active = binding.active /\ b.invalidated = binding.invalidated
    /\ b.error = binding.error \/ b.error.of = t

\* The driver of t goes on; if it ends its turn, it frees the slot, and a hard
\* close comes behind the fence.
Proceeds(t) ==
    \E e \in DriverState, c \in BindingState :
        /\ driver' = [driver EXCEPT ![t] = e] /\ binding' = c
        /\ ~ e.cancel /\ e.pc # "none"
        /\ e.pc = "putting" => e.hold # "none"
        /\ binding.invalidated \/ e.pc = "hard" => c.invalidated
        /\ c.active => binding.active
        /\ e.pc \notin {"hard", "done"} => c.active = binding.active
        /\ c.error \in {binding.error, NoError} \/ c.error.of = t

\* A step that leaves the driver somewhere in its turn.
LEMMA Staying ==
    ASSUME NEW t \in Turns, NEW e \in DriverState, NEW b, Kept(t, b),
           Becomes(t, e, b), ~ e.cancel, e.pc \notin {"none", "hard"},
           e.pc = "putting" => e.hold # "none"
    PROVE  Proceeds(t)
BY DEF Becomes, Kept, Proceeds

\* The end of the finally block, hard close or not.
LEMMA FinishProceeds ==
    ASSUME NEW t \in Turns, NEW d \in DriverState, ~ d.cancel, NEW b, Kept(t, b),
           Finish(t, d, b)
    PROVE  Proceeds(t)
<1> DEFINE hard == d.fault \/ d.primary = "defect"
           e == [d EXCEPT !.pc = IF hard THEN "hard" ELSE "done"]
           c == [b EXCEPT !.active = FALSE, !.invalidated = @ \/ hard,
                          !.error = IF ~ hard /\ d.primary = "none"
                                    THEN NoError ELSE @]
<1>1. driver' = [driver EXCEPT ![t] = e] /\ binding' = c
  BY DEF Finish, Becomes
<1>2. e \in DriverState /\ ~ e.cancel /\ e.pc = IF hard THEN "hard" ELSE "done"
  BY DEF DriverState
<1>3. NoError \in [of : 0 .. MaxTurns, kind : Kinds]
  BY DEF NoError, Error, NoTurn, Kinds
<1>4. /\ c \in BindingState /\ ~ c.active
      /\ c.invalidated = (b.invalidated \/ hard)
      /\ c.error \in {b.error, NoError}
  <2>1. hard \in BOOLEAN
    BY DEF DriverState
  <2> HIDE DEF hard
  <2> QED BY <1>3, <2>1 DEF Kept, BindingState
<1> HIDE DEF e, c
<1> QED BY <1>1, <1>2, <1>4 DEF Kept, Proceeds

\* The finally block, whether or not the adapter's stream must be closed.
LEMMA FinallyProceeds ==
    ASSUME NEW t \in Turns, NEW d \in DriverState, ~ d.cancel, NEW b, Kept(t, b),
           Finally(t, d, b)
    PROVE  Proceeds(t)
<1>1. CASE d.open
  <2>1. Becomes(t, [d EXCEPT !.pc = "closing"], b)
    BY <1>1 DEF Finally
  <2>2. [d EXCEPT !.pc = "closing"] \in DriverState
    BY DEF DriverState
  <2> QED BY <2>1, <2>2, Staying DEF DriverState
<1>2. CASE ~ d.open
  BY <1>2, FinishProceeds DEF Finally
<1> QED BY <1>1, <1>2

\* An error that is noted on the binding is the turn's.
LEMMA ClassifiedKeeps ==
    ASSUME NEW t \in Turns, NEW d \in DriverState, d.primary # "stop", NEW b, Kept(t, b)
    PROVE  Kept(t, Classified(t, d, b))
<1>1. /\ Error(t, d.primary) \in [of : 0 .. MaxTurns, kind : Kinds]
      /\ Error(t, "notstarted") \in [of : 0 .. MaxTurns, kind : Kinds]
      /\ Error(t, d.primary).of = t /\ Error(t, "notstarted").of = t
  BY DEF DriverState, Error, Kinds, Turns
<1>2. t \in 0 .. MaxTurns
  BY DEF Turns
<1> HIDE DEF Turns
<1> QED BY <1>1, <1>2 DEF Kept, Classified, BindingState

\* A driver that raises goes through its finally block.
LEMMA RaiseProceeds ==
    ASSUME NEW t \in Turns, NEW d \in DriverState, ~ d.cancel, d.primary # "stop",
           NEW b, Kept(t, b), Raise(t, d, b)
    PROVE  Proceeds(t)
BY ClassifiedKeeps, FinallyProceeds DEF Raise

\* queue.put leaves at most QueueSize items, and a driver that waits holds one.
LEMMA OfferProceeds ==
    ASSUME NEW t \in Turns, NEW d \in DriverState, ~ d.cancel,
           NEW b, Kept(t, b), NEW kind \in {"event", "terminal"}, Offer(t, d, b, kind),
           Typed
    PROVE  Proceeds(t) /\ QueueTyped'
<1>1. CASE Len(queue[t]) < QueueSize
  <2> DEFINE e == [d EXCEPT !.enq = kind, !.hold = "none"]
  <2>1. e \in DriverState /\ ~ e.cancel
    BY DEF DriverState
  <2>2. QueueTyped'
    <3>1. queue' = [queue EXCEPT ![t] = Append(queue[t], Item(t, kind))]
      BY <1>1 DEF Offer
    <3>2. Item(t, kind) \in Items /\ queue[t] \in Seq(Items)
      BY DEF Item, Items, Typed, QueueTyped
    <3>3. /\ Append(queue[t], Item(t, kind)) \in Seq(Items)
          /\ Len(Append(queue[t], Item(t, kind))) = Len(queue[t]) + 1
      BY <3>2
    <3>4. Len(queue[t]) + 1 <= QueueSize
      <4>1. Len(queue[t]) \in Nat /\ QueueSize \in Nat
        BY <3>2
      <4> QED BY <1>1, <4>1
    <3>5. queue \in [Turns -> Seq(Items)] /\ \A u \in Turns : Len(queue[u]) <= QueueSize
      BY DEF Typed, QueueTyped
    <3> HIDE DEF Turns, Items
    <3>6. queue' \in [Turns -> Seq(Items)]
      BY <3>1, <3>3, <3>5
    <3>7. \A u \in Turns : Len(queue'[u]) <= QueueSize
      BY <3>1, <3>3, <3>4, <3>5
    <3> QED BY <3>6, <3>7 DEF QueueTyped
  <2>3. Proceeds(t)
    <3>1. CASE kind = "event"
      <4> DEFINE f == [e EXCEPT !.pc = "streaming"]
      <4>1. Becomes(t, f, b)
        BY <1>1, <3>1 DEF Offer, Enqueued
      <4>2. f \in DriverState /\ ~ f.cancel /\ f.pc = "streaming"
        BY <2>1 DEF DriverState
      <4> HIDE DEF f
      <4> QED BY <4>1, <4>2, Staying
    <3>2. CASE kind = "terminal" /\ ~ taken[t]
      <4> DEFINE f == [e EXCEPT !.pc = "awaiting"]
      <4>1. Becomes(t, f, b)
        BY <1>1, <3>2 DEF Offer, Enqueued
      <4>2. f \in DriverState /\ ~ f.cancel /\ f.pc = "awaiting"
        BY <2>1 DEF DriverState
      <4> HIDE DEF f
      <4> QED BY <4>1, <4>2, Staying
    <3>3. CASE kind = "terminal" /\ taken[t]
      <4>1. Finally(t, e, b)
        BY <1>1, <3>3 DEF Offer, Enqueued
      <4> HIDE DEF e
      <4> QED BY <4>1, <2>1, FinallyProceeds
    <3> QED BY <3>1, <3>2, <3>3
  <2> QED BY <2>2, <2>3
<1>2. CASE ~ (Len(queue[t]) < QueueSize)
  <2>1. Becomes(t, [d EXCEPT !.pc = "putting", !.hold = kind], b) /\ UNCHANGED queue
    BY <1>2 DEF Offer
  <2>2. [d EXCEPT !.pc = "putting", !.hold = kind] \in DriverState
    BY DEF DriverState
  <2> QED BY <2>1, <2>2, Staying DEF DriverState, Typed, QueueTyped
<1> QED BY <1>1, <1>2

\* Settling the stop watcher touches the interrupt mark only.
LEMMA QuietKeeps ==
    ASSUME NEW t \in Turns, NEW b, Kept(t, b)
    PROVE  Kept(t, Quiet(t, b))
BY DEF Kept, Quiet, BindingState

\* Leaving the interruptible stream, by a terminal or by an error.
LEMMA LeaveProceeds ==
    ASSUME NEW t \in Turns, NEW d \in DriverState, ~ d.cancel, NEW b, Kept(t, b),
           Leave(t, d, b), Typed
    PROVE  Proceeds(t) /\ QueueTyped' /\ WatcherTyped'
<1>1. WatcherTyped'
  BY DEF Leave, Typed, WatcherTyped
<1>2. CASE d.primary = "stop"
  <2>1. Offer(t, [d EXCEPT !.primary = "none"], Quiet(t, b), "terminal")
    BY <1>2 DEF Leave
  <2>2. [d EXCEPT !.primary = "none"] \in DriverState
    BY DEF DriverState, Kinds
  <2>3. ~ [d EXCEPT !.primary = "none"].cancel
    BY DEF DriverState
  <2> QED BY <1>1, <2>1, <2>2, <2>3, QuietKeeps, OfferProceeds
<1>3. CASE d.primary # "stop"
  BY <1>1, <1>3, QuietKeeps, RaiseProceeds DEF Leave, Typed, QueueTyped
<1> QED BY <1>2, <1>3

\* The binding with its interrupt marked or unmarked.
LEMMA InterruptedKept ==
    ASSUME Typed, NEW t \in Turns, NEW i \in BOOLEAN
    PROVE  Kept(t, binding) /\ Kept(t, [binding EXCEPT !.interrupted = i])
BY DEF Typed, Kept, BindingState

\* Unwinding the interruptible stream, interrupted already or not.
LEMMA UnwindProceeds ==
    ASSUME NEW t \in Turns, NEW d \in DriverState, ~ d.cancel, Unwind(t, d), Typed
    PROVE  Proceeds(t) /\ QueueTyped' /\ WatcherTyped'
<1>1. CASE binding.interrupted
  BY <1>1, LeaveProceeds, InterruptedKept DEF Unwind
<1>2. CASE ~ binding.interrupted
  <2>1. /\ Becomes(t, [d EXCEPT !.pc = "unwinding", !.asks = TRUE],
                      [binding EXCEPT !.interrupted = TRUE])
        /\ UNCHANGED <<watcher, queue>>
    BY <1>2 DEF Unwind
  <2>2. [d EXCEPT !.pc = "unwinding", !.asks = TRUE] \in DriverState
    BY DEF DriverState
  <2>3. Proceeds(t)
    BY <2>1, <2>2, Staying, InterruptedKept DEF DriverState
  <2> QED BY <2>1, <2>3 DEF Typed, QueueTyped, WatcherTyped
<1> QED BY <1>1, <1>2
-----------------------------------------------------------------------------
\* Every step of a driver's own: it is of a live turn and proceeds with it.
Drives(t) ==
    /\ Live(t) /\ Proceeds(t) /\ QueueTyped' /\ WatcherTyped'
    /\ UNCHANGED others

\* What the adapter's stream does to the driver.
LEMMA StreamDrives ==
    ASSUME Inv, NEW t \in Turns, Stream(t)
    PROVE  Drives(t)
<1> USE DEF Runs
<1>0. /\ Typed /\ driver[t] \in DriverState /\ ~ driver[t].cancel /\ Live(t)
      /\ UNCHANGED others /\ Kept(t, binding)
  BY InterruptedKept DEF Inv, Typed, Live, Stream, Emits, Completes, Breaks
<1>1. CASE Emits(t)
  <2> DEFINE d == [driver[t] EXCEPT !.emitted = @ + 1]
  <2>1. d \in DriverState /\ ~ d.cancel
    BY <1>0, <1>1 DEF DriverState, Emits
  <2>2. Offer(t, d, binding, "event") /\ UNCHANGED watcher
    BY <1>1 DEF Emits
  <2> HIDE DEF d
  <2>3. Proceeds(t) /\ QueueTyped'
    BY <1>0, <2>1, <2>2, OfferProceeds
  <2> QED BY <1>0, <2>2, <2>3 DEF Drives, Typed, WatcherTyped
<1>2. CASE Completes(t)
  <2>1. WatcherTyped'
    BY <1>0, <1>2 DEF Completes, Typed, WatcherTyped
  <2> QED BY <1>0, <1>2, <2>1, QuietKeeps, OfferProceeds DEF Completes, Drives
<1>3. CASE Breaks(t)
  <2>1. PICK e \in {"error", "defect"} :
            Unwind(t, [driver[t] EXCEPT !.primary = e, !.open = FALSE,
                                        !.broken = (e = "defect")])
    BY <1>3 DEF Breaks
  <2> DEFINE d == [driver[t] EXCEPT !.primary = e, !.open = FALSE,
                                    !.broken = (e = "defect")]
  <2>2. d \in DriverState /\ ~ d.cancel
    BY <1>0 DEF DriverState, Kinds
  <2>3. Unwind(t, d)
    BY <2>1
  <2> HIDE DEF d
  <2> QED BY <1>0, <2>2, <2>3, UnwindProceeds DEF Drives
<1> QED BY <1>1, <1>2, <1>3 DEF Stream

\* The driver's own steps, and the answers it awaits in mid-turn.
LEMMA StepsDrive ==
    ASSUME Inv, NEW t \in Turns,
           Puts(t) \/ TerminalTaken(t) \/ Stops(t) \/ Stopped(t) \/ Unwound(t)
    PROVE  Drives(t)
<1> USE DEF Runs
<1>0. /\ Typed /\ driver[t] \in DriverState /\ ~ driver[t].cancel /\ Live(t)
      /\ UNCHANGED others /\ Kept(t, binding)
  BY InterruptedKept DEF Inv, Typed, Live, Puts, TerminalTaken, Stops, Stopped, Unwound
<1>1. CASE Puts(t)
  <2>1. driver[t].hold \in {"event", "terminal"}
    BY <1>0, <1>1 DEF Puts, Inv, Drivers, DriverState
  <2>2. Offer(t, driver[t], binding, driver[t].hold) /\ UNCHANGED watcher
    BY <1>1 DEF Puts
  <2>3. Proceeds(t) /\ QueueTyped'
    BY <1>0, <2>1, <2>2, OfferProceeds
  <2> QED BY <1>0, <2>2, <2>3 DEF Drives, Typed, WatcherTyped
<1>2. CASE TerminalTaken(t)
  <2>1. Finally(t, driver[t], binding) /\ UNCHANGED <<watcher, queue>>
    BY <1>2 DEF TerminalTaken
  <2>2. Proceeds(t)
    BY <1>0, <2>1, FinallyProceeds
  <2> QED BY <1>0, <2>1, <2>2 DEF Drives, Typed, WatcherTyped, QueueTyped
<1>3. CASE Stops(t)
  <2>1. ASSUME NEW broken \in BOOLEAN,
               Becomes(t, [driver[t] EXCEPT !.pc = "stopping", !.broken = broken,
                                            !.open = ~ broken], binding),
               UNCHANGED <<watcher, queue>>
        PROVE  Drives(t)
    <3> DEFINE d == [driver[t] EXCEPT !.pc = "stopping", !.broken = broken,
                                      !.open = ~ broken]
    <3>1. d \in DriverState /\ ~ d.cancel /\ d.pc = "stopping"
      BY <1>0 DEF DriverState
    <3>2. Becomes(t, d, binding)
      BY <2>1
    <3> HIDE DEF d
    <3>3. Proceeds(t)
      BY <1>0, <3>1, <3>2, Staying
    <3> QED BY <1>0, <2>1, <3>3 DEF Drives, Typed, WatcherTyped, QueueTyped
  <2>2. ASSUME Unwind(t, [driver[t] EXCEPT !.primary = "error", !.open = FALSE])
        PROVE  Drives(t)
    <3> DEFINE d == [driver[t] EXCEPT !.primary = "error", !.open = FALSE]
    <3>1. d \in DriverState /\ ~ d.cancel
      BY <1>0 DEF DriverState, Kinds
    <3>2. Unwind(t, d)
      BY <2>2
    <3> HIDE DEF d
    <3> QED BY <1>0, <3>1, <3>2, UnwindProceeds DEF Drives
  <2> QED BY <1>3, <2>1, <2>2 DEF Stops
<1>4. CASE Stopped(t)
  <2>1. PICK why \in {"notstarted", "stop", "error", "defect"} :
            Unwind(t, [driver[t] EXCEPT !.primary = why, !.open = FALSE])
    BY <1>4 DEF Stopped
  <2> DEFINE d == [driver[t] EXCEPT !.primary = why, !.open = FALSE]
  <2>2. d \in DriverState /\ ~ d.cancel
    BY <1>0 DEF DriverState, Kinds
  <2>3. Unwind(t, d)
    BY <2>1
  <2> HIDE DEF d
  <2> QED BY <1>0, <2>2, <2>3, UnwindProceeds DEF Drives
<1>5. CASE Unwound(t)
  BY <1>0, <1>5, LeaveProceeds DEF Unwound, Drives
<1> QED BY <1>1, <1>2, <1>3, <1>4, <1>5

\* A hard close ends the driver; what it leaves on the binding is the turn's own.
LEMMA HardEndProceeds ==
    ASSUME Typed, NEW t \in Turns, NEW fault \in BOOLEAN, HardEnd(t, fault)
    PROVE  Proceeds(t)
<1> DEFINE e == [driver[t] EXCEPT !.pc = "done", !.cancel = FALSE]
           c == IF fault THEN [binding EXCEPT !.error = Error(t, "cleanup")] ELSE binding
<1>1. Becomes(t, e, c)
  BY DEF HardEnd
<1>0. driver[t] \in DriverState
  BY DEF Typed
<1>2. e \in DriverState /\ ~ e.cancel /\ e.pc = "done"
  BY <1>0 DEF DriverState
<1>3. /\ Error(t, "cleanup") \in [of : 0 .. MaxTurns, kind : Kinds]
      /\ Error(t, "cleanup").of = t
  BY DEF Error, Kinds, Turns
<1>4. Kept(t, c)
  BY <1>3 DEF Kept, Typed, BindingState
<1> HIDE DEF e, c
<1> QED BY <1>1, <1>2, <1>4, Staying

\* The answers a driver awaits while it unwinds.
LEMMA EndsDrive ==
    ASSUME Inv, NEW t \in Turns,
           UnwindingFails(t) \/ Aclosed(t) \/ Closed(t) \/ HardClosed(t)
    PROVE  Drives(t)
<1> USE DEF Runs
<1>0. /\ Typed /\ driver[t] \in DriverState /\ ~ driver[t].cancel /\ Live(t)
      /\ UNCHANGED others
      /\ Kept(t, binding) /\ Kept(t, [binding EXCEPT !.interrupted = FALSE])
  BY InterruptedKept
     DEF Inv, Typed, Live, UnwindingFails, Aclosed, Closed, HardClosed
<1> DEFINE f == [driver[t] EXCEPT !.fault = TRUE]
<1>f. f \in DriverState /\ ~ f.cancel
  BY <1>0 DEF DriverState
<1>1. CASE UnwindingFails(t)
  <2> DEFINE d == [driver[t] EXCEPT !.primary = "defect"]
  <2>1. d \in DriverState /\ ~ d.cancel
    BY <1>0 DEF DriverState, Kinds
  <2>2. Leave(t, d, [binding EXCEPT !.interrupted = FALSE])
    BY <1>1 DEF UnwindingFails
  <2> HIDE DEF d
  <2> QED BY <1>0, <2>1, <2>2, LeaveProceeds DEF Drives
<1>2. CASE Aclosed(t)
  <2>1. WatcherTyped' /\ QueueTyped'
    BY <1>0, <1>2 DEF Aclosed, Typed, WatcherTyped, QueueTyped
  <2>2. \/ Finally(t, driver[t], Quiet(t, binding))
        \/ Finally(t, f, [binding EXCEPT !.interrupted = FALSE])
    BY <1>2 DEF Aclosed
  <2> HIDE DEF f
  <2>3. Proceeds(t)
    BY <1>0, <1>f, <2>2, QuietKeeps, FinallyProceeds
  <2> QED BY <1>0, <2>1, <2>3 DEF Drives
<1>3. CASE Closed(t)
  <2>1. PICK failed \in BOOLEAN :
            Finish(t, [driver[t] EXCEPT !.open = FALSE, !.fault = @ \/ failed], binding)
    BY <1>3 DEF Closed
  <2> DEFINE d == [driver[t] EXCEPT !.open = FALSE, !.fault = @ \/ failed]
  <2>2. d \in DriverState /\ ~ d.cancel
    BY <1>0 DEF DriverState
  <2>3. Finish(t, d, binding)
    BY <2>1
  <2> HIDE DEF d
  <2>4. Proceeds(t)
    BY <1>0, <2>2, <2>3, FinishProceeds
  <2> QED BY <1>0, <1>3, <2>4 DEF Drives, Closed, Typed, WatcherTyped, QueueTyped
<1>4. CASE HardClosed(t)
  <2>1. PICK failed \in BOOLEAN : HardEnd(t, driver[t].fault \/ failed)
    BY <1>4 DEF HardClosed
  <2>2. (driver[t].fault \/ failed) \in BOOLEAN
    BY <1>0 DEF DriverState
  <2>3. Proceeds(t)
    BY <1>0, <2>1, <2>2, HardEndProceeds
  <2> QED BY <1>0, <1>4, <2>3 DEF Drives, HardClosed, Typed, WatcherTyped, QueueTyped
<1> QED BY <1>1, <1>2, <1>3, <1>4

\* The interrupt mark is not part of the slot.
LEMMA MarkKeeps ==
    ASSUME NEW t \in Turns, NEW b, Kept(t, b), NEW i \in BOOLEAN
    PROVE  Kept(t, [b EXCEPT !.interrupted = i])
BY DEF Kept, BindingState

\* A cancellation, wherever the driver waits.
LEMMA CancelledDrives ==
    ASSUME Inv, NEW t \in Turns, Cancelled(t)
    PROVE  Drives(t)
<1> DEFINE d == [driver[t] EXCEPT !.cancel = FALSE]
           c == [d EXCEPT !.primary = "cancelled"]
           b == Classified(t, c, binding)
<1>0. /\ Typed /\ driver[t] \in DriverState /\ Live(t) /\ UNCHANGED others
      /\ Kept(t, binding) /\ binding.interrupted \in BOOLEAN
  BY InterruptedKept DEF Inv, Typed, Drivers, Cancelled, BindingState
<1>1. /\ d \in DriverState /\ ~ d.cancel /\ d.pc = driver[t].pc
      /\ d.hold = driver[t].hold /\ d.asks \in BOOLEAN
  BY <1>0 DEF DriverState
<1>2. c \in DriverState /\ ~ c.cancel /\ c.primary = "cancelled"
  BY <1>1 DEF DriverState, Kinds
<1>3. Kept(t, b)
  BY <1>0, <1>2, ClassifiedKeeps
<1>4. d.pc \in {"streaming", "putting", "awaiting", "stopping", "unwinding",
                "aclosing", "closing", "hard"}
  BY <1>0, <1>1 DEF Live, DriverState
<1>5. CASE d.pc = "streaming"
  <2> DEFINE e == [c EXCEPT !.pc = "unwinding", !.open = FALSE,
                            !.asks = ~ binding.interrupted]
  <2>1. Becomes(t, e, [binding EXCEPT !.interrupted = TRUE]) /\ UNCHANGED <<watcher, queue>>
    BY <1>5 DEF Cancelled
  <2>2. e \in DriverState /\ ~ e.cancel /\ e.pc = "unwinding"
    BY <1>0, <1>2 DEF DriverState
  <2> HIDE DEF e
  <2>3. Proceeds(t)
    BY <1>0, <2>1, <2>2, MarkKeeps, Staying
  <2> QED BY <1>0, <2>1, <2>3 DEF Drives, Typed, WatcherTyped, QueueTyped
<1>6. CASE d.pc = "stopping"
  <2> DEFINE e == [c EXCEPT !.open = FALSE]
  <2>1. Unwind(t, e)
    BY <1>6 DEF Cancelled
  <2>2. e \in DriverState /\ ~ e.cancel
    BY <1>2 DEF DriverState
  <2> HIDE DEF e
  <2> QED BY <1>0, <2>1, <2>2, UnwindProceeds DEF Drives
<1>7. CASE d.pc = "unwinding"
  <2>1. Leave(t, c, [binding EXCEPT !.interrupted = @ /\ ~ d.asks])
    BY <1>7 DEF Cancelled
  <2>2. Kept(t, [binding EXCEPT !.interrupted = @ /\ ~ d.asks])
    BY <1>0, MarkKeeps
  <2> HIDE DEF c, d
  <2> QED BY <1>0, <1>2, <2>1, <2>2, LeaveProceeds DEF Drives
<1>8. CASE d.pc = "putting" /\ d.hold = "event"
  <2> DEFINE e == [c EXCEPT !.pc = "aclosing", !.asks = ~ b.interrupted]
  <2>1. Becomes(t, e, [b EXCEPT !.interrupted = TRUE]) /\ UNCHANGED <<watcher, queue>>
    BY <1>8 DEF Cancelled
  <2>2. e \in DriverState /\ ~ e.cancel /\ e.pc = "aclosing"
    BY <1>2, <1>3 DEF DriverState, Kept, BindingState
  <2> HIDE DEF e, b
  <2>3. Proceeds(t)
    BY <1>3, <2>1, <2>2, MarkKeeps, Staying
  <2> QED BY <1>0, <2>1, <2>3 DEF Drives, Typed, WatcherTyped, QueueTyped
<1>9. CASE d.pc = "awaiting" \/ (d.pc = "putting" /\ d.hold # "event")
  <2>1. d.pc = "awaiting" \/ (d.pc = "putting" /\ d.hold = "terminal")
    BY <1>0, <1>1, <1>9 DEF Inv, Drivers, DriverState
  <2>2. Raise(t, c, binding) /\ UNCHANGED <<watcher, queue>>
    BY <2>1 DEF Cancelled
  <2> HIDE DEF c
  <2>3. Proceeds(t)
    BY <1>0, <1>2, <2>2, RaiseProceeds
  <2> QED BY <1>0, <2>2, <2>3 DEF Drives, Typed, WatcherTyped, QueueTyped
<1>10. CASE d.pc = "aclosing"
  <2> DEFINE e == [d EXCEPT !.fault = TRUE]
  <2>1. /\ watcher' = [watcher EXCEPT ![t] = "off"]
        /\ Finally(t, e, [binding EXCEPT !.interrupted = @ /\ ~ d.asks])
        /\ UNCHANGED queue
    BY <1>10 DEF Cancelled
  <2>2. e \in DriverState /\ ~ e.cancel
    BY <1>1 DEF DriverState
  <2>3. Kept(t, [binding EXCEPT !.interrupted = @ /\ ~ d.asks])
    BY <1>0, MarkKeeps
  <2> HIDE DEF e, d
  <2>4. Proceeds(t)
    BY <2>1, <2>2, <2>3, FinallyProceeds
  <2> QED BY <1>0, <2>1, <2>4 DEF Drives, Typed, WatcherTyped, QueueTyped
<1>11. CASE d.pc = "closing"
  <2> DEFINE e == [d EXCEPT !.fault = TRUE, !.open = FALSE]
  <2>1. Finish(t, e, binding) /\ UNCHANGED <<watcher, queue>>
    BY <1>11 DEF Cancelled
  <2>2. e \in DriverState /\ ~ e.cancel
    BY <1>1 DEF DriverState
  <2> HIDE DEF e
  <2>3. Proceeds(t)
    BY <1>0, <2>1, <2>2, FinishProceeds
  <2> QED BY <1>0, <2>1, <2>3 DEF Drives, Typed, WatcherTyped, QueueTyped
<1>12. CASE d.pc = "hard"
  <2>1. HardEnd(t, TRUE) /\ UNCHANGED <<watcher, queue>>
    BY <1>12 DEF Cancelled
  <2>2. Proceeds(t)
    BY <1>0, <2>1, HardEndProceeds
  <2> QED BY <1>0, <2>1, <2>2 DEF Drives, Typed, WatcherTyped, QueueTyped
<1> HIDE DEF d, c, b
<1> QED BY <1>4, <1>5, <1>6, <1>7, <1>8, <1>9, <1>10, <1>11, <1>12

\* The invariant survives every step of a driver.
LEMMA DrivingKeeps ==
    ASSUME Inv, NEW t \in Turns, Drives(t)
    PROVE  Inv'
<1>1. PICK e \in DriverState, c \in BindingState :
        /\ driver' = [driver EXCEPT ![t] = e] /\ binding' = c
        /\ ~ e.cancel /\ e.pc # "none"
        /\ e.pc = "putting" => e.hold # "none"
        /\ binding.invalidated \/ e.pc = "hard" => c.invalidated
        /\ c.active => binding.active
        /\ e.pc \notin {"hard", "done"} => c.active = binding.active
        /\ c.error \in {binding.error, NoError} \/ c.error.of = t
  BY DEF Drives, Proceeds
<1>2. /\ driver \in [Turns -> DriverState] /\ Live(t) /\ t = current
      /\ UNCHANGED <<session, current, taken, consumer, closer>>
      /\ driver'[t] = e /\ \A u \in Turns \ {t} : driver'[u] = driver[u]
  BY <1>1 DEF Inv, Typed, Slot, Drives, others
<1>3. Typed'
  BY <1>1, <1>2 DEF Inv, Typed, Drives, others
<1>4. Slot'
  BY <1>1, <1>2 DEF Inv, Slot, Live
<1>5. Drivers'
  BY <1>1, <1>2 DEF Inv, Drivers, Live
<1>6. Consumers'
  BY <1>1, <1>2 DEF Inv, Consumers, Live, DriverDone
<1>7. Closing'
  BY <1>1, <1>2 DEF Inv, Closing, Live
<1>8. ~ Impatient => EndedIsSettled'
  BY <1>1, <1>2 DEF Inv, EndedIsSettled, Live
<1>9. ~ Overlap => Own'
  BY <1>1, <1>2 DEF Inv, Own, RaisedIsOwn
<1> QED BY <1>3, <1>4, <1>5, <1>6, <1>7, <1>8, <1>9 DEF Inv
-----------------------------------------------------------------------------
\* The stop watcher touches nothing but the interrupt's mark.
LEMMA WatcherKeeps ==
    ASSUME Inv, NEW t \in Turns,
           StopFires(t) \/ InterruptAnswered(t) \/ InterruptFails(t)
    PROVE  Inv'
<1>1. /\ UNCHANGED <<session, current, driver, queue, taken, consumer, closer>>
      /\ WatcherTyped'
      /\ \/ UNCHANGED binding
         \/ \E i \in BOOLEAN : binding' = [binding EXCEPT !.interrupted = i]
  BY DEF StopFires, InterruptAnswered, InterruptFails, others, Inv, Typed, WatcherTyped
<1>2. /\ binding' \in BindingState /\ binding'.active = binding.active
      /\ binding'.invalidated = binding.invalidated /\ binding'.error = binding.error
  BY <1>1 DEF Inv, Typed, BindingState
<1>3. Typed'
  BY <1>1, <1>2 DEF Inv, Typed, QueueTyped
<1> QED BY <1>1, <1>2, <1>3 DEF Inv, Slot, Drivers, Consumers, Closing, EndedIsSettled,
                               Own, RaisedIsOwn, Live, DriverDone

\* A turn begins only on a free slot of a session that is not fenced: no driver
\* is left.
LEMMA StartKeeps ==
    ASSUME Inv, NEW t \in Turns, Start(t)
    PROVE  Inv'
<1> USE DEF Start
<1>1. /\ ~ binding.invalidated /\ ~ binding.active /\ t = current + 1
      /\ \A u \in Turns : ~ Live(u)
      /\ closer = "none"
  BY DEF Inv, Slot, Closing
<1>2. /\ binding' \in BindingState /\ binding'.active /\ ~ binding'.invalidated
      /\ binding'.error = NoError
  <2>1. NoError \in [of : 0 .. MaxTurns, kind : Kinds] /\ NoTurn \in 0 .. MaxTurns
    BY DEF NoError, Error, NoTurn, Kinds
  <2>2. binding \in BindingState
    BY DEF Inv, Typed
  <2> QED BY <1>1, <2>1, <2>2 DEF BindingState
<1>3. /\ driver' \in [Turns -> DriverState] /\ driver'[t].pc = "streaming"
      /\ driver'[t].cancel = driver[t].cancel
      /\ \A u \in Turns \ {t} : driver'[u] = driver[u]
  <2> DEFINE e == [driver[t] EXCEPT !.pc = "streaming"]
  <2>1. driver \in [Turns -> DriverState] /\ driver' = [driver EXCEPT ![t] = e]
    BY DEF Inv, Typed
  <2>2. e \in DriverState /\ e.pc = "streaming" /\ e.cancel = driver[t].cancel
    BY <2>1 DEF DriverState
  <2> HIDE DEF e
  <2> QED BY <2>1, <2>2
<1>4. /\ consumer' \in [Turns -> ConsumerState] /\ consumer'[t].pc = "pulling"
      /\ consumer'[t].result = consumer[t].result /\ consumer'[t].by = consumer[t].by
      /\ \A u \in Turns \ {t} : consumer'[u] = consumer[u]
  BY DEF Inv, Typed, ConsumerState
<1>5. current' = t /\ t # NoTurn /\ closer' = closer
  BY DEF Turns, NoTurn
<1>6. Typed'
  <2>1. current' \in 0 .. MaxTurns
    BY DEF Turns
  <2>2. WatcherTyped' /\ QueueTyped'
    BY DEF Inv, Typed, WatcherTyped, QueueTyped
  <2> QED BY <1>2, <1>3, <1>4, <2>1, <2>2 DEF Inv, Typed
<1> HIDE DEF Start
<1>7. Slot' /\ Drivers' /\ Consumers' /\ Closing'
  BY <1>1, <1>2, <1>3, <1>4, <1>5
     DEF Inv, Slot, Drivers, Consumers, Closing, Live, DriverDone
<1>8. EndedIsSettled'
  BY <1>1, <1>3, <1>4 DEF EndedIsSettled, Live
<1>9. ~ Overlap => Own'
  <2> SUFFICES ASSUME ~ Overlap PROVE Own'
    OBVIOUS
  <2>1. \A u \in 1 .. current : consumer[u].pc = "ended"
    BY DEF Start
  <2>2. \A u \in Turns : consumer[u].pc \in {"idle", "ended"}
    BY <2>1 DEF Inv, Own, Turns
  <2> QED BY <1>2, <1>4, <1>5, <2>2 DEF Inv, Own, RaisedIsOwn
<1> QED BY <1>6, <1>7, <1>8, <1>9 DEF Inv

\* A consumer's step leaves the drivers and the slot alone, or cancels its own
\* driver. ended tells what it must show when it ends.
LEMMA ConsumerKeeps ==
    ASSUME Inv, NEW t \in Turns, NEW k \in ConsumerState,
           UNCHANGED <<session, current, watcher, closer>>,
           QueueTyped', taken' \in [Turns -> BOOLEAN],
           consumer' = [consumer EXCEPT ![t] = k], consumer[t].pc \notin {"idle", "ended"},
           k.pc # "idle", k.pc \in {"final", "resumed"} => DriverDone(t),
           UNCHANGED driver \/ Cancel(t),
           binding' \in BindingState, binding'.active = binding.active,
           binding.invalidated => binding'.invalidated,
           binding'.error = binding.error \/ binding'.error.of = t,
           k.pc \in {"hardclosing", "hardwaiting"} => binding'.invalidated,
           k.pc = "ended" /\ ~ Impatient => DriverDone(t) \/ binding.invalidated,
           k.result = "raised" /\ ~ Overlap => k.by = t
    PROVE  Inv'
<1>1. /\ driver' \in [Turns -> DriverState]
      /\ \A u \in Turns : driver'[u].pc = driver[u].pc /\ driver'[u].hold = driver[u].hold
      /\ \A u \in Turns : driver'[u].cancel =>
            driver[u].cancel \/ (u = t /\ ~ DriverDone(t))
  <2>1. driver \in [Turns -> DriverState]
    BY DEF Inv, Typed
  <2>2. CASE UNCHANGED driver
    BY <2>1, <2>2
  <2>3. CASE ~ DriverDone(t) /\ driver' = [driver EXCEPT ![t].cancel = TRUE]
    <3> DEFINE e == [driver[t] EXCEPT !.cancel = TRUE]
    <3>1. driver' = [driver EXCEPT ![t] = e]
      BY <2>3
    <3>2. e \in DriverState /\ e.pc = driver[t].pc /\ e.hold = driver[t].hold
      <4>1. driver[t] \in DriverState
        BY <2>1
      <4> QED BY <4>1 DEF DriverState
    <3> HIDE DEF e
    <3> QED BY <2>1, <2>3, <3>1, <3>2
  <2> QED BY <2>2, <2>3 DEF Cancel
<1>2. /\ consumer' \in [Turns -> ConsumerState] /\ consumer'[t] = k
      /\ \A u \in Turns \ {t} : consumer'[u] = consumer[u]
  BY DEF Inv, Typed
<1>3. Typed'
  BY <1>1, <1>2 DEF Inv, Typed, WatcherTyped
<1>4. Slot' /\ Closing'
  BY <1>1 DEF Inv, Slot, Closing, Live
<1>5. Drivers'
  <2>1. driver[t].pc # "none"
    BY DEF Inv, Drivers
  <2>2. \A u \in Turns : driver'[u].cancel => Live(u)'
    BY <1>1, <2>1 DEF Inv, Drivers, Live, DriverDone
  <2>3. \A u \in Turns : driver'[u].pc = "putting" => driver'[u].hold # "none"
    BY <1>1 DEF Inv, Drivers
  <2>4. \A u \in Turns : consumer'[u].pc # "idle" => driver'[u].pc # "none"
    BY <1>1, <1>2, <2>1 DEF Inv, Drivers
  <2>5. current # NoTurn => driver'[current].pc # "none"
    <3>1. current # NoTurn => current \in Turns
      BY CurrentIsTurn
    <3> QED BY <1>1, <3>1 DEF Inv, Drivers
  <2> QED BY <2>2, <2>3, <2>4, <2>5 DEF Drivers
<1>6. Consumers'
  BY <1>1, <1>2 DEF Inv, Consumers, DriverDone
<1>7. ~ Impatient => EndedIsSettled'
  BY <1>1, <1>2 DEF Inv, EndedIsSettled, Live, DriverDone
<1>8. ~ Overlap => Own'
  BY <1>2 DEF Inv, Own, RaisedIsOwn
<1> QED BY <1>3, <1>4, <1>5, <1>6, <1>7, <1>8 DEF Inv

\* The errors of a turn are errors.
LEMMA Errors ==
    ASSUME NEW t \in Turns
    PROVE  /\ NoTurn \in 0 .. MaxTurns /\ t \in 0 .. MaxTurns
           /\ NoError \in [of : 0 .. MaxTurns, kind : Kinds]
           /\ Error(t, "cleanup") \in [of : 0 .. MaxTurns, kind : Kinds]
           /\ Error(t, "cleanup").of = t
<1>1. NoTurn \in 0 .. MaxTurns /\ t \in 0 .. MaxTurns
  BY DEF NoTurn, Turns
<1> QED BY <1>1 DEF NoError, Error, Kinds

\* What ends a consumer writes its end.
LEMMA EndsWrites ==
    ASSUME Inv, NEW t \in Turns, NEW cause \in {"returned", "abandoned"},
           NEW error \in [of : 0 .. MaxTurns, kind : Kinds], Ends(t, cause, error)
    PROVE  \E k \in ConsumerState :
              /\ consumer' = [consumer EXCEPT ![t] = k] /\ k.pc = "ended"
              /\ k.result = "raised" => error # NoError /\ k.by = error.of
<1> DEFINE k == [consumer[t] EXCEPT
                    !.pc = "ended",
                    !.result = IF error = NoError THEN cause ELSE "raised",
                    !.by = error.of]
<1>1. consumer[t] \in ConsumerState
  BY DEF Inv, Typed
<1>2. /\ k \in ConsumerState /\ k.pc = "ended" /\ k.by = error.of
      /\ k.result = IF error = NoError THEN cause ELSE "raised"
  BY <1>1 DEF ConsumerState
<1>3. consumer' = [consumer EXCEPT ![t] = k]
  BY DEF Ends
<1> HIDE DEF k
<1> QED BY <1>2, <1>3

\* A consumer that ends, by itself or after its clean-up.
LEMMA EndingKeeps ==
    ASSUME Inv, NEW t \in Turns, Finishes(t) \/ Settled(t) \/ HardSettles(t)
    PROVE  Inv'
<1>1. /\ consumer[t].pc \notin {"idle", "ended"} /\ consumer[t] \in ConsumerState
      /\ DriverDone(t) \/ Impatient \/ binding.invalidated
  BY DEF Finishes, Settled, HardSettles, Exhausted, Inv, Consumers, Typed
<1>2. /\ UNCHANGED <<session, current, watcher, queue, closer, driver>>
      /\ taken' \in [Turns -> BOOLEAN] /\ QueueTyped'
  BY DEF Finishes, Settled, HardSettles, Inv, Typed, QueueTyped
<1>3. /\ binding.error \in [of : 0 .. MaxTurns, kind : Kinds]
      /\ NoError \in [of : 0 .. MaxTurns, kind : Kinds]
      /\ Error(t, "cleanup") \in [of : 0 .. MaxTurns, kind : Kinds]
      /\ Error(t, "cleanup").of = t
  BY Errors DEF Inv, Typed, BindingState
<1>4. ~ Overlap => t = current /\ (binding.error = NoError \/ binding.error.of = t)
  BY <1>1 DEF Inv, Own
<1>5. /\ LeftOver \in [of : 0 .. MaxTurns, kind : Kinds]
      /\ LeftOver \in {NoError, binding.error}
  BY <1>3 DEF LeftOver
<1>6. PICK cause \in {"returned", "abandoned"},
           error \in {binding.error, NoError, Error(t, "cleanup")} :
              Ends(t, cause, error)
  BY <1>5 DEF Finishes, Settled, HardSettles
<1>7. PICK k \in ConsumerState :
            /\ consumer' = [consumer EXCEPT ![t] = k] /\ k.pc = "ended"
            /\ k.result = "raised" => error # NoError /\ k.by = error.of
  BY <1>3, <1>6, EndsWrites
<1>8. k.result = "raised" /\ ~ Overlap => k.by = t
  BY <1>3, <1>4, <1>6, <1>7
<1>9. /\ binding' \in BindingState /\ binding'.active = binding.active
      /\ binding.invalidated => binding'.invalidated
      /\ binding'.error = binding.error \/ binding'.error.of = t
  BY <1>3 DEF Finishes, Settled, HardSettles, Inv, Typed, BindingState
<1> QED BY <1>1, <1>2, <1>7, <1>8, <1>9, ConsumerKeeps

\* A consumer that goes on: it takes an item, resumes, or cleans up.
LEMMA PullingKeeps ==
    ASSUME Inv, NEW t \in Turns,
           Takes(t) \/ TakesForced(t) \/ Resumes(t) \/ Abandons(t)
             \/ SettleTimesOut(t) \/ HardCloses(t)
    PROVE  Inv'
<1>1. /\ UNCHANGED <<session, current, watcher, closer>>
      /\ UNCHANGED driver \/ Cancel(t)
      /\ consumer[t].pc \notin {"idle", "ended"}
  BY DEF Takes, TakesForced, Exhausted, Resumes, Abandons, SettleTimesOut, HardCloses
<1>2. QueueTyped'
  <2>1. CASE Takes(t)
    <3>1. queue[t] \in Seq(Items) /\ queue[t] # <<>>
      BY <2>1 DEF Takes, Inv, Typed, QueueTyped
    <3>2. Tail(queue[t]) \in Seq(Items) /\ Len(Tail(queue[t])) = Len(queue[t]) - 1
      BY <3>1
    <3>3. queue' = [queue EXCEPT ![t] = Tail(queue[t])]
      BY <2>1 DEF Takes
    <3>4. Len(queue[t]) - 1 <= QueueSize
      <4>1. QueueTyped
        BY DEF Inv, Typed
      <4>2. Len(queue[t]) <= QueueSize
        BY <4>1 DEF QueueTyped
      <4>3. Len(queue[t]) \in Nat
        BY <3>1
      <4> QED BY <4>2, <4>3
    <3> HIDE DEF Turns, Items
    <3> QED BY <3>2, <3>3, <3>4 DEF Inv, Typed, QueueTyped
  <2>2. CASE UNCHANGED queue
    BY <2>2 DEF Inv, Typed, QueueTyped
  <2> QED BY <2>1, <2>2 DEF TakesForced, Resumes, Abandons, SettleTimesOut, HardCloses
<1>3. taken' \in [Turns -> BOOLEAN]
  BY DEF Takes, TakesForced, Resumes, Abandons, SettleTimesOut, HardCloses, Inv, Typed
<1>4. /\ binding' \in BindingState /\ binding'.active = binding.active
      /\ binding.invalidated => binding'.invalidated
      /\ binding'.error = binding.error \/ binding'.error.of = t
  <2>1. binding \in BindingState
    BY DEF Inv, Typed
  <2> QED BY <2>1, Errors DEF Takes, TakesForced, Resumes, Abandons, SettleTimesOut,
                            HardCloses, BindingState
<1> DEFINE Moves(k) ==
        /\ consumer' = [consumer EXCEPT ![t] = k] /\ k.pc \notin {"idle", "ended"}
        /\ k.pc \in {"final", "resumed"} => DriverDone(t)
        /\ k.pc \in {"hardclosing", "hardwaiting"} => binding'.invalidated
        /\ k.result = consumer[t].result /\ k.by = consumer[t].by
<1>5. \E k \in ConsumerState : Moves(k)
  <2>0. consumer[t] \in ConsumerState /\ binding \in BindingState
    BY DEF Inv, Typed
  <2>1. ASSUME NEW pc \in {"holding", "final"}, NEW item \in Items, Shows(t, item, pc),
               pc = "final" => DriverDone(t)
        PROVE  \E k \in ConsumerState : Moves(k)
    <3> DEFINE k == [consumer[t] EXCEPT !.pc = pc, !.shown = Append(@, item)]
    <3>1. consumer' = [consumer EXCEPT ![t] = k]
      BY <2>1 DEF Shows
    <3>2. Append(consumer[t].shown, item) \in Seq(Items)
      BY <2>0 DEF ConsumerState
    <3>3. /\ k \in ConsumerState /\ k.pc = pc /\ k.result = consumer[t].result
          /\ k.by = consumer[t].by
      BY <2>0, <3>2 DEF ConsumerState
    <3> HIDE DEF k
    <3> QED BY <2>1, <3>1, <3>3
  <2>2. ASSUME NEW pc \in {"pulling", "resumed", "settling", "hardclosing", "hardwaiting"},
               consumer' = [consumer EXCEPT ![t].pc = pc],
               pc = "resumed" => DriverDone(t),
               pc \in {"hardclosing", "hardwaiting"} => binding'.invalidated
        PROVE  \E k \in ConsumerState : Moves(k)
    <3> DEFINE k == [consumer[t] EXCEPT !.pc = pc]
    <3>1. consumer' = [consumer EXCEPT ![t] = k]
      BY <2>2
    <3>2. /\ k \in ConsumerState /\ k.pc = pc /\ k.result = consumer[t].result
          /\ k.by = consumer[t].by
      BY <2>0 DEF ConsumerState
    <3> HIDE DEF k
    <3> QED BY <2>2, <3>1, <3>2
  <2> HIDE DEF Moves
  <2>3. CASE Takes(t)
    <3>1. Head(queue[t]) \in Items
      <4>1. QueueTyped /\ queue[t] # <<>>
        BY <2>3 DEF Takes, Inv, Typed
      <4>2. queue[t] \in Seq(Items)
        BY <4>1 DEF QueueTyped
      <4> QED BY <4>1, <4>2
    <3> QED BY <2>1, <2>3, <3>1 DEF Takes
  <2>4. CASE TakesForced(t)
    <3>1. Item(binding.forced, "terminal") \in Items
      BY <2>0, <2>4 DEF TakesForced, BindingState, Item, Items, Turns, NoTurn
    <3> QED BY <2>1, <2>4, <3>1 DEF TakesForced, Exhausted
  <2>5. CASE Resumes(t)
    <3>1. CASE consumer[t].pc = "holding"
      BY <2>2, <2>5, <3>1 DEF Resumes
    <3>2. CASE consumer[t].pc = "final"
      BY <2>2, <2>5, <3>2 DEF Resumes, Inv, Consumers
    <3> QED BY <2>5, <3>1, <3>2 DEF Resumes
  <2>6. CASE Abandons(t)
    BY <2>2, <2>6 DEF Abandons
  <2>7. CASE SettleTimesOut(t)
    <3>1. binding'.invalidated
      BY <2>0, <2>7 DEF SettleTimesOut, BindingState
    <3> QED BY <2>2, <2>7, <3>1 DEF SettleTimesOut
  <2>8. CASE HardCloses(t)
    <3>1. binding'.invalidated
      BY <1>4, <2>8 DEF HardCloses, Inv, Consumers
    <3> QED BY <2>2, <2>8, <3>1 DEF HardCloses
  <2> QED BY <2>3, <2>4, <2>5, <2>6, <2>7, <2>8
<1>6. PICK k \in ConsumerState : Moves(k)
  BY <1>5
<1>7. k.result = "raised" /\ ~ Overlap => k.by = t
  BY <1>6 DEF Inv, Own, RaisedIsOwn
<1> QED BY <1>1, <1>2, <1>3, <1>4, <1>6, <1>7, ConsumerKeeps
-----------------------------------------------------------------------------
\* close_session fences the session and sees the end of its driver.
LEMMA CloseKeeps ==
    ASSUME Inv, CloseSession \/ Closer
    PROVE  Inv'
<1>0. Typed /\ binding \in BindingState /\ driver \in [Turns -> DriverState]
  BY DEF Inv, Typed
<1>1. /\ session' \in [closed : BOOLEAN, listed : BOOLEAN]
      /\ taken' \in [Turns -> BOOLEAN]
      /\ UNCHANGED <<current, watcher, queue, consumer>>
  BY <1>0 DEF CloseSession, Closer, CloserBegins, CloserInterrupted, CloserWaited,
              CloserEnds, turns, Typed
<1>2. /\ binding' \in BindingState
      /\ binding'.active => binding.active
      /\ binding.invalidated => binding'.invalidated
      /\ binding'.error = binding.error
      /\ closer # "none" \/ closer' # "none" => binding'.invalidated
      /\ binding.active /\ ~ binding'.active => binding.invalidated
      /\ closer' \in {"done", "done late"} => ~ binding'.active
  BY <1>0 DEF CloseSession, Closer, CloserBegins, CloserInterrupted, CloserWaited,
              CloserEnds, CloserCancels, BindingState, Inv, Closing
<1>3. /\ UNCHANGED driver \/ (current # NoTurn /\ Cancel(current))
      /\ closer' \in {"ready", "interrupting", "waiting", "adapter", "late", "done",
                      "done late"}
      /\ closer' \in {"adapter", "done"} => \A t \in Turns : ~ Live(t)
  <2>1. /\ closer = "adapter" => \A t \in Turns : ~ Live(t)
        /\ current = NoTurn \/ DriverDone(current) => \A t \in Turns : ~ Live(t)
    <3>1. ASSUME NEW t \in Turns, current = NoTurn PROVE ~ Live(t)
      BY <3>1 DEF Inv, Slot, Turns, NoTurn
    <3>2. ASSUME NEW t \in Turns, DriverDone(current) PROVE ~ Live(t)
      BY <3>2 DEF Inv, Slot, Live, DriverDone
    <3> QED BY <3>1, <3>2 DEF Inv, Closing
  <2>2. CASE CloserBegins
    BY <2>1, <2>2 DEF CloserBegins, CloserCancels
  <2>3. CASE CloserInterrupted
    BY <2>1, <2>3 DEF CloserInterrupted, CloserCancels
  <2>4. CASE CloserWaited
    <3>1. closer' \in {"adapter", "late"} /\ UNCHANGED driver
      BY <2>4 DEF CloserWaited
    <3>2. closer' = "adapter" => DriverDone(current)
      BY <2>4 DEF CloserWaited
    <3> QED BY <2>1, <3>1, <3>2
  <2>5. CASE CloserEnds
    BY <2>1, <2>5 DEF CloserEnds
  <2>6. CASE CloseSession
    BY <2>6 DEF CloseSession, turns
  <2> QED BY <2>2, <2>3, <2>4, <2>5, <2>6 DEF Closer
<1>4. /\ driver' \in [Turns -> DriverState]
      /\ \A u \in Turns : driver'[u].pc = driver[u].pc /\ driver'[u].hold = driver[u].hold
      /\ \A u \in Turns : driver'[u].cancel => driver[u].cancel \/ Live(u)
  <2>1. CASE UNCHANGED driver
    BY <1>0, <2>1
  <2>2. CASE current # NoTurn /\ driver' = [driver EXCEPT ![current].cancel = TRUE]
             /\ ~ DriverDone(current)
    <3> DEFINE e == [driver[current] EXCEPT !.cancel = TRUE]
    <3>1. current \in Turns
      BY <2>2, CurrentIsTurn
    <3>2. driver[current] \in DriverState /\ driver' = [driver EXCEPT ![current] = e]
      BY <1>0, <2>2, <3>1
    <3>3. e \in DriverState /\ e.pc = driver[current].pc /\ e.hold = driver[current].hold
      BY <3>2 DEF DriverState
    <3>4. Live(current)
      BY <2>2 DEF Inv, Drivers, Live, DriverDone
    <3> HIDE DEF e
    <3> QED BY <1>0, <3>1, <3>2, <3>3, <3>4
  <2> QED BY <1>3, <2>1, <2>2 DEF Cancel
<1>5. Typed'
  <2>1. /\ current' \in 0 .. MaxTurns /\ WatcherTyped' /\ QueueTyped'
        /\ consumer' \in [Turns -> ConsumerState]
    <3>1. UNCHANGED <<current, watcher, queue, consumer>>
      BY <1>1
    <3> QED BY <1>0, <3>1 DEF Typed, WatcherTyped, QueueTyped
  <2>2. closer' \in {"none", "ready", "interrupting", "waiting", "adapter", "late",
                     "done", "done late"}
    BY <1>3
  <2>3. driver' \in [Turns -> DriverState]
    BY <1>4
  <2>4. binding' \in BindingState
    BY <1>2
  <2>5. session' \in [closed : BOOLEAN, listed : BOOLEAN] /\ taken' \in [Turns -> BOOLEAN]
    BY <1>1
  <2> QED BY <2>1, <2>2, <2>3, <2>4, <2>5 DEF Typed
<1>6. Slot' /\ Closing'
  BY <1>1, <1>2, <1>3, <1>4 DEF Inv, Slot, Closing, Live
<1>7. Drivers'
  <2>1. current # NoTurn => current \in Turns
    BY CurrentIsTurn
  <2> QED BY <1>1, <1>4, <2>1 DEF Inv, Drivers, Live
<1>8. /\ UNCHANGED <<current, consumer>> /\ binding'.error = binding.error
      /\ binding.invalidated => binding'.invalidated
      /\ \A u \in Turns : driver'[u].pc = driver[u].pc
  <2>1. UNCHANGED <<current, consumer>>
    BY <1>1
  <2>2. binding'.error = binding.error /\ (binding.invalidated => binding'.invalidated)
    BY <1>2
  <2>3. \A u \in Turns : driver'[u].pc = driver[u].pc
    BY <1>4
  <2> QED BY <2>1, <2>2, <2>3
<1>9. Consumers'
  BY <1>8 DEF Inv, Consumers, DriverDone
<1>10. ~ Impatient => EndedIsSettled'
  BY <1>8 DEF Inv, EndedIsSettled, Live
<1>11. ~ Overlap => Own'
  BY <1>8 DEF Inv, Own, RaisedIsOwn
<1> QED BY <1>5, <1>6, <1>7, <1>9, <1>10, <1>11 DEF Inv
-----------------------------------------------------------------------------
\* The invariant holds in every reachable state.
THEOREM Invariance == Spec => []Inv
<1>1. Inv /\ [Next]_vars => Inv'
  <2> SUFFICES ASSUME Inv, [Next]_vars PROVE Inv'
    OBVIOUS
  <2>1. ASSUME NEW t \in Turns, Host(t) \/ Consumer(t) \/ HardCloses(t)
        PROVE  Inv'
    BY <2>1, StartKeeps, PullingKeeps, EndingKeeps DEF Host, Consumer
  <2>2. ASSUME NEW t \in Turns, Stream(t) \/ StopFires(t) \/ Driver(t) \/ Adapter(t)
        PROVE  Inv'
    <3>1. CASE Drives(t)
      BY <3>1, DrivingKeeps
    <3>2. CASE StopFires(t) \/ InterruptAnswered(t) \/ InterruptFails(t)
      BY <3>2, WatcherKeeps
    <3> QED BY <2>2, <3>1, <3>2, StreamDrives, StepsDrive, EndsDrive, CancelledDrives
            DEF Driver, Adapter
  <2>3. CASE Rest \/ UNCHANGED vars
    BY ZenonT(40), <2>3 DEF Rest, vars, Inv, Typed, WatcherTyped, QueueTyped, Slot, Drivers,
                Consumers, Closing, EndedIsSettled, Own, RaisedIsOwn, Live, DriverDone
  <2> QED BY <2>1, <2>2, <2>3, CloseKeeps DEF Next
<1> QED BY <1>1, Initially, PTL DEF Spec

\* Every reachable state of a session has its types (agent_runtime/runtime.py).
THEOREM Typing == Spec => []TypeOK
<1>1. Inv => TypeOK
  BY DEF Inv, Typed, TypeOK, BindingState, DriverState, ConsumerState, WatcherTyped,
         QueueTyped
<1> QED BY <1>1, Invariance, PTL

\* The adapter serves one turn of a session at a time (stream_turn's slot).
THEOREM TurnsTakeTurns == Spec => []OneDriver
<1>1. Inv => OneDriver
  BY DEF Inv, Slot, OneDriver
<1> QED BY <1>1, Invariance, PTL

\* close_session leaves no driver behind it, unless it said it was late.
THEOREM CloseIsQuiet == Spec => []ClosedIsQuiet
<1>1. Inv => ClosedIsQuiet
  BY DEF Inv, Closing, ClosedIsQuiet
<1> QED BY <1>1, Invariance, PTL

\* A host that lets a stream clean up finds its driver gone or its session fenced.
THEOREM EndIsSettled == ASSUME ~ Impatient PROVE Spec => []EndedIsSettled
<1>1. Inv => EndedIsSettled
  BY DEF Inv
<1> QED BY <1>1, Invariance, PTL

\* With one stream at a time, a stream raises the error of its own turn.
THEOREM ErrorsAreOwn == ASSUME ~ Overlap PROVE Spec => []RaisedIsOwn
<1>1. Inv => RaisedIsOwn
  BY DEF Inv, Own
<1> QED BY <1>1, Invariance, PTL
=============================================================================
