---------------------------- MODULE OwnedProcess ----------------------------
(* A short command that the runtime runs and owns with its process group     *)
(* (agent_runtime/_process.py: capture_process_output over ManagedProcess):  *)
(* spawn, read, wait, and the termination that wait, its cancellation and    *)
(* close each begin. close is a task of its own, which outlives a capture    *)
(* that is cancelled again and again. The kernel and the command are         *)
(* external; that the pid of the group is not reused while it is pinned is   *)
(* taken from the source.                                                    *)

VARIABLES
    child,     \* [leader: "none" | "runs" | "zombie" | "reaped", others: a descendant lives]
    process,   \* ManagedProcess: [pinned, exit, overflow], and [expired: the bound]
    ending,    \* the termination under way: [by: whose, at: where]
    capture    \* capture_process_output: where it is

processVars == <<child, process, ending, capture>>

ProcessInit ==
    /\ child = [leader |-> "none", others |-> FALSE]
    /\ process = [pinned |-> FALSE, exit |-> FALSE, overflow |-> FALSE,
                   expired |-> FALSE]
    /\ ending = [by |-> "none", at |-> "off"]
    /\ capture = "idle"

Alive == child.leader = "runs" \/ child.others
\* ProcessGroup.exists: a zombie leader is still a member.
Exists == Alive \/ child.leader = "zombie"

CaptureEnded == capture \in {"returned", "raised"}

-----------------------------------------------------------------------------
(* The command.                                                              *)

LeaderExits ==
    /\ child.leader = "runs"
    /\ child' = [child EXCEPT !.leader = "zombie"]
    /\ UNCHANGED <<process, ending, capture>>

LeaderReaped ==
    /\ child.leader = "zombie"
    /\ child' = [child EXCEPT !.leader = "reaped"]
    /\ UNCHANGED <<process, ending, capture>>

OthersBegin ==
    /\ child.leader = "runs" /\ ~ child.others
    /\ child' = [child EXCEPT !.others = TRUE]
    /\ UNCHANGED <<process, ending, capture>>

OthersExit ==
    /\ child.others
    /\ child' = [child EXCEPT !.others = FALSE]
    /\ UNCHANGED <<process, ending, capture>>

\* Standard error passes its bound.
Overflows ==
    /\ Alive /\ process.pinned
    /\ process' = [process EXCEPT !.overflow = TRUE]
    /\ UNCHANGED <<child, ending, capture>>

-----------------------------------------------------------------------------
(* The capture.                                                              *)

Spawn ==
    /\ capture = "idle"
    /\ \/ /\ capture' = "reading"
          /\ child' = [child EXCEPT !.leader = "runs"]
          /\ process' = [process EXCEPT !.pinned = TRUE]
       \/ capture' = "raised" /\ UNCHANGED <<child, process>>
    /\ UNCHANGED ending

\* Whatever stops the capture before wait returned: close() terminates anew.
BeginsClose ==
    /\ capture' = "closing"
    /\ ending' = [by |-> "close", at |-> "term"]

ReadsToEnd ==
    /\ capture = "reading"
    /\ capture' = "waiting"
    /\ ending' = [by |-> "wait", at |-> "watch"]
    /\ UNCHANGED <<child, process>>

\* Too much output, or a pipe that breaks.
ReadFails ==
    /\ capture = "reading"
    /\ BeginsClose
    /\ UNCHANGED <<child, process>>

\* wait sees the leader's exit or the overflow, whichever is first.
Watched ==
    /\ ending = [by |-> "wait", at |-> "watch"]
    /\ child.leader = "reaped" \/ process.overflow
    /\ ending' = [ending EXCEPT !.at = IF process.overflow \/ Exists THEN "term" ELSE "settle"]
    /\ UNCHANGED <<child, process, capture>>

\* After SIGTERM: the leader's exit is awaited, or its grace passes.
Terminated ==
    /\ ending.at = "term"
    /\ ending' = [ending EXCEPT !.at = IF Exists THEN "linger" ELSE "settle"]
    /\ UNCHANGED <<child, process, capture>>

\* The rest of the grace has passed: SIGKILL reaches every member.
Killed ==
    /\ ending.at = "linger"
    /\ child' = [leader |-> IF child.leader = "runs" THEN "zombie" ELSE child.leader,
                 others |-> FALSE]
    /\ ending' = [ending EXCEPT !.at = "reap"]
    /\ UNCHANGED <<process, capture>>

Reaped ==
    /\ ending.at = "reap" /\ child.leader = "reaped"
    /\ ending' = [ending EXCEPT !.at = "settle"]
    /\ UNCHANGED <<child, process, capture>>

\* The leader is not reaped in time: a defect, which close() answers for once.
ReapFails ==
    /\ ending.at = "reap" /\ child.leader # "reaped"
    /\ IF ending.by = "close"
       THEN /\ ending' = [by |-> "none", at |-> "off"]
            /\ capture' = "raised"
       ELSE BeginsClose
    /\ UNCHANGED <<child, process>>

\* wait and close record the exit and release the pin; a cancelled wait leaves
\* both to close.
TerminationSettles ==
    /\ ending.at = "settle"
    /\ IF ending.by = "handler" THEN BeginsClose /\ UNCHANGED process
       ELSE /\ ending' = [by |-> "none", at |-> "off"]
            /\ process' = [process EXCEPT !.exit = TRUE, !.pinned = FALSE]
            /\ capture' = IF ending.by = "wait" /\ ~ process.overflow THEN "returned"
                          ELSE "raised"
    /\ UNCHANGED child

\* The capture is cancelled, by its start-up bound or with its operation. A
\* cancelled wait terminates the group, cancelled again it leaves that to
\* close, and close is awaited once more before its caller gives up on it.
CaptureCancelled ==
    CASE capture = "reading" -> BeginsClose
      [] capture = "waiting" /\ ending.by = "wait" ->
           /\ ending' = [by |-> "handler", at |-> "term"]
           /\ UNCHANGED capture
      [] capture = "waiting" /\ ending.by = "handler" -> BeginsClose
      [] capture = "closing" -> capture' = "closing again" /\ UNCHANGED ending
      [] capture = "closing again" -> capture' = "raised" /\ UNCHANGED ending
      [] OTHER -> UNCHANGED <<ending, capture>>

\* The bound on the whole capture, which passes once.
TimesOut ==
    /\ capture \in {"reading", "waiting"} /\ ~ process.expired
    /\ process' = [process EXCEPT !.expired = TRUE]
    /\ CaptureCancelled
    /\ UNCHANGED child

Command == LeaderExits \/ LeaderReaped \/ OthersBegin \/ OthersExit \/ Overflows
Capture ==
    \/ ReadsToEnd \/ ReadFails \/ Watched \/ Terminated \/ Killed
    \/ Reaped \/ ReapFails \/ TerminationSettles \/ TimesOut

\* Nothing of the group is left alive, or close is about to see to it.
GroupSettled == Alive => ending.by = "close"
=============================================================================
