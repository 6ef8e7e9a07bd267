--------------------------- MODULE ClaudeSession ---------------------------
(* One session of the Claude adapter: a client of the Claude Agent SDK, the *)
(* process group its CLI runs in, and the turns the runtime streams over    *)
(* it. Four parties interleave: the generator of the current turn           *)
(* (stream_turn), an interrupt() issued while the generator waits, the      *)
(* permission callbacks the SDK runs on tasks of its own, and               *)
(* close_session(). All turns share one message stream, so a turn that was  *)
(* interrupted leaves a tail there. The CLI is external.                    *)
EXTENDS Naturals, Sequences, FiniteSets

CONSTANTS
    MaxTurns,     \* turns the host starts
    MaxFrames,    \* frames a native turn emits between its init and its result
    Requests      \* session requests: [flaws, approval, handler, schema, mcp]

ASSUME BoundsAssumption == MaxTurns \in Nat \ {0} /\ MaxFrames \in Nat

VARIABLES
    request,      \* what open_session was asked for
    life,         \* the session's place in the adapter's tables
    client,       \* the SDK client: its stream is up, failed, ended, or released
    group,        \* the CLI's process group
    native,       \* the CLI: the turn it runs and what that turn still does
    wire,         \* the client's one message stream
    state,        \* _ClaudeSessionState
    call,         \* per turn: its tool's permission callback
    gen,          \* the generator of the current turn
    stop,         \* the two callers of _stop_client
    closer,       \* close_session
    shown         \* the events of the current turn's stream

vars == <<request, life, client, group, native, wire, state, call, gen, stop,
          closer, shown>>

Turns == 1 .. MaxTurns
Callers == {"gen", "intr"}

-----------------------------------------------------------------------------
(* Requests, and what the session's checks make of them.                    *)

\* The checks of open_session in their order; a request is refused by the
\* first that it fails, before anything is started.
PolicyChecks == <<"full access", "unrestricted network", "tool pattern", "denial pattern",
                  "web tool">>
ServerChecks == <<"stdio server", "server tool filters", "server credentials">>
ThinkingChecks == <<"summary verbosity">>
Checks ==
    <<"auth">> \o PolicyChecks
        \o <<"server beyond network", "sdk", "ref", "internal", "executable", "sandbox",
             "developer", "system not text">>
        \o ServerChecks \o ThinkingChecks
Refused(r) == \E i \in DOMAIN Checks : Checks[i] \in r.flaws

\* The answer of mcp_status: every requested server is connected, an optional
\* one is not (a diagnostic of the first stream), a required one is not, or
\* one was reported that nobody requested.
McpStatuses == {"connected", "optional down", "required down", "unrequested"}
McpRefused(r) == r.mcp \in {"required down", "unrequested"}
McpDiagnosed(r) == r.mcp = "optional down"

\* The policy's own answer to a request for a tool, or else "ask" the caller's
\* handler. A policy of provider_review needs no handler here, and then nobody
\* can be asked.
Decision(r, tool) ==
    IF tool = "denied" \/ r.approval = "deny" THEN "deny"
    ELSE IF r.approval = "allow" THEN "allow"
    ELSE IF r.handler THEN "ask" ELSE "nobody"

\* system/init reports the tools in effect; more than was requested is a
\* defect, the schema tool of a structured session excepted.
InitFits(r, report) ==
    \/ report = "same"
    \/ report = "schema tool" /\ r.schema

-----------------------------------------------------------------------------
(* Frames of the native stream: init, text, a tool's use, its result, a rate *)
(* limit, an oversized message, one of another session, the turn's result.   *)

Frame(t, kind, arg) == [of |-> t, kind |-> kind, arg |-> arg]
IsResult(m) == m.kind = "result"

\* The message uuid names the turn; init frames carry none.
Names(m) == m.kind # "init"

\* _terminal's arms in their order.
TerminalStatus(s, result) ==
    IF s.failed THEN "approval_unanswered"
    ELSE IF s.aborted \/ result = "aborted" THEN "cancelled"
    ELSE IF result = "error" THEN IF s.quota THEN "quota" ELSE "backend_failed"
    ELSE "succeeded"

Event(m) == [of |-> m.of, kind |-> m.kind]
Terminal(t, status) == [of |-> t, kind |-> status]
Approvals(s) == [i \in DOMAIN s.pending |-> [of |-> s.pending[i], kind |-> "approval"]]

\* The fields stream_turn resets at its head.
FreshTurn(s) ==
    [s EXCEPT !.named = FALSE, !.failed = FALSE, !.aborted = FALSE, !.quota = FALSE,
              !.tools = {}, !.pending = <<>>, !.defect = FALSE]

Show(events) == shown' = shown \o events

Idle(g) == [g EXCEPT !.pc = "idle", !.buffer = <<>>, !.then = "none"]

Quiet(n) == [n EXCEPT !.turn = 0, !.left = 0, !.init = FALSE, !.stopping = FALSE]

-----------------------------------------------------------------------------
Init ==
    /\ request \in Requests
    /\ life = "new" /\ client = "none" /\ group = "none"
    /\ native = [turn |-> 0, left |-> 0, init |-> FALSE, stopping |-> FALSE, sound |-> TRUE]
    /\ wire = <<>>
    /\ state = [drain |-> FALSE, flight |-> FALSE, named |-> FALSE,
                known |-> FALSE, told |-> TRUE, failed |-> FALSE, aborted |-> FALSE,
                quota |-> FALSE, defect |-> FALSE, tools |-> {}, pending |-> <<>>]
    /\ call = [t \in Turns |-> "none"]
    /\ gen = [turn |-> 0, pc |-> "idle", buffer |-> <<>>, then |-> "none", stopped |-> FALSE]
    /\ stop = [c \in Callers |-> [pc |-> "idle", force |-> FALSE]]
    /\ closer = "none"
    /\ shown = <<>>

(***************************************************************************)
(* open_session.                                                           *)
(***************************************************************************)
OpenChecks ==
    /\ life = "new"
    /\ life' = IF Refused(request) THEN "refused" ELSE "starting"
    /\ UNCHANGED <<request, client, group, native, wire, state, call, gen, stop, closer, shown>>

OpenConnects ==
    /\ life = "starting"
    /\ \/ life' = "adopting" /\ client' = "up" /\ group' = "unowned"
       \/ life' = "unwinding" /\ UNCHANGED <<client, group>>
    /\ UNCHANGED <<request, native, wire, state, call, gen, stop, closer, shown>>

OpenAdopts ==
    /\ life = "adopting"
    /\ \/ life' = "probing" /\ group' = "owned"
       \/ life' = "unwinding" /\ UNCHANGED group
    /\ UNCHANGED <<request, client, native, wire, state, call, gen, stop, closer, shown>>

\* mcp_status answers, fails or is late; then the session is published.
OpenProbes ==
    /\ life = "probing"
    /\ \/ /\ ~ McpRefused(request)
          /\ life' = "live"
          /\ state' = [state EXCEPT !.told = ~ McpDiagnosed(request)]
       \/ life' = "unwinding" /\ UNCHANGED state
    /\ UNCHANGED <<request, client, group, native, wire, call, gen, stop, closer, shown>>

\* Mutant: only the client is released.
UnwoundBare(g) == g

Unwound(g) == IF g = "owned" THEN "reaped" ELSE g

\* Every failure of the start, a cancellation included, releases the client
\* and the group before it is raised.
OpenUnwinds ==
    /\ life = "unwinding"
    /\ life' = "refused" /\ client' = "gone"
    /\ group' = Unwound(group)
    /\ UNCHANGED <<request, native, wire, state, call, gen, stop, closer, shown>>

Open == OpenChecks \/ OpenConnects \/ OpenAdopts \/ OpenProbes \/ OpenUnwinds

(***************************************************************************)
(* _stop_client, on behalf of the generator or of interrupt(): ask the CLI *)
(* to stop; unless it did and the session may live, disconnect and reap.   *)
(***************************************************************************)
Asks(force) == [pc |-> "asking", force |-> force]

\* The generator stops the client, and ends as "then" says when that is done.
GenStops(force, then) ==
    /\ gen' = [gen EXCEPT !.pc = "stopping", !.then = then, !.buffer = <<>>]
    /\ stop' = [stop EXCEPT !["gen"] = Asks(force)]

\* The stopper c is done: interrupt() returns, the generator ends its stream.
Stopped(c) ==
    /\ stop' = [stop EXCEPT ![c].pc = IF c = "intr" THEN "returned" ELSE "idle"]
    /\ IF c = "intr" THEN UNCHANGED <<gen, shown>>
       ELSE /\ gen' = Idle(gen)
            /\ IF gen.then \in {"output_limit", "backend_failed"}
               THEN Show(<<Terminal(gen.turn, gen.then)>>)
               ELSE UNCHANGED shown

\* Mutant: the tail of the interrupted turn is not remembered.
LandedForgetful(s) == s

\* The session outlives a soft stop; what the turn in flight still sends will
\* have to be drained.
Landed(s) == [s EXCEPT !.drain = s.flight]

StopAsks(c) ==
    /\ stop[c].pc = "asking"
    /\ \/ /\ client = "up"
          /\ native' = [native EXCEPT !.stopping = native.turn # 0]
          /\ IF stop[c].force
             THEN /\ stop' = [stop EXCEPT ![c].pc = "disconnecting"]
                  /\ UNCHANGED <<state, gen, shown>>
             ELSE /\ state' = Landed(state)
                  /\ Stopped(c)
       \/ /\ stop' = [stop EXCEPT ![c].pc = "disconnecting"]
          /\ UNCHANGED <<native, state, gen, shown>>
    /\ UNCHANGED <<request, life, client, group, wire, call, closer>>

\* The SDK's disconnect, or the kill that follows when it fails.
Disconnects ==
    /\ client' = "gone"
    /\ native' = Quiet(native)

StopDisconnects(c) ==
    /\ stop[c].pc = "disconnecting"
    /\ Disconnects
    /\ stop' = [stop EXCEPT ![c].pc = "reaping"]
    /\ UNCHANGED <<request, life, group, wire, state, call, gen, closer, shown>>

StopReaps(c) ==
    /\ stop[c].pc = "reaping"
    /\ Disconnects
    /\ group' = "reaped" /\ life' = "dead"
    /\ Stopped(c)
    /\ UNCHANGED <<request, wire, state, call, closer>>

StopClient(c) == StopAsks(c) \/ StopDisconnects(c) \/ StopReaps(c)

\* interrupt(): nothing for a dead session; a turn that was never named takes
\* the session with it. The runtime asks once per turn.
Interrupt ==
    /\ gen.pc # "idle" /\ ~ gen.stopped
    /\ gen' = [gen EXCEPT !.stopped = TRUE]
    /\ stop' = [stop EXCEPT !["intr"] =
                  IF life = "dead" THEN [pc |-> "returned", force |-> FALSE]
                  ELSE Asks(~ state.named)]
    /\ UNCHANGED <<request, life, client, group, native, wire, state, call, closer, shown>>

(***************************************************************************)
(* close_session: the session leaves the tables at once.                   *)
(***************************************************************************)
CloseSession ==
    /\ closer = "none" /\ life \in {"live", "dead"}
    /\ closer' = IF life = "dead" THEN "done" ELSE "disconnecting"
    /\ life' = "dead"
    /\ UNCHANGED <<request, client, group, native, wire, state, call, gen, stop, shown>>

CloseDisconnects ==
    /\ closer = "disconnecting"
    /\ Disconnects
    /\ closer' = "reaping"
    /\ UNCHANGED <<request, life, group, wire, state, call, gen, stop, shown>>

CloseReaps ==
    /\ closer = "reaping"
    /\ group' = "reaped" /\ closer' = "done"
    /\ UNCHANGED <<request, life, client, native, wire, state, call, gen, stop, shown>>

Close == CloseDisconnects \/ CloseReaps

(***************************************************************************)
(* stream_turn.                                                            *)
(***************************************************************************)
\* The runtime starts a turn when the last one is over; one whose policy is to
\* ask the caller is refused without a handler, before anything is reset.
StartTurn ==
    /\ life = "live" /\ closer = "none"
    /\ request.approval = "ask" => request.handler
    /\ gen.pc = "idle" /\ gen.turn < MaxTurns /\ stop["intr"].pc \in {"idle", "returned"}
    /\ state' = FreshTurn(state)
    /\ gen' = [turn |-> gen.turn + 1, pc |-> IF state.drain THEN "draining" ELSE "querying",
               buffer |-> <<>>, then |-> "none", stopped |-> FALSE]
    /\ stop' = [stop EXCEPT !["intr"].pc = "idle"]
    /\ shown' = <<>>
    /\ UNCHANGED <<request, life, client, group, native, wire, call, closer>>

Readable == wire # <<>> /\ client # "gone"
StreamFails == ~ Readable /\ client \in {"failed", "gone"}
StreamEnds == ~ Readable /\ client \in {"ended", "gone"}

\* _drain_retired_turn: discard until the retired turn's result.
Drain ==
    /\ gen.pc = "draining" /\ Readable
    /\ wire' = Tail(wire)
    /\ IF IsResult(Head(wire))
       THEN /\ state' = [state EXCEPT !.drain = FALSE, !.flight = FALSE]
            /\ gen' = [gen EXCEPT !.pc = "querying"]
       ELSE UNCHANGED <<state, gen>>
    /\ UNCHANGED <<request, life, client, group, native, call, stop, closer, shown>>

\* The tail ends without a result, or takes longer than the drain may.
DrainFails ==
    /\ gen.pc = "draining"
    /\ GenStops(TRUE, "raise")
    /\ UNCHANGED <<request, life, client, group, native, wire, state, call, closer, shown>>

Query ==
    /\ gen.pc = "querying"
    /\ \/ /\ client = "up"
          /\ native' = [native EXCEPT !.turn = gen.turn, !.left = MaxFrames, !.init = FALSE,
                                      !.stopping = FALSE]
          /\ state' = [state EXCEPT !.flight = TRUE]
          /\ gen' = [gen EXCEPT !.pc = "identifying"]
          /\ UNCHANGED stop
       \/ GenStops(FALSE, "raise") /\ UNCHANGED <<native, state>>
    /\ UNCHANGED <<request, life, client, group, wire, call, closer, shown>>

\* Before the turn has a name its messages are kept and none is shown.
Identify ==
    /\ gen.pc = "identifying" /\ Readable
    /\ LET m == Head(wire) IN
       /\ wire' = Tail(wire)
       /\ IF m.kind = "huge" \/ (m.kind = "stranger" /\ state.known)
          THEN GenStops(TRUE, "raise") /\ UNCHANGED state
          ELSE /\ state' = [state EXCEPT !.known = TRUE, !.named = Names(m)]
               /\ gen' = [gen EXCEPT !.buffer = Append(@, m),
                                     !.pc = IF Names(m) THEN "publishing" ELSE @]
               /\ UNCHANGED stop
    /\ UNCHANGED <<request, life, client, group, native, call, closer, shown>>

IdentifyFails ==
    /\ gen.pc = "identifying" /\ (StreamFails \/ StreamEnds)
    /\ GenStops(TRUE, "raise")
    /\ UNCHANGED <<request, life, client, group, native, wire, state, call, closer, shown>>

\* What open_session observed rides at the head of the first stream.
Publish ==
    /\ gen.pc = "publishing"
    /\ Show(IF state.told THEN <<>> ELSE <<Terminal(gen.turn, "startup")>>)
    /\ state' = [state EXCEPT !.told = TRUE]
    /\ gen' = [gen EXCEPT !.pc = "streaming"]
    /\ UNCHANGED <<request, life, client, group, native, wire, call, stop, closer>>

\* _decode_message refuses a message whatever came before it.
Refuses(m) ==
    \/ m.kind = "init" /\ ~ InitFits(request, m.arg)
    \/ m.kind = "toolresult" /\ m.arg \notin state.tools

Decoded(s, m) ==
    [s EXCEPT !.pending = <<>>,
              !.tools = IF m.kind = "tool" THEN @ \cup {m.arg} ELSE @,
              !.quota = @ \/ m.kind = "limit"]

\* Mutant: what the callbacks queued is told after the message, not before.
ToldLate(s, m) == <<Event(m)>> \o Approvals(s)

Told(s, m) == Approvals(s) \o <<Event(m)>>

\* _message_events: a defect of the callbacks first, then what they queued,
\* then the message; a result is shown as it came before it ends the stream.
Events(m) ==
    IF state.defect \/ Refuses(m)
    THEN /\ GenStops(TRUE, "raise")
         /\ Show(IF state.defect THEN <<>> ELSE Approvals(state))
         /\ state' = [state EXCEPT !.defect = FALSE,
                                  !.pending = IF state.defect THEN @ ELSE <<>>]
    ELSE /\ Show(Told(state, m))
         /\ state' = Decoded(state, m)
         /\ gen' = [gen EXCEPT !.buffer = IF @ = <<>> THEN @ ELSE Tail(@),
                               !.pc = IF IsResult(m) THEN "concluding" ELSE @,
                               !.then = IF IsResult(m) THEN m.arg ELSE @]
         /\ UNCHANGED stop

StreamBuffered ==
    /\ gen.pc = "streaming" /\ gen.buffer # <<>>
    /\ Events(Head(gen.buffer))
    /\ UNCHANGED <<request, life, client, group, native, wire, call, closer>>

StreamLive ==
    /\ gen.pc = "streaming" /\ gen.buffer = <<>> /\ Readable
    /\ wire' = Tail(wire)
    /\ CASE Head(wire).kind = "huge" -> GenStops(TRUE, "output_limit") /\ UNCHANGED <<state, shown>>
         [] Head(wire).kind = "stranger" -> GenStops(TRUE, "raise") /\ UNCHANGED <<state, shown>>
         [] OTHER -> Events(Head(wire))
    /\ UNCHANGED <<request, life, client, group, native, call, closer>>

\* The stream breaks (a failed terminal) or ends without a result.
StreamStops ==
    /\ gen.pc = "streaming" /\ gen.buffer = <<>>
    /\ \/ StreamFails /\ GenStops(TRUE, "backend_failed")
       \/ StreamEnds /\ GenStops(TRUE, "raise")
    /\ UNCHANGED <<request, life, client, group, native, wire, state, call, closer, shown>>

\* _terminal: the native turn is over.
Conclude ==
    /\ gen.pc = "concluding"
    /\ IF state.defect
       THEN /\ GenStops(TRUE, "raise")
            /\ state' = [state EXCEPT !.flight = FALSE, !.defect = FALSE]
            /\ UNCHANGED shown
       ELSE /\ Show(Approvals(state) \o <<Terminal(gen.turn, TerminalStatus(state, gen.then))>>)
            /\ state' = [state EXCEPT !.flight = FALSE, !.pending = <<>>]
            /\ gen' = Idle(gen)
            /\ UNCHANGED stop
    /\ UNCHANGED <<request, life, client, group, native, wire, call, closer>>

\* The runtime cancels the generator once interrupt() has returned. While it
\* waits for a message it stops the client (again); at a yield, or before the
\* turn has a name, it just ends; and inside _stop_client a question to the
\* CLI is given up, a disconnect goes on to the reaping.
Cancel ==
    /\ stop["intr"].pc = "returned" /\ gen.stopped /\ gen.then # "cancelled"
    /\ \/ /\ gen.pc = "streaming" /\ gen.buffer = <<>>
          /\ GenStops(FALSE, "cancelled")
       \/ /\ \/ gen.pc \in {"draining", "querying", "identifying", "publishing", "streaming",
                            "concluding"}
             \/ gen.pc = "stopping" /\ stop["gen"].pc = "asking"
          /\ gen' = Idle(gen)
          /\ stop' = [stop EXCEPT !["gen"].pc = "idle"]
       \/ /\ gen.pc = "stopping" /\ stop["gen"].pc \in {"disconnecting", "reaping"}
          /\ stop' = [stop EXCEPT !["gen"].pc = "reaping"]
          /\ gen' = [gen EXCEPT !.then = "cancelled"]
    /\ UNCHANGED <<request, life, client, group, native, wire, state, call, closer, shown>>

Turn ==
    \/ Drain \/ DrainFails \/ Query \/ Identify \/ IdentifyFails \/ Publish
    \/ StreamBuffered \/ StreamLive \/ StreamStops \/ Conclude

(***************************************************************************)
(* Permission callbacks, on tasks the SDK starts as a request arrives.     *)
(***************************************************************************)
\* Mutant: a request on an interrupted turn's tail is put to the caller.
RetiredNever(s) == FALSE

\* Until its tail is drained the CLI still speaks for an interrupted turn.
Retired(s) == s.drain

\* Claude Code asks before it runs a tool; "denied" is a tool the policy does
\* not allow. A request that nobody can answer is a defect of the turn.
Ask(t, tool) ==
    /\ call[t] = "used" /\ native.turn = t /\ client = "up"
    /\ LET d == Decision(request, tool) IN
       \/ /\ Retired(state)
          /\ call' = [call EXCEPT ![t] = "abort"] /\ UNCHANGED state
       \/ /\ ~ Retired(state) /\ (~ state.named \/ d = "nobody")
          /\ call' = [call EXCEPT ![t] = "abort"]
          /\ state' = [state EXCEPT !.defect = TRUE]
       \/ /\ ~ Retired(state) /\ state.named /\ d = "ask"
          /\ call' = [call EXCEPT ![t] = "host"] /\ UNCHANGED state
       \/ /\ ~ Retired(state) /\ state.named /\ d \in {"allow", "deny"}
          /\ call' = [call EXCEPT ![t] = d]
          /\ state' = [state EXCEPT !.pending = Append(@, t)]
    /\ UNCHANGED <<request, life, client, group, native, wire, gen, stop, closer, shown>>

\* The caller's handler answers, or fails: then the tool is denied.
Answer(t, answer) ==
    /\ call[t] = "host"
    /\ call' = [call EXCEPT ![t] = IF answer = "failed" THEN "abort" ELSE answer]
    /\ state' = [state EXCEPT !.pending = Append(@, t),
                              !.failed = @ \/ answer = "failed",
                              !.aborted = @ \/ answer = "abort"]
    /\ UNCHANGED <<request, life, client, group, native, wire, gen, stop, closer, shown>>

(***************************************************************************)
(* The CLI and the SDK's stream (external).                                *)
(***************************************************************************)
Emits(m) == wire' = Append(wire, m) /\ client = "up" /\ native.turn # 0

NativeInit ==
    /\ ~ native.init
    /\ \E report \in {"same", "schema tool", "wider"} :
         /\ Emits(Frame(native.turn, "init", report))
         /\ report # "same" => native.sound
         /\ native' = [native EXCEPT !.init = TRUE, !.sound = @ /\ report = "same"]
    /\ UNCHANGED <<request, life, client, group, state, call, gen, stop, closer, shown>>

\* Text, a rate limit, the use of a tool; or, once, what should never come.
NativeFrame ==
    /\ native.turn # 0 /\ native.init /\ native.left > 0
    /\ call[native.turn] \notin {"used", "host"}
    /\ \E kind \in {"text", "limit", "tool", "huge", "stranger", "toolresult"} :
         /\ Emits(Frame(native.turn, kind, kind))
         /\ kind = "tool" => call[native.turn] = "none"
         /\ kind \in {"huge", "stranger", "toolresult"} => native.sound
         /\ native' = [native EXCEPT !.left = @ - 1,
                                     !.sound = @ /\ kind \in {"text", "limit", "tool"}]
         /\ call' = IF kind = "tool" THEN [call EXCEPT ![native.turn] = "used"] ELSE call
    /\ UNCHANGED <<request, life, client, group, state, gen, stop, closer, shown>>

\* The tool ran or was refused; a refusal may stop the turn.
NativeToolResult ==
    /\ native.turn # 0 /\ call[native.turn] \in {"allow", "deny", "abort"}
    /\ Emits(Frame(native.turn, "toolresult", "tool"))
    /\ native' = [native EXCEPT !.stopping = @ \/ call[native.turn] = "abort"]
    /\ call' = [call EXCEPT ![native.turn] = "over"]
    /\ UNCHANGED <<request, life, client, group, state, gen, stop, closer, shown>>

NativeResult ==
    /\ native.turn # 0 /\ native.init
    /\ native.stopping \/ call[native.turn] \in {"none", "over"}
    /\ \E result \in {"ok", "error", "aborted"} :
         /\ Emits(Frame(native.turn, "result", result))
         /\ result = "aborted" <=> native.stopping
    /\ native' = Quiet(native)
    /\ UNCHANGED <<request, life, client, group, state, call, gen, stop, closer, shown>>

NativeDies ==
    /\ client = "up" /\ native.sound /\ life = "live"
    /\ client' \in {"failed", "ended"}
    /\ native' = [Quiet(native) EXCEPT !.sound = FALSE]
    /\ UNCHANGED <<request, life, group, wire, state, call, gen, stop, closer, shown>>

Native == NativeInit \/ NativeFrame \/ NativeToolResult \/ NativeResult \/ NativeDies

-----------------------------------------------------------------------------
Callbacks ==
    \E t \in Turns :
        \/ \E tool \in {"allowed", "denied"} : Ask(t, tool)
        \/ \E answer \in {"allow", "deny", "abort", "failed"} : Answer(t, answer)

Next ==
    \/ Open \/ StartTurn \/ Turn \/ Interrupt \/ Cancel
    \/ \E c \in Callers : StopClient(c)
    \/ CloseSession \/ Close \/ Callbacks \/ Native

Spec == Init /\ [][Next]_vars

(***************************************************************************)
(* Properties.                                                             *)
(***************************************************************************)
Statuses == {"succeeded", "cancelled", "quota", "backend_failed", "approval_unanswered",
             "output_limit"}
IsTerminal(e) == e.kind \in Statuses

\* A stream shows its own turn's messages and ends with at most one terminal:
\* nothing of an interrupted turn's tail, its result above all.
TurnIsOwn ==
    \A i \in DOMAIN shown :
        /\ shown[i].kind # "approval" => shown[i].of = gen.turn
        /\ IsTerminal(shown[i]) => i = Len(shown)

\* The decision about a tool is told before what the tool did, whichever task
\* made it; only a turn that was interrupted may be refused a tool silently.
GatedInOrder ==
    [][\A i \in DOMAIN shown' \ DOMAIN shown :
          shown'[i].kind = "toolresult" =>
              \/ stop["intr"].pc = "returned"
              \/ \E j \in 1 .. i - 1 : shown'[j] = [of |-> gen.turn, kind |-> "approval"]]_shown

\* While the session lives the caller is asked about a turn that is being
\* streamed, never about one that the CLI was told to stop.
AsksOwnTurn ==
    [][\A t \in Turns : life = "live" /\ call[t] # "host" /\ call'[t] = "host" =>
          /\ gen.turn = t /\ gen.pc # "idle"
          /\ stop["intr"].pc # "returned"]_call

\* A session that left the tables has no process, unless some teardown is
\* still at it; nor has one that was never published.
ReleasedIsReaped ==
    /\ life = "dead" /\ closer \in {"none", "done"} => client = "gone" /\ group = "reaped"
    /\ life = "refused" => client \in {"none", "gone"} /\ group # "owned"
=============================================================================
