---------------------------- MODULE CodexSession ----------------------------
(* A session of the Codex adapter over its connection: how it is opened, and *)
(* what the reader of each turn makes of the thread's messages: item         *)
(* lifecycles, callbacks and their replies, cumulative usage, the native     *)
(* terminal; and what close() keeps. CodexTurn has the submission of one     *)
(* turn and CodexClient the connection; here the turns of one thread follow  *)
(* each other and share its state. The app-server is external.               *)
EXTENDS Naturals, Sequences, FiniteSets

CONSTANTS
    Absent,
    Setups,       \* [open, contained, tools, controlled, emits], see Emits
    History,      \* tokens a restored thread has used before
    MaxTurns,     \* turns the host prepares
    MaxFrames,    \* messages the server sends
    MaxQueue,     \* messages that wait to be read
    MaxTokens     \* tokens a turn may use

ASSUME BoundsAssumption ==
    /\ {History, MaxTurns, MaxFrames, MaxQueue, MaxTokens} \subseteq Nat
    /\ Absent \notin Nat
    /\ \A setup \in Setups : setup.tools => setup.contained /\ setup.controlled

VARIABLES
    setup,        \* what the session was asked to be
    pc,           \* the adapter's place in opening the session and in its turn
    state,        \* _CodexSessionState, with its turn handle and its accounting
    replies,      \* the host's replies under way
    client,       \* the connection: [usable, inbox]
    native,       \* the server's thread
    charged       \* the usage of each turn's terminal, as its host sees it

vars == <<setup, pc, state, replies, client, native, charged>>

Turns == 1 .. MaxTurns

-----------------------------------------------------------------------------
(* _CodexUsageAccounting: a turn's share of counts that run over the thread. *)

Accounting(known, cumulative) ==
    [known |-> known, cumulative |-> cumulative, baseline |-> Absent, zero |-> FALSE,
     rebase |-> FALSE, seen |-> FALSE, advanced |-> FALSE, local |-> Absent,
     open |-> FALSE]

BeginTurn(u) ==
    [u EXCEPT !.open = TRUE, !.baseline = u.cumulative,
              !.zero = u.known /\ u.cumulative = Absent, !.rebase = ~ u.known,
              !.seen = FALSE, !.advanced = FALSE, !.local = Absent]

\* What one count is beyond another; counts never fall.
UsageDelta(n, baseline) == IF n < baseline THEN {} ELSE {n - baseline}

\* The first snapshot of a turn without a boundary is the boundary, and one
\* that stands still is no news.
Observe(u, n) ==
    IF ~ u.open \/ (u.cumulative # Absent /\ UsageDelta(n, u.cumulative) = {}) THEN {}
    ELSE IF u.rebase /\ ~ u.seen
    THEN {[u EXCEPT !.baseline = n, !.cumulative = n, !.seen = TRUE]}
    ELSE IF u.cumulative = n THEN {[u EXCEPT !.seen = TRUE]}
    ELSE IF u.cumulative = Absent /\ ~ u.zero THEN {}
    ELSE {[u EXCEPT !.cumulative = n, !.seen = TRUE, !.advanced = TRUE, !.local = used]
            : used \in IF u.zero THEN {n} ELSE UsageDelta(n, u.baseline)}

\* Mutant: every turn that ends leaves a boundary.
FinishTurnKnown(u) == [u EXCEPT !.open = FALSE, !.known = TRUE]

\* Only a snapshot that advanced proves where the turn ended.
FinishTurn(u) == [u EXCEPT !.open = FALSE, !.known = u.advanced]

AbandonTurn(u) == IF u.open THEN [u EXCEPT !.open = FALSE, !.known = FALSE] ELSE u

-----------------------------------------------------------------------------
(* Messages. A method stands for the notifications decoded alike; "type" is  *)
(* an item's type or a raw item's, "detail" a status, phase or verdict.      *)

\* Items that grant nothing, and those that do: a command, a file change and
\* their like ("native"), an MCP call, a custom and a dynamic tool call.
Inert == {"agentMessage", "userMessage", "reasoning"}
Authority == {"native", "mcp", "custom", "dynamic"}
TurnScoped == {"turn/started", "usage", "item/started", "item/completed", "activity",
               "hook", "raw", "diff", "error", "call", "request", "turn/completed"}

\* Messages the server may send, by its session's setup.
Emits(turn) == {[method |-> e[1], turn |-> turn, id |-> e[2], type |-> e[3], detail |-> e[4]]
                  : e \in setup.emits}

\* The messages that the decoder knows; others are "forbidden".
Known(method, type) ==
    \/ method \in TurnScoped \ {"usage", "item/started", "item/completed", "raw"}
    \/ method \in {"resolved", "process", "settings", "rerouted", "inert", "forbidden"}
    \/ method = "item/started" /\ type \in Inert \cup Authority
    \/ method = "item/completed" /\ type \in Inert \cup Authority \cup {"output"}
    \/ method = "raw" /\ type \in {"function_call", "function_call_output", "custom_tool_call"}
ASSUME EmitsAssumption ==
    \A asked \in Setups : \A e \in asked.emits : Known(e[1], e[3])

Usage(turn) == [method |-> "usage", turn |-> turn, id |-> Absent, type |-> "snapshot",
                detail |-> native.total]
Failure == [method |-> "failure", turn |-> 0, id |-> Absent, type |-> "", detail |-> ""]

\* A session and its first turn, as prepare_turn leaves them.
Cleared(usage, owed) ==
    [turnId |-> Absent, usage |-> usage, items |-> {}, tools |-> {}, mcp |-> {},
     custom |-> {}, unpublished |-> {}, requests |-> {}, done |-> {}, said |-> {},
     authority |-> FALSE, quota |-> FALSE,
     calls |-> {}, tokens |-> {}, inputs |-> {"prepared"}, minted |-> 0,
     owed |-> owed,         \* the connection's _dynamic_requests
     writer |-> FALSE, revoked |-> FALSE, terminal |-> Absent]

Granted(s) == {[s EXCEPT !.authority = TRUE]}
Owned == setup.controlled /\ setup.tools

-----------------------------------------------------------------------------
(* What one message makes of the session: the set of the one state it leaves, *)
(* empty when it is a protocol defect.                                       *)

StartTool(s, id, name) ==
    IF \E tool \in s.tools : tool.id = id THEN {}
    ELSE {[s EXCEPT !.tools = @ \cup {[id |-> id, name |-> name]}]}

RequireActiveTool(s, id, name) == [id |-> id, name |-> name] \in s.tools

CompleteTool(s, id, name) ==
    IF ~ RequireActiveTool(s, id, name) THEN {}
    ELSE {[s EXCEPT !.tools = @ \ {[id |-> id, name |-> name]}]}

\* A declared tool's item may be called back until it completes.
ToolStarted(s, m) ==
    IF m.detail # "declared" \/ \E call \in s.calls : call.id = m.id THEN {}
    ELSE {[s EXCEPT !.calls = @ \cup {[id |-> m.id, written |-> FALSE]}]}

\* A delivery of a callback mints a token of its own.
ToolCall(s, m) ==
    IF (\A call \in s.calls : call.id # m.type) \/ m.detail # "same" THEN {}
    ELSE {[s EXCEPT !.requests = @ \cup {m.id}, !.minted = @ + 1,
                    !.tokens = @ \cup {[token |-> s.minted + 1, call |-> m.type,
                                        request |-> m.id, attempted |-> FALSE]}]}

\* Mutant: a completed item does not retire its callbacks in the connection.
ToolCompletedOwing(s, m) ==
    LET own == {call \in s.calls : call.id = m.id}
        of == {t \in s.tokens : t.call = m.id}
    IN IF own = {} \/ (m.detail = "completed" /\ \E call \in own : ~ call.written) THEN {}
       ELSE {[s EXCEPT !.calls = @ \ own, !.tokens = @ \ of,
                       !.requests = @ \ {t.request : t \in of}]}

ToolCompleted(s, m) ==
    LET own == {call \in s.calls : call.id = m.id}
        of == {t \in s.tokens : t.call = m.id}
        asked == {t.request : t \in of}
    IN IF own = {} \/ (m.detail = "completed" /\ \E call \in own : ~ call.written) THEN {}
       ELSE {[s EXCEPT !.calls = @ \ own, !.tokens = @ \ of, !.requests = @ \ asked,
                       !.owed = @ \ asked]}

\* A custom call's tool goes by its call id, and outlives its item.
CustomCall(m) == [item |-> m.id, call |-> m.detail]

ItemStarted(s, m) ==
    LET started == [s EXCEPT !.items = @ \cup {[id |-> m.id, type |-> m.type]}]
        named == StartTool(started, IF m.type = "custom" THEN m.detail ELSE m.id, m.type)
    IN IF \/ \E item \in s.items : item.id = m.id
          \/ ~ setup.controlled /\ m.id \in s.done
       THEN {}
       ELSE CASE m.type \in Inert -> {started}
              [] m.type = "mcp" /\ m.detail # "allowed" -> {}
              [] m.type = "mcp" /\ m.detail = "allowed" ->
                   UNION {Granted([x EXCEPT !.mcp = @ \cup {m.id}]) : x \in named}
              [] m.type = "custom" ->
                   UNION {Granted([x EXCEPT !.custom = @ \cup {CustomCall(m)}]) : x \in named}
              [] m.type = "dynamic" /\ Owned -> UNION {ToolStarted(x, m) : x \in named}
              [] m.type = "dynamic" /\ ~ Owned -> UNION {Granted(x) : x \in named}
              [] m.type = "native" -> UNION {Granted(x) : x \in named}

\* A controlled turn keeps the last message of each eligible phase.
AgentMessage(s, m) ==
    IF setup.controlled /\ m.detail = "commentary" THEN s
    ELSE [s EXCEPT !.said = @ \cup {m.detail}]

InertCompleted(s, m) ==
    CASE m.type = "agentMessage" ->
           IF setup.controlled /\ s.turnId = Absent THEN {} ELSE {AgentMessage(s, m)}
      [] m.type = "userMessage" /\ setup.controlled ->
           IF s.turnId = Absent \/ m.detail \notin s.inputs THEN {}
           ELSE {[s EXCEPT !.inputs = @ \ {m.detail}]}
      [] OTHER -> {s}

CustomOutput(s, m) ==
    LET done == IF setup.controlled THEN s ELSE [s EXCEPT !.done = @ \cup {m.id}]
    IN IF ~ setup.controlled /\ m.id \in s.done THEN {}
       ELSE UNION {Granted(x) : x \in CompleteTool(done, m.id, "custom")}

ItemCompleted(s, m) ==
    LET item == [id |-> m.id, type |-> m.type]
        ended == [s EXCEPT !.items = {i \in @ : i.id # m.id},
                           !.done = IF setup.controlled THEN @ ELSE @ \cup {m.id}]
        Completed == CompleteTool(ended, m.id, m.type)
    IN IF \/ ~ setup.controlled /\ m.id \in s.done
          \/ \E i \in s.items : i.id = m.id /\ i # item
       THEN {}
       ELSE CASE m.type \in Inert -> InertCompleted(ended, m)
              [] m.type \in Authority /\ item \notin s.items -> {}
              [] m.type = "mcp" /\ item \in s.items ->
                   IF m.id \notin s.mcp THEN {}
                   ELSE UNION {Granted([x EXCEPT !.mcp = @ \ {m.id}]) : x \in Completed}
              [] m.type = "custom" /\ item \in s.items ->
                   IF CustomCall(m) \notin s.custom \/ ~ RequireActiveTool(s, m.detail, "custom")
                   THEN {} ELSE Granted([ended EXCEPT !.custom = @ \ {CustomCall(m)}])
              [] m.type = "dynamic" /\ Owned /\ item \in s.items ->
                   UNION {ToolCompleted(x, m) : x \in Completed}
              [] OTHER -> UNION {Granted(x) : x \in Completed}

\* Output, progress and patches belong to a live item.
Activity(s, m) == IF RequireActiveTool(s, m.id, m.type) THEN Granted(s) ELSE {}

\* Hooks and reviews live as tools without an item.
Hook(s, m) ==
    UNION {Granted(x) : x \in IF m.detail = "started" THEN StartTool(s, m.id, m.type)
                              ELSE CompleteTool(s, m.id, m.type)}

\* Mutant: any output of an unpublished call passes for its refusal.
RawItemTrusting(s, m) ==
    CASE m.type = "function_call" ->
           IF m.detail = "declared" THEN {s}
           ELSE {[s EXCEPT !.unpublished = @ \cup {m.id}]}
      [] m.type = "function_call_output" -> {[s EXCEPT !.unpublished = @ \ {m.id}]}
      [] m.type = "custom_tool_call" -> Granted(s)

\* A function the session never published is held until Codex's exact refusal.
RawItem(s, m) ==
    CASE m.type = "function_call" ->
           IF m.detail = "declared" THEN {s}
           ELSE {[s EXCEPT !.unpublished = @ \cup {m.id}]}
      [] m.type = "function_call_output" ->
           LET popped == [s EXCEPT !.unpublished = @ \ {m.id}]
           IN IF m.id \notin s.unpublished \/ m.detail = "refused" THEN {popped}
              ELSE Granted(popped)
      [] m.type = "custom_tool_call" -> Granted(s)

\* Requests the connection has already denied: an approval names a live tool,
\* a call that no host answers its own.
ServerRequest(s, m) ==
    IF \/ m.id \in s.requests
       \/ m.detail = "item" /\ ~ \E tool \in s.tools : tool.id = m.type
       \/ m.method = "call" /\ ~ RequireActiveTool(s, m.type, "dynamic")
    THEN {} ELSE Granted([s EXCEPT !.requests = @ \cup {m.id}])

Resolved(s, m) ==
    IF m.id \notin s.requests /\ ~ setup.controlled THEN {}
    ELSE {[s EXCEPT !.requests = @ \ {m.id}]}

\* The native terminal: nothing may be left open unless the turn was stopped
\* or failed, and a contained session must not have seen authority.
Terminal(status, usage, isNative) ==
    [status |-> status, usage |-> usage, native |-> isNative]

TurnTerminal(s, m) ==
    LET aborted == setup.controlled /\ m.detail \in {"interrupted", "failed"}
        authority == s.authority \/ s.unpublished # {}
        usage == FinishTurn(s.usage)
    IN IF \/ s.mcp # {}
          \/ ~ aborted /\ (s.items # {} \/ s.tools # {} \/ s.requests # {})
          \/ authority /\ setup.contained
          \/ m.detail = "completed" /\ s.said \cap {"final_answer", "unknown"} = {}
          \/ s.turnId = Absent
       THEN {}
       ELSE {[s EXCEPT !.authority = authority, !.usage = usage,
                       !.terminal = Terminal(m.detail, s.usage.local, TRUE)]}

\* A message of a turn carries that turn's id; before the first snapshot of a
\* turn without a boundary, one snapshot of an earlier turn may still come.
IdentityFits(s, m) ==
    CASE m.method = "usage" -> m.turn = s.turnId \/ (s.usage.rebase /\ ~ s.usage.seen)
      [] m.method \in TurnScoped \ {"usage"} -> m.turn = s.turnId
      [] OTHER -> TRUE

\* A contained turn hears of no input but what it was prepared with.
Foreign(s, m) ==
    /\ setup.contained /\ m.method \in {"item/started", "item/completed"}
    /\ m.type = "userMessage" /\ m.detail \notin s.inputs

\* "diff" is a patch of the working tree, "process" what a process of the
\* thread does: no item stands for them. Settings may only be repeated.
NotificationEvent(s, m) ==
    CASE m.method = "item/started" -> ItemStarted(s, m)
      [] m.method = "item/completed" ->
           IF m.type = "output" THEN CustomOutput(s, m) ELSE ItemCompleted(s, m)
      [] m.method = "activity" -> Activity(s, m)
      [] m.method = "hook" -> Hook(s, m)
      [] m.method = "raw" -> RawItem(s, m)
      [] m.method = "usage" -> {[s EXCEPT !.usage = u] : u \in Observe(s.usage, m.detail)}
      [] m.method \in {"diff", "process"} -> Granted(s)
      [] m.method = "resolved" -> Resolved(s, m)
      [] m.method = "error" -> {[s EXCEPT !.quota = @ \/ m.detail = "quota"]}
      [] m.method = "settings" -> IF m.detail = "same" THEN {s} ELSE {}
      [] m.method = "rerouted" -> IF setup.contained THEN {} ELSE {s}
      [] m.method \in {"turn/started", "inert"} -> {s}
      [] m.method \in {"forbidden", "failure"} -> {}

NotificationEvents(s, m) ==
    IF ~ IdentityFits(s, m) \/ Foreign(s, m) THEN {}
    ELSE CASE m.method = "call" /\ Owned -> ToolCall(s, m)
           [] m.method = "request" \/ (m.method = "call" /\ ~ Owned) -> ServerRequest(s, m)
           [] m.method = "turn/completed" -> TurnTerminal(s, m)
           [] OTHER -> NotificationEvent(s, m)

\* _accept: the evidence names one turn, and none before a possible writer.
Accepts(s, turn) == s.turnId \in {Absent, turn} /\ s.writer

\* What the reader makes of a message: a turn without an identity takes that
\* of the first message of a turn.
Bound(s, m) ==
    IF s.turnId = Absent /\ m.method \in TurnScoped THEN [s EXCEPT !.turnId = m.turn] ELSE s

Heard(s, m) ==
    LET bound == Bound(s, m)
        proves == m.method \in {"turn/started", "call", "turn/completed"}
    IN {x \in NotificationEvents(bound, m) : proves => Accepts(x, x.turnId)}

-----------------------------------------------------------------------------
(* Opening a session.                                                        *)

Init ==
    /\ setup \in Setups
    /\ pc = "connect"
    /\ state = Cleared(Accounting(FALSE, Absent), {})
    /\ replies = {}
    /\ client = [usable |-> FALSE, inbox |-> <<>>]
    /\ native = [total |-> IF setup.open = "new" THEN 0 ELSE History, turn |-> 0,
                 began |-> <<>>, ended |-> <<>>, items |-> {}, calls |-> {}, asked |-> {},
                 ran |-> FALSE, shown |-> <<>>, frames |-> 0, replayed |-> setup.open = "new"]
    /\ charged = [t \in Turns |-> Absent]

\* Any step of the opening may fail, or its caller be cancelled: the client is
\* closed and no session is left.
OpenFails ==
    /\ pc \in {"connect", "auth", "config", "thread"}
    /\ pc' = "gone"
    /\ client' = [client EXCEPT !.usable = FALSE]
    /\ UNCHANGED <<setup, state, replies, native, charged>>

OpenClient ==
    /\ pc = "connect"
    /\ pc' = "auth"
    /\ client' = [client EXCEPT !.usable = TRUE]
    /\ UNCHANGED <<setup, state, replies, native, charged>>

VerifyAuth ==
    /\ pc = "auth" /\ client.usable
    /\ pc' = IF setup.contained THEN "config" ELSE "thread"
    /\ UNCHANGED <<setup, state, replies, client, native, charged>>

CheckContainment ==
    /\ pc = "config" /\ client.usable
    /\ pc' = "thread"
    /\ UNCHANGED <<setup, state, replies, client, native, charged>>

\* What waits before a turn: inert notifications and snapshots of the thread,
\* which never fall; the last is what the thread had used.
Snapshots == {i \in DOMAIN client.inbox : client.inbox[i].method = "usage"}
PreturnFits ==
    /\ \A i \in DOMAIN client.inbox :
         LET m == client.inbox[i] IN
         m.method \in {"inert", "usage"} \/ (m.method = "settings" /\ m.detail = "same")
    /\ \A i, j \in Snapshots : i < j => client.inbox[i].detail <= client.inbox[j].detail
RestoredUsage ==
    LET latest == {i \in Snapshots : \A j \in Snapshots : j <= i}
    IN IF latest = {} THEN Absent ELSE client.inbox[CHOOSE i \in latest : TRUE].detail

\* The thread is started, resumed or forked; its identity fits, its replay is
\* taken as the boundary, and the session is registered.
OpenThread ==
    /\ pc = "thread" /\ client.usable /\ PreturnFits
    /\ setup.open = "new" => RestoredUsage = Absent
    /\ pc' = "idle"
    /\ state' = Cleared(Accounting(setup.open = "new" \/ RestoredUsage # Absent, RestoredUsage), {})
    /\ client' = [client EXCEPT !.inbox = <<>>]
    /\ UNCHANGED <<setup, replies, native, charged>>

-----------------------------------------------------------------------------
(* A turn: prepared, submitted, read, closed.                                *)

\* prepare_turn drains what waits (its snapshots only checked), and clears the
\* state of the turn before. Tokens are never minted again.
PrepareTurn ==
    /\ pc = "idle" /\ client.usable /\ Len(native.began) < MaxTurns
    /\ client' = [client EXCEPT !.inbox = <<>>]
    /\ IF PreturnFits /\ ~ state.usage.open
       THEN /\ pc' = "prepared"
            /\ state' = [Cleared(BeginTurn(state.usage), state.owed) EXCEPT !.minted = state.minted]
       ELSE UNCHANGED <<pc, state>>
    /\ UNCHANGED <<setup, replies, native, charged>>

\* submit starts the sender and the reader.
Submit ==
    /\ pc = "prepared" /\ ~ state.revoked
    /\ pc' = "reading"
    /\ UNCHANGED <<setup, state, replies, client, native, charged>>

\* The sender enters the writer: the server may begin the turn.
EnterWriter ==
    /\ pc = "reading" /\ ~ state.writer /\ ~ state.revoked /\ client.usable
    /\ state' = [state EXCEPT !.writer = TRUE]
    /\ native' = [native EXCEPT !.turn = Len(native.began) + 1,
                                !.began = Append(@, native.total),
                                !.ended = Append(@, Absent),
                                !.shown = Append(@, native.total), !.ran = FALSE,
                                !.items = {}, !.calls = {}, !.asked = {}]
    /\ UNCHANGED <<setup, pc, replies, client, charged>>

\* turn/start is answered; an answer that names another turn closes the client.
Acknowledge ==
    /\ pc = "reading" /\ state.writer /\ client.usable
    /\ IF Accepts(state, Len(native.began))
       THEN /\ state' = [state EXCEPT !.turnId = Len(native.began)]
            /\ UNCHANGED client
       ELSE /\ client' = [client EXCEPT !.usable = FALSE, !.inbox = Append(@, Failure)]
            /\ UNCHANGED state
    /\ UNCHANGED <<setup, pc, replies, native, charged>>

\* The reader ends; one that ends before the writer revokes the turn.
Ends(s) ==
    /\ pc' = "ended"
    /\ state' = IF s.writer THEN s ELSE [s EXCEPT !.revoked = TRUE]

Read ==
    /\ pc = "reading" /\ client.inbox # <<>>
    /\ client' = [client EXCEPT !.inbox = Tail(@)]
    /\ LET m == Head(client.inbox)
           heard == Heard(state, m)
       IN \/ /\ heard = {}
             /\ Ends([Bound(state, m) EXCEPT
                        !.items = IF m.method # "item/started" THEN @
                                  ELSE @ \cup {[id |-> m.id, type |-> m.type]},
                        !.requests = IF m.method \notin {"call", "request"} THEN @
                                     ELSE @ \cup {m.id},
                        !.usage = IF m.method # "turn/completed"
                                    \/ NotificationEvents(Bound(state, m), m) = {} THEN @
                                  ELSE FinishTurn(@)])
             /\ UNCHANGED charged
          \/ \E s \in heard :
               IF m.method = "turn/completed"
               THEN /\ Ends(s)
                    /\ charged' = [charged EXCEPT ![Len(native.began)] = s.terminal.usage]
               ELSE /\ state' = s
                    /\ UNCHANGED <<pc, charged>>
    /\ UNCHANGED <<setup, replies, native>>

\* The turn's deadline: after a possible writer it ends in a local stop.
TimesOut ==
    /\ pc = "reading"
    /\ IF state.writer
       THEN /\ Ends([state EXCEPT !.terminal = Terminal("failed", state.usage.local, FALSE),
                                  !.usage = FinishTurn(@)])
            /\ charged' = [charged EXCEPT ![Len(native.began)] = state.usage.local]
       ELSE Ends(state) /\ UNCHANGED charged
    /\ UNCHANGED <<setup, replies, client, native>>

\* close() revokes, waits a while for the reader, then cancels it.
Revoke ==
    /\ pc \in {"prepared", "reading", "ended"} /\ ~ state.revoked
    /\ state' = [state EXCEPT !.revoked = TRUE]
    /\ UNCHANGED <<setup, pc, replies, client, native, charged>>

CancelReader ==
    /\ pc = "reading" /\ state.revoked
    /\ Ends(state)
    /\ UNCHANGED <<setup, replies, client, native, charged>>

\* A session is kept only if its connection is usable, nothing is open, and
\* what may have been written ended natively.
NeedsDiscard ==
    \/ ~ client.usable
    \/ state.items # {} \/ state.tools # {} \/ state.requests # {}
    \/ state.writer /\ (state.terminal = Absent \/ ~ state.terminal.native)

Close ==
    /\ pc \in {"prepared", "ended"} /\ state.revoked
    /\ pc' = IF NeedsDiscard THEN "gone" ELSE "idle"
    /\ client' = [client EXCEPT !.usable = @ /\ ~ NeedsDiscard]
    /\ state' = [state EXCEPT !.usage = AbandonTurn(@)]
    /\ UNCHANGED <<setup, replies, native, charged>>

\* close_session, or the adapter's own close, at any time.
CloseSession ==
    /\ pc \in {"idle", "prepared", "reading", "ended"} /\ client.usable
    /\ client' = [usable |-> FALSE, inbox |-> Append(client.inbox, Failure)]
    /\ pc' = IF pc = "idle" THEN "gone" ELSE pc
    /\ UNCHANGED <<setup, state, replies, native, charged>>

-----------------------------------------------------------------------------
(* The host's replies to callbacks.                                          *)

Live == pc = "reading" /\ ~ state.revoked

\* reply: a token is good for one attempt, and only while its request waits in
\* the connection.
ReplyCalls ==
    /\ Live
    /\ \E t \in state.tokens :
         /\ ~ t.attempted
         /\ state' = [state EXCEPT !.tokens = (@ \ {t}) \cup {[t EXCEPT !.attempted = TRUE]}]
         /\ replies' = IF t.request \notin state.owed THEN replies
                       ELSE replies \cup {[token |-> t.token, call |-> t.call,
                                           request |-> t.request, stage |-> "waiting"]}
    /\ UNCHANGED <<setup, pc, client, native, charged>>

\* Under the write lock: the turn and the item must still live. A reply of an
\* earlier turn has lost its authority with the turn, and its token.
ReplyEnters ==
    /\ \E r \in replies :
         /\ r.stage = "waiting"
         /\ IF /\ Live /\ client.usable
               /\ \E t \in state.tokens : t.token = r.token
               /\ \E call \in state.calls : call.id = r.call
            THEN /\ state' = [state EXCEPT
                                !.calls = {IF call.id = r.call THEN [call EXCEPT !.written = TRUE]
                                           ELSE call : call \in @}]
                 /\ replies' = (replies \ {r}) \cup {[r EXCEPT !.stage = "sending"]}
            ELSE replies' = replies \ {r} /\ UNCHANGED state
    /\ UNCHANGED <<setup, pc, client, native, charged>>

\* The reply is sent: the callback is retired everywhere.
ReplySent ==
    /\ \E r \in replies :
         /\ r.stage = "sending" /\ client.usable
         /\ replies' = replies \ {r}
         /\ native' = [native EXCEPT !.asked = {a \in @ : a.request # r.request}]
         /\ state' = [state EXCEPT !.owed = @ \ {r.request}, !.requests = @ \ {r.request},
                                   !.tokens = {t \in @ : t.token # r.token}]
    /\ UNCHANGED <<setup, pc, client, charged>>

\* It times out or its connection fails; what was being sent may have arrived.
ReplyFails ==
    /\ \E r \in replies :
         /\ replies' = replies \ {r}
         /\ native' \in {native} \cup
              IF r.stage = "waiting" THEN {}
              ELSE {[native EXCEPT !.asked = {a \in @ : a.request # r.request}]}
    /\ UNCHANGED <<setup, pc, state, client, charged>>

-----------------------------------------------------------------------------
(* The server and its thread.                                                *)

Reports(m) ==
    /\ client.usable /\ Len(client.inbox) < MaxQueue /\ native.frames < MaxFrames
    /\ client' = [client EXCEPT !.inbox = Append(@, m)]
    /\ UNCHANGED <<setup, pc, replies, charged>>

\* The turn uses tokens.
Spends ==
    /\ native.turn # 0 /\ native.total < native.began[native.turn] + MaxTokens
    /\ native' = [native EXCEPT !.total = @ + 1]
    /\ UNCHANGED <<setup, pc, state, replies, client, charged>>

\* A snapshot of what the thread has used, of the turn that runs; one that
\* comes late, of the turn before; or the replay of a restored thread, before
\* its first turn is over.
Snapshot ==
    \/ /\ native.turn # 0
       /\ Reports(Usage(native.turn))
       /\ native' = [native EXCEPT !.frames = @ + 1, !.shown[native.turn] = native.total]
       /\ UNCHANGED state
    \/ /\ native.turn = 0 /\ native.began # <<>>
       /\ Reports(Usage(Len(native.began)))
       /\ native' = [native EXCEPT !.frames = @ + 1]
       /\ UNCHANGED state
    \/ /\ ~ native.replayed /\ pc # "connect"
       /\ native.began # <<>> => native.ended[1] = Absent
       /\ Reports([Usage(0) EXCEPT !.detail = History])
       /\ native' = [native EXCEPT !.frames = @ + 1, !.replayed = TRUE]
       /\ UNCHANGED state

\* The ghost of a message: what the server has open, and what it has run that
\* nobody granted it.
Item(m) == [id |-> m.id, type |-> m.type]
AfterReport(m) ==
    LET sent == [native EXCEPT !.frames = @ + 1]
    IN CASE m.method = "item/started" ->
              [sent EXCEPT !.items = @ \cup {Item(m)},
                           !.ran = @ \/ (m.type \in Authority /\ ~ (Owned /\ m.type = "dynamic"))]
         [] m.method = "item/completed" ->
              [sent EXCEPT !.items = @ \ {Item(m)},
                           !.asked = {a \in @ : a.item # m.id}]
         [] m.method \in {"activity", "hook", "diff", "process"} -> [sent EXCEPT !.ran = TRUE]
         [] m.method = "raw" /\ m.type = "custom_tool_call" -> [sent EXCEPT !.ran = TRUE]
         [] m.method = "raw" /\ m.type = "function_call" /\ m.detail = "unpublished" ->
              [sent EXCEPT !.calls = @ \cup {m.id}]
         [] m.method = "raw" /\ m.type = "function_call_output" ->
              [sent EXCEPT !.ran = @ \/ (m.detail = "output" /\ m.id \in native.calls),
                           !.calls = @ \ {m.id}]
         [] m.method = "call" /\ setup.tools ->
              [sent EXCEPT !.asked = @ \cup {[request |-> m.id, item |-> m.type]}]
         [] m.method = "resolved" -> [sent EXCEPT !.asked = {a \in @ : a.request # m.id}]
         [] m.method = "turn/completed" ->
              [sent EXCEPT !.ended[native.turn] = native.total, !.turn = 0,
                           !.ran = @ \/ native.calls # {}]
         [] OTHER -> sent

\* A message of the turn; the connection keeps the callbacks that pass it.
Emit ==
    /\ native.turn # 0
    /\ \E m \in Emits(native.turn) :
         /\ Reports(m)
         /\ native' = AfterReport(m)
         /\ state' = [state EXCEPT
                        !.owed = CASE m.method = "call" /\ setup.tools -> @ \cup {m.id}
                                   [] m.method = "resolved" -> @ \ {m.id}
                                   [] OTHER -> @]

\* Between turns: what concerns the thread only, and what never should come.
EmitIdle ==
    /\ native.turn = 0 /\ pc # "connect"
    /\ \E m \in Emits(0) :
         m.method \in {"inert", "forbidden", "process", "settings", "rerouted"} /\ Reports(m)
    /\ native' = [native EXCEPT !.frames = @ + 1]
    /\ UNCHANGED state

Drops ==
    /\ pc \in {"idle", "prepared", "reading", "ended"} /\ client.usable
    /\ client' = [usable |-> FALSE, inbox |-> Append(client.inbox, Failure)]
    /\ UNCHANGED <<setup, pc, state, replies, native, charged>>

-----------------------------------------------------------------------------
Next ==
    \/ OpenClient \/ VerifyAuth \/ CheckContainment \/ OpenThread \/ OpenFails
    \/ PrepareTurn \/ Submit \/ EnterWriter \/ Acknowledge \/ Read \/ TimesOut
    \/ Revoke \/ CancelReader \/ Close \/ CloseSession
    \/ ReplyCalls \/ ReplyEnters \/ ReplySent \/ ReplyFails
    \/ Spends \/ Snapshot \/ Emit \/ EmitIdle \/ Drops

Spec == Init /\ [][Next]_vars

-----------------------------------------------------------------------------
(* What holds of every session.                                              *)

\* A turn is charged its own tokens only: never the history of a restored
\* thread, and of an earlier turn at most what that turn used after the last
\* snapshot it was itself charged by.
Floor(t) ==
    IF t > 1 /\ charged[t - 1] # Absent THEN native.shown[t - 1] ELSE native.began[t]
UsageIsOwn ==
    \A t \in DOMAIN native.began :
        charged[t] # Absent =>
            charged[t] + Floor(t)
                <= IF native.ended[t] = Absent THEN native.total ELSE native.ended[t]

\* A session that is kept for another turn owes the server nothing and the
\* server has nothing open in it: no turn, no item, no callback unanswered, and
\* none that the connection would still let a host answer.
SurvivorOwesNothing ==
    (pc = "idle" /\ client.usable) =>
        /\ native.turn = 0 /\ native.items = {} /\ native.asked = {}
        /\ state.owed = {}

\* A contained session that accepts a native terminal has run nothing in that
\* turn but the declared tools: no item, no raw call that was not refused.
ContainedRunsNothing ==
    (setup.contained /\ state.terminal # Absent /\ state.terminal.native) => ~ native.ran

=============================================================================
