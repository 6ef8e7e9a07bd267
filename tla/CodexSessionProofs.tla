------------------------- MODULE CodexSessionProofs -------------------------
(***************************************************************************)
(* Theorems about CodexSession, for any number of turns and messages and    *)
(* any setups: a session that is kept owes nothing, a contained one has run *)
(* nothing, and a turn is charged its own tokens.                           *)
(*                                                                          *)
(* The server's own account of a turn runs ahead of what the reader knows   *)
(* by the messages that wait; the invariant says, for each thing the server *)
(* has open, that the reader knows of it or will hear of it.                *)
(***************************************************************************)
EXTENDS CodexSession, SequenceTheorems, TLAPS

Box == client.inbox
Quiet == {"usage", "inert", "forbidden", "process", "settings", "rerouted", "failure"}
IsOver(m) == m.method = "turn/completed"

\* A turn may have been written, and its handle is not closed.
Writing == pc \in {"reading", "ended"} /\ state.writer
Streaming == pc = "reading" /\ state.writer
Sealed == state.terminal # Absent /\ state.terminal.native

Emissions == UNION {asked.emits : asked \in Setups}
Ids == {e[2] : e \in Emissions} \cup {Absent}
Types == {e[3] : e \in Emissions} \cup {"snapshot", ""}
Details == {e[4] : e \in Emissions} \cup Nat \cup {""}
Methods ==
    TurnScoped \cup {"resolved", "process", "settings", "rerouted", "inert", "forbidden", "failure"}
Message ==
    {m \in [method : Methods, turn : Nat, id : Ids, type : Types, detail : Details] :
        /\ m.method = "usage" => m.detail \in Nat
        /\ m.method \notin {"usage", "failure"} => Known(m.method, m.type)}

Token == [token : Nat, call : Types, request : Ids, attempted : BOOLEAN]
Reply == [token : Nat, call : Types, request : Ids, stage : {"waiting", "sending"}]
Count == Nat \cup {Absent}

StateFields ==
    {"turnId", "usage", "items", "tools", "mcp", "custom", "unpublished", "requests",
     "done", "said", "authority", "quota", "calls", "tokens", "inputs", "minted", "owed",
     "writer", "revoked", "terminal"}
Shaped(s) ==
    /\ DOMAIN s = StateFields
    /\ s.authority \in BOOLEAN /\ s.writer \in BOOLEAN /\ s.minted \in Nat

SessionType ==
    /\ setup \in Setups
    /\ pc \in {"connect", "auth", "config", "thread", "idle", "prepared", "reading",
               "ended", "gone"}
    /\ client \in [usable : BOOLEAN, inbox : Seq(Message)]
NativeType ==
    native \in [total : Nat, turn : Nat, began : Seq(Nat), ended : Seq(Count),
                items : SUBSET [id : Ids, type : Types], calls : SUBSET Ids,
                asked : SUBSET [request : Ids, item : Types], ran : BOOLEAN,
                shown : Seq(Nat), frames : Nat, replayed : BOOLEAN]
HostType ==
    /\ state.calls \subseteq [id : Ids, written : BOOLEAN]
    /\ state.tokens \subseteq Token /\ replies \subseteq Reply

TypeOK == SessionType /\ NativeType /\ Shaped(state) /\ HostType
-----------------------------------------------------------------------------
(* Where things are on their way: at a place of the queue, with nothing said *)
(* of them behind it.                                                        *)

BeforeEnd(i) == \A j \in DOMAIN Box : j < i => ~ IsOver(Box[j])
Completes(m, id) == m.method = "item/completed" /\ m.id = id
Starts(m, x) == m.method = "item/started" /\ m.id = x.id /\ m.type = x.type
Calls(m) == m.method = "call"
Asks(m, f) ==
    m.method = "raw" /\ m.type = "function_call" /\ m.detail # "declared" /\ m.id = f
Answers(m, f) == m.method = "raw" /\ m.type = "function_call_output" /\ m.id = f

\* A message that grants authority whatever came before it.
Acts(m) ==
    \/ m.method \in {"activity", "hook", "diff", "process"}
    \/ m.method = "raw" /\ m.type = "custom_tool_call"
    \/ m.method = "item/started" /\ m.type \in Authority /\ ~ (Owned /\ m.type = "dynamic")

\* An item is open: its start waits, or is known, and nothing completes it.
ItemOpen(x) ==
    \/ \E i \in DOMAIN Box :
         /\ Starts(Box[i], x) /\ BeforeEnd(i)
         /\ \A j \in DOMAIN Box : j > i => ~ (Completes(Box[j], x.id) /\ Box[j].type = x.type)
    \/ /\ x \in state.items
       /\ \A j \in DOMAIN Box : ~ (Completes(Box[j], x.id) /\ Box[j].type = x.type)

\* A callback waits, or its item is open.
CallOpen(a) ==
    \/ \E i \in DOMAIN Box :
         /\ Calls(Box[i]) /\ Box[i].type = a.item /\ BeforeEnd(i)
         /\ \A j \in DOMAIN Box : j > i => ~ Completes(Box[j], a.item)
    \/ /\ \E x \in state.items : x.id = a.item
       /\ \A j \in DOMAIN Box : ~ Completes(Box[j], a.item)

Owes(request) ==
    \/ \E i \in DOMAIN Box : Calls(Box[i]) /\ Box[i].id = request /\ BeforeEnd(i)
    \/ \E t \in state.tokens : t.request = request

\* A function that was never published is called, and its answer is due.
FunctionOpen(f) ==
    \/ \E i \in DOMAIN Box :
         /\ Asks(Box[i], f) /\ BeforeEnd(i)
         /\ \A j \in DOMAIN Box : j > i => ~ Answers(Box[j], f)
    \/ f \in state.unpublished /\ \A j \in DOMAIN Box : ~ Answers(Box[j], f)

\* The answer at i is that of a function that ran.
Ran(i) ==
    /\ Answers(Box[i], Box[i].id) /\ Box[i].detail # "refused"
    /\ \/ \E k \in DOMAIN Box :
            /\ k < i /\ Asks(Box[k], Box[i].id)
            /\ \A j \in DOMAIN Box : k < j /\ j < i => ~ Answers(Box[j], Box[i].id)
       \/ /\ Box[i].id \in state.unpublished
          /\ \A j \in DOMAIN Box : j < i => ~ Answers(Box[j], Box[i].id)

WillAct == \E i \in DOMAIN Box : BeforeEnd(i) /\ (Acts(Box[i]) \/ Ran(i))
-----------------------------------------------------------------------------
(* The inductive invariant.                                                  *)

\* Outside of a turn the server has nothing of this session.
Calm ==
    pc # "gone" /\ ~ Writing =>
        /\ native.turn = 0 /\ native.items = {} /\ native.asked = {} /\ state.owed = {}
        /\ \A i \in DOMAIN Box : Box[i].method \in Quiet

\* A turn has one end, and nothing of it follows.
InOrder ==
    /\ pc \in {"prepared", "reading"} => state.terminal = Absent
    /\ pc = "prepared" => ~ state.writer
    /\ Streaming =>
        /\ native.turn # 0 => \A i \in DOMAIN Box : ~ IsOver(Box[i])
        /\ \A i, j \in DOMAIN Box : i < j /\ IsOver(Box[i]) => Box[j].method \in Quiet
    /\ pc = "ended" /\ Sealed =>
        /\ native.turn = 0
        /\ \A i \in DOMAIN Box : Box[i].method \in Quiet

\* The callbacks that the session knows are of items that it has open.
Callbacks ==
    /\ \A call \in state.calls : [id |-> call.id, type |-> "dynamic"] \in state.items
    /\ \A t \in state.tokens : [id |-> t.call, type |-> "dynamic"] \in state.items
    /\ ~ Owned => /\ state.calls = {} /\ state.tokens = {}
                 /\ native.asked = {} /\ state.owed = {}

\* A token stands for one request.
Tokens ==
    /\ \A t \in state.tokens : t.token \in Nat /\ t.token <= state.minted
    /\ \A r \in replies : r.token \in Nat /\ r.token <= state.minted
    /\ pc \in {"connect", "auth", "config", "thread"} => replies = {}
    /\ \A t, u \in state.tokens : t.token = u.token => t.request = u.request
    /\ \A r \in replies : \A t \in state.tokens : t.token = r.token => t.request = r.request

\* What the server has open, while the turn is read and once it is over.
Followed ==
    Streaming =>
        /\ \A x \in native.items : ItemOpen(x)
        /\ \A a \in native.asked : CallOpen(a)
        /\ \A request \in state.owed : Owes(request)
Settled ==
    pc = "ended" /\ Sealed =>
        /\ native.items \subseteq state.items
        /\ \A a \in native.asked : \E x \in state.items : x.id = a.item
        /\ \A request \in state.owed : \E t \in state.tokens : t.request = request

\* Whatever ran, the reader knows of it or will.
Contained ==
    setup.contained =>
        /\ Streaming /\ native.turn # 0 => \A f \in native.calls : FunctionOpen(f)
        /\ Streaming /\ native.ran =>
            \/ state.authority \/ WillAct
            \/ native.turn = 0 /\ \E f \in native.calls : FunctionOpen(f)
        /\ Sealed => pc \in {"ended", "idle", "gone"} /\ native.turn = 0 /\ ~ native.ran

Inv == TypeOK /\ Calm /\ InOrder /\ Callbacks /\ Tokens /\ Followed /\ Settled /\ Contained

-----------------------------------------------------------------------------
(* The counts: what the thread has used, and what the reader makes of it.    *)

Last == Len(native.began)
Initial == IF setup.open = "new" THEN 0 ELSE History
Opening == pc \in {"connect", "auth", "config", "thread"}
Submitting == pc \in {"prepared", "reading"} /\ ~ state.writer
Accounts ==
    [known : BOOLEAN, cumulative : Count, baseline : Count, zero : BOOLEAN, rebase : BOOLEAN,
     seen : BOOLEAN, advanced : BOOLEAN, local : Count, open : BOOLEAN]

Counted ==
    /\ state.usage \in Accounts /\ charged \in [Turns -> Count]
    /\ Len(native.ended) = Last /\ Len(native.shown) = Last /\ Last <= MaxTurns
    /\ Opening => Last = 0
    /\ Submitting => Last < MaxTurns
    /\ state.writer => Last > 0
    /\ \A t \in Turns : t > Last => charged[t] = Absent

\* The thread's count, and the turn that it stands still after.
Total ==
    /\ native.turn # 0 => native.turn = Last
    /\ \A t \in DOMAIN native.ended : native.ended[t] = Absent <=> t = native.turn
    /\ native.turn = 0 /\ Last > 0 => native.ended[Last] = native.total
    /\ \A t \in DOMAIN native.began : native.began[t] <= native.total
    /\ \A t \in DOMAIN native.shown : native.shown[t] <= native.total
    /\ \A t \in DOMAIN native.shown : t < Last => native.shown[t] <= native.began[t + 1]
    /\ IF Last = 0 THEN native.total = Initial ELSE native.began[1] = Initial
    /\ ~ native.replayed => setup.open # "new"

\* The snapshots that wait are of the turn that is read, or of its start.
Snapped(m) == m.method = "usage"
Waiting ==
    \A i \in DOMAIN Box : Snapped(Box[i]) =>
        /\ Box[i].detail <= native.total
        /\ Streaming => Box[i].detail >= native.began[Last]
        /\ Last = 0 \/ Submitting => Box[i].detail = native.total

\* The floor of the turn that is read, or is to be, and where it starts.
Due ==
    IF state.writer THEN Floor(Last)
    ELSE IF Last > 0 /\ charged[Last] # Absent THEN native.shown[Last] ELSE native.total
Start == IF state.writer THEN native.began[Last] ELSE native.total

\* What is counted from where, once that is known.
Sure(u) == ~ u.zero /\ (~ u.rebase \/ u.seen)
Account(u, due, start, total) ==
    /\ u.open /\ ~ (u.zero /\ u.rebase)
    /\ u.zero => due = 0
    /\ Sure(u) => u.baseline # Absent /\ u.baseline >= due
    /\ u.local # Absent => u.local + due <= total
    /\ u.seen => u.cumulative # Absent /\ u.cumulative >= start
    /\ u.advanced => u.seen /\ u.local # Absent
Accounted ==
    /\ state.usage.cumulative # Absent => state.usage.cumulative <= native.total
    /\ pc \in {"prepared", "reading"} => Account(state.usage, Due, Start, native.total)

\* A snapshot of the turn that was sent is known, or waits before its end.
Reached(n) == state.usage.cumulative # Absent /\ state.usage.cumulative >= n
Awaited(n) ==
    \E i \in DOMAIN Box : Snapped(Box[i]) /\ BeforeEnd(i) /\ Box[i].detail >= n
Shown ==
    Streaming =>
        \/ native.shown[Last] = native.began[Last]
        \/ Reached(native.shown[Last]) \/ Awaited(native.shown[Last])

\* What a kept session knows is where its thread stood.
Kept == pc = "idle" \/ (pc = "ended" /\ (state.writer => Sealed) /\ ~ state.usage.open)
Boundary ==
    Kept /\ state.usage.known =>
        IF Last > 0 THEN charged[Last] # Absent /\ Reached(native.shown[Last])
        ELSE IF state.usage.cumulative = Absent THEN setup.open = "new"
        ELSE state.usage.cumulative = native.total

UsageInv == Counted /\ Total /\ Waiting /\ Accounted /\ Shown /\ Boundary /\ UsageIsOwn

-----------------------------------------------------------------------------
(* What the reader makes of one message.                                     *)

\* Nothing changes that the server has a part in.
Agree(s, x) ==
    /\ Shaped(x)
    /\ x.items = s.items /\ x.calls = s.calls /\ x.tokens = s.tokens
    /\ x.minted = s.minted /\ x.owed = s.owed /\ x.unpublished = s.unpublished
    /\ x.usage = s.usage /\ x.writer = s.writer /\ x.terminal = s.terminal
    /\ s.authority => x.authority

\* Changes that agree with what a message means add up.
LEMMA AgreeTransitive ==
    ASSUME NEW s, NEW x, NEW y, Agree(s, x), Agree(x, y) PROVE Agree(s, y)
BY DEF Agree

\* Granting authority is no news of an item.
LEMMA GrantedAgrees ==
    ASSUME NEW s, Shaped(s), NEW x \in Granted(s) PROVE Agree(s, x) /\ x.authority
BY DEF Granted, Agree, Shaped, StateFields

\* Opening a tool leaves the items and callbacks alone.
LEMMA StartToolAgrees ==
    ASSUME NEW s, Shaped(s), NEW id, NEW name, NEW x \in StartTool(s, id, name)
    PROVE  Agree(s, x)
<1>1. x = [s EXCEPT !.tools = @ \cup {[id |-> id, name |-> name]}]
  BY DEF StartTool
<1> QED BY <1>1 DEF Agree, Shaped, StateFields

\* So does closing one.
LEMMA CompleteToolAgrees ==
    ASSUME NEW s, Shaped(s), NEW id, NEW name, NEW x \in CompleteTool(s, id, name)
    PROVE  Agree(s, x)
<1>1. x = [s EXCEPT !.tools = @ \ {[id |-> id, name |-> name]}]
  BY DEF CompleteTool
<1> QED BY <1>1 DEF Agree, Shaped, StateFields

\* So does binding the turn's id.
LEMMA BoundAgrees ==
    ASSUME NEW s, Shaped(s), NEW m
    PROVE  Agree(s, Bound(s, m)) /\ Bound(s, m).authority = s.authority
BY DEF Bound, Agree, Shaped, StateFields

\* A message that acts grants authority in whatever state it is heard.
LEMMA ActsAgree ==
    ASSUME NEW s, Shaped(s), NEW m, NEW x \in NotificationEvents(s, m),
           m.method \in {"activity", "hook", "diff", "process"}
    PROVE  Agree(s, x) /\ x.authority
<1>1. x \in NotificationEvent(s, m)
  BY DEF NotificationEvents
<1>2. CASE m.method \in {"diff", "process"}
  <2>1. x \in Granted(s)
    BY <1>1, <1>2 DEF NotificationEvent
  <2> QED BY <2>1, GrantedAgrees
<1>3. CASE m.method = "activity"
  <2>1. x \in Granted(s)
    BY <1>1, <1>3 DEF NotificationEvent, Activity
  <2> QED BY <2>1, GrantedAgrees
<1>4. CASE m.method = "hook"
  <2>1. x \in Hook(s, m)
    BY <1>1, <1>4 DEF NotificationEvent
  <2>2. PICK y \in StartTool(s, m.id, m.type) \cup CompleteTool(s, m.id, m.type) :
            x \in Granted(y)
    BY <2>1 DEF Hook
  <2>3. Agree(s, y)
    BY <2>2, StartToolAgrees, CompleteToolAgrees
  <2>4. Agree(y, x) /\ x.authority
    BY <2>2, <2>3, GrantedAgrees DEF Agree
  <2> QED BY <2>3, <2>4, AgreeTransitive
<1> QED BY <1>2, <1>3, <1>4

\* Notifications, item by item, make of the session what they say.
LEMMA NewsAgree ==
    ASSUME NEW s, Shaped(s), NEW m, NEW x \in NotificationEvents(s, m),
           \/ m.method \in {"settings", "rerouted", "turn/started", "inert", "error", "resolved",
                            "request"}
           \/ m.method = "call" /\ ~ Owned
    PROVE  Agree(s, x)
<1>1. CASE m.method \in {"settings", "rerouted", "turn/started", "inert"}
  <2>1. x \in NotificationEvent(s, m)
    BY <1>1 DEF NotificationEvents
  <2>2. x = s
    BY <1>1, <2>1 DEF NotificationEvent
  <2> QED BY <2>2 DEF Agree
<1>2. CASE m.method = "error"
  <2>1. x \in NotificationEvent(s, m)
    BY <1>2 DEF NotificationEvents
  <2>2. x = [s EXCEPT !.quota = @ \/ m.detail = "quota"]
    BY <1>2, <2>1 DEF NotificationEvent
  <2> QED BY <2>2 DEF Agree, Shaped, StateFields
<1>3. CASE m.method = "resolved"
  <2>1. x \in NotificationEvent(s, m)
    BY <1>3 DEF NotificationEvents
  <2>2. x = [s EXCEPT !.requests = @ \ {m.id}]
    BY <1>3, <2>1 DEF NotificationEvent, Resolved
  <2> QED BY <2>2 DEF Agree, Shaped, StateFields
<1>4. CASE m.method = "request" \/ (m.method = "call" /\ ~ Owned)
  <2>1. x \in ServerRequest(s, m)
    BY <1>4 DEF NotificationEvents
  <2>2. x \in Granted([s EXCEPT !.requests = @ \cup {m.id}])
    BY <2>1 DEF ServerRequest
  <2>3. Agree(s, [s EXCEPT !.requests = @ \cup {m.id}])
    BY DEF Agree, Shaped, StateFields
  <2>4. Agree([s EXCEPT !.requests = @ \cup {m.id}], x)
    BY <2>2, <2>3, GrantedAgrees DEF Agree
  <2> QED BY <2>3, <2>4, AgreeTransitive
<1> QED BY <1>1, <1>2, <1>3, <1>4

\* A snapshot changes the accounting only.
LEMMA UsageAgrees ==
    ASSUME NEW s, Shaped(s), NEW m, m.method = "usage", NEW x \in NotificationEvents(s, m)
    PROVE  /\ Agree([s EXCEPT !.usage = x.usage], x)
           /\ x.usage \in Observe(s.usage, m.detail)
<1>1. x \in NotificationEvent(s, m)
  BY DEF NotificationEvents
<1>2. PICK u \in Observe(s.usage, m.detail) : x = [s EXCEPT !.usage = u]
  BY <1>1 DEF NotificationEvent
<1> QED BY <1>2 DEF Agree, Shaped, StateFields

\* A callback of a declared tool mints a token, for an item that is open.
LEMMA CallEffect ==
    ASSUME NEW s, Shaped(s), NEW m, m.method = "call", Owned, NEW x \in NotificationEvents(s, m)
    PROVE  /\ \E call \in s.calls : call.id = m.type
           /\ x.tokens = s.tokens \cup {[token |-> s.minted + 1, call |-> m.type,
                                         request |-> m.id, attempted |-> FALSE]}
           /\ x.minted = s.minted + 1
           /\ Agree([s EXCEPT !.tokens = x.tokens, !.minted = x.minted], x)
<1>1. x \in ToolCall(s, m)
  BY DEF NotificationEvents
<1> DEFINE t == [token |-> s.minted + 1, call |-> m.type, request |-> m.id, attempted |-> FALSE]
<1>2. /\ \E call \in s.calls : call.id = m.type
      /\ x = [s EXCEPT !.requests = @ \cup {m.id}, !.minted = @ + 1, !.tokens = @ \cup {t}]
  BY <1>1 DEF ToolCall
<1>3. x.tokens = s.tokens \cup {t} /\ x.minted = s.minted + 1
  BY <1>2 DEF Shaped, StateFields
<1>4. Agree([s EXCEPT !.tokens = x.tokens, !.minted = x.minted], x)
  <2> HIDE DEF t
  <2> QED BY <1>2 DEF Agree, Shaped, StateFields
<1> QED BY <1>2, <1>3, <1>4

\* What Inert and Authority are apart from.
LEMMA KindsDiffer ==
    /\ "output" \notin Inert \cup Authority /\ Inert \cap Authority = {}
    /\ Authority = {"native", "mcp", "custom", "dynamic"}
BY DEF Inert, Authority

\* Only items, callbacks and authority may change; the rest as Agree has it.
ItemAgree(s, x) == Agree([s EXCEPT !.items = x.items, !.calls = x.calls], x)

\* What is done after an item's own bookkeeping keeps its effect.
LEMMA ItemAgreeThen ==
    ASSUME NEW s, Shaped(s), NEW y, NEW x, ItemAgree(s, y), Agree(y, x)
    PROVE  ItemAgree(s, x) /\ x.items = y.items /\ x.calls = y.calls
BY DEF ItemAgree, Agree, Shaped, StateFields

\* An item that starts is open, and a callback's item may be called back.
LEMMA StartEffect ==
    ASSUME NEW s, Shaped(s), NEW m, m.method = "item/started", m.type \in Inert \cup Authority,
           NEW x \in NotificationEvents(s, m)
    PROVE  /\ ItemAgree(s, x)
           /\ x.items = s.items \cup {[id |-> m.id, type |-> m.type]}
           /\ \/ x.calls = s.calls
              \/ /\ Owned /\ m.type = "dynamic"
                 /\ x.calls = s.calls \cup {[id |-> m.id, written |-> FALSE]}
           /\ Acts(m) => x.authority
<1> DEFINE item == [id |-> m.id, type |-> m.type]
           started == [s EXCEPT !.items = @ \cup {item}]
           named == StartTool(started, IF m.type = "custom" THEN m.detail ELSE m.id, m.type)
<1>1. x \in ItemStarted(s, m)
  BY DEF NotificationEvents, NotificationEvent
<1>2. /\ m.type \in Inert => x = started
      /\ m.type = "mcp" =>
            x \in UNION {Granted([y EXCEPT !.mcp = @ \cup {m.id}]) : y \in named}
      /\ m.type = "custom" =>
            x \in UNION {Granted([y EXCEPT !.custom = @ \cup {CustomCall(m)}]) : y \in named}
      /\ m.type = "dynamic" /\ Owned => x \in UNION {ToolStarted(y, m) : y \in named}
      /\ m.type = "dynamic" /\ ~ Owned => x \in UNION {Granted(y) : y \in named}
      /\ m.type = "native" => x \in UNION {Granted(y) : y \in named}
  BY <1>1, KindsDiffer DEF ItemStarted
<1>3. Shaped(started) /\ started.items = s.items \cup {item} /\ started.calls = s.calls
      /\ ItemAgree(s, started)
  <2> HIDE DEF item
  <2> QED BY DEF Shaped, StateFields, ItemAgree, Agree
<1>4. ASSUME NEW y \in named PROVE Agree(started, y)
  BY <1>3, <1>4, StartToolAgrees
<1> HIDE DEF started, named
<1>5. ASSUME NEW y, Agree(started, y), NEW z, Agree(y, z), z.authority
      PROVE  ItemAgree(s, z) /\ z.items = s.items \cup {item} /\ z.calls = s.calls /\ z.authority
  BY <1>3, <1>5, AgreeTransitive, ItemAgreeThen
<1>6. CASE m.type \in Inert
  <2>1. ~ Acts(m)
    BY <1>6, KindsDiffer DEF Acts
  <2> QED BY <1>2, <1>3, <1>6, <2>1
<1>7. CASE m.type = "native" \/ (m.type = "dynamic" /\ ~ Owned)
  <2>1. PICK y \in named : x \in Granted(y)
    BY <1>2, <1>7
  <2>2. Agree(started, y) /\ Agree(y, x) /\ x.authority
    BY <1>4, <2>1, GrantedAgrees DEF Agree
  <2> QED BY <1>5, <2>2
<1>8. CASE m.type = "mcp"
  <2>1. PICK y \in named : x \in Granted([y EXCEPT !.mcp = @ \cup {m.id}])
    BY <1>2, <1>8
  <2>2. Agree(started, y) /\ Agree(y, [y EXCEPT !.mcp = @ \cup {m.id}])
    BY <1>4, <2>1 DEF Agree, Shaped, StateFields
  <2>3. Agree([y EXCEPT !.mcp = @ \cup {m.id}], x) /\ x.authority
    BY <2>1, <2>2, GrantedAgrees DEF Agree
  <2>4. Agree(y, x)
    BY <2>2, <2>3, AgreeTransitive
  <2> QED BY <1>5, <2>2, <2>3, <2>4
<1>9. CASE m.type = "custom"
  <2>1. PICK y \in named : x \in Granted([y EXCEPT !.custom = @ \cup {CustomCall(m)}])
    BY <1>2, <1>9
  <2>2. Agree(started, y) /\ Agree(y, [y EXCEPT !.custom = @ \cup {CustomCall(m)}])
    BY <1>4, <2>1 DEF Agree, Shaped, StateFields
  <2>3. Agree([y EXCEPT !.custom = @ \cup {CustomCall(m)}], x) /\ x.authority
    BY <2>1, <2>2, GrantedAgrees DEF Agree
  <2>4. Agree(y, x)
    BY <2>2, <2>3, AgreeTransitive
  <2> QED BY <1>5, <2>2, <2>3, <2>4
<1>10. CASE m.type = "dynamic" /\ Owned
  <2>1. PICK y \in named : x \in ToolStarted(y, m)
    BY <1>2, <1>10
  <2>2. Agree(started, y)
    BY <1>4, <2>1
  <2> DEFINE call == [id |-> m.id, written |-> FALSE]
  <2>3. x = [y EXCEPT !.calls = @ \cup {call}]
    BY <2>1 DEF ToolStarted
  <2> HIDE DEF call
  <2>4. x.calls = s.calls \cup {call} /\ x.items = s.items \cup {item} /\ ItemAgree(s, x)
    BY <1>3, <2>2, <2>3 DEF ItemAgree, Agree, Shaped, StateFields
  <2>5. ~ Acts(m)
    BY <1>10 DEF Acts
  <2> QED BY <1>10, <2>4, <2>5 DEF call
<1> QED BY <1>6, <1>7, <1>8, <1>9, <1>10, KindsDiffer

\* An item that completes was open as it is named, or was not known.
LEMMA CompletionEffect ==
    ASSUME NEW s, Shaped(s), NEW m, m.method = "item/completed",
           m.type \in Inert \cup Authority, NEW x \in NotificationEvents(s, m),
           ~ (Owned /\ m.type = "dynamic")
    PROVE  /\ \A i \in s.items : i.id = m.id => i = [id |-> m.id, type |-> m.type]
           /\ x.items = {i \in s.items : i.id # m.id} /\ x.calls = s.calls
           /\ ItemAgree(s, x)
<1> DEFINE item == [id |-> m.id, type |-> m.type]
           ended == [s EXCEPT !.items = {i \in @ : i.id # m.id},
                              !.done = IF setup.controlled THEN @ ELSE @ \cup {m.id}]
           completed == CompleteTool(ended, m.id, m.type)
<1>1. x \in ItemCompleted(s, m)
  BY KindsDiffer DEF NotificationEvents, NotificationEvent
<1>2. /\ \A i \in s.items : i.id = m.id => i = item
      /\ \/ m.type \in Inert /\ x \in InertCompleted(ended, m)
         \/ m.type = "mcp"
            /\ x \in UNION {Granted([y EXCEPT !.mcp = @ \ {m.id}]) : y \in completed}
         \/ m.type = "custom" /\ x \in Granted([ended EXCEPT !.custom = @ \ {CustomCall(m)}])
         \/ x \in UNION {Granted(y) : y \in completed}
  BY <1>1, KindsDiffer DEF ItemCompleted
<1>3. /\ Shaped(ended) /\ ended.items = {i \in s.items : i.id # m.id} /\ ended.calls = s.calls
      /\ ItemAgree(s, ended)
  BY DEF Shaped, StateFields, ItemAgree, Agree
<1>4. ASSUME NEW y \in completed PROVE Agree(ended, y)
  BY <1>3, <1>4, CompleteToolAgrees
<1> HIDE DEF ended, completed
<1>5. Agree(ended, x)
  <2>1. CASE m.type \in Inert /\ x \in InertCompleted(ended, m)
    <3>1. \/ x = ended \/ x = AgentMessage(ended, m)
          \/ x = [ended EXCEPT !.inputs = @ \ {m.detail}]
      BY <2>1 DEF InertCompleted
    <3>2. Agree(ended, AgentMessage(ended, m))
      BY <1>3 DEF AgentMessage, Agree, Shaped, StateFields
    <3>3. Agree(ended, ended) /\ Agree(ended, [ended EXCEPT !.inputs = @ \ {m.detail}])
      BY <1>3 DEF Agree, Shaped, StateFields
    <3> QED BY <3>1, <3>2, <3>3
  <2>2. CASE x \in UNION {Granted([y EXCEPT !.mcp = @ \ {m.id}]) : y \in completed}
    <3>1. PICK y \in completed : x \in Granted([y EXCEPT !.mcp = @ \ {m.id}])
      BY <2>2
    <3>2. Agree(ended, y) /\ Agree(y, [y EXCEPT !.mcp = @ \ {m.id}])
      BY <1>4, <3>1 DEF Agree, Shaped, StateFields
    <3>3. Agree([y EXCEPT !.mcp = @ \ {m.id}], x)
      BY <3>1, <3>2, GrantedAgrees DEF Agree
    <3> QED BY <3>2, <3>3, AgreeTransitive
  <2>3. CASE x \in Granted([ended EXCEPT !.custom = @ \ {CustomCall(m)}])
    <3>1. Agree(ended, [ended EXCEPT !.custom = @ \ {CustomCall(m)}])
      BY <1>3 DEF Agree, Shaped, StateFields
    <3>2. Agree([ended EXCEPT !.custom = @ \ {CustomCall(m)}], x)
      BY <2>3, <3>1, GrantedAgrees DEF Agree
    <3> QED BY <3>1, <3>2, AgreeTransitive
  <2>4. CASE x \in UNION {Granted(y) : y \in completed}
    <3>1. PICK y \in completed : x \in Granted(y)
      BY <2>4
    <3>2. Agree(ended, y) /\ Agree(y, x)
      BY <1>4, <3>1, GrantedAgrees DEF Agree
    <3> QED BY <3>2, AgreeTransitive
  <2> QED BY <1>2, <2>1, <2>2, <2>3, <2>4
<1> QED BY <1>2, <1>3, <1>5, ItemAgreeThen

\* The completion of a callback's item retires its tokens, here and in the connection.
LEMMA ToolCompletionEffect ==
    ASSUME NEW s, Shaped(s), NEW m, m.method = "item/completed", m.type = "dynamic", Owned,
           NEW x \in NotificationEvents(s, m)
    PROVE  /\ \A i \in s.items : i.id = m.id => i = [id |-> m.id, type |-> m.type]
           /\ x.items = {i \in s.items : i.id # m.id}
           /\ x.calls = {call \in s.calls : call.id # m.id}
           /\ x.tokens = {t \in s.tokens : t.call # m.id}
           /\ \A r \in x.owed : r \in s.owed /\ \A t \in s.tokens : t.request = r => t.call # m.id
           /\ Agree([s EXCEPT !.items = x.items, !.calls = x.calls, !.tokens = x.tokens,
                              !.owed = x.owed], x)
<1> DEFINE item == [id |-> m.id, type |-> m.type]
           ended == [s EXCEPT !.items = {i \in @ : i.id # m.id},
                              !.done = IF setup.controlled THEN @ ELSE @ \cup {m.id}]
           completed == CompleteTool(ended, m.id, m.type)
<1>1. x \in ItemCompleted(s, m)
  BY DEF NotificationEvents, NotificationEvent
<1>2. /\ \A i \in s.items : i.id = m.id => i = item
      /\ x \in UNION {ToolCompleted(y, m) : y \in completed}
  BY <1>1, KindsDiffer DEF ItemCompleted
<1>3. PICK y \in completed : x \in ToolCompleted(y, m)
  BY <1>2
<1>4. Shaped(ended)
  BY DEF Shaped, StateFields
<1>5. Agree(ended, y)
  BY <1>3, <1>4, CompleteToolAgrees
<1>6. /\ y.items = {i \in s.items : i.id # m.id} /\ y.calls = s.calls /\ y.tokens = s.tokens
      /\ y.owed = s.owed /\ y.minted = s.minted /\ y.unpublished = s.unpublished
      /\ y.usage = s.usage /\ y.writer = s.writer /\ y.terminal = s.terminal
      /\ (s.authority => y.authority) /\ Shaped(y)
  BY <1>5 DEF Agree, Shaped, StateFields
<1> HIDE DEF ended, completed
<1> DEFINE own == {call \in y.calls : call.id = m.id}
           of == {t \in y.tokens : t.call = m.id}
           asked == {t.request : t \in of}
<1>7. x = [y EXCEPT !.calls = @ \ own, !.tokens = @ \ of, !.requests = @ \ asked,
                    !.owed = @ \ asked]
  BY <1>3 DEF ToolCompleted
<1>8. /\ x.calls = y.calls \ own /\ x.tokens = y.tokens \ of /\ x.owed = y.owed \ asked
      /\ x.items = y.items /\ x.minted = y.minted /\ x.unpublished = y.unpublished
      /\ x.usage = y.usage /\ x.writer = y.writer /\ x.terminal = y.terminal
      /\ x.authority = y.authority /\ Shaped(x)
  <2> HIDE DEF own, of, asked
  <2> QED BY <1>6, <1>7 DEF Shaped, StateFields
<1>9. /\ x.calls = {call \in s.calls : call.id # m.id}
      /\ x.tokens = {t \in s.tokens : t.call # m.id}
  BY <1>6, <1>8
<1>10. \A r \in x.owed : r \in s.owed /\ \A t \in s.tokens : t.request = r => t.call # m.id
  BY <1>6, <1>8
<1> HIDE DEF own, of, asked
<1> QED BY <1>2, <1>6, <1>8, <1>9, <1>10 DEF Agree, Shaped, StateFields

\* The output of a custom call completes its tool, not its item.
LEMMA OutputEffect ==
    ASSUME NEW s, Shaped(s), NEW m, m.method = "item/completed", m.type = "output",
           NEW x \in NotificationEvents(s, m)
    PROVE  Agree(s, x)
<1> DEFINE done == IF setup.controlled THEN s ELSE [s EXCEPT !.done = @ \cup {m.id}]
<1>1. x \in CustomOutput(s, m)
  BY DEF NotificationEvents, NotificationEvent
<1>2. PICK y \in CompleteTool(done, m.id, "custom") : x \in Granted(y)
  BY <1>1 DEF CustomOutput
<1>3. Agree(s, done)
  BY DEF Agree, Shaped, StateFields
<1> HIDE DEF done
<1>4. Agree(done, y)
  BY <1>2, <1>3, CompleteToolAgrees DEF Agree
<1>5. Agree(y, x)
  BY <1>2, <1>4, GrantedAgrees DEF Agree
<1> QED BY <1>3, <1>4, <1>5, AgreeTransitive

\* What a raw item says of functions that were never published.
LEMMA RawEffect ==
    ASSUME NEW s, Shaped(s), NEW m, m.method = "raw",
           m.type \in {"function_call", "function_call_output", "custom_tool_call"},
           NEW x \in NotificationEvents(s, m)
    PROVE  /\ Agree([s EXCEPT !.unpublished = x.unpublished], x)
           /\ \A f : f \in s.unpublished /\ ~ Answers(m, f) => f \in x.unpublished
           /\ \A f : Asks(m, f) => f \in x.unpublished
           /\ Acts(m) => x.authority
           /\ Answers(m, m.id) /\ m.id \in s.unpublished /\ m.detail # "refused" => x.authority
<1>1. x \in RawItem(s, m)
  BY DEF NotificationEvents, NotificationEvent
<1>2. CASE m.type = "custom_tool_call"
  <2>1. x \in Granted(s)
    BY <1>1, <1>2 DEF RawItem
  <2>2. Agree(s, x) /\ x.authority
    BY <2>1, GrantedAgrees
  <2>3. Agree([s EXCEPT !.unpublished = x.unpublished], x) /\ x.unpublished = s.unpublished
    BY <2>2 DEF Agree, Shaped, StateFields
  <2> QED BY <1>2, <2>2, <2>3 DEF Asks, Answers
<1>3. CASE m.type = "function_call"
  <2>1. x = IF m.detail = "declared" THEN s ELSE [s EXCEPT !.unpublished = @ \cup {m.id}]
    BY <1>1, <1>3 DEF RawItem
  <2>2. /\ x.unpublished = IF m.detail = "declared" THEN s.unpublished
                           ELSE s.unpublished \cup {m.id}
        /\ Agree([s EXCEPT !.unpublished = x.unpublished], x)
    BY <2>1 DEF Agree, Shaped, StateFields
  <2> QED BY <1>3, <2>2 DEF Asks, Answers, Acts
<1>4. CASE m.type = "function_call_output"
  <2> DEFINE popped == [s EXCEPT !.unpublished = @ \ {m.id}]
  <2>1. x = popped \/ x \in Granted(popped)
    BY <1>1, <1>4 DEF RawItem
  <2>2. m.id \in s.unpublished /\ m.detail # "refused" => x \in Granted(popped)
    BY <1>1, <1>4 DEF RawItem
  <2>3. Shaped(popped) /\ popped.unpublished = s.unpublished \ {m.id}
    BY DEF Shaped, StateFields
  <2>4. Agree([s EXCEPT !.unpublished = popped.unpublished], popped)
    BY <2>3 DEF Agree, Shaped, StateFields
  <2> HIDE DEF popped
  <2>5. Agree(popped, x) /\ (x \in Granted(popped) => x.authority)
    BY <2>1, <2>3, GrantedAgrees DEF Agree
  <2>6. x.unpublished = s.unpublished \ {m.id}
    BY <2>3, <2>5 DEF Agree
  <2>7. Agree([s EXCEPT !.unpublished = x.unpublished], x)
    BY <2>3, <2>4, <2>5, <2>6, AgreeTransitive
  <2> QED BY <1>4, <2>2, <2>5, <2>6, <2>7 DEF Asks, Answers, Acts
<1> QED BY <1>2, <1>3, <1>4

\* The native terminal of a contained turn has seen no authority.
LEMMA TerminalEffect ==
    ASSUME NEW s, Shaped(s), NEW m, IsOver(m), NEW x \in NotificationEvents(s, m)
    PROVE  /\ Shaped(x)
           /\ x.items = s.items /\ x.calls = s.calls /\ x.tokens = s.tokens
           /\ x.minted = s.minted /\ x.owed = s.owed /\ x.unpublished = s.unpublished
           /\ x.writer = s.writer /\ (s.authority => x.authority)
           /\ x.usage = FinishTurn(s.usage)
           /\ x.terminal = Terminal(m.detail, s.usage.local, TRUE)
           /\ setup.contained => ~ s.authority /\ s.unpublished = {}
<1> DEFINE authority == s.authority \/ s.unpublished # {}
           usage == FinishTurn(s.usage)
           terminal == Terminal(m.detail, s.usage.local, TRUE)
<1>1. x \in TurnTerminal(s, m)
  BY DEF NotificationEvents, IsOver
<1>2. /\ x = [s EXCEPT !.authority = authority, !.usage = usage, !.terminal = terminal]
      /\ ~ (authority /\ setup.contained)
  BY <1>1 DEF TurnTerminal
<1>3. authority \in BOOLEAN
  BY DEF Shaped
<1> HIDE DEF usage, terminal
<1>4. /\ Shaped(x) /\ x.items = s.items /\ x.calls = s.calls /\ x.tokens = s.tokens
      /\ x.minted = s.minted /\ x.owed = s.owed /\ x.unpublished = s.unpublished
      /\ x.writer = s.writer /\ x.usage = usage /\ x.terminal = terminal
      /\ x.authority = authority
  <2> HIDE DEF authority
  <2> QED BY <1>2, <1>3 DEF Shaped, StateFields
<1> QED BY <1>2, <1>4 DEF usage, terminal

-----------------------------------------------------------------------------
(* Types.                                                                    *)

\* Every step of the specification is one of its actions, or changes nothing.
LEMMA Steps ==
    Next =>
        \/ OpenClient \/ VerifyAuth \/ CheckContainment \/ OpenThread \/ OpenFails
        \/ PrepareTurn \/ Submit \/ EnterWriter \/ Acknowledge \/ Read \/ TimesOut
        \/ Revoke \/ CancelReader \/ Close \/ CloseSession
        \/ ReplyCalls \/ ReplyEnters \/ ReplySent \/ ReplyFails
        \/ Spends \/ Snapshot \/ Emit \/ EmitIdle \/ Drops
BY DEF Next

\* The first message and the rest.
LEMMA SeqTail ==
    ASSUME NEW S, NEW s \in Seq(S), s # <<>>
    PROVE  /\ Head(s) \in S /\ Head(s) = s[1] /\ 1 \in DOMAIN s
           /\ Tail(s) \in Seq(S) /\ Len(s) \in Nat /\ Len(s) > 0
           /\ \A i \in DOMAIN Tail(s) : i \in Nat /\ i + 1 \in DOMAIN s /\ Tail(s)[i] = s[i + 1]
           /\ \A i \in DOMAIN s : i # 1 => i - 1 \in DOMAIN Tail(s) /\ Tail(s)[i - 1] = s[i]
           /\ \A i \in DOMAIN s : i \in Nat /\ i >= 1
OBVIOUS

\* One message more, at the end.
LEMMA SeqAppend ==
    ASSUME NEW S, NEW s \in Seq(S), NEW m \in S
    PROVE  /\ Append(s, m) \in Seq(S) /\ Len(s) \in Nat
           /\ Len(s) + 1 \in DOMAIN Append(s, m) /\ Append(s, m)[Len(s) + 1] = m
           /\ \A i \in DOMAIN s : /\ i \in DOMAIN Append(s, m) /\ Append(s, m)[i] = s[i]
                                  /\ i \in Nat /\ i < Len(s) + 1
           /\ \A i \in DOMAIN Append(s, m) :
                 \/ i \in DOMAIN s /\ Append(s, m)[i] = s[i]
                 \/ i = Len(s) + 1 /\ Append(s, m)[i] = m
OBVIOUS

\* What the server and the connection put into the queue are messages.
LEMMA Emitted ==
    ASSUME SessionType, NEW turn \in Nat, NEW m \in Emits(turn)
    PROVE  m \in Message /\ m.turn = turn /\ m.method \notin {"usage", "failure"}
<1>1. PICK e \in setup.emits :
          m = [method |-> e[1], turn |-> turn, id |-> e[2], type |-> e[3], detail |-> e[4]]
  BY DEF Emits
<1>2. Known(e[1], e[3]) /\ e \in Emissions
  BY EmitsAssumption DEF SessionType, Emissions
<1>3. e[1] \in Methods /\ e[1] \notin {"usage", "failure"}
  BY <1>2 DEF Known, Methods, TurnScoped
<1>4. e[2] \in Ids /\ e[3] \in Types /\ e[4] \in Details
  BY <1>2 DEF Ids, Types, Details
<1> QED BY <1>1, <1>2, <1>3, <1>4 DEF Message

\* A message that is reported is the last of the queue.
LEMMA Reported ==
    ASSUME NativeType
    PROVE  /\ \A turn \in Nat : Usage(turn) \in Message /\ Usage(turn).detail = native.total
           /\ \A turn \in Nat : [Usage(turn) EXCEPT !.detail = History] \in Message
           /\ Failure \in Message
BY BoundsAssumption DEF NativeType, Usage, Failure, Message, Methods, TurnScoped, Ids, Types,
   Details

\* What a step may do to the queue: take the first message, put one more
\* there, clear it, or nothing.
LEMMA BoxSteps ==
    ASSUME TypeOK, [Next]_vars
    PROVE  \/ client'.inbox = Box
           \/ client'.inbox = <<>> /\ (OpenThread \/ PrepareTurn)
           \/ Read /\ Box # <<>> /\ client'.inbox = Tail(Box)
           \/ /\ Acknowledge \/ CloseSession \/ Drops
              /\ client'.inbox = Append(Box, Failure)
           \/ Emit /\ \E m \in Emits(native.turn) : client'.inbox = Append(Box, m)
           \/ EmitIdle /\ \E m \in Emits(0) :
                 /\ m.method \in {"inert", "forbidden", "process", "settings", "rerouted"}
                 /\ client'.inbox = Append(Box, m)
           \/ /\ Snapshot
              /\ \E turn \in Nat :
                   \/ client'.inbox = Append(Box, Usage(turn))
                   \/ client'.inbox = Append(Box, [Usage(turn) EXCEPT !.detail = History])
<1> USE DEF TypeOK, SessionType, Box
<1>1. CASE UNCHANGED vars
  BY <1>1 DEF vars
<1>2. CASE OpenClient \/ VerifyAuth \/ CheckContainment \/ OpenFails
  BY <1>2 DEF OpenClient, VerifyAuth, CheckContainment, OpenFails
<1>3. CASE OpenThread \/ PrepareTurn
  BY <1>3 DEF OpenThread, PrepareTurn
<1>4. CASE Submit \/ EnterWriter \/ TimesOut \/ Revoke \/ CancelReader \/ Close
  BY <1>4 DEF Submit, EnterWriter, TimesOut, Revoke, CancelReader, Close
<1>5. CASE Acknowledge
  BY <1>5 DEF Acknowledge
<1>11. CASE CloseSession
  BY <1>11 DEF CloseSession
<1>12. CASE Drops
  BY <1>12 DEF Drops
<1>6. CASE ReplyCalls \/ ReplyEnters \/ ReplySent \/ ReplyFails \/ Spends
  BY <1>6 DEF ReplyCalls, ReplyEnters, ReplySent, ReplyFails, Spends
<1>7. CASE Read
  BY <1>7 DEF Read
<1>8. CASE Snapshot
  <2>1. 0 \in Nat /\ native.turn \in Nat /\ Len(native.began) \in Nat
    BY DEF NativeType
  <2> QED BY <1>8, <2>1 DEF Snapshot, Reports
<1>9. CASE Emit
  BY <1>9 DEF Emit, Reports
<1>10. CASE EmitIdle
  BY <1>10 DEF EmitIdle, Reports
<1> QED BY <1>1, <1>2, <1>3, <1>4, <1>5, <1>6, <1>7, <1>8, <1>9, <1>10, <1>11, <1>12, Steps

\* The adapter's place, its setup and its connection keep their types.
LEMMA SessionStep == ASSUME TypeOK, [Next]_vars PROVE SessionType'
<1> USE DEF SessionType
<1>1. /\ setup \in Setups /\ Box \in Seq(Message)
      /\ client \in [usable : BOOLEAN, inbox : Seq(Message)]
  BY DEF TypeOK, Box
<1>2. setup' = setup
  <2>1. CASE UNCHANGED vars
    BY <2>1 DEF vars
  <2>2. CASE OpenClient \/ VerifyAuth \/ CheckContainment \/ OpenThread \/ OpenFails \/ Acknowledge
    BY <2>2 DEF OpenClient, VerifyAuth, CheckContainment, OpenThread, OpenFails, Acknowledge
  <2>3. CASE PrepareTurn \/ Submit \/ EnterWriter \/ Read \/ TimesOut \/ Revoke \/ CancelReader
    BY <2>3 DEF PrepareTurn, Submit, EnterWriter, Read, TimesOut, Revoke, CancelReader
  <2>4. CASE Close \/ CloseSession \/ ReplyCalls \/ ReplyEnters \/ ReplySent \/ ReplyFails \/ Drops
    BY <2>4 DEF Close, CloseSession, ReplyCalls, ReplyEnters, ReplySent, ReplyFails, Drops
  <2>5. CASE Spends \/ Snapshot \/ Emit \/ EmitIdle
    BY <2>5 DEF Spends, Snapshot, Emit, EmitIdle, Reports
  <2> QED BY <2>1, <2>2, <2>3, <2>4, <2>5, Steps
<1>3. pc' \in {"connect", "auth", "config", "thread", "idle", "prepared", "reading",
              "ended", "gone"}
  <2> USE DEF TypeOK
  <2>1. CASE UNCHANGED vars
    BY <2>1 DEF vars
  <2>2. CASE OpenClient \/ VerifyAuth \/ CheckContainment \/ OpenThread \/ OpenFails \/ Acknowledge
    BY <2>2 DEF OpenClient, VerifyAuth, CheckContainment, OpenThread, OpenFails, Acknowledge
  <2>3. CASE PrepareTurn \/ Submit \/ EnterWriter \/ TimesOut \/ Revoke \/ CancelReader
    BY <2>3 DEF PrepareTurn, Submit, EnterWriter, TimesOut, Revoke, CancelReader, Ends
  <2>4. CASE Close \/ CloseSession \/ ReplyCalls \/ ReplyEnters \/ ReplySent \/ ReplyFails \/ Drops
    BY <2>4 DEF Close, CloseSession, ReplyCalls, ReplyEnters, ReplySent, ReplyFails, Drops
  <2>5. CASE Spends \/ Snapshot \/ Emit \/ EmitIdle
    BY <2>5 DEF Spends, Snapshot, Emit, EmitIdle, Reports
  <2>6. CASE Read
    BY <2>6 DEF Read, Ends
  <2> QED BY <2>1, <2>2, <2>3, <2>4, <2>5, <2>6, Steps
<1>4. client'.inbox \in Seq(Message)
  <2>1. \A turn \in Nat : \A m \in Emits(turn) : m \in Message
    BY Emitted DEF TypeOK
  <2>2. /\ \A turn \in Nat : /\ Usage(turn) \in Message
                             /\ [Usage(turn) EXCEPT !.detail = History] \in Message
        /\ Failure \in Message
    BY Reported DEF TypeOK
  <2>3. native.turn \in Nat /\ 0 \in Nat
    BY DEF TypeOK, NativeType
  <2>4. \A m \in Message : Append(Box, m) \in Seq(Message)
    BY <1>1
  <2>5. Box # <<>> => Tail(Box) \in Seq(Message)
    BY <1>1, SeqTail
  <2>6. <<>> \in Seq(Message)
    OBVIOUS
  <2> QED BY <1>1, <2>1, <2>2, <2>3, <2>4, <2>5, <2>6, BoxSteps
<1>5. client' \in [usable : BOOLEAN, inbox : Seq(Message)]
  <2>1. \/ client' = client
        \/ client' = [client EXCEPT !.inbox = client'.inbox]
        \/ \E usable \in BOOLEAN : client' = [client EXCEPT !.usable = usable]
        \/ \E usable \in BOOLEAN :
              client' = [client EXCEPT !.usable = usable, !.inbox = client'.inbox]
        \/ \E usable \in BOOLEAN : client' = [usable |-> usable, inbox |-> client'.inbox]
    <3>1. CASE UNCHANGED vars
      BY <3>1 DEF vars
    <3>2. CASE OpenClient \/ OpenFails
      BY <3>2 DEF OpenClient, OpenFails
    <3>3. CASE OpenThread \/ PrepareTurn
      BY <1>1, <3>3 DEF OpenThread, PrepareTurn
    <3>4. CASE Acknowledge
      BY <1>1, <3>4 DEF Acknowledge
    <3>5. CASE Read
      BY <1>1, <3>5 DEF Read
    <3>6. CASE Close
      <4>1. (client.usable /\ ~ NeedsDiscard) \in BOOLEAN
        BY <1>1
      <4> QED BY <3>6, <4>1 DEF Close
    <3>7. CASE CloseSession
      BY <3>7 DEF CloseSession
    <3>8. CASE Drops
      BY <3>8 DEF Drops
    <3>9. CASE Snapshot \/ Emit \/ EmitIdle
      BY <1>1, <3>9 DEF Snapshot, Emit, EmitIdle, Reports
    <3>10. CASE VerifyAuth \/ CheckContainment \/ Submit \/ EnterWriter \/ TimesOut \/ Revoke
      BY <3>10 DEF VerifyAuth, CheckContainment, Submit, EnterWriter, TimesOut, Revoke
    <3>11. CASE CancelReader \/ ReplyCalls \/ ReplyEnters \/ ReplySent \/ ReplyFails \/ Spends
      BY <3>11 DEF CancelReader, ReplyCalls, ReplyEnters, ReplySent, ReplyFails, Spends
    <3> QED BY <3>1, <3>2, <3>3, <3>4, <3>5, <3>6, <3>7, <3>8, <3>9, <3>10, <3>11, Steps
  <2> DEFINE box == client'.inbox
  <2>2. client \in [usable : BOOLEAN, inbox : Seq(Message)] /\ box \in Seq(Message)
    BY <1>1, <1>4
  <2>3. [client EXCEPT !.inbox = box] \in [usable : BOOLEAN, inbox : Seq(Message)]
    <3> HIDE DEF box
    <3> QED BY <2>2
  <2>4. ASSUME NEW usable \in BOOLEAN
        PROVE  /\ [client EXCEPT !.usable = usable] \in [usable : BOOLEAN, inbox : Seq(Message)]
               /\ [client EXCEPT !.usable = usable, !.inbox = box]
                     \in [usable : BOOLEAN, inbox : Seq(Message)]
               /\ [usable |-> usable, inbox |-> box] \in [usable : BOOLEAN, inbox : Seq(Message)]
    <3> HIDE DEF box
    <3> QED BY <2>2
  <2> QED BY <1>1, <2>1, <2>3, <2>4, Zenon
<1> QED BY <1>1, <1>2, <1>3, <1>5

\* A sequence with one member replaced.
LEMMA SeqReplace ==
    ASSUME NEW S, NEW s \in Seq(S), NEW i, NEW e \in S PROVE [s EXCEPT ![i] = e] \in Seq(S)
<1>1. i \in 1 .. Len(s) => [s EXCEPT ![i] = e] \in Seq(S)
  BY ExceptSeq
<1>2. i \notin 1 .. Len(s) => [s EXCEPT ![i] = e] = s
  OBVIOUS
<1> QED BY <1>1, <1>2

\* The ghost of a message keeps its type.
LEMMA GhostTyped ==
    ASSUME NativeType, NEW m \in Message PROVE AfterReport(m) \in
             [total : Nat, turn : Nat, began : Seq(Nat), ended : Seq(Count),
              items : SUBSET [id : Ids, type : Types], calls : SUBSET Ids,
              asked : SUBSET [request : Ids, item : Types], ran : BOOLEAN,
              shown : Seq(Nat), frames : Nat, replayed : BOOLEAN]
<1> DEFINE Items == SUBSET [id : Ids, type : Types]
           Asked == SUBSET [request : Ids, item : Types]
           Native == [total : Nat, turn : Nat, began : Seq(Nat), ended : Seq(Count), items : Items,
                      calls : SUBSET Ids, asked : Asked, ran : BOOLEAN, shown : Seq(Nat),
                      frames : Nat, replayed : BOOLEAN]
           sent == [native EXCEPT !.frames = @ + 1]
<1>1. sent \in Native
  <2>1. native \in Native /\ native.frames + 1 \in Nat
    BY DEF NativeType
  <2> HIDE DEF Items, Asked
  <2> QED BY <2>1
<1>2. /\ sent.items = native.items /\ sent.calls = native.calls /\ sent.asked = native.asked
      /\ sent.ran = native.ran /\ sent.ended = native.ended /\ native.calls \subseteq Ids
      /\ native.items \in Items /\ native.asked \in Asked /\ native.ran \in BOOLEAN
      /\ native.turn \in Nat /\ native.total \in Count /\ native.ended \in Seq(Count)
  BY DEF NativeType, Count
<1>3. m.id \in Ids /\ m.type \in Types
  BY DEF Message
<1> HIDE DEF sent
<1>4. CASE m.method = "item/started"
  <2> DEFINE items == native.items \cup {Item(m)}
             ran == native.ran \/ (m.type \in Authority /\ ~ (Owned /\ m.type = "dynamic"))
  <2>1. AfterReport(m) = [sent EXCEPT !.items = items, !.ran = ran]
    BY <1>2, <1>4 DEF AfterReport, sent
  <2>2. items \in Items /\ ran \in BOOLEAN
    BY <1>2, <1>3 DEF Item
  <2> HIDE DEF items, ran, Items, Asked
  <2>3. AfterReport(m) \in Native
    BY <1>1, <2>1, <2>2
  <2> QED BY <2>3 DEF Items, Asked
<1>5. CASE m.method = "item/completed"
  <2> DEFINE items == native.items \ {Item(m)}
             asked == {a \in native.asked : a.item # m.id}
  <2>1. AfterReport(m) = [sent EXCEPT !.items = items, !.asked = asked]
    BY <1>2, <1>5 DEF AfterReport, sent
  <2>2. items \in Items /\ asked \in Asked
    BY <1>2
  <2> HIDE DEF items, asked, Items, Asked
  <2>3. AfterReport(m) \in Native
    BY <1>1, <2>1, <2>2
  <2> QED BY <2>3 DEF Items, Asked
<1>6. CASE m.method \in {"activity", "hook", "diff", "process"}
  <2>1. AfterReport(m) = [sent EXCEPT !.ran = TRUE]
    BY <1>6 DEF AfterReport, sent
  <2> QED BY <1>1, <2>1
<1>7. CASE m.method = "raw"
  <2> DEFINE calls == native.calls \cup {m.id}
             answered == native.calls \ {m.id}
             ran == native.ran \/ (m.detail = "output" /\ m.id \in native.calls)
  <2>1. \/ AfterReport(m) = [sent EXCEPT !.ran = TRUE]
        \/ AfterReport(m) = [sent EXCEPT !.calls = calls]
        \/ AfterReport(m) = [sent EXCEPT !.ran = ran, !.calls = answered]
        \/ AfterReport(m) = sent
    BY <1>2, <1>7 DEF AfterReport, sent
  <2>2. calls \in SUBSET Ids /\ answered \in SUBSET Ids /\ ran \in BOOLEAN
    BY <1>2, <1>3
  <2> HIDE DEF calls, answered, ran, Items, Asked
  <2>3. AfterReport(m) \in Native
    BY <1>1, <2>1, <2>2
  <2> QED BY <2>3 DEF Items, Asked
<1>8. CASE m.method \in {"call", "resolved"}
  <2> DEFINE more == native.asked \cup {[request |-> m.id, item |-> m.type]}
             less == {a \in native.asked : a.request # m.id}
  <2>1. \/ AfterReport(m) = [sent EXCEPT !.asked = more]
        \/ AfterReport(m) = [sent EXCEPT !.asked = less]
        \/ AfterReport(m) = sent
    BY <1>2, <1>8 DEF AfterReport, sent
  <2>2. more \in Asked /\ less \in Asked
    BY <1>2, <1>3
  <2> HIDE DEF more, less, Items, Asked
  <2>3. AfterReport(m) \in Native
    BY <1>1, <2>1, <2>2
  <2> QED BY <2>3 DEF Items, Asked
<1>9. CASE IsOver(m)
  <2> DEFINE ended == [native.ended EXCEPT ![native.turn] = native.total]
             ran == native.ran \/ native.calls # {}
  <2>1. AfterReport(m) = [sent EXCEPT !.ended[native.turn] = native.total, !.turn = 0,
                                      !.ran = @ \/ native.calls # {}]
    BY <1>9 DEF AfterReport, sent, IsOver
  <2>2. AfterReport(m) = [sent EXCEPT !.ended = ended, !.turn = 0, !.ran = ran]
    BY <1>1, <1>2, <2>1
  <2>3. ended \in Seq(Count) /\ ran \in BOOLEAN
    BY <1>2, SeqReplace
  <2> HIDE DEF ended, ran, Items, Asked
  <2> DEFINE zero == 0
  <2>4. AfterReport(m) = [sent EXCEPT !.ended = ended, !.turn = zero, !.ran = ran] /\ zero \in Nat
    BY <2>2
  <2> HIDE DEF zero
  <2>5. AfterReport(m) \in Native
    BY <1>1, <2>3, <2>4
  <2> QED BY <2>5 DEF Items, Asked
<1>10. CASE m.method \in {"turn/started", "usage", "error", "request", "settings",
                          "rerouted", "inert", "forbidden", "failure"}
  <2>1. AfterReport(m) = sent
    BY <1>10 DEF AfterReport, sent
  <2> QED BY <1>1, <2>1
<1>11. m.method \in Methods
  BY DEF Message
<1> QED BY <1>4, <1>5, <1>6, <1>7, <1>8, <1>9, <1>10, <1>11 DEF Methods, TurnScoped, IsOver

\* So does the server's thread.
LEMMA NativeStep == ASSUME TypeOK, [Next]_vars PROVE NativeType'
<1> DEFINE Items == SUBSET [id : Ids, type : Types]
           Asked == SUBSET [request : Ids, item : Types]
           Native == [total : Nat, turn : Nat, began : Seq(Nat), ended : Seq(Count), items : Items,
                      calls : SUBSET Ids, asked : Asked, ran : BOOLEAN, shown : Seq(Nat),
                      frames : Nat, replayed : BOOLEAN]
<1>1. native \in Native /\ NativeType
  BY DEF TypeOK, NativeType
<1>2. SUFFICES Ids' = Ids /\ Types' = Types => native' \in Native
  <2>1. Ids' = Ids /\ Types' = Types
    BY DEF Ids, Types
  <2> QED BY <2>1 DEF NativeType
<1>3. /\ native.total \in Nat /\ native.turn \in Nat /\ native.frames \in Nat
      /\ native.began \in Seq(Nat) /\ native.ended \in Seq(Count) /\ native.shown \in Seq(Nat)
      /\ native.asked \in Asked
  BY <1>1
<1>4. CASE UNCHANGED native
  BY <1>1, <1>4
<1>5. CASE EnterWriter
  <2> DEFINE turn == Len(native.began) + 1
             began == Append(native.began, native.total)
             ended == Append(native.ended, Absent)
             shown == Append(native.shown, native.total)
             none == {}
  <2>1. native' = [native EXCEPT !.turn = turn, !.began = began, !.ended = ended,
                                 !.shown = shown, !.ran = FALSE, !.items = none,
                                 !.calls = none, !.asked = none]
    BY <1>1, <1>5 DEF EnterWriter
  <2>2. turn \in Nat /\ began \in Seq(Nat) /\ shown \in Seq(Nat)
    BY <1>3
  <2>3. ended \in Seq(Count)
    BY <1>3 DEF Count
  <2>4. none \in Items /\ none \in SUBSET Ids /\ none \in Asked
    OBVIOUS
  <2> HIDE DEF turn, began, ended, shown, none, Items, Asked
  <2> QED BY <1>1, <2>1, <2>2, <2>3, <2>4
<1>6. CASE ReplySent \/ ReplyFails
  <2>1. native' = native \/ \E r \in replies :
            native' = [native EXCEPT !.asked = {a \in @ : a.request # r.request}]
    BY <1>6 DEF ReplySent, ReplyFails
  <2>2. CASE native' # native
    <3>1. PICK r \in replies : native' = [native EXCEPT !.asked = {a \in @ : a.request # r.request}]
      BY <2>1, <2>2
    <3> DEFINE asked == {a \in native.asked : a.request # r.request}
    <3>2. native' = [native EXCEPT !.asked = asked] /\ asked \in Asked
      BY <1>1, <1>3, <3>1
    <3> HIDE DEF asked, Items, Asked
    <3> QED BY <1>1, <3>2
  <2> QED BY <1>1, <2>2
<1>7. CASE Spends
  <2>1. native' = [native EXCEPT !.total = @ + 1] /\ native.total + 1 \in Nat
    BY <1>3, <1>7 DEF Spends
  <2> HIDE DEF Items, Asked
  <2> QED BY <1>1, <2>1
<1>8. CASE Snapshot
  <2> DEFINE shown == [native.shown EXCEPT ![native.turn] = native.total]
             frames == native.frames + 1
  <2>1. shown \in Seq(Nat) /\ frames \in Nat
    <3>1. shown \in Seq(Nat)
      BY <1>3, SeqReplace, Zenon
    <3> QED BY <1>3, <3>1
  <2>2. \/ native' = [native EXCEPT !.frames = frames, !.shown = shown]
        \/ native' = [native EXCEPT !.frames = frames]
        \/ native' = [native EXCEPT !.frames = frames, !.replayed = TRUE]
    BY <1>1, <1>8 DEF Snapshot
  <2> HIDE DEF Items, Asked, shown, frames
  <2> QED BY <1>1, <2>1, <2>2
<1>9. CASE Emit
  <2>1. PICK m \in Emits(native.turn) : native' = AfterReport(m)
    BY <1>9 DEF Emit
  <2>2. m \in Message
    BY <1>3, <2>1, Emitted DEF TypeOK
  <2> QED BY <1>1, <2>1, <2>2, GhostTyped
<1>10. CASE EmitIdle
  <2>1. native' = [native EXCEPT !.frames = @ + 1] /\ native.frames + 1 \in Nat
    BY <1>3, <1>10 DEF EmitIdle
  <2> HIDE DEF Items, Asked
  <2> QED BY <1>1, <2>1
<1>11. CASE OpenClient \/ VerifyAuth \/ CheckContainment \/ OpenThread \/ OpenFails \/ Acknowledge
  BY <1>4, <1>11 DEF OpenClient, VerifyAuth, CheckContainment, OpenThread, OpenFails,
     Acknowledge
<1>12. CASE PrepareTurn \/ Submit \/ Read \/ TimesOut \/ Revoke \/ CancelReader
  BY <1>4, <1>12 DEF PrepareTurn, Submit, Read, TimesOut, Revoke, CancelReader
<1>13. CASE Close \/ CloseSession \/ ReplyCalls \/ ReplyEnters \/ Drops
  BY <1>4, <1>13 DEF Close, CloseSession, ReplyCalls, ReplyEnters, Drops
<1>14. CASE UNCHANGED vars
  BY <1>4, <1>14 DEF vars
<1> QED BY <1>5, <1>6, <1>7, <1>8, <1>9, <1>10, <1>11, <1>12, <1>13, <1>14, Steps

\* Whatever the reader makes of a message, the state keeps its fields.
LEMMA HeardShaped ==
    ASSUME NEW s, Shaped(s), NEW m \in Message, NEW x \in NotificationEvents(s, m)
    PROVE  Shaped(x) /\ x.writer = s.writer /\ (s.authority => x.authority)
<1>1. CASE m.method \in {"activity", "hook", "diff", "process"}
  BY <1>1, ActsAgree DEF Agree
<1>2. CASE \/ m.method \in {"settings", "rerouted", "turn/started", "inert", "error", "resolved",
                            "request"}
           \/ m.method = "call" /\ ~ Owned
  BY <1>2, NewsAgree DEF Agree
<1>3. CASE m.method = "usage"
  <2>1. Agree([s EXCEPT !.usage = x.usage], x)
    BY <1>3, UsageAgrees
  <2> QED BY <2>1 DEF Agree, Shaped, StateFields
<1>4. CASE m.method = "call" /\ Owned
  <2>1. Agree([s EXCEPT !.tokens = x.tokens, !.minted = x.minted], x)
    BY <1>4, CallEffect
  <2> QED BY <2>1 DEF Agree, Shaped, StateFields
<1>5. CASE m.method = "item/started"
  <2>1. m.type \in Inert \cup Authority
    BY <1>5 DEF Message, Known, TurnScoped
  <2>2. ItemAgree(s, x)
    BY <1>5, <2>1, StartEffect
  <2> QED BY <2>2 DEF ItemAgree, Agree, Shaped, StateFields
<1>6. CASE m.method = "item/completed"
  <2>1. m.type \in Inert \cup Authority \cup {"output"}
    BY <1>6 DEF Message, Known, TurnScoped
  <2>2. CASE m.type = "output"
    BY <1>6, <2>2, OutputEffect DEF Agree
  <2>3. CASE m.type # "output" /\ ~ (Owned /\ m.type = "dynamic")
    <3>1. ItemAgree(s, x)
      BY <1>6, <2>1, <2>3, CompletionEffect
    <3> QED BY <3>1 DEF ItemAgree, Agree, Shaped, StateFields
  <2>4. CASE Owned /\ m.type = "dynamic"
    <3>1. Agree([s EXCEPT !.items = x.items, !.calls = x.calls, !.tokens = x.tokens,
                          !.owed = x.owed], x)
      BY <1>6, <2>4, ToolCompletionEffect
    <3> QED BY <3>1 DEF Agree, Shaped, StateFields
  <2> QED BY <2>1, <2>2, <2>3, <2>4
<1>7. CASE m.method = "raw"
  <2>1. m.type \in {"function_call", "function_call_output", "custom_tool_call"}
    BY <1>7 DEF Message, Known, TurnScoped
  <2>2. Agree([s EXCEPT !.unpublished = x.unpublished], x)
    BY <1>7, <2>1, RawEffect
  <2> QED BY <2>2 DEF Agree, Shaped, StateFields
<1>8. CASE IsOver(m)
  BY ZenonT(40), <1>8, TerminalEffect
<1>9. CASE m.method \in {"forbidden", "failure"}
  BY <1>9 DEF NotificationEvents, NotificationEvent
<1> QED BY <1>1, <1>2, <1>3, <1>4, <1>5, <1>6, <1>7, <1>8, <1>9
        DEF Message, Methods, TurnScoped, IsOver

\* Whatever the reader makes of a message, part by part.
ItemsEffect(s, m, x) ==
    /\ \A y \in s.items : y \in x.items \/ (Completes(m, y.id) /\ m.type = y.type)
    /\ m.method = "item/started" => [id |-> m.id, type |-> m.type] \in x.items

NewCall(m, call) ==
    /\ Owned /\ m.method = "item/started" /\ m.type = "dynamic"
    /\ call = [id |-> m.id, written |-> FALSE]
CallsEffect(s, m, x) ==
    \A call \in x.calls :
        \/ call \in s.calls /\ ~ (Owned /\ Completes(m, call.id) /\ m.type = "dynamic")
        \/ NewCall(m, call)

Minted(s, m) == [token |-> s.minted + 1, call |-> m.type, request |-> m.id, attempted |-> FALSE]
TokensEffect(s, m, x) ==
    /\ \A t \in x.tokens :
          \/ t \in s.tokens /\ ~ (Owned /\ Completes(m, t.call) /\ m.type = "dynamic")
          \/ /\ Owned /\ Calls(m) /\ t = Minted(s, m)
             /\ x.minted = s.minted + 1 /\ \E call \in s.calls : call.id = m.type
    /\ \A t \in s.tokens : t \in x.tokens \/ t.request \notin x.owed
    /\ Owned /\ Calls(m) => /\ Minted(s, m) \in x.tokens
                            /\ \E call \in s.calls : call.id = m.type
    /\ x.minted \in {s.minted, s.minted + 1}
    /\ x.owed \subseteq s.owed

UnpublishedEffect(s, m, x) ==
    /\ \A f \in s.unpublished : f \in x.unpublished \/ Answers(m, f)
    /\ \A f : Asks(m, f) => f \in x.unpublished

AuthorityEffect(s, m, x) ==
    /\ s.authority => x.authority
    /\ Acts(m) => x.authority
    /\ Answers(m, m.id) /\ m.id \in s.unpublished /\ m.detail # "refused" => x.authority

UsageEffect(s, m, x) ==
    x.usage \in IF IsOver(m) THEN {FinishTurn(s.usage)}
                ELSE IF Snapped(m) THEN Observe(s.usage, m.detail) ELSE {s.usage}

Effect(s, m, x) ==
    /\ Shaped(x) /\ x.writer = s.writer
    /\ m.method \notin {"forbidden", "failure"}
    /\ IF IsOver(m) THEN x.terminal = Terminal(m.detail, s.usage.local, TRUE)
       ELSE x.terminal = s.terminal
    /\ ItemsEffect(s, m, x) /\ CallsEffect(s, m, x) /\ TokensEffect(s, m, x)
    /\ UnpublishedEffect(s, m, x) /\ AuthorityEffect(s, m, x) /\ UsageEffect(s, m, x)

\* What agrees with a message has its effect.
LEMMA AgreeIsEffect ==
    ASSUME NEW s, NEW m, NEW x, Agree(s, x), Acts(m) => x.authority, UsageEffect(s, m, x),
           ~ IsOver(m), ~ (Owned /\ Calls(m)), m.method # "item/started",
           m.method \notin {"forbidden", "failure"}, m.method # "raw",
           m.method = "item/completed" => m.type = "output"
    PROVE  Effect(s, m, x)
<1> USE DEF Agree
<1>1. ItemsEffect(s, m, x)
  BY DEF ItemsEffect
<1>2. CallsEffect(s, m, x)
  BY DEF CallsEffect, Completes
<1>3. TokensEffect(s, m, x)
  BY DEF TokensEffect, Completes
<1>4. UnpublishedEffect(s, m, x)
  BY DEF UnpublishedEffect, Asks
<1>5. AuthorityEffect(s, m, x)
  BY DEF AuthorityEffect, Answers
<1> QED BY <1>1, <1>2, <1>3, <1>4, <1>5 DEF Effect

\* Only snapshots and the end of a turn are about usage.
LEMMA HeardUsage ==
    ASSUME NEW s, Shaped(s), NEW m \in Message, NEW x \in NotificationEvents(s, m)
    PROVE  UsageEffect(s, m, x)
<1> USE DEF UsageEffect, IsOver, Snapped
<1>1. CASE m.method \in {"activity", "hook", "diff", "process"}
  BY <1>1, ActsAgree DEF Agree
<1>2. CASE \/ m.method \in {"settings", "rerouted", "turn/started", "inert", "error", "resolved",
                            "request"}
           \/ m.method = "call" /\ ~ Owned
  BY <1>2, NewsAgree DEF Agree
<1>3. CASE m.method = "usage"
  BY <1>3, UsageAgrees
<1>4. CASE m.method = "call" /\ Owned
  <2>1. Agree([s EXCEPT !.tokens = x.tokens, !.minted = x.minted], x)
    BY <1>4, CallEffect
  <2> QED BY <1>4, <2>1 DEF Agree, Shaped, StateFields
<1>5. CASE m.method = "item/started"
  <2>1. m.type \in Inert \cup Authority
    BY <1>5 DEF Message, Known, TurnScoped
  <2>2. ItemAgree(s, x)
    BY <1>5, <2>1, StartEffect
  <2> QED BY <1>5, <2>2 DEF ItemAgree, Agree, Shaped, StateFields
<1>6. CASE m.method = "item/completed"
  <2>1. m.type \in Inert \cup Authority \cup {"output"}
    BY <1>6 DEF Message, Known, TurnScoped
  <2>2. CASE m.type = "output"
    BY <1>6, <2>2, OutputEffect DEF Agree
  <2>3. CASE m.type # "output" /\ ~ (Owned /\ m.type = "dynamic")
    <3>1. ItemAgree(s, x)
      BY <1>6, <2>1, <2>3, CompletionEffect
    <3> QED BY <1>6, <3>1 DEF ItemAgree, Agree, Shaped, StateFields
  <2>4. CASE Owned /\ m.type = "dynamic"
    <3>1. Agree([s EXCEPT !.items = x.items, !.calls = x.calls, !.tokens = x.tokens,
                          !.owed = x.owed], x)
      BY <1>6, <2>4, ToolCompletionEffect
    <3> QED BY <1>6, <3>1 DEF Agree, Shaped, StateFields
  <2> QED BY <2>1, <2>2, <2>3, <2>4
<1>7. CASE m.method = "raw"
  <2>1. m.type \in {"function_call", "function_call_output", "custom_tool_call"}
    BY <1>7 DEF Message, Known, TurnScoped
  <2>2. Agree([s EXCEPT !.unpublished = x.unpublished], x)
    BY <1>7, <2>1, RawEffect
  <2> QED BY <1>7, <2>2 DEF Agree, Shaped, StateFields
<1>8. CASE m.method = "turn/completed"
  BY ZenonT(40), <1>8, TerminalEffect
<1>9. CASE m.method \in {"forbidden", "failure"}
  BY <1>9 DEF NotificationEvents, NotificationEvent
<1> QED BY <1>1, <1>2, <1>3, <1>4, <1>5, <1>6, <1>7, <1>8, <1>9
        DEF Message, Methods, TurnScoped

\* A message that is heard has the effect its method says.
LEMMA HeardEffect ==
    ASSUME NEW s, Shaped(s), NEW m \in Message, NEW x \in NotificationEvents(s, m)
    PROVE  Effect(s, m, x)
<1>0. Shaped(x) /\ x.writer = s.writer /\ (s.authority => x.authority) /\ UsageEffect(s, m, x)
  BY HeardShaped, HeardUsage
<1>1. CASE m.method \in {"activity", "hook", "diff", "process"}
  <2>1. Agree(s, x) /\ x.authority
    BY <1>1, ActsAgree
  <2> QED BY <1>0, <1>1, <2>1, AgreeIsEffect DEF IsOver, Calls
<1>2. CASE \/ m.method \in {"settings", "rerouted", "turn/started", "inert", "error", "resolved",
                            "request"}
           \/ m.method = "call" /\ ~ Owned
  <2>1. Agree(s, x)
    BY <1>2, NewsAgree
  <2>2. ~ Acts(m)
    BY <1>2 DEF Acts
  <2> QED BY <1>0, <1>2, <2>1, <2>2, AgreeIsEffect DEF IsOver, Calls
<1>3. CASE m.method = "usage"
  <2>1. Agree([s EXCEPT !.usage = x.usage], x)
    BY <1>3, UsageAgrees
  <2>2. /\ x.items = s.items /\ x.calls = s.calls /\ x.tokens = s.tokens
        /\ x.minted = s.minted /\ x.owed = s.owed /\ x.unpublished = s.unpublished
        /\ x.terminal = s.terminal
    BY <2>1 DEF Agree, Shaped, StateFields
  <2>3. /\ \A id : ~ Completes(m, id)
        /\ ~ IsOver(m) /\ ~ Acts(m) /\ ~ Calls(m)
        /\ \A f : ~ Asks(m, f) /\ ~ Answers(m, f)
    BY <1>3 DEF Completes, IsOver, Acts, Calls, Asks, Answers
  <2>4. ItemsEffect(s, m, x) /\ CallsEffect(s, m, x)
    BY <1>3, <2>2, <2>3 DEF ItemsEffect, CallsEffect
  <2>5. TokensEffect(s, m, x) /\ UnpublishedEffect(s, m, x) /\ AuthorityEffect(s, m, x)
    BY <1>0, <2>2, <2>3 DEF TokensEffect, UnpublishedEffect, AuthorityEffect
  <2> QED BY <1>0, <1>3, <2>2, <2>3, <2>4, <2>5 DEF Effect
<1>4. CASE m.method = "call" /\ Owned
  <2>1. /\ \E call \in s.calls : call.id = m.type
        /\ x.tokens = s.tokens \cup {Minted(s, m)} /\ x.minted = s.minted + 1
        /\ Agree([s EXCEPT !.tokens = x.tokens, !.minted = x.minted], x)
    BY <1>4, CallEffect DEF Minted
  <2>2. /\ x.items = s.items /\ x.calls = s.calls /\ x.owed = s.owed
        /\ x.unpublished = s.unpublished /\ x.terminal = s.terminal
    BY <2>1 DEF Agree, Shaped, StateFields
  <2>3. /\ \A id : ~ Completes(m, id)
        /\ ~ IsOver(m) /\ ~ Acts(m) /\ Calls(m)
        /\ \A f : ~ Asks(m, f) /\ ~ Answers(m, f)
    BY <1>4 DEF Completes, IsOver, Acts, Calls, Asks, Answers
  <2>4. ItemsEffect(s, m, x) /\ CallsEffect(s, m, x)
    BY <1>4, <2>2, <2>3 DEF ItemsEffect, CallsEffect
  <2>5. UnpublishedEffect(s, m, x) /\ AuthorityEffect(s, m, x)
    BY <1>0, <2>2, <2>3 DEF UnpublishedEffect, AuthorityEffect
  <2>6. TokensEffect(s, m, x)
    BY <1>4, <2>1, <2>2, <2>3 DEF TokensEffect
  <2> QED BY <1>0, <1>4, <2>2, <2>3, <2>4, <2>5, <2>6 DEF Effect
<1>5. CASE m.method = "item/started"
  <2>1. m.type \in Inert \cup Authority
    BY <1>5 DEF Message, Known, TurnScoped
  <2>2. /\ ItemAgree(s, x) /\ x.items = s.items \cup {[id |-> m.id, type |-> m.type]}
        /\ \/ x.calls = s.calls
           \/ /\ Owned /\ m.type = "dynamic"
              /\ x.calls = s.calls \cup {[id |-> m.id, written |-> FALSE]}
        /\ Acts(m) => x.authority
    BY <1>5, <2>1, StartEffect
  <2>3. /\ x.tokens = s.tokens /\ x.minted = s.minted /\ x.owed = s.owed
        /\ x.unpublished = s.unpublished /\ x.terminal = s.terminal
    BY <2>2 DEF ItemAgree, Agree, Shaped, StateFields
  <2>4. /\ \A id : ~ Completes(m, id)
        /\ ~ IsOver(m) /\ ~ Calls(m)
        /\ \A f : ~ Asks(m, f) /\ ~ Answers(m, f)
    BY <1>5 DEF Completes, IsOver, Calls, Asks, Answers
  <2>5. ItemsEffect(s, m, x)
    BY <2>2 DEF ItemsEffect
  <2>6. CallsEffect(s, m, x)
    BY <1>5, <2>2, <2>4 DEF CallsEffect, NewCall
  <2>7. TokensEffect(s, m, x) /\ UnpublishedEffect(s, m, x) /\ AuthorityEffect(s, m, x)
    BY <1>0, <2>2, <2>3, <2>4 DEF TokensEffect, UnpublishedEffect, AuthorityEffect
  <2> QED BY <1>0, <1>5, <2>3, <2>4, <2>5, <2>6, <2>7 DEF Effect
<1>6. CASE m.method = "item/completed"
  <2>1. m.type \in Inert \cup Authority \cup {"output"}
    BY <1>6 DEF Message, Known, TurnScoped
  <2>2. /\ ~ IsOver(m) /\ ~ Calls(m) /\ ~ Acts(m) /\ m.method # "item/started"
        /\ \A f : ~ Asks(m, f) /\ ~ Answers(m, f)
    BY <1>6 DEF IsOver, Calls, Acts, Asks, Answers
  <2>3. CASE m.type = "output"
    <3>1. Agree(s, x)
      BY <1>6, <2>3, OutputEffect
    <3> QED BY <1>0, <1>6, <2>2, <2>3, <3>1, AgreeIsEffect
  <2>4. CASE m.type # "output" /\ ~ (Owned /\ m.type = "dynamic")
    <3>1. /\ \A i \in s.items : i.id = m.id => i = [id |-> m.id, type |-> m.type]
          /\ x.items = {i \in s.items : i.id # m.id} /\ x.calls = s.calls
          /\ ItemAgree(s, x)
      BY <1>6, <2>1, <2>4, CompletionEffect
    <3>2. /\ x.tokens = s.tokens /\ x.minted = s.minted /\ x.owed = s.owed
          /\ x.unpublished = s.unpublished /\ x.terminal = s.terminal
      BY <3>1 DEF ItemAgree, Agree, Shaped, StateFields
    <3>3. ItemsEffect(s, m, x)
      BY <1>6, <3>1 DEF ItemsEffect, Completes
    <3>4. CallsEffect(s, m, x)
      BY <2>4, <3>1 DEF CallsEffect
    <3>5. TokensEffect(s, m, x) /\ UnpublishedEffect(s, m, x) /\ AuthorityEffect(s, m, x)
      BY <1>0, <2>2, <2>4, <3>2 DEF TokensEffect, UnpublishedEffect, AuthorityEffect
    <3> QED BY <1>0, <1>6, <2>2, <3>2, <3>3, <3>4, <3>5 DEF Effect
  <2>5. CASE Owned /\ m.type = "dynamic"
    <3>1. /\ \A i \in s.items : i.id = m.id => i = [id |-> m.id, type |-> m.type]
          /\ x.items = {i \in s.items : i.id # m.id}
          /\ x.calls = {call \in s.calls : call.id # m.id}
          /\ x.tokens = {t \in s.tokens : t.call # m.id}
          /\ \A r \in x.owed : r \in s.owed /\ \A t \in s.tokens : t.request = r => t.call # m.id
          /\ Agree([s EXCEPT !.items = x.items, !.calls = x.calls, !.tokens = x.tokens,
                             !.owed = x.owed], x)
      BY <1>6, <2>5, ToolCompletionEffect
    <3>2. /\ x.minted = s.minted /\ x.unpublished = s.unpublished /\ x.terminal = s.terminal
      BY <3>1 DEF Agree, Shaped, StateFields
    <3>3. ItemsEffect(s, m, x)
      BY <1>6, <3>1 DEF ItemsEffect, Completes
    <3>4. CallsEffect(s, m, x)
      BY <3>1 DEF CallsEffect, Completes
    <3>5. TokensEffect(s, m, x)
      BY <2>2, <3>1, <3>2 DEF TokensEffect, Completes
    <3>6. UnpublishedEffect(s, m, x) /\ AuthorityEffect(s, m, x)
      BY <1>0, <2>2, <3>2 DEF UnpublishedEffect, AuthorityEffect
    <3> QED BY <1>0, <1>6, <2>2, <3>2, <3>3, <3>4, <3>5, <3>6 DEF Effect
  <2> QED BY <2>1, <2>3, <2>4, <2>5
<1>7. CASE m.method = "raw"
  <2>1. m.type \in {"function_call", "function_call_output", "custom_tool_call"}
    BY <1>7 DEF Message, Known, TurnScoped
  <2>2. /\ Agree([s EXCEPT !.unpublished = x.unpublished], x)
        /\ \A f : f \in s.unpublished /\ ~ Answers(m, f) => f \in x.unpublished
        /\ \A f : Asks(m, f) => f \in x.unpublished
        /\ Acts(m) => x.authority
        /\ Answers(m, m.id) /\ m.id \in s.unpublished /\ m.detail # "refused" => x.authority
    BY <1>7, <2>1, RawEffect
  <2>3. /\ x.items = s.items /\ x.calls = s.calls /\ x.tokens = s.tokens
        /\ x.minted = s.minted /\ x.owed = s.owed /\ x.terminal = s.terminal
    BY <2>2 DEF Agree, Shaped, StateFields
  <2>4. /\ \A id : ~ Completes(m, id)
        /\ ~ IsOver(m) /\ ~ Calls(m)
    BY <1>7 DEF Completes, IsOver, Calls
  <2>5. ItemsEffect(s, m, x) /\ CallsEffect(s, m, x)
    BY <1>7, <2>3, <2>4 DEF ItemsEffect, CallsEffect
  <2>6. TokensEffect(s, m, x)
    BY <2>3, <2>4 DEF TokensEffect
  <2>7. UnpublishedEffect(s, m, x) /\ AuthorityEffect(s, m, x)
    BY <1>0, <2>2 DEF UnpublishedEffect, AuthorityEffect
  <2> QED BY <1>0, <1>7, <2>3, <2>4, <2>5, <2>6, <2>7 DEF Effect
<1>8. CASE IsOver(m)
  <2>1. /\ x.items = s.items /\ x.calls = s.calls /\ x.tokens = s.tokens
        /\ x.minted = s.minted /\ x.owed = s.owed /\ x.unpublished = s.unpublished
        /\ x.terminal = Terminal(m.detail, s.usage.local, TRUE)
    BY <1>8, TerminalEffect DEF Terminal
  <2>2. /\ \A id : ~ Completes(m, id)
        /\ ~ Acts(m) /\ ~ Calls(m) /\ m.method \notin {"item/started", "forbidden", "failure"}
        /\ \A f : ~ Asks(m, f) /\ ~ Answers(m, f)
    BY <1>8 DEF Completes, IsOver, Acts, Calls, Asks, Answers
  <2>3. ItemsEffect(s, m, x) /\ CallsEffect(s, m, x)
    BY <2>1, <2>2 DEF ItemsEffect, CallsEffect
  <2>4. TokensEffect(s, m, x) /\ UnpublishedEffect(s, m, x) /\ AuthorityEffect(s, m, x)
    BY <1>0, <2>1, <2>2 DEF TokensEffect, UnpublishedEffect, AuthorityEffect
  <2> QED BY <1>0, <1>8, <2>1, <2>2, <2>3, <2>4 DEF Effect
<1>9. CASE m.method \in {"forbidden", "failure"}
  BY <1>9 DEF NotificationEvents, NotificationEvent
<1> QED BY <1>1, <1>2, <1>3, <1>4, <1>5, <1>6, <1>7, <1>8, <1>9
        DEF Message, Methods, TurnScoped, IsOver

\* A turn that ends without a verdict of its own leaves what concerns the server.
Untouched(s, x) ==
    /\ Shaped(x) /\ s.items \subseteq x.items
    /\ x.calls = s.calls /\ x.tokens = s.tokens /\ x.minted = s.minted /\ x.owed = s.owed
    /\ x.unpublished = s.unpublished /\ x.writer = s.writer /\ x.authority = s.authority

\* A message is read: it fails the turn, or has the effect that it should.
LEMMA ReadSteps ==
    ASSUME TypeOK, Read, NEW m, m = Head(Box)
    PROVE  /\ pc = "reading" /\ Box # <<>> /\ client'.inbox = Tail(Box) /\ m \in Message
           /\ UNCHANGED <<native, setup, replies>>
           /\ \/ /\ pc' = "ended" /\ Untouched(state, state') /\ state'.terminal = state.terminal
                 /\ UNCHANGED charged
                 /\ \/ state'.usage = state.usage
                    \/ IsOver(m) /\ state'.usage = FinishTurn(state.usage)
              \/ /\ pc' = IF IsOver(m) THEN "ended" ELSE "reading"
                 /\ Effect(state, m, state')
                 /\ charged' = IF ~ IsOver(m) THEN charged
                               ELSE [charged EXCEPT ![Len(native.began)] = state.usage.local]
                 /\ IsOver(m) => /\ state.writer /\ state'.items = state.items
                                 /\ state'.tokens = state.tokens /\ state'.owed = state.owed
                                 /\ setup.contained => ~ state.authority /\ state.unpublished = {}
<1>1. /\ pc = "reading" /\ Box # <<>> /\ client'.inbox = Tail(Box)
      /\ UNCHANGED <<native, setup, replies>>
  BY DEF Read, Box, TypeOK, SessionType
<1>2. m \in Message
  <2>1. Box \in Seq(Message)
    BY DEF TypeOK, SessionType, Box
  <2> QED BY <1>1, <2>1, SeqTail
<1> DEFINE s == Bound(state, m)
<1>3. Shaped(state) /\ Agree(state, s) /\ s.authority = state.authority
  BY BoundAgrees DEF TypeOK
<1>4. \/ Heard(state, m) = {} /\ Ends([s EXCEPT
                        !.items = IF m.method # "item/started" THEN @
                                  ELSE @ \cup {[id |-> m.id, type |-> m.type]},
                        !.requests = IF m.method \notin {"call", "request"} THEN @
                                     ELSE @ \cup {m.id},
                        !.usage = IF m.method # "turn/completed"
                                    \/ NotificationEvents(s, m) = {} THEN @
                                  ELSE FinishTurn(@)])
         /\ UNCHANGED charged
      \/ \E x \in Heard(state, m) :
            IF IsOver(m)
            THEN Ends(x) /\ charged' = [charged EXCEPT ![Len(native.began)] = x.terminal.usage]
            ELSE state' = x /\ pc' = pc /\ charged' = charged
  BY DEF Read, Box, IsOver
<1>5. CASE UNCHANGED charged /\ Ends([s EXCEPT !.items = IF m.method # "item/started" THEN @
                                  ELSE @ \cup {[id |-> m.id, type |-> m.type]},
                        !.requests = IF m.method \notin {"call", "request"} THEN @
                                     ELSE @ \cup {m.id},
                        !.usage = IF m.method # "turn/completed"
                                    \/ NotificationEvents(s, m) = {} THEN @
                                  ELSE FinishTurn(@)])
  <2> DEFINE items == IF m.method # "item/started" THEN s.items
                      ELSE s.items \cup {[id |-> m.id, type |-> m.type]}
             requests == IF m.method \notin {"call", "request"} THEN s.requests
                         ELSE s.requests \cup {m.id}
             usage == IF m.method # "turn/completed" \/ NotificationEvents(s, m) = {} THEN s.usage
                      ELSE FinishTurn(s.usage)
             left == [s EXCEPT !.items = items, !.requests = requests, !.usage = usage]
  <2>1. Ends(left)
    BY <1>5
  <2>6. s.items \subseteq items
    OBVIOUS
  <2> HIDE DEF s, items, requests, usage
  <2>2. Untouched(s, left) /\ left.terminal = s.terminal /\ left.usage = usage
    BY <1>3, <2>6 DEF Untouched, Agree, Shaped, StateFields
  <2> HIDE DEF left
  <2>3. pc' = "ended" /\ (state' = left \/ state' = [left EXCEPT !.revoked = TRUE])
    BY <2>1 DEF Ends
  <2>4. Untouched(s, state') /\ state'.terminal = s.terminal /\ state'.usage = usage
    BY <2>2, <2>3 DEF Untouched, Shaped, StateFields
  <2>5. Untouched(state, state') /\ state'.terminal = state.terminal
    BY <1>3, <2>4 DEF Untouched, Agree
  <2>7. state'.usage = state.usage \/ (IsOver(m) /\ state'.usage = FinishTurn(state.usage))
    BY <1>3, <2>4 DEF usage, Agree, IsOver
  <2> QED BY <1>1, <1>2, <1>5, <2>3, <2>5, <2>7
<1>6. ASSUME NEW x \in Heard(state, m),
             IF IsOver(m)
             THEN Ends(x) /\ charged' = [charged EXCEPT ![Len(native.began)] = x.terminal.usage]
             ELSE state' = x /\ pc' = pc /\ charged' = charged
      PROVE  /\ pc' = IF IsOver(m) THEN "ended" ELSE "reading"
             /\ Effect(state, m, state')
             /\ charged' = IF ~ IsOver(m) THEN charged
                           ELSE [charged EXCEPT ![Len(native.began)] = state.usage.local]
             /\ IsOver(m) => /\ state.writer /\ state'.items = state.items
                             /\ state'.tokens = state.tokens /\ state'.owed = state.owed
                             /\ setup.contained => ~ state.authority /\ state.unpublished = {}
  <2>1. x \in NotificationEvents(s, m) /\ (IsOver(m) => x.writer)
    BY DEF Heard, Accepts, IsOver
  <2> HIDE DEF s
  <2>2. Effect(s, m, x)
    BY <1>2, <1>3, <2>1, HeardEffect DEF Agree
  <2>3. state' = x /\ pc' = IF IsOver(m) THEN "ended" ELSE "reading"
    BY <1>1, <1>6, <2>1 DEF Ends
  <2>4. /\ s.items = state.items /\ s.calls = state.calls /\ s.tokens = state.tokens
        /\ s.minted = state.minted /\ s.owed = state.owed /\ s.unpublished = state.unpublished
        /\ s.usage = state.usage /\ s.writer = state.writer /\ s.terminal = state.terminal
        /\ s.authority = state.authority
    BY <1>3 DEF Agree
  <2>5. Effect(state, m, x)
    <3>1. ItemsEffect(state, m, x) /\ CallsEffect(state, m, x)
      BY <2>2, <2>4 DEF Effect, ItemsEffect, CallsEffect
    <3>2. TokensEffect(state, m, x)
      BY <2>2, <2>4 DEF Effect, TokensEffect, Minted
    <3>3. UnpublishedEffect(state, m, x) /\ AuthorityEffect(state, m, x)
      BY <2>2, <2>4 DEF Effect, UnpublishedEffect, AuthorityEffect
    <3> QED BY <2>2, <2>4, <3>1, <3>2, <3>3 DEF Effect, Terminal, UsageEffect
  <2>6. IsOver(m) => /\ x.items = state.items /\ x.tokens = state.tokens
                     /\ x.owed = state.owed
                     /\ setup.contained => ~ state.authority /\ state.unpublished = {}
    <3>1. ASSUME IsOver(m) PROVE /\ x.items = s.items /\ x.tokens = s.tokens /\ x.owed = s.owed
                                 /\ setup.contained => ~ s.authority /\ s.unpublished = {}
      BY <1>3, <2>1, <3>1, TerminalEffect DEF Agree
    <3> QED BY <2>4, <3>1
  <2>7. charged' = IF ~ IsOver(m) THEN charged
                   ELSE [charged EXCEPT ![Len(native.began)] = state.usage.local]
    BY <1>6, <2>5 DEF Effect, Terminal
  <2>8. IsOver(m) => state.writer
    BY <2>1, <2>2, <2>4 DEF Effect
  <2> QED BY <2>3, <2>5, <2>6, <2>7, <2>8
<1> QED BY <1>1, <1>2, <1>4, <1>5, <1>6

\* The session's state keeps its fields.
LEMMA ShapedStep == ASSUME TypeOK, [Next]_vars PROVE Shaped(state)'
<1> SUFFICES Shaped(state')
  BY DEF Shaped, StateFields
<1>1. Shaped(state)
  BY DEF TypeOK
<1>2. CASE UNCHANGED state
  BY <1>1, <1>2
<1>3. CASE OpenThread
  BY <1>3 DEF OpenThread, Cleared, Shaped, StateFields
<1>4. CASE PrepareTurn
  <2> DEFINE cleared == Cleared(BeginTurn(state.usage), state.owed)
  <2>1. UNCHANGED state \/ state' = [cleared EXCEPT !.minted = state.minted]
    BY <1>4 DEF PrepareTurn
  <2>2. Shaped(cleared)
    BY DEF Cleared, Shaped, StateFields
  <2> HIDE DEF cleared
  <2> QED BY <1>1, <2>1, <2>2 DEF Shaped, StateFields
<1>5. CASE EnterWriter
  BY <1>1, <1>5 DEF EnterWriter, Shaped, StateFields
<1>6. CASE Acknowledge
  BY <1>1, <1>6 DEF Acknowledge, Shaped, StateFields
<1>7. CASE Read
  BY <1>7, ReadSteps DEF Effect, Untouched
<1>8. CASE TimesOut
  <2> DEFINE terminal == Terminal("failed", state.usage.local, FALSE)
             usage == FinishTurn(state.usage)
             left == [state EXCEPT !.terminal = terminal, !.usage = usage]
  <2>1. Ends(left) \/ Ends(state)
    BY <1>8 DEF TimesOut
  <2> HIDE DEF terminal, usage
  <2>2. Shaped(left)
    BY <1>1 DEF Shaped, StateFields
  <2> HIDE DEF left
  <2> QED BY <1>1, <2>1, <2>2 DEF Ends, Shaped, StateFields
<1>9. CASE Revoke
  BY <1>1, <1>9 DEF Revoke, Shaped, StateFields
<1>10. CASE CancelReader
  BY <1>1, <1>10 DEF CancelReader, Ends, Shaped, StateFields
<1>11. CASE Close
  <2> DEFINE usage == AbandonTurn(state.usage)
  <2>1. state' = [state EXCEPT !.usage = usage]
    BY <1>11 DEF Close
  <2> HIDE DEF usage
  <2> QED BY <1>1, <2>1 DEF Shaped, StateFields
<1>12. CASE ReplyCalls
  <2>1. \E tokens : state' = [state EXCEPT !.tokens = tokens]
    BY <1>12 DEF ReplyCalls
  <2> QED BY <1>1, <2>1 DEF Shaped, StateFields
<1>13. CASE ReplyEnters
  <2>1. UNCHANGED state \/ \E calls : state' = [state EXCEPT !.calls = calls]
    BY <1>13 DEF ReplyEnters
  <2> QED BY <1>1, <2>1 DEF Shaped, StateFields
<1>14. CASE ReplySent
  <2>1. PICK r \in replies :
            state' = [state EXCEPT !.owed = @ \ {r.request}, !.requests = @ \ {r.request},
                                   !.tokens = {t \in @ : t.token # r.token}]
    BY <1>14 DEF ReplySent
  <2> DEFINE tokens == {t \in state.tokens : t.token # r.token}
  <2>2. state' = [state EXCEPT !.owed = @ \ {r.request}, !.requests = @ \ {r.request},
                               !.tokens = tokens]
    BY <2>1
  <2> HIDE DEF tokens
  <2> QED BY <1>1, <2>2 DEF Shaped, StateFields
<1>15. CASE Emit
  <2>1. \E owed : state' = [state EXCEPT !.owed = owed]
    BY <1>15 DEF Emit
  <2> QED BY <1>1, <2>1 DEF Shaped, StateFields
<1>16. CASE OpenClient \/ VerifyAuth \/ CheckContainment \/ OpenFails \/ Submit \/ CloseSession
  BY <1>2, <1>16 DEF OpenClient, VerifyAuth, CheckContainment, OpenFails, Submit, CloseSession
<1>17. CASE ReplyFails \/ Spends \/ Snapshot \/ EmitIdle \/ Drops
  BY <1>2, <1>17 DEF ReplyFails, Spends, Snapshot, EmitIdle, Drops
<1>18. CASE UNCHANGED vars
  BY <1>2, <1>18 DEF vars
<1> QED BY <1>3, <1>4, <1>5, <1>6, <1>7, <1>8, <1>9, <1>10, <1>11, <1>12, <1>13, <1>14, <1>15,
           <1>16, <1>17, <1>18, Steps

\* What the host holds, and what the connection may still answer, when no
\* message is read: the fields of the state that an action leaves alone.
Held(s) == <<s.items, s.calls, s.tokens, s.minted, s.owed, s.unpublished, s.authority>>

\* The actions that leave the host's and the server's things alone.
Leaves ==
    \/ OpenClient \/ VerifyAuth \/ CheckContainment \/ OpenFails \/ Submit \/ Acknowledge
    \/ TimesOut \/ Revoke \/ CancelReader \/ Close \/ CloseSession
    \/ Spends \/ Snapshot \/ EmitIdle \/ Drops \/ UNCHANGED vars

\* Steps that hear nothing leave the reader's account of the turn.
LEMMA LeavesSteps ==
    ASSUME TypeOK, Leaves
    PROVE  /\ Held(state') = Held(state) /\ UNCHANGED replies
           /\ state'.writer = state.writer
           /\ state'.terminal = state.terminal \/ (TimesOut /\ ~ state'.terminal.native)
           /\ native'.items = native.items /\ native'.asked = native.asked
           /\ native'.calls = native.calls /\ native'.ran = native.ran
           /\ native'.turn = native.turn
<1>1. Shaped(state)
  BY DEF TypeOK
<1>2. DOMAIN native = {"total", "turn", "began", "ended", "items", "calls", "asked", "ran",
                       "shown", "frames", "replayed"}
  BY DEF TypeOK, NativeType
<1>3. CASE OpenClient \/ VerifyAuth \/ CheckContainment \/ OpenFails \/ Submit \/ CloseSession
           \/ Drops \/ UNCHANGED vars
  BY <1>3 DEF OpenClient, VerifyAuth, CheckContainment, OpenFails, Submit, CloseSession, Drops,
              vars
<1>4. CASE Acknowledge
  BY <1>1, <1>4 DEF Acknowledge, Held, Shaped, StateFields
<1>5. CASE TimesOut
  <2> DEFINE terminal == Terminal("failed", state.usage.local, FALSE)
             usage == FinishTurn(state.usage)
             left == [state EXCEPT !.terminal = terminal, !.usage = usage]
  <2>1. (Ends(left) \/ Ends(state)) /\ UNCHANGED <<replies, native>>
    BY <1>5 DEF TimesOut
  <2> HIDE DEF terminal, usage
  <2>2. Shaped(left) /\ Held(left) = Held(state) /\ left.writer = state.writer
        /\ left.terminal = terminal
    BY <1>1 DEF Shaped, StateFields, Held
  <2>3. ~ terminal.native
    BY DEF terminal, Terminal
  <2> HIDE DEF left
  <2> QED BY <1>1, <1>5, <2>1, <2>2, <2>3 DEF Ends, Shaped, StateFields, Held
<1>6. CASE Revoke
  BY <1>1, <1>6 DEF Revoke, Held, Shaped, StateFields
<1>7. CASE CancelReader
  BY <1>1, <1>7 DEF CancelReader, Ends, Held, Shaped, StateFields
<1>8. CASE Close
  <2> DEFINE usage == AbandonTurn(state.usage)
  <2>1. state' = [state EXCEPT !.usage = usage] /\ UNCHANGED <<replies, native>>
    BY <1>8 DEF Close
  <2> HIDE DEF usage
  <2> QED BY <1>1, <2>1 DEF Held, Shaped, StateFields
<1>9. CASE Spends
  BY <1>2, <1>9 DEF Spends
<1>10. CASE Snapshot
  <2>1. /\ UNCHANGED <<state, replies>>
        /\ \/ \E frames, shown : native' = [native EXCEPT !.frames = frames, !.shown = shown]
           \/ \E frames : native' = [native EXCEPT !.frames = frames]
           \/ \E frames : native' = [native EXCEPT !.frames = frames, !.replayed = TRUE]
    BY <1>2, <1>10 DEF Snapshot, Reports
  <2> QED BY <1>2, <2>1
<1>11. CASE EmitIdle
  BY <1>2, <1>11 DEF EmitIdle, Reports
<1> QED BY <1>3, <1>4, <1>5, <1>6, <1>7, <1>8, <1>9, <1>10, <1>11 DEF Leaves

\* What the other actions make of the state, of the replies and of the server.
LEMMA ClearedEffect ==
    ASSUME TypeOK, OpenThread \/ PrepareTurn
    PROVE  /\ client'.inbox = <<>> /\ UNCHANGED <<replies, native, setup>>
           /\ \/ UNCHANGED <<pc, state>> /\ pc = "idle"
              \/ /\ OpenThread /\ pc = "thread" /\ pc' = "idle"
                 /\ state'.owed = {} /\ state'.minted = 0
                 /\ state'.items = {} /\ state'.calls = {} /\ state'.tokens = {}
                 /\ state'.unpublished = {} /\ state'.writer = FALSE /\ state'.terminal = Absent
              \/ /\ PrepareTurn /\ pc = "idle" /\ pc' = "prepared"
                 /\ state'.owed = state.owed /\ state'.minted = state.minted
                 /\ state'.items = {} /\ state'.calls = {} /\ state'.tokens = {}
                 /\ state'.unpublished = {} /\ state'.writer = FALSE /\ state'.terminal = Absent
<1>1. client'.inbox = <<>>
  BY DEF OpenThread, PrepareTurn, TypeOK, SessionType
<1>2. CASE OpenThread
  BY <1>1, <1>2 DEF OpenThread, Cleared
<1>3. CASE PrepareTurn
  <2> DEFINE cleared == Cleared(BeginTurn(state.usage), state.owed)
  <2>1. /\ pc = "idle" /\ UNCHANGED <<replies, native, setup>>
        /\ \/ UNCHANGED <<pc, state>>
           \/ state' = [cleared EXCEPT !.minted = state.minted] /\ pc' = "prepared"
    BY <1>3 DEF PrepareTurn
  <2>2. /\ Shaped(cleared) /\ cleared.owed = state.owed
        /\ cleared.items = {} /\ cleared.calls = {} /\ cleared.tokens = {}
        /\ cleared.unpublished = {} /\ cleared.writer = FALSE /\ cleared.terminal = Absent
    BY DEF Cleared, Shaped, StateFields
  <2> HIDE DEF cleared
  <2> QED BY <1>1, <1>3, <2>1, <2>2 DEF Shaped, StateFields
<1> QED BY <1>2, <1>3

\* The turn that is sent starts with nothing open.
LEMMA EnterWriterEffect ==
    ASSUME TypeOK, EnterWriter
    PROVE  /\ pc = "reading" /\ ~ state.writer /\ client.usable /\ client' = client
           /\ UNCHANGED <<pc, replies, setup>>
           /\ Held(state') = Held(state) /\ state'.writer = TRUE
           /\ state'.terminal = state.terminal
           /\ native'.items = {} /\ native'.asked = {} /\ native'.calls = {} /\ native'.ran = FALSE
<1>1. Shaped(state) /\ DOMAIN native = {"total", "turn", "began", "ended", "items", "calls",
                                        "asked", "ran", "shown", "frames", "replayed"}
  BY DEF TypeOK, NativeType
<1>2. Held(state') = Held(state) /\ state'.writer = TRUE /\ state'.terminal = state.terminal
  BY <1>1 DEF EnterWriter, Held, Shaped, StateFields
<1> DEFINE turn == Len(native.began) + 1
           began == Append(native.began, native.total)
           ended == Append(native.ended, Absent)
           shown == Append(native.shown, native.total)
<1>3. native' = [native EXCEPT !.turn = turn, !.began = began, !.ended = ended, !.shown = shown,
                               !.ran = FALSE, !.items = {}, !.calls = {}, !.asked = {}]
  BY <1>1 DEF EnterWriter
<1> HIDE DEF turn, began, ended, shown
<1>4. /\ native'.items = {} /\ native'.asked = {} /\ native'.calls = {} /\ native'.ran = FALSE
  BY <1>1, <1>3
<1> QED BY <1>2, <1>4 DEF EnterWriter

\* A reply's attempt is one of a token that the session holds.
LEMMA ReplyCallsEffect ==
    ASSUME TypeOK, ReplyCalls
    PROVE  /\ UNCHANGED <<pc, client, native, setup>> /\ Live
           /\ state'.items = state.items /\ state'.calls = state.calls
           /\ state'.minted = state.minted /\ state'.owed = state.owed
           /\ state'.unpublished = state.unpublished /\ state'.writer = state.writer
           /\ state'.authority = state.authority /\ state'.terminal = state.terminal
           /\ \E t \in state.tokens :
                 /\ state'.tokens = (state.tokens \ {t}) \cup {[t EXCEPT !.attempted = TRUE]}
                 /\ replies' \subseteq replies \cup {[token |-> t.token, call |-> t.call,
                                            request |-> t.request, stage |-> "waiting"]}
<1>1. Shaped(state)
  BY DEF TypeOK
<1>2. PICK t \in state.tokens :
        /\ state' = [state EXCEPT !.tokens = (@ \ {t}) \cup {[t EXCEPT !.attempted = TRUE]}]
        /\ replies' = IF t.request \notin state.owed THEN replies
                      ELSE replies \cup {[token |-> t.token, call |-> t.call,
                                          request |-> t.request, stage |-> "waiting"]}
  BY DEF ReplyCalls
<1> DEFINE tokens == (state.tokens \ {t}) \cup {[t EXCEPT !.attempted = TRUE]}
<1>3. state' = [state EXCEPT !.tokens = tokens]
  BY <1>2
<1>4. state'.tokens = tokens
      /\ state'.items = state.items /\ state'.calls = state.calls
      /\ state'.minted = state.minted /\ state'.owed = state.owed
      /\ state'.unpublished = state.unpublished /\ state'.writer = state.writer
      /\ state'.authority = state.authority /\ state'.terminal = state.terminal
  <2> HIDE DEF tokens
  <2> QED BY <1>1, <1>3 DEF Shaped, StateFields
<1>5. UNCHANGED <<pc, client, native, setup>> /\ Live
  BY DEF ReplyCalls
<1> QED BY <1>2, <1>4, <1>5

\* A reply that enters marks its call and keeps its token.
LEMMA ReplyEntersEffect ==
    ASSUME TypeOK, ReplyEnters
    PROVE  /\ UNCHANGED <<pc, client, native, setup>>
           /\ state'.items = state.items /\ state'.tokens = state.tokens
           /\ state'.minted = state.minted /\ state'.owed = state.owed
           /\ state'.unpublished = state.unpublished /\ state'.writer = state.writer
           /\ state'.authority = state.authority /\ state'.terminal = state.terminal
           /\ \/ state'.calls = state.calls
              \/ \E id : state'.calls = {IF call.id = id THEN [call EXCEPT !.written = TRUE]
                                         ELSE call : call \in state.calls}
           /\ \E r \in replies :
                 replies' \subseteq replies \cup {[r EXCEPT !.stage = "sending"]}
<1>1. Shaped(state)
  BY DEF TypeOK
<1>2. PICK r \in replies :
        \/ /\ state' = [state EXCEPT
                          !.calls = {IF call.id = r.call THEN [call EXCEPT !.written = TRUE]
                                     ELSE call : call \in @}]
           /\ replies' = (replies \ {r}) \cup {[r EXCEPT !.stage = "sending"]}
        \/ replies' = replies \ {r} /\ UNCHANGED state
  BY DEF ReplyEnters
<1>3. UNCHANGED <<pc, client, native, setup>>
  BY DEF ReplyEnters
<1>4. replies' \subseteq replies \cup {[r EXCEPT !.stage = "sending"]}
  BY <1>2
<1>5. CASE UNCHANGED state
  BY <1>3, <1>4, <1>5
<1>6. CASE ~ UNCHANGED state
  <2> DEFINE calls == {IF call.id = r.call THEN [call EXCEPT !.written = TRUE] ELSE call :
                          call \in state.calls}
  <2>1. state' = [state EXCEPT !.calls = calls]
    BY <1>2, <1>6
  <2>2. /\ state'.calls = calls
        /\ state'.items = state.items /\ state'.tokens = state.tokens
        /\ state'.minted = state.minted /\ state'.owed = state.owed
        /\ state'.unpublished = state.unpublished /\ state'.writer = state.writer
        /\ state'.authority = state.authority /\ state'.terminal = state.terminal
    <3> HIDE DEF calls
    <3> QED BY <1>1, <2>1 DEF Shaped, StateFields
  <2> QED BY <1>3, <1>4, <2>2
<1> QED BY <1>5, <1>6

\* A reply that is sent retires its request everywhere.
LEMMA ReplySentEffect ==
    ASSUME TypeOK, ReplySent
    PROVE  /\ UNCHANGED <<pc, client, setup>>
           /\ state'.items = state.items /\ state'.calls = state.calls
           /\ state'.minted = state.minted
           /\ state'.unpublished = state.unpublished /\ state'.writer = state.writer
           /\ state'.authority = state.authority /\ state'.terminal = state.terminal
           /\ native'.items = native.items /\ native'.calls = native.calls
           /\ native'.ran = native.ran /\ native'.turn = native.turn
           /\ \E r \in replies :
                 /\ replies' = replies \ {r}
                 /\ native'.asked = {a \in native.asked : a.request # r.request}
                 /\ state'.owed = state.owed \ {r.request}
                 /\ state'.tokens = {t \in state.tokens : t.token # r.token}
<1>1. Shaped(state) /\ DOMAIN native = {"total", "turn", "began", "ended", "items", "calls",
                                        "asked", "ran", "shown", "frames", "replayed"}
  BY DEF TypeOK, NativeType
<1>2. PICK r \in replies :
        /\ replies' = replies \ {r}
        /\ native' = [native EXCEPT !.asked = {a \in @ : a.request # r.request}]
        /\ state' = [state EXCEPT !.owed = @ \ {r.request}, !.requests = @ \ {r.request},
                                  !.tokens = {t \in @ : t.token # r.token}]
  BY DEF ReplySent
<1> DEFINE tokens == {t \in state.tokens : t.token # r.token}
           owed == state.owed \ {r.request}
           requests == state.requests \ {r.request}
           asked == {a \in native.asked : a.request # r.request}
<1>3. /\ state' = [state EXCEPT !.owed = owed, !.requests = requests, !.tokens = tokens]
      /\ native' = [native EXCEPT !.asked = asked]
  BY <1>2
<1>4. /\ state'.owed = owed /\ state'.tokens = tokens /\ native'.asked = asked
      /\ state'.items = state.items /\ state'.calls = state.calls
      /\ state'.minted = state.minted
      /\ state'.unpublished = state.unpublished /\ state'.writer = state.writer
      /\ state'.authority = state.authority /\ state'.terminal = state.terminal
      /\ native'.items = native.items /\ native'.calls = native.calls
      /\ native'.ran = native.ran /\ native'.turn = native.turn
  <2> HIDE DEF tokens, owed, requests, asked
  <2> QED BY <1>1, <1>3 DEF Shaped, StateFields
<1>5. UNCHANGED <<pc, client, setup>>
  BY DEF ReplySent
<1> QED BY <1>2, <1>4, <1>5

\* A reply that fails may have retired its request at the server only.
LEMMA ReplyFailsEffect ==
    ASSUME TypeOK, ReplyFails
    PROVE  /\ UNCHANGED <<pc, client, state, setup>> /\ replies' \subseteq replies
           /\ native'.items = native.items /\ native'.calls = native.calls
           /\ native'.ran = native.ran /\ native'.turn = native.turn
           /\ native'.asked \subseteq native.asked
<1>1. DOMAIN native = {"total", "turn", "began", "ended", "items", "calls",
                       "asked", "ran", "shown", "frames", "replayed"}
  BY DEF TypeOK, NativeType
<1>2. PICK r \in replies :
        /\ replies' = replies \ {r}
        /\ \/ native' = native
           \/ native' = [native EXCEPT !.asked = {a \in @ : a.request # r.request}]
  BY DEF ReplyFails
<1>3. UNCHANGED <<pc, client, state, setup>>
  BY DEF ReplyFails
<1> DEFINE asked == {a \in native.asked : a.request # r.request}
<1>4. native' = native \/ native' = [native EXCEPT !.asked = asked]
  BY <1>2
<1>5. asked \subseteq native.asked
  OBVIOUS
<1> HIDE DEF asked
<1> QED BY <1>1, <1>2, <1>3, <1>4, <1>5

\* What the server has open after a message of its own.
Ghost(n, m) ==
    /\ \A y \in n.items : \/ y \in native.items /\ ~ (Completes(m, y.id) /\ m.type = y.type)
                          \/ Starts(m, y)
    /\ \A a \in n.asked : \/ /\ a \in native.asked /\ ~ Completes(m, a.item)
                             /\ ~ (m.method = "resolved" /\ a.request = m.id)
                          \/ Calls(m) /\ setup.tools /\ a.item = m.type /\ a.request = m.id
    /\ \A f \in n.calls : (f \in native.calls /\ ~ Answers(m, f)) \/ Asks(m, f)
    /\ IsOver(m) => n.calls = native.calls
    /\ n.ran => \/ native.ran \/ Acts(m)
                \/ Answers(m, m.id) /\ m.detail = "output" /\ m.id \in native.calls
                \/ IsOver(m) /\ native.calls # {}
    /\ n.turn = IF IsOver(m) THEN 0 ELSE native.turn

\* A message that the server sends has the effect on its account that it tells.
LEMMA GhostEffect == ASSUME NativeType, NEW m \in Message PROVE Ghost(AfterReport(m), m)
<1> DEFINE n == AfterReport(m)
           sent == [native EXCEPT !.frames = @ + 1]
<1>1. DOMAIN native = {"total", "turn", "began", "ended", "items", "calls", "asked", "ran",
                       "shown", "frames", "replayed"}
      /\ native.items \subseteq [id : Ids, type : Types]
  BY DEF NativeType
<1>2. /\ DOMAIN sent = DOMAIN native
      /\ sent.items = native.items /\ sent.calls = native.calls /\ sent.asked = native.asked
      /\ sent.ran = native.ran /\ sent.turn = native.turn /\ sent.ended = native.ended
  BY <1>1
<1> HIDE DEF sent
<1> USE DEF IsOver
<1> SUFFICES Ghost(n, m)
  OBVIOUS
<1>3. CASE m.method = "item/started"
  <2> DEFINE items == native.items \cup {Item(m)}
             ran == native.ran \/ (m.type \in Authority /\ ~ (Owned /\ m.type = "dynamic"))
  <2>1. n = [sent EXCEPT !.items = items, !.ran = ran]
    BY <1>2, <1>3 DEF AfterReport, sent
  <2> HIDE DEF n, items, ran
  <2>2. /\ n.items = items /\ n.ran = ran /\ n.calls = native.calls /\ n.asked = native.asked
        /\ n.turn = native.turn
    BY <1>1, <1>2, <2>1
  <2>3. \A y \in n.items : y \in native.items \/ Starts(m, y)
    BY <1>3, <2>2 DEF items, Item, Starts
  <2>4. n.ran => native.ran \/ Acts(m)
    BY <1>3, <2>2 DEF ran, Acts
  <2>5. ~ IsOver(m) /\ \A y : ~ Completes(m, y) /\ ~ Answers(m, y)
    BY <1>3 DEF Completes, Answers
  <2> QED BY <1>3, <2>2, <2>3, <2>4, <2>5 DEF Ghost
<1>4. CASE m.method = "item/completed"
  <2> DEFINE items == native.items \ {Item(m)}
             asked == {a \in native.asked : a.item # m.id}
  <2>1. n = [sent EXCEPT !.items = items, !.asked = asked]
    BY <1>2, <1>4 DEF AfterReport, sent
  <2> HIDE DEF n, items, asked
  <2>2. /\ n.items = items /\ n.ran = native.ran /\ n.calls = native.calls /\ n.asked = asked
        /\ n.turn = native.turn
    BY <1>1, <1>2, <2>1
  <2>3. \A y \in native.items : y.id = m.id /\ y.type = m.type => y = Item(m)
    BY <1>1 DEF Item
  <2> QED BY <1>4, <2>2, <2>3 DEF Ghost, items, asked, Completes, Starts, Calls, Answers,
             Asks, Acts
<1>5. CASE m.method \in {"activity", "hook", "diff", "process"}
  <2>1. n = [sent EXCEPT !.ran = TRUE]
    BY <1>5 DEF AfterReport, sent
  <2> HIDE DEF n
  <2>2. /\ n.items = native.items /\ n.calls = native.calls /\ n.asked = native.asked
        /\ n.turn = native.turn
    BY <1>1, <1>2, <2>1
  <2> QED BY <1>5, <2>2 DEF Ghost, Completes, Starts, Calls, Answers, Asks, Acts
<1>6. CASE m.method = "raw"
  <2> DEFINE calls == native.calls \cup {m.id}
             answered == native.calls \ {m.id}
             ran == native.ran \/ (m.detail = "output" /\ m.id \in native.calls)
  <2>1. \/ m.type = "custom_tool_call" /\ n = [sent EXCEPT !.ran = TRUE]
        \/ /\ m.type = "function_call" /\ m.detail = "unpublished"
           /\ n = [sent EXCEPT !.calls = calls]
        \/ m.type = "function_call_output" /\ n = [sent EXCEPT !.ran = ran, !.calls = answered]
        \/ m.type \notin {"custom_tool_call", "function_call_output"} /\ n = sent
    BY <1>2, <1>6 DEF AfterReport, sent
  <2> HIDE DEF n, calls, answered, ran
  <2>2. /\ n.items = native.items /\ n.asked = native.asked /\ n.turn = native.turn
        /\ \/ m.type = "custom_tool_call" /\ n.calls = native.calls
           \/ /\ m.type = "function_call" /\ m.detail = "unpublished"
              /\ n.calls = calls /\ n.ran = native.ran
           \/ m.type = "function_call_output" /\ n.calls = answered /\ n.ran = ran
           \/ /\ m.type \notin {"custom_tool_call", "function_call_output"}
              /\ n.calls = native.calls /\ n.ran = native.ran
    BY <1>1, <1>2, <2>1
  <2> QED BY <1>6, <2>2 DEF Ghost, calls, answered, ran, Completes, Starts, Calls, Answers,
             Asks, Acts
<1>7. CASE m.method \in {"call", "resolved"}
  <2> DEFINE more == native.asked \cup {[request |-> m.id, item |-> m.type]}
             less == {a \in native.asked : a.request # m.id}
  <2>1. \/ m.method = "call" /\ setup.tools /\ n = [sent EXCEPT !.asked = more]
        \/ m.method = "resolved" /\ n = [sent EXCEPT !.asked = less]
        \/ m.method = "call" /\ n = sent
    BY <1>2, <1>7 DEF AfterReport, sent
  <2> HIDE DEF n, more, less
  <2>2. /\ n.items = native.items /\ n.calls = native.calls /\ n.turn = native.turn
        /\ n.ran = native.ran
        /\ \/ m.method = "call" /\ setup.tools /\ n.asked = more
           \/ m.method = "resolved" /\ n.asked = less
           \/ m.method = "call" /\ n.asked = native.asked
    BY <1>1, <1>2, <2>1
  <2> QED BY <1>7, <2>2 DEF Ghost, more, less, Completes, Starts, Calls, Answers, Asks, Acts
<1>8. CASE m.method = "turn/completed"
  <2> DEFINE ended == [native.ended EXCEPT ![native.turn] = native.total]
             ran == native.ran \/ native.calls # {}
             zero == 0
  <2>1. n = [sent EXCEPT !.ended[native.turn] = native.total, !.turn = 0,
                         !.ran = @ \/ native.calls # {}]
    BY <1>8 DEF AfterReport, sent
  <2>2. n = [sent EXCEPT !.ended = ended, !.turn = zero, !.ran = ran]
    BY <1>1, <1>2, <2>1
  <2> HIDE DEF n, ended, ran, zero
  <2>3. /\ n.items = native.items /\ n.calls = native.calls /\ n.asked = native.asked
        /\ n.ran = ran /\ n.turn = zero
    BY <1>1, <1>2, <2>2
  <2> QED BY <1>8, <2>3 DEF Ghost, ran, zero, Completes, Starts, Calls, Answers, Asks, Acts
<1>9. CASE m.method \in {"turn/started", "usage", "error", "request", "settings", "rerouted",
                         "inert", "forbidden", "failure"}
  <2>1. n = sent
    BY <1>9 DEF AfterReport, sent
  <2> HIDE DEF n
  <2> QED BY <1>2, <1>9, <2>1 DEF Ghost, Completes, Starts, Calls, Answers, Asks, Acts
<1>10. m.method \in Methods
  BY DEF Message
<1> QED BY <1>3, <1>4, <1>5, <1>6, <1>7, <1>8, <1>9, <1>10 DEF Methods, TurnScoped

\* A message of the turn joins the queue as the server's account changes.
LEMMA EmitEffect ==
    ASSUME TypeOK, Emit
    PROVE  \E m \in Message :
              /\ native.turn # 0 /\ client'.inbox = Append(Box, m) /\ m.turn = native.turn
              /\ m.method \notin {"usage", "failure"}
              /\ UNCHANGED <<setup, pc, replies>>
              /\ Ghost(native', m)
              /\ state'.items = state.items /\ state'.calls = state.calls
              /\ state'.tokens = state.tokens /\ state'.minted = state.minted
              /\ state'.unpublished = state.unpublished /\ state'.writer = state.writer
              /\ state'.authority = state.authority /\ state'.terminal = state.terminal
              /\ state'.owed = CASE m.method = "call" /\ setup.tools -> state.owed \cup {m.id}
                                 [] m.method = "resolved" -> state.owed \ {m.id}
                                 [] OTHER -> state.owed
<1>1. PICK m \in Emits(native.turn) :
        /\ Reports(m) /\ native' = AfterReport(m)
        /\ state' = [state EXCEPT !.owed = CASE m.method = "call" /\ setup.tools -> @ \cup {m.id}
                                             [] m.method = "resolved" -> @ \ {m.id}
                                             [] OTHER -> @]
  BY DEF Emit
<1>2. native.turn \in Nat /\ native.turn # 0 /\ NativeType /\ SessionType /\ Shaped(state)
  BY DEF TypeOK, Emit, NativeType
<1>3. m \in Message /\ m.turn = native.turn /\ m.method \notin {"usage", "failure"}
  BY <1>1, <1>2, Emitted
<1>4. client'.inbox = Append(Box, m) /\ UNCHANGED <<setup, pc, replies>>
  BY <1>1, <1>2 DEF Reports, SessionType, Box
<1>5. Ghost(native', m)
  BY <1>1, <1>2, <1>3, GhostEffect
<1> DEFINE owed == CASE m.method = "call" /\ setup.tools -> state.owed \cup {m.id}
                     [] m.method = "resolved" -> state.owed \ {m.id}
                     [] OTHER -> state.owed
<1>6. state' = [state EXCEPT !.owed = owed]
  BY <1>1
<1>7. /\ state'.owed = owed
      /\ state'.items = state.items /\ state'.calls = state.calls
      /\ state'.tokens = state.tokens /\ state'.minted = state.minted
      /\ state'.unpublished = state.unpublished /\ state'.writer = state.writer
      /\ state'.authority = state.authority /\ state'.terminal = state.terminal
  <2> HIDE DEF owed
  <2> QED BY <1>2, <1>6 DEF Shaped, StateFields
<1> QED BY <1>2, <1>3, <1>4, <1>5, <1>7

\* Calls, tokens and replies keep their types.
LEMMA HostStep == ASSUME TypeOK, [Next]_vars PROVE HostType'
<1> USE DEF HostType
<1>1. HostType /\ Ids' = Ids /\ Types' = Types /\ Token' = Token /\ Reply' = Reply
  BY DEF TypeOK, Ids, Types, Token, Reply
<1>2. CASE Leaves
  BY <1>1, <1>2, LeavesSteps DEF Held
<1>3. CASE OpenThread \/ PrepareTurn
  BY <1>1, <1>3, ClearedEffect
<1>4. CASE EnterWriter
  BY <1>1, <1>4, EnterWriterEffect DEF Held
<1>5. CASE Read
  <2> DEFINE m == Head(Box)
  <2>1. /\ m \in Message /\ UNCHANGED replies
        /\ Untouched(state, state') \/ Effect(state, m, state')
    BY <1>5, ReadSteps
  <2> HIDE DEF m
  <2>2. CASE Untouched(state, state')
    BY <1>1, <2>1, <2>2 DEF Untouched
  <2>3. CASE Effect(state, m, state')
    <3>1. m.id \in Ids /\ m.type \in Types /\ state.minted \in Nat
      BY <2>1 DEF Message, TypeOK, Shaped
    <3>2. Minted(state, m) \in Token
      BY <3>1 DEF Minted, Token
    <3>3. state'.tokens \subseteq Token
      BY <1>1, <2>3, <3>2 DEF Effect, TokensEffect
    <3>4. state'.calls \subseteq [id : Ids, written : BOOLEAN]
      <4>1. [id |-> m.id, written |-> FALSE] \in [id : Ids, written : BOOLEAN]
        BY <3>1
      <4>2. CallsEffect(state, m, state')
        BY <2>3 DEF Effect
      <4> QED BY <1>1, <4>1, <4>2 DEF CallsEffect, NewCall
    <3> QED BY <1>1, <2>1, <3>3, <3>4
  <2> QED BY <2>1, <2>2, <2>3
<1>6. CASE ReplyCalls
  <2>1. PICK t \in state.tokens :
            /\ state'.tokens = (state.tokens \ {t}) \cup {[t EXCEPT !.attempted = TRUE]}
            /\ replies' \subseteq replies \cup {[token |-> t.token, call |-> t.call,
                                       request |-> t.request, stage |-> "waiting"]}
    BY <1>6, ReplyCallsEffect
  <2>2. t \in Token
    BY <1>1
  <2>3. /\ [t EXCEPT !.attempted = TRUE] \in Token
        /\ [token |-> t.token, call |-> t.call, request |-> t.request,
            stage |-> "waiting"] \in Reply
    BY <2>2 DEF Token, Reply
  <2> QED BY <1>1, <1>6, <2>1, <2>3, ReplyCallsEffect
<1>7. CASE ReplyEnters
  <2>1. PICK r \in replies : replies' \subseteq replies \cup {[r EXCEPT !.stage = "sending"]}
    BY <1>7, ReplyEntersEffect
  <2>2. [r EXCEPT !.stage = "sending"] \in Reply
    BY <1>1, <2>1 DEF Reply
  <2>3. \A call \in state.calls : [call EXCEPT !.written = TRUE] \in [id : Ids, written : BOOLEAN]
    BY <1>1
  <2> QED BY <1>1, <1>7, <2>1, <2>2, <2>3, ReplyEntersEffect
<1>8. CASE ReplySent
  BY <1>1, <1>8, ReplySentEffect
<1>9. CASE ReplyFails
  BY <1>1, <1>9, ReplyFailsEffect
<1>10. CASE Emit
  BY <1>1, <1>10, EmitEffect
<1> QED BY <1>2, <1>3, <1>4, <1>5, <1>6, <1>7, <1>8, <1>9, <1>10, Steps DEF Leaves

\* Every step keeps the types.
LEMMA TypeStep == ASSUME TypeOK, [Next]_vars PROVE TypeOK'
BY SessionStep, NativeStep, ShapedStep, HostStep DEF TypeOK

-----------------------------------------------------------------------------
(* The invariant, part by part.                                              *)

\* The setup never changes.
LEMMA SetupStays == ASSUME TypeOK, [Next]_vars PROVE setup' = setup /\ Owned' = Owned
<1>1. setup' = setup
  <2>1. CASE Leaves
    BY <2>1 DEF Leaves, OpenClient, VerifyAuth, CheckContainment, OpenFails, Submit,
       Acknowledge,
          TimesOut, Revoke, CancelReader, Close, CloseSession, Spends, Snapshot, EmitIdle, Drops,
          Reports, vars
  <2>2. CASE OpenThread \/ PrepareTurn \/ EnterWriter \/ Read \/ Emit
    BY <2>2 DEF OpenThread, PrepareTurn, EnterWriter, Read, Emit, Reports
  <2>3. CASE ReplyCalls \/ ReplyEnters \/ ReplySent \/ ReplyFails
    BY <2>3 DEF ReplyCalls, ReplyEnters, ReplySent, ReplyFails
  <2> QED BY <2>1, <2>2, <2>3, Steps DEF Leaves
<1> QED BY <1>1 DEF Owned

\* Only a controlled session declares tools, and it owns their calls.
LEMMA ToolsAreOwned == ASSUME TypeOK, setup.tools PROVE Owned
BY BoundsAssumption DEF TypeOK, SessionType, Owned

\* Callbacks stay those of open items.
LEMMA CallbacksStep == ASSUME TypeOK, Callbacks, [Next]_vars PROVE Callbacks'
<1> USE DEF Callbacks
<1>1. Owned' = Owned /\ (setup.tools => Owned)
  BY SetupStays, ToolsAreOwned
<1>2. CASE Leaves
  BY <1>1, <1>2, LeavesSteps DEF Held
<1>3. CASE OpenThread \/ PrepareTurn
  BY <1>1, <1>3, ClearedEffect
<1>4. CASE EnterWriter
  BY <1>1, <1>4, EnterWriterEffect DEF Held
<1>5. CASE Read
  <2> DEFINE m == Head(Box)
  <2>1. /\ m \in Message /\ UNCHANGED native
        /\ Untouched(state, state') \/ Effect(state, m, state')
    BY <1>5, ReadSteps
  <2> HIDE DEF m
  <2>2. CASE Untouched(state, state')
    BY <1>1, <2>1, <2>2 DEF Untouched
  <2>3. CASE Effect(state, m, state')
    <3>1. ItemsEffect(state, m, state') /\ CallsEffect(state, m, state')
          /\ TokensEffect(state, m, state')
      BY <2>3 DEF Effect
    <3>2. \A id : [id |-> id, type |-> "dynamic"] \in state.items
                     /\ ~ (Completes(m, id) /\ m.type = "dynamic")
                  => [id |-> id, type |-> "dynamic"] \in state'.items
      BY <3>1 DEF ItemsEffect
    <3>3. ASSUME NEW call \in state'.calls
          PROVE  Owned /\ [id |-> call.id, type |-> "dynamic"] \in state'.items
      <4>1. CASE call \in state.calls /\ ~ (Owned /\ Completes(m, call.id) /\ m.type = "dynamic")
        BY <3>2, <4>1
      <4>2. CASE NewCall(m, call)
        BY <3>1, <4>2 DEF NewCall, ItemsEffect
      <4> QED BY <3>1, <3>3, <4>1, <4>2 DEF CallsEffect
    <3>4. ASSUME NEW t \in state'.tokens
          PROVE  Owned /\ [id |-> t.call, type |-> "dynamic"] \in state'.items
      <4>1. CASE t \in state.tokens /\ ~ (Owned /\ Completes(m, t.call) /\ m.type = "dynamic")
        BY <3>2, <4>1
      <4>2. CASE /\ Owned /\ Calls(m) /\ t = Minted(state, m)
                 /\ \E call \in state.calls : call.id = m.type
        <5>1. t.call = m.type /\ [id |-> m.type, type |-> "dynamic"] \in state.items
          BY <4>2 DEF Minted
        <5>2. \A id : ~ Completes(m, id)
          BY <4>2 DEF Calls, Completes
        <5> QED BY <3>2, <4>2, <5>1, <5>2
      <4> QED BY <3>1, <3>4, <4>1, <4>2 DEF TokensEffect
    <3>5. state'.owed \subseteq state.owed
      BY <3>1 DEF TokensEffect
    <3> QED BY <1>1, <2>1, <3>3, <3>4, <3>5
  <2> QED BY <2>1, <2>2, <2>3
<1>6. CASE ReplyCalls
  <2>1. PICK t \in state.tokens :
            state'.tokens = (state.tokens \ {t}) \cup {[t EXCEPT !.attempted = TRUE]}
    BY <1>6, ReplyCallsEffect
  <2>2. \A u \in state'.tokens : \E v \in state.tokens : u.call = v.call
    <3>1. t \in Token
      BY <2>1 DEF TypeOK, HostType
    <3>2. [t EXCEPT !.attempted = TRUE].call = t.call
      BY <3>1 DEF Token
    <3> QED BY <2>1, <3>2
  <2> QED BY <1>1, <1>6, <2>2, ReplyCallsEffect
<1>7. CASE ReplyEnters
  <2>1. \A call \in state'.calls : \E known \in state.calls : call.id = known.id
    <3>1. \A call \in state.calls : [call EXCEPT !.written = TRUE].id = call.id
      BY DEF TypeOK, HostType
    <3>2. CASE state'.calls = state.calls
      BY <3>2
    <3>3. CASE \E id : state'.calls = {IF call.id = id THEN [call EXCEPT !.written = TRUE]
                                       ELSE call : call \in state.calls}
      <4>1. PICK id : state'.calls = {IF call.id = id THEN [call EXCEPT !.written = TRUE]
                                      ELSE call : call \in state.calls}
        BY <3>3
      <4> TAKE call \in state'.calls
      <4>2. PICK known \in state.calls :
              call = IF known.id = id THEN [known EXCEPT !.written = TRUE] ELSE known
        BY <4>1
      <4>3. call.id = known.id
        BY <3>1, <4>2
      <4> QED BY <4>3
    <3> QED BY <1>7, <3>2, <3>3, ReplyEntersEffect
  <2> QED BY <1>1, <1>7, <2>1, ReplyEntersEffect
<1>8. CASE ReplySent
  BY <1>1, <1>8, ReplySentEffect
<1>9. CASE ReplyFails
  BY <1>1, <1>9, ReplyFailsEffect
<1>10. CASE Emit
  <2>1. PICK m \in Message :
          /\ Ghost(native', m) /\ state'.items = state.items /\ state'.calls = state.calls
          /\ state'.tokens = state.tokens
          /\ state'.owed = CASE m.method = "call" /\ setup.tools -> state.owed \cup {m.id}
                             [] m.method = "resolved" -> state.owed \ {m.id}
                             [] OTHER -> state.owed
    BY <1>10, EmitEffect
  <2>2. ~ setup.tools => /\ \A a \in native'.asked : a \in native.asked
                         /\ state'.owed \subseteq state.owed
    BY <2>1 DEF Ghost
  <2> QED BY <1>1, <2>1, <2>2
<1> QED BY <1>2, <1>3, <1>4, <1>5, <1>6, <1>7, <1>8, <1>9, <1>10, Steps DEF Leaves

\* Only a turn that is read takes replies.
LEMMA TokensStep == ASSUME TypeOK, Tokens, [Next]_vars PROVE Tokens'
<1> USE DEF Tokens
<1>1. state.minted \in Nat
  BY DEF TypeOK, Shaped
<1>2. CASE Leaves
  <2>1. pc' \in {"connect", "auth", "config", "thread"} =>
            pc \in {"connect", "auth", "config", "thread"}
    BY <1>2 DEF Leaves, OpenClient, VerifyAuth, CheckContainment, OpenFails, Submit,
       Acknowledge,
          TimesOut, Revoke, CancelReader, Close, CloseSession, Spends, Snapshot, EmitIdle, Drops,
          Reports, Ends, vars
  <2> QED BY <1>2, <2>1, LeavesSteps DEF Held
<1>3. CASE OpenThread \/ PrepareTurn
  BY <1>1, <1>3, ClearedEffect
<1>4. CASE EnterWriter
  BY <1>4, EnterWriterEffect DEF Held
<1>5. CASE Read
  <2> DEFINE m == Head(Box)
  <2>1. /\ m \in Message /\ UNCHANGED replies /\ pc' \in {"ended", "reading"}
        /\ Untouched(state, state') \/ Effect(state, m, state')
    BY <1>5, ReadSteps
  <2> HIDE DEF m
  <2>2. CASE Untouched(state, state')
    BY <2>1, <2>2 DEF Untouched
  <2>3. CASE Effect(state, m, state')
    <3>1. /\ state'.minted \in {state.minted, state.minted + 1}
          /\ \A t \in state'.tokens :
                \/ t \in state.tokens
                \/ t = Minted(state, m) /\ state'.minted = state.minted + 1
      BY <2>3 DEF Effect, TokensEffect
    <3>2. Minted(state, m).token = state.minted + 1
      BY DEF Minted
    <3>3. \A t \in state'.tokens : t.token \in Nat /\ t.token <= state'.minted
      BY <1>1, <3>1, <3>2
    <3>4. \A r \in replies : r.token \in Nat /\ r.token <= state'.minted
      BY <1>1, <3>1
    <3>5. \A t, u \in state'.tokens : t.token = u.token => t.request = u.request
      BY <1>1, <3>1, <3>2
    <3>6. \A r \in replies : \A t \in state'.tokens : t.token = r.token => t.request = r.request
      BY <1>1, <3>1, <3>2
    <3> QED BY <2>1, <3>3, <3>4, <3>5, <3>6
  <2> QED BY <2>1, <2>2, <2>3
<1>6. CASE ReplyCalls
  <2>1. PICK t \in state.tokens :
            /\ state'.tokens = (state.tokens \ {t}) \cup {[t EXCEPT !.attempted = TRUE]}
            /\ replies' \subseteq replies \cup {[token |-> t.token, call |-> t.call,
                                       request |-> t.request, stage |-> "waiting"]}
    BY <1>6, ReplyCallsEffect
  <2>2. state'.minted = state.minted /\ pc' = "reading"
    BY <1>6, ReplyCallsEffect DEF Live
  <2>3. t \in Token
    BY <2>1 DEF TypeOK, HostType
  <2> DEFINE u == [t EXCEPT !.attempted = TRUE]
  <2>4. u.token = t.token /\ u.request = t.request
    BY <2>3 DEF Token
  <2> DEFINE r == [token |-> t.token, call |-> t.call, request |-> t.request, stage |-> "waiting"]
  <2>5. r.token = t.token /\ r.request = t.request
    OBVIOUS
  <2>6. state'.tokens = (state.tokens \ {t}) \cup {u} /\ replies' \subseteq replies \cup {r}
    BY <2>1
  <2> HIDE DEF u, r
  <2>7. \A v \in state'.tokens : \E w \in state.tokens : v.token = w.token /\ v.request = w.request
    BY <2>1, <2>4, <2>6
  <2>8. \A v \in replies' : v \in replies \/ (v.token = t.token /\ v.request = t.request)
    BY <2>5, <2>6
  <2>9. \A v \in state'.tokens : v.token \in Nat /\ v.token <= state'.minted
    BY <2>2, <2>7
  <2>10. \A v \in replies' : v.token \in Nat /\ v.token <= state'.minted
    BY <2>1, <2>2, <2>8
  <2>11. \A v, w \in state'.tokens : v.token = w.token => v.request = w.request
    BY <2>7
  <2>12. \A v \in replies' : \A w \in state'.tokens : w.token = v.token => w.request = v.request
    BY <2>1, <2>7, <2>8
  <2> QED BY <2>2, <2>9, <2>10, <2>11, <2>12
<1>7. CASE ReplyEnters
  <2>1. PICK r \in replies : replies' \subseteq replies \cup {[r EXCEPT !.stage = "sending"]}
    BY <1>7, ReplyEntersEffect
  <2>2. r \in Reply
    BY DEF TypeOK, HostType
  <2> DEFINE sending == [r EXCEPT !.stage = "sending"]
  <2>3. sending.token = r.token /\ sending.request = r.request
    BY <2>2 DEF Reply
  <2>4. replies' \subseteq replies \cup {sending}
    BY <2>1
  <2> HIDE DEF sending
  <2>5. \A v \in replies' : \E w \in replies : v.token = w.token /\ v.request = w.request
    BY <2>3, <2>4
  <2>6. /\ state'.tokens = state.tokens /\ state'.minted = state.minted
        /\ UNCHANGED pc /\ replies # {}
    BY <1>7, <2>1, ReplyEntersEffect
  <2> QED BY <2>5, <2>6
<1>8. CASE ReplySent
  BY <1>8, ReplySentEffect
<1>9. CASE ReplyFails
  BY <1>9, ReplyFailsEffect
<1>10. CASE Emit
  BY <1>10, EmitEffect
<1> QED BY <1>2, <1>3, <1>4, <1>5, <1>6, <1>7, <1>8, <1>9, <1>10, Steps DEF Leaves

\* Where the turn goes.
LEMMA LeavesPlace ==
    ASSUME TypeOK, Leaves
    PROVE  \/ pc' = pc \/ pc' = "gone"
           \/ Close /\ pc \in {"prepared", "ended"} /\ ~ NeedsDiscard
           \/ pc' \in {"auth", "config", "thread"} /\ pc \in {"connect", "auth", "config", "thread"}
           \/ pc = "prepared" /\ pc' = "reading"
           \/ pc = "reading" /\ pc' = "ended"
BY DEF Leaves, OpenClient, VerifyAuth, CheckContainment, OpenFails, Submit, Acknowledge,
       TimesOut, Revoke, CancelReader, Close, CloseSession, Spends, Snapshot, EmitIdle, Drops,
       Reports, Ends, vars

\* Outside of a turn nothing of a turn comes.
LEMMA QuietStays ==
    ASSUME TypeOK, [Next]_vars, native.turn = 0, \A i \in DOMAIN Box : Box[i].method \in Quiet
    PROVE  \A i \in DOMAIN client'.inbox : client'.inbox[i].method \in Quiet
<1>1. Box \in Seq(Message) /\ ~ Emit
  BY DEF TypeOK, SessionType, Box, Emit
<1>2. ASSUME NEW m \in Message, m.method \in Quiet, client'.inbox = Append(Box, m)
      PROVE  \A i \in DOMAIN client'.inbox : client'.inbox[i].method \in Quiet
  BY <1>1, <1>2, SeqAppend
<1>3. Failure \in Message /\ Failure.method \in Quiet
  BY Reported DEF TypeOK, Failure, Quiet
<1>4. \A turn \in Nat : /\ Usage(turn) \in Message /\ Usage(turn).method \in Quiet
                        /\ [Usage(turn) EXCEPT !.detail = History] \in Message
                        /\ [Usage(turn) EXCEPT !.detail = History].method \in Quiet
  BY Reported DEF TypeOK, Usage, Quiet
<1>5. \A m \in Emits(0) : m \in Message
  BY Emitted DEF TypeOK
<1>6. {"inert", "forbidden", "process", "settings", "rerouted"} \subseteq Quiet
  BY DEF Quiet
<1>7. CASE client'.inbox = Box
  BY <1>7
<1>8. CASE client'.inbox = <<>>
  BY <1>8
<1>9. CASE Box # <<>> /\ client'.inbox = Tail(Box)
  BY <1>1, <1>9, SeqTail
<1> QED BY <1>1, <1>2, <1>3, <1>4, <1>5, <1>6, <1>7, <1>8, <1>9, BoxSteps

\* Nothing of a turn is left outside of it.
LEMMA CalmStep ==
    ASSUME TypeOK, Calm, Callbacks, Settled, InOrder, [Next]_vars PROVE Calm'
<1> DEFINE Idle == pc # "gone" /\ ~ Writing
<1>1. SUFFICES ASSUME Idle'
               PROVE  /\ native'.turn = 0 /\ native'.items = {} /\ native'.asked = {}
                      /\ state'.owed = {}
                      /\ \A i \in DOMAIN client'.inbox : client'.inbox[i].method \in Quiet
  BY DEF Calm, Box
<1>2. Idle => /\ native.turn = 0 /\ native.items = {} /\ native.asked = {} /\ state.owed = {}
              /\ \A i \in DOMAIN client'.inbox : client'.inbox[i].method \in Quiet
              /\ ~ Emit
  BY QuietStays DEF Calm, Emit
<1>3. CASE Leaves
  <2>1. CASE Idle
    BY <1>2, <1>3, <2>1, LeavesSteps DEF Held
  <2>2. CASE ~ Idle
    <3>1. state'.writer = state.writer
      BY <1>3, LeavesSteps
    <3>2. Close /\ ~ NeedsDiscard /\ pc = "ended" /\ state.writer
      BY <1>1, <1>3, <2>2, <3>1, LeavesPlace DEF Writing
    <3>3. Sealed /\ state.items = {}
      BY <3>2 DEF NeedsDiscard, Sealed
    <3>4. native.turn = 0 /\ \A i \in DOMAIN Box : Box[i].method \in Quiet
      BY <3>2, <3>3 DEF InOrder
    <3>5. native.items = {} /\ native.asked = {}
      <4>1. native.items \subseteq state.items
        BY <3>2, <3>3 DEF Settled
      <4>2. \A a \in native.asked : \E x \in state.items : x.id = a.item
        BY <3>2, <3>3 DEF Settled
      <4> QED BY <3>3, <4>1, <4>2
    <3>6. state.owed = {}
      <4>1. \A request \in state.owed : \E t \in state.tokens : t.request = request
        BY <3>2, <3>3 DEF Settled
      <4> QED BY <3>3, <4>1 DEF Callbacks
    <3> QED BY <1>3, <3>4, <3>5, <3>6, LeavesSteps, QuietStays DEF Held
  <2> QED BY <2>1, <2>2
<1>4. CASE OpenThread \/ PrepareTurn
  <2>1. client'.inbox = <<>> /\ UNCHANGED native /\ pc \in {"idle", "thread"}
        /\ state'.owed \in {state.owed, {}}
    BY <1>4, ClearedEffect
  <2> QED BY <1>2, <2>1 DEF Writing
<1>5. CASE EnterWriter
  BY <1>1, <1>5, EnterWriterEffect DEF Writing
<1>6. CASE Read
  <2>1. /\ pc = "reading" /\ pc' \in {"ended", "reading"} /\ UNCHANGED native
        /\ state'.writer = state.writer /\ state'.owed \subseteq state.owed
    BY <1>6, ReadSteps DEF Effect, TokensEffect, Untouched
  <2> QED BY <1>1, <1>2, <2>1 DEF Writing
<1>7. CASE ReplyCalls
  BY <1>1, <1>2, <1>7, ReplyCallsEffect DEF Writing
<1>8. CASE ReplyEnters
  BY <1>1, <1>2, <1>8, ReplyEntersEffect DEF Writing
<1>9. CASE ReplySent
  BY <1>1, <1>2, <1>9, ReplySentEffect DEF Writing
<1>10. CASE ReplyFails
  BY <1>1, <1>2, <1>10, ReplyFailsEffect DEF Writing
<1>11. CASE Emit
  <2>1. UNCHANGED pc /\ state'.writer = state.writer
    BY <1>11, EmitEffect
  <2> QED BY <1>1, <1>2, <1>11, <2>1 DEF Writing
<1> QED BY <1>3, <1>4, <1>5, <1>6, <1>7, <1>8, <1>9, <1>10, <1>11, Steps DEF Leaves

\* What these actions put into the queue is quiet.
LEMMA LeavesBox ==
    ASSUME TypeOK, Leaves
    PROVE  \/ client'.inbox = Box
           \/ \E m \in Message : m.method \in Quiet /\ client'.inbox = Append(Box, m)
<1> USE DEF Box
<1>1. DOMAIN client = {"usable", "inbox"}
  BY DEF TypeOK, SessionType
<1>2. CASE OpenClient \/ VerifyAuth \/ CheckContainment \/ OpenFails \/ Submit \/ UNCHANGED vars
  BY <1>1, <1>2 DEF OpenClient, VerifyAuth, CheckContainment, OpenFails, Submit, vars
<1>3. CASE TimesOut \/ Revoke \/ CancelReader \/ Close \/ Spends
  BY <1>1, <1>3 DEF TimesOut, Revoke, CancelReader, Close, Spends
<1>4. CASE Acknowledge \/ CloseSession \/ Drops
  <2>1. client'.inbox = Box \/ client'.inbox = Append(Box, Failure)
    <3>1. CASE Acknowledge
      BY <1>1, <3>1 DEF Acknowledge
    <3>2. CASE CloseSession
      BY <3>2 DEF CloseSession
    <3>3. CASE Drops
      BY <3>3 DEF Drops
    <3> QED BY <1>4, <3>1, <3>2, <3>3
  <2>2. Failure \in Message /\ Failure.method \in Quiet
    BY Reported DEF TypeOK, Failure, Quiet
  <2> QED BY <2>1, <2>2
<1>5. CASE Snapshot
  <2>1. \E turn \in Nat : \/ client'.inbox = Append(Box, Usage(turn))
                         \/ client'.inbox = Append(Box, [Usage(turn) EXCEPT !.detail = History])
    <3>1. 0 \in Nat /\ native.turn \in Nat /\ Len(native.began) \in Nat
      BY DEF TypeOK, NativeType
    <3> QED BY <1>1, <1>5, <3>1 DEF Snapshot, Reports
  <2>2. \A turn \in Nat : /\ Usage(turn) \in Message /\ Usage(turn).method \in Quiet
                          /\ [Usage(turn) EXCEPT !.detail = History] \in Message
                          /\ [Usage(turn) EXCEPT !.detail = History].method \in Quiet
    BY Reported DEF TypeOK, Usage, Quiet
  <2> QED BY <2>1, <2>2
<1>6. CASE EmitIdle
  <2>1. PICK m \in Emits(0) :
          /\ m.method \in {"inert", "forbidden", "process", "settings", "rerouted"}
          /\ client'.inbox = Append(Box, m)
    BY <1>1, <1>6 DEF EmitIdle, Reports
  <2>2. m \in Message
    BY <2>1, Emitted DEF TypeOK
  <2> QED BY <2>1, <2>2 DEF Quiet
<1> QED BY <1>2, <1>3, <1>4, <1>5, <1>6 DEF Leaves

\* The end of a turn stays its last word.
LEMMA InOrderStep ==
    ASSUME TypeOK, Calm, InOrder, [Next]_vars PROVE InOrder'
<1> DEFINE Waits == \A i \in DOMAIN Box : ~ IsOver(Box[i])
           Final == \A i, j \in DOMAIN Box : i < j /\ IsOver(Box[i]) => Box[j].method \in Quiet
           AllQuiet == \A i \in DOMAIN Box : Box[i].method \in Quiet
<1>1. Box \in Seq(Message)
  BY DEF TypeOK, SessionType, Box
<1>2. (AllQuiet => Waits /\ Final) /\ (AllQuiet => Waits /\ Final)'
  BY DEF Quiet, IsOver
<1>3. SUFFICES /\ pc' \in {"prepared", "reading"} => state'.terminal = Absent
               /\ pc' = "prepared" => ~ state'.writer
               /\ Streaming' => (native'.turn # 0 => Waits') /\ Final'
               /\ pc' = "ended" /\ Sealed' => native'.turn = 0 /\ AllQuiet'
  BY DEF InOrder
<1>4. /\ pc \in {"prepared", "reading"} => state.terminal = Absent
      /\ pc = "prepared" => ~ state.writer
      /\ Streaming => (native.turn # 0 => Waits) /\ Final
      /\ pc = "ended" /\ Sealed => native.turn = 0 /\ AllQuiet
  BY DEF InOrder
<1>5. pc # "gone" /\ ~ Writing => native.turn = 0 /\ AllQuiet /\ AllQuiet'
  BY QuietStays DEF Calm, Box
<1>6. native.turn = 0 /\ AllQuiet => AllQuiet'
  BY QuietStays DEF Box
<1>7. CASE Leaves
  <2>1. /\ native'.turn = native.turn /\ state'.writer = state.writer
        /\ state'.terminal = state.terminal \/ (TimesOut /\ ~ state'.terminal.native)
    BY <1>7, LeavesSteps
  <2>2. TimesOut => pc = "reading" /\ pc' = "ended"
    BY DEF TimesOut, Ends
  <2>3. /\ pc' \in {"prepared", "reading"} => state'.terminal = Absent
        /\ pc' = "prepared" => ~ state'.writer
    <3>1. Close => pc' \in {"gone", "idle"}
      BY DEF Close
    <3> QED BY <1>4, <1>7, <2>1, <2>2, <3>1, LeavesPlace
  <2>4. Streaming' => (native'.turn # 0 => Waits') /\ Final'
    <3>1. CASE pc = "prepared"
      BY <1>2, <1>5, <2>1, <3>1 DEF Writing
    <3>2. CASE Streaming
      <4>1. CASE client'.inbox = Box
        BY <1>4, <2>1, <3>2, <4>1 DEF Box
      <4>2. ASSUME NEW m \in Message, m.method \in Quiet, client'.inbox = Append(Box, m)
            PROVE  (native'.turn # 0 => Waits') /\ Final'
        <5>1. ~ IsOver(m)
          BY <4>2 DEF Quiet, IsOver
        <5>2. native'.turn # 0 => Waits'
          BY <1>1, <1>4, <2>1, <3>2, <4>2, <5>1, SeqAppend DEF Box
        <5>3. Final'
          BY <1>1, <1>4, <3>2, <4>2, SeqAppend DEF Box
        <5> QED BY <5>2, <5>3
      <4> QED BY <1>7, <4>1, <4>2, LeavesBox
    <3>3. Streaming' => Streaming \/ pc = "prepared"
      <4>1. Close => pc' \in {"gone", "idle"}
        BY DEF Close
      <4> QED BY <1>7, <2>1, <4>1, LeavesPlace DEF Streaming
    <3> QED BY <3>1, <3>2, <3>3
  <2>5. pc' = "ended" /\ Sealed' => native'.turn = 0 /\ AllQuiet'
    <3>1. ASSUME pc' = "ended", Sealed' PROVE pc = "ended" /\ Sealed
      <4>1. state'.terminal = state.terminal /\ Sealed
        BY <2>1, <3>1 DEF Sealed
      <4>2. Close => pc' \in {"gone", "idle"}
        BY DEF Close
      <4> QED BY <1>4, <1>7, <3>1, <4>1, <4>2, LeavesPlace DEF Sealed
    <3> QED BY <1>4, <1>6, <2>1, <3>1
  <2> QED BY <2>3, <2>4, <2>5
<1>8. CASE OpenThread \/ PrepareTurn
  BY <1>8, ClearedEffect DEF Streaming
<1>9. CASE EnterWriter
  <2>1. AllQuiet' /\ pc = "reading" /\ UNCHANGED pc /\ state'.terminal = state.terminal
    BY <1>5, <1>9, EnterWriterEffect DEF Writing
  <2> QED BY <1>2, <1>4, <2>1
<1>10. CASE Read
  <2> DEFINE m == Head(Box)
  <2>1. /\ pc = "reading" /\ Box # <<>> /\ client'.inbox = Tail(Box) /\ m \in Message
        /\ UNCHANGED native /\ state'.writer = state.writer
        /\ \/ pc' = "ended" /\ state'.terminal = state.terminal
           \/ pc' = "ended" /\ IsOver(m)
           \/ pc' = "reading" /\ state'.terminal = state.terminal /\ ~ IsOver(m)
    BY <1>10, ReadSteps DEF Effect, Untouched
  <2>2. m = Box[1] /\ 1 \in DOMAIN Box
    BY <1>1, <2>1, SeqTail
  <2> HIDE DEF m
  <2>3. CASE pc' = "ended" /\ state'.terminal = state.terminal
    BY <1>4, <2>1, <2>3 DEF Sealed, Streaming
  <2>4. CASE pc' = "ended" /\ IsOver(m)
    <3>1. Streaming
      BY <1>2, <1>5, <2>1, <2>2, <2>4 DEF Streaming, Writing
    <3>2. native.turn = 0
      BY <1>4, <2>2, <2>4, <3>1
    <3>3. AllQuiet'
      <4> SUFFICES ASSUME NEW i \in DOMAIN Tail(Box) PROVE Tail(Box)[i].method \in Quiet
        BY <2>1 DEF Box
      <4>1. i \in Nat /\ i + 1 \in DOMAIN Box /\ Tail(Box)[i] = Box[i + 1] /\ 1 < i + 1
        BY <1>1, <2>1, SeqTail
      <4> QED BY <1>4, <2>2, <2>4, <3>1, <4>1
    <3> QED BY <2>1, <2>4, <3>2, <3>3 DEF Streaming
  <2>5. CASE pc' = "reading" /\ state'.terminal = state.terminal /\ ~ IsOver(m)
    <3>1. Streaming' => Streaming
      BY <2>1 DEF Streaming
    <3>2. Waits => Waits'
      BY <1>1, <2>1, SeqTail DEF Box
    <3>3. Final => Final'
      <4>1. \A i \in DOMAIN Tail(Box) :
              i \in Nat /\ i + 1 \in DOMAIN Box /\ Tail(Box)[i] = Box[i + 1]
        BY <1>1, <2>1, SeqTail
      <4>2. \A i, j \in DOMAIN Tail(Box) : i < j => i + 1 < j + 1
        BY <4>1
      <4> QED BY <2>1, <4>1, <4>2 DEF Box
    <3> QED BY <1>4, <2>1, <2>5, <3>1, <3>2, <3>3
  <2> QED BY <2>1, <2>3, <2>4, <2>5
<1>11. CASE ReplyCalls \/ ReplyEnters \/ ReplySent \/ ReplyFails
  <2>1. /\ UNCHANGED <<pc, client>> /\ native'.turn = native.turn
        /\ state'.writer = state.writer /\ state'.terminal = state.terminal
    BY <1>11, ReplyCallsEffect, ReplyEntersEffect, ReplySentEffect, ReplyFailsEffect
  <2>2. (Sealed' = Sealed) /\ (Streaming' = Streaming) /\ Box' = Box
    BY <2>1 DEF Sealed, Streaming, Box
  <2> QED BY <1>4, <2>1, <2>2
<1>12. CASE Emit
  <2>1. PICK m \in Message :
          /\ native.turn # 0 /\ client'.inbox = Append(Box, m) /\ UNCHANGED pc
          /\ Ghost(native', m)
          /\ state'.writer = state.writer /\ state'.terminal = state.terminal
    BY <1>12, EmitEffect
  <2>2. (Sealed' = Sealed) /\ (Streaming' = Streaming)
    BY <2>1 DEF Sealed, Streaming
  <2>3. native'.turn # 0 => ~ IsOver(m)
    BY <2>1 DEF Ghost
  <2>4. Waits /\ ~ IsOver(m) => Waits'
    BY <1>1, <2>1, SeqAppend DEF Box
  <2>5. Waits => Final'
    BY <1>1, <2>1, SeqAppend DEF Box
  <2> QED BY <1>4, <2>1, <2>2, <2>3, <2>4, <2>5
<1> QED BY <1>7, <1>8, <1>9, <1>10, <1>11, <1>12, Steps DEF Leaves

\* What is open stays so when one message more waits, and is known or waits
\* still when the first is read.
LEMMA OpenAppended ==
    ASSUME Box \in Seq(Message), NEW m \in Message, client'.inbox = Append(Box, m),
           state'.items = state.items
    PROVE  /\ \A y : ItemOpen(y) /\ ~ (Completes(m, y.id) /\ m.type = y.type) => ItemOpen(y)'
           /\ \A a : CallOpen(a) /\ ~ Completes(m, a.item) => CallOpen(a)'
           /\ (\A i \in DOMAIN Box : ~ IsOver(Box[i])) =>
                /\ \A y : Starts(m, y) => ItemOpen(y)'
                /\ \A a : Calls(m) /\ m.type = a.item => CallOpen(a)'
<1> DEFINE box == Append(Box, m)
<1>0. PICK last \in Nat : last = Len(Box) + 1
  OBVIOUS
<1>1. /\ last \in DOMAIN box /\ box[last] = m /\ last \in Nat
      /\ \A i \in DOMAIN Box : i \in DOMAIN box /\ box[i] = Box[i] /\ i \in Nat /\ i < last
      /\ \A i \in DOMAIN box : (i \in DOMAIN Box /\ box[i] = Box[i]) \/ (i = last /\ box[i] = m)
  BY <1>0, SeqAppend
<1>2. Box' = box
  BY DEF Box
<1> HIDE DEF box
<1>3. \A i \in DOMAIN Box : BeforeEnd(i) => BeforeEnd(i)'
  BY <1>1, <1>2 DEF BeforeEnd
<1>4. (\A i \in DOMAIN Box : ~ IsOver(Box[i])) => BeforeEnd(last)'
  BY <1>1, <1>2 DEF BeforeEnd
<1>5. ASSUME NEW y, ItemOpen(y), ~ (Completes(m, y.id) /\ m.type = y.type) PROVE ItemOpen(y)'
  <2>1. CASE \E i \in DOMAIN Box :
               /\ Starts(Box[i], y) /\ BeforeEnd(i)
               /\ \A j \in DOMAIN Box : j > i => ~ (Completes(Box[j], y.id) /\ Box[j].type = y.type)
    <3>1. PICK i \in DOMAIN Box :
               /\ Starts(Box[i], y) /\ BeforeEnd(i)
               /\ \A j \in DOMAIN Box : j > i => ~ (Completes(Box[j], y.id) /\ Box[j].type = y.type)
      BY <2>1
    <3>2. i \in DOMAIN box /\ Starts(box[i], y) /\ BeforeEnd(i)'
      BY <1>1, <1>3, <3>1
    <3>3. \A j \in DOMAIN box : j > i => ~ (Completes(box[j], y.id) /\ box[j].type = y.type)
      BY <1>1, <1>5, <3>1
    <3> QED BY <1>2, <3>2, <3>3 DEF ItemOpen
  <2>2. CASE /\ y \in state.items
             /\ \A j \in DOMAIN Box : ~ (Completes(Box[j], y.id) /\ Box[j].type = y.type)
    <3>1. \A j \in DOMAIN box : ~ (Completes(box[j], y.id) /\ box[j].type = y.type)
      BY <1>1, <1>5, <2>2
    <3> QED BY <1>2, <2>2, <3>1 DEF ItemOpen
  <2> QED BY <1>5, <2>1, <2>2 DEF ItemOpen
<1>6. ASSUME NEW a, CallOpen(a), ~ Completes(m, a.item) PROVE CallOpen(a)'
  <2>1. CASE \E i \in DOMAIN Box :
               /\ Calls(Box[i]) /\ Box[i].type = a.item /\ BeforeEnd(i)
               /\ \A j \in DOMAIN Box : j > i => ~ Completes(Box[j], a.item)
    <3>1. PICK i \in DOMAIN Box :
               /\ Calls(Box[i]) /\ Box[i].type = a.item /\ BeforeEnd(i)
               /\ \A j \in DOMAIN Box : j > i => ~ Completes(Box[j], a.item)
      BY <2>1
    <3>2. i \in DOMAIN box /\ Calls(box[i]) /\ box[i].type = a.item /\ BeforeEnd(i)'
      BY <1>1, <1>3, <3>1
    <3>3. \A j \in DOMAIN box : j > i => ~ Completes(box[j], a.item)
      BY <1>1, <1>6, <3>1
    <3> QED BY <1>2, <3>2, <3>3 DEF CallOpen
  <2>2. CASE /\ \E x \in state.items : x.id = a.item
             /\ \A j \in DOMAIN Box : ~ Completes(Box[j], a.item)
    <3>1. \A j \in DOMAIN box : ~ Completes(box[j], a.item)
      BY <1>1, <1>6, <2>2
    <3> QED BY <1>2, <2>2, <3>1 DEF CallOpen
  <2> QED BY <1>6, <2>1, <2>2 DEF CallOpen
<1>7. ASSUME \A i \in DOMAIN Box : ~ IsOver(Box[i])
      PROVE  /\ \A y : Starts(m, y) => ItemOpen(y)'
             /\ \A a : Calls(m) /\ m.type = a.item => CallOpen(a)'
  <2>1. BeforeEnd(last)'
    BY <1>4, <1>7
  <2>2. \A j \in DOMAIN box : ~ (j > last)
    BY <1>1
  <2> QED BY <1>1, <1>2, <2>1, <2>2 DEF ItemOpen, CallOpen
<1> QED BY <1>5, <1>6, <1>7

\* What leaves the queue and the items alone leaves open what is open.
LEMMA OpenSame ==
    ASSUME client'.inbox = Box, state'.items = state.items
    PROVE  /\ \A y : ItemOpen(y) => ItemOpen(y)'
           /\ \A a : CallOpen(a) => CallOpen(a)'
<1>1. Box' = Box
  BY DEF Box
<1> QED BY <1>1 DEF ItemOpen, CallOpen, BeforeEnd

\* A request is owed as long as its callback waits or its token lives.
LEMMA OwesStays ==
    ASSUME Box \in Seq(Message), NEW request, Owes(request),
           client'.inbox = Box \/ \E m \in Message : client'.inbox = Append(Box, m),
           (\E t \in state.tokens : t.request = request) =>
               \E t \in state'.tokens : t.request = request
    PROVE  Owes(request)'
<1>1. ASSUME NEW i \in DOMAIN Box, Calls(Box[i]), Box[i].id = request, BeforeEnd(i)
      PROVE  Owes(request)'
  <2>1. CASE client'.inbox = Box
    <3>1. Box' = Box
      BY <2>1 DEF Box
    <3> QED BY <1>1, <3>1 DEF Owes, BeforeEnd
  <2>2. ASSUME NEW m \in Message, client'.inbox = Append(Box, m) PROVE Owes(request)'
    <3>1. /\ \A j \in DOMAIN Box : /\ j \in DOMAIN Append(Box, m) /\ Append(Box, m)[j] = Box[j]
                                   /\ j \in Nat /\ j < Len(Box) + 1
          /\ \A j \in DOMAIN Append(Box, m) : \/ j \in DOMAIN Box /\ Append(Box, m)[j] = Box[j]
                                              \/ j = Len(Box) + 1
      BY SeqAppend
    <3> DEFINE box == Append(Box, m)
    <3>2. Box' = box /\ Len(Box) \in Nat
      BY <2>2 DEF Box
    <3>3. \A j \in DOMAIN box : j < i => j \in DOMAIN Box /\ box[j] = Box[j]
      BY <3>1, <3>2
    <3>4. i \in DOMAIN box /\ box[i] = Box[i]
      BY <3>1
    <3> HIDE DEF box
    <3> QED BY <1>1, <3>2, <3>3, <3>4 DEF Owes, BeforeEnd
  <2> QED BY <2>1, <2>2
<1> QED BY <1>1 DEF Owes

\* Reading the head of the queue turns what will be heard into what is known.
LEMMA OpenRead ==
    ASSUME Box \in Seq(Message), Box # <<>>, NEW m, m = Head(Box), client'.inbox = Tail(Box)
    PROVE  /\ ItemsEffect(state, m, state') =>
                \A y \in [id : Ids, type : Types] : ItemOpen(y) => ItemOpen(y)'
           /\ /\ Owned /\ Callbacks /\ TokensEffect(state, m, state')
              /\ ItemsEffect(state, m, state')
              => /\ \A a : CallOpen(a) => CallOpen(a)'
                 /\ \A request \in state'.owed : Owes(request) => Owes(request)'
<1>1. /\ m = Box[1] /\ 1 \in DOMAIN Box
      /\ \A i \in DOMAIN Tail(Box) : i \in Nat /\ i + 1 \in DOMAIN Box /\ Tail(Box)[i] = Box[i + 1]
      /\ \A i \in DOMAIN Box : i # 1 => i - 1 \in DOMAIN Tail(Box) /\ Tail(Box)[i - 1] = Box[i]
      /\ \A i \in DOMAIN Box : i \in Nat /\ i >= 1
  BY SeqTail
<1> DEFINE rest == Tail(Box)
<1>2. Box' = rest
  BY DEF Box
<1> HIDE DEF rest
<1>3. /\ \A i \in DOMAIN rest : i \in Nat /\ i >= 1 /\ i + 1 \in DOMAIN Box /\ rest[i] = Box[i + 1]
      /\ \A i \in DOMAIN Box : i # 1 => i - 1 \in DOMAIN rest /\ rest[i - 1] = Box[i]
      /\ \A i \in DOMAIN Box : i \in Nat /\ i >= 1
  BY <1>1 DEF rest
<1>4. ASSUME NEW i \in DOMAIN Box, i # 1, BeforeEnd(i) PROVE BeforeEnd(i - 1)'
  <2>1. \A j \in DOMAIN rest : j < i - 1 => j + 1 < i
    BY <1>3
  <2> QED BY <1>2, <1>3, <1>4, <2>1 DEF BeforeEnd
<1>5. ASSUME ItemsEffect(state, m, state'), NEW y \in [id : Ids, type : Types], ItemOpen(y)
      PROVE  ItemOpen(y)'
  <2>1. ASSUME NEW i \in DOMAIN Box, Starts(Box[i], y), BeforeEnd(i),
               \A j \in DOMAIN Box : j > i => ~ (Completes(Box[j], y.id) /\ Box[j].type = y.type)
        PROVE  ItemOpen(y)'
    <3>1. CASE i = 1
      <4>1. y = [id |-> m.id, type |-> m.type] /\ m.method = "item/started"
        BY <1>1, <2>1, <3>1 DEF Starts
      <4>2. y \in state'.items
        BY <1>5, <4>1 DEF ItemsEffect
      <4>3. \A j \in DOMAIN rest : ~ (Completes(rest[j], y.id) /\ rest[j].type = y.type)
        <5>1. \A j \in DOMAIN rest : j + 1 > 1
          BY <1>3
        <5> QED BY <1>3, <2>1, <3>1, <5>1
      <4> QED BY <1>2, <4>2, <4>3 DEF ItemOpen
    <3>2. CASE i # 1
      <4>1. i - 1 \in DOMAIN rest /\ rest[i - 1] = Box[i] /\ BeforeEnd(i - 1)'
        BY <1>3, <1>4, <2>1, <3>2
      <4>2. \A j \in DOMAIN rest :
              j > i - 1 => ~ (Completes(rest[j], y.id) /\ rest[j].type = y.type)
        <5>1. \A j \in DOMAIN rest : j > i - 1 => j + 1 > i
          BY <1>3
        <5> QED BY <1>3, <2>1, <5>1
      <4> QED BY <1>2, <2>1, <4>1, <4>2 DEF ItemOpen
    <3> QED BY <3>1, <3>2
  <2>2. CASE /\ y \in state.items
             /\ \A j \in DOMAIN Box : ~ (Completes(Box[j], y.id) /\ Box[j].type = y.type)
    <3>1. y \in state'.items
      BY <1>1, <1>5, <2>2 DEF ItemsEffect
    <3>2. \A j \in DOMAIN rest : ~ (Completes(rest[j], y.id) /\ rest[j].type = y.type)
      BY <1>3, <2>2
    <3> QED BY <1>2, <3>1, <3>2 DEF ItemOpen
  <2> QED BY <1>5, <2>1, <2>2 DEF ItemOpen
<1>6. ASSUME Owned, Callbacks, TokensEffect(state, m, state'), ItemsEffect(state, m, state')
      PROVE  /\ \A a : CallOpen(a) => CallOpen(a)'
             /\ \A request \in state'.owed : Owes(request) => Owes(request)'
  <2>1. ASSUME NEW a, NEW i \in DOMAIN Box, Calls(Box[i]), Box[i].type = a.item, BeforeEnd(i),
               \A j \in DOMAIN Box : j > i => ~ Completes(Box[j], a.item)
        PROVE  CallOpen(a)'
    <3>1. CASE i = 1
      <4>1. Calls(m) /\ m.type = a.item
        BY <1>1, <2>1, <3>1
      <4>2. PICK call \in state.calls : call.id = a.item
        BY <1>6, <4>1 DEF TokensEffect
      <4>3. [id |-> call.id, type |-> "dynamic"] \in state.items /\ ~ Completes(m, call.id)
        BY <1>6, <4>1 DEF Callbacks, Calls, Completes
      <4>4. \E x \in state'.items : x.id = a.item
        BY <1>6, <4>2, <4>3 DEF ItemsEffect
      <4>5. \A j \in DOMAIN rest : ~ Completes(rest[j], a.item)
        <5>1. \A j \in DOMAIN rest : j + 1 > 1
          BY <1>3
        <5> QED BY <1>3, <2>1, <3>1, <5>1
      <4> QED BY <1>2, <4>4, <4>5 DEF CallOpen
    <3>2. CASE i # 1
      <4>1. i - 1 \in DOMAIN rest /\ rest[i - 1] = Box[i] /\ BeforeEnd(i - 1)'
        BY <1>3, <1>4, <2>1, <3>2
      <4>2. \A j \in DOMAIN rest : j > i - 1 => ~ Completes(rest[j], a.item)
        <5>1. \A j \in DOMAIN rest : j > i - 1 => j + 1 > i
          BY <1>3
        <5> QED BY <1>3, <2>1, <5>1
      <4> QED BY <1>2, <2>1, <4>1, <4>2 DEF CallOpen
    <3> QED BY <3>1, <3>2
  <2>2. ASSUME NEW a, NEW x \in state.items, x.id = a.item,
               \A j \in DOMAIN Box : ~ Completes(Box[j], a.item)
        PROVE  CallOpen(a)'
    <3>1. x \in state'.items
      BY <1>1, <1>6, <2>2 DEF ItemsEffect
    <3>2. \A j \in DOMAIN rest : ~ Completes(rest[j], a.item)
      BY <1>3, <2>2
    <3> QED BY <1>2, <2>2, <3>1, <3>2 DEF CallOpen
  <2>3. \A a : CallOpen(a) => CallOpen(a)'
    BY <2>1, <2>2 DEF CallOpen
  <2>4. ASSUME NEW request \in state'.owed, NEW i \in DOMAIN Box, Calls(Box[i]),
               Box[i].id = request, BeforeEnd(i)
        PROVE  Owes(request)'
    <3>1. CASE i = 1
      <4>1. Calls(m) /\ m.id = request
        BY <1>1, <2>4, <3>1
      <4>2. Minted(state, m) \in state'.tokens /\ Minted(state, m).request = request
        BY <1>6, <4>1 DEF TokensEffect, Minted
      <4> QED BY <4>2 DEF Owes
    <3>2. CASE i # 1
      <4>1. i - 1 \in DOMAIN rest /\ rest[i - 1] = Box[i] /\ BeforeEnd(i - 1)'
        BY <1>3, <1>4, <2>4, <3>2
      <4> QED BY <1>2, <2>4, <4>1 DEF Owes
    <3> QED BY <3>1, <3>2
  <2>5. ASSUME NEW request \in state'.owed, NEW t \in state.tokens, t.request = request
        PROVE  Owes(request)'
    BY <1>6, <2>5 DEF TokensEffect, Owes
  <2>6. \A request \in state'.owed : Owes(request) => Owes(request)'
    BY <2>4, <2>5 DEF Owes
  <2> QED BY <2>3, <2>6
<1> QED BY <1>5, <1>6

\* While a turn is read, what the server has open stays known or on its way.
LEMMA FollowedStep ==
    ASSUME TypeOK, Calm, InOrder, Callbacks, Tokens, Followed, [Next]_vars PROVE Followed'
<1>1. Box \in Seq(Message)
  BY DEF TypeOK, SessionType, Box
<1>2. SUFFICES ASSUME Streaming'
               PROVE  /\ \A y \in native'.items : ItemOpen(y)'
                      /\ \A a \in native'.asked : CallOpen(a)'
                      /\ \A request \in state'.owed : Owes(request)'
  BY DEF Followed
<1>3. Streaming => /\ \A y \in native.items : ItemOpen(y)
                   /\ \A a \in native.asked : CallOpen(a)
                   /\ \A request \in state.owed : Owes(request)
  BY DEF Followed
<1>4. pc # "gone" /\ ~ Writing => native.items = {} /\ native.asked = {} /\ state.owed = {}
  BY DEF Calm
<1>5. CASE Leaves
  <2>1. /\ state'.items = state.items /\ state'.tokens = state.tokens /\ state'.owed = state.owed
        /\ native'.items = native.items /\ native'.asked = native.asked
        /\ state'.writer = state.writer
    BY <1>5, LeavesSteps DEF Held
  <2>2. Streaming \/ pc = "prepared"
    <3>1. Close => pc' \in {"gone", "idle"}
      BY DEF Close
    <3> QED BY <1>2, <1>5, <2>1, <3>1, LeavesPlace DEF Streaming
  <2>3. CASE pc = "prepared"
    BY <1>4, <2>1, <2>3 DEF Writing
  <2>4. CASE Streaming /\ client'.inbox = Box
    BY <1>1, <1>3, <2>1, <2>4, OpenSame, OwesStays
  <2>5. ASSUME Streaming, NEW m \in Message, m.method \in Quiet, client'.inbox = Append(Box, m)
        PROVE  /\ \A y \in native'.items : ItemOpen(y)'
               /\ \A a \in native'.asked : CallOpen(a)'
               /\ \A request \in state'.owed : Owes(request)'
    <3>1. \A id : ~ Completes(m, id)
      BY <2>5 DEF Quiet, Completes
    <3>2. /\ \A y : ItemOpen(y) => ItemOpen(y)'
          /\ \A a : CallOpen(a) => CallOpen(a)'
      BY <1>1, <2>1, <2>5, <3>1, OpenAppended
    <3>3. \A request : Owes(request) => Owes(request)'
      BY <1>1, <2>1, <2>5, OwesStays
    <3> QED BY <1>3, <2>1, <2>5, <3>2, <3>3
  <2> QED BY <1>5, <2>2, <2>3, <2>4, <2>5, LeavesBox
<1>6. CASE OpenThread \/ PrepareTurn
  BY <1>2, <1>6, ClearedEffect DEF Streaming
<1>7. CASE EnterWriter
  BY <1>4, <1>7, EnterWriterEffect DEF Held, Writing
<1>8. CASE Read
  <2> DEFINE m == Head(Box)
  <2>1. /\ Box # <<>> /\ client'.inbox = Tail(Box) /\ UNCHANGED native /\ pc = "reading"
        /\ Effect(state, m, state')
    BY <1>2, <1>8, ReadSteps DEF Streaming
  <2>2. Streaming /\ ItemsEffect(state, m, state') /\ TokensEffect(state, m, state')
    BY <1>2, <2>1 DEF Effect, Streaming
  <2>3. \A y \in native'.items : ItemOpen(y)'
    <3>1. \A y \in native.items : y \in [id : Ids, type : Types]
      BY DEF TypeOK, NativeType
    <3> QED BY <1>1, <1>3, <2>1, <2>2, <3>1, OpenRead
  <2>4. CASE Owned
    <3>1. state'.owed \subseteq state.owed
      BY <2>2 DEF TokensEffect
    <3> QED BY <1>1, <1>3, <2>1, <2>2, <2>3, <2>4, <3>1, OpenRead
  <2>5. CASE ~ Owned
    BY <2>1, <2>2, <2>3, <2>5 DEF Callbacks, TokensEffect
  <2> QED BY <2>4, <2>5
<1>9. CASE ReplyCalls
  <2>1. PICK t \in state.tokens :
            state'.tokens = (state.tokens \ {t}) \cup {[t EXCEPT !.attempted = TRUE]}
    BY <1>9, ReplyCallsEffect
  <2>2. /\ UNCHANGED <<pc, client, native>>
        /\ state'.items = state.items /\ state'.owed = state.owed
        /\ state'.writer = state.writer
    BY <1>9, ReplyCallsEffect
  <2>3. ASSUME NEW request, \E u \in state.tokens : u.request = request
        PROVE  \E u \in state'.tokens : u.request = request
    <3>1. [t EXCEPT !.attempted = TRUE].request = t.request
      BY DEF TypeOK, HostType, Token
    <3> QED BY <2>1, <2>3, <3>1
  <2>4. Streaming /\ client'.inbox = Box
    BY <1>2, <2>2 DEF Streaming, Box
  <2> QED BY <1>1, <1>3, <2>2, <2>3, <2>4, OpenSame, OwesStays
<1>10. CASE ReplyEnters
  <2>1. /\ UNCHANGED <<pc, client, native>>
        /\ state'.items = state.items /\ state'.owed = state.owed
        /\ state'.writer = state.writer /\ state'.tokens = state.tokens
    BY <1>10, ReplyEntersEffect
  <2>2. Streaming /\ client'.inbox = Box
    BY <1>2, <2>1 DEF Streaming, Box
  <2> QED BY <1>1, <1>3, <2>1, <2>2, OpenSame, OwesStays
<1>11. CASE ReplySent
  <2>1. PICK r \in replies :
          /\ native'.asked = {a \in native.asked : a.request # r.request}
          /\ state'.owed = state.owed \ {r.request}
          /\ state'.tokens = {t \in state.tokens : t.token # r.token}
    BY <1>11, ReplySentEffect
  <2>2. /\ UNCHANGED <<pc, client>> /\ state'.items = state.items /\ state'.writer = state.writer
        /\ native'.items = native.items
    BY <1>11, ReplySentEffect
  <2>3. Streaming /\ client'.inbox = Box
    BY <1>2, <2>2 DEF Streaming, Box
  <2>4. ASSUME NEW request \in state'.owed, \E u \in state.tokens : u.request = request
        PROVE  \E u \in state'.tokens : u.request = request
    BY <2>1, <2>4 DEF Tokens
  <2>5. \A request \in state'.owed : Owes(request)'
    BY <1>1, <1>3, <2>1, <2>3, <2>4, OwesStays
  <2> QED BY <1>3, <2>1, <2>2, <2>3, <2>5, OpenSame
<1>12. CASE ReplyFails
  <2>1. /\ UNCHANGED <<pc, client, state>>
        /\ native'.items = native.items /\ native'.asked \subseteq native.asked
    BY <1>12, ReplyFailsEffect
  <2>2. Streaming /\ client'.inbox = Box
    BY <1>2, <2>1 DEF Streaming, Box
  <2> QED BY <1>1, <1>3, <2>1, <2>2, OpenSame, OwesStays
<1>13. CASE Emit
  <2>1. PICK m \in Message :
          /\ native.turn # 0 /\ client'.inbox = Append(Box, m) /\ UNCHANGED pc
          /\ Ghost(native', m)
          /\ state'.items = state.items /\ state'.tokens = state.tokens
          /\ state'.writer = state.writer
          /\ state'.owed = CASE m.method = "call" /\ setup.tools -> state.owed \cup {m.id}
                             [] m.method = "resolved" -> state.owed \ {m.id}
                             [] OTHER -> state.owed
    BY <1>13, EmitEffect
  <2>2. Streaming /\ \A i \in DOMAIN Box : ~ IsOver(Box[i])
    BY <1>2, <2>1 DEF Streaming, InOrder
  <2>3. \A y \in native'.items : ItemOpen(y)'
    BY <1>1, <1>3, <2>1, <2>2, OpenAppended DEF Ghost
  <2>4. \A a \in native'.asked : CallOpen(a)'
    BY <1>1, <1>3, <2>1, <2>2, OpenAppended DEF Ghost
  <2>5. ASSUME NEW request \in state'.owed PROVE Owes(request)'
    <3>1. CASE request \in state.owed
      BY <1>1, <1>3, <2>1, <2>2, <3>1, OwesStays
    <3>2. CASE request \notin state.owed
      <4>1. Calls(m) /\ m.id = request
        BY <2>1, <2>5, <3>2 DEF Calls
      <4>2. PICK last \in Nat : last = Len(Box) + 1
        BY <1>1
      <4>3. /\ last \in DOMAIN Append(Box, m) /\ Append(Box, m)[last] = m
            /\ \A i \in DOMAIN Append(Box, m) :
                  (i \in DOMAIN Box /\ Append(Box, m)[i] = Box[i]) \/ i = last
        BY <1>1, <4>2, SeqAppend
      <4>4. BeforeEnd(last)'
        BY <2>1, <2>2, <4>2, <4>3 DEF BeforeEnd, Box
      <4> QED BY <2>1, <4>1, <4>3, <4>4 DEF Owes, Box
    <3> QED BY <3>1, <3>2
  <2> QED BY <2>3, <2>4, <2>5
<1> QED BY <1>5, <1>6, <1>7, <1>8, <1>9, <1>10, <1>11, <1>12, <1>13, Steps DEF Leaves

\* A turn is sealed by reading its end only.
LEMMA LeavesSealed ==
    ASSUME TypeOK, InOrder, Leaves, pc' = "ended", Sealed' PROVE pc = "ended" /\ Sealed
<1>1. state'.terminal = state.terminal \/ (TimesOut /\ ~ state'.terminal.native)
  BY LeavesSteps
<1>2. state'.terminal = state.terminal /\ Sealed
  BY <1>1 DEF Sealed
<1>3. Close => pc' \in {"gone", "idle"}
  BY DEF Close
<1> QED BY <1>2, <1>3, LeavesPlace DEF InOrder, Sealed

\* Once a turn has ended natively, what the server has open is known.
LEMMA SettledStep ==
    ASSUME TypeOK, Calm, InOrder, Callbacks, Tokens, Followed, Settled, [Next]_vars PROVE Settled'
<1>1. SUFFICES ASSUME pc' = "ended", Sealed'
               PROVE  /\ native'.items \subseteq state'.items
                      /\ \A a \in native'.asked : \E x \in state'.items : x.id = a.item
                      /\ \A request \in state'.owed : \E t \in state'.tokens : t.request = request
  BY DEF Settled
<1>2. pc = "ended" /\ Sealed =>
         /\ native.items \subseteq state.items
         /\ \A a \in native.asked : \E x \in state.items : x.id = a.item
         /\ \A request \in state.owed : \E t \in state.tokens : t.request = request
  BY DEF Settled
<1>3. CASE Leaves
  BY <1>1, <1>2, <1>3, LeavesSteps, LeavesSealed DEF Held
<1>4. CASE OpenThread \/ PrepareTurn
  BY <1>1, <1>4, ClearedEffect
<1>5. CASE EnterWriter
  BY <1>1, <1>5, EnterWriterEffect
<1>6. CASE Read
  <2> DEFINE m == Head(Box)
  <2>1. pc = "reading" /\ Box # <<>> /\ state.terminal = Absent /\ UNCHANGED native
    BY <1>6, ReadSteps DEF InOrder
  <2>2. /\ IsOver(m) /\ state'.items = state.items /\ state'.tokens = state.tokens
        /\ state'.owed = state.owed
    BY <1>1, <1>6, <2>1, ReadSteps DEF Sealed
  <2>3. m = Box[1] /\ 1 \in DOMAIN Box /\ \A i \in DOMAIN Box : i \in Nat /\ i >= 1
    BY <2>1, SeqTail DEF TypeOK, SessionType, Box
  <2>4. Streaming
    BY <2>1, <2>2, <2>3 DEF Calm, Writing, Streaming, Quiet, IsOver
  <2> HIDE DEF m
  <2>5. ASSUME NEW i \in DOMAIN Box, BeforeEnd(i)
        PROVE  /\ \A y : ~ Starts(Box[i], y)
               /\ ~ Calls(Box[i])
    <3>1. i = 1
      BY <2>2, <2>3, <2>5 DEF BeforeEnd
    <3> QED BY <2>2, <2>3, <3>1 DEF Starts, Calls, IsOver
  <2>6. /\ \A y \in native.items : y \in state.items
        /\ \A a \in native.asked : \E x \in state.items : x.id = a.item
        /\ \A request \in state.owed : \E t \in state.tokens : t.request = request
    BY <2>4, <2>5 DEF Followed, ItemOpen, CallOpen, Owes
  <2> QED BY <2>1, <2>2, <2>6
<1>7. CASE ReplyCalls
  BY <1>1, <1>7, ReplyCallsEffect DEF Live
<1>8. CASE ReplyEnters
  BY <1>1, <1>2, <1>8, ReplyEntersEffect DEF Sealed
<1>9. CASE ReplySent
  <2>1. PICK r \in replies :
          /\ native'.asked = {a \in native.asked : a.request # r.request}
          /\ state'.owed = state.owed \ {r.request}
          /\ state'.tokens = {t \in state.tokens : t.token # r.token}
    BY <1>9, ReplySentEffect
  <2>2. /\ pc = "ended" /\ Sealed /\ state'.items = state.items /\ native'.items = native.items
    BY <1>1, <1>9, ReplySentEffect DEF Sealed
  <2>3. ASSUME NEW request \in state'.owed PROVE \E t \in state'.tokens : t.request = request
    <3>1. PICK t \in state.tokens : t.request = request
      BY <1>2, <2>1, <2>2
    <3>2. t.token # r.token
      BY <2>1, <3>1 DEF Tokens
    <3> QED BY <2>1, <3>1, <3>2
  <2> QED BY <1>2, <2>1, <2>2, <2>3
<1>10. CASE ReplyFails
  BY <1>1, <1>2, <1>10, ReplyFailsEffect DEF Sealed
<1>11. CASE Emit
  BY <1>1, <1>11, EmitEffect DEF InOrder, Sealed
<1> QED BY <1>3, <1>4, <1>5, <1>6, <1>7, <1>8, <1>9, <1>10, <1>11, Steps DEF Leaves

\* What a function that is called, and what ran, look like from the reader when
\* one message more waits, and when the first is read.
LEMMA RunsAppended ==
    ASSUME Box \in Seq(Message), NEW m \in Message, client'.inbox = Append(Box, m),
           state'.unpublished = state.unpublished, Owned' = Owned
    PROVE  /\ \A f : FunctionOpen(f) /\ ~ Answers(m, f) => FunctionOpen(f)'
           /\ WillAct => WillAct'
           /\ (\A i \in DOMAIN Box : ~ IsOver(Box[i])) =>
                /\ \A f : Asks(m, f) => FunctionOpen(f)'
                /\ Acts(m) => WillAct'
                /\ Answers(m, m.id) /\ m.detail # "refused" /\ FunctionOpen(m.id) => WillAct'
<1> DEFINE box == Append(Box, m)
<1>0. PICK last \in Nat : last = Len(Box) + 1
  OBVIOUS
<1>1. /\ last \in DOMAIN box /\ box[last] = m
      /\ \A i \in DOMAIN Box : i \in DOMAIN box /\ box[i] = Box[i] /\ i \in Nat /\ i < last
      /\ \A i \in DOMAIN box : (i \in DOMAIN Box /\ box[i] = Box[i]) \/ (i = last /\ box[i] = m)
  BY <1>0, SeqAppend
<1>2. Box' = box
  BY DEF Box
<1>3. \A n : Acts(n)' <=> Acts(n)
  BY DEF Acts
<1> HIDE DEF box
<1>4. \A i \in DOMAIN Box : BeforeEnd(i) => BeforeEnd(i)'
  BY <1>1, <1>2 DEF BeforeEnd
<1>5. (\A i \in DOMAIN Box : ~ IsOver(Box[i])) => BeforeEnd(last)'
  BY <1>1, <1>2 DEF BeforeEnd
<1>6. ASSUME NEW f, FunctionOpen(f), ~ Answers(m, f) PROVE FunctionOpen(f)'
  <2>1. ASSUME NEW i \in DOMAIN Box, Asks(Box[i], f), BeforeEnd(i),
               \A j \in DOMAIN Box : j > i => ~ Answers(Box[j], f)
        PROVE  FunctionOpen(f)'
    <3>1. i \in DOMAIN box /\ Asks(box[i], f) /\ BeforeEnd(i)'
      BY <1>1, <1>4, <2>1
    <3>2. \A j \in DOMAIN box : j > i => ~ Answers(box[j], f)
      BY <1>1, <1>6, <2>1
    <3> QED BY <1>2, <3>1, <3>2 DEF FunctionOpen
  <2>2. CASE f \in state.unpublished /\ \A j \in DOMAIN Box : ~ Answers(Box[j], f)
    <3>1. \A j \in DOMAIN box : ~ Answers(box[j], f)
      BY <1>1, <1>6, <2>2
    <3> QED BY <1>2, <2>2, <3>1 DEF FunctionOpen
  <2> QED BY <1>6, <2>1, <2>2 DEF FunctionOpen
<1>7. ASSUME NEW i \in DOMAIN Box, Ran(i) PROVE Ran(i)'
  <2>1. box[i] = Box[i] /\ \A j \in DOMAIN box : j < i => j \in DOMAIN Box /\ box[j] = Box[j]
    BY <1>1
  <2>2. Answers(box[i], box[i].id) /\ box[i].detail # "refused"
    BY <1>7, <2>1 DEF Ran
  <2>3. CASE \E k \in DOMAIN Box :
               /\ k < i /\ Asks(Box[k], Box[i].id)
               /\ \A j \in DOMAIN Box : k < j /\ j < i => ~ Answers(Box[j], Box[i].id)
    <3>1. PICK k \in DOMAIN Box :
               /\ k < i /\ Asks(Box[k], Box[i].id)
               /\ \A j \in DOMAIN Box : k < j /\ j < i => ~ Answers(Box[j], Box[i].id)
      BY <2>3
    <3>2. k \in DOMAIN box /\ box[k] = Box[k]
      BY <1>1
    <3> QED BY <1>2, <2>1, <2>2, <3>1, <3>2 DEF Ran
  <2>4. CASE /\ Box[i].id \in state.unpublished
             /\ \A j \in DOMAIN Box : j < i => ~ Answers(Box[j], Box[i].id)
    BY <1>2, <2>1, <2>2, <2>4 DEF Ran
  <2> QED BY <1>7, <2>3, <2>4 DEF Ran
<1>8. WillAct => WillAct'
  BY <1>1, <1>2, <1>3, <1>4, <1>7 DEF WillAct
<1>9. ASSUME \A i \in DOMAIN Box : ~ IsOver(Box[i])
      PROVE  /\ \A f : Asks(m, f) => FunctionOpen(f)'
             /\ Acts(m) => WillAct'
             /\ Answers(m, m.id) /\ m.detail # "refused" /\ FunctionOpen(m.id) => WillAct'
  <2>1. BeforeEnd(last)' /\ \A j \in DOMAIN box : ~ (j > last)
    BY <1>1, <1>5, <1>9
  <2>2. \A f : Asks(m, f) => FunctionOpen(f)'
    BY <1>1, <1>2, <2>1 DEF FunctionOpen
  <2>3. Acts(m) => WillAct'
    BY <1>1, <1>2, <1>3, <2>1 DEF WillAct
  <2>4. ASSUME Answers(m, m.id), m.detail # "refused", FunctionOpen(m.id) PROVE WillAct'
    <3>1. \A j \in DOMAIN box : j < last => j \in DOMAIN Box /\ box[j] = Box[j]
      BY <1>1
    <3>2. CASE \E i \in DOMAIN Box :
                 /\ Asks(Box[i], m.id) /\ BeforeEnd(i)
                 /\ \A j \in DOMAIN Box : j > i => ~ Answers(Box[j], m.id)
      <4>1. PICK i \in DOMAIN Box :
                 /\ Asks(Box[i], m.id)
                 /\ \A j \in DOMAIN Box : j > i => ~ Answers(Box[j], m.id)
        BY <3>2
      <4>2. i \in DOMAIN box /\ box[i] = Box[i] /\ i < last
        BY <1>1
      <4>3. \A j \in DOMAIN box : i < j /\ j < last => ~ Answers(box[j], m.id)
        <5>1. \A j \in DOMAIN Box : i < j => j > i
          BY <1>1
        <5> QED BY <3>1, <4>1, <5>1
      <4>4. Ran(last)'
        BY <1>1, <1>2, <2>4, <4>1, <4>2, <4>3 DEF Ran
      <4> QED BY <1>1, <1>2, <2>1, <4>4 DEF WillAct
    <3>3. CASE m.id \in state.unpublished /\ \A j \in DOMAIN Box : ~ Answers(Box[j], m.id)
      <4>1. Ran(last)'
        BY <1>1, <1>2, <2>4, <3>1, <3>3 DEF Ran
      <4> QED BY <1>1, <1>2, <2>1, <4>1 DEF WillAct
    <3> QED BY <2>4, <3>2, <3>3 DEF FunctionOpen
  <2> QED BY <2>2, <2>3, <2>4
<1> QED BY <1>6, <1>8, <1>9

\* A step that leaves the queue and the authority leaves what will be granted.
LEMMA RunsSame ==
    ASSUME client'.inbox = Box, state'.unpublished = state.unpublished, Owned' = Owned
    PROVE  (\A f : FunctionOpen(f) => FunctionOpen(f)') /\ (WillAct => WillAct')
<1>1. Box' = Box
  BY DEF Box
<1> QED BY <1>1 DEF FunctionOpen, WillAct, BeforeEnd, Acts, Ran

\* Reading the head of the queue grants what it was to grant.
LEMMA RunsRead ==
    ASSUME Box \in Seq(Message), Box # <<>>, NEW m, m = Head(Box), client'.inbox = Tail(Box),
           Owned' = Owned, UnpublishedEffect(state, m, state'), AuthorityEffect(state, m, state')
    PROVE  /\ \A f : FunctionOpen(f) => FunctionOpen(f)'
           /\ WillAct => state'.authority \/ WillAct'
<1>1. /\ m = Box[1] /\ 1 \in DOMAIN Box
      /\ \A i \in DOMAIN Tail(Box) : i \in Nat /\ i + 1 \in DOMAIN Box /\ Tail(Box)[i] = Box[i + 1]
      /\ \A i \in DOMAIN Box : i # 1 => i - 1 \in DOMAIN Tail(Box) /\ Tail(Box)[i - 1] = Box[i]
      /\ \A i \in DOMAIN Box : i \in Nat /\ i >= 1
  BY SeqTail
<1> DEFINE rest == Tail(Box)
<1>2. Box' = rest
  BY DEF Box
<1>3. /\ \A i \in DOMAIN rest : i \in Nat /\ i >= 1 /\ i + 1 \in DOMAIN Box /\ rest[i] = Box[i + 1]
      /\ \A i \in DOMAIN Box : i # 1 => i - 1 \in DOMAIN rest /\ rest[i - 1] = Box[i]
      /\ \A i \in DOMAIN Box : i \in Nat /\ i >= 1
  BY <1>1 DEF rest
<1> HIDE DEF rest
<1>4. ASSUME NEW i \in DOMAIN Box, i # 1, BeforeEnd(i) PROVE BeforeEnd(i - 1)'
  <2>1. \A j \in DOMAIN rest : j < i - 1 => j + 1 < i
    BY <1>3
  <2> QED BY <1>2, <1>3, <1>4, <2>1 DEF BeforeEnd
<1>5. \A n : Acts(n)' <=> Acts(n)
  BY DEF Acts
<1>6. ASSUME NEW f, FunctionOpen(f) PROVE FunctionOpen(f)'
  <2>1. ASSUME NEW i \in DOMAIN Box, Asks(Box[i], f), BeforeEnd(i),
               \A j \in DOMAIN Box : j > i => ~ Answers(Box[j], f)
        PROVE  FunctionOpen(f)'
    <3>1. CASE i = 1
      <4>1. f \in state'.unpublished
        BY <1>1, <2>1, <3>1 DEF UnpublishedEffect
      <4>2. \A j \in DOMAIN rest : ~ Answers(rest[j], f)
        <5>1. \A j \in DOMAIN rest : j + 1 > 1
          BY <1>3
        <5> QED BY <1>3, <2>1, <3>1, <5>1
      <4> QED BY <1>2, <4>1, <4>2 DEF FunctionOpen
    <3>2. CASE i # 1
      <4>1. i - 1 \in DOMAIN rest /\ rest[i - 1] = Box[i] /\ BeforeEnd(i - 1)'
        BY <1>3, <1>4, <2>1, <3>2
      <4>2. \A j \in DOMAIN rest : j > i - 1 => ~ Answers(rest[j], f)
        <5>1. \A j \in DOMAIN rest : j > i - 1 => j + 1 > i
          BY <1>3
        <5> QED BY <1>3, <2>1, <5>1
      <4> QED BY <1>2, <2>1, <4>1, <4>2 DEF FunctionOpen
    <3> QED BY <3>1, <3>2
  <2>2. CASE f \in state.unpublished /\ \A j \in DOMAIN Box : ~ Answers(Box[j], f)
    <3>1. f \in state'.unpublished
      BY <1>1, <2>2 DEF UnpublishedEffect
    <3>2. \A j \in DOMAIN rest : ~ Answers(rest[j], f)
      BY <1>3, <2>2
    <3> QED BY <1>2, <3>1, <3>2 DEF FunctionOpen
  <2> QED BY <1>6, <2>1, <2>2 DEF FunctionOpen
<1>7. ASSUME NEW i \in DOMAIN Box, i # 1, Ran(i) PROVE Ran(i - 1)'
  <2>1. i - 1 \in DOMAIN rest /\ rest[i - 1] = Box[i]
    BY <1>3, <1>7
  <2> DEFINE id == Box[i].id
  <2>2. Answers(Box[i], id) /\ Box[i].detail # "refused"
    BY <1>7 DEF Ran
  <2>3. PICK f : f = id
    OBVIOUS
  <2>4. /\ Answers(rest[i - 1], f) /\ rest[i - 1].id = f /\ rest[i - 1].detail # "refused"
    BY <2>1, <2>2, <2>3
  <2>5. ASSUME NEW k \in DOMAIN Box, k < i, Asks(Box[k], f),
               \A j \in DOMAIN Box : k < j /\ j < i => ~ Answers(Box[j], f)
        PROVE  Ran(i - 1)'
    <3>1. CASE k = 1
      <4>1. f \in state'.unpublished
        BY <1>1, <2>5, <3>1 DEF UnpublishedEffect
      <4>2. \A j \in DOMAIN rest : j < i - 1 => ~ Answers(rest[j], f)
        <5>1. \A j \in DOMAIN rest : j < i - 1 => 1 < j + 1 /\ j + 1 < i
          BY <1>3
        <5> QED BY <1>3, <2>5, <3>1, <5>1
      <4> QED BY <1>2, <2>4, <4>1, <4>2 DEF Ran
    <3>2. CASE k # 1
      <4>1. k - 1 \in DOMAIN rest /\ rest[k - 1] = Box[k] /\ k - 1 < i - 1
        BY <1>3, <2>5, <3>2
      <4>2. \A j \in DOMAIN rest : k - 1 < j /\ j < i - 1 => ~ Answers(rest[j], f)
        <5>1. \A j \in DOMAIN rest : k - 1 < j /\ j < i - 1 => k < j + 1 /\ j + 1 < i
          BY <1>3
        <5> QED BY <1>3, <2>5, <5>1
      <4> QED BY <1>2, <2>4, <2>5, <4>1, <4>2 DEF Ran
    <3> QED BY <3>1, <3>2
  <2>6. CASE f \in state.unpublished /\ \A j \in DOMAIN Box : j < i => ~ Answers(Box[j], f)
    <3>1. 1 < i
      BY <1>3, <1>7
    <3>2. f \in state'.unpublished
      BY <1>1, <2>6, <3>1 DEF UnpublishedEffect
    <3>3. \A j \in DOMAIN rest : j < i - 1 => ~ Answers(rest[j], f)
      <4>1. \A j \in DOMAIN rest : j < i - 1 => j + 1 < i
        BY <1>3
      <4> QED BY <1>3, <2>6, <4>1
    <3> QED BY <1>2, <2>4, <3>2, <3>3 DEF Ran
  <2> QED BY <1>7, <2>3, <2>5, <2>6 DEF Ran
<1>8. ASSUME NEW i \in DOMAIN Box, BeforeEnd(i), Acts(Box[i]) \/ Ran(i)
      PROVE  state'.authority \/ WillAct'
  <2>1. CASE i = 1
    <3>1. Acts(m) => state'.authority
      BY DEF AuthorityEffect
    <3>2. Ran(i) => state'.authority
      <4>1. ASSUME Ran(i)
            PROVE  Answers(m, m.id) /\ m.detail # "refused" /\ m.id \in state.unpublished
        <5>1. \A k \in DOMAIN Box : ~ (k < i)
          BY <1>3, <2>1
        <5> QED BY <1>1, <2>1, <4>1, <5>1 DEF Ran
      <4> QED BY <4>1 DEF AuthorityEffect
    <3> QED BY <1>1, <1>8, <2>1, <3>1, <3>2
  <2>2. CASE i # 1
    <3>1. i - 1 \in DOMAIN rest /\ rest[i - 1] = Box[i] /\ BeforeEnd(i - 1)'
      BY <1>3, <1>4, <1>8, <2>2
    <3>2. PICK n : n = Box[i]
      OBVIOUS
    <3>3. Acts(n)' \/ Ran(i - 1)'
      BY <1>5, <1>7, <1>8, <2>2, <3>2
    <3> QED BY <1>2, <3>1, <3>2, <3>3 DEF WillAct
  <2> QED BY <2>1, <2>2
<1> QED BY <1>6, <1>8 DEF WillAct

\* What a contained turn ran stays known or on its way.
LEMMA ContainedStep ==
    ASSUME TypeOK, Calm, InOrder, Contained, [Next]_vars PROVE Contained'
<1> DEFINE Late == native.turn = 0 /\ \E f \in native.calls : FunctionOpen(f)
<1>1. /\ Box \in Seq(Message) /\ setup' = setup /\ Owned' = Owned
  BY SetupStays DEF TypeOK, SessionType, Box
<1>2. SUFFICES ASSUME setup.contained
               PROVE  /\ Streaming' /\ native'.turn # 0 => \A f \in native'.calls : FunctionOpen(f)'
                      /\ Streaming' /\ native'.ran => state'.authority \/ WillAct' \/ Late'
                      /\ Sealed' => /\ pc' \in {"ended", "idle", "gone"} /\ native'.turn = 0
                                    /\ ~ native'.ran
  BY <1>1 DEF Contained
<1>3. /\ Streaming /\ native.turn # 0 => \A f \in native.calls : FunctionOpen(f)
      /\ Streaming /\ native.ran => state.authority \/ WillAct \/ Late
      /\ Sealed => pc \in {"ended", "idle", "gone"} /\ native.turn = 0 /\ ~ native.ran
  BY <1>2 DEF Contained
<1>4. ASSUME native'.turn = native.turn, native'.calls = native.calls, native'.ran = native.ran,
             state'.authority = state.authority, Streaming' => Streaming,
             Streaming => /\ \A f : FunctionOpen(f) => FunctionOpen(f)'
                          /\ WillAct => WillAct'
      PROVE  /\ Streaming' /\ native'.turn # 0 => \A f \in native'.calls : FunctionOpen(f)'
             /\ Streaming' /\ native'.ran => state'.authority \/ WillAct' \/ Late'
  BY <1>3, <1>4
<1> HIDE DEF Late
<1>5. CASE Leaves
  <2>1. /\ native'.turn = native.turn /\ native'.calls = native.calls /\ native'.ran = native.ran
        /\ state'.authority = state.authority /\ state'.unpublished = state.unpublished
        /\ state'.writer = state.writer
        /\ state'.terminal = state.terminal \/ (TimesOut /\ ~ state'.terminal.native)
    BY <1>5, LeavesSteps DEF Held
  <2>2. Streaming' => Streaming
    <3>1. Close => pc' \in {"gone", "idle"}
      BY DEF Close
    <3> QED BY <1>5, <2>1, <3>1, LeavesPlace DEF Streaming, InOrder
  <2>3. (\A f : FunctionOpen(f) => FunctionOpen(f)') /\ (WillAct => WillAct')
    <3>1. CASE client'.inbox = Box
      BY <1>1, <2>1, <3>1, RunsSame
    <3>2. ASSUME NEW m \in Message, m.method \in Quiet, client'.inbox = Append(Box, m)
          PROVE  (\A f : FunctionOpen(f) => FunctionOpen(f)') /\ (WillAct => WillAct')
      <4>1. \A f : ~ Answers(m, f)
        BY <3>2 DEF Quiet, Answers
      <4> QED BY <1>1, <2>1, <3>2, <4>1, RunsAppended
    <3> QED BY <1>5, <3>1, <3>2, LeavesBox
  <2>4. Sealed' => pc' \in {"ended", "idle", "gone"} /\ native'.turn = 0 /\ ~ native'.ran
    <3>1. ASSUME Sealed' PROVE Sealed
      BY <2>1, <3>1 DEF Sealed
    <3>2. Close => pc' \in {"gone", "idle"}
      BY DEF Close
    <3> QED BY <1>3, <1>5, <2>1, <3>1, <3>2, LeavesPlace
  <2> QED BY <1>4, <2>1, <2>2, <2>3, <2>4
<1>6. CASE OpenThread \/ PrepareTurn
  <2>1. UNCHANGED <<pc, state, native>> \/ state'.terminal = Absent
    BY <1>6, ClearedEffect
  <2>2. pc' \in {"idle", "prepared"} /\ (UNCHANGED <<pc, state, native>> => Sealed' = Sealed)
    BY <1>6, ClearedEffect DEF Sealed
  <2> QED BY <1>3, <2>1, <2>2 DEF Streaming, Sealed
<1>7. CASE EnterWriter
  <2>1. native'.calls = {} /\ native'.ran = FALSE /\ state'.terminal = Absent
    BY <1>7, EnterWriterEffect DEF InOrder
  <2> QED BY <2>1 DEF Sealed
<1>8. CASE Read
  <2> DEFINE m == Head(Box)
  <2>1. /\ pc = "reading" /\ Box # <<>> /\ client'.inbox = Tail(Box)
        /\ UNCHANGED native /\ state.terminal = Absent
    BY <1>8, ReadSteps DEF InOrder
  <2>2. \/ pc' = "ended" /\ state'.terminal = state.terminal
        \/ /\ pc' = IF IsOver(m) THEN "ended" ELSE "reading"
           /\ Effect(state, m, state')
           /\ IsOver(m) => ~ state.authority /\ state.unpublished = {}
    BY <1>2, <1>8, ReadSteps
  <2>3. m = Box[1] /\ 1 \in DOMAIN Box /\ \A i \in DOMAIN Box : i \in Nat /\ i >= 1
    BY <1>1, <2>1, SeqTail
  <2>4. CASE pc' = "ended" /\ state'.terminal = state.terminal
    BY <2>1, <2>4 DEF Streaming, Sealed
  <2>5. CASE pc' = "reading" /\ Effect(state, m, state') /\ ~ IsOver(m)
    <3>1. /\ state'.terminal = Absent /\ state'.writer = state.writer
          /\ UnpublishedEffect(state, m, state') /\ AuthorityEffect(state, m, state')
      BY <2>1, <2>5 DEF Effect
    <3>2. /\ \A f : FunctionOpen(f) => FunctionOpen(f)'
          /\ WillAct => state'.authority \/ WillAct'
      BY <1>1, <2>1, <3>1, RunsRead
    <3>3. Late => Late'
      BY <2>1, <3>2 DEF Late
    <3>4. (Streaming' => Streaming) /\ ~ Sealed' /\ (state.authority => state'.authority)
      BY <2>1, <3>1 DEF Streaming, Sealed, AuthorityEffect
    <3> QED BY <1>3, <2>1, <3>2, <3>3, <3>4
  <2>6. CASE pc' = "ended" /\ IsOver(m) /\ ~ state.authority /\ state.unpublished = {}
    <3>1. Streaming
      BY <2>1, <2>3, <2>6 DEF Calm, Writing, Streaming, Quiet, IsOver
    <3>2. native.turn = 0
      BY <2>3, <2>6, <3>1 DEF InOrder
    <3> HIDE DEF m
    <3>3. ASSUME NEW i \in DOMAIN Box, BeforeEnd(i)
          PROVE  ~ Acts(Box[i]) /\ ~ Ran(i) /\ \A f : ~ Asks(Box[i], f)
      <4>1. i = 1
        BY <2>3, <2>6, <3>3 DEF BeforeEnd
      <4> QED BY <2>3, <2>6, <4>1 DEF Acts, Ran, Answers, Asks, IsOver
    <3>4. ~ WillAct /\ \A f : ~ FunctionOpen(f)
      BY <2>6, <3>3 DEF WillAct, FunctionOpen
    <3>5. ~ native.ran
      BY <1>3, <2>6, <3>1, <3>4 DEF Late
    <3> QED BY <2>1, <2>6, <3>2, <3>5 DEF Streaming
  <2> QED BY <2>2, <2>4, <2>5, <2>6
<1>9. CASE ReplyCalls \/ ReplyEnters \/ ReplySent \/ ReplyFails
  <2>1. /\ UNCHANGED <<pc, client>> /\ native'.turn = native.turn /\ native'.calls = native.calls
        /\ native'.ran = native.ran
        /\ state'.writer = state.writer /\ state'.terminal = state.terminal
        /\ state'.authority = state.authority /\ state'.unpublished = state.unpublished
    BY <1>9, ReplyCallsEffect, ReplyEntersEffect, ReplySentEffect, ReplyFailsEffect
  <2>2. (Sealed' => Sealed) /\ (Streaming' => Streaming) /\ client'.inbox = Box
    BY <2>1 DEF Sealed, Streaming, Box
  <2>3. (\A f : FunctionOpen(f) => FunctionOpen(f)') /\ (WillAct => WillAct')
    BY <1>1, <2>1, <2>2, RunsSame
  <2> QED BY <1>3, <1>4, <2>1, <2>2, <2>3
<1>10. CASE Emit
  <2>1. PICK m \in Message :
          /\ native.turn # 0 /\ client'.inbox = Append(Box, m) /\ UNCHANGED pc
          /\ Ghost(native', m)
          /\ state'.unpublished = state.unpublished /\ state'.authority = state.authority
          /\ state'.writer = state.writer /\ state'.terminal = state.terminal
    BY <1>10, EmitEffect
  <2>2. ~ Sealed' /\ (Streaming' => Streaming)
    BY <1>3, <2>1 DEF Sealed, Streaming
  <2>3. SUFFICES ASSUME Streaming
                 PROVE  /\ native'.turn # 0 => \A f \in native'.calls : FunctionOpen(f)'
                        /\ native'.ran => state'.authority \/ WillAct' \/ Late'
    BY <2>2
  <2>4. \A i \in DOMAIN Box : ~ IsOver(Box[i])
    BY <2>1, <2>3 DEF InOrder
  <2>5. /\ \A f : FunctionOpen(f) /\ ~ Answers(m, f) => FunctionOpen(f)'
        /\ WillAct => WillAct'
        /\ \A f : Asks(m, f) => FunctionOpen(f)'
        /\ Acts(m) => WillAct'
        /\ Answers(m, m.id) /\ m.detail # "refused" /\ FunctionOpen(m.id) => WillAct'
    BY <1>1, <2>1, <2>4, RunsAppended
  <2>6. \A f \in native'.calls : FunctionOpen(f)'
    BY <1>3, <2>1, <2>3, <2>5 DEF Ghost
  <2>7. ASSUME native'.ran PROVE state'.authority \/ WillAct' \/ Late'
    <3>1. CASE native.ran
      <4>1. state.authority \/ WillAct
        BY <1>3, <2>1, <2>3, <3>1 DEF Late
      <4> QED BY <2>1, <2>5, <4>1
    <3>2. CASE Acts(m)
      BY <2>5, <3>2
    <3>3. CASE Answers(m, m.id) /\ m.detail = "output" /\ m.id \in native.calls
      <4>1. FunctionOpen(m.id)
        BY <1>3, <2>1, <2>3, <3>3
      <4> QED BY <2>5, <3>3, <4>1
    <3>4. CASE IsOver(m) /\ native.calls # {}
      <4>1. native'.calls = native.calls /\ native'.turn = 0
        BY <2>1, <3>4 DEF Ghost
      <4> QED BY <2>6, <3>4, <4>1 DEF Late
    <3> QED BY <2>1, <2>7, <3>1, <3>2, <3>3, <3>4 DEF Ghost
  <2> QED BY <2>6, <2>7
<1> QED BY <1>5, <1>6, <1>7, <1>8, <1>9, <1>10, Steps DEF Leaves

-----------------------------------------------------------------------------
(* The counts: one snapshot, one turn, one step.                             *)

\* A snapshot raises the count, and what it says of the turn is counted from
\* the turn's boundary; the first of a turn without one is the boundary.
LEMMA Observed ==
    ASSUME NEW u \in Accounts, NEW n \in Nat, NEW v \in Observe(u, n),
           Sure(u) => u.baseline # Absent
    PROVE  /\ v \in Accounts /\ u.open /\ v.open /\ v.known = u.known
           /\ v.zero = u.zero /\ v.rebase = u.rebase
           /\ v.seen /\ v.cumulative = n /\ (u.cumulative # Absent => u.cumulative <= n)
           /\ \/ /\ u.rebase /\ ~ u.seen
                 /\ v.baseline = n /\ v.local = u.local /\ v.advanced = u.advanced
              \/ /\ ~ (u.rebase /\ ~ u.seen) /\ v.baseline = u.baseline
                 /\ \/ v.local = u.local /\ v.advanced = u.advanced
                    \/ v.advanced /\ u.zero /\ v.local = n
                    \/ v.advanced /\ ~ u.zero /\ n >= u.baseline /\ v.local = n - u.baseline
<1>1. u.open /\ (u.cumulative # Absent => UsageDelta(n, u.cumulative) # {})
  BY DEF Observe
<1>2. u.cumulative # Absent => u.cumulative <= n
  BY <1>1 DEF UsageDelta, Accounts, Count
<1>3. CASE u.rebase /\ ~ u.seen
  <2>1. v = [u EXCEPT !.baseline = n, !.cumulative = n, !.seen = TRUE]
    BY <1>1, <1>3 DEF Observe
  <2>2. v \in Accounts
    BY <2>1 DEF Accounts, Count
  <2> QED BY <1>1, <1>2, <1>3, <2>1, <2>2 DEF Accounts
<1>4. CASE ~ (u.rebase /\ ~ u.seen) /\ u.cumulative = n
  <2>1. v = [u EXCEPT !.seen = TRUE]
    BY <1>1, <1>4 DEF Observe
  <2>2. v \in Accounts
    BY <2>1 DEF Accounts
  <2> QED BY <1>1, <1>2, <1>4, <2>1, <2>2 DEF Accounts
<1>5. CASE ~ (u.rebase /\ ~ u.seen) /\ u.cumulative # n
  <2>1. PICK used \in IF u.zero THEN {n} ELSE UsageDelta(n, u.baseline) :
          v = [u EXCEPT !.cumulative = n, !.seen = TRUE, !.advanced = TRUE, !.local = used]
    BY <1>1, <1>5 DEF Observe
  <2>2. \/ u.zero /\ used = n
        \/ ~ u.zero /\ n >= u.baseline /\ used = n - u.baseline /\ used \in Nat
    <3>1. ~ u.zero => u.baseline \in Nat
      BY <1>5 DEF Sure, Accounts, Count
    <3> QED BY <2>1, <3>1 DEF UsageDelta
  <2>3. used \in Count
    BY <2>2 DEF Count
  <2>4. v \in Accounts
    BY <2>1, <2>3 DEF Accounts, Count
  <2> QED BY <1>1, <1>2, <1>5, <2>1, <2>2, <2>4 DEF Accounts
<1> QED BY <1>3, <1>4, <1>5

\* How a turn's account begins and ends.
LEMMA Begun ==
    ASSUME NEW u \in Accounts
    PROVE  LET v == BeginTurn(u) IN
           /\ v \in Accounts /\ v.open /\ v.cumulative = u.cumulative
           /\ v.baseline = u.cumulative /\ (v.zero <=> u.known /\ u.cumulative = Absent)
           /\ (v.rebase <=> ~ u.known) /\ ~ v.seen /\ ~ v.advanced /\ v.local = Absent
<1> DEFINE zero == u.known /\ u.cumulative = Absent
           rebase == ~ u.known
           v == [u EXCEPT !.open = TRUE, !.baseline = u.cumulative, !.zero = zero,
                          !.rebase = rebase, !.seen = FALSE, !.advanced = FALSE,
                          !.local = Absent]
<1>1. BeginTurn(u) = v
  BY DEF BeginTurn
<1>2. zero \in BOOLEAN /\ rebase \in BOOLEAN /\ u.cumulative \in Count /\ Absent \in Count
  BY DEF Accounts, Count
<1>3. /\ v \in Accounts /\ v.open /\ v.cumulative = u.cumulative /\ v.baseline = u.cumulative
      /\ v.zero = zero /\ v.rebase = rebase /\ ~ v.seen /\ ~ v.advanced /\ v.local = Absent
  <2> HIDE DEF zero, rebase
  <2> QED BY <1>2 DEF Accounts
<1> HIDE DEF v
<1> QED BY <1>1, <1>3

\* A turn that finishes knows its boundary when its count advanced.
LEMMA Finished ==
    ASSUME NEW u \in Accounts
    PROVE  /\ FinishTurn(u) \in Accounts /\ ~ FinishTurn(u).open
           /\ FinishTurn(u).known = u.advanced /\ FinishTurn(u).cumulative = u.cumulative
<1>1. u.advanced \in BOOLEAN
  BY DEF Accounts
<1> QED BY <1>1 DEF FinishTurn, Accounts

\* A turn that is abandoned while it counts leaves no boundary.
LEMMA Abandoned ==
    ASSUME NEW u \in Accounts
    PROVE  /\ AbandonTurn(u) \in Accounts /\ AbandonTurn(u).cumulative = u.cumulative
           /\ u.open => ~ AbandonTurn(u).known
           /\ ~ u.open => AbandonTurn(u) = u
BY DEF AbandonTurn, Accounts

\* The fields that the counts are about.
Counts ==
    <<state.usage, state.writer, state.terminal, charged, native.total, native.turn,
      native.began, native.ended, native.shown, native.replayed>>

\* The actions that count nothing.
Stills ==
    \/ OpenClient \/ VerifyAuth \/ CheckContainment \/ OpenFails \/ Submit \/ Acknowledge
    \/ Revoke \/ CancelReader \/ CloseSession
    \/ ReplyCalls \/ ReplyEnters \/ ReplySent \/ ReplyFails \/ EmitIdle \/ Drops
    \/ UNCHANGED vars

\* The actions that count nothing leave the counts.
LEMMA StillSteps ==
    ASSUME TypeOK, Stills
    PROVE  /\ Counts' = Counts
           /\ \/ pc' = pc \/ pc' = "gone"
              \/ /\ pc' \in {"auth", "config", "thread"}
                 /\ pc \in {"connect", "auth", "config", "thread"}
              \/ pc = "prepared" /\ pc' = "reading"
              \/ pc = "reading" /\ pc' = "ended"
<1> USE DEF Counts
<1>1. Shaped(state)
  BY DEF TypeOK
<1>2. DOMAIN native = {"total", "turn", "began", "ended", "items", "calls", "asked", "ran",
                       "shown", "frames", "replayed"}
  BY DEF TypeOK, NativeType
<1>3. CASE \/ OpenClient \/ VerifyAuth \/ CheckContainment \/ OpenFails \/ Submit \/ CloseSession
           \/ Drops \/ UNCHANGED vars
  BY <1>3 DEF OpenClient, VerifyAuth, CheckContainment, OpenFails, Submit, CloseSession, Drops,
              vars
<1>4. CASE Acknowledge
  BY <1>1, <1>4 DEF Acknowledge, Shaped, StateFields
<1>5. CASE Revoke
  BY <1>1, <1>5 DEF Revoke, Shaped, StateFields
<1>6. CASE CancelReader
  BY <1>1, <1>6 DEF CancelReader, Ends, Shaped, StateFields
<1>7. CASE ReplyCalls
  <2>1. UNCHANGED <<pc, native, charged>> /\ \E tokens : state' = [state EXCEPT !.tokens = tokens]
    BY <1>7 DEF ReplyCalls
  <2> QED BY <1>1, <2>1 DEF Shaped, StateFields
<1>8. CASE ReplyEnters
  <2>1. /\ UNCHANGED <<pc, native, charged>>
        /\ UNCHANGED state \/ \E calls : state' = [state EXCEPT !.calls = calls]
    BY <1>8 DEF ReplyEnters
  <2> QED BY <1>1, <2>1 DEF Shaped, StateFields
<1>9. CASE ReplySent
  <2>1. PICK r \in replies :
          /\ native' = [native EXCEPT !.asked = {a \in @ : a.request # r.request}]
          /\ state' = [state EXCEPT !.owed = @ \ {r.request}, !.requests = @ \ {r.request},
                                    !.tokens = {t \in @ : t.token # r.token}]
    BY <1>9 DEF ReplySent
  <2> DEFINE tokens == {t \in state.tokens : t.token # r.token}
             owed == state.owed \ {r.request}
             requests == state.requests \ {r.request}
             asked == {a \in native.asked : a.request # r.request}
  <2>2. /\ native' = [native EXCEPT !.asked = asked]
        /\ state' = [state EXCEPT !.owed = owed, !.requests = requests, !.tokens = tokens]
    BY <2>1
  <2>3. UNCHANGED <<pc, charged>>
    BY <1>9 DEF ReplySent
  <2> HIDE DEF tokens, owed, requests, asked
  <2> QED BY <1>1, <1>2, <2>2, <2>3 DEF Shaped, StateFields
<1>10. CASE ReplyFails
  <2>1. UNCHANGED <<pc, state, charged>>
    BY <1>10 DEF ReplyFails
  <2>2. native' = native \/ \E asked : native' = [native EXCEPT !.asked = asked]
    BY <1>10 DEF ReplyFails
  <2> QED BY <1>2, <2>1, <2>2
<1>11. CASE EmitIdle
  <2>1. UNCHANGED <<pc, state, charged>> /\ native' = [native EXCEPT !.frames = @ + 1]
    BY <1>11 DEF EmitIdle, Reports
  <2> QED BY <1>2, <2>1
<1> QED BY <1>3, <1>4, <1>5, <1>6, <1>7, <1>8, <1>9, <1>10, <1>11 DEF Stills

\* A turn that runs uses a token more.
LEMMA SpendsCounts ==
    ASSUME TypeOK, Spends
    PROVE  /\ UNCHANGED <<pc, state, client, charged>> /\ native.turn # 0
           /\ native'.total = native.total + 1 /\ native'.turn = native.turn
           /\ native'.began = native.began /\ native'.ended = native.ended
           /\ native'.shown = native.shown /\ native'.replayed = native.replayed
BY DEF Spends, TypeOK, NativeType

\* A snapshot of the turn that runs says what the thread has used.
LEMMA SnapshotCounts ==
    ASSUME TypeOK, Snapshot
    PROVE  /\ UNCHANGED <<pc, state, charged>>
           /\ native'.total = native.total /\ native'.turn = native.turn
           /\ native'.began = native.began /\ native'.ended = native.ended
           /\ native.replayed => native'.replayed
           /\ \/ native'.shown = native.shown
              \/ /\ native.turn # 0 /\ client'.inbox = Append(Box, Usage(native.turn))
                 /\ native'.shown = [native.shown EXCEPT ![native.turn] = native.total]
<1>1. DOMAIN native = {"total", "turn", "began", "ended", "items", "calls", "asked", "ran",
                       "shown", "frames", "replayed"}
      /\ client \in [usable : BOOLEAN, inbox : Seq(Message)]
  BY DEF TypeOK, NativeType, SessionType
<1> DEFINE shown == [native.shown EXCEPT ![native.turn] = native.total]
           frames == native.frames + 1
<1>2. /\ UNCHANGED <<pc, state, charged>>
      /\ \/ /\ native.turn # 0 /\ client'.inbox = Append(Box, Usage(native.turn))
            /\ native' = [native EXCEPT !.frames = frames, !.shown = shown]
         \/ native' = [native EXCEPT !.frames = frames]
         \/ native' = [native EXCEPT !.frames = frames, !.replayed = TRUE]
  BY <1>1 DEF Snapshot, Reports, Box
<1> HIDE DEF shown, frames
<1> SUFFICES /\ native'.total = native.total /\ native'.turn = native.turn
             /\ native'.began = native.began /\ native'.ended = native.ended
             /\ native.replayed => native'.replayed
             /\ \/ native'.shown = native.shown
                \/ /\ native.turn # 0 /\ client'.inbox = Append(Box, Usage(native.turn))
                   /\ native'.shown = shown
  BY <1>2 DEF shown
<1> QED BY <1>1, <1>2

\* A message of the turn counts nothing, but the end of the turn dates it.
LEMMA EmitCounts ==
    ASSUME TypeOK, Emit
    PROVE  /\ UNCHANGED <<pc, charged>> /\ native.turn # 0
           /\ state'.usage = state.usage /\ state'.writer = state.writer
           /\ state'.terminal = state.terminal
           /\ native'.total = native.total /\ native'.began = native.began
           /\ native'.shown = native.shown /\ native'.replayed = native.replayed
           /\ \/ native'.turn = native.turn /\ native'.ended = native.ended
              \/ /\ native'.turn = 0
                 /\ native'.ended = [native.ended EXCEPT ![native.turn] = native.total]
<1>1. DOMAIN native = {"total", "turn", "began", "ended", "items", "calls", "asked", "ran",
                       "shown", "frames", "replayed"}
      /\ Shaped(state)
  BY DEF TypeOK, NativeType
<1>2. PICK m \in Emits(native.turn) :
        /\ native' = AfterReport(m)
        /\ state' = [state EXCEPT !.owed = CASE m.method = "call" /\ setup.tools -> @ \cup {m.id}
                                             [] m.method = "resolved" -> @ \ {m.id}
                                             [] OTHER -> @]
  BY DEF Emit
<1> DEFINE sent == [native EXCEPT !.frames = @ + 1]
<1>3. /\ DOMAIN sent = DOMAIN native /\ sent.total = native.total /\ sent.began = native.began
      /\ sent.shown = native.shown /\ sent.replayed = native.replayed
      /\ sent.turn = native.turn /\ sent.ended = native.ended
  BY <1>1
<1>4. CASE IsOver(m)
  <2> DEFINE ended == [sent.ended EXCEPT ![native.turn] = native.total]
             ran == sent.ran \/ native.calls # {}
             zero == 0
  <2>1. native' = [sent EXCEPT !.ended[native.turn] = native.total, !.turn = 0,
                               !.ran = @ \/ native.calls # {}]
    BY <1>2, <1>4 DEF AfterReport, IsOver
  <2> HIDE DEF sent
  <2>2. native' = [sent EXCEPT !.ended = ended, !.turn = zero, !.ran = ran]
    BY <1>1, <1>3, <2>1
  <2> HIDE DEF ended, ran, zero
  <2>3. /\ native'.total = native.total /\ native'.began = native.began
        /\ native'.shown = native.shown /\ native'.replayed = native.replayed
        /\ native'.turn = zero /\ native'.ended = ended
    BY <1>1, <1>3, <2>2
  <2>4. native'.ended = [native.ended EXCEPT ![native.turn] = native.total] /\ native'.turn = 0
    BY <1>3, <2>3 DEF ended, zero
  <2>5. /\ UNCHANGED <<pc, charged>> /\ native.turn # 0
        /\ state'.usage = state.usage /\ state'.writer = state.writer
        /\ state'.terminal = state.terminal
    BY <1>1, <1>2 DEF Emit, Reports, Shaped, StateFields
  <2> QED BY <2>3, <2>4, <2>5
<1>5. CASE ~ IsOver(m)
  <2>1. \E items, ran, asked, calls :
           \/ native' = [sent EXCEPT !.items = items, !.ran = ran]
           \/ native' = [sent EXCEPT !.items = items, !.asked = asked]
           \/ native' = [sent EXCEPT !.ran = ran]
           \/ native' = [sent EXCEPT !.calls = calls]
           \/ native' = [sent EXCEPT !.ran = ran, !.calls = calls]
           \/ native' = [sent EXCEPT !.asked = asked]
           \/ native' = sent
    <3> HIDE DEF sent
    <3>1. CASE m.method = "item/started"
      BY <1>2, <3>1 DEF AfterReport, sent
    <3>2. CASE m.method = "item/completed"
      BY <1>2, <3>2 DEF AfterReport, sent
    <3>3. CASE m.method \in {"activity", "hook", "diff", "process"}
      BY <1>2, <3>3 DEF AfterReport, sent
    <3>4. CASE m.method = "raw"
      BY <1>2, <3>4 DEF AfterReport, sent
    <3>5. CASE m.method \in {"call", "resolved"}
      BY <1>2, <3>5 DEF AfterReport, sent
    <3>6. CASE m.method \notin {"item/started", "item/completed", "activity", "hook", "diff",
                                "process", "raw", "call", "resolved"}
      BY <1>2, <1>5, <3>6 DEF AfterReport, sent, IsOver
    <3> QED BY <3>1, <3>2, <3>3, <3>4, <3>5, <3>6
  <2> HIDE DEF sent
  <2>2. /\ native'.total = native.total /\ native'.began = native.began
        /\ native'.shown = native.shown /\ native'.replayed = native.replayed
        /\ native'.turn = native.turn /\ native'.ended = native.ended
    BY <1>1, <1>3, <2>1
  <2>3. /\ UNCHANGED <<pc, charged>> /\ native.turn # 0
        /\ state'.usage = state.usage /\ state'.writer = state.writer
        /\ state'.terminal = state.terminal
    BY <1>1, <1>2 DEF Emit, Reports, Shaped, StateFields
  <2> QED BY <2>2, <2>3
<1> QED BY <1>4, <1>5

\* A turn begins where its thread stands.
LEMMA EnterWriterCounts ==
    ASSUME TypeOK, EnterWriter
    PROVE  /\ UNCHANGED <<pc, client, charged>> /\ pc = "reading" /\ ~ state.writer
           /\ state'.usage = state.usage /\ state'.writer /\ state'.terminal = state.terminal
           /\ native'.total = native.total /\ native'.replayed = native.replayed
           /\ native'.turn = Last + 1
           /\ native'.began = Append(native.began, native.total)
           /\ native'.ended = Append(native.ended, Absent)
           /\ native'.shown = Append(native.shown, native.total)
<1>1. Shaped(state) /\ DOMAIN native = {"total", "turn", "began", "ended", "items", "calls",
                                        "asked", "ran", "shown", "frames", "replayed"}
  BY DEF TypeOK, NativeType
<1> DEFINE turn == Last + 1
           began == Append(native.began, native.total)
           ended == Append(native.ended, Absent)
           shown == Append(native.shown, native.total)
<1>2. native' = [native EXCEPT !.turn = turn, !.began = began, !.ended = ended, !.shown = shown,
                               !.ran = FALSE, !.items = {}, !.calls = {}, !.asked = {}]
  BY <1>1 DEF EnterWriter, Last
<1>3. /\ UNCHANGED <<pc, client, charged>> /\ pc = "reading" /\ ~ state.writer
      /\ state'.usage = state.usage /\ state'.writer /\ state'.terminal = state.terminal
  BY <1>1 DEF EnterWriter, Shaped, StateFields
<1> SUFFICES /\ native'.total = native.total /\ native'.replayed = native.replayed
             /\ native'.turn = turn /\ native'.began = began /\ native'.ended = ended
             /\ native'.shown = shown
  BY <1>3
<1> HIDE DEF turn, began, ended, shown
<1> QED BY <1>1, <1>2

\* The end of a turn is read while it is streamed only.
LEMMA ReadCounts ==
    ASSUME TypeOK, Calm, Read, NEW m, m = Head(Box)
    PROVE  /\ pc = "reading" /\ Box # <<>> /\ client'.inbox = Tail(Box) /\ m \in Message
           /\ m = Box[1] /\ 1 \in DOMAIN Box
           /\ UNCHANGED native /\ state'.writer = state.writer
           /\ IsOver(m) => Streaming
           /\ \/ pc' = "ended" /\ UNCHANGED charged /\ state'.usage = state.usage
              \/ /\ IsOver(m) /\ pc' = "ended" /\ UNCHANGED charged
                 /\ state'.usage = FinishTurn(state.usage) /\ state'.terminal = state.terminal
              \/ /\ IsOver(m) /\ pc' = "ended" /\ state'.usage = FinishTurn(state.usage)
                 /\ charged' = [charged EXCEPT ![Last] = state.usage.local]
              \/ /\ pc' = "reading" /\ UNCHANGED charged
                 /\ \/ state'.usage = state.usage /\ ~ Snapped(m)
                    \/ Snapped(m) /\ state'.usage \in Observe(state.usage, m.detail)
<1>1. Box \in Seq(Message)
  BY DEF TypeOK, SessionType, Box
<1>2. /\ pc = "reading" /\ Box # <<>> /\ client'.inbox = Tail(Box) /\ m \in Message
      /\ UNCHANGED native /\ state'.writer = state.writer
      /\ \/ /\ pc' = "ended" /\ UNCHANGED charged /\ state'.terminal = state.terminal
            /\ \/ state'.usage = state.usage
               \/ IsOver(m) /\ state'.usage = FinishTurn(state.usage)
         \/ /\ pc' = IF IsOver(m) THEN "ended" ELSE "reading"
            /\ UsageEffect(state, m, state')
            /\ charged' = IF ~ IsOver(m) THEN charged
                          ELSE [charged EXCEPT ![Last] = state.usage.local]
  BY ReadSteps DEF Effect, Untouched, Last
<1>3. m = Box[1] /\ 1 \in DOMAIN Box
  BY <1>1, <1>2, SeqTail
<1>4. IsOver(m) => Streaming
  BY <1>2, <1>3 DEF Calm, Writing, Streaming, Quiet, IsOver
<1>5. CASE /\ pc' = "ended" /\ UNCHANGED charged /\ state'.terminal = state.terminal
           /\ \/ state'.usage = state.usage
              \/ IsOver(m) /\ state'.usage = FinishTurn(state.usage)
  BY <1>2, <1>3, <1>4, <1>5
<1>6. CASE /\ pc' = IF IsOver(m) THEN "ended" ELSE "reading"
           /\ UsageEffect(state, m, state')
           /\ charged' = IF ~ IsOver(m) THEN charged
                         ELSE [charged EXCEPT ![Last] = state.usage.local]
  BY <1>2, <1>3, <1>4, <1>6 DEF UsageEffect
<1> QED BY <1>2, <1>5, <1>6

\* A turn that times out after a possible writer is charged what is known.
LEMMA TimesOutCounts ==
    ASSUME TypeOK, TimesOut
    PROVE  /\ UNCHANGED <<client, native>> /\ pc = "reading" /\ pc' = "ended"
           /\ state'.writer = state.writer
           /\ \/ ~ state.writer /\ UNCHANGED charged /\ state'.usage = state.usage
              \/ /\ state.writer /\ state'.usage = FinishTurn(state.usage)
                 /\ charged' = [charged EXCEPT ![Last] = state.usage.local]
                 /\ state'.terminal = Terminal("failed", state.usage.local, FALSE)
<1>1. Shaped(state)
  BY DEF TypeOK
<1> DEFINE terminal == Terminal("failed", state.usage.local, FALSE)
           usage == FinishTurn(state.usage)
           left == [state EXCEPT !.terminal = terminal, !.usage = usage]
<1>2. /\ UNCHANGED <<client, native>> /\ pc = "reading"
      /\ \/ ~ state.writer /\ UNCHANGED charged /\ Ends(state)
         \/ /\ state.writer /\ Ends(left)
            /\ charged' = [charged EXCEPT ![Last] = state.usage.local]
  BY DEF TimesOut, Last
<1> SUFFICES /\ pc' = "ended" /\ state'.writer = state.writer
             /\ \/ ~ state.writer /\ UNCHANGED charged /\ state'.usage = state.usage
                \/ /\ state.writer /\ state'.usage = usage /\ state'.terminal = terminal
                   /\ charged' = [charged EXCEPT ![Last] = state.usage.local]
  BY <1>2
<1> HIDE DEF terminal, usage
<1>3. Shaped(left) /\ left.writer = state.writer /\ left.usage = usage /\ left.terminal = terminal
  BY <1>1 DEF Shaped, StateFields
<1> HIDE DEF left
<1> QED BY <1>1, <1>2, <1>3 DEF Ends, Shaped, StateFields

\* Closing keeps a session whose turn, if it was sent, ended natively.
LEMMA CloseCounts ==
    ASSUME TypeOK, Close
    PROVE  /\ UNCHANGED <<native, charged>> /\ client'.inbox = Box
           /\ pc \in {"prepared", "ended"} /\ pc' \in {"idle", "gone"}
           /\ pc' = "idle" => (state.writer => Sealed)
           /\ state'.writer = state.writer /\ state'.usage = AbandonTurn(state.usage)
<1> DEFINE usage == AbandonTurn(state.usage)
<1>1. /\ UNCHANGED <<native, charged>> /\ client'.inbox = Box
      /\ pc \in {"prepared", "ended"} /\ pc' \in {"idle", "gone"}
      /\ pc' = "idle" => ~ NeedsDiscard
      /\ state' = [state EXCEPT !.usage = usage]
  BY DEF Close, Box, TypeOK, SessionType
<1>2. ~ NeedsDiscard => (state.writer => Sealed)
  BY DEF NeedsDiscard, Sealed
<1> SUFFICES state'.writer = state.writer /\ state'.usage = usage
  BY <1>1, <1>2
<1> HIDE DEF usage
<1> QED BY <1>1 DEF TypeOK, Shaped, StateFields

\* An opened thread takes what the last snapshot said for its boundary.
LEMMA OpenThreadCounts ==
    ASSUME TypeOK, OpenThread
    PROVE  /\ UNCHANGED <<native, charged>> /\ client'.inbox = <<>>
           /\ pc = "thread" /\ pc' = "idle" /\ ~ state'.writer
           /\ \E cumulative :
                 /\ state'.usage = Accounting(setup.open = "new" \/ cumulative # Absent, cumulative)
                 /\ \/ cumulative = Absent
                    \/ \E i \in DOMAIN Box : Snapped(Box[i]) /\ cumulative = Box[i].detail
<1>1. /\ UNCHANGED <<native, charged>> /\ client'.inbox = <<>>
      /\ pc = "thread" /\ pc' = "idle" /\ ~ state'.writer
      /\ state'.usage = Accounting(setup.open = "new" \/ RestoredUsage # Absent, RestoredUsage)
  BY DEF OpenThread, Cleared, TypeOK, SessionType
<1>2. \/ RestoredUsage = Absent
      \/ \E i \in DOMAIN Box : Snapped(Box[i]) /\ RestoredUsage = Box[i].detail
  <2> DEFINE latest == {i \in Snapshots : \A j \in Snapshots : j <= i}
             i == CHOOSE i \in latest : TRUE
  <2>1. latest = {} \/ i \in latest
    OBVIOUS
  <2>2. i \in latest => i \in DOMAIN Box /\ Snapped(Box[i])
    <3> HIDE DEF i
    <3> QED BY DEF Snapshots, Box, Snapped
  <2>3. RestoredUsage = IF latest = {} THEN Absent ELSE Box[i].detail
    BY DEF RestoredUsage, Box
  <2> HIDE DEF i, latest
  <2> QED BY <2>1, <2>2, <2>3
<1> QED BY <1>1, <1>2

\* A turn is prepared from the session's boundary.
LEMMA PrepareTurnCounts ==
    ASSUME TypeOK, PrepareTurn
    PROVE  /\ UNCHANGED <<native, charged>> /\ client'.inbox = <<>> /\ pc = "idle"
           /\ Last < MaxTurns
           /\ \/ UNCHANGED <<pc, state>>
              \/ /\ pc' = "prepared" /\ ~ state'.writer
                 /\ state'.usage = BeginTurn(state.usage)
<1> DEFINE usage == BeginTurn(state.usage)
           cleared == Cleared(usage, state.owed)
<1>1. /\ UNCHANGED <<native, charged>> /\ client'.inbox = <<>> /\ pc = "idle"
      /\ Last < MaxTurns
      /\ \/ UNCHANGED <<pc, state>>
         \/ pc' = "prepared" /\ state' = [cleared EXCEPT !.minted = state.minted]
  BY DEF PrepareTurn, TypeOK, SessionType, Last
<1> SUFFICES \/ UNCHANGED <<pc, state>>
             \/ pc' = "prepared" /\ ~ state'.writer /\ state'.usage = usage
  BY <1>1
<1> HIDE DEF usage
<1>2. Shaped(cleared) /\ ~ cleared.writer /\ cleared.usage = usage
  BY DEF Cleared, Shaped, StateFields
<1> HIDE DEF cleared
<1> QED BY <1>1, <1>2 DEF Shaped, StateFields

-----------------------------------------------------------------------------
(* The counts, part by part.                                                 *)

\* The snapshots that wait after a step waited before, or say what the thread
\* has used, or replay what it had used.
LEMMA News ==
    ASSUME TypeOK, [Next]_vars, NEW i \in DOMAIN client'.inbox, Snapped(client'.inbox[i])
    PROVE  \/ \E j \in DOMAIN Box : client'.inbox[i] = Box[j]
           \/ Snapshot /\ client'.inbox[i].detail = native.total
           \/ /\ Snapshot /\ client'.inbox[i].detail = History
              /\ ~ native.replayed /\ (native.began # <<>> => native.ended[1] = Absent)
<1>1. Box \in Seq(Message)
  BY DEF TypeOK, SessionType, Box
<1>2. ASSUME NEW m \in Message, client'.inbox = Append(Box, m)
      PROVE  (\E j \in DOMAIN Box : client'.inbox[i] = Box[j]) \/ client'.inbox[i] = m
  BY <1>1, <1>2, SeqAppend
<1>3. CASE client'.inbox = Box \/ client'.inbox = <<>>
  BY <1>3
<1>4. CASE Box # <<>> /\ client'.inbox = Tail(Box)
  BY <1>1, <1>4, SeqTail
<1>5. CASE client'.inbox = Append(Box, Failure)
  <2>1. Failure \in Message
    BY Reported DEF TypeOK
  <2>2. ~ Snapped(Failure)
    BY DEF Failure, Snapped
  <2> QED BY <1>2, <1>5, <2>1, <2>2
<1>6. CASE \E turn \in Nat : \E m \in Emits(turn) : client'.inbox = Append(Box, m)
  BY <1>2, <1>6, Emitted DEF TypeOK, Snapped
<1>7. CASE Snapshot
  <2>1. native.turn \in Nat /\ Len(native.began) \in Nat /\ 0 \in Nat
    BY DEF TypeOK, NativeType
  <2>2. \/ \E turn \in Nat : client'.inbox = Append(Box, Usage(turn))
        \/ /\ client'.inbox = Append(Box, [Usage(0) EXCEPT !.detail = History])
           /\ ~ native.replayed /\ (native.began # <<>> => native.ended[1] = Absent)
    BY <1>7, <2>1 DEF Snapshot, Reports, Box, TypeOK, SessionType
  <2>3. [Usage(0) EXCEPT !.detail = History].detail = History
    BY DEF Usage
  <2> QED BY <1>2, <1>7, <2>1, <2>2, <2>3, Reported DEF TypeOK
<1>8. native.turn \in Nat /\ 0 \in Nat
  BY DEF TypeOK, NativeType
<1> QED BY <1>3, <1>4, <1>5, <1>6, <1>7, <1>8, BoxSteps

\* The turns that the thread has had.
LEMMA LastIsNat ==
    ASSUME TypeOK
    PROVE  /\ Last \in Nat /\ native.total \in Nat /\ native.turn \in Nat
           /\ native.began \in Seq(Nat) /\ native.ended \in Seq(Count) /\ native.shown \in Seq(Nat)
           /\ DOMAIN native.began = 1 .. Last
           /\ MaxTurns \in Nat /\ History \in Nat /\ Absent \notin Nat
BY BoundsAssumption DEF TypeOK, NativeType, Last

\* The counts keep their types, and the turns their number.
LEMMA CountedStep ==
    ASSUME TypeOK, Calm, Accounted, Counted, [Next]_vars PROVE Counted'
<1>1. /\ Last \in Nat /\ MaxTurns \in Nat
      /\ native.ended \in Seq(Count) /\ native.shown \in Seq(Nat)
  BY LastIsNat
<1>2. /\ state.usage \in Accounts /\ charged \in [Turns -> Count]
      /\ Len(native.ended) = Last /\ Len(native.shown) = Last /\ Last <= MaxTurns
      /\ Opening => Last = 0
      /\ Submitting => Last < MaxTurns
      /\ state.writer => Last > 0
      /\ \A t \in Turns : t > Last => charged[t] = Absent
  BY DEF Counted
<1>3. Accounts' = Accounts /\ Turns' = Turns /\ Absent \in Count
  BY DEF Accounts, Turns, Count
<1>4. ASSUME UNCHANGED <<native, charged>>, state'.usage \in Accounts,
             state'.writer = state.writer \/ ~ state'.writer,
             Opening' => Opening, Submitting' => Submitting \/ Last < MaxTurns
      PROVE  Counted'
  BY <1>2, <1>3, <1>4 DEF Counted, Last
<1>5. CASE Stills
  <2>1. Counts' = Counts
    BY <1>5, StillSteps
  <2>2. (Opening' => Opening) /\ (Submitting' => Submitting)
    BY <1>5, <2>1, StillSteps DEF Counts, Opening, Submitting
  <2> QED BY <1>2, <1>3, <2>1, <2>2 DEF Counts, Counted, Last
<1>6. CASE Spends
  BY <1>2, <1>3, <1>6, SpendsCounts DEF Counted, Last, Opening, Submitting
<1>7. CASE Snapshot
  <2>1. Len(native'.shown) = Len(native.shown)
    BY <1>1, <1>7, SnapshotCounts
  <2> QED BY <1>2, <1>3, <1>7, <2>1, SnapshotCounts DEF Counted, Last, Opening, Submitting
<1>8. CASE Emit
  <2>1. Len(native'.ended) = Len(native.ended)
    BY <1>1, <1>8, EmitCounts
  <2> QED BY <1>2, <1>3, <1>8, <2>1, EmitCounts DEF Counted, Last, Opening, Submitting
<1>9. CASE EnterWriter
  <2>1. Last' = Last + 1 /\ Len(native'.ended) = Last + 1 /\ Len(native'.shown) = Last + 1
    <3>1. /\ native'.began = Append(native.began, native.total)
          /\ native'.ended = Append(native.ended, Absent)
          /\ native'.shown = Append(native.shown, native.total)
      BY <1>9, EnterWriterCounts
    <3>2. native.began \in Seq(Nat) /\ native.total \in Nat /\ Len(native.began) = Last
      BY LastIsNat DEF Last
    <3>3. Len(native'.began) = Last + 1
      BY <3>1, <3>2
    <3>4. Len(native'.ended) = Last + 1
      BY <1>1, <1>2, <1>3, <3>1
    <3>5. Len(native'.shown) = Last + 1
      BY <1>1, <1>2, <3>1, <3>2
    <3> QED BY <3>3, <3>4, <3>5 DEF Last
  <2>2. Submitting /\ ~ Opening' /\ ~ Submitting'
    BY <1>9, EnterWriterCounts DEF Submitting, Opening
  <2>3. \A t \in Turns : t > Last + 1 => t > Last
    BY <1>1 DEF Turns
  <2> QED BY <1>1, <1>2, <1>3, <1>9, <2>1, <2>2, <2>3, EnterWriterCounts DEF Counted
<1>10. CASE Read
  <2> DEFINE m == Head(Box)
  <2>1. /\ pc = "reading" /\ m \in Message /\ UNCHANGED native /\ state'.writer = state.writer
        /\ IsOver(m) => Streaming
        /\ \/ pc' = "ended" /\ UNCHANGED charged /\ state'.usage = state.usage
           \/ /\ IsOver(m) /\ pc' = "ended" /\ UNCHANGED charged
              /\ state'.usage = FinishTurn(state.usage)
           \/ /\ IsOver(m) /\ pc' = "ended" /\ state'.usage = FinishTurn(state.usage)
              /\ charged' = [charged EXCEPT ![Last] = state.usage.local]
           \/ /\ pc' = "reading" /\ UNCHANGED charged
              /\ \/ state'.usage = state.usage
                 \/ Snapped(m) /\ state'.usage \in Observe(state.usage, m.detail)
    BY <1>10, ReadCounts
  <2>2. Snapped(m) => m.detail \in Nat
    BY <2>1 DEF Message, Snapped
  <2>3. Sure(state.usage) => state.usage.baseline # Absent
    BY <2>1 DEF Accounted, Account
  <2> HIDE DEF m
  <2>4. state'.usage \in Accounts
    BY <1>2, <2>1, <2>2, <2>3, Finished, Observed
  <2>5. ~ Opening' /\ (Submitting' => Submitting)
    BY <2>1 DEF Opening, Submitting
  <2>6. CASE UNCHANGED charged
    BY <1>4, <2>1, <2>4, <2>5, <2>6
  <2>7. CASE IsOver(m) /\ charged' = [charged EXCEPT ![Last] = state.usage.local]
    <3>1. Last \in Turns /\ state.usage.local \in Count
      BY <1>1, <1>2, <2>1, <2>7 DEF Turns, Streaming, Accounts
    <3>2. charged' \in [Turns -> Count] /\ \A t \in Turns : t > Last => charged'[t] = Absent
      BY <1>1, <1>2, <2>7, <3>1 DEF Turns
    <3> QED BY <1>2, <1>3, <2>1, <2>4, <2>5, <3>2 DEF Counted, Last
  <2> QED BY <2>1, <2>6, <2>7
<1>11. CASE TimesOut
  <2>1. state'.usage \in Accounts
    BY <1>2, <1>11, TimesOutCounts, Finished
  <2>2. ~ Opening' /\ ~ Submitting' /\ UNCHANGED native /\ state'.writer = state.writer
    BY <1>11, TimesOutCounts DEF Opening, Submitting
  <2>3. CASE UNCHANGED charged
    BY <1>4, <2>1, <2>2, <2>3
  <2>4. CASE state.writer /\ charged' = [charged EXCEPT ![Last] = state.usage.local]
    <3>1. Last \in Turns /\ state.usage.local \in Count
      BY <1>1, <1>2, <2>4 DEF Turns, Accounts
    <3>2. charged' \in [Turns -> Count] /\ \A t \in Turns : t > Last => charged'[t] = Absent
      BY <1>1, <1>2, <2>4, <3>1 DEF Turns
    <3> QED BY <1>2, <1>3, <2>1, <2>2, <3>2 DEF Counted, Last
  <2> QED BY <1>11, <2>3, <2>4, TimesOutCounts
<1>12. CASE Close
  BY <1>2, <1>4, <1>12, CloseCounts, Abandoned DEF Opening, Submitting
<1>13. CASE OpenThread
  <2>1. PICK cumulative :
          /\ UNCHANGED <<native, charged>> /\ pc' = "idle" /\ ~ state'.writer
          /\ state'.usage = Accounting(setup.open = "new" \/ cumulative # Absent, cumulative)
          /\ \/ cumulative = Absent
             \/ \E i \in DOMAIN Box : Snapped(Box[i]) /\ cumulative = Box[i].detail
    BY <1>13, OpenThreadCounts
  <2>2. \A i \in DOMAIN Box : Box[i] \in Message
    BY DEF TypeOK, SessionType, Box
  <2>3. cumulative \in Count
    BY <2>1, <2>2 DEF Message, Snapped, Count
  <2> DEFINE known == setup.open = "new" \/ cumulative # Absent
  <2>4. Accounting(known, cumulative) \in Accounts
    <3>1. known \in BOOLEAN
      OBVIOUS
    <3> HIDE DEF known
    <3> QED BY <1>3, <2>3, <3>1 DEF Accounting, Accounts
  <2> QED BY <1>4, <2>1, <2>4 DEF Opening, Submitting
<1>14. CASE PrepareTurn
  BY <1>2, <1>4, <1>14, PrepareTurnCounts, Begun DEF Opening, Submitting
<1> QED BY <1>5, <1>6, <1>7, <1>8, <1>9, <1>10, <1>11, <1>12, <1>13, <1>14, Steps DEF Stills

\* The thread's count only grows, from turn to turn.
LEMMA TotalStep ==
    ASSUME TypeOK, Calm, Counted, Total, [Next]_vars PROVE Total'
<1>1. /\ Last \in Nat /\ native.total \in Nat /\ native.turn \in Nat /\ Absent \notin Nat
      /\ native.began \in Seq(Nat) /\ native.ended \in Seq(Count) /\ native.shown \in Seq(Nat)
      /\ Len(native.began) = Last /\ Len(native.ended) = Last /\ Len(native.shown) = Last
      /\ DOMAIN native.began = 1 .. Last /\ DOMAIN native.ended = 1 .. Last
      /\ DOMAIN native.shown = 1 .. Last
  BY LastIsNat DEF Counted, Last
<1>2. /\ native.turn # 0 => native.turn = Last
      /\ \A t \in 1 .. Last : native.ended[t] = Absent <=> t = native.turn
      /\ native.turn = 0 /\ Last > 0 => native.ended[Last] = native.total
      /\ \A t \in 1 .. Last : native.began[t] <= native.total
      /\ \A t \in 1 .. Last : native.shown[t] <= native.total
      /\ \A t \in 1 .. Last : t < Last => native.shown[t] <= native.began[t + 1]
      /\ IF Last = 0 THEN native.total = Initial ELSE native.began[1] = Initial
      /\ ~ native.replayed => setup.open # "new"
  BY <1>1 DEF Total
<1>3. setup' = setup /\ Initial' = Initial
  BY SetupStays DEF Initial
<1>4. ASSUME native'.total = native.total, native'.turn = native.turn,
             native'.began = native.began, native'.ended = native.ended,
             native'.shown = native.shown, native'.replayed = native.replayed
      PROVE  Total'
  BY <1>1, <1>2, <1>3, <1>4 DEF Total, Last
<1>5. CASE Stills
  BY <1>4, <1>5, StillSteps DEF Counts
<1>6. CASE Read \/ TimesOut \/ Close
  <2>1. UNCHANGED native
    BY <1>6, ReadCounts, TimesOutCounts, CloseCounts
  <2> QED BY <1>4, <2>1
<1>7. CASE OpenThread \/ PrepareTurn
  <2>1. UNCHANGED native
    BY <1>7, OpenThreadCounts, PrepareTurnCounts
  <2> QED BY <1>4, <2>1
<1>8. CASE Spends
  <2>1. /\ native.turn # 0 /\ native'.total = native.total + 1 /\ native'.turn = native.turn
        /\ native'.began = native.began /\ native'.ended = native.ended
        /\ native'.shown = native.shown /\ native'.replayed = native.replayed
    BY <1>8, SpendsCounts
  <2>2. \A t \in 1 .. Last : native.began[t] \in Nat /\ native.shown[t] \in Nat
    BY SMTT(30), <1>1
  <2>3. ASSUME NEW t \in 1 .. Last
        PROVE  native'.began[t] <= native'.total /\ native'.shown[t] <= native'.total
    <3>1. native.began[t] <= native.total /\ native.shown[t] <= native.total
      BY <1>2
    <3> QED BY <1>1, <2>1, <2>2, <3>1
  <2> QED BY <1>1, <1>2, <1>3, <2>1, <2>3 DEF Total, Last
<1>9. CASE Snapshot
  <2>1. /\ native'.total = native.total /\ native'.turn = native.turn
        /\ native'.began = native.began /\ native'.ended = native.ended
        /\ native.replayed => native'.replayed
        /\ \/ native'.shown = native.shown
           \/ /\ native.turn # 0
              /\ native'.shown = [native.shown EXCEPT ![native.turn] = native.total]
    BY <1>9, SnapshotCounts
  <2>2. /\ DOMAIN native'.shown = 1 .. Last
        /\ \A t \in 1 .. Last : \/ native'.shown[t] = native.shown[t]
                                \/ t = Last /\ native'.shown[t] = native.total
    BY <1>1, <1>2, <2>1
  <2>3. \A t \in 1 .. Last : native'.shown[t] <= native'.total
    BY <1>1, <1>2, <2>1, <2>2
  <2>4. \A t \in 1 .. Last : t < Last => native'.shown[t] <= native'.began[t + 1]
    BY <1>1, <1>2, <2>1, <2>2
  <2>5. Last' = Last
    BY <2>1 DEF Last
  <2> QED BY <1>1, <1>2, <1>3, <2>1, <2>2, <2>3, <2>4, <2>5 DEF Total
<1>10. CASE Emit
  <2>1. /\ native.turn # 0
        /\ native'.total = native.total /\ native'.began = native.began
        /\ native'.shown = native.shown /\ native'.replayed = native.replayed
        /\ \/ native'.turn = native.turn /\ native'.ended = native.ended
           \/ /\ native'.turn = 0
              /\ native'.ended = [native.ended EXCEPT ![native.turn] = native.total]
    BY <1>10, EmitCounts
  <2>2. CASE /\ native'.turn = 0
             /\ native'.ended = [native.ended EXCEPT ![native.turn] = native.total]
    <3>1. /\ DOMAIN native'.ended = 1 .. Last /\ native'.ended[Last] = native.total
          /\ \A t \in 1 .. Last : t # Last => native'.ended[t] = native.ended[t]
      BY <1>1, <1>2, <2>1, <2>2
    <3>2. ASSUME NEW t \in 1 .. Last PROVE native'.ended[t] # Absent /\ t # 0
      <4>1. t = Last => native'.ended[t] # Absent
        BY <1>1, <3>1
      <4>2. t # Last => native.ended[t] # Absent
        BY <1>2, <2>1
      <4> QED BY <1>1, <3>1, <4>1, <4>2
    <3>3. Last' = Last
      BY <2>1 DEF Last
    <3> QED BY <1>1, <1>2, <1>3, <2>1, <2>2, <3>1, <3>2, <3>3 DEF Total
  <2> QED BY <1>4, <2>1, <2>2
<1>11. CASE EnterWriter
  <2>1. /\ native'.total = native.total /\ native'.replayed = native.replayed
        /\ native'.turn = Last + 1
        /\ native'.began = Append(native.began, native.total)
        /\ native'.ended = Append(native.ended, Absent)
        /\ native'.shown = Append(native.shown, native.total)
    BY <1>11, EnterWriterCounts
  <2>2. native.turn = 0
    BY <1>11, EnterWriterCounts DEF Calm, Writing
  <2>3. Last' = Last + 1 /\ DOMAIN native'.began = 1 .. Last + 1
        /\ DOMAIN native'.ended = 1 .. Last + 1 /\ DOMAIN native'.shown = 1 .. Last + 1
    BY <1>1, <2>1 DEF Count, Last
  <2>4. /\ \A t \in 1 .. Last : /\ native'.began[t] = native.began[t]
                                /\ native'.ended[t] = native.ended[t]
                                /\ native'.shown[t] = native.shown[t]
        /\ native'.began[Last + 1] = native.total /\ native'.ended[Last + 1] = Absent
        /\ native'.shown[Last + 1] = native.total
    <3>1. Absent \in Count
      BY DEF Count
    <3>2. \A t \in 1 .. Last : native'.began[t] = native.began[t]
      BY <1>1, <2>1
    <3>3. \A t \in 1 .. Last : native'.ended[t] = native.ended[t]
      BY <1>1, <2>1, <3>1
    <3>4. \A t \in 1 .. Last : native'.shown[t] = native.shown[t]
      BY <1>1, <2>1
    <3>5. native'.began[Last + 1] = native.total /\ native'.shown[Last + 1] = native.total
      BY <1>1, <2>1
    <3>6. native'.ended[Last + 1] = Absent
      BY <1>1, <2>1, <3>1
    <3> QED BY <3>2, <3>3, <3>4, <3>5, <3>6
  <2>5. \A t \in 1 .. Last + 1 : t \in 1 .. Last \/ t = Last + 1
    BY <1>1
  <2>6. \A t \in 1 .. Last + 1 : native'.ended[t] = Absent <=> t = native'.turn
    BY <1>1, <1>2, <2>1, <2>2, <2>4, <2>5
  <2>7. \A t \in 1 .. Last + 1 : /\ native'.began[t] <= native'.total
                                 /\ native'.shown[t] <= native'.total
    BY <1>1, <1>2, <2>1, <2>4, <2>5
  <2>8. \A t \in 1 .. Last + 1 : t < Last + 1 => native'.shown[t] <= native'.began[t + 1]
    <3> SUFFICES ASSUME NEW t \in 1 .. Last PROVE native'.shown[t] <= native'.began[t + 1]
      BY <1>1
    <3>1. CASE t < Last
      <4>1. t + 1 \in 1 .. Last
        BY <1>1, <3>1
      <4> QED BY <1>2, <2>4, <3>1, <4>1
    <3>2. CASE t = Last
      BY <1>2, <2>4, <3>2
    <3> QED BY <1>1, <3>1, <3>2
  <2>9. native'.began[1] = Initial
    BY <1>1, <1>2, <2>4
  <2>10. native'.turn # 0 /\ native'.turn = Last' /\ Last' # 0
    BY <1>1, <2>1, <2>3
  <2>11. \A t \in DOMAIN native'.shown : t < Last' => native'.shown[t] <= native'.began[t + 1]
    BY <2>3, <2>8
  <2>12. \A t \in DOMAIN native'.ended : native'.ended[t] = Absent <=> t = native'.turn
    BY <2>3, <2>6
  <2>13. /\ \A t \in DOMAIN native'.began : native'.began[t] <= native'.total
         /\ \A t \in DOMAIN native'.shown : native'.shown[t] <= native'.total
    BY <2>3, <2>7
  <2>14. IF Last' = 0 THEN native'.total = Initial' ELSE native'.began[1] = Initial'
    BY <1>3, <2>9, <2>10
  <2>15. ~ native'.replayed => setup'.open # "new"
    BY <1>2, <1>3, <2>1
  <2> QED BY <2>10, <2>11, <2>12, <2>13, <2>14, <2>15 DEF Total
<1> QED BY <1>5, <1>6, <1>7, <1>8, <1>9, <1>10, <1>11, Steps DEF Stills

\* The snapshots that wait say no less than the turn's start, and no more than the count.
LEMMA WaitingStep ==
    ASSUME TypeOK, Calm, InOrder, Counted, Total, Waiting, [Next]_vars PROVE Waiting'
<1>1. /\ Last \in Nat /\ native.total \in Nat /\ native.turn \in Nat
      /\ native.began \in Seq(Nat) /\ DOMAIN native.began = 1 .. Last
      /\ History \in Nat
  BY LastIsNat
<1>2. native.turn # 0 => native.turn = Last
  BY DEF Total
<1>3. Submitting => native.turn = 0
  BY DEF Submitting, Calm, Writing
<1>4. SUFFICES ASSUME NEW i \in DOMAIN client'.inbox, Snapped(client'.inbox[i])
               PROVE  /\ client'.inbox[i].detail <= native'.total
                      /\ Streaming' => client'.inbox[i].detail >= native'.began[Last']
                      /\ Last' = 0 \/ Submitting' => client'.inbox[i].detail = native'.total
  BY DEF Waiting, Box
<1> DEFINE n == client'.inbox[i].detail
<1>5. /\ n \in Nat /\ n <= native.total
      /\ Streaming => n >= native.began[Last]
      /\ Last = 0 \/ Submitting => n = native.total
  <2>1. CASE \E j \in DOMAIN Box : client'.inbox[i] = Box[j]
    <3>1. PICK j \in DOMAIN Box : client'.inbox[i] = Box[j]
      BY <2>1
    <3>2. Box[j] \in Message
      BY DEF TypeOK, SessionType, Box
    <3> QED BY <1>4, <3>1, <3>2 DEF Waiting, Message, Snapped
  <2>2. CASE n = native.total
    <3>1. Streaming => Last \in 1 .. Last
      BY <1>1 DEF Streaming, Counted
    <3> QED BY <1>1, <2>2, <3>1 DEF Total
  <2>3. CASE /\ n = History /\ ~ native.replayed
             /\ (native.began # <<>> => native.ended[1] = Absent)
    <3>1. Initial = History
      BY <2>3 DEF Total, Initial
    <3>2. CASE Last = 0
      BY <1>1, <2>3, <3>1, <3>2 DEF Total, Streaming, Counted
    <3>3. CASE Last # 0
      <4>1. native.began # <<>> /\ 1 \in 1 .. Last /\ DOMAIN native.ended = 1 .. Last
        BY <1>1, <3>3, LastIsNat DEF Counted, Last
      <4>2. 1 = native.turn /\ native.turn = Last
        BY <1>2, <2>3, <4>1 DEF Total
      <4>3. native.began[1] = Initial
        BY <3>3 DEF Total
      <4>4. native.began[1] = History /\ native.began[1] <= native.total
        BY <1>1, <3>1, <4>1, <4>3 DEF Total
      <4> QED BY <1>1, <1>3, <2>3, <4>2, <4>4
    <3> QED BY <3>2, <3>3
  <2> QED BY <1>4, <2>1, <2>2, <2>3, News
<1>0. SUFFICES /\ n <= native'.total /\ (Streaming' => n >= native'.began[Last'])
               /\ (Last' = 0 \/ Submitting' => n = native'.total)
  OBVIOUS
<1> HIDE DEF n
<1>6. ASSUME native'.total = native.total, native'.began = native.began,
             Streaming' => Streaming, Submitting' => Submitting
      PROVE  /\ n <= native'.total /\ (Streaming' => n >= native'.began[Last'])
             /\ (Last' = 0 \/ Submitting' => n = native'.total)
  BY <1>5, <1>6 DEF Last
<1>7. CASE Stills
  <2>1. Counts' = Counts
    BY <1>7, StillSteps
  <2>2. (Streaming' => Streaming) /\ (Submitting' => Submitting)
    BY <1>7, <2>1, StillSteps DEF Streaming, Submitting, Counts, InOrder
  <2> QED BY <1>6, <2>1, <2>2 DEF Counts
<1>8. CASE Read
  <2>1. (Streaming' => Streaming) /\ (Submitting' => Submitting) /\ UNCHANGED native
    BY <1>8, ReadCounts DEF Streaming, Submitting
  <2> QED BY <1>6, <2>1
<1>9. CASE TimesOut \/ Close
  <2>1. (Streaming' => Streaming) /\ (Submitting' => Submitting) /\ UNCHANGED native
    BY <1>9, TimesOutCounts, CloseCounts DEF Streaming, Submitting
  <2> QED BY <1>6, <2>1
<1>10. CASE OpenThread \/ PrepareTurn
  <2>1. client'.inbox = <<>>
    BY <1>10, OpenThreadCounts, PrepareTurnCounts
  <2> QED BY <1>4, <2>1
<1>11. CASE Spends
  <2>1. /\ UNCHANGED <<pc, state>> /\ native.turn # 0 /\ native'.total = native.total + 1
        /\ native'.began = native.began
    BY <1>11, SpendsCounts
  <2>2. ~ Submitting' /\ (Streaming' => Streaming) /\ Last' = Last /\ Last # 0
    BY <1>2, <1>3, <2>1 DEF Submitting, Streaming, Last
  <2> QED BY <1>1, <1>5, <2>1, <2>2
<1>12. CASE Snapshot \/ Emit
  <2>1. /\ UNCHANGED pc /\ state'.writer = state.writer
        /\ native'.total = native.total /\ native'.began = native.began
    BY <1>12, SnapshotCounts, EmitCounts
  <2> QED BY <1>6, <2>1 DEF Streaming, Submitting
<1>13. CASE EnterWriter
  <2>1. /\ Submitting /\ state'.writer /\ native'.total = native.total
        /\ native'.began = Append(native.began, native.total)
    BY <1>13, EnterWriterCounts DEF Submitting
  <2>2. Last' = Last + 1 /\ native'.began[Last + 1] = native.total
    BY <1>1, <2>1, LastIsNat DEF Last
  <2> QED BY <1>1, <1>5, <2>1, <2>2 DEF Submitting
<1> QED BY <1>7, <1>8, <1>9, <1>10, <1>11, <1>12, <1>13, Steps DEF Stills

\* What is past stays as it was: of the turns before the last the counts, and of
\* the last where it began.
LEMMA PastStays ==
    ASSUME TypeOK, Calm, Counted, Total, [Next]_vars
    PROVE  /\ native'.total \in Nat /\ native'.total >= native.total
           /\ \A t \in 1 .. Last : native'.began[t] = native.began[t]
           /\ \A t \in 1 .. Last : t < Last => /\ native'.shown[t] = native.shown[t]
                                               /\ native'.ended[t] = native.ended[t]
                                               /\ charged'[t] = charged[t]
           /\ \/ Last' = Last
              \/ /\ EnterWriter /\ Last' = Last + 1 /\ charged' = charged
                 /\ \A t \in 1 .. Last : /\ native'.shown[t] = native.shown[t]
                                         /\ native'.ended[t] = native.ended[t]
<1>1. /\ Last \in Nat /\ native.total \in Nat /\ native.turn \in Nat
      /\ native.began \in Seq(Nat) /\ native.ended \in Seq(Count) /\ native.shown \in Seq(Nat)
      /\ DOMAIN native.ended = 1 .. Last /\ DOMAIN native.shown = 1 .. Last
      /\ DOMAIN native.began = 1 .. Last
  BY LastIsNat DEF Counted, Last
<1>2. native.turn # 0 => native.turn = Last
  BY DEF Total
<1>3. charged \in [Turns -> Count] /\ \A t \in 1 .. Last : t \in Turns
  BY <1>1, LastIsNat DEF Counted, Turns
<1>4. ASSUME native'.total = native.total \/ native'.total = native.total + 1,
             native'.began = native.began,
             \A t \in 1 .. Last : t < Last => /\ native'.shown[t] = native.shown[t]
                                              /\ native'.ended[t] = native.ended[t]
                                              /\ charged'[t] = charged[t]
      PROVE  /\ native'.total \in Nat /\ native'.total >= native.total
             /\ \A t \in 1 .. Last : native'.began[t] = native.began[t]
             /\ \A t \in 1 .. Last : t < Last => /\ native'.shown[t] = native.shown[t]
                                                 /\ native'.ended[t] = native.ended[t]
                                                 /\ charged'[t] = charged[t]
             /\ Last' = Last
  <2>1. native'.total \in Nat /\ native'.total >= native.total
    BY <1>1, <1>4
  <2> QED BY <1>4, <2>1 DEF Last
<1>5. CASE Stills
  BY <1>4, <1>5, StillSteps DEF Counts
<1>6. CASE Spends
  BY <1>4, <1>6, SpendsCounts
<1>7. CASE OpenThread \/ PrepareTurn \/ Close
  BY <1>4, <1>7, OpenThreadCounts, PrepareTurnCounts, CloseCounts
<1>8. CASE Snapshot
  <2>1. \A t \in 1 .. Last : t < Last => native'.shown[t] = native.shown[t]
    BY <1>1, <1>2, <1>8, SnapshotCounts
  <2> QED BY <1>4, <1>8, <2>1, SnapshotCounts
<1>9. CASE Emit
  <2>1. \A t \in 1 .. Last : t < Last => native'.ended[t] = native.ended[t]
    BY <1>1, <1>2, <1>9, EmitCounts
  <2> QED BY <1>4, <1>9, <2>1, EmitCounts
<1>10. CASE Read \/ TimesOut
  <2>1. /\ UNCHANGED native
        /\ \/ UNCHANGED charged \/ \E used : charged' = [charged EXCEPT ![Last] = used]
    BY <1>10, ReadCounts, TimesOutCounts
  <2>2. \A t \in 1 .. Last : t < Last => charged'[t] = charged[t]
    BY <1>1, <1>3, <2>1
  <2> QED BY <1>4, <2>1, <2>2
<1>11. CASE EnterWriter
  <2>1. /\ charged' = charged /\ native'.total = native.total
        /\ native'.began = Append(native.began, native.total)
        /\ native'.ended = Append(native.ended, Absent)
        /\ native'.shown = Append(native.shown, native.total)
    BY <1>11, EnterWriterCounts
  <2>2. Last' = Last + 1 /\ \A t \in 1 .. Last : native'.began[t] = native.began[t]
    BY <1>1, <2>1 DEF Last
  <2>3. \A t \in 1 .. Last : native'.ended[t] = native.ended[t]
    BY <1>1, <2>1 DEF Count
  <2>4. \A t \in 1 .. Last : native'.shown[t] = native.shown[t]
    BY <1>1, <2>1
  <2> QED BY <1>1, <1>11, <2>1, <2>2, <2>3, <2>4
<1> QED BY <1>5, <1>6, <1>7, <1>8, <1>9, <1>10, <1>11, Steps DEF Stills

\* So does the floor of every turn, from when it begins.
LEMMA FloorsStay ==
    ASSUME TypeOK, Calm, Counted, Total, [Next]_vars, NEW t \in 1 .. Last
    PROVE  Floor(t)' = Floor(t) /\ Floor(t) \in Nat
<1>1. Last \in Nat /\ native.began \in Seq(Nat) /\ native.shown \in Seq(Nat)
      /\ DOMAIN native.began = 1 .. Last /\ DOMAIN native.shown = 1 .. Last
  BY LastIsNat DEF Counted, Last
<1>2. native'.began[t] = native.began[t] /\ native.began[t] \in Nat
  BY <1>1, PastStays
<1>3. CASE t > 1
  <2>1. t - 1 \in 1 .. Last /\ t - 1 < Last
    BY <1>1, <1>3
  <2>2. native'.shown[t - 1] = native.shown[t - 1] /\ charged'[t - 1] = charged[t - 1]
    BY <2>1, PastStays
  <2>3. native.shown[t - 1] \in Nat
    BY <1>1, <2>1
  <2> QED BY <1>2, <2>2, <2>3 DEF Floor
<1>4. CASE ~ (t > 1)
  BY <1>2, <1>4 DEF Floor
<1> QED BY <1>3, <1>4

\* A turn starts where its floor is, or later.
LEMMA DueIsPast ==
    ASSUME TypeOK, Calm, Counted, Total
    PROVE  /\ Due \in Nat /\ Start \in Nat /\ Due <= Start /\ Start <= native.total
           /\ state.writer => Last \in 1 .. Last
<1>1. /\ Last \in Nat /\ native.total \in Nat
      /\ native.began \in Seq(Nat) /\ native.shown \in Seq(Nat)
      /\ DOMAIN native.began = 1 .. Last /\ DOMAIN native.shown = 1 .. Last
  BY LastIsNat DEF Counted, Last
<1>0. \A t \in 1 .. Last : native.began[t] \in Nat /\ native.shown[t] \in Nat
  BY <1>1
<1>2. /\ \A t \in 1 .. Last : native.began[t] <= native.total
      /\ \A t \in 1 .. Last : native.shown[t] <= native.total
      /\ \A t \in 1 .. Last : t < Last => native.shown[t] <= native.began[t + 1]
  BY <1>1 DEF Total
<1>3. CASE state.writer
  <2>1. Last \in 1 .. Last
    BY <1>1, <1>3 DEF Counted
  <2>2. Last > 1 => Last - 1 \in 1 .. Last /\ Last - 1 < Last /\ (Last - 1) + 1 = Last
    BY <1>1
  <2>3. Last > 1 => native.shown[Last - 1] <= native.began[Last]
    BY <1>2, <2>2
  <2>4. Start = native.began[Last] /\ Due = Floor(Last)
    BY <1>3 DEF Due, Start
  <2> QED BY <1>0, <1>1, <1>2, <2>1, <2>2, <2>3, <2>4 DEF Floor
<1>4. CASE ~ state.writer
  <2>1. Start = native.total
    BY <1>4 DEF Start
  <2>2. CASE Last > 0 /\ charged[Last] # Absent
    <3>1. Last \in 1 .. Last /\ Due = native.shown[Last]
      BY <1>1, <1>4, <2>2 DEF Due
    <3> QED BY <1>0, <1>1, <1>2, <1>4, <2>1, <3>1
  <2>3. CASE ~ (Last > 0 /\ charged[Last] # Absent)
    BY <1>1, <1>4, <2>1, <2>3 DEF Due
  <2> QED BY <2>2, <2>3
<1> QED BY <1>3, <1>4

\* Before the sender enters the writer nothing is counted.
LEMMA SubmittingStays ==
    ASSUME TypeOK, Calm, [Next]_vars, ~ EnterWriter,
           pc \in {"prepared", "reading"}, pc' \in {"prepared", "reading"}
    PROVE  /\ state'.writer = state.writer
           /\ ~ state.writer => /\ native'.total = native.total /\ native'.began = native.began
                                /\ native'.shown = native.shown /\ charged' = charged
<1>1. ~ state.writer => native.turn = 0
  BY DEF Calm, Writing
<1>2. CASE Stills
  BY <1>2, StillSteps DEF Counts
<1>3. CASE Spends \/ Snapshot \/ Emit
  BY <1>1, <1>3, SpendsCounts, SnapshotCounts, EmitCounts
<1>4. CASE Read
  BY <1>4, ReadCounts
<1>5. CASE TimesOut \/ Close \/ OpenThread \/ PrepareTurn
  BY <1>5, TimesOutCounts, CloseCounts, OpenThreadCounts, PrepareTurnCounts
<1> QED BY <1>2, <1>3, <1>4, <1>5, Steps DEF Stills

\* Neither changes while a turn is submitted and read.
LEMMA DueStays ==
    ASSUME TypeOK, Calm, Counted, Total, [Next]_vars,
           pc \in {"prepared", "reading"}, pc' \in {"prepared", "reading"}
    PROVE  Due' = Due /\ Start' = Start
<1>1. /\ Last \in Nat /\ DOMAIN native.began = 1 .. Last
      /\ native.began \in Seq(Nat) /\ native.shown \in Seq(Nat)
      /\ DOMAIN native.shown = 1 .. Last
  BY LastIsNat DEF Counted, Last
<1>2. CASE state.writer
  <2>1. Last \in 1 .. Last /\ ~ EnterWriter
    BY <1>2, DueIsPast, EnterWriterCounts
  <2>2. state'.writer /\ Last' = Last
    BY <1>2, <2>1, PastStays, SubmittingStays
  <2>3. PICK t \in 1 .. Last : t = Last
    BY <2>1
  <2>4. Due = Floor(t) /\ Start = native.began[t]
    BY <1>2, <2>3 DEF Due, Start
  <2>5. Due' = Floor(Last)' /\ Start' = native'.began[Last']
    BY <2>2 DEF Due, Start
  <2>6. Floor(Last)' = Floor(t)'
    BY <2>2, <2>3 DEF Floor
  <2> QED BY <2>2, <2>3, <2>4, <2>5, <2>6, FloorsStay, PastStays
<1>3. CASE ~ state.writer /\ ~ EnterWriter
  <2>1. /\ ~ state'.writer /\ native'.total = native.total /\ native'.began = native.began
        /\ native'.shown = native.shown /\ charged' = charged
    BY <1>3, SubmittingStays
  <2> QED BY <1>3, <2>1 DEF Due, Start, Last
<1>4. CASE EnterWriter
  <2>1. /\ ~ state.writer /\ state'.writer /\ charged' = charged
        /\ native'.total = native.total
        /\ native'.began = Append(native.began, native.total)
        /\ native'.shown = Append(native.shown, native.total)
    BY <1>4, EnterWriterCounts
  <2>2. Last' = Last + 1 /\ native'.began[Last + 1] = native.total
    BY <1>1, <2>1 DEF Last
  <2>3. Last > 0 => native'.shown[Last] = native.shown[Last]
    BY <1>1, <2>1
  <2>4. Start = native.total /\ Start' = native.total
    BY <2>1, <2>2 DEF Start
  <2>5. Due' = Floor(Last)'
    BY <2>1 DEF Due
  <2>6. Floor(Last)' = IF Last > 0 /\ charged[Last] # Absent THEN native'.shown[Last]
                       ELSE native.total
    <3>1. (Last + 1 > 1 <=> Last > 0) /\ (Last + 1) - 1 = Last
      BY <1>1
    <3> QED BY <2>1, <2>2, <3>1 DEF Floor
  <2> QED BY <2>1, <2>3, <2>4, <2>5, <2>6 DEF Due
<1> QED BY <1>2, <1>3, <1>4

\* An account keeps its promises as a snapshot is heard, and as the thread uses more.
LEMMA AccountHears ==
    ASSUME NEW u \in Accounts, NEW n \in Nat, NEW v \in Observe(u, n),
           NEW due \in Nat, NEW start \in Nat, NEW total \in Nat,
           Account(u, due, start, total), due <= start, start <= n, n <= total
    PROVE  /\ v \in Accounts /\ v.cumulative = n /\ Account(v, due, start, total)
           /\ u.cumulative # Absent => u.cumulative <= n
<1>1. Absent \notin Nat /\ (Sure(u) => u.baseline # Absent)
  BY BoundsAssumption DEF Account
<1>2. /\ v \in Accounts /\ u.open /\ v.open
      /\ v.zero = u.zero /\ v.rebase = u.rebase
      /\ v.seen /\ v.cumulative = n /\ (u.cumulative # Absent => u.cumulative <= n)
      /\ \/ /\ u.rebase /\ ~ u.seen
            /\ v.baseline = n /\ v.local = u.local /\ v.advanced = u.advanced
         \/ /\ ~ (u.rebase /\ ~ u.seen) /\ v.baseline = u.baseline
            /\ \/ v.local = u.local /\ v.advanced = u.advanced
               \/ v.advanced /\ u.zero /\ v.local = n
               \/ v.advanced /\ ~ u.zero /\ n >= u.baseline /\ v.local = n - u.baseline
  BY <1>1, Observed
<1>3. /\ ~ (u.zero /\ u.rebase) /\ (u.zero => due = 0)
      /\ Sure(u) => u.baseline \in Nat /\ u.baseline >= due
      /\ u.local # Absent => u.local \in Nat /\ u.local + due <= total
      /\ u.advanced => u.local # Absent
  BY DEF Account, Accounts, Count
<1>4. Sure(v) => v.baseline # Absent /\ v.baseline >= due
  BY <1>1, <1>2, <1>3 DEF Sure
<1>5. v.local # Absent => v.local + due <= total
  <2>1. CASE v.local = u.local
    BY <1>3, <2>1
  <2>2. CASE u.zero /\ v.local = n
    BY <1>3, <2>2
  <2>3. CASE ~ u.zero /\ ~ (u.rebase /\ ~ u.seen) /\ n >= u.baseline /\ v.local = n - u.baseline
    <3>1. u.baseline \in Nat /\ u.baseline >= due
      BY <1>3, <2>3 DEF Sure
    <3> QED BY <2>3, <3>1
  <2> QED BY <1>2, <2>1, <2>2, <2>3
<1>6. v.advanced => v.local # Absent
  <2>1. CASE v.local = u.local /\ v.advanced = u.advanced
    BY <1>3, <2>1
  <2>2. CASE v.local = n
    BY <1>1, <2>2
  <2>3. CASE ~ u.zero /\ ~ (u.rebase /\ ~ u.seen) /\ n >= u.baseline /\ v.local = n - u.baseline
    <3>1. u.baseline \in Nat
      BY <1>3, <2>3 DEF Sure
    <3>2. v.local \in Nat
      BY <2>3, <3>1
    <3> QED BY <1>1, <3>2
  <2> QED BY <1>2, <2>1, <2>2, <2>3
<1>7. v.cumulative # Absent /\ v.cumulative >= start
  BY <1>1, <1>2
<1> QED BY <1>2, <1>3, <1>4, <1>5, <1>6, <1>7 DEF Account

\* An account that fits what the thread has used fits when it has used more.
LEMMA AccountGrows ==
    ASSUME NEW u \in Accounts, NEW due \in Nat, NEW start \in Nat,
           NEW total \in Nat, NEW more \in Nat, total <= more, Account(u, due, start, total)
    PROVE  Account(u, due, start, more)
<1>1. u.local # Absent => u.local + due <= more
  BY DEF Account, Accounts, Count
<1> QED BY <1>1 DEF Account

\* The account of a turn begins from the boundary that the session has.
LEMMA AccountBegins ==
    ASSUME NEW u \in Accounts, NEW due \in Nat, NEW start \in Nat, NEW total \in Nat,
           u.known /\ u.cumulative = Absent => due = 0,
           u.known /\ u.cumulative # Absent => u.cumulative >= due
    PROVE  /\ BeginTurn(u) \in Accounts /\ BeginTurn(u).cumulative = u.cumulative
           /\ Account(BeginTurn(u), due, start, total)
<1> DEFINE v == BeginTurn(u)
<1>1. /\ v \in Accounts /\ v.open /\ v.cumulative = u.cumulative
      /\ v.baseline = u.cumulative /\ (v.zero <=> u.known /\ u.cumulative = Absent)
      /\ (v.rebase <=> ~ u.known) /\ ~ v.seen /\ ~ v.advanced /\ v.local = Absent
  BY Begun
<1> HIDE DEF v
<1>2. Sure(v) => v.baseline # Absent /\ v.baseline >= due
  BY <1>1 DEF Sure
<1>3. Account(v, due, start, total)
  BY <1>1, <1>2 DEF Account
<1> QED BY <1>1, <1>3 DEF v

\* Every step keeps the account of the turn.
LEMMA AccountedStep ==
    ASSUME TypeOK, Calm, Counted, Total, Waiting, Accounted, Boundary, [Next]_vars
    PROVE  Accounted'
<1>1. /\ Last \in Nat /\ native.total \in Nat /\ native'.total \in Nat
      /\ native'.total >= native.total /\ Absent \notin Nat
  BY PastStays, LastIsNat
<1>2. /\ state.usage \in Accounts
      /\ state.usage.cumulative # Absent => state.usage.cumulative <= native.total
      /\ pc \in {"prepared", "reading"} => Account(state.usage, Due, Start, native.total)
  BY DEF Counted, Accounted
<1>3. state.usage.cumulative \in Count
  BY <1>2 DEF Accounts
<1>4. Due \in Nat /\ Start \in Nat /\ Due <= Start /\ Start <= native.total
  BY DueIsPast
<1>5. ASSUME state'.usage = state.usage,
             pc' \in {"prepared", "reading"} => pc \in {"prepared", "reading"}
      PROVE  Accounted'
  <2>1. state'.usage.cumulative # Absent => state'.usage.cumulative <= native'.total
    BY <1>1, <1>2, <1>3, <1>5 DEF Count
  <2>2. ASSUME pc' \in {"prepared", "reading"}
        PROVE  Account(state'.usage, Due', Start', native'.total)
    <3>1. Due' = Due /\ Start' = Start
      BY <1>5, <2>2, DueStays
    <3>2. Account(state.usage, Due, Start, native'.total)
      BY <1>1, <1>2, <1>4, <1>5, <2>2, AccountGrows
    <3> QED BY <1>5, <3>1, <3>2
  <2> QED BY <2>1, <2>2 DEF Accounted
<1>6. ASSUME pc' \notin {"prepared", "reading"}, UNCHANGED native,
             state'.usage.cumulative = state.usage.cumulative
      PROVE  Accounted'
  BY <1>2, <1>6 DEF Accounted
<1>7. CASE Stills
  BY <1>5, <1>7, StillSteps DEF Counts
<1>8. CASE Spends \/ Snapshot \/ Emit \/ EnterWriter
  BY <1>5, <1>8, SpendsCounts, SnapshotCounts, EmitCounts, EnterWriterCounts
<1>9. CASE TimesOut \/ Close
  BY <1>2, <1>6, <1>9, TimesOutCounts, CloseCounts, Finished, Abandoned
<1>10. CASE OpenThread
  <2>1. PICK cumulative :
          /\ UNCHANGED native /\ pc = "thread" /\ pc' = "idle"
          /\ state'.usage = Accounting(setup.open = "new" \/ cumulative # Absent, cumulative)
          /\ \/ cumulative = Absent
             \/ \E i \in DOMAIN Box : Snapped(Box[i]) /\ cumulative = Box[i].detail
    BY <1>10, OpenThreadCounts
  <2>2. state'.usage.cumulative = cumulative
    BY <2>1 DEF Accounting
  <2>3. cumulative # Absent => cumulative <= native.total
    BY <2>1 DEF Waiting
  <2> QED BY <2>1, <2>2, <2>3 DEF Accounted
<1>11. CASE PrepareTurn
  <2>1. /\ UNCHANGED <<native, charged>> /\ pc = "idle"
        /\ \/ UNCHANGED <<pc, state>>
           \/ /\ pc' = "prepared" /\ ~ state'.writer /\ state'.usage = BeginTurn(state.usage)
    BY <1>11, PrepareTurnCounts
  <2>2. CASE UNCHANGED <<pc, state>>
    BY <1>5, <2>2
  <2>3. CASE pc' = "prepared" /\ ~ state'.writer /\ state'.usage = BeginTurn(state.usage)
    <3> DEFINE due == IF Last > 0 /\ charged[Last] # Absent THEN native.shown[Last]
                      ELSE native.total
    <3>1. Due' = due /\ Start' = native.total
      BY <2>1, <2>3 DEF Due, Start, Last
    <3>2. due \in Nat
      BY <1>1, LastIsNat DEF Counted, Last
    <3>3. state.usage.known =>
             IF Last > 0 THEN charged[Last] # Absent /\ Reached(native.shown[Last])
             ELSE IF state.usage.cumulative = Absent THEN setup.open = "new"
             ELSE state.usage.cumulative = native.total
      BY <2>1 DEF Boundary, Kept
    <3>4. Last = 0 => native.total = Initial
      BY DEF Total
    <3>5. state.usage.known /\ state.usage.cumulative = Absent => due = 0
      BY <1>1, <3>3, <3>4 DEF Reached, Initial
    <3>6. state.usage.known /\ state.usage.cumulative # Absent => state.usage.cumulative >= due
      BY <1>1, <3>3 DEF Reached
    <3> HIDE DEF due
    <3>7. /\ BeginTurn(state.usage).cumulative = state.usage.cumulative
          /\ Account(BeginTurn(state.usage), due, native.total, native.total)
      BY <1>1, <1>2, <3>2, <3>5, <3>6, AccountBegins
    <3> QED BY <1>2, <2>1, <2>3, <3>1, <3>7 DEF Accounted
  <2> QED BY <2>1, <2>2, <2>3
<1>12. CASE Read
  <2> DEFINE m == Head(Box)
  <2>1. /\ pc = "reading" /\ m \in Message /\ m = Box[1] /\ 1 \in DOMAIN Box /\ UNCHANGED native
        /\ \/ pc' = "ended" /\ state'.usage = state.usage
           \/ pc' = "ended" /\ state'.usage = FinishTurn(state.usage)
           \/ /\ pc' = "reading"
              /\ \/ state'.usage = state.usage
                 \/ Snapped(m) /\ state'.usage \in Observe(state.usage, m.detail)
    BY <1>12, ReadCounts
  <2> HIDE DEF m
  <2>2. CASE pc' = "ended"
    BY <1>2, <1>6, <2>1, <2>2, Finished
  <2>3. CASE state'.usage = state.usage
    BY <1>5, <2>1, <2>3
  <2>4. CASE pc' = "reading" /\ Snapped(m) /\ state'.usage \in Observe(state.usage, m.detail)
    <3>1. m.detail \in Nat
      BY <2>1, <2>4 DEF Message, Snapped
    <3>2. m.detail <= native.total /\ Start <= m.detail
      <4>1. /\ m.detail <= native.total
            /\ Streaming => m.detail >= native.began[Last]
            /\ Submitting => m.detail = native.total
        BY <2>1, <2>4 DEF Waiting
      <4>2. CASE state.writer
        BY <1>4, <2>1, <3>1, <4>1, <4>2 DEF Streaming, Start
      <4>3. CASE ~ state.writer
        BY <1>4, <2>1, <3>1, <4>1, <4>3 DEF Submitting, Start
      <4> QED BY <4>2, <4>3
    <3>3. /\ state'.usage.cumulative = m.detail
          /\ Account(state'.usage, Due, Start, native.total)
      BY <1>1, <1>2, <1>4, <2>1, <2>4, <3>1, <3>2, AccountHears
    <3>4. Due' = Due /\ Start' = Start
      BY <2>1, <2>4, DueStays
    <3> QED BY <2>1, <3>2, <3>3, <3>4 DEF Accounted
  <2> QED BY <2>1, <2>2, <2>3, <2>4
<1> QED BY <1>7, <1>8, <1>9, <1>10, <1>11, <1>12, Steps DEF Stills

\* A snapshot that waits is there still when more come after it.
LEMMA AwaitedStays ==
    ASSUME Box \in Seq(Message), NEW n, Awaited(n),
           client'.inbox = Box \/ \E m \in Message : client'.inbox = Append(Box, m)
    PROVE  Awaited(n)'
<1>1. PICK i \in DOMAIN Box : Snapped(Box[i]) /\ BeforeEnd(i) /\ Box[i].detail >= n
  BY DEF Awaited
<1>2. CASE client'.inbox = Box
  <2>1. Box' = Box
    BY <1>2 DEF Box
  <2> QED BY <1>1, <2>1 DEF Awaited, BeforeEnd
<1>3. ASSUME NEW m \in Message, client'.inbox = Append(Box, m) PROVE Awaited(n)'
  <2>1. /\ \A j \in DOMAIN Box : /\ j \in DOMAIN Append(Box, m) /\ Append(Box, m)[j] = Box[j]
                                 /\ j \in Nat /\ j < Len(Box) + 1
        /\ \A j \in DOMAIN Append(Box, m) : \/ j \in DOMAIN Box /\ Append(Box, m)[j] = Box[j]
                                            \/ j = Len(Box) + 1
    BY SeqAppend
  <2> DEFINE box == Append(Box, m)
  <2>2. Box' = box /\ Len(Box) \in Nat
    BY <1>3 DEF Box
  <2>3. \A j \in DOMAIN box : j < i => j \in DOMAIN Box /\ box[j] = Box[j]
    BY <2>1, <2>2
  <2>4. i \in DOMAIN box /\ box[i] = Box[i]
    BY <2>1
  <2> HIDE DEF box
  <2> QED BY <1>1, <2>2, <2>3, <2>4 DEF Awaited, BeforeEnd
<1> QED BY <1>2, <1>3

\* Until it is the one that is read, which is not the end of the turn.
LEMMA AwaitedRead ==
    ASSUME Box \in Seq(Message), Box # <<>>, NEW m, m = Head(Box), client'.inbox = Tail(Box),
           NEW n, Awaited(n)
    PROVE  ~ IsOver(m) /\ (Awaited(n)' \/ (Snapped(m) /\ m.detail >= n))
<1>1. /\ m = Box[1] /\ 1 \in DOMAIN Box
      /\ \A i \in DOMAIN Tail(Box) : i \in Nat /\ i + 1 \in DOMAIN Box /\ Tail(Box)[i] = Box[i + 1]
      /\ \A i \in DOMAIN Box : i # 1 => i - 1 \in DOMAIN Tail(Box) /\ Tail(Box)[i - 1] = Box[i]
      /\ \A i \in DOMAIN Box : i \in Nat /\ i >= 1
  BY SeqTail
<1> DEFINE rest == Tail(Box)
<1>2. Box' = rest
  BY DEF Box
<1> HIDE DEF rest
<1>3. /\ \A i \in DOMAIN rest : i \in Nat /\ i + 1 \in DOMAIN Box /\ rest[i] = Box[i + 1]
      /\ \A i \in DOMAIN Box : i # 1 => i - 1 \in DOMAIN rest /\ rest[i - 1] = Box[i]
      /\ \A i \in DOMAIN Box : i \in Nat /\ i >= 1
  BY <1>1 DEF rest
<1>4. PICK i \in DOMAIN Box : Snapped(Box[i]) /\ BeforeEnd(i) /\ Box[i].detail >= n
  BY DEF Awaited
<1>5. CASE i = 1
  BY <1>1, <1>4, <1>5 DEF Snapped, IsOver
<1>6. CASE i # 1
  <2>1. i > 1 /\ ~ IsOver(m)
    BY <1>1, <1>4, <1>6 DEF BeforeEnd
  <2>2. \A j \in DOMAIN rest : j < i - 1 => j + 1 < i
    BY <1>3
  <2>3. BeforeEnd(i - 1)'
    BY <1>2, <1>3, <1>4, <2>2 DEF BeforeEnd
  <2>4. i - 1 \in DOMAIN rest /\ rest[i - 1] = Box[i]
    BY <1>3, <1>6
  <2> QED BY <1>2, <1>4, <2>1, <2>3, <2>4 DEF Awaited
<1> QED BY <1>5, <1>6

\* What the reader has counted up to is never taken back.
LEMMA ReachedStays ==
    ASSUME TypeOK, Calm, Counted, Accounted, [Next]_vars, pc # "thread", NEW n \in Nat, Reached(n)
    PROVE  Reached(n)'
<1>1. /\ state.usage \in Accounts /\ state.usage.cumulative \in Nat /\ state.usage.cumulative >= n
      /\ Absent \notin Nat
  BY LastIsNat DEF Counted, Reached, Accounts, Count
<1>2. CASE state'.usage.cumulative = state.usage.cumulative
  BY <1>1, <1>2 DEF Reached
<1>3. CASE Stills
  BY <1>2, <1>3, StillSteps DEF Counts
<1>4. CASE Spends \/ Snapshot \/ Emit \/ EnterWriter
  BY <1>2, <1>4, SpendsCounts, SnapshotCounts, EmitCounts, EnterWriterCounts
<1>5. CASE TimesOut \/ Close
  BY <1>1, <1>2, <1>5, TimesOutCounts, CloseCounts, Finished, Abandoned
<1>6. CASE OpenThread
  BY <1>6, OpenThreadCounts
<1>7. CASE PrepareTurn
  BY <1>1, <1>2, <1>7, PrepareTurnCounts, Begun
<1>8. CASE Read
  <2> DEFINE m == Head(Box)
  <2>1. /\ pc = "reading" /\ m \in Message
        /\ \/ state'.usage = state.usage
           \/ state'.usage = FinishTurn(state.usage)
           \/ Snapped(m) /\ state'.usage \in Observe(state.usage, m.detail)
    BY <1>8, ReadCounts
  <2> HIDE DEF m
  <2>2. CASE state'.usage = state.usage \/ state'.usage = FinishTurn(state.usage)
    BY <1>1, <1>2, <2>2, Finished
  <2>3. CASE Snapped(m) /\ state'.usage \in Observe(state.usage, m.detail)
    <3>1. m.detail \in Nat
      BY <2>1, <2>3 DEF Message, Snapped
    <3>2. Sure(state.usage) => state.usage.baseline # Absent
      BY <2>1 DEF Accounted, Account
    <3>3. state'.usage.cumulative = m.detail /\ state.usage.cumulative <= m.detail
      BY <1>1, <2>3, <3>1, <3>2, Observed
    <3> QED BY <1>1, <3>1, <3>3 DEF Reached
  <2> QED BY <2>1, <2>2, <2>3
<1> QED BY <1>3, <1>4, <1>5, <1>6, <1>7, <1>8, Steps DEF Stills

\* A turn that is read was read before, or has just been sent.
LEMMA StreamingBefore ==
    ASSUME TypeOK, Calm, InOrder, [Next]_vars, Streaming', ~ EnterWriter PROVE Streaming
<1>1. pc' = "reading" /\ state'.writer
  BY DEF Streaming
<1>2. pc \in {"prepared", "reading"}
  <2>1. CASE Stills
    BY <1>1, <2>1, StillSteps
  <2>2. CASE Spends \/ Snapshot \/ Emit \/ Read
    BY <1>1, <2>2, SpendsCounts, SnapshotCounts, EmitCounts, ReadCounts
  <2>3. CASE TimesOut \/ Close \/ OpenThread \/ PrepareTurn
    BY <1>1, <2>3, TimesOutCounts, CloseCounts, OpenThreadCounts, PrepareTurnCounts
  <2> QED BY <2>1, <2>2, <2>3, Steps DEF Stills
<1>3. state.writer
  BY <1>1, <1>2, SubmittingStays
<1> QED BY <1>2, <1>3 DEF InOrder, Streaming

\* What the server has told of the turn stays known, or waits before its end.
LEMMA ShownStep ==
    ASSUME TypeOK, Calm, InOrder, Counted, Total, Accounted, Shown, [Next]_vars PROVE Shown'
<1>1. /\ Last \in Nat /\ native.total \in Nat /\ Absent \notin Nat
      /\ native.began \in Seq(Nat) /\ native.shown \in Seq(Nat)
      /\ DOMAIN native.began = 1 .. Last /\ DOMAIN native.shown = 1 .. Last
      /\ Box \in Seq(Message)
  BY LastIsNat DEF Counted, Last, TypeOK, SessionType, Box
<1> SUFFICES ASSUME Streaming'
             PROVE  \/ native'.shown[Last'] = native'.began[Last']
                    \/ Reached(native.shown[Last])' \/ Awaited(native.shown[Last])'
  BY DEF Shown
<1>2. CASE EnterWriter
  <2>1. /\ native'.began = Append(native.began, native.total)
        /\ native'.shown = Append(native.shown, native.total)
    BY <1>2, EnterWriterCounts
  <2>2. Last' = Last + 1 /\ native'.began[Last + 1] = native.total
    BY <1>1, <2>1 DEF Last
  <2>3. native'.shown[Last + 1] = native.total
    BY <1>1, <2>1
  <2> QED BY <2>2, <2>3
<1>3. CASE ~ EnterWriter
  <2>1. Streaming /\ Last \in 1 .. Last /\ Last' = Last /\ native'.began[Last] = native.began[Last]
    <3>1. Streaming
      BY <1>3, StreamingBefore
    <3>2. Last \in 1 .. Last
      BY <3>1, DueIsPast DEF Streaming
    <3> QED BY <1>3, <3>1, <3>2, PastStays
  <2>2. PICK n \in Nat : n = native.shown[Last]
    BY <1>1, <2>1
  <2>3. ASSUME native'.shown[Last'] = n, Reached(n)' \/ Awaited(n)'
        PROVE  Reached(native.shown[Last])' \/ Awaited(native.shown[Last])'
    BY <2>3 DEF Reached, Awaited
  <2>4. CASE native'.shown = native.shown
    <3>1. native'.shown[Last'] = n
      BY <2>1, <2>2, <2>4
    <3>2. CASE native.shown[Last] = native.began[Last]
      BY <2>1, <2>2, <3>1, <3>2
    <3>3. CASE Reached(n)
      <4>1. Reached(n)'
        BY <2>1, <3>3, ReachedStays DEF Streaming
      <4> QED BY <2>3, <3>1, <4>1
    <3>4. CASE Awaited(n) /\ Read /\ Box # <<>> /\ client'.inbox = Tail(Box)
      <4> DEFINE m == Head(Box)
      <4>1. Awaited(n)' \/ (Snapped(m) /\ m.detail >= n)
        BY <1>1, <3>4, AwaitedRead
      <4>2. CASE Snapped(m) /\ m.detail >= n
        <5>1. /\ m \in Message
              /\ pc' = "reading" => state'.usage \in Observe(state.usage, m.detail)
          BY <3>4, <4>2, ReadCounts
        <5> HIDE DEF m
        <5>2. pc' = "reading" /\ m.detail \in Nat
          BY <4>2, <5>1 DEF Message, Snapped, Streaming
        <5>3. state.usage \in Accounts /\ (Sure(state.usage) => state.usage.baseline # Absent)
          BY <2>1 DEF Accounted, Account, Counted, Streaming
        <5>4. state'.usage.cumulative = m.detail
          BY <5>1, <5>2, <5>3, Observed
        <5>5. Reached(n)'
          BY <1>1, <4>2, <5>2, <5>4 DEF Reached
        <5> QED BY <2>3, <3>1, <5>5
      <4> QED BY <2>3, <3>1, <4>1, <4>2
    <3>5. CASE /\ Awaited(n)
               /\ client'.inbox = Box \/ \E m \in Message : client'.inbox = Append(Box, m)
      <4>1. Awaited(n)'
        BY <1>1, <3>5, AwaitedStays
      <4> QED BY <2>3, <3>1, <4>1
    <3>6. \/ Read /\ Box # <<>> /\ client'.inbox = Tail(Box)
          \/ client'.inbox = Box \/ \E m \in Message : client'.inbox = Append(Box, m)
      <4>1. ~ OpenThread /\ ~ PrepareTurn
        BY <2>1 DEF OpenThread, PrepareTurn, Streaming
      <4>2. native.turn \in Nat /\ 0 \in Nat /\ SessionType /\ NativeType
        BY DEF TypeOK, NativeType
      <4> QED BY <4>1, <4>2, BoxSteps, Emitted, Reported
    <3> QED BY <2>1, <2>2, <3>2, <3>3, <3>4, <3>5, <3>6 DEF Shown
  <2>5. CASE /\ native.turn # 0 /\ client'.inbox = Append(Box, Usage(native.turn))
             /\ native'.shown = [native.shown EXCEPT ![native.turn] = native.total]
    <3>1. native.turn = Last /\ native.turn \in Nat
      BY <2>1, <2>5, LastIsNat DEF Total
    <3>2. native'.shown[Last'] = native.total
      BY <1>1, <2>1, <2>5, <3>1
    <3> DEFINE m == Usage(native.turn)
               box == Append(Box, m)
    <3>3. m \in Message /\ m.detail = native.total /\ Snapped(m)
      BY <3>1, Reported DEF TypeOK, Usage, Snapped
    <3>4. /\ Len(Box) + 1 \in DOMAIN box /\ box[Len(Box) + 1] = m /\ Len(Box) \in Nat
          /\ \A j \in DOMAIN box : \/ j \in DOMAIN Box /\ box[j] = Box[j]
                                   \/ j = Len(Box) + 1
      BY <1>1, <3>3, SeqAppend
    <3>5. Box' = box
      BY <2>5 DEF Box
    <3> HIDE DEF box, m
    <3>6. \A j \in DOMAIN Box : ~ IsOver(Box[j])
      BY <2>1, <2>5 DEF InOrder
    <3>7. \A j \in DOMAIN box : j < Len(Box) + 1 => ~ IsOver(box[j])
      BY <3>4, <3>6
    <3>8. \E i \in DOMAIN box : /\ Snapped(box[i]) /\ box[i].detail >= native.total
                                /\ \A j \in DOMAIN box : j < i => ~ IsOver(box[j])
      BY <1>1, <3>3, <3>4, <3>7
    <3>9. Awaited(native.shown[Last])'
      BY <3>2, <3>5, <3>8 DEF Awaited, BeforeEnd
    <3> QED BY <3>9
  <2>6. \/ native'.shown = native.shown
        \/ /\ native.turn # 0 /\ client'.inbox = Append(Box, Usage(native.turn))
           /\ native'.shown = [native.shown EXCEPT ![native.turn] = native.total]
    <3>1. CASE Stills
      BY <3>1, StillSteps DEF Counts
    <3>2. CASE Spends \/ Snapshot \/ Emit \/ Read
      BY <3>2, SpendsCounts, SnapshotCounts, EmitCounts, ReadCounts
    <3>3. CASE TimesOut \/ Close \/ OpenThread \/ PrepareTurn
      BY <3>3, TimesOutCounts, CloseCounts, OpenThreadCounts, PrepareTurnCounts
    <3> QED BY <1>3, <3>1, <3>2, <3>3, Steps DEF Stills
  <2> QED BY <2>4, <2>5, <2>6
<1> QED BY <1>2, <1>3

\* The boundary that a kept session has is where its thread stands.
LEMMA BoundaryStep ==
    ASSUME TypeOK, Calm, InOrder, Counted, Total, Waiting, Accounted, Shown, Boundary,
           [Next]_vars
    PROVE  Boundary'
<1>1. /\ Last \in Nat /\ MaxTurns \in Nat /\ Absent \notin Nat /\ Box \in Seq(Message)
      /\ setup' = setup
  BY LastIsNat, SetupStays DEF TypeOK, SessionType, Box
<1>2. /\ state.usage \in Accounts /\ charged \in [Turns -> Count] /\ Last <= MaxTurns
      /\ pc = "reading" => state.usage.open /\ Account(state.usage, Due, Start, native.total)
      /\ pc \in {"prepared", "reading"} => state.usage.open
  BY DEF Counted, Accounted, Account
<1>3. Kept => native.turn = 0
  BY DEF Kept, Calm, Writing, InOrder
<1>4. ASSUME Kept' => Kept, state'.usage = state.usage, charged' = charged,
             native'.total = native.total, native'.began = native.began,
             native'.shown = native.shown
      PROVE  Boundary'
  <2>1. Last' = Last
    BY <1>4 DEF Last
  <2>2. CASE Last > 0
    BY <1>4, <2>1, <2>2 DEF Boundary, Reached
  <2>3. CASE ~ (Last > 0)
    BY <1>1, <1>4, <2>1, <2>3 DEF Boundary
  <2> QED BY <2>2, <2>3
<1>5. ASSUME ~ Kept' \/ ~ state'.usage.known PROVE Boundary'
  BY <1>5 DEF Boundary
<1>6. CASE Stills
  <2>1. Counts' = Counts
    BY <1>6, StillSteps
  <2>2. CASE pc' = pc
    <3>1. Kept' => Kept
      BY <2>1, <2>2 DEF Kept, Sealed, Counts
    <3> QED BY <1>4, <2>1, <3>1 DEF Counts
  <2>3. CASE pc = "reading" /\ pc' = "ended"
    <3>1. ~ Kept'
      BY <1>2, <2>1, <2>3 DEF Kept, Counts
    <3> QED BY <1>5, <3>1
  <2>4. CASE pc' \in {"gone", "auth", "config", "thread", "reading"}
    BY <1>5, <2>4 DEF Kept
  <2> QED BY <1>6, <2>2, <2>3, <2>4, StillSteps
<1>7. CASE Spends \/ Snapshot \/ Emit
  <2>1. /\ UNCHANGED <<pc, charged>> /\ state'.usage = state.usage
        /\ state'.writer = state.writer /\ state'.terminal = state.terminal
        /\ native'.began = native.began
        /\ native.turn = 0 => native'.total = native.total /\ native'.shown = native.shown
    BY <1>7, SpendsCounts, SnapshotCounts, EmitCounts
  <2>2. Kept' => Kept
    BY <2>1 DEF Kept, Sealed
  <2>3. CASE Kept
    BY <1>3, <1>4, <2>1, <2>2, <2>3
  <2>4. CASE ~ Kept
    BY <1>5, <2>2, <2>4
  <2> QED BY <2>3, <2>4
<1>8. CASE EnterWriter
  <2>1. pc' = "reading"
    BY <1>8, EnterWriterCounts
  <2> QED BY <1>5, <2>1 DEF Kept
<1>9. CASE TimesOut
  <2>1. ~ Kept'
    BY <1>2, <1>9, TimesOutCounts DEF Kept, Sealed, Terminal
  <2> QED BY <1>5, <2>1
<1>10. CASE Close
  <2>1. /\ UNCHANGED <<native, charged>> /\ pc \in {"prepared", "ended"}
        /\ pc' \in {"idle", "gone"} /\ (pc' = "idle" => (state.writer => Sealed))
        /\ state'.usage = AbandonTurn(state.usage)
    BY <1>10, CloseCounts
  <2>2. CASE state.usage.open
    BY <1>2, <1>5, <2>1, <2>2, Abandoned
  <2>3. CASE ~ state.usage.open
    <3>1. pc = "ended" /\ state'.usage = state.usage
      BY <1>2, <2>1, <2>3, Abandoned
    <3>2. Kept' => Kept
      BY <2>1, <2>3, <3>1 DEF Kept
    <3> QED BY <1>4, <2>1, <3>1, <3>2
  <2> QED BY <2>2, <2>3
<1>11. CASE OpenThread
  <2>1. PICK cumulative :
          /\ UNCHANGED native /\ pc = "thread"
          /\ state'.usage = Accounting(setup.open = "new" \/ cumulative # Absent, cumulative)
          /\ \/ cumulative = Absent
             \/ \E i \in DOMAIN Box : Snapped(Box[i]) /\ cumulative = Box[i].detail
    BY <1>11, OpenThreadCounts
  <2>2. Last = 0 /\ Last' = 0
    BY <2>1 DEF Counted, Opening, Last
  <2>3. state'.usage.cumulative = cumulative
        /\ (state'.usage.known => setup.open = "new" \/ cumulative # Absent)
    <3> DEFINE known == setup.open = "new" \/ cumulative # Absent
    <3>1. state'.usage = Accounting(known, cumulative) /\ known \in BOOLEAN
      BY <2>1
    <3>2. state'.usage.cumulative = cumulative /\ (state'.usage.known => known)
      <4> HIDE DEF known
      <4> QED BY <3>1 DEF Accounting
    <3> QED BY <3>2
  <2>4. cumulative # Absent => cumulative = native.total
    BY <2>1, <2>2 DEF Waiting
  <2> QED BY <1>1, <2>1, <2>2, <2>3, <2>4 DEF Boundary
<1>12. CASE PrepareTurn
  <2>1. /\ UNCHANGED <<native, charged>> /\ pc = "idle"
        /\ UNCHANGED <<pc, state>> \/ pc' = "prepared"
    BY <1>12, PrepareTurnCounts
  <2>2. CASE UNCHANGED <<pc, state>>
    <3>1. Kept' => Kept
      BY <2>1, <2>2 DEF Kept, Sealed
    <3> QED BY <1>4, <2>1, <2>2, <3>1
  <2>3. CASE pc' = "prepared"
    BY <1>5, <2>3 DEF Kept
  <2> QED BY <2>1, <2>2, <2>3
<1>13. CASE Read
  <2> DEFINE m == Head(Box)
  <2>1. /\ pc = "reading" /\ Box # <<>> /\ client'.inbox = Tail(Box)
        /\ UNCHANGED native /\ state'.writer = state.writer
        /\ IsOver(m) => Streaming
        /\ \/ pc' = "ended" /\ state'.usage = state.usage
           \/ /\ IsOver(m) /\ pc' = "ended" /\ state'.terminal = state.terminal
           \/ /\ IsOver(m) /\ pc' = "ended" /\ state'.usage = FinishTurn(state.usage)
              /\ charged' = [charged EXCEPT ![Last] = state.usage.local]
           \/ pc' = "reading"
    BY <1>13, ReadCounts
  <2>2. \A n : Awaited(n) => ~ IsOver(m)
    BY <1>1, <2>1, AwaitedRead
  <2> HIDE DEF m
  <2>3. CASE pc' = "ended" /\ state'.usage = state.usage
    BY <1>2, <1>5, <2>1, <2>3 DEF Kept
  <2>4. CASE IsOver(m) /\ pc' = "ended" /\ state'.terminal = state.terminal
    <3>1. state'.writer /\ state'.terminal = Absent
      BY <2>1, <2>4 DEF InOrder, Streaming
    <3> QED BY <1>5, <2>4, <3>1 DEF Kept, Sealed
  <2>5. CASE /\ IsOver(m) /\ pc' = "ended" /\ state'.usage = FinishTurn(state.usage)
             /\ charged' = [charged EXCEPT ![Last] = state.usage.local]
    <3>1. Last > 0 /\ Last' = Last /\ Last \in Turns /\ Streaming
      BY <1>1, <1>2, <2>1, <2>5 DEF Counted, Streaming, Last, Turns
    <3>2. charged'[Last] = state.usage.local
      BY <1>2, <2>5, <3>1
    <3>3. /\ state'.usage.known = state.usage.advanced
          /\ state'.usage.cumulative = state.usage.cumulative
      BY <1>2, <2>5, Finished
    <3>4. CASE state.usage.advanced
      <4>1. /\ state.usage.local # Absent /\ state.usage.cumulative # Absent
            /\ state.usage.cumulative >= native.began[Last]
        BY <1>2, <2>1, <3>1, <3>4 DEF Account, Start, Streaming
      <4>2. Reached(native.shown[Last])
        BY <2>2, <2>5, <3>1, <4>1 DEF Shown, Reached
      <4>3. charged'[Last'] # Absent /\ Reached(native.shown[Last])'
        BY <2>1, <3>1, <3>2, <3>3, <4>1, <4>2 DEF Reached
      <4> QED BY <3>1, <4>3 DEF Boundary
    <3>5. CASE ~ state.usage.advanced
      BY <1>5, <3>3, <3>5
    <3> QED BY <3>4, <3>5
  <2>6. CASE pc' = "reading"
    BY <1>5, <2>6 DEF Kept
  <2> QED BY <2>1, <2>3, <2>4, <2>5, <2>6
<1> QED BY <1>6, <1>7, <1>8, <1>9, <1>10, <1>11, <1>12, <1>13, Steps DEF Stills

\* A turn is charged what it has used beyond its floor, as its snapshots say.
LEMMA UsageIsOwnStep ==
    ASSUME TypeOK, Calm, Counted, Total, Accounted, UsageIsOwn, [Next]_vars PROVE UsageIsOwn'
<1>1. /\ Last \in Nat /\ MaxTurns \in Nat /\ Absent \notin Nat
      /\ native.total \in Nat /\ native.turn \in Nat
      /\ DOMAIN native.began = 1 .. Last /\ DOMAIN native.ended = 1 .. Last
      /\ native.ended \in Seq(Count) /\ charged \in [Turns -> Count] /\ Last <= MaxTurns
      /\ state.usage \in Accounts
  BY LastIsNat DEF Counted, Last
<1>2. TypeOK' /\ Counted' /\ Total'
  BY TypeStep, CountedStep, TotalStep
<1>3. /\ Last' \in Nat /\ native'.total \in Nat /\ native'.total >= native.total
      /\ DOMAIN native'.began = 1 .. Last' /\ DOMAIN native'.ended = 1 .. Last'
  <2>1. DOMAIN native'.began = 1 .. Len(native'.began) /\ Last' \in Nat
    BY <1>2 DEF TypeOK, NativeType, Last
  <2>2. DOMAIN native'.ended = 1 .. Last'
    BY <1>2 DEF TypeOK, NativeType, Counted, Last
  <2> QED BY <2>1, <2>2, PastStays DEF Last
<1>4. SUFFICES ASSUME NEW t \in 1 .. Last', charged'[t] # Absent
               PROVE  charged'[t] + Floor(t)'
                        <= IF native'.ended[t] = Absent THEN native'.total ELSE native'.ended[t]
  BY <1>3 DEF UsageIsOwn
<1>5. t \in 1 .. Last
  <2>1. CASE Last' = Last
    BY <1>4, <2>1
  <2>2. CASE Last' = Last + 1 /\ charged' = charged
    <3>1. Last + 1 \in Turns
      BY <1>1, <1>2, <2>2 DEF Counted, Turns
    <3>2. charged[Last + 1] = Absent
      BY <1>1, <3>1 DEF Counted
    <3> QED BY <1>1, <1>4, <2>2, <3>2
  <2> QED BY <2>1, <2>2, PastStays
<1>6. Floor(t)' = Floor(t) /\ Floor(t) \in Nat /\ t \in Turns
  BY <1>1, <1>5, FloorsStay DEF Turns
<1>7. charged[t] # Absent =>
        charged[t] + Floor(t) <= IF native.ended[t] = Absent THEN native.total ELSE native.ended[t]
  BY <1>1, <1>5 DEF UsageIsOwn
<1>8. CASE t < Last
  <2>1. charged'[t] = charged[t] /\ native'.ended[t] = native.ended[t]
    BY <1>5, <1>8, PastStays
  <2>2. native.ended[t] # Absent
    BY <1>1, <1>5, <1>8 DEF Total
  <2> QED BY <1>4, <1>6, <1>7, <2>1, <2>2
<1>9. CASE t = Last
  <2>1. (IF native.ended[t] = Absent THEN native.total ELSE native.ended[t]) = native.total
    <3>1. native.turn # 0 => native.ended[t] = Absent
      BY <1>1, <1>5, <1>9 DEF Total
    <3>2. native.turn = 0 => native.ended[t] = native.total
      BY <1>1, <1>5, <1>9 DEF Total
    <3> QED BY <3>1, <3>2
  <2> DEFINE bound == IF native'.ended[t] = Absent THEN native'.total ELSE native'.ended[t]
  <2>2. bound \in Nat /\ bound >= native.total
    <3>1. CASE Last' = Last
      <4>1. native'.turn # 0 => native'.ended[t] = Absent
        BY <1>2, <1>3, <1>4, <1>9, <3>1 DEF Total
      <4>2. native'.turn = 0 => native'.ended[t] = native'.total
        BY <1>1, <1>2, <1>3, <1>4, <1>5, <1>9, <3>1 DEF Total
      <4> QED BY <1>3, <4>1, <4>2
    <3>2. CASE EnterWriter /\ \A i \in 1 .. Last : native'.ended[i] = native.ended[i]
      <4>1. native.turn = 0
        BY <3>2, EnterWriterCounts DEF Calm, Writing
      <4>2. native'.ended[t] = native.total
        BY <1>1, <1>5, <1>9, <3>2, <4>1 DEF Total
      <4> QED BY <1>1, <1>3, <4>2
    <3> QED BY <3>1, <3>2, PastStays
  <2>3. charged'[t] \in Nat /\ charged'[t] + Floor(t) <= native.total
    <3>1. CASE charged' = charged
      <4>1. charged[t] \in Nat
        BY <1>1, <1>4, <1>6, <3>1 DEF Count
      <4> QED BY <1>4, <1>7, <2>1, <3>1, <4>1
    <3>2. CASE /\ state.writer /\ pc = "reading"
               /\ charged' = [charged EXCEPT ![Last] = state.usage.local]
      <4>1. charged'[t] = state.usage.local /\ state.usage.local \in Nat
        BY <1>1, <1>4, <1>6, <1>9, <3>2 DEF Accounts, Count
      <4>2. state.usage.local + Due <= native.total
        BY <1>1, <3>2, <4>1 DEF Accounted, Account
      <4>3. Due = Floor(t)
        BY <1>9, <3>2 DEF Due
      <4> QED BY <4>1, <4>2, <4>3
    <3>3. \/ charged' = charged
          \/ /\ state.writer /\ pc = "reading"
             /\ charged' = [charged EXCEPT ![Last] = state.usage.local]
      <4>1. CASE Stills
        BY <4>1, StillSteps DEF Counts
      <4>2. CASE Spends \/ Snapshot \/ Emit \/ EnterWriter
        BY <4>2, SpendsCounts, SnapshotCounts, EmitCounts, EnterWriterCounts
      <4>3. CASE Close \/ OpenThread \/ PrepareTurn
        BY <4>3, CloseCounts, OpenThreadCounts, PrepareTurnCounts
      <4>4. CASE Read \/ TimesOut
        BY <4>4, ReadCounts, TimesOutCounts DEF Streaming
      <4> QED BY <4>1, <4>2, <4>3, <4>4, Steps DEF Stills
    <3> QED BY <3>1, <3>2, <3>3
  <2>4. Floor(t)' = Floor(t)
    BY <1>6
  <2>5. charged'[t] + Floor(t)' <= bound
    <3> HIDE DEF bound
    <3> QED BY <1>1, <1>6, <2>2, <2>3, <2>4
  <2> QED BY <2>5
<1> QED BY <1>1, <1>5, <1>8, <1>9

-----------------------------------------------------------------------------
(* The theorems.                                                             *)

\* The invariant holds initially.
LEMMA InitInv == Init => Inv
<1> SUFFICES ASSUME Init PROVE Inv
  OBVIOUS
<1>1. /\ pc = "connect" /\ setup \in Setups /\ replies = {}
      /\ client = [usable |-> FALSE, inbox |-> <<>>]
      /\ native.turn = 0 /\ native.items = {} /\ native.asked = {} /\ native.calls = {}
      /\ ~ native.ran
  BY DEF Init
<1>2. /\ Shaped(state) /\ state.items = {} /\ state.calls = {} /\ state.tokens = {}
      /\ state.owed = {} /\ state.terminal = Absent /\ state.writer = FALSE
  BY DEF Init, Cleared, Shaped, StateFields
<1>3. SessionType
  <2>1. <<>> \in Seq(Message)
    OBVIOUS
  <2> QED BY <1>1, <2>1 DEF SessionType
<1>4. NativeType
  <2> DEFINE total == IF setup.open = "new" THEN 0 ELSE History
             nobody == [id : Ids, type : Types]
             nothing == [request : Ids, item : Types]
  <2>1. total \in Nat
    BY BoundsAssumption
  <2>2. native = [total |-> total, turn |-> 0, began |-> <<>>, ended |-> <<>>, items |-> {},
                  calls |-> {}, asked |-> {}, ran |-> FALSE, shown |-> <<>>, frames |-> 0,
                  replayed |-> setup.open = "new"]
    BY DEF Init
  <2>3. <<>> \in Seq(Nat) /\ <<>> \in Seq(Count) /\ 0 \in Nat
    OBVIOUS
  <2> HIDE DEF total
  <2> QED BY <2>1, <2>2, <2>3 DEF NativeType
<1>5. TypeOK
  BY <1>1, <1>2, <1>3, <1>4 DEF TypeOK, HostType
<1>6. Calm
  BY <1>1, <1>2 DEF Calm, Box
<1>7. InOrder /\ Followed /\ Settled /\ Contained
  BY <1>1, <1>2 DEF InOrder, Followed, Settled, Contained, Streaming, Sealed
<1>8. Callbacks /\ Tokens
  BY <1>1, <1>2 DEF Callbacks, Tokens
<1> QED BY <1>5, <1>6, <1>7, <1>8 DEF Inv

\* Every step keeps the invariant.
LEMMA NextInv == Inv /\ [Next]_vars => Inv'
BY TypeStep, CalmStep, InOrderStep, CallbacksStep, TokensStep, FollowedStep, SettledStep,
   ContainedStep DEF Inv

\* Every reachable state satisfies the invariant: the server's own account of a
\* turn is what the reader knows of it and what waits to be read, whatever the
\* setup and the number of turns, messages and tokens.
THEOREM Invariance == Spec => []Inv
<1> QED BY InitInv, NextInv, PTL DEF Spec

\* A session that close() keeps for another turn owes the server nothing and
\* the server has nothing open in it: NeedsDiscard asks enough of the state the
\* reader has, because what it does not know of is over.
THEOREM KeptSessionOwesNothing == Spec => []SurvivorOwesNothing
<1>1. Inv => SurvivorOwesNothing
  BY DEF Inv, Calm, Writing, SurvivorOwesNothing
<1> QED BY <1>1, Invariance, PTL

\* The native terminal that a contained turn accepts is one of a turn that ran
\* declared tools only: whatever ran, the reader had heard of before it, and
\* grants of authority are never taken back.
THEOREM ContainedTurnRanNothing == Spec => []ContainedRunsNothing
<1>1. Inv => ContainedRunsNothing
  BY DEF Inv, Contained, Sealed, ContainedRunsNothing
<1> QED BY <1>1, Invariance, PTL

\* The counts are right initially.
LEMMA InitUsage == Init => UsageInv
<1> SUFFICES ASSUME Init PROVE UsageInv
  OBVIOUS
<1> DEFINE usage == Accounting(FALSE, Absent)
<1>1. /\ pc = "connect" /\ client.inbox = <<>> /\ native.turn = 0 /\ native.began = <<>>
      /\ native.ended = <<>> /\ native.shown = <<>> /\ native.total = Initial
      /\ native.replayed = (setup.open = "new") /\ charged = [t \in Turns |-> Absent]
      /\ state.usage = usage /\ ~ state.writer /\ MaxTurns \in Nat
  BY BoundsAssumption DEF Init, Initial, Cleared
<1>2. usage \in Accounts /\ usage.cumulative = Absent
  BY DEF Accounting, Accounts, Count
<1> HIDE DEF usage
<1>3. Last = 0
  BY <1>1 DEF Last
<1>4. Counted
  BY <1>1, <1>2, <1>3 DEF Counted, Opening, Submitting, Count
<1>5. Total
  <2>1. DOMAIN native.ended = {} /\ DOMAIN native.began = {} /\ DOMAIN native.shown = {}
    BY <1>1
  <2>2. ~ native.replayed => setup.open # "new"
    BY <1>1
  <2> QED BY <1>1, <1>3, <2>1, <2>2 DEF Total
<1>6. Waiting /\ Accounted /\ Shown /\ Boundary /\ UsageIsOwn
  BY <1>1, <1>2 DEF Waiting, Box, Accounted, Shown, Streaming, Boundary, Kept, UsageIsOwn
<1> QED BY <1>4, <1>5, <1>6 DEF UsageInv

\* Every step keeps the counts right.
LEMMA NextUsage == Inv /\ UsageInv /\ [Next]_vars => UsageInv'
BY CountedStep, TotalStep, WaitingStep, AccountedStep, ShownStep, BoundaryStep, UsageIsOwnStep
   DEF Inv, UsageInv

\* Every reachable state counts right: what the reader has made of the snapshots
\* it heard, those that wait, and what the server has counted fit together, in
\* every turn and from every boundary.
THEOREM UsageInvariance == Spec => []UsageInv
<1> QED BY InitUsage, NextUsage, Invariance, PTL DEF Spec

\* A turn is charged its own tokens: neither the history of a restored thread, nor
\* of an earlier turn more than what that turn was not charged itself, whichever
\* snapshots were lost, late or never sent.
THEOREM TurnsPayForThemselves == Spec => []UsageIsOwn
<1>1. UsageInv => UsageIsOwn
  BY DEF UsageInv
<1> QED BY <1>1, UsageInvariance, PTL
==============================================================================
