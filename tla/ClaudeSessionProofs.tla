------------------------ MODULE ClaudeSessionProofs ------------------------
(***************************************************************************)
(* Theorems about ClaudeSession, for any number of turns and frames and any *)
(* requests: whose messages a stream shows, who is asked about a tool and   *)
(* before what, and what a released session leaves behind.                  *)
(***************************************************************************)
EXTENDS ClaudeSession, SequenceTheorems, TLAPS

Kinds == {"init", "text", "limit", "tool", "huge", "stranger", "toolresult", "result"}
Reports == {"same", "schema tool", "wider"}
Results == {"ok", "error", "aborted"}
Message ==
    {m \in [of : Nat, kind : Kinds, arg : Kinds \cup Reports \cup Results] :
        m.kind = "tool" => m.arg = "tool"}
ShownEvent == [of : Nat, kind : Kinds \cup Statuses \cup {"startup", "approval"}]

Opening == {"new", "starting", "adopting", "probing", "unwinding", "refused"}
Decided == {"allow", "deny", "abort", "over"}
GenPlaces ==
    {"idle", "draining", "querying", "identifying", "publishing", "streaming",
     "concluding", "stopping"}
Ends ==
    Kinds \cup Reports \cup Results
        \cup {"none", "raise", "output_limit", "backend_failed", "cancelled"}

SessionType ==
    /\ life \in Opening \cup {"live", "dead"}
    /\ client \in {"none", "up", "failed", "ended", "gone"}
    /\ group \in {"none", "unowned", "owned", "reaped"}
    /\ closer \in {"none", "disconnecting", "reaping", "done"}
NativeType ==
    native \in [turn : Nat, left : Nat, init : BOOLEAN, stopping : BOOLEAN, sound : BOOLEAN]
WireType == wire \in Seq(Message)
StateType ==
    state \in [drain : BOOLEAN, flight : BOOLEAN, named : BOOLEAN, known : BOOLEAN,
               told : BOOLEAN, failed : BOOLEAN, aborted : BOOLEAN, quota : BOOLEAN,
               defect : BOOLEAN, tools : SUBSET {"tool"}, pending : Seq(Nat)]
CallType == call \in [Turns -> {"none", "used", "host"} \cup Decided]
GenType ==
    gen \in [turn : Nat, pc : GenPlaces, buffer : Seq(Message), then : Ends,
             stopped : BOOLEAN]
StopType ==
    stop \in [Callers -> [pc : {"idle", "asking", "disconnecting", "reaping", "returned"},
                          force : BOOLEAN]]
ShownType == shown \in Seq(ShownEvent)

TypeOK ==
    /\ SessionType /\ NativeType /\ WireType /\ StateType /\ CallType
    /\ GenType /\ StopType /\ ShownType
-----------------------------------------------------------------------------
\* Nothing of a turn is left on the client's stream, and none runs.
Clean == wire = <<>> /\ native.turn = 0

\* The session's life, its client and its processes.
Released ==
    /\ ReleasedIsReaped
    /\ life \in Opening =>
        /\ gen.pc = "idle" /\ gen.turn = 0 /\ stop["intr"].pc = "idle"
        /\ closer = "none" /\ ~ state.flight /\ ~ state.drain
    /\ life \in {"new", "starting"} => client = "none" /\ group = "none"
    /\ closer # "none" => life = "dead"
    /\ closer \in {"reaping", "done"} => client = "gone"

\* The two stoppers, and what an interrupt that returned has done: it took the
\* session, or the turn was named and its tail is remembered.
Stopping ==
    /\ gen.pc # "stopping" => stop["gen"].pc = "idle"
    /\ stop["gen"].pc # "returned"
    /\ ~ gen.stopped => stop["intr"].pc = "idle"
    /\ gen.pc \in {"draining", "querying", "identifying"} => ~ state.named
    /\ gen.pc \in {"publishing", "streaming", "concluding"} => state.named
    /\ stop["intr"].pc = "asking" /\ ~ stop["intr"].force => state.named
    /\ stop["intr"].pc = "returned" /\ life = "live" =>
        state.named /\ (state.drain \/ ~ state.flight)

\* The turn in flight, and its tail.
Flight ==
    /\ ~ state.flight => Clean
    /\ gen.pc = "idle" /\ life = "live" /\ ~ state.drain => ~ state.flight
    /\ gen.pc = "draining" => state.drain
    /\ gen.pc = "querying" => ~ state.drain /\ ~ state.flight
    /\ gen.pc \in {"identifying", "publishing", "streaming", "concluding"} /\ state.drain =>
        stop["intr"].pc = "returned"
    /\ gen.pc = "concluding" => Clean
    /\ gen.pc \in {"idle", "draining", "querying", "identifying", "stopping"} \/ state.flight

\* Whose messages are on their way, and that a result is a turn's last.
Receiving == gen.pc \in {"identifying", "publishing", "streaming"}

OwnTurn ==
    /\ native.turn <= gen.turn /\ gen.turn <= MaxTurns
    /\ native.turn # 0 /\ ~ state.drain => native.turn = gen.turn
    /\ Receiving => native.turn \in {0, gen.turn}
    /\ gen.pc = "draining" => native.turn < gen.turn
    /\ gen.pc # "idle" => gen.turn \in Turns

OwnWire ==
    /\ \A i \in DOMAIN wire : IsResult(wire[i]) => i = Len(wire) /\ native.turn = 0
    /\ Receiving =>
        \A i \in DOMAIN wire : wire[i].of = gen.turn

OwnBuffer ==
    /\ gen.pc \in {"idle", "draining", "querying", "stopping"} => gen.buffer = <<>>
    /\ \A i \in DOMAIN gen.buffer : IsResult(gen.buffer[i]) => i = Len(gen.buffer) /\ Clean
    /\ Receiving =>
        \A i \in DOMAIN gen.buffer : gen.buffer[i].of = gen.turn

Own == OwnTurn /\ OwnWire /\ OwnBuffer

Streamed ==
    /\ TurnIsOwn
    /\ gen.pc # "idle" => \A i \in DOMAIN shown : ~ IsTerminal(shown[i])

\* The decision about a turn's tool is told, or on its way to be.
Answered(t) ==
    \/ state.defect \/ stop["intr"].pc = "returned"
    \/ \E i \in DOMAIN state.pending : state.pending[i] = t
    \/ \E j \in DOMAIN shown : shown[j] = [of |-> t, kind |-> "approval"]

IsToolResult(m) == m.kind = "toolresult" /\ m.arg = "tool"

GateFuture ==
    \A t \in Turns :
        t > gen.turn \/ (t = gen.turn /\ gen.pc \in {"draining", "querying"}) => call[t] = "none"
GateTold == Receiving /\ call[gen.turn] \in Decided => Answered(gen.turn)
GateResults ==
    Receiving =>
        /\ \A i \in DOMAIN wire : IsToolResult(wire[i]) => call[gen.turn] = "over"
        /\ \A i \in DOMAIN gen.buffer : IsToolResult(gen.buffer[i]) => call[gen.turn] = "over"

Gate == GateFuture /\ GateTold /\ GateResults

Inv == TypeOK /\ Released /\ Stopping /\ Flight /\ Own /\ Streamed /\ Gate
-----------------------------------------------------------------------------
(* Types. The last lemma of the section puts the eight parts together.      *)

\* A step is one of these actions.
LEMMA Steps ==
    Next =>
        \/ OpenChecks
        \/ OpenConnects
        \/ OpenAdopts
        \/ OpenProbes
        \/ OpenUnwinds
        \/ StartTurn
        \/ Drain
        \/ DrainFails
        \/ Query
        \/ Identify
        \/ IdentifyFails
        \/ Publish
        \/ StreamBuffered
        \/ StreamLive
        \/ StreamStops
        \/ Conclude
        \/ Interrupt
        \/ Cancel
        \/ StopAsks("gen")
        \/ StopAsks("intr")
        \/ StopDisconnects("gen")
        \/ StopDisconnects("intr")
        \/ StopReaps("gen")
        \/ StopReaps("intr")
        \/ CloseSession
        \/ CloseDisconnects
        \/ CloseReaps
        \/ \E t \in Turns : \E tool \in {"allowed", "denied"} : Ask(t, tool)
        \/ \E t \in Turns : \E answer \in {"allow", "deny", "abort", "failed"} : Answer(t, answer)
        \/ NativeInit
        \/ NativeFrame
        \/ NativeToolResult
        \/ NativeResult
        \/ NativeDies
BY DEF Next, Open, Turn, StopClient, Callers, Close, Callbacks, Native

\* What reading does to a stream of messages, and emitting to the client's.
LEMMA SeqTail ==
    ASSUME NEW S, NEW s \in Seq(S), s # <<>>
    PROVE  /\ Head(s) \in S /\ Head(s) = s[1] /\ 1 \in DOMAIN s
           /\ Tail(s) \in Seq(S) /\ Len(s) \in Nat /\ Len(s) > 0
           /\ Len(Tail(s)) = Len(s) - 1 /\ Len(Tail(s)) \in Nat
           /\ \A i \in DOMAIN Tail(s) : i \in Nat /\ i + 1 \in DOMAIN s /\ Tail(s)[i] = s[i + 1]
OBVIOUS

\* Emitting puts one message at the end of the client's stream.
LEMMA Emitting ==
    ASSUME WireType, NEW m \in Message, Emits(m)
    PROVE  /\ wire' \in Seq(Message) /\ Len(wire') = Len(wire) + 1 /\ Len(wire) \in Nat
           /\ \A i \in DOMAIN wire' :
                 \/ i \in DOMAIN wire /\ wire'[i] = wire[i]
                 \/ i = Len(wire') /\ wire'[i] = m
BY DEF WireType, Emits

\* What the CLI sends are messages.
LEMMA Frames ==
    ASSUME NativeType
    PROVE  /\ \A report \in Reports : Frame(native.turn, "init", report) \in Message
           /\ \A kind \in Kinds : Frame(native.turn, kind, kind) \in Message
           /\ Frame(native.turn, "toolresult", "tool") \in Message
           /\ \A result \in Results : Frame(native.turn, "result", result) \in Message
BY DEF NativeType, Frame, Message, Kinds, Reports, Results

\* Three actions read, and each takes the first message.
LEMMA Reading ==
    ASSUME WireType, Drain \/ Identify \/ StreamLive
    PROVE  wire # <<>> /\ wire' = Tail(wire)
BY DEF Drain, Identify, StreamLive, Readable

\* The ends that the stopping of a turn may lead to.
LEMMA EndsOfTurns ==
    {"none", "raise", "output_limit", "backend_failed", "cancelled"} \subseteq Ends
BY DEF Ends

\* Stopping the client, and being idle again, keep the generator's type.
LEMMA GenStopsType ==
    ASSUME GenType, NEW force, NEW then \in Ends, GenStops(force, then) PROVE GenType'
<1>1. <<>> \in Seq(Message) /\ "stopping" \in GenPlaces
  BY DEF GenPlaces
<1> QED
  BY <1>1 DEF GenType, GenStops

\* So does being idle again.
LEMMA IdleType ==
    ASSUME GenType PROVE Idle(gen) \in [turn : Nat, pc : GenPlaces, buffer : Seq(Message),
                                        then : Ends, stopped : BOOLEAN]
<1>1. <<>> \in Seq(Message) /\ "idle" \in GenPlaces
  BY DEF GenPlaces
<1> QED
  BY <1>1, EndsOfTurns DEF GenType, Idle

\* A step of the turn leaves the stoppers alone or stops the client.
LEMMA Stoppages ==
    ASSUME Turn
    PROVE  \/ UNCHANGED stop
           \/ \E force \in BOOLEAN :
                 \E then \in {"raise", "output_limit", "backend_failed"} : GenStops(force, then)
<1>1. CASE DrainFails \/ Query \/ Identify \/ IdentifyFails
  BY <1>1 DEF DrainFails, Query, Identify, IdentifyFails
<1>2. CASE StreamBuffered \/ Conclude
  BY <1>2 DEF StreamBuffered, Events, Conclude
<1>3. CASE StreamLive
  <2>1. ASSUME NEW m, Events(m) PROVE UNCHANGED stop \/ GenStops(TRUE, "raise")
    BY <2>1 DEF Events
  <2> QED BY <1>3, <2>1 DEF StreamLive
<1>4. CASE StreamStops
  BY <1>4 DEF StreamStops
<1>5. CASE Drain \/ Publish
  BY <1>5 DEF Drain, Publish
<1> QED
  BY <1>1, <1>2, <1>3, <1>4, <1>5 DEF Turn

\* The session's fields are set to constants only.
LEMMA SessionTypeStep == SessionType /\ [Next]_vars => SessionType'
<1> SUFFICES ASSUME SessionType, [Next]_vars PROVE SessionType'
  OBVIOUS
<1> USE DEF SessionType, Opening
<1>1. CASE UNCHANGED vars
  BY <1>1 DEF vars
<1>2. CASE OpenChecks
  BY <1>2 DEF OpenChecks
<1>3. CASE OpenConnects
  BY <1>3 DEF OpenConnects
<1>4. CASE OpenAdopts
  BY <1>4 DEF OpenAdopts
<1>5. CASE OpenProbes
  BY <1>5 DEF OpenProbes
<1>6. CASE OpenUnwinds
  BY <1>6 DEF OpenUnwinds, Unwound
<1>7. CASE StopDisconnects("gen")
  BY <1>7 DEF StopDisconnects, Disconnects, Quiet
<1>8. CASE StopDisconnects("intr")
  BY <1>8 DEF StopDisconnects, Disconnects, Quiet
<1>9. CASE StopReaps("gen")
  BY <1>9 DEF StopReaps, Disconnects, Quiet, Stopped, Idle, Show, Terminal
<1>10. CASE StopReaps("intr")
  BY <1>10 DEF StopReaps, Disconnects, Quiet, Stopped
<1>11. CASE CloseSession
  BY <1>11 DEF CloseSession
<1>12. CASE CloseDisconnects
  BY <1>12 DEF CloseDisconnects, Disconnects, Quiet
<1>13. CASE CloseReaps
  BY <1>13 DEF CloseReaps
<1>14. CASE NativeDies
  BY <1>14 DEF NativeDies, Quiet
<1>15. CASE StartTurn \/ Drain \/ DrainFails \/ Query \/ Identify \/ IdentifyFails \/
            Publish \/ StreamBuffered \/ StreamLive \/ StreamStops \/ Conclude \/
            Interrupt
  BY <1>15 DEF StartTurn, Drain, DrainFails, Query, Identify, IdentifyFails, Publish,
       StreamBuffered, StreamLive, StreamStops, Conclude, Interrupt
<1>16. CASE Cancel \/ StopAsks("gen") \/ StopAsks("intr") \/
            (\E t \in Turns : \E tool \in {"allowed", "denied"} : Ask(t, tool)) \/
            (\E t \in Turns : \E answer \in {"allow", "deny", "abort", "failed"} :
                Answer(t, answer)) \/
            NativeInit \/ NativeFrame \/ NativeToolResult \/ NativeResult
  BY ZenonT(40), <1>16 DEF Cancel, StopAsks, Ask, Answer, NativeInit, NativeFrame, NativeToolResult,
       NativeResult
<1> QED
  BY <1>1, <1>2, <1>3, <1>4, <1>5, <1>6, <1>7, <1>8, <1>9, <1>10, <1>11, <1>12, <1>13,
     <1>14, <1>15, <1>16, Steps

\* The CLI runs a turn that was begun, or none.
LEMMA NativeTypeStep == NativeType /\ GenType /\ [Next]_vars => NativeType'
<1> SUFFICES ASSUME NativeType /\ GenType, [Next]_vars PROVE NativeType'
  OBVIOUS
<1> USE BoundsAssumption DEF NativeType, GenType
<1>1. CASE UNCHANGED vars
  BY <1>1 DEF vars
<1>2. CASE NativeFrame
  <2>1. PICK kind \in {"text", "limit", "tool", "huge", "stranger", "toolresult"} :
            native' = [native EXCEPT !.left = @ - 1,
                                     !.sound = @ /\ kind \in {"text", "limit", "tool"}]
    BY <1>2 DEF NativeFrame
  <2>2. native.left - 1 \in Nat
    BY <1>2 DEF NativeFrame
  <2>3. (native.sound /\ kind \in {"text", "limit", "tool"}) \in BOOLEAN
    OBVIOUS
  <2> QED BY <2>1, <2>2, <2>3
<1>3. CASE Query
  BY <1>3 DEF Query, GenStops, Asks
<1>4. CASE StopAsks("gen")
  BY <1>4 DEF StopAsks, Landed, Stopped, Idle, Show, Terminal
<1>5. CASE StopAsks("intr")
  BY <1>5 DEF StopAsks, Landed, Stopped
<1>6. CASE StopDisconnects("gen")
  BY <1>6 DEF StopDisconnects, Disconnects, Quiet
<1>7. CASE StopDisconnects("intr")
  BY <1>7 DEF StopDisconnects, Disconnects, Quiet
<1>8. CASE StopReaps("gen")
  BY <1>8 DEF StopReaps, Disconnects, Quiet, Stopped, Idle, Show, Terminal
<1>9. CASE StopReaps("intr")
  BY <1>9 DEF StopReaps, Disconnects, Quiet, Stopped
<1>10. CASE CloseDisconnects
  BY <1>10 DEF CloseDisconnects, Disconnects, Quiet
<1>11. CASE NativeInit
  BY <1>11 DEF NativeInit, Emits, Frame
<1>12. CASE NativeToolResult
  BY <1>12 DEF NativeToolResult, Emits, Frame
<1>13. CASE NativeResult
  BY <1>13 DEF NativeResult, Emits, Frame, Quiet
<1>14. CASE NativeDies
  BY <1>14 DEF NativeDies, Quiet
<1>15. CASE OpenChecks \/ OpenConnects \/ OpenAdopts \/ OpenProbes \/ OpenUnwinds \/
            StartTurn \/ Drain \/ DrainFails \/ Identify \/ IdentifyFails \/ Publish \/
            StreamBuffered
  BY <1>15 DEF OpenChecks, OpenConnects, OpenAdopts, OpenProbes, OpenUnwinds, StartTurn,
       Drain, DrainFails, Identify, IdentifyFails, Publish, StreamBuffered, GenStops
<1>16. CASE StreamLive \/ StreamStops \/ Conclude \/ Interrupt \/ Cancel \/
            CloseSession \/ CloseReaps \/
            (\E t \in Turns : \E tool \in {"allowed", "denied"} : Ask(t, tool)) \/
            (\E t \in Turns : \E answer \in {"allow", "deny", "abort", "failed"} :
                Answer(t, answer))
  BY <1>16 DEF StreamLive, StreamStops, Conclude, Interrupt, Cancel, CloseSession,
       CloseReaps, Ask, Answer, GenStops
<1> QED
  BY <1>1, <1>2, <1>3, <1>4, <1>5, <1>6, <1>7, <1>8, <1>9, <1>10, <1>11, <1>12, <1>13,
     <1>14, <1>15, <1>16, Steps

\* Each permission callback is in one of its places.
LEMMA CallTypeStep == CallType /\ [Next]_vars => CallType'
<1> SUFFICES ASSUME CallType, [Next]_vars PROVE CallType'
  OBVIOUS
<1> USE DEF CallType, Decided
<1>1. CASE UNCHANGED vars
  BY <1>1 DEF vars
<1>2. CASE \E t \in Turns : \E tool \in {"allowed", "denied"} : Ask(t, tool)
  BY <1>2 DEF Ask, Decision, Retired
<1>3. CASE \E t \in Turns : \E answer \in {"allow", "deny", "abort", "failed"} : Answer(t, answer)
  BY <1>3 DEF Answer
<1>4. CASE NativeFrame
  BY <1>4 DEF NativeFrame, Emits, Frame
<1>5. CASE NativeToolResult
  BY <1>5 DEF NativeToolResult, Emits, Frame
<1>6. CASE OpenChecks \/ OpenConnects \/ OpenAdopts \/ OpenProbes \/ OpenUnwinds \/
            StartTurn \/ Drain \/ DrainFails \/ Query \/ Identify \/ IdentifyFails \/
            Publish
  BY <1>6 DEF OpenChecks, OpenConnects, OpenAdopts, OpenProbes, OpenUnwinds, StartTurn,
       Drain, DrainFails, Query, Identify, IdentifyFails, Publish
<1>7. CASE StreamBuffered \/ StreamLive \/ StreamStops \/ Conclude \/ Interrupt \/
            Cancel \/ StopAsks("gen") \/ StopAsks("intr") \/ StopDisconnects("gen") \/
            StopDisconnects("intr") \/ StopReaps("gen") \/ StopReaps("intr")
  BY <1>7 DEF StreamBuffered, StreamLive, StreamStops, Conclude, Interrupt, Cancel,
       StopAsks, StopDisconnects, StopReaps
<1>8. CASE CloseSession \/ CloseDisconnects \/ CloseReaps \/ NativeInit \/
            NativeResult \/ NativeDies
  BY <1>8 DEF CloseSession, CloseDisconnects, CloseReaps, NativeInit, NativeResult,
       NativeDies
<1> QED
  BY <1>1, <1>2, <1>3, <1>4, <1>5, <1>6, <1>7, <1>8, Steps

\* The client's stream carries messages.
LEMMA WireTypeStep == WireType /\ NativeType /\ [Next]_vars => WireType'
<1> SUFFICES ASSUME WireType /\ NativeType, [Next]_vars PROVE WireType'
  OBVIOUS
<1> USE DEF WireType
<1>1. CASE UNCHANGED vars
  BY <1>1 DEF vars, WireType
<1>2. CASE Drain \/ Identify \/ StreamLive
  BY <1>2, Reading, SeqTail DEF WireType
<1>3. CASE NativeInit
  BY <1>3, Frames, Emitting DEF NativeInit, Reports, WireType
<1>4. CASE NativeFrame
  BY <1>4, Frames, Emitting DEF NativeFrame, Kinds, WireType
<1>5. CASE NativeToolResult
  BY <1>5, Frames, Emitting DEF NativeToolResult, WireType
<1>6. CASE NativeResult
  BY <1>6, Frames, Emitting DEF NativeResult, Results, WireType
<1>7. CASE OpenChecks \/ OpenConnects \/ OpenAdopts \/ OpenProbes \/ OpenUnwinds \/
            StartTurn \/ DrainFails \/ Query \/ IdentifyFails \/ Publish \/
            StreamBuffered \/ StreamStops
  BY <1>7 DEF OpenChecks, OpenConnects, OpenAdopts, OpenProbes, OpenUnwinds, StartTurn,
       DrainFails, Query, IdentifyFails, Publish, StreamBuffered, StreamStops
<1>8. CASE Conclude \/ Interrupt \/ Cancel \/ StopAsks("gen") \/ StopAsks("intr") \/
            StopDisconnects("gen") \/ StopDisconnects("intr") \/ StopReaps("gen") \/
            StopReaps("intr") \/ CloseSession \/ CloseDisconnects \/ CloseReaps
  BY <1>8 DEF Conclude, Interrupt, Cancel, StopAsks, StopDisconnects, StopReaps,
       CloseSession, CloseDisconnects, CloseReaps
<1>9. CASE (\E t \in Turns : \E tool \in {"allowed", "denied"} : Ask(t, tool)) \/
            (\E t \in Turns : \E answer \in {"allow", "deny", "abort", "failed"} :
                Answer(t, answer)) \/
            NativeDies
  BY <1>9 DEF Ask, Answer, NativeDies
<1> QED
  BY <1>1, <1>2, <1>3, <1>4, <1>5, <1>6, <1>7, <1>8, <1>9, Steps

\* Each stopper is in one of its places.
LEMMA StopTypeStep == StopType /\ StateType /\ [Next]_vars => StopType'
<1> SUFFICES ASSUME StopType /\ StateType, [Next]_vars PROVE StopType'
  OBVIOUS
<1> USE DEF StopType, Callers
<1>1. CASE UNCHANGED vars
  BY <1>1 DEF vars
<1>2. CASE Drain \/ DrainFails \/ Query \/ Identify \/ IdentifyFails \/ Publish \/
             StreamBuffered \/ StreamLive \/ StreamStops \/ Conclude
  BY <1>2, Stoppages DEF Turn, GenStops, Asks
<1>3. CASE Cancel
  <2>1. \/ GenStops(FALSE, "cancelled")
        \/ stop' = [stop EXCEPT !["gen"].pc = "idle"]
        \/ stop' = [stop EXCEPT !["gen"].pc = "reaping"]
    BY <1>3 DEF Cancel
  <2>2. CASE GenStops(FALSE, "cancelled")
    BY <2>2 DEF GenStops, Asks
  <2>3. CASE stop' = [stop EXCEPT !["gen"].pc = "idle"]
    BY <2>3
  <2>4. CASE stop' = [stop EXCEPT !["gen"].pc = "reaping"]
    BY <2>4
  <2> QED BY <2>1, <2>2, <2>3, <2>4
<1>4. CASE StartTurn
  BY <1>4 DEF StartTurn, FreshTurn
<1>5. CASE Interrupt
  BY <1>5 DEF Interrupt, Asks, StateType
<1>6. CASE StopAsks("gen")
  BY <1>6 DEF StopAsks, Landed, Stopped, Idle, Show, Terminal
<1>7. CASE StopAsks("intr")
  BY <1>7 DEF StopAsks, Landed, Stopped
<1>8. CASE StopDisconnects("gen")
  BY <1>8 DEF StopDisconnects, Disconnects, Quiet
<1>9. CASE StopDisconnects("intr")
  BY <1>9 DEF StopDisconnects, Disconnects, Quiet
<1>10. CASE StopReaps("gen")
  BY <1>10 DEF StopReaps, Disconnects, Quiet, Stopped, Idle, Show, Terminal
<1>11. CASE StopReaps("intr")
  BY <1>11 DEF StopReaps, Disconnects, Quiet, Stopped
<1>12. CASE OpenChecks \/ OpenConnects \/ OpenAdopts \/ OpenProbes \/ OpenUnwinds \/
            CloseSession \/ CloseDisconnects \/ CloseReaps \/
            (\E t \in Turns : \E tool \in {"allowed", "denied"} : Ask(t, tool)) \/
            (\E t \in Turns : \E answer \in {"allow", "deny", "abort", "failed"} :
                Answer(t, answer)) \/
            NativeInit \/ NativeFrame
  BY <1>12 DEF OpenChecks, OpenConnects, OpenAdopts, OpenProbes, OpenUnwinds,
       CloseSession, CloseDisconnects, CloseReaps, Ask, Answer, NativeInit, NativeFrame
<1>13. CASE NativeToolResult \/ NativeResult \/ NativeDies
  BY <1>13 DEF NativeToolResult, NativeResult, NativeDies
<1> QED
  BY <1>1, <1>2, <1>3, <1>4, <1>5, <1>6, <1>7, <1>8, <1>9, <1>10, <1>11, <1>12, <1>13,
     Steps

\* Showing a message keeps the generator's type.
LEMMA EventsType ==
    ASSUME GenType, NEW m \in Message, Events(m) PROVE GenType'
<1>1. gen.buffer # <<>> => Tail(gen.buffer) \in Seq(Message)
  BY SeqTail DEF GenType
<1>2. m.arg \in Ends
  BY DEF Message, Ends
<1>3. CASE GenStops(TRUE, "raise")
  BY <1>3, GenStopsType, EndsOfTurns
<1>4. CASE gen' = [gen EXCEPT !.buffer = IF @ = <<>> THEN @ ELSE Tail(@),
                              !.pc = IF IsResult(m) THEN "concluding" ELSE @,
                              !.then = IF IsResult(m) THEN m.arg ELSE @]
  BY <1>1, <1>2, <1>4 DEF GenType, GenPlaces
<1> QED
  BY <1>3, <1>4 DEF Events

\* The generator is in one of its places, with messages in its buffer.
LEMMA GenTypeStep == GenType /\ WireType /\ [Next]_vars => GenType'
<1> SUFFICES ASSUME GenType /\ WireType, [Next]_vars PROVE GenType'
  OBVIOUS
<1>1. CASE UNCHANGED vars
  BY <1>1 DEF vars, GenType
<1>2. CASE Drain
  BY <1>2 DEF Drain, GenType, GenPlaces
<1>3. CASE DrainFails \/ IdentifyFails
  BY <1>3, GenStopsType, EndsOfTurns DEF DrainFails, IdentifyFails
<1>4. CASE StreamStops
  BY <1>4, GenStopsType, EndsOfTurns DEF StreamStops
<1>5. CASE Query
  <2>1. CASE GenStops(FALSE, "raise")
    BY <2>1, GenStopsType, EndsOfTurns
  <2>2. CASE gen' = [gen EXCEPT !.pc = "identifying"]
    BY <2>2 DEF GenType, GenPlaces
  <2> QED BY <1>5, <2>1, <2>2 DEF Query
<1>6. CASE Publish
  BY <1>6 DEF Publish, GenType, GenPlaces
<1>7. CASE StartTurn
  BY <1>7, EndsOfTurns DEF StartTurn, GenType, GenPlaces
<1>8. CASE Interrupt
  BY <1>8 DEF Interrupt, GenType
<1>9. CASE Cancel
  <2>1. CASE GenStops(FALSE, "cancelled")
    BY <2>1, GenStopsType, EndsOfTurns
  <2>2. CASE gen' = Idle(gen)
    BY <2>2, IdleType DEF GenType
  <2>3. CASE gen' = [gen EXCEPT !.then = "cancelled"]
    BY <2>3, EndsOfTurns DEF GenType
  <2> QED BY <1>9, <2>1, <2>2, <2>3 DEF Cancel
<1>10. CASE Conclude
  <2>1. CASE GenStops(TRUE, "raise")
    BY <2>1, GenStopsType, EndsOfTurns
  <2>2. CASE gen' = Idle(gen)
    BY <2>2, IdleType DEF GenType
  <2> QED BY <1>10, <2>1, <2>2 DEF Conclude
<1>11. CASE Identify
  <2>1. Head(wire) \in Message
    BY <1>11, Reading, SeqTail DEF WireType
  <2>2. CASE GenStops(TRUE, "raise")
    BY <2>2, GenStopsType, EndsOfTurns
  <2>3. CASE gen' = [gen EXCEPT !.buffer = Append(@, Head(wire)),
                                !.pc = IF Names(Head(wire)) THEN "publishing" ELSE @]
    <3>1. Append(gen.buffer, Head(wire)) \in Seq(Message) /\ "publishing" \in GenPlaces
      BY <2>1 DEF GenType, GenPlaces
    <3> QED BY <2>3, <3>1 DEF GenType
  <2> QED BY <1>11, <2>2, <2>3 DEF Identify
<1>12. CASE StreamBuffered
  <2>1. Head(gen.buffer) \in Message
    BY <1>12, SeqTail DEF StreamBuffered, GenType
  <2> QED BY <1>12, <2>1, EventsType DEF StreamBuffered
<1>13. CASE StreamLive
  <2>1. Head(wire) \in Message
    BY <1>13, Reading, SeqTail DEF WireType
  <2>2. CASE Events(Head(wire))
    BY <2>1, <2>2, EventsType
  <2>3. CASE GenStops(TRUE, "output_limit") \/ GenStops(TRUE, "raise")
    BY <2>3, GenStopsType, EndsOfTurns
  <2> QED BY <1>13, <2>2, <2>3 DEF StreamLive
<1>14. CASE StopAsks("gen") \/ StopReaps("gen")
  <2>1. gen' = gen \/ gen' = Idle(gen)
    BY <1>14 DEF StopAsks, StopReaps, Stopped
  <2> QED BY <2>1, IdleType DEF GenType
<1>15. CASE StopAsks("intr") \/ StopReaps("intr")
  BY <1>15 DEF StopAsks, StopReaps, Stopped, GenType
<1>16. CASE OpenChecks \/ OpenConnects \/ OpenAdopts \/ OpenProbes \/ OpenUnwinds \/
            StopDisconnects("gen") \/ StopDisconnects("intr") \/ CloseSession \/
            CloseDisconnects \/ CloseReaps \/
            (\E t \in Turns : \E tool \in {"allowed", "denied"} : Ask(t, tool)) \/
            (\E t \in Turns : \E answer \in {"allow", "deny", "abort", "failed"} :
                Answer(t, answer))
  BY <1>16 DEF GenType, OpenChecks, OpenConnects, OpenAdopts, OpenProbes, OpenUnwinds,
       StopDisconnects, CloseSession, CloseDisconnects, CloseReaps, Ask, Answer
<1>17. CASE NativeInit \/ NativeFrame \/ NativeToolResult \/ NativeResult \/ NativeDies
  BY <1>17 DEF GenType, NativeInit, NativeFrame, NativeToolResult, NativeResult, NativeDies
<1> QED
  BY <1>1, <1>2, <1>3, <1>4, <1>5, <1>6, <1>7, <1>8, <1>9, <1>10, <1>11, <1>12, <1>13,
     <1>14, <1>15, <1>16, <1>17, Steps

\* Showing a message keeps the type of the turn's state.
LEMMA EventsState ==
    ASSUME StateType, NEW m \in Message, Events(m) PROVE StateType'
<1>1. <<>> \in Seq(Nat) /\ FALSE \in BOOLEAN
  OBVIOUS
<1>2. CASE state' = [state EXCEPT !.defect = FALSE,
                                  !.pending = IF state.defect THEN @ ELSE <<>>]
  BY <1>1, <1>2 DEF StateType
<1>3. CASE state' = Decoded(state, m)
  <2>1. m.kind = "tool" => state.tools \cup {m.arg} \in SUBSET {"tool"}
    BY DEF StateType, Message
  <2>2. (state.quota \/ m.kind = "limit") \in BOOLEAN
    OBVIOUS
  <2>3. state' = [state EXCEPT !.pending = <<>>, !.tools = state'.tools,
                               !.quota = state'.quota]
        /\ state'.tools \in SUBSET {"tool"} /\ state'.quota \in BOOLEAN
    BY <1>3, <2>1, <2>2 DEF Decoded, StateType
  <2> QED BY <1>1, <2>3 DEF StateType
<1> QED
  BY <1>2, <1>3 DEF Events

\* The turn's state keeps its type.
LEMMA StateTypeStep == StateType /\ WireType /\ GenType /\ [Next]_vars => StateType'
<1> SUFFICES ASSUME StateType /\ WireType /\ GenType, [Next]_vars PROVE StateType'
  OBVIOUS
<1>1. CASE UNCHANGED vars
  BY <1>1 DEF vars, StateType
<1>2. CASE OpenProbes
  BY <1>2 DEF OpenProbes, McpDiagnosed, StateType
<1>3. CASE StartTurn
  <2>1. <<>> \in Seq(Nat)
    OBVIOUS
  <2> QED BY <1>3, <2>1 DEF StartTurn, FreshTurn, StateType
<1>4. CASE Drain
  BY <1>4 DEF Drain, StateType
<1>5. CASE Query
  BY <1>5 DEF Query, StateType
<1>6. CASE Identify
  <2>1. Names(Head(wire)) \in BOOLEAN
    BY DEF Names
  <2> QED BY <1>6, <2>1 DEF Identify, StateType
<1>7. CASE Publish
  BY <1>7 DEF Publish, StateType
<1>8. CASE StreamBuffered
  <2>1. Head(gen.buffer) \in Message
    BY <1>8, SeqTail DEF StreamBuffered, GenType
  <2> QED BY <1>8, <2>1, EventsState DEF StreamBuffered
<1>9. CASE StreamLive
  <2>1. Head(wire) \in Message
    BY <1>9, Reading, SeqTail DEF WireType
  <2>2. CASE Events(Head(wire))
    BY <2>1, <2>2, EventsState
  <2>3. CASE UNCHANGED state
    BY <2>3 DEF StateType
  <2> QED BY <1>9, <2>2, <2>3 DEF StreamLive
<1>10. CASE Conclude
  <2>1. <<>> \in Seq(Nat)
    OBVIOUS
  <2> QED BY <1>10, <2>1 DEF Conclude, StateType
<1>11. CASE StopAsks("gen") \/ StopAsks("intr")
  BY <1>11 DEF StopAsks, Landed, StateType
<1>12. CASE \E t \in Turns : \E tool \in {"allowed", "denied"} : Ask(t, tool)
  <2>1. \A t \in Turns : Append(state.pending, t) \in Seq(Nat)
    BY DEF StateType, Turns
  <2> QED BY ZenonT(40), <1>12, <2>1 DEF Ask, StateType
<1>13. CASE \E t \in Turns : \E answer \in {"allow", "deny", "abort", "failed"} : Answer(t, answer)
  <2>1. PICK t \in Turns, answer \in {"allow", "deny", "abort", "failed"} : Answer(t, answer)
    BY <1>13
  <2>2. /\ Append(state.pending, t) \in Seq(Nat)
        /\ (state.failed \/ answer = "failed") \in BOOLEAN
        /\ (state.aborted \/ answer = "abort") \in BOOLEAN
    BY DEF StateType, Turns
  <2> QED BY <2>1, <2>2 DEF Answer, StateType
<1>14. CASE OpenChecks \/ OpenConnects \/ OpenAdopts \/ OpenUnwinds \/ DrainFails \/
            IdentifyFails \/ StreamStops \/ Interrupt \/ Cancel \/
            StopDisconnects("gen") \/ StopDisconnects("intr") \/ StopReaps("gen")
  BY <1>14 DEF StateType, OpenChecks, OpenConnects, OpenAdopts, OpenUnwinds, DrainFails,
       IdentifyFails, StreamStops, Interrupt, Cancel, StopDisconnects, StopReaps
<1>15. CASE StopReaps("intr") \/ CloseSession \/ CloseDisconnects \/ CloseReaps \/
            NativeInit \/ NativeFrame \/ NativeToolResult \/ NativeResult \/ NativeDies
  BY <1>15 DEF StateType, StopReaps, CloseSession, CloseDisconnects, CloseReaps, NativeInit,
       NativeFrame, NativeToolResult, NativeResult, NativeDies
<1> QED
  BY <1>1, <1>2, <1>3, <1>4, <1>5, <1>6, <1>7, <1>8, <1>9, <1>10, <1>11, <1>12, <1>13,
     <1>14, <1>15, Steps

\* What is told of the decisions, and of a message, are events.
LEMMA ApprovalsAreEvents ==
    StateType => Approvals(state) \in Seq(ShownEvent)
<1> SUFFICES ASSUME StateType PROVE Approvals(state) \in Seq(ShownEvent)
  OBVIOUS
<1>1. \A t \in Nat : [of |-> t, kind |-> "approval"] \in ShownEvent
  BY DEF ShownEvent
<1>2. state.pending \in Seq(Nat)
  BY DEF StateType
<1> QED
  BY <1>1, <1>2 DEF Approvals

\* So is what is told of a message.
LEMMA Telling ==
    /\ \A m \in Message : Event(m) \in ShownEvent
    /\ \A t \in Nat : \A status \in Statuses \cup {"startup"} : Terminal(t, status) \in ShownEvent
BY DEF Event, Terminal, Message, ShownEvent

\* Showing events keeps the stream a sequence of events.
LEMMA Showing ==
    ASSUME ShownType, NEW events \in Seq(ShownEvent), Show(events) PROVE ShownType'
BY DEF Show, ShownType

\* So does showing what a message says.
LEMMA EventsShown ==
    ASSUME ShownType, StateType, NEW m \in Message, Events(m) PROVE ShownType'
<1>1. <<Event(m)>> \in Seq(ShownEvent) /\ <<>> \in Seq(ShownEvent)
  BY Telling
<1>2. Told(state, m) \in Seq(ShownEvent)
  BY <1>1, ApprovalsAreEvents DEF Told
<1>3. PICK events \in {Told(state, m), Approvals(state), <<>>} : shown' = shown \o events
  BY DEF Events, Show
<1>4. events \in Seq(ShownEvent)
  BY <1>1, <1>2, ApprovalsAreEvents
<1> QED
  BY <1>3, <1>4 DEF ShownType

\* A stream is a sequence of events.
LEMMA ShownTypeStep == ShownType /\ StateType /\ WireType /\ GenType /\ [Next]_vars => ShownType'
<1> SUFFICES ASSUME ShownType /\ StateType /\ WireType /\ GenType, [Next]_vars PROVE ShownType'
  OBVIOUS
<1>1. CASE UNCHANGED vars
  BY <1>1 DEF vars, ShownType
<1>2. CASE StartTurn
  BY <1>2 DEF StartTurn, ShownType
<1>3. CASE Publish
  <2>1. Terminal(gen.turn, "startup") \in ShownEvent
    BY Telling DEF GenType
  <2>2. <<>> \in Seq(ShownEvent) /\ <<Terminal(gen.turn, "startup")>> \in Seq(ShownEvent)
    BY <2>1
  <2> QED BY <1>3, <2>2 DEF Publish, Show, ShownType
<1>4. CASE StreamBuffered
  <2>1. Head(gen.buffer) \in Message
    BY <1>4, SeqTail DEF StreamBuffered, GenType
  <2> QED BY <1>4, <2>1, EventsShown DEF StreamBuffered
<1>5. CASE StreamLive
  <2>1. Head(wire) \in Message
    BY <1>5, Reading, SeqTail DEF WireType
  <2>2. CASE Events(Head(wire))
    BY <2>1, <2>2, EventsShown
  <2>3. CASE UNCHANGED shown
    BY <2>3 DEF ShownType
  <2> QED BY <1>5, <2>2, <2>3 DEF StreamLive
<1>6. CASE Conclude
  <2>1. TerminalStatus(state, gen.then) \in Statuses
    BY DEF TerminalStatus, Statuses
  <2>2. Terminal(gen.turn, TerminalStatus(state, gen.then)) \in ShownEvent
    BY <2>1, Telling DEF GenType
  <2>3. Approvals(state) \o <<Terminal(gen.turn, TerminalStatus(state, gen.then))>>
            \in Seq(ShownEvent)
    BY <2>2, ApprovalsAreEvents
  <2> QED BY <1>6, <2>3, Showing DEF Conclude, ShownType
<1>7. CASE StopAsks("gen") \/ StopReaps("gen")
  <2>1. \/ UNCHANGED shown
        \/ /\ gen.then \in {"output_limit", "backend_failed"}
           /\ Show(<<Terminal(gen.turn, gen.then)>>)
    BY <1>7 DEF StopAsks, StopReaps, Stopped
  <2>2. gen.then \in {"output_limit", "backend_failed"} =>
            Terminal(gen.turn, gen.then) \in ShownEvent
    BY Telling DEF GenType, Statuses
  <2> QED BY <2>1, <2>2 DEF Show, ShownType
<1>8. CASE StopAsks("intr") \/ StopReaps("intr")
  BY <1>8 DEF StopAsks, StopReaps, Stopped, ShownType
<1>9. CASE OpenChecks \/ OpenConnects \/ OpenAdopts \/ OpenProbes \/ OpenUnwinds \/
            Drain \/ DrainFails \/ Query \/ Identify \/ IdentifyFails \/ StreamStops \/
            Interrupt
  BY <1>9 DEF ShownType, OpenChecks, OpenConnects, OpenAdopts, OpenProbes, OpenUnwinds, Drain,
       DrainFails, Query, Identify, IdentifyFails, StreamStops, Interrupt
<1>10. CASE Cancel \/ StopDisconnects("gen") \/ StopDisconnects("intr") \/
            CloseSession \/ CloseDisconnects \/ CloseReaps \/
            (\E t \in Turns : \E tool \in {"allowed", "denied"} : Ask(t, tool)) \/
            (\E t \in Turns : \E answer \in {"allow", "deny", "abort", "failed"} :
                Answer(t, answer)) \/
            NativeInit \/ NativeFrame \/ NativeToolResult \/ NativeResult
  BY <1>10 DEF ShownType, Cancel, StopDisconnects, CloseSession, CloseDisconnects, CloseReaps, Ask,
       Answer, NativeInit, NativeFrame, NativeToolResult, NativeResult
<1>11. CASE NativeDies
  BY <1>11 DEF ShownType, NativeDies
<1> QED
  BY <1>1, <1>2, <1>3, <1>4, <1>5, <1>6, <1>7, <1>8, <1>9, <1>10, <1>11, Steps

\* The eight together.
LEMMA TypeStep == TypeOK /\ [Next]_vars => TypeOK'
BY SessionTypeStep, NativeTypeStep, WireTypeStep, StateTypeStep, CallTypeStep, GenTypeStep,
   StopTypeStep, ShownTypeStep DEF TypeOK

-----------------------------------------------------------------------------
(* What the operators the actions share leave, field by field.              *)

\* A turn that stops keeps its number and has nothing buffered.
LEMMA GenStopsFields ==
    ASSUME GenType, StopType, NEW force \in BOOLEAN, NEW then, GenStops(force, then)
    PROVE  /\ gen'.pc = "stopping" /\ gen'.buffer = <<>> /\ gen'.then = then
           /\ gen'.turn = gen.turn /\ gen'.stopped = gen.stopped
           /\ stop'["gen"].pc = "asking" /\ stop'["intr"] = stop["intr"]
BY DEF GenType, StopType, Callers, GenStops, Asks

\* Showing a message ends in a stop or goes on with the rest of the buffer.
LEMMA EventsFields ==
    ASSUME GenType, StopType, StateType, NEW m \in Message, Events(m)
    PROVE  /\ gen'.turn = gen.turn /\ gen'.stopped = gen.stopped
           /\ stop'["intr"] = stop["intr"]
           /\ state'.drain = state.drain /\ state'.flight = state.flight
           /\ state'.named = state.named
           /\ \/ /\ gen'.pc = "stopping" /\ gen'.buffer = <<>> /\ gen'.then = "raise"
                 /\ stop'["gen"].pc = "asking"
                 /\ state.defect \/ Refuses(m)
                 /\ Show(IF state.defect THEN <<>> ELSE Approvals(state))
              \/ /\ gen'.pc = IF IsResult(m) THEN "concluding" ELSE gen.pc
                 /\ gen'.buffer = IF gen.buffer = <<>> THEN gen.buffer ELSE Tail(gen.buffer)
                 /\ UNCHANGED stop
                 /\ ~ state.defect /\ ~ Refuses(m)
                 /\ Show(Told(state, m))
                 /\ state'.defect = state.defect /\ state'.pending = <<>>
<1>1. CASE state.defect \/ Refuses(m)
  <2>1. /\ GenStops(TRUE, "raise")
        /\ Show(IF state.defect THEN <<>> ELSE Approvals(state))
        /\ state' = [state EXCEPT !.defect = FALSE,
                                  !.pending = IF state.defect THEN @ ELSE <<>>]
    BY <1>1 DEF Events
  <2>2. /\ state'.drain = state.drain /\ state'.flight = state.flight
        /\ state'.named = state.named
    BY <2>1 DEF StateType
  <2> QED BY <1>1, <2>1, <2>2, GenStopsFields
<1>2. CASE ~ (state.defect \/ Refuses(m))
  <2>1. /\ Show(Told(state, m)) /\ state' = Decoded(state, m) /\ UNCHANGED stop
        /\ gen' = [gen EXCEPT !.buffer = IF @ = <<>> THEN @ ELSE Tail(@),
                              !.pc = IF IsResult(m) THEN "concluding" ELSE @,
                              !.then = IF IsResult(m) THEN m.arg ELSE @]
    BY <1>2 DEF Events
  <2>2. /\ gen'.turn = gen.turn /\ gen'.stopped = gen.stopped
        /\ gen'.pc = IF IsResult(m) THEN "concluding" ELSE gen.pc
        /\ gen'.buffer = IF gen.buffer = <<>> THEN gen.buffer ELSE Tail(gen.buffer)
    BY <2>1 DEF GenType
  <2>3. /\ state'.drain = state.drain /\ state'.flight = state.flight
        /\ state'.named = state.named /\ state'.defect = state.defect
        /\ state'.pending = <<>>
    BY <2>1 DEF StateType, Decoded
  <2> QED BY <1>2, <2>1, <2>2, <2>3
<1> QED BY <1>1, <1>2

\* A stopper that has stopped, and the turn it ended if the generator is one.
LEMMA StoppedFields ==
    ASSUME GenType, StopType, NEW c \in Callers, Stopped(c)
    PROVE  /\ \A d \in Callers \ {c} : stop'[d] = stop[d]
           /\ c = "intr" => stop'[c].pc = "returned" /\ UNCHANGED <<gen, shown>>
           /\ c = "gen" =>
                 /\ stop'[c].pc = "idle"
                 /\ gen'.pc = "idle" /\ gen'.buffer = <<>>
                 /\ gen'.turn = gen.turn /\ gen'.stopped = gen.stopped
                 /\ \/ UNCHANGED shown
                    \/ /\ gen.then \in {"output_limit", "backend_failed"}
                       /\ Show(<<Terminal(gen.turn, gen.then)>>)
BY DEF GenType, StopType, Callers, Stopped, Idle

\* Asking the CLI to stop leads to a disconnect, or to a tail to drain.
LEMMA AsksFields ==
    ASSUME GenType, StopType, StateType, NEW c \in Callers, StopAsks(c)
    PROVE  /\ native' = native \/ native' = [native EXCEPT !.stopping = native.turn # 0]
           /\ stop[c].pc = "asking"
           /\ state'.flight = state.flight /\ state'.named = state.named
           /\ state'.defect = state.defect /\ state'.pending = state.pending
           /\ \/ /\ UNCHANGED <<state, gen, shown>>
                 /\ stop'[c].pc = "disconnecting"
                 /\ \A d \in Callers \ {c} : stop'[d] = stop[d]
              \/ /\ ~ stop[c].force /\ state'.drain = state.flight
                 /\ Stopped(c)
<1>1. CASE UNCHANGED <<state, gen, shown>> /\ stop' = [stop EXCEPT ![c].pc = "disconnecting"]
  BY <1>1 DEF StopAsks, StopType, Callers
<1>2. CASE ~ stop[c].force /\ state' = Landed(state) /\ Stopped(c)
  BY <1>2 DEF StopAsks, StateType, Landed
<1> QED
  BY <1>1, <1>2 DEF StopAsks

\* A result is the last message of its stream.
LEMMA OnlyOne ==
    ASSUME NEW S, NEW s \in Seq(S), s # <<>>, Len(s) = 1 PROVE Tail(s) = <<>>
<1>1. Tail(s) \in Seq(S) /\ Len(Tail(s)) = 0
  BY SeqTail
<1>2. Len(Tail(s)) \notin Nat \ {0}
  BY <1>1
<1> QED BY <1>1, <1>2, EmptySeq

\* So a stream that begins with a result is done with it.
LEMMA LastOfStream ==
    ASSUME WireType, OwnWire, wire # <<>>, IsResult(Head(wire))
    PROVE  Tail(wire) = <<>> /\ native.turn = 0
<1>1. 1 \in DOMAIN wire /\ Head(wire) = wire[1]
  BY SeqTail DEF WireType
<1>2. Len(wire) = 1 /\ native.turn = 0
  BY <1>1 DEF OwnWire
<1> QED BY <1>2, OnlyOne DEF WireType

\* So is a buffer.
LEMMA LastOfBuffer ==
    ASSUME GenType, OwnBuffer, gen.buffer # <<>>, IsResult(Head(gen.buffer))
    PROVE  Tail(gen.buffer) = <<>> /\ Clean
<1>0. gen.buffer \in Seq(Message)
  BY DEF GenType
<1>1. 1 \in DOMAIN gen.buffer /\ Head(gen.buffer) = gen.buffer[1]
  BY <1>0, SeqTail
<1>2. Len(gen.buffer) = 1 /\ Clean
  BY <1>1 DEF OwnBuffer
<1> QED BY <1>0, <1>2, OnlyOne

\* A client that is gone, or a CLI that was killed, sends no more.
LEMMA QuietFields ==
    ASSUME NativeType PROVE Quiet(native).turn = 0 /\ ~ Quiet(native).stopping
BY DEF NativeType, Quiet

-----------------------------------------------------------------------------
(* The session's life, the stoppers, the turn in flight and whose it is: one *)
(* case per action, under each what it disturbs.                            *)

\* A session is released when its processes are reaped.
LEMMA ReleasedStep == Inv /\ [Next]_vars => Released'
<1> SUFFICES ASSUME Inv, [Next]_vars PROVE Released'
  OBVIOUS
<1> USE DEF Inv, Released, ReleasedIsReaped, Opening, TypeOK, SessionType, GenType,
       StopType, StateType, Callers
<1>1. CASE UNCHANGED vars
  BY <1>1 DEF vars
<1>2. CASE Open
  BY <1>2 DEF Open, OpenChecks, OpenConnects, OpenAdopts, OpenProbes, OpenUnwinds, Unwound
<1>3. CASE StartTurn
  BY <1>3 DEF StartTurn, FreshTurn
<1>4. CASE Drain
  BY <1>4 DEF Drain, Readable, IsResult
<1>5. CASE DrainFails \/ IdentifyFails \/ StreamStops
  BY <1>5 DEF DrainFails, GenStops, Asks, IdentifyFails, StreamFails, StreamEnds, Readable,
       StreamStops
<1>6. CASE Query
  BY <1>6 DEF Query, GenStops, Asks
<1>7. CASE Identify
  BY <1>7 DEF Identify, Readable, Names, GenStops, Asks
<1>8. CASE Publish
  BY <1>8 DEF Publish, Show, Terminal
<1>9. CASE StreamBuffered
  BY <1>9 DEF StreamBuffered, Events, Told, Decoded, Show, IsResult, GenStops, Asks
<1>10. CASE StreamLive
  BY <1>10 DEF StreamLive, Events, Told, Decoded, Show, IsResult, Readable, GenStops,
       Asks
<1>11. CASE Conclude
  BY <1>11 DEF Conclude, Show, Terminal, Idle, GenStops, Asks
<1>12. CASE Interrupt
  BY <1>12 DEF Interrupt, Asks
<1>13. CASE Cancel
  BY <1>13 DEF Cancel, Idle, GenStops, Asks
<1>14. CASE StopAsks("gen") \/ StopAsks("intr")
  BY <1>14 DEF StopAsks, Landed, Stopped, Idle, Show, Terminal
<1>15. CASE StopDisconnects("gen") \/ StopDisconnects("intr")
  BY <1>15 DEF StopDisconnects, Disconnects, Quiet, Stopping
<1>16. CASE StopReaps("gen") \/ StopReaps("intr")
  BY <1>16 DEF StopReaps, Disconnects, Quiet, Stopped, Idle, Show, Terminal
<1>17. CASE CloseSession \/ CloseDisconnects \/ CloseReaps
  BY <1>17 DEF CloseSession, CloseDisconnects, Disconnects, Quiet, CloseReaps
<1>18. CASE \E t \in Turns : \E tool \in {"allowed", "denied"} : Ask(t, tool)
  BY ZenonT(40), <1>18 DEF Ask, Decision, Retired
<1>19. CASE \E t \in Turns : \E answer \in {"allow", "deny", "abort", "failed"} : Answer(t, answer)
  BY <1>19 DEF Answer
<1>20. CASE Native
  BY <1>20 DEF Native, NativeInit, Emits, Frame, NativeFrame, NativeToolResult, NativeResult,
       Quiet, NativeDies
<1> QED
  BY <1>1, <1>2, <1>3, <1>4, <1>5, <1>6, <1>7, <1>8, <1>9, <1>10, <1>11, <1>12, <1>13,
     <1>14, <1>15, <1>16, <1>17, <1>18, <1>19, <1>20, Steps DEF Open, Native

\* An interrupt that returned took the session or left a tail it remembers.
LEMMA StoppingStep == Inv /\ [Next]_vars => Stopping'
<1> SUFFICES ASSUME Inv, [Next]_vars PROVE Stopping'
  OBVIOUS
<1> USE DEF Inv, TypeOK, Stopping, Released, Opening
<1>1. CASE UNCHANGED vars
  BY <1>1 DEF vars
<1>2. CASE Open
  BY <1>2 DEF Open, OpenChecks, GenType, StateType, StopType, Callers, OpenConnects,
       OpenAdopts, OpenProbes, OpenUnwinds, Unwound
<1>3. CASE StartTurn
  BY <1>3 DEF StartTurn, FreshTurn, GenType, StateType, StopType, Callers
<1>4. CASE Drain
  BY <1>4 DEF Drain, Readable, IsResult, GenType, StateType, StopType, Callers
<1>5. CASE DrainFails \/ IdentifyFails \/ StreamStops
  BY <1>5, GenStopsFields DEF DrainFails, IdentifyFails, StreamStops
<1>6. CASE Query
  <2>1. CASE GenStops(FALSE, "raise") /\ UNCHANGED <<native, state>>
    BY <1>6, <2>1, GenStopsFields DEF Query
  <2>2. CASE state' = [state EXCEPT !.flight = TRUE] /\ UNCHANGED stop
            /\ gen' = [gen EXCEPT !.pc = "identifying"]
    BY <1>6, <2>2 DEF Query, GenType, StateType
  <2> QED BY <1>6, <2>1, <2>2 DEF Query
<1>7. CASE Identify
  <2>1. CASE GenStops(TRUE, "raise") /\ UNCHANGED state
    BY <1>7, <2>1, GenStopsFields DEF Identify
  <2>2. CASE /\ state' = [state EXCEPT !.known = TRUE, !.named = Names(Head(wire))]
             /\ gen' = [gen EXCEPT !.buffer = Append(@, Head(wire)),
                                   !.pc = IF Names(Head(wire)) THEN "publishing" ELSE @]
             /\ UNCHANGED stop
    <3>1. /\ gen'.pc = IF Names(Head(wire)) THEN "publishing" ELSE gen.pc
          /\ gen'.stopped = gen.stopped
      BY <2>2 DEF GenType
    <3>2. /\ state'.named = Names(Head(wire)) /\ state'.drain = state.drain
          /\ state'.flight = state.flight
      BY <2>2 DEF StateType
    <3> QED BY <1>7, <2>2, <3>1, <3>2 DEF Identify
  <2> QED BY <1>7, <2>1, <2>2 DEF Identify
<1>8. CASE Publish
  BY <1>8 DEF Publish, Show, Terminal, GenType, StateType, StopType, Callers
<1>9. CASE StreamBuffered
  <2>1. Head(gen.buffer) \in Message /\ Events(Head(gen.buffer))
    BY <1>9, SeqTail DEF StreamBuffered, GenType
  <2> QED BY <1>9, <2>1, EventsFields DEF StreamBuffered
<1>10. CASE StreamLive
  <2>1. Head(wire) \in Message
    BY <1>10, Reading, SeqTail DEF WireType
  <2>2. CASE Events(Head(wire))
    BY <1>10, <2>1, <2>2, EventsFields DEF StreamLive
  <2>3. CASE (GenStops(TRUE, "output_limit") \/ GenStops(TRUE, "raise")) /\ UNCHANGED state
    BY <1>10, <2>3, GenStopsFields DEF StreamLive
  <2> QED BY <1>10, <2>2, <2>3 DEF StreamLive
<1>11. CASE Conclude
  <2>1. CASE GenStops(TRUE, "raise") /\ state' = [state EXCEPT !.flight = FALSE, !.defect = FALSE]
    BY <1>11, <2>1, GenStopsFields DEF Conclude, StateType
  <2>2. CASE /\ gen' = Idle(gen) /\ UNCHANGED stop
             /\ state' = [state EXCEPT !.flight = FALSE, !.pending = <<>>]
    BY <1>11, <2>2 DEF Conclude, Idle, StateType, GenType
  <2> QED BY <1>11, <2>1, <2>2 DEF Conclude
<1>12. CASE Interrupt
  BY <1>12 DEF Interrupt, Asks, GenType, StateType, StopType, Callers
<1>13. CASE Cancel
  <2>1. CASE GenStops(FALSE, "cancelled")
    BY <1>13, <2>1, GenStopsFields DEF Cancel
  <2>2. CASE gen' = Idle(gen) /\ stop' = [stop EXCEPT !["gen"].pc = "idle"]
    BY <1>13, <2>2 DEF Cancel, Idle, GenType, StopType, Callers
  <2>3. CASE /\ gen.pc = "stopping" /\ gen' = [gen EXCEPT !.then = "cancelled"]
             /\ stop' = [stop EXCEPT !["gen"].pc = "reaping"]
    BY <1>13, <2>3 DEF Cancel, GenType, StopType, Callers
  <2> QED BY <1>13, <2>1, <2>2, <2>3 DEF Cancel
<1>14. CASE StopAsks("gen") \/ StopAsks("intr")
  <2> "gen" \in Callers /\ "intr" \in Callers
    BY DEF Callers
  <2> QED BY <1>14, AsksFields, StoppedFields DEF StopAsks
<1>15. CASE StopDisconnects("gen")
  BY <1>15 DEF StopDisconnects, Disconnects, Quiet, GenType, StateType, StopType,
       Callers
<1>16. CASE StopDisconnects("intr")
  BY <1>16 DEF StopDisconnects, Disconnects, Quiet, GenType, StateType, StopType,
       Callers
<1>17. CASE StopReaps("gen") \/ StopReaps("intr")
  <2> "gen" \in Callers /\ "intr" \in Callers
    BY DEF Callers
  <2> QED BY <1>17, StoppedFields DEF StopReaps
<1>18. CASE CloseSession \/ CloseDisconnects \/ CloseReaps
  BY <1>18 DEF CloseSession, GenType, StateType, StopType, Callers, CloseDisconnects,
       Disconnects, Quiet, CloseReaps
<1>19. CASE \E t \in Turns : \E tool \in {"allowed", "denied"} : Ask(t, tool)
  <2>1. state'.drain = state.drain /\ state'.flight = state.flight /\ state'.named = state.named
    BY <1>19 DEF Ask, StateType
  <2> QED BY <1>19, <2>1 DEF Ask
<1>20. CASE \E t \in Turns : \E answer \in {"allow", "deny", "abort", "failed"} : Answer(t, answer)
  <2>1. state'.drain = state.drain /\ state'.flight = state.flight /\ state'.named = state.named
    BY <1>20 DEF Answer, StateType
  <2> QED BY <1>20, <2>1 DEF Answer
<1>21. CASE Native
  BY <1>21 DEF Native, NativeInit, Emits, Frame, GenType, StateType, StopType, Callers,
       NativeFrame, NativeToolResult, NativeResult, Quiet, NativeDies
<1> QED
  BY <1>1, <1>2, <1>3, <1>4, <1>5, <1>6, <1>7, <1>8, <1>9, <1>10, <1>11, <1>12, <1>13,
     <1>14, <1>15, <1>16, <1>17, <1>18, <1>19, <1>20, <1>21, Steps DEF Open, Native

\* When no turn is in flight nothing of one is left; a tail is drained first.
LEMMA FlightStep == Inv /\ [Next]_vars => Flight'
<1> SUFFICES ASSUME Inv, [Next]_vars PROVE Flight'
  OBVIOUS
<1> USE DEF Inv, TypeOK, Flight, Clean, Stopping, Released, Opening, Own
<1>1. CASE UNCHANGED vars
  BY <1>1 DEF vars
<1>2. CASE Open
  BY <1>2 DEF Open, OpenChecks, GenType, StateType, StopType, Callers, NativeType,
       OpenConnects, OpenAdopts, OpenProbes, OpenUnwinds, Unwound
<1>3. CASE StartTurn
  BY <1>3 DEF StartTurn, FreshTurn, GenType, StateType, StopType, Callers, NativeType
<1>4. CASE Drain
  <2>1. CASE ~ IsResult(Head(wire)) /\ UNCHANGED <<state, gen>>
    BY <1>4, <2>1 DEF Drain, Readable
  <2>2. CASE /\ IsResult(Head(wire))
             /\ state' = [state EXCEPT !.drain = FALSE, !.flight = FALSE]
             /\ gen' = [gen EXCEPT !.pc = "querying"]
    BY <1>4, <2>2, LastOfStream DEF Drain, Readable, StateType, GenType
  <2> QED BY <1>4, <2>1, <2>2 DEF Drain
<1>5. CASE DrainFails \/ IdentifyFails \/ StreamStops
  BY <1>5, GenStopsFields DEF DrainFails, IdentifyFails, StreamStops
<1>6. CASE Query
  <2>1. CASE GenStops(FALSE, "raise") /\ UNCHANGED <<native, state>>
    BY <1>6, <2>1, GenStopsFields DEF Query
  <2>2. CASE state' = [state EXCEPT !.flight = TRUE] /\ UNCHANGED stop
            /\ gen' = [gen EXCEPT !.pc = "identifying"]
    BY <1>6, <2>2 DEF Query, GenType, StateType
  <2> QED BY <1>6, <2>1, <2>2 DEF Query
<1>7. CASE Identify
  <2>1. CASE GenStops(TRUE, "raise") /\ UNCHANGED state
    BY <1>7, <2>1, GenStopsFields DEF Identify, Readable
  <2>2. CASE /\ state' = [state EXCEPT !.known = TRUE, !.named = Names(Head(wire))]
             /\ gen' = [gen EXCEPT !.buffer = Append(@, Head(wire)),
                                   !.pc = IF Names(Head(wire)) THEN "publishing" ELSE @]
             /\ UNCHANGED stop
    <3>1. /\ gen'.pc = IF Names(Head(wire)) THEN "publishing" ELSE gen.pc
          /\ gen'.stopped = gen.stopped
      BY <2>2 DEF GenType
    <3>2. /\ state'.named = Names(Head(wire)) /\ state'.drain = state.drain
          /\ state'.flight = state.flight
      BY <2>2 DEF StateType
    <3> QED BY <1>7, <2>2, <3>1, <3>2 DEF Identify, Readable
  <2> QED BY <1>7, <2>1, <2>2 DEF Identify
<1>8. CASE Publish
  BY <1>8 DEF Publish, Show, Terminal, GenType, StateType, StopType, Callers,
       NativeType
<1>9. CASE StreamBuffered
  <2>1. Head(gen.buffer) \in Message /\ Events(Head(gen.buffer))
    BY <1>9, SeqTail DEF StreamBuffered, GenType
  <2> QED BY <1>9, <2>1, EventsFields, LastOfBuffer DEF StreamBuffered
<1>10. CASE StreamLive
  <2>1. Head(wire) \in Message
    BY <1>10, Reading, SeqTail DEF WireType
  <2>2. CASE Events(Head(wire))
    BY <1>10, <2>1, <2>2, EventsFields, LastOfStream DEF Readable, StreamLive
  <2>3. CASE (GenStops(TRUE, "output_limit") \/ GenStops(TRUE, "raise")) /\ UNCHANGED state
    BY <1>10, <2>3, GenStopsFields DEF StreamLive
  <2> QED BY <1>10, <2>2, <2>3 DEF StreamLive
<1>11. CASE Conclude
  <2>1. CASE GenStops(TRUE, "raise") /\ state' = [state EXCEPT !.flight = FALSE, !.defect = FALSE]
    BY <1>11, <2>1, GenStopsFields DEF Conclude, StateType
  <2>2. CASE /\ gen' = Idle(gen) /\ UNCHANGED stop
             /\ state' = [state EXCEPT !.flight = FALSE, !.pending = <<>>]
    BY <1>11, <2>2 DEF Conclude, Idle, StateType, GenType
  <2> QED BY <1>11, <2>1, <2>2 DEF Conclude
<1>12. CASE Interrupt
  BY <1>12 DEF Interrupt, Asks, GenType, StateType, StopType, Callers, NativeType,
       Stopping
<1>13. CASE Cancel
  <2>1. CASE GenStops(FALSE, "cancelled")
    BY <1>13, <2>1, GenStopsFields DEF Cancel
  <2>2. CASE gen' = Idle(gen) /\ stop' = [stop EXCEPT !["gen"].pc = "idle"]
    BY <1>13, <2>2 DEF Cancel, Idle, GenType, StopType, Callers
  <2>3. CASE /\ gen.pc = "stopping" /\ gen' = [gen EXCEPT !.then = "cancelled"]
             /\ stop' = [stop EXCEPT !["gen"].pc = "reaping"]
    BY <1>13, <2>3 DEF Cancel, GenType, StopType, Callers
  <2> QED BY <1>13, <2>1, <2>2, <2>3 DEF Cancel
<1>14. CASE StopAsks("gen") \/ StopAsks("intr")
  <2> "gen" \in Callers /\ "intr" \in Callers
    BY DEF Callers
  <2> QED BY <1>14, AsksFields, StoppedFields DEF StopAsks, NativeType
<1>15. CASE StopDisconnects("gen") \/ StopDisconnects("intr")
  BY <1>15 DEF StopDisconnects, Disconnects, Quiet, GenType, StateType, StopType, Callers,
       NativeType
<1>16. CASE StopReaps("gen")
  <2> "gen" \in Callers /\ "intr" \in Callers
    BY DEF Callers
  <2> QED BY <1>16, StoppedFields DEF StopReaps, Disconnects, Quiet
<1>17. CASE StopReaps("intr")
  <2> "gen" \in Callers /\ "intr" \in Callers
    BY DEF Callers
  <2> QED BY <1>17, StoppedFields DEF StopReaps, Disconnects, Quiet
<1>18. CASE CloseSession \/ CloseDisconnects \/ CloseReaps
  BY <1>18 DEF CloseSession, GenType, StateType, StopType, Callers, NativeType,
       CloseDisconnects, Disconnects, Quiet, CloseReaps
<1>19. CASE \E t \in Turns : \E tool \in {"allowed", "denied"} : Ask(t, tool)
  <2>1. state'.drain = state.drain /\ state'.flight = state.flight /\ state'.named = state.named
    BY <1>19 DEF Ask, StateType
  <2> QED BY <1>19, <2>1 DEF Ask
<1>20. CASE \E t \in Turns : \E answer \in {"allow", "deny", "abort", "failed"} : Answer(t, answer)
  <2>1. state'.drain = state.drain /\ state'.flight = state.flight /\ state'.named = state.named
    BY <1>20 DEF Answer, StateType
  <2> QED BY <1>20, <2>1 DEF Answer
<1>21. CASE Native
  BY ZenonT(40), <1>21 DEF Native, NativeInit, Emits, NativeFrame, NativeToolResult, NativeResult,
       NativeDies, Quiet, GenType, StateType, StopType, Callers, NativeType
<1> QED
  BY <1>1, <1>2, <1>3, <1>4, <1>5, <1>6, <1>7, <1>8, <1>9, <1>10, <1>11, <1>12, <1>13,
     <1>14, <1>15, <1>16, <1>17, <1>18, <1>19, <1>20, <1>21, Steps DEF Open, Native

\* The CLI runs the generator's turn, or one whose tail is to be drained.
LEMMA OwnTurnStep == Inv /\ [Next]_vars => OwnTurn'
<1> SUFFICES ASSUME Inv, [Next]_vars PROVE OwnTurn'
  OBVIOUS
<1> USE DEF Inv, TypeOK, Own, OwnTurn, Flight, Clean, Receiving
<1>1. CASE UNCHANGED vars
  BY <1>1 DEF vars
<1>2. CASE Open
  BY <1>2 DEF Open, OpenChecks, GenType, StateType, NativeType, OpenConnects, OpenAdopts,
       OpenProbes, OpenUnwinds, Unwound
<1>3. CASE StartTurn
  <2>1. gen'.turn = gen.turn + 1 /\ gen.turn < MaxTurns /\ gen'.pc \in {"draining", "querying"}
    BY <1>3 DEF StartTurn
  <2>2. state'.drain = state.drain
    BY <1>3 DEF StartTurn, FreshTurn, StateType
  <2>3. gen.turn \in Nat /\ native.turn \in Nat /\ MaxTurns \in Nat
    BY BoundsAssumption DEF GenType, NativeType
  <2>4. native'.turn = native.turn
    BY <1>3 DEF StartTurn
  <2>5. ~ state.drain => native.turn = 0
    BY <1>3 DEF StartTurn
  <2> QED BY <2>1, <2>2, <2>3, <2>4, <2>5 DEF Turns
<1>4. CASE Drain
  <2>1. CASE ~ IsResult(Head(wire)) /\ UNCHANGED <<state, gen>>
    BY <1>4, <2>1 DEF Drain, Readable
  <2>2. CASE /\ IsResult(Head(wire))
             /\ state' = [state EXCEPT !.drain = FALSE, !.flight = FALSE]
             /\ gen' = [gen EXCEPT !.pc = "querying"]
    BY <1>4, <2>2, LastOfStream DEF Drain, Readable, StateType, GenType
  <2> QED BY <1>4, <2>1, <2>2 DEF Drain
<1>5. CASE DrainFails \/ IdentifyFails \/ StreamStops
  BY <1>5, GenStopsFields DEF DrainFails, IdentifyFails, StreamStops
<1>6. CASE Query
  <2>1. CASE GenStops(FALSE, "raise") /\ UNCHANGED <<native, state>>
    BY <1>6, <2>1, GenStopsFields DEF Query, GenType, StateType
  <2>2. CASE /\ UNCHANGED stop
             /\ native' = [native EXCEPT !.turn = gen.turn, !.left = MaxFrames, !.init = FALSE,
                                         !.stopping = FALSE]
             /\ state' = [state EXCEPT !.flight = TRUE]
             /\ gen' = [gen EXCEPT !.pc = "identifying"]
    <3>1. native'.turn = gen.turn
      BY <2>2 DEF NativeType
    <3>2. gen'.turn = gen.turn /\ gen.turn \in Nat /\ gen'.pc = "identifying"
          /\ gen.turn \in Turns
      BY <1>6, <2>2 DEF Query, GenType
    <3> QED BY <3>1, <3>2
  <2> QED BY <1>6, <2>1, <2>2 DEF Query
<1>7. CASE Identify
  <2>1. CASE GenStops(TRUE, "raise") /\ UNCHANGED state
    BY <1>7, <2>1, GenStopsFields DEF Identify, Readable
  <2>2. CASE /\ state' = [state EXCEPT !.known = TRUE, !.named = Names(Head(wire))]
             /\ gen' = [gen EXCEPT !.buffer = Append(@, Head(wire)),
                                   !.pc = IF Names(Head(wire)) THEN "publishing" ELSE @]
             /\ UNCHANGED stop
    <3>1. /\ gen'.pc = IF Names(Head(wire)) THEN "publishing" ELSE gen.pc
          /\ gen'.stopped = gen.stopped
      BY <2>2 DEF GenType
    <3>2. /\ state'.named = Names(Head(wire)) /\ state'.drain = state.drain
          /\ state'.flight = state.flight
      BY <2>2 DEF StateType
    <3> QED BY <1>7, <2>2, <3>1, <3>2 DEF Identify, Readable
  <2> QED BY <1>7, <2>1, <2>2 DEF Identify
<1>8. CASE Publish
  BY <1>8 DEF Publish, Show, Terminal, GenType, StateType, NativeType
<1>9. CASE StreamBuffered
  <2>1. Head(gen.buffer) \in Message /\ Events(Head(gen.buffer))
    BY <1>9, SeqTail DEF StreamBuffered, GenType
  <2> QED BY <1>9, <2>1, EventsFields DEF StreamBuffered
<1>10. CASE StreamLive
  <2>1. Head(wire) \in Message
    BY <1>10, Reading, SeqTail DEF WireType
  <2>2. CASE Events(Head(wire))
    BY <1>10, <2>1, <2>2, EventsFields DEF StreamLive
  <2>3. CASE (GenStops(TRUE, "output_limit") \/ GenStops(TRUE, "raise")) /\ UNCHANGED state
    BY <1>10, <2>3, GenStopsFields DEF StreamLive
  <2> QED BY <1>10, <2>2, <2>3 DEF StreamLive
<1>11. CASE Conclude
  <2>1. CASE GenStops(TRUE, "raise") /\ state' = [state EXCEPT !.flight = FALSE, !.defect = FALSE]
    BY <1>11, <2>1, GenStopsFields DEF Conclude, StateType
  <2>2. CASE /\ gen' = Idle(gen) /\ UNCHANGED stop
             /\ state' = [state EXCEPT !.flight = FALSE, !.pending = <<>>]
    BY <1>11, <2>2 DEF Conclude, Idle, StateType, GenType
  <2> QED BY <1>11, <2>1, <2>2 DEF Conclude
<1>12. CASE Interrupt
  BY <1>12 DEF Interrupt, Asks, GenType, StateType, NativeType
<1>13. CASE Cancel
  <2>1. CASE GenStops(FALSE, "cancelled")
    BY <1>13, <2>1, GenStopsFields DEF Cancel
  <2>2. CASE gen' = Idle(gen) /\ stop' = [stop EXCEPT !["gen"].pc = "idle"]
    BY <1>13, <2>2 DEF Cancel, Idle, GenType, StopType, Callers
  <2>3. CASE /\ gen.pc = "stopping" /\ gen' = [gen EXCEPT !.then = "cancelled"]
             /\ stop' = [stop EXCEPT !["gen"].pc = "reaping"]
    BY <1>13, <2>3 DEF Cancel, GenType, StopType, Callers
  <2> QED BY <1>13, <2>1, <2>2, <2>3 DEF Cancel
<1>14. CASE StopAsks("gen") \/ StopAsks("intr")
  <2> "gen" \in Callers /\ "intr" \in Callers
    BY DEF Callers
  <2> QED BY <1>14, AsksFields, StoppedFields DEF StopAsks, NativeType
<1>15. CASE StopDisconnects("gen") \/ StopDisconnects("intr")
  BY <1>15, QuietFields DEF StopDisconnects, Disconnects, GenType, StateType, NativeType
<1>16. CASE StopReaps("gen") \/ StopReaps("intr")
  <2> "gen" \in Callers /\ "intr" \in Callers
    BY DEF Callers
  <2> QED BY <1>16, StoppedFields, QuietFields
                DEF StopReaps, Disconnects, GenType, StateType, NativeType
<1>17. CASE CloseSession \/ CloseReaps
  BY <1>17 DEF CloseSession, GenType, StateType, NativeType, CloseReaps
<1>18. CASE CloseDisconnects
  BY <1>18, QuietFields DEF CloseDisconnects, Disconnects, GenType, StateType, NativeType
<1>19. CASE \E t \in Turns : \E tool \in {"allowed", "denied"} : Ask(t, tool)
  <2>1. state'.drain = state.drain /\ state'.flight = state.flight /\ state'.named = state.named
    BY <1>19 DEF Ask, StateType
  <2> QED BY <1>19, <2>1 DEF Ask
<1>20. CASE \E t \in Turns : \E answer \in {"allow", "deny", "abort", "failed"} : Answer(t, answer)
  <2>1. state'.drain = state.drain /\ state'.flight = state.flight /\ state'.named = state.named
    BY <1>20 DEF Answer, StateType
  <2> QED BY <1>20, <2>1 DEF Answer
<1>21. CASE NativeInit \/ NativeFrame \/ NativeToolResult
  BY <1>21 DEF NativeInit, NativeType, NativeFrame, NativeToolResult
<1>22. CASE NativeResult
  BY <1>22, QuietFields DEF NativeResult, GenType, StateType, NativeType
<1>23. CASE NativeDies
  <2>1. native'.turn = 0
    BY <1>23, QuietFields DEF NativeDies, NativeType, Quiet
  <2> QED BY <1>23, <2>1 DEF NativeDies, GenType, StateType, NativeType
<1> QED
  BY <1>1, <1>2, <1>3, <1>4, <1>5, <1>6, <1>7, <1>8, <1>9, <1>10, <1>11, <1>12, <1>13,
     <1>14, <1>15, <1>16, <1>17, <1>18, <1>19, <1>20, <1>21, <1>22, <1>23, Steps DEF Open

\* Only a start and a query open a turn: any other step leaves the generator
\* with its turn, and no further from its end.
Onward ==
    /\ gen'.turn = gen.turn /\ native'.turn \in {0, native.turn}
    /\ Receiving' => Receiving
    /\ gen'.pc # "idle" => gen.pc # "idle"
    /\ gen'.pc \in {"draining", "querying"} => gen.pc \in {"draining", "querying"}

\* A step that opens no turn.
LEMMA OnwardStep ==
    ASSUME TypeOK, [Next]_vars, ~ StartTurn, ~ Query PROVE Onward
<1> USE DEF TypeOK, Onward, Receiving
<1>1. CASE UNCHANGED vars
  BY <1>1 DEF vars
<1>2. CASE Open
  BY <1>2 DEF Open, OpenChecks, GenType, StateType, NativeType, OpenConnects, OpenAdopts,
       OpenProbes, OpenUnwinds, Unwound
<1>3. CASE StartTurn
  BY <1>3
<1>4. CASE Drain
  <2>1. CASE ~ IsResult(Head(wire)) /\ UNCHANGED <<state, gen>>
    BY <1>4, <2>1 DEF Drain, Readable
  <2>2. CASE /\ IsResult(Head(wire))
             /\ state' = [state EXCEPT !.drain = FALSE, !.flight = FALSE]
             /\ gen' = [gen EXCEPT !.pc = "querying"]
    BY <1>4, <2>2, LastOfStream DEF Drain, Readable, StateType, GenType
  <2> QED BY <1>4, <2>1, <2>2 DEF Drain
<1>5. CASE DrainFails \/ IdentifyFails \/ StreamStops
  BY <1>5, GenStopsFields DEF DrainFails, IdentifyFails, StreamStops
<1>6. CASE Query
  BY <1>6
<1>7. CASE Identify
  <2>1. CASE GenStops(TRUE, "raise") /\ UNCHANGED state
    BY <1>7, <2>1, GenStopsFields DEF Identify, Readable
  <2>2. CASE /\ state' = [state EXCEPT !.known = TRUE, !.named = Names(Head(wire))]
             /\ gen' = [gen EXCEPT !.buffer = Append(@, Head(wire)),
                                   !.pc = IF Names(Head(wire)) THEN "publishing" ELSE @]
             /\ UNCHANGED stop
    <3>1. /\ gen'.pc = IF Names(Head(wire)) THEN "publishing" ELSE gen.pc
          /\ gen'.stopped = gen.stopped
      BY <2>2 DEF GenType
    <3>2. /\ state'.named = Names(Head(wire)) /\ state'.drain = state.drain
          /\ state'.flight = state.flight
      BY <2>2 DEF StateType
    <3> QED BY <1>7, <2>2, <3>1, <3>2 DEF Identify, Readable
  <2> QED BY <1>7, <2>1, <2>2 DEF Identify
<1>8. CASE Publish
  BY <1>8 DEF Publish, Show, Terminal, GenType, StateType, NativeType
<1>9. CASE StreamBuffered
  <2>1. Head(gen.buffer) \in Message /\ Events(Head(gen.buffer))
    BY <1>9, SeqTail DEF StreamBuffered, GenType
  <2> QED BY <1>9, <2>1, EventsFields DEF StreamBuffered
<1>10. CASE StreamLive
  <2>1. Head(wire) \in Message
    BY <1>10, Reading, SeqTail DEF WireType
  <2>2. CASE Events(Head(wire))
    BY <1>10, <2>1, <2>2, EventsFields DEF StreamLive
  <2>3. CASE (GenStops(TRUE, "output_limit") \/ GenStops(TRUE, "raise")) /\ UNCHANGED state
    BY <1>10, <2>3, GenStopsFields DEF StreamLive
  <2> QED BY <1>10, <2>2, <2>3 DEF StreamLive
<1>11. CASE Conclude
  <2>1. CASE GenStops(TRUE, "raise") /\ state' = [state EXCEPT !.flight = FALSE, !.defect = FALSE]
    BY <1>11, <2>1, GenStopsFields DEF Conclude, StateType
  <2>2. CASE /\ gen' = Idle(gen) /\ UNCHANGED stop
             /\ state' = [state EXCEPT !.flight = FALSE, !.pending = <<>>]
    BY <1>11, <2>2 DEF Conclude, Idle, StateType, GenType
  <2> QED BY <1>11, <2>1, <2>2 DEF Conclude
<1>12. CASE Interrupt
  BY <1>12 DEF Interrupt, Asks, GenType, StateType, NativeType
<1>13. CASE Cancel
  <2>1. CASE GenStops(FALSE, "cancelled")
    BY <1>13, <2>1, GenStopsFields DEF Cancel
  <2>2. CASE gen' = Idle(gen) /\ stop' = [stop EXCEPT !["gen"].pc = "idle"]
    BY <1>13, <2>2 DEF Cancel, Idle, GenType, StopType, Callers
  <2>3. CASE /\ gen.pc = "stopping" /\ gen' = [gen EXCEPT !.then = "cancelled"]
             /\ stop' = [stop EXCEPT !["gen"].pc = "reaping"]
    BY <1>13, <2>3 DEF Cancel, GenType, StopType, Callers
  <2> QED BY <1>13, <2>1, <2>2, <2>3 DEF Cancel
<1>14. CASE StopAsks("gen") \/ StopAsks("intr")
  <2> "gen" \in Callers /\ "intr" \in Callers
    BY DEF Callers
  <2> QED BY <1>14, AsksFields, StoppedFields DEF StopAsks, NativeType
<1>15. CASE StopDisconnects("gen") \/ StopDisconnects("intr")
  BY <1>15, QuietFields DEF StopDisconnects, Disconnects, GenType, StateType
<1>16. CASE StopReaps("gen") \/ StopReaps("intr")
  <2> "gen" \in Callers /\ "intr" \in Callers
    BY DEF Callers
  <2> QED BY <1>16, StoppedFields, QuietFields DEF StopReaps, Disconnects, GenType, StateType
<1>17. CASE CloseSession \/ CloseReaps
  BY <1>17 DEF CloseSession, GenType, StateType, NativeType, CloseReaps
<1>18. CASE CloseDisconnects
  BY <1>18, QuietFields DEF CloseDisconnects, Disconnects, GenType, StateType
<1>19. CASE \E t \in Turns : \E tool \in {"allowed", "denied"} : Ask(t, tool)
  <2>1. state'.drain = state.drain /\ state'.flight = state.flight /\ state'.named = state.named
    BY <1>19 DEF Ask, StateType
  <2> QED BY <1>19, <2>1 DEF Ask
<1>20. CASE \E t \in Turns : \E answer \in {"allow", "deny", "abort", "failed"} : Answer(t, answer)
  <2>1. state'.drain = state.drain /\ state'.flight = state.flight /\ state'.named = state.named
    BY <1>20 DEF Answer, StateType
  <2> QED BY <1>20, <2>1 DEF Answer
<1>21. CASE NativeInit \/ NativeFrame \/ NativeToolResult
  BY <1>21 DEF NativeInit, NativeType, NativeFrame, NativeToolResult
<1>22. CASE NativeResult
  BY <1>22, QuietFields DEF NativeResult
<1>23. CASE NativeDies
  <2>1. native'.turn = 0
    BY <1>23, QuietFields DEF NativeDies, NativeType, Quiet
  <2> QED BY <1>23, <2>1 DEF NativeDies, GenType, StateType
<1> QED
  BY <1>1, <1>2, <1>3, <1>4, <1>5, <1>6, <1>7, <1>8, <1>9, <1>10, <1>11, <1>12, <1>13,
     <1>14, <1>15, <1>16, <1>17, <1>18, <1>19, <1>20, <1>21, <1>22, <1>23, Steps DEF Open

-----------------------------------------------------------------------------
(* Whose messages are on the client's stream and in the generator's buffer. *)

\* What a step may do to the client's stream: nothing, take its first message,
\* or have the CLI put one more there, of the turn it runs.
LEMMA WireSteps ==
    ASSUME TypeOK, [Next]_vars
    PROVE  \/ UNCHANGED wire
           \/ wire # <<>> /\ wire' = Tail(wire) /\ UNCHANGED <<native, call>>
           \/ \E m \in Message :
                 /\ native.turn # 0 /\ m.of = native.turn /\ wire' = Append(wire, m)
                 /\ IsResult(m) => native'.turn = 0
                 /\ IsToolResult(m) =>
                        /\ call[native.turn] \in {"allow", "deny", "abort"}
                        /\ call' = [call EXCEPT ![native.turn] = "over"]
                 /\ UNCHANGED <<state, gen, stop, shown>>
<1> USE DEF TypeOK
<1>1. CASE Drain \/ Identify \/ StreamLive
  BY <1>1 DEF Drain, Identify, StreamLive, Readable
<1>2. CASE NativeInit
  <2>1. PICK report \in Reports :
            /\ Emits(Frame(native.turn, "init", report))
            /\ UNCHANGED <<state, gen, stop, shown>>
    BY <1>2 DEF NativeInit, Reports
  <2>2. Frame(native.turn, "init", report) \in Message
    BY Frames
  <2> QED BY <2>1, <2>2 DEF Emits, Frame, IsResult, IsToolResult
<1>3. CASE NativeFrame
  <2>1. PICK kind \in {"text", "limit", "tool", "huge", "stranger", "toolresult"} :
            /\ Emits(Frame(native.turn, kind, kind))
            /\ UNCHANGED <<state, gen, stop, shown>>
    BY <1>3 DEF NativeFrame
  <2>2. Frame(native.turn, kind, kind) \in Message
    BY Frames DEF Kinds
  <2> QED BY <2>1, <2>2 DEF Emits, Frame, IsResult, IsToolResult
<1>4. CASE NativeToolResult
  <2>1. Frame(native.turn, "toolresult", "tool") \in Message
    BY Frames
  <2> QED BY <1>4, <2>1 DEF NativeToolResult, Emits, Frame, IsResult
<1>5. CASE NativeResult
  <2>1. PICK result \in Results : Emits(Frame(native.turn, "result", result))
    BY <1>5 DEF NativeResult, Results
  <2>2. Frame(native.turn, "result", result) \in Message
    BY Frames
  <2>3. native'.turn = 0
    BY <1>5, QuietFields DEF NativeResult
  <2> QED BY <1>5, <2>1, <2>2, <2>3 DEF NativeResult, Emits, Frame, IsResult, IsToolResult
<1>6. CASE OpenChecks \/ OpenConnects \/ OpenAdopts \/ OpenProbes \/ OpenUnwinds \/ StartTurn
  BY <1>6 DEF OpenChecks, OpenConnects, OpenAdopts, OpenProbes, OpenUnwinds, StartTurn
<1>7. CASE DrainFails \/ Query \/ IdentifyFails \/ Publish \/ StreamBuffered \/ StreamStops
            \/ Conclude
  BY <1>7 DEF DrainFails, Query, IdentifyFails, Publish, StreamBuffered, StreamStops, Conclude
<1>8. CASE Interrupt \/ Cancel \/ CloseSession \/ CloseDisconnects \/ CloseReaps
            \/ NativeDies \/ UNCHANGED vars
  BY <1>8 DEF Interrupt, Cancel, CloseSession, CloseDisconnects, CloseReaps, NativeDies, vars
<1>9. CASE \E c \in Callers : StopClient(c)
  BY <1>9 DEF StopClient, StopAsks, StopDisconnects, StopReaps
<1>10. CASE Callbacks
  BY <1>10 DEF Callbacks, Ask, Answer
<1> QED
  BY <1>1, <1>2, <1>3, <1>4, <1>5, <1>6, <1>7, <1>8, <1>9, <1>10
  DEF Next, Open, Turn, Close, Native

\* Two ways a turn is opened.
LEMMA Openings ==
    ASSUME TypeOK, StartTurn \/ Query
    PROVE  /\ UNCHANGED <<wire, call>>
           /\ \/ gen'.pc \in {"draining", "querying", "stopping"} /\ gen'.buffer = <<>>
                 /\ UNCHANGED native
              \/ /\ gen.pc = "querying" /\ gen'.pc = "identifying" /\ gen'.turn = gen.turn
                 /\ gen'.buffer = gen.buffer /\ native'.turn = gen.turn
                 /\ UNCHANGED <<stop, shown>>
<1> USE DEF TypeOK
<1>1. CASE StartTurn
  BY <1>1 DEF StartTurn
<1>2. CASE Query /\ GenStops(FALSE, "raise") /\ UNCHANGED native
  BY <1>2, GenStopsFields DEF Query
<1>3. CASE /\ Query /\ UNCHANGED stop
           /\ native' = [native EXCEPT !.turn = gen.turn, !.left = MaxFrames, !.init = FALSE,
                                       !.stopping = FALSE]
           /\ gen' = [gen EXCEPT !.pc = "identifying"]
  BY <1>3 DEF Query, GenType, NativeType
<1> QED BY <1>1, <1>2, <1>3 DEF Query

\* A turn that receives finds its own messages only, a result the last of them.
LEMMA OwnWireStep == Inv /\ [Next]_vars => OwnWire'
<1> SUFFICES ASSUME Inv, [Next]_vars PROVE OwnWire'
  OBVIOUS
<1>0. TypeOK /\ OwnWire /\ OwnTurn /\ Flight
  BY DEF Inv, Own
<1>1. CASE StartTurn \/ Query
  <2>1. CASE ~ Receiving' /\ UNCHANGED native
    BY <1>0, <1>1, <2>1, Openings DEF OwnWire, IsResult
  <2>2. CASE gen.pc = "querying"
    BY <1>0, <1>1, <2>2, Openings DEF OwnWire, Flight, Clean
  <2> QED BY <1>0, <1>1, <2>1, <2>2, Openings DEF Receiving
<1>2. CASE ~ StartTurn /\ ~ Query
  <2>0. gen'.turn = gen.turn /\ native'.turn \in {0, native.turn} /\ (Receiving' => Receiving)
    BY <1>0, <1>2, OnwardStep DEF Onward
  <2>1. CASE UNCHANGED wire
    BY <1>0, <2>0, <2>1 DEF OwnWire, IsResult
  <2>2. CASE wire # <<>> /\ wire' = Tail(wire) /\ UNCHANGED <<native, call>>
    <3>1. /\ \A i \in DOMAIN wire' : i + 1 \in DOMAIN wire /\ wire'[i] = wire[i + 1] /\ i \in Nat
          /\ Len(wire') = Len(wire) - 1 /\ Len(wire) \in Nat
      BY <1>0, <2>2, SeqTail DEF TypeOK, WireType
    <3>2. ASSUME NEW i \in DOMAIN wire', IsResult(wire'[i])
          PROVE  i = Len(wire') /\ native'.turn = 0
      <4>1. i + 1 = Len(wire) /\ native.turn = 0
        BY <1>0, <3>1, <3>2 DEF OwnWire
      <4> QED BY <2>2, <3>1, <4>1
    <3>3. ASSUME Receiving', NEW i \in DOMAIN wire' PROVE wire'[i].of = gen'.turn
      BY <1>0, <2>0, <3>1, <3>3 DEF OwnWire
    <3> QED BY <3>2, <3>3 DEF OwnWire, IsResult
  <2>3. ASSUME NEW m \in Message, native.turn # 0, m.of = native.turn,
               wire' = Append(wire, m), IsResult(m) => native'.turn = 0
        PROVE  OwnWire'
    <3>1. /\ Len(wire') = Len(wire) + 1 /\ Len(wire) \in Nat
          /\ \A i \in DOMAIN wire' :
                \/ i \in DOMAIN wire /\ wire'[i] = wire[i]
                \/ i = Len(wire') /\ wire'[i] = m
      BY <1>0, <2>3 DEF TypeOK, WireType
    <3>2. ASSUME NEW i \in DOMAIN wire', IsResult(wire'[i])
          PROVE  i = Len(wire') /\ native'.turn = 0
      BY <1>0, <2>3, <3>1, <3>2 DEF OwnWire
    <3>3. ASSUME Receiving', NEW i \in DOMAIN wire' PROVE wire'[i].of = gen'.turn
      BY <1>0, <2>0, <2>3, <3>1, <3>3 DEF OwnWire, OwnTurn
    <3> QED BY <3>2, <3>3 DEF OwnWire, IsResult
  <2> QED BY <1>0, <2>1, <2>2, <2>3, WireSteps
<1> QED BY <1>1, <1>2

Waiting == gen.pc \in {"idle", "draining", "querying", "stopping"}

\* What a step may do to the messages kept until the turn has a name.
LEMMA BufferSteps ==
    ASSUME TypeOK, [Next]_vars, ~ StartTurn, ~ Query
    PROVE  \/ gen'.buffer = <<>>
           \/ gen'.buffer = gen.buffer /\ (Waiting' => Waiting)
           \/ /\ StreamBuffered /\ gen.buffer # <<>> /\ gen'.buffer = Tail(gen.buffer)
              /\ UNCHANGED <<wire, native>> /\ ~ Waiting'
           \/ /\ Identify /\ wire # <<>> /\ wire' = Tail(wire) /\ UNCHANGED native
              /\ gen'.buffer = Append(gen.buffer, Head(wire)) /\ ~ Waiting'
<1> USE DEF TypeOK
<1>1. CASE Identify
  <2>1. CASE GenStops(TRUE, "raise")
    BY <2>1, GenStopsFields
  <2>2. CASE gen' = [gen EXCEPT !.buffer = Append(@, Head(wire)),
                                !.pc = IF Names(Head(wire)) THEN "publishing" ELSE @]
    <3>1. /\ gen'.buffer = Append(gen.buffer, Head(wire))
          /\ gen'.pc = IF Names(Head(wire)) THEN "publishing" ELSE gen.pc
      BY <2>2 DEF GenType
    <3> QED BY <1>1, <3>1 DEF Identify, Readable, Waiting
  <2> QED BY <1>1, <2>1, <2>2 DEF Identify
<1>2. CASE StreamBuffered
  <2>1. Head(gen.buffer) \in Message /\ Events(Head(gen.buffer)) /\ gen.buffer # <<>>
    BY <1>2, SeqTail DEF StreamBuffered, GenType
  <2> QED BY <1>2, <2>1, EventsFields DEF StreamBuffered, Waiting
<1>3. CASE StreamLive
  <2>1. Head(wire) \in Message
    BY <1>3, Reading, SeqTail DEF WireType
  <2>2. CASE Events(Head(wire))
    BY <1>3, <2>1, <2>2, EventsFields DEF StreamLive
  <2>3. CASE GenStops(TRUE, "output_limit") \/ GenStops(TRUE, "raise")
    BY <2>3, GenStopsFields
  <2> QED BY <1>3, <2>2, <2>3 DEF StreamLive
<1>4. CASE DrainFails \/ IdentifyFails \/ StreamStops
  BY <1>4, GenStopsFields DEF DrainFails, IdentifyFails, StreamStops
<1>5. CASE Drain \/ Publish
  BY <1>5 DEF Drain, Publish, GenType, Waiting
<1>6. CASE Conclude \/ Cancel
  <2>1. \/ GenStops(TRUE, "raise") \/ GenStops(FALSE, "cancelled") \/ gen' = Idle(gen)
        \/ gen' = [gen EXCEPT !.then = "cancelled"]
    BY <1>6 DEF Conclude, Cancel
  <2>2. gen' = Idle(gen) => gen'.buffer = <<>>
    BY DEF Idle, GenType
  <2>3. gen' = [gen EXCEPT !.then = "cancelled"] =>
            gen'.buffer = gen.buffer /\ gen'.pc = gen.pc
    BY DEF GenType
  <2> QED BY <2>1, <2>2, <2>3, GenStopsFields DEF Waiting
<1>7. CASE Interrupt
  BY <1>7 DEF Interrupt, GenType, Waiting
<1>8. CASE \E c \in Callers : StopClient(c)
  <2>1. gen' = gen \/ gen' = Idle(gen)
    BY <1>8 DEF StopClient, StopAsks, StopDisconnects, StopReaps, Stopped
  <2> QED BY <2>1 DEF Idle, GenType, Waiting
<1>9. CASE UNCHANGED gen
  BY <1>9 DEF Waiting
<1>10. CASE Open
  BY <1>9, <1>10 DEF Open, OpenChecks, OpenConnects, OpenAdopts, OpenProbes, OpenUnwinds
<1>11. CASE CloseSession \/ Close \/ UNCHANGED vars
  BY <1>9, <1>11 DEF CloseSession, Close, CloseDisconnects, CloseReaps, vars
<1>12. CASE Callbacks
  BY <1>9, <1>12 DEF Callbacks, Ask, Answer
<1>13. CASE Native
  BY <1>9, <1>13
  DEF Native, NativeInit, NativeFrame, NativeToolResult, NativeResult, NativeDies
<1> QED
  BY <1>1, <1>2, <1>3, <1>4, <1>5, <1>6, <1>7, <1>8, <1>10, <1>11, <1>12, <1>13
  DEF Next, Turn

\* Only a query starts a turn on a clean stream.
LEMMA CleanStays ==
    ASSUME TypeOK, [Next]_vars, ~ Query, Clean PROVE Clean'
<1>1. native'.turn = 0
  BY OnwardStep DEF Onward, Clean, StartTurn
<1>2. UNCHANGED wire
  BY WireSteps DEF Clean
<1> QED BY <1>1, <1>2 DEF Clean

\* So does what it keeps until the turn has a name.
LEMMA OwnBufferStep == Inv /\ [Next]_vars => OwnBuffer'
<1> SUFFICES ASSUME Inv, [Next]_vars PROVE OwnBuffer'
  OBVIOUS
<1>0. /\ TypeOK /\ OwnWire /\ OwnTurn /\ OwnBuffer /\ Flight /\ TypeOK'
      /\ gen.buffer \in Seq(Message) /\ (Waiting => gen.buffer = <<>>)
  BY TypeStep DEF Inv, Own, OwnBuffer, Waiting, TypeOK, GenType
<1>1. gen'.buffer = <<>> => OwnBuffer'
  BY DEF OwnBuffer
<1>2. CASE StartTurn \/ Query
  BY <1>0, <1>1, <1>2, Openings DEF Waiting
<1>3. CASE ~ StartTurn /\ ~ Query
  <2>0. gen'.turn = gen.turn /\ (Receiving' => Receiving) /\ (Clean => Clean')
    BY <1>0, <1>3, OnwardStep, CleanStays DEF Onward
  <2>1. CASE gen'.buffer = gen.buffer /\ (Waiting' => Waiting)
    BY <1>0, <2>0, <2>1 DEF OwnBuffer, IsResult, Waiting
  <2>2. CASE /\ gen.buffer # <<>> /\ gen'.buffer = Tail(gen.buffer)
             /\ UNCHANGED <<wire, native>> /\ ~ Waiting'
    <3>1. /\ \A i \in DOMAIN gen'.buffer :
                i + 1 \in DOMAIN gen.buffer /\ gen'.buffer[i] = gen.buffer[i + 1] /\ i \in Nat
          /\ Len(gen'.buffer) = Len(gen.buffer) - 1 /\ Len(gen.buffer) \in Nat
      BY <1>0, <2>2, SeqTail
    <3>2. ASSUME NEW i \in DOMAIN gen'.buffer, IsResult(gen'.buffer[i])
          PROVE  i = Len(gen'.buffer) /\ Clean'
      <4>1. i + 1 = Len(gen.buffer) /\ Clean
        BY <1>0, <3>1, <3>2 DEF OwnBuffer
      <4> QED BY <2>0, <3>1, <4>1
    <3>3. ASSUME Receiving', NEW i \in DOMAIN gen'.buffer
          PROVE  gen'.buffer[i].of = gen'.turn
      BY <1>0, <2>0, <3>1, <3>3 DEF OwnBuffer
    <3> QED BY <2>2, <3>2, <3>3 DEF OwnBuffer, IsResult, Waiting
  <2>3. CASE /\ Identify /\ wire # <<>> /\ wire' = Tail(wire) /\ UNCHANGED native
             /\ gen'.buffer = Append(gen.buffer, Head(wire)) /\ ~ Waiting'
    <3>0. gen.pc = "identifying" /\ Receiving
      BY <2>3 DEF Identify, Receiving
    <3>1. /\ Len(gen'.buffer) = Len(gen.buffer) + 1 /\ Len(gen.buffer) \in Nat
          /\ \A i \in DOMAIN gen'.buffer :
                \/ i \in DOMAIN gen.buffer /\ gen'.buffer[i] = gen.buffer[i]
                \/ i = Len(gen'.buffer) /\ gen'.buffer[i] = Head(wire)
      BY <1>0, <2>3
    <3>2. 1 \in DOMAIN wire /\ Head(wire) = wire[1]
      BY <1>0, <2>3, SeqTail DEF TypeOK, WireType
    <3>3. ASSUME NEW i \in DOMAIN gen'.buffer, IsResult(gen'.buffer[i])
          PROVE  i = Len(gen'.buffer) /\ Clean'
      <4>1. CASE i \in DOMAIN gen.buffer /\ gen'.buffer[i] = gen.buffer[i]
        BY <1>0, <2>3, <3>3, <4>1 DEF OwnBuffer, Clean
      <4>2. CASE i = Len(gen'.buffer) /\ gen'.buffer[i] = Head(wire)
        BY <1>0, <2>3, <3>3, <4>2, LastOfStream DEF Clean, TypeOK
      <4> QED BY <3>1, <4>1, <4>2
    <3>4. ASSUME NEW i \in DOMAIN gen'.buffer PROVE gen'.buffer[i].of = gen'.turn
      BY <1>0, <2>0, <3>0, <3>1, <3>2 DEF OwnBuffer, OwnWire
    <3> QED BY <2>3, <3>3, <3>4 DEF OwnBuffer, IsResult, Waiting
  <2> QED BY <1>0, <1>1, <1>3, <2>1, <2>2, <2>3, BufferSteps
<1> QED BY <1>2, <1>3

-----------------------------------------------------------------------------
(* What a stream shows.                                                     *)

\* The decisions queued, as events: one each, in their order.
LEMMA ApprovalsFields ==
    ASSUME StateType
    PROVE  /\ Approvals(state) \in Seq(ShownEvent)
           /\ Len(Approvals(state)) = Len(state.pending)
           /\ DOMAIN Approvals(state) = DOMAIN state.pending
           /\ \A i \in DOMAIN state.pending :
                 /\ Approvals(state)[i] = [of |-> state.pending[i], kind |-> "approval"]
                 /\ Approvals(state)[i].kind = "approval"
<1>1. state.pending \in Seq(Nat)
  BY DEF StateType
<1> QED
  BY <1>1, ApprovalsAreEvents DEF Approvals

\* Where the parts of a concatenation are.
LEMMA Concatenation ==
    ASSUME NEW S, NEW s \in Seq(S), NEW es \in Seq(S)
    PROVE  /\ s \o es \in Seq(S) /\ Len(s \o es) = Len(s) + Len(es)
           /\ Len(s) \in Nat /\ Len(es) \in Nat
           /\ \A i \in DOMAIN s : i \in DOMAIN (s \o es) /\ (s \o es)[i] = s[i]
           /\ \A i \in DOMAIN es :
                 Len(s) + i \in DOMAIN (s \o es) /\ (s \o es)[Len(s) + i] = es[i]
           /\ \A i \in DOMAIN (s \o es) :
                 \/ i \in DOMAIN s /\ (s \o es)[i] = s[i]
                 \/ i - Len(s) \in DOMAIN es /\ (s \o es)[i] = es[i - Len(s)]
                       /\ i \notin DOMAIN s
OBVIOUS

\* The events of one message: the decisions that were queued, then the message.
LEMMA ToldFields ==
    ASSUME StateType, NEW m \in Message
    PROVE  /\ Told(state, m) \in Seq(ShownEvent)
           /\ \A i \in DOMAIN state.pending :
                 /\ i \in DOMAIN Told(state, m) /\ i < Len(Told(state, m))
                 /\ Told(state, m)[i] = [of |-> state.pending[i], kind |-> "approval"]
           /\ \A i \in DOMAIN Told(state, m) :
                 \/ Told(state, m)[i].kind = "approval"
                 \/ i = Len(Told(state, m)) /\ Told(state, m)[i] = Event(m)
           /\ Len(Told(state, m)) = Len(state.pending) + 1
           /\ Told(state, m)[Len(Told(state, m))] = Event(m)
<1> DEFINE a == Approvals(state)
           told == a \o <<Event(m)>>
<1>1. /\ a \in Seq(ShownEvent) /\ Len(a) = Len(state.pending) /\ DOMAIN a = DOMAIN state.pending
      /\ \A i \in DOMAIN a :
            a[i] = [of |-> state.pending[i], kind |-> "approval"] /\ a[i].kind = "approval"
  BY ApprovalsFields
<1>2. <<Event(m)>> \in Seq(ShownEvent) /\ Len(<<Event(m)>>) = 1 /\ <<Event(m)>>[1] = Event(m)
  BY Telling
<1> HIDE DEF a
<1>3. /\ told \in Seq(ShownEvent) /\ Len(told) = Len(a) + 1
      /\ \A i \in DOMAIN a : i \in DOMAIN told /\ i < Len(told) /\ told[i] = a[i]
      /\ \A i \in DOMAIN told : i \in DOMAIN a \/ i = Len(told)
      /\ told[Len(told)] = Event(m)
  BY <1>1, <1>2
<1> HIDE DEF told
<1>4. Told(state, m) = told
  BY DEF Told, told, a
<1>5. \A i \in DOMAIN told : told[i].kind = "approval" \/ (i = Len(told) /\ told[i] = Event(m))
  BY <1>1, <1>3
<1>6. \A i \in DOMAIN state.pending :
          /\ i \in DOMAIN told /\ i < Len(told)
          /\ told[i] = [of |-> state.pending[i], kind |-> "approval"]
  BY <1>1, <1>3
<1> QED
  BY <1>1, <1>3, <1>4, <1>5, <1>6

\* An event that a turn may show: of its own messages, or about a tool.
OwnEvents(es) == \A i \in DOMAIN es : es[i].kind # "approval" => es[i].of = gen.turn
Ending(es) == \E i \in DOMAIN es : IsTerminal(es[i])

\* What a message of the turn makes it show is the turn's.
LEMMA ToldIsOwn ==
    ASSUME StateType, NEW m \in Message, m.of = gen.turn
    PROVE  OwnEvents(Told(state, m)) /\ ~ Ending(Told(state, m))
<1>1. Event(m).of = gen.turn /\ Event(m).kind \in Kinds
  BY DEF Event, Message
<1>2. "approval" \notin Statuses /\ \A k \in Kinds : k \notin Statuses
  BY DEF Statuses, Kinds
<1> QED
  BY <1>1, <1>2, ToldFields DEF OwnEvents, Ending, IsTerminal

\* So are the decisions told alone.
LEMMA ApprovalsAreOwn ==
    ASSUME StateType PROVE OwnEvents(Approvals(state)) /\ ~ Ending(Approvals(state))
<1>1. "approval" \notin Statuses
  BY DEF Statuses
<1> QED
  BY <1>1, ApprovalsFields DEF OwnEvents, Ending, IsTerminal

\* The message that the generator takes next from what it kept or reads.
Taken(m) ==
    /\ gen.pc = "streaming"
    /\ \/ gen.buffer # <<>> /\ m = Head(gen.buffer)
       \/ wire # <<>> /\ m = Head(wire)

\* Events that end the stream, if they do, with the last of them.
Plain(es) ==
    /\ es \in Seq(ShownEvent) /\ OwnEvents(es) /\ gen.pc # "idle"
    /\ \A i \in DOMAIN es : es[i].kind # "toolresult"
    /\ Ending(es) => gen'.pc = "idle"
    /\ \A i \in DOMAIN es : IsTerminal(es[i]) => i = Len(es)

\* What is taken next is a message of this turn.
LEMMA TakenIsOwn ==
    ASSUME Inv, NEW m, Taken(m) PROVE m \in Message /\ m.of = gen.turn
<1>1. OwnWire /\ OwnBuffer /\ Receiving /\ wire \in Seq(Message) /\ gen.buffer \in Seq(Message)
  BY DEF Inv, Own, Taken, Receiving, TypeOK, WireType, GenType
<1>2. CASE gen.buffer # <<>> /\ m = Head(gen.buffer)
  BY <1>1, <1>2, SeqTail DEF OwnBuffer
<1>3. CASE wire # <<>> /\ m = Head(wire)
  BY <1>1, <1>3, SeqTail DEF OwnWire
<1> QED BY <1>2, <1>3 DEF Taken

\* Events that a turn may show without a message: none, one, the decisions.
LEMMA NoEvent == ASSUME gen.pc # "idle" PROVE Plain(<<>>)
<1>1. <<>> \in Seq(ShownEvent) /\ DOMAIN <<>> = {}
  OBVIOUS
<1> QED BY <1>1 DEF Plain, OwnEvents, Ending

\* or one event of its own,
LEMMA OneEvent ==
    ASSUME GenType, gen.pc # "idle", NEW status \in Statuses \cup {"startup"},
           status \in Statuses => gen'.pc = "idle"
    PROVE  Plain(<<Terminal(gen.turn, status)>>)
<1> DEFINE e == Terminal(gen.turn, status)
<1>1. e \in ShownEvent /\ e.of = gen.turn /\ e.kind = status /\ e.kind # "toolresult"
  BY Telling DEF GenType, Terminal, Statuses
<1>2. IsTerminal(e) => gen'.pc = "idle"
  BY <1>1 DEF IsTerminal
<1> HIDE DEF e
<1>3. <<e>> \in Seq(ShownEvent) /\ \A i \in DOMAIN <<e>> : <<e>>[i] = e /\ i = Len(<<e>>)
  BY <1>1
<1>4. Plain(<<e>>)
  BY <1>1, <1>2, <1>3 DEF Plain, OwnEvents, Ending
<1> QED BY <1>4 DEF e

\* or the decisions that were queued.
LEMMA ApprovalsArePlain ==
    ASSUME StateType, gen.pc # "idle" PROVE Plain(Approvals(state))
<1>1. \A i \in DOMAIN Approvals(state) : Approvals(state)[i].kind # "toolresult"
  BY ApprovalsFields
<1> QED
  BY <1>1, ApprovalsFields, ApprovalsAreOwn DEF Plain, Ending

\* What ends a turn shows one terminal, or nothing.
LEMMA LastWords ==
    ASSUME StateType, GenType, gen.pc # "idle", gen'.pc = "idle", NEW status \in Statuses
    PROVE  Plain(Approvals(state) \o <<Terminal(gen.turn, status)>>)
<1> DEFINE a == Approvals(state)
           e == Terminal(gen.turn, status)
<1>1. e \in ShownEvent /\ e.of = gen.turn /\ e.kind # "toolresult"
  BY Telling DEF GenType, Terminal, Statuses
<1>2. /\ a \in Seq(ShownEvent) /\ OwnEvents(a) /\ ~ Ending(a)
      /\ \A i \in DOMAIN a : a[i].kind # "toolresult"
  BY ApprovalsFields, ApprovalsAreOwn
<1> HIDE DEF a, e
<1>3. /\ a \o <<e>> \in Seq(ShownEvent)
      /\ \A i \in DOMAIN (a \o <<e>>) :
            \/ i \in DOMAIN a /\ (a \o <<e>>)[i] = a[i]
            \/ i = Len(a \o <<e>>) /\ (a \o <<e>>)[i] = e
  BY <1>1, <1>2
<1>4. Plain(a \o <<e>>)
  BY <1>1, <1>2, <1>3 DEF Plain, OwnEvents, Ending
<1> QED BY <1>4 DEF a, e

\* What a step may add to what is shown.
LEMMA ShownSteps ==
    ASSUME Inv, [Next]_vars, ~ StartTurn
    PROVE  \/ UNCHANGED shown
           \/ \E m : /\ Taken(m) /\ ~ Refuses(m) /\ ~ state.defect
                     /\ shown' = shown \o Told(state, m)
                     /\ state'.pending = <<>>
           \/ \E es : Plain(es) /\ shown' = shown \o es
                      /\ (Receiving' => UNCHANGED <<call, wire, stop>>
                                /\ state'.pending = state.pending
                                /\ state'.defect = state.defect)
<1>0. TypeOK /\ StateType /\ GenType /\ StopType /\ WireType
  BY DEF Inv, TypeOK
<1>a. ASSUME NEW m, Taken(m), Events(m)
      PROVE  \/ /\ Taken(m) /\ ~ Refuses(m) /\ ~ state.defect
                /\ shown' = shown \o Told(state, m)
                /\ state'.pending = <<>>
             \/ \E es : Plain(es) /\ shown' = shown \o es /\ ~ Receiving'
  <2>1. m \in Message
    BY <1>a, TakenIsOwn
  <2>2. CASE ~ state.defect /\ ~ Refuses(m) /\ Show(Told(state, m)) /\ state'.pending = <<>>
    BY <1>a, <2>2 DEF Show
  <2>3. CASE gen'.pc = "stopping" /\ Show(IF state.defect THEN <<>> ELSE Approvals(state))
    <3>1. gen.pc # "idle" /\ ~ Receiving'
      BY <1>a, <2>3 DEF Taken, Receiving
    <3>2. Plain(<<>>) /\ Plain(Approvals(state))
      BY <1>0, <3>1, NoEvent, ApprovalsArePlain
    <3>3. shown' = shown \o <<>> \/ shown' = shown \o Approvals(state)
      BY <2>3 DEF Show
    <3> QED BY <3>1, <3>2, <3>3
  <2> QED BY <1>0, <1>a, <2>1, <2>2, <2>3, EventsFields
<1>1. CASE StreamBuffered
  BY <1>1, <1>a DEF StreamBuffered, Taken
<1>2. CASE StreamLive
  <2>1. Taken(Head(wire))
    BY <1>2 DEF StreamLive, Readable, Taken
  <2> QED BY <1>2, <1>a, <2>1 DEF StreamLive
<1>3. CASE Publish
  <2>1. gen.pc # "idle" /\ UNCHANGED <<call, wire, stop>>
    BY <1>3 DEF Publish
  <2>2. state'.pending = state.pending /\ state'.defect = state.defect
    BY <1>0, <1>3 DEF Publish, StateType
  <2>3. Plain(<<>>) /\ Plain(<<Terminal(gen.turn, "startup")>>)
    BY <1>0, <2>1, NoEvent, OneEvent DEF Statuses
  <2>4. shown' = shown \o <<>> \/ shown' = shown \o <<Terminal(gen.turn, "startup")>>
    BY <1>3 DEF Publish, Show
  <2> QED BY <2>1, <2>2, <2>3, <2>4
<1>4. CASE Conclude
  <2>1. CASE ~ state.defect
    <3>1. gen.pc # "idle" /\ gen'.pc = "idle" /\ ~ Receiving'
      BY <1>0, <1>4, <2>1 DEF Conclude, Idle, GenType, Receiving
    <3>2. TerminalStatus(state, gen.then) \in Statuses
      BY DEF TerminalStatus, Statuses
    <3> QED BY <1>0, <1>4, <2>1, <3>1, <3>2, LastWords DEF Conclude, Show
  <2>2. CASE state.defect
    BY <1>4, <2>2 DEF Conclude
  <2> QED BY <2>1, <2>2
<1>5. CASE \E c \in Callers : StopClient(c)
  <2>1. PICK c \in Callers : StopAsks(c) \/ StopDisconnects(c) \/ StopReaps(c)
    BY <1>5 DEF StopClient
  <2>2. CASE UNCHANGED shown
    BY <2>2
  <2>3. CASE /\ c = "gen" /\ gen' = Idle(gen) /\ stop["gen"].pc \in {"asking", "reaping"}
             /\ gen.then \in {"output_limit", "backend_failed"}
             /\ Show(<<Terminal(gen.turn, gen.then)>>)
    <3>1. gen.pc # "idle" /\ gen'.pc = "idle" /\ ~ Receiving'
      BY <1>0, <2>3 DEF Inv, Stopping, Idle, GenType, Receiving
    <3>2. gen.then \in Statuses
      BY <2>3 DEF Statuses
    <3> QED BY <1>0, <2>3, <3>1, <3>2, OneEvent DEF Show
  <2> QED BY <2>1, <2>2, <2>3 DEF StopAsks, StopDisconnects, StopReaps, Stopped, Callers
<1>6. CASE UNCHANGED shown
  BY <1>6
<1>7. CASE Open \/ Close \/ CloseSession \/ Interrupt \/ Cancel \/ UNCHANGED vars
  BY <1>7
  DEF Open, OpenChecks, OpenConnects, OpenAdopts, OpenProbes, OpenUnwinds, Close,
      CloseSession, CloseDisconnects, CloseReaps, Interrupt, Cancel, vars
<1>8. CASE Drain \/ DrainFails \/ Query \/ Identify \/ IdentifyFails \/ StreamStops
  BY <1>8 DEF Drain, DrainFails, Query, Identify, IdentifyFails, StreamStops
<1>9. CASE Callbacks
  BY <1>9 DEF Callbacks, Ask, Answer
<1>10. CASE Native
  BY <1>10 DEF Native, NativeInit, NativeFrame, NativeToolResult, NativeResult, NativeDies
<1> QED
  BY <1>1, <1>2, <1>3, <1>4, <1>5, <1>7, <1>8, <1>9, <1>10 DEF Next, Turn

\* A stream stays its turn's, with its terminal last.
LEMMA StreamedStep == Inv /\ [Next]_vars => Streamed'
<1> SUFFICES ASSUME Inv, [Next]_vars PROVE Streamed'
  OBVIOUS
<1>0. TypeOK /\ Streamed /\ shown \in Seq(ShownEvent)
  BY DEF Inv, TypeOK, ShownType
<1>1. CASE StartTurn
  BY <1>1 DEF StartTurn, Streamed, TurnIsOwn
<1>2. CASE UNCHANGED shown
  <2>1. CASE StartTurn
    BY <1>1, <2>1
  <2>2. CASE ~ StartTurn
    <3>1. gen'.turn = gen.turn /\ (gen'.pc # "idle" => gen.pc # "idle")
      BY <1>0, <2>2, OnwardStep, Openings DEF Onward, Query, GenStops, GenType, TypeOK
    <3> QED BY <1>0, <1>2, <3>1 DEF Streamed, TurnIsOwn, IsTerminal
  <2> QED BY <2>1, <2>2
<1>3. ASSUME ~ StartTurn, ~ UNCHANGED shown, NEW es \in Seq(ShownEvent), shown' = shown \o es,
             gen.pc # "idle", OwnEvents(es), Ending(es) => gen'.pc = "idle",
             \A i \in DOMAIN es : IsTerminal(es[i]) => i = Len(es)
      PROVE  Streamed'
  <2>1. gen'.turn = gen.turn
    BY <1>0, <1>3, OnwardStep DEF Onward, Query
  <2>2. /\ \A i \in DOMAIN shown' :
              \/ i \in DOMAIN shown /\ shown'[i] = shown[i]
              \/ i - Len(shown) \in DOMAIN es /\ shown'[i] = es[i - Len(shown)]
        /\ Len(shown') = Len(shown) + Len(es) /\ Len(shown) \in Nat /\ Len(es) \in Nat
        /\ \A i \in DOMAIN shown' : i \in Nat
    BY <1>0, <1>3, Concatenation
  <2>3. \A i \in DOMAIN shown :
            ~ IsTerminal(shown[i]) /\ (shown[i].kind # "approval" => shown[i].of = gen.turn)
    BY <1>0, <1>3 DEF Streamed, TurnIsOwn
  <2>4. ASSUME NEW i \in DOMAIN shown', shown'[i].kind # "approval"
        PROVE  shown'[i].of = gen'.turn
    BY <1>3, <2>1, <2>2, <2>3, <2>4 DEF OwnEvents
  <2>5. ASSUME NEW i \in DOMAIN shown', IsTerminal(shown'[i])
        PROVE  i = Len(shown') /\ gen'.pc = "idle"
    BY <1>3, <2>2, <2>3, <2>5 DEF Ending
  <2> QED BY <2>4, <2>5 DEF Streamed, TurnIsOwn, IsTerminal
<1>4. ASSUME ~ StartTurn, ~ UNCHANGED shown, NEW es, Plain(es), shown' = shown \o es
      PROVE  Streamed'
  BY <1>3, <1>4 DEF Plain
<1>5. ASSUME ~ StartTurn, ~ UNCHANGED shown, NEW m, Taken(m), shown' = shown \o Told(state, m)
      PROVE  Streamed'
  <2>1. /\ Told(state, m) \in Seq(ShownEvent) /\ OwnEvents(Told(state, m))
        /\ ~ Ending(Told(state, m)) /\ gen.pc # "idle"
    BY <1>0, <1>5, TakenIsOwn, ToldIsOwn, ToldFields DEF TypeOK, Taken
  <2> QED BY <1>3, <1>5, <2>1 DEF Ending
<1> QED
  BY <1>1, <1>2, <1>4, <1>5, ShownSteps

-----------------------------------------------------------------------------
(* Decisions about tools, and when they are told.                           *)

\* Only callbacks and the CLI's own progress move a permission callback.
LEMMA CallIsStill ==
    ASSUME [Next]_vars, ~ Callbacks, ~ NativeFrame, ~ NativeToolResult PROVE UNCHANGED call
<1>1. CASE Open \/ Close \/ CloseSession \/ Interrupt \/ Cancel \/ UNCHANGED vars
  BY <1>1
  DEF Open, OpenChecks, OpenConnects, OpenAdopts, OpenProbes, OpenUnwinds, Close,
      CloseSession, CloseDisconnects, CloseReaps, Interrupt, Cancel, vars
<1>2. CASE StartTurn \/ Drain \/ DrainFails \/ Query \/ Identify \/ IdentifyFails \/ Publish
  BY <1>2 DEF StartTurn, Drain, DrainFails, Query, Identify, IdentifyFails, Publish
<1>3. CASE StreamBuffered \/ StreamLive \/ StreamStops \/ Conclude
  BY <1>3 DEF StreamBuffered, StreamLive, StreamStops, Conclude
<1>4. CASE \E c \in Callers : StopClient(c)
  BY <1>4 DEF StopClient, StopAsks, StopDisconnects, StopReaps
<1>5. CASE NativeInit \/ NativeResult \/ NativeDies
  BY <1>5 DEF NativeInit, NativeResult, NativeDies
<1> QED
  BY <1>1, <1>2, <1>3, <1>4, <1>5 DEF Next, Turn, Native

\* What a step may do to the permission callbacks of a turn.
LEMMA CallSteps ==
    ASSUME TypeOK, [Next]_vars, NEW t \in Turns
    PROVE  \/ call'[t] = call[t]
           \/ call[t] = "none" /\ call'[t] = "used" /\ native.turn = t
           \/ call[t] \in {"allow", "deny", "abort"} /\ call'[t] = "over"
           \/ /\ call[t] \in {"used", "host"} /\ call'[t] # "over"
              /\ UNCHANGED <<gen, stop, shown, wire>>
              /\ \/ call'[t] = "host"
                 \/ state.drain \/ state'.defect
                 \/ \E i \in DOMAIN state'.pending : state'.pending[i] = t
<1>0. StateType /\ CallType /\ state.pending \in Seq(Nat) /\ t \in Nat
  BY DEF TypeOK, StateType, Turns
<1>1. ASSUME NEW q, q = Append(state.pending, t) PROVE \E i \in DOMAIN q : q[i] = t
  <2>1. Len(state.pending) + 1 \in DOMAIN q /\ q[Len(state.pending) + 1] = t
    BY <1>0, <1>1
  <2> QED BY <2>1
<1>2. CASE Callbacks
  <2>1. ASSUME NEW u \in Turns, NEW tool \in {"allowed", "denied"}, Ask(u, tool), u = t
        PROVE  /\ call[t] \in {"used", "host"} /\ call'[t] # "over"
               /\ \/ call'[t] = "host"
                  \/ state.drain \/ state'.defect
                  \/ \E i \in DOMAIN state'.pending : state'.pending[i] = t
    <3>1. CASE state.drain /\ call' = [call EXCEPT ![t] = "abort"]
      BY <1>0, <2>1, <3>1 DEF Ask, CallType
    <3>2. CASE call' = [call EXCEPT ![t] = "abort"] /\ state' = [state EXCEPT !.defect = TRUE]
      BY <1>0, <2>1, <3>2 DEF Ask, CallType, StateType
    <3>3. CASE call' = [call EXCEPT ![t] = "host"]
      BY <1>0, <2>1, <3>3 DEF Ask, CallType
    <3>4. CASE /\ state' = [state EXCEPT !.pending = Append(@, t)]
               /\ \E d \in {"allow", "deny"} : call' = [call EXCEPT ![t] = d]
      <4>1. state'.pending = Append(state.pending, t)
        BY <1>0, <3>4 DEF StateType
      <4> QED BY <1>0, <1>1, <2>1, <3>4, <4>1 DEF Ask, CallType
    <3> QED BY <2>1, <3>1, <3>2, <3>3, <3>4 DEF Ask, Retired
  <2>2. ASSUME NEW u \in Turns, NEW answer \in {"allow", "deny", "abort", "failed"},
               Answer(u, answer), u = t
        PROVE  /\ call[t] \in {"used", "host"} /\ call'[t] # "over"
               /\ \E i \in DOMAIN state'.pending : state'.pending[i] = t
    <3>1. state'.pending = Append(state.pending, t)
      BY <1>0, <2>2 DEF Answer, StateType
    <3> QED BY <1>0, <1>1, <2>2, <3>1 DEF Answer, CallType
  <2>3. ASSUME NEW u \in Turns, NEW tool \in {"allowed", "denied"}, Ask(u, tool), u # t
        PROVE  call'[t] = call[t]
    BY <1>0, <2>3 DEF Ask, CallType
  <2>4. ASSUME NEW u \in Turns, NEW answer \in {"allow", "deny", "abort", "failed"},
               Answer(u, answer), u # t
        PROVE  call'[t] = call[t]
    BY <1>0, <2>4 DEF Answer, CallType
  <2>5. UNCHANGED <<gen, stop, shown, wire>>
    BY <1>2 DEF Callbacks, Ask, Answer
  <2> QED BY <1>2, <2>1, <2>2, <2>3, <2>4, <2>5 DEF Callbacks
<1>3. CASE NativeFrame
  <2>1. \/ UNCHANGED call
        \/ call[native.turn] = "none" /\ call' = [call EXCEPT ![native.turn] = "used"]
    BY <1>3 DEF NativeFrame
  <2> QED BY <1>0, <2>1 DEF CallType
<1>4. CASE NativeToolResult
  BY <1>0, <1>4 DEF NativeToolResult, CallType
<1>5. CASE ~ Callbacks /\ ~ NativeFrame /\ ~ NativeToolResult
  BY <1>5, CallIsStill
<1> QED
  BY <1>2, <1>3, <1>4, <1>5

\* While a turn receives, a returned interrupt stays returned.
LEMMA InterruptStays ==
    ASSUME Inv, [Next]_vars, ~ StartTurn, stop["intr"].pc = "returned"
    PROVE  stop'["intr"].pc = "returned"
<1>0. StopType /\ GenType /\ StateType /\ gen.stopped
  BY DEF Inv, TypeOK, Stopping, GenType
<1>1. CASE Turn
  BY <1>0, <1>1, Stoppages, GenStopsFields
<1>2. CASE Cancel
  <2>1. \/ GenStops(FALSE, "cancelled")
        \/ stop' = [stop EXCEPT !["gen"].pc = "idle"]
        \/ stop' = [stop EXCEPT !["gen"].pc = "reaping"]
    BY <1>2 DEF Cancel
  <2> QED BY <1>0, <2>1, GenStopsFields DEF StopType, Callers
<1>3. CASE Interrupt
  BY <1>0, <1>3 DEF Interrupt
<1>4. ASSUME NEW c \in Callers, StopClient(c) PROVE stop'["intr"].pc = "returned"
  <2>1. c = "gen"
    BY <1>4 DEF StopClient, StopAsks, StopDisconnects, StopReaps, Callers
  <2>2. \/ stop' = [stop EXCEPT !["gen"].pc = "disconnecting"]
        \/ stop' = [stop EXCEPT !["gen"].pc = "reaping"]
        \/ Stopped("gen")
    BY <1>4, <2>1 DEF StopClient, StopAsks, StopDisconnects, StopReaps
  <2> QED BY <1>0, <2>2, StoppedFields DEF StopType, Callers
<1>5. CASE UNCHANGED stop
  BY <1>5
<1>6. CASE Open \/ Close \/ CloseSession \/ UNCHANGED vars
  BY <1>6
  DEF Open, OpenChecks, OpenConnects, OpenAdopts, OpenProbes, OpenUnwinds, Close,
      CloseSession, CloseDisconnects, CloseReaps, vars
<1>7. CASE Callbacks
  BY <1>7 DEF Callbacks, Ask, Answer
<1>8. CASE Native
  BY <1>8 DEF Native, NativeInit, NativeFrame, NativeToolResult, NativeResult, NativeDies
<1> QED BY <1>1, <1>2, <1>3, <1>4, <1>6, <1>7, <1>8 DEF Next

\* Within a turn a stream only grows.
LEMMA ShownGrows ==
    ASSUME Inv, [Next]_vars, ~ StartTurn, NEW j \in DOMAIN shown
    PROVE  j \in DOMAIN shown' /\ shown'[j] = shown[j]
<1>0. shown \in Seq(ShownEvent) /\ StateType
  BY DEF Inv, TypeOK, ShownType
<1>1. CASE UNCHANGED shown
  BY <1>1
<1>2. ASSUME NEW es \in Seq(ShownEvent), shown' = shown \o es
      PROVE  j \in DOMAIN shown' /\ shown'[j] = shown[j]
  BY <1>0, <1>2, Concatenation
<1>3. ASSUME NEW m, Taken(m), shown' = shown \o Told(state, m)
      PROVE  j \in DOMAIN shown' /\ shown'[j] = shown[j]
  BY <1>0, <1>2, <1>3, TakenIsOwn, ToldFields
<1>4. ASSUME NEW es, Plain(es), shown' = shown \o es
      PROVE  j \in DOMAIN shown' /\ shown'[j] = shown[j]
  BY <1>2, <1>4 DEF Plain
<1> QED BY <1>1, <1>3, <1>4, ShownSteps

\* Only the generator takes what the callbacks queued.
LEMMA PendingSteps ==
    ASSUME StateType, [Next]_vars, ~ StartTurn, ~ StreamBuffered, ~ StreamLive, ~ Conclude
    PROVE  /\ state.defect => state'.defect
           /\ \A i \in DOMAIN state.pending :
                 i \in DOMAIN state'.pending /\ state'.pending[i] = state.pending[i]
<1>0. state.pending \in Seq(Nat)
  BY DEF StateType
<1>1. CASE state'.defect = state.defect /\ state'.pending = state.pending
  BY <1>1
<1>2. CASE OpenProbes \/ Drain \/ Query \/ Identify \/ Publish
  BY <1>1, <1>2 DEF OpenProbes, Drain, Query, Identify, Publish, StateType
<1>3. ASSUME NEW t \in Turns, state'.pending = Append(state.pending, t)
      PROVE  \A i \in DOMAIN state.pending :
                 i \in DOMAIN state'.pending /\ state'.pending[i] = state.pending[i]
  BY <1>0, <1>3 DEF Turns
<1>4. ASSUME NEW t \in Turns, NEW tool \in {"allowed", "denied"}, Ask(t, tool)
      PROVE  /\ state.defect => state'.defect
             /\ \A i \in DOMAIN state.pending :
                   i \in DOMAIN state'.pending /\ state'.pending[i] = state.pending[i]
  <2>1. CASE UNCHANGED state
    BY <1>1, <2>1
  <2>2. CASE state' = [state EXCEPT !.defect = TRUE]
    BY <1>0, <2>2 DEF StateType
  <2>3. CASE state' = [state EXCEPT !.pending = Append(@, t)]
    <3>1. state'.pending = Append(state.pending, t) /\ state'.defect = state.defect
      BY <2>3 DEF StateType
    <3> QED BY <1>3, <3>1
  <2> QED BY <1>4, <2>1, <2>2, <2>3 DEF Ask
<1>5. ASSUME NEW t \in Turns, NEW answer \in {"allow", "deny", "abort", "failed"},
             Answer(t, answer)
      PROVE  /\ state.defect => state'.defect
             /\ \A i \in DOMAIN state.pending :
                   i \in DOMAIN state'.pending /\ state'.pending[i] = state.pending[i]
  <2>1. state'.pending = Append(state.pending, t) /\ state'.defect = state.defect
    BY <1>5 DEF Answer, StateType
  <2> QED BY <1>3, <2>1
<1>6. CASE \E c \in Callers : StopClient(c)
  <2>1. UNCHANGED state \/ state' = [state EXCEPT !.drain = state.flight]
    BY <1>6 DEF StopClient, StopAsks, StopDisconnects, StopReaps, Landed
  <2> QED BY <1>1, <2>1 DEF StateType
<1>7. CASE OpenChecks \/ OpenConnects \/ OpenAdopts \/ OpenUnwinds \/ Close \/ CloseSession
            \/ Interrupt \/ Cancel \/ UNCHANGED vars
  BY <1>1, <1>7
  DEF OpenChecks, OpenConnects, OpenAdopts, OpenUnwinds, Close,
      CloseSession, CloseDisconnects, CloseReaps, Interrupt, Cancel, vars
<1>8. CASE DrainFails \/ IdentifyFails \/ StreamStops
  BY <1>1, <1>8 DEF DrainFails, IdentifyFails, StreamStops
<1>9. CASE Native
  BY <1>1, <1>9 DEF Native, NativeInit, NativeFrame, NativeToolResult, NativeResult, NativeDies
<1> QED
  BY <1>2, <1>4, <1>5, <1>6, <1>7, <1>8, <1>9 DEF Next, Open, Turn, Callbacks

\* What was told of a tool stays told.
LEMMA AnsweredStays ==
    ASSUME Inv, [Next]_vars, ~ StartTurn, Receiving', NEW t \in Turns, Answered(t)
    PROVE  Answered(t)'
<1>0. /\ TypeOK /\ StateType /\ GenType /\ StopType /\ WireType /\ shown \in Seq(ShownEvent)
  BY DEF Inv, TypeOK, ShownType
<1>1. CASE stop["intr"].pc = "returned"
  BY <1>1, InterruptStays DEF Answered
<1>2. ASSUME NEW j \in DOMAIN shown, shown[j] = [of |-> t, kind |-> "approval"]
      PROVE  Answered(t)'
  BY <1>2, ShownGrows DEF Answered
<1>3. ASSUME NEW m, Taken(m), ~ state.defect, Show(Told(state, m)) PROVE Answered(t)'
  <2>1. /\ Told(state, m) \in Seq(ShownEvent)
        /\ \A i \in DOMAIN state.pending :
              /\ i \in DOMAIN Told(state, m)
              /\ Told(state, m)[i] = [of |-> state.pending[i], kind |-> "approval"]
    BY <1>0, <1>3, TakenIsOwn, ToldFields
  <2>2. ASSUME NEW i \in DOMAIN state.pending, state.pending[i] = t PROVE Answered(t)'
    <3> DEFINE told == Told(state, m)
    <3>1. told \in Seq(ShownEvent) /\ i \in DOMAIN told /\ shown' = shown \o told
          /\ told[i] = [of |-> t, kind |-> "approval"]
      BY <1>3, <2>1, <2>2 DEF Show
    <3> HIDE DEF told
    <3>2. /\ Len(shown) + i \in DOMAIN shown'
          /\ shown'[Len(shown) + i] = [of |-> t, kind |-> "approval"]
      BY <1>0, <3>1, Concatenation
    <3> QED BY <3>2 DEF Answered
  <2> QED BY <1>1, <1>2, <1>3, <2>2 DEF Answered
<1>4. ASSUME NEW m, Taken(m), Events(m) PROVE Answered(t)'
  <2>1. m \in Message
    BY <1>4, TakenIsOwn
  <2>2. ~ state.defect /\ Show(Told(state, m))
    BY <1>0, <1>4, <2>1, EventsFields DEF Receiving
  <2> QED BY <1>3, <1>4, <2>2
<1>5. CASE StreamBuffered
  BY <1>4, <1>5 DEF StreamBuffered, Taken
<1>6. CASE StreamLive
  <2>1. Taken(Head(wire))
    BY <1>6 DEF StreamLive, Readable, Taken
  <2>2. CASE GenStops(TRUE, "output_limit") \/ GenStops(TRUE, "raise")
    BY <1>0, <2>2, GenStopsFields DEF Receiving
  <2> QED BY <1>4, <1>6, <2>1, <2>2 DEF StreamLive
<1>7. CASE Conclude
  <2>1. gen' = Idle(gen) \/ GenStops(TRUE, "raise")
    BY <1>7 DEF Conclude
  <2> QED BY <1>0, <2>1, GenStopsFields DEF Idle, GenType, Receiving
<1>8. CASE ~ StreamBuffered /\ ~ StreamLive /\ ~ Conclude
  <2>1. CASE state.defect
    BY <1>0, <1>8, <2>1, PendingSteps DEF Answered
  <2>2. ASSUME NEW i \in DOMAIN state.pending, state.pending[i] = t PROVE Answered(t)'
    BY <1>0, <1>8, <2>2, PendingSteps DEF Answered
  <2> QED BY <1>1, <1>2, <2>1, <2>2 DEF Answered
<1> QED BY <1>5, <1>6, <1>7, <1>8

\* A turn not yet queried has no permission callback.
LEMMA GateFutureStep == Inv /\ [Next]_vars => GateFuture'
<1> SUFFICES ASSUME Inv, [Next]_vars, NEW t \in Turns,
                    \/ t > gen'.turn
                    \/ t = gen'.turn /\ gen'.pc \in {"draining", "querying"}
             PROVE  call'[t] = "none"
  BY DEF GateFuture
<1>0. /\ TypeOK /\ GateFuture /\ OwnTurn /\ Flight
      /\ native.turn \in Nat /\ gen.turn \in Nat /\ t \in Nat
  BY DEF Inv, Gate, Own, TypeOK, NativeType, GenType, Turns
<1>1. CASE StartTurn
  BY <1>0, <1>1 DEF StartTurn, GateFuture
<1>2. CASE ~ StartTurn
  <2>1. /\ t > gen.turn \/ (t = gen.turn /\ gen.pc \in {"draining", "querying"})
        /\ native.turn # t
    <3>1. CASE Query
      <4>1. gen'.turn = gen.turn
        BY <1>0, <3>1 DEF Query, GenStops, TypeOK, GenType
      <4>2. native.turn = 0 /\ gen.pc = "querying"
        BY <1>0, <3>1 DEF Query, Flight, Clean
      <4> QED BY <1>0, <4>1, <4>2 DEF Turns
    <3>2. CASE ~ Query
      BY <1>0, <1>2, <3>2, OnwardStep DEF Onward, OwnTurn, Flight, Clean, Turns
    <3> QED BY <3>1, <3>2
  <2>2. call[t] = "none"
    BY <1>0, <2>1 DEF GateFuture
  <2> QED BY <1>0, <2>1, <2>2, CallSteps
<1> QED BY <1>1, <1>2

\* A decision made is told or queued.
LEMMA GateToldStep == Inv /\ [Next]_vars => GateTold'
<1> SUFFICES ASSUME Inv, [Next]_vars, Receiving', call'[gen'.turn] \in Decided
             PROVE  Answered(gen.turn)'
  BY DEF GateTold
<1>0. TypeOK /\ GateTold /\ GateFuture /\ OwnTurn /\ Flight /\ Stopping /\ TypeOK'
      /\ GenType /\ gen.turn <= MaxTurns /\ GenType'
  BY TypeStep DEF Inv, Gate, Own, TypeOK, OwnTurn
<1>1. ~ StartTurn
  BY DEF StartTurn, Receiving
<1>2. CASE Query
  <2>1. gen.pc = "querying" /\ gen'.turn = gen.turn /\ UNCHANGED call
    BY <1>0, <1>2, Openings DEF Receiving
  <2>2. gen.turn \in Turns
    BY <1>0, <2>1 DEF OwnTurn
  <2> QED BY <1>0, <2>1, <2>2 DEF GateFuture, Decided
<1>3. CASE ~ Query
  <2>1. gen'.turn = gen.turn /\ Receiving
    BY <1>0, <1>1, <1>3, OnwardStep DEF Onward
  <2>2. gen.turn \in Turns
    BY <1>0, <2>1 DEF OwnTurn, Receiving
  <2>3. CASE call[gen.turn] \in Decided
    <3>1. Answered(gen.turn)
      BY <1>0, <2>1, <2>3 DEF GateTold
    <3>2. PICK t \in Turns : t = gen.turn /\ Answered(t)
      BY <2>2, <3>1
    <3>3. Answered(t)'
      BY <1>1, <3>2, AnsweredStays
    <3> QED BY <2>1, <3>2, <3>3 DEF Answered
  <2>4. CASE call[gen.turn] \notin Decided
    <3>1. /\ UNCHANGED <<gen, stop, shown, wire>>
          /\ \/ state.drain \/ state'.defect
             \/ \E i \in DOMAIN state'.pending : state'.pending[i] = gen.turn
      BY <1>0, <2>1, <2>2, <2>4, CallSteps DEF Decided
    <3>2. state.drain => stop["intr"].pc = "returned"
      BY <1>0, <2>1 DEF Flight, Receiving
    <3>3. gen'.turn = gen.turn /\ stop'["intr"].pc = stop["intr"].pc
      BY <3>1
    <3> QED BY <3>1, <3>2, <3>3 DEF Answered
  <2> QED BY <2>3, <2>4
<1> QED BY <1>2, <1>3

\* A tool's result is on its way only after its callback is over.
LEMMA GateResultsStep == Inv /\ [Next]_vars => GateResults'
<1> SUFFICES ASSUME Inv, [Next]_vars, Receiving' PROVE GateResults'
  BY DEF GateResults
<1>0. /\ TypeOK /\ GateResults /\ OwnTurn /\ OwnBuffer /\ Flight
      /\ wire \in Seq(Message) /\ gen.buffer \in Seq(Message) /\ CallType
  BY DEF Inv, Gate, Own, TypeOK, WireType, GenType
<1>1. CASE StartTurn \/ Query
  <2>1. wire' = <<>> /\ gen'.buffer = <<>>
    BY <1>0, <1>1, Openings DEF Receiving, Flight, Clean, OwnBuffer
  <2> QED BY <2>1 DEF GateResults
<1>2. CASE ~ StartTurn /\ ~ Query
  <2>0. gen'.turn = gen.turn /\ Receiving /\ gen.turn \in Turns
    BY <1>0, <1>2, OnwardStep DEF Onward, OwnTurn, Receiving
  <2>1. call[gen.turn] = "over" => call'[gen.turn] = "over"
    BY <1>0, <2>0, CallSteps
  <2>2. ASSUME NEW i \in DOMAIN wire', IsToolResult(wire'[i]) PROVE call'[gen.turn] = "over"
    <3>1. CASE UNCHANGED wire
      BY <1>0, <2>0, <2>1, <2>2, <3>1 DEF GateResults
    <3>2. CASE wire # <<>> /\ wire' = Tail(wire)
      <4>1. i + 1 \in DOMAIN wire /\ wire'[i] = wire[i + 1]
        BY <1>0, <2>2, <3>2, SeqTail
      <4> QED BY <1>0, <2>0, <2>1, <2>2, <4>1 DEF GateResults
    <3>3. ASSUME NEW m \in Message, native.turn # 0, m.of = native.turn,
                 wire' = Append(wire, m),
                 IsToolResult(m) => call' = [call EXCEPT ![native.turn] = "over"]
          PROVE  call'[gen.turn] = "over"
      <4>1. native.turn = gen.turn
        BY <1>0, <2>0, <3>3 DEF OwnTurn
      <4>2. \/ i \in DOMAIN wire /\ wire'[i] = wire[i]
            \/ wire'[i] = m
        BY <1>0, <2>2, <3>3
      <4> QED BY <1>0, <2>0, <2>1, <2>2, <3>3, <4>1, <4>2 DEF GateResults, CallType
    <3> QED BY <1>0, <3>1, <3>2, <3>3, WireSteps
  <2>3. ASSUME NEW i \in DOMAIN gen'.buffer, IsToolResult(gen'.buffer[i])
        PROVE  call'[gen.turn] = "over"
    <3>1. CASE gen'.buffer = gen.buffer
      BY <1>0, <2>0, <2>1, <2>3, <3>1 DEF GateResults
    <3>2. CASE gen.buffer # <<>> /\ gen'.buffer = Tail(gen.buffer)
      <4>1. i + 1 \in DOMAIN gen.buffer /\ gen'.buffer[i] = gen.buffer[i + 1]
        BY <1>0, <2>3, <3>2, SeqTail
      <4> QED BY <1>0, <2>0, <2>1, <2>3, <4>1 DEF GateResults
    <3>3. CASE wire # <<>> /\ gen'.buffer = Append(gen.buffer, Head(wire))
      <4>1. 1 \in DOMAIN wire /\ Head(wire) = wire[1]
        BY <1>0, <3>3, SeqTail
      <4>2. \/ i \in DOMAIN gen.buffer /\ gen'.buffer[i] = gen.buffer[i]
            \/ gen'.buffer[i] = wire[1]
        BY <1>0, <2>3, <3>3, <4>1
      <4> QED BY <1>0, <2>0, <2>1, <2>3, <4>1, <4>2 DEF GateResults
    <3>4. gen'.buffer # <<>>
      BY <2>3
    <3> QED BY <1>0, <1>2, <3>1, <3>2, <3>3, <3>4, BufferSteps
  <2> QED BY <2>0, <2>2, <2>3 DEF GateResults, IsToolResult
<1> QED BY <1>1, <1>2

-----------------------------------------------------------------------------
(* The invariant, and the properties it gives.                              *)

\* Every step keeps the invariant, and it holds at the start.
LEMMA InvStep == Inv /\ [Next]_vars => Inv'
BY TypeStep, ReleasedStep, StoppingStep, FlightStep, OwnTurnStep, OwnWireStep, OwnBufferStep,
   StreamedStep, GateFutureStep, GateToldStep, GateResultsStep DEF Inv, Own, Gate

\* The invariant holds of a session just created.
LEMMA InvInit == Init => Inv
<1> SUFFICES ASSUME Init PROVE Inv
  OBVIOUS
<1> USE DEF Init
<1>1. TypeOK
  <2>1. SessionType /\ NativeType /\ WireType /\ CallType /\ ShownType
    BY DEF SessionType, NativeType, WireType, CallType, ShownType, Opening
  <2>2. StateType
    BY DEF StateType
  <2>3. GenType
    <3>1. <<>> \in Seq(Message) /\ "idle" \in GenPlaces /\ "none" \in Ends
      BY EndsOfTurns DEF GenPlaces
    <3> QED BY <3>1 DEF GenType
  <2>4. StopType
    BY DEF StopType, Callers
  <2> QED BY <2>1, <2>2, <2>3, <2>4 DEF TypeOK
<1>2. Released /\ Stopping /\ Flight
  BY DEF Released, ReleasedIsReaped, Opening, Stopping, Flight, Clean, Callers
<1>3. Own
  BY BoundsAssumption DEF Own, OwnTurn, OwnWire, OwnBuffer, Receiving
<1>4. Streamed
  BY DEF Streamed, TurnIsOwn
<1>5. Gate
  BY DEF Gate, GateFuture, GateTold, GateResults, Receiving
<1> QED BY <1>1, <1>2, <1>3, <1>4, <1>5 DEF Inv

\* The invariant the theorems below rest on holds throughout: who may be at work,
\* whose messages are where, and what has been told.
THEOREM Invariance == Spec => []Inv
BY InvInit, InvStep, PTL DEF Spec

\* A stream shows its own turn's messages and ends with at most one terminal.
THEOREM StreamsShowTheirTurn == Spec => []TurnIsOwn
<1>1. Inv => TurnIsOwn
  BY DEF Inv, Streamed
<1> QED BY <1>1, Invariance, PTL

\* A session that left the tables has no process, nor one never published.
THEOREM ReleasedSessionsAreReaped == Spec => []ReleasedIsReaped
<1>1. Inv => ReleasedIsReaped
  BY DEF Inv, Released
<1> QED BY <1>1, Invariance, PTL

\* The caller is asked about the turn being streamed, never about one the CLI was
\* told to stop.
THEOREM CallersAreAskedInTurn == Spec => AsksOwnTurn
<1>1. ASSUME Inv, [Next]_vars, NEW t \in Turns,
             life = "live", call[t] # "host", call'[t] = "host"
      PROVE  gen.turn = t /\ gen.pc # "idle" /\ stop["intr"].pc # "returned"
  <2>0. /\ TypeOK /\ OwnTurn /\ Flight /\ Stopping /\ CallType
        /\ state.drain \in BOOLEAN /\ 0 \notin Turns
    BY <1>1 DEF Inv, TypeOK, StateType, Own, Turns
  <2>1. PICK u \in Turns, tool \in {"allowed", "denied"} : Ask(u, tool) /\ u = t
    <3>1. CASE \E u \in Turns : \E tool \in {"allowed", "denied"} : Ask(u, tool)
      BY <1>1, <2>0, <3>1 DEF Ask, CallType
    <3>2. CASE \E u \in Turns : \E answer \in {"allow", "deny", "abort", "failed"} :
                   Answer(u, answer)
      BY <1>1, <2>0, <3>2 DEF Answer, CallType
    <3>3. CASE NativeFrame \/ NativeToolResult
      BY <1>1, <2>0, <3>3 DEF NativeFrame, NativeToolResult, CallType
    <3>4. CASE ~ Callbacks /\ ~ NativeFrame /\ ~ NativeToolResult
      BY <1>1, <3>4, CallIsStill
    <3> QED BY <3>1, <3>2, <3>3, <3>4 DEF Callbacks
  <2>2. native.turn = t /\ ~ state.drain
    BY <1>1, <2>0, <2>1 DEF Ask, Retired, CallType
  <2>3. gen.turn = t /\ state.flight
    BY <2>0, <2>2 DEF OwnTurn, Flight, Clean
  <2> QED BY <1>1, <2>0, <2>2, <2>3 DEF Flight, Stopping
<1>2. Inv /\ [Next]_vars =>
        [\A t \in Turns : life = "live" /\ call[t] # "host" /\ call'[t] = "host" =>
            /\ gen.turn = t /\ gen.pc # "idle"
            /\ stop["intr"].pc # "returned"]_call
  BY <1>1
<1> QED BY <1>2, Invariance, PTL DEF Spec, AsksOwnTurn

\* The decision about a tool is told before what the tool did, unless the turn was
\* interrupted.
THEOREM DecisionsPrecedeResults == Spec => GatedInOrder
<1>1. ASSUME Inv, [Next]_vars, NEW i \in DOMAIN shown' \ DOMAIN shown,
             shown'[i].kind = "toolresult", stop["intr"].pc # "returned"
      PROVE  \E j \in 1 .. i - 1 : shown'[j] = [of |-> gen.turn, kind |-> "approval"]
  <2>0. /\ TypeOK /\ Gate /\ Own /\ StateType /\ shown \in Seq(ShownEvent)
        /\ wire \in Seq(Message) /\ gen.buffer \in Seq(Message)
        /\ state.tools \subseteq {"tool"}
    BY <1>1 DEF Inv, TypeOK, ShownType, WireType, GenType, StateType
  <2>1. ~ StartTurn
    BY <1>1 DEF StartTurn
  <2>2. ASSUME NEW es, Plain(es), shown' = shown \o es PROVE FALSE
    <3>1. i - Len(shown) \in DOMAIN es /\ shown'[i] = es[i - Len(shown)]
      BY <1>1, <2>0, <2>2, Concatenation DEF Plain
    <3> QED BY <1>1, <2>2, <3>1 DEF Plain
  <2>3. PICK m : /\ Taken(m) /\ ~ Refuses(m) /\ ~ state.defect
                 /\ shown' = shown \o Told(state, m)
    BY <1>1, <2>1, <2>2, ShownSteps
  <2>4. m \in Message /\ Receiving
    BY <1>1, <2>3, TakenIsOwn DEF Taken, Receiving
  <2> DEFINE told == Told(state, m)
  <2>5. /\ told \in Seq(ShownEvent) /\ Len(told) = Len(state.pending) + 1
        /\ told[Len(told)] = Event(m)
        /\ \A k \in DOMAIN state.pending :
              /\ k \in DOMAIN told /\ k < Len(told)
              /\ told[k] = [of |-> state.pending[k], kind |-> "approval"]
        /\ \A k \in DOMAIN told :
              told[k].kind = "approval" \/ (k = Len(told) /\ told[k] = Event(m))
        /\ shown' = shown \o told
    BY <2>0, <2>3, <2>4, ToldFields
  <2> HIDE DEF told
  <2>6. i - Len(shown) \in DOMAIN told /\ shown'[i] = told[i - Len(shown)]
    BY <1>1, <2>0, <2>5, Concatenation
  <2>7. i = Len(shown) + Len(told) /\ m.kind = "toolresult" /\ Len(told) \in Nat
        /\ Len(shown) \in Nat
    <3>1. told[i - Len(shown)].kind # "approval"
      BY <1>1, <2>6
    <3>2. i - Len(shown) = Len(told) /\ told[i - Len(shown)] = Event(m)
      BY <2>5, <2>6, <3>1
    <3>3. Len(told) \in Nat /\ Len(shown) \in Nat /\ i \in Nat
      BY <1>1, <2>0, <2>5, Concatenation
    <3> QED BY <1>1, <2>6, <3>2, <3>3 DEF Event
  <2>8. IsToolResult(m)
    BY <2>0, <2>3, <2>7 DEF Refuses, IsToolResult
  <2>9. call[gen.turn] = "over"
    <3>1. CASE gen.buffer # <<>> /\ m = Head(gen.buffer)
      BY <2>0, <2>4, <2>8, <3>1, SeqTail DEF Gate, GateResults
    <3>2. CASE wire # <<>> /\ m = Head(wire)
      BY <2>0, <2>4, <2>8, <3>2, SeqTail DEF Gate, GateResults
    <3> QED BY <2>3, <3>1, <3>2 DEF Taken
  <2>10. Answered(gen.turn)
    BY <2>0, <2>4, <2>9 DEF Gate, GateTold, Decided
  <2>11. ASSUME NEW j \in DOMAIN shown, shown[j] = [of |-> gen.turn, kind |-> "approval"]
         PROVE  j \in 1 .. i - 1 /\ shown'[j] = [of |-> gen.turn, kind |-> "approval"]
    <3>1. j \in DOMAIN (shown \o told) /\ (shown \o told)[j] = shown[j]
      BY <2>0, <2>5, <2>11, Concatenation
    <3>2. j \in 1 .. Len(shown) /\ Len(told) > 0 /\ Len(state.pending) \in Nat
      BY <2>0, <2>5, <2>11 DEF StateType
    <3> QED BY <2>5, <2>7, <2>11, <3>1, <3>2
  <2>12. ASSUME NEW k \in DOMAIN state.pending, state.pending[k] = gen.turn
         PROVE  /\ Len(shown) + k \in 1 .. i - 1
                /\ shown'[Len(shown) + k] = [of |-> gen.turn, kind |-> "approval"]
    <3>1. k \in Nat /\ k > 0 /\ k < Len(told) /\ k \in DOMAIN told
      BY <2>0, <2>5, <2>12 DEF StateType
    <3>2. told \in Seq(ShownEvent) /\ shown \in Seq(ShownEvent) /\ shown' = shown \o told
          /\ k \in DOMAIN told /\ told[k] = [of |-> gen.turn, kind |-> "approval"]
      BY <2>0, <2>5, <2>12, <3>1
    <3>3. /\ Len(shown) + k \in DOMAIN shown'
          /\ shown'[Len(shown) + k] = [of |-> gen.turn, kind |-> "approval"]
      BY <2>0, <3>2, Concatenation
    <3>4. Len(shown) + k \in 1 .. i - 1
      BY <2>7, <3>1
    <3> QED BY <3>2, <3>3, <3>4
  <2> QED BY <1>1, <2>3, <2>10, <2>11, <2>12 DEF Answered
<1>2. Inv /\ [Next]_vars =>
        [\A i \in DOMAIN shown' \ DOMAIN shown :
            shown'[i].kind = "toolresult" =>
                \/ stop["intr"].pc = "returned"
                \/ \E j \in 1 .. i - 1 : shown'[j] = [of |-> gen.turn, kind |-> "approval"]]_shown
  BY <1>1
<1> QED BY <1>2, Invariance, PTL DEF Spec, GatedInOrder
=============================================================================
