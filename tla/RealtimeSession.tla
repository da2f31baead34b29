--------------------------- MODULE RealtimeSession ----------------------------
(***************************************************************************)
(* One realtime session (llmleaf-core: server.rs, engine.rs): the core's   *)
(* loop between the consumer's socket and the two bounded channels of its  *)
(* RealtimePeer, the provider's loop between those and the upstream socket *)
(* (llmleaf-providers: realtime_ws.rs), the probe that ends with the first *)
(* frame of the provider, and the chat bridge that serves a session no     *)
(* provider does, or takes over one that fails before that frame.          *)
(***************************************************************************)
EXTENDS RealtimeBridge

CONSTANTS
    Targets,                    \* the model's chain holds each of them, in some order
    Capacity,                   \* slots of a channel
    MAX_REALTIME_REPLAY_BYTES,  \* a frame counts for one
    ClientEvents,               \* what the consumer may have said
    Pieces,                     \* chunk kinds a turn may stream
    MaxSaid,                    \* bound: frames of the consumer
    MaxSpoken,                  \* bound: frames of the upstream
    MaxPieces                   \* bound: chunks of a session

VARIABLES
    client,     \* frames the consumer sent, how many are read, what it was sent, whether it hung up
    core,       \* the session's task: where it is, the frame in its hand, the replay buffer
    peer,       \* the channels: inbound to the provider, outbound from it
    provider,   \* the provider's task and the upstream behind it
    session,    \* the bridge
    turn,       \* the bridge's turn
    log         \* the events of the session's request id

vars == <<client, core, peer, provider, session, turn, log>>

\* A frame is its place in what was said; Close is RealtimeWire::Close.
Close == 0
Upto(n) == [k \in 1..n |-> k]

\* Nothing follows a Close in a channel; the frames are what is before it.
Frames(wires) == IF wires # <<>> /\ Last(wires) = Close THEN Front(wires) ELSE wires

NoTurn == [open |-> FALSE, chunks |-> <<>>, scaffold |-> NewScaffold, frames |-> <<>>,
           reason |-> None, persist |-> TRUE, past |-> 0]

-----------------------------------------------------------------------------
(* realtime_target: the first capable target that is not cooling down, or  *)
(* the first capable one.                                                  *)

Eligible(pick, honor_cooldown) ==
    {k \in DOMAIN pick.chain : /\ pick.chain[k] \in pick.registered \cap pick.capable
                               /\ ~(honor_cooldown /\ pick.chain[k] \in pick.down)}

RealtimeTarget(pick) ==
    LET ready == Eligible(pick, TRUE)
        eligible == IF ready # {} THEN ready ELSE Eligible(pick, FALSE)
    IN IF eligible = {} THEN None ELSE pick.chain[Min(eligible)]

Picks == [chain : SetToSeqs(Targets), registered : SUBSET Targets,
          capable : SUBSET Targets, down : SUBSET Targets]

Init ==
    /\ client = [said |-> 0, read |-> 0, heard |-> <<>>, gone |-> FALSE]
    /\ \E pick \in Picks : core = [pc |-> "handshake", pick |-> pick, frame |-> None,
                                   replay |-> <<>>, bytes |-> 0]
    /\ peer = [inbound |-> <<>>, outbound |-> <<>>]
    /\ provider = [pc |-> "none", frame |-> None, wrote |-> <<>>, spoken |-> <<>>, failed |-> FALSE]
    /\ session = NewSession
    /\ turn = NoTurn
    /\ log = <<>>

-----------------------------------------------------------------------------
(* The consumer.                                                           *)

Say ==
    /\ core.pc \notin {"handshake", "ended"} /\ ~client.gone /\ client.said < MaxSaid
    /\ client' = [client EXCEPT !.said = @ + 1]
    /\ UNCHANGED <<core, peer, provider, session, turn, log>>

\* A Close frame, an error or the end of the socket, after what was sent before.
HangUp ==
    /\ core.pc \notin {"handshake", "ended"} /\ ~client.gone
    /\ client' = [client EXCEPT !.gone = TRUE]
    /\ UNCHANGED <<core, peer, provider, session, turn, log>>

Unread == client.read < client.said
HungUp == client.gone /\ ~Unread

-----------------------------------------------------------------------------
(* The core, native.                                                       *)

Goto(pc) == core' = [core EXCEPT !.pc = pc]
End(event) == Goto("ended") /\ log' = Append(log, event)

\* handle_realtime.
Handle ==
    /\ core.pc = "handshake"
    /\ LET native == RealtimeTarget(core.pick) # None
       IN /\ core' = [core EXCEPT !.pc = IF native THEN "probe" ELSE "open", !.pick = None]
          /\ provider' = [provider EXCEPT !.pc = IF native THEN "dial" ELSE @]
          /\ log' = IF native THEN <<"started", "routed">> ELSE <<"started">>
    /\ UNCHANGED <<client, peer, session, turn>>

Ended == provider.pc = "done"

\* Sending to a channel waits for room and fails once its receiver is gone.
Sent(frame) ==
    \/ Ended /\ UNCHANGED peer
    \/ /\ ~Ended /\ Len(peer.inbound) < Capacity
       /\ peer' = [peer EXCEPT !.inbound = Append(@, frame)]

Overflowed == core.bytes > MAX_REALTIME_REPLAY_BYTES

\* A frame of the consumer before the first of the provider is kept for a replay.
ProbeFrame ==
    /\ core.pc = "probe" /\ Unread
    /\ LET n == client.read + 1
       IN /\ client' = [client EXCEPT !.read = n]
          /\ core' = [core EXCEPT !.pc = "probe_send", !.frame = n, !.bytes = @ + 1,
                         !.replay = IF core.bytes < MAX_REALTIME_REPLAY_BYTES THEN Append(@, n) ELSE @]
    /\ UNCHANGED <<peer, provider, session, turn, log>>

ProbeSend ==
    /\ core.pc = "probe_send"
    /\ Sent(core.frame)
    /\ core' = [core EXCEPT !.pc = "probe", !.frame = None]
    /\ UNCHANGED <<client, provider, session, turn, log>>

\* The provider's task is cancelled; its thread sees the channels go.
ProbeHangUp ==
    /\ core.pc = "probe" /\ HungUp
    /\ End("completed")
    /\ UNCHANGED <<client, peer, provider, session, turn>>

\* The provider ended without a frame: the bridge takes over, or there is nothing to take over.
ProbeEnds ==
    /\ core.pc = "probe" /\ Ended /\ peer.outbound = <<>>
    /\ \/ provider.failed /\ Overflowed /\ End("failed")
       \/ provider.failed /\ ~Overflowed /\ Goto("open") /\ UNCHANGED log
       \/ ~provider.failed /\ End("completed")
    /\ UNCHANGED <<client, peer, provider, session, turn>>

\* forward_native_wire taps the usage of a response.done before it sends the frame on.
Receive ==
    /\ core.pc \in {"probe", "pump"} /\ peer.outbound # <<>>
    /\ LET wire == Head(peer.outbound)
       IN /\ core' = [core EXCEPT !.pc = "forward", !.frame = wire, !.replay = <<>>]
          /\ log' = IF wire # Close /\ provider.spoken[wire] = "response_done"
                    THEN Append(log, "usage") ELSE log
    /\ peer' = [peer EXCEPT !.outbound = Tail(@)]
    /\ UNCHANGED <<client, provider, session, turn>>

Forward ==
    /\ core.pc = "forward"
    /\ \/ /\ core.frame # Close
          /\ client' = [client EXCEPT !.heard = Append(@, core.frame)]
          /\ core' = [core EXCEPT !.pc = "pump", !.frame = None]
       \/ /\ core.frame = Close \/ client.gone
          /\ core' = [core EXCEPT !.pc = "farewell", !.frame = None]
          /\ UNCHANGED client
    /\ UNCHANGED <<peer, provider, session, turn, log>>

PumpFrame ==
    /\ core.pc = "pump" /\ Unread
    /\ client' = [client EXCEPT !.read = @ + 1]
    /\ core' = [core EXCEPT !.pc = "pump_send", !.frame = client'.read]
    /\ UNCHANGED <<peer, provider, session, turn, log>>

\* A frame no provider takes any more ends the loop, whatever outbound still holds.
PumpSend ==
    /\ core.pc = "pump_send"
    /\ Sent(core.frame)
    /\ core' = IF Ended THEN [core EXCEPT !.pc = "farewell"]
               ELSE [core EXCEPT !.pc = "pump", !.frame = None]
    /\ UNCHANGED <<client, provider, session, turn, log>>

\* Either side is over.
PumpEnds ==
    /\ core.pc = "pump" /\ (HungUp \/ (Ended /\ peer.outbound = <<>>))
    /\ Goto("farewell")
    /\ UNCHANGED <<client, peer, provider, session, turn, log>>

\* The provider is told; nobody reads outbound any more.
Farewell ==
    /\ core.pc = "farewell"
    /\ Sent(Close)
    /\ Goto("join")
    /\ UNCHANGED <<client, provider, session, turn, log>>

Join ==
    /\ core.pc = "join" /\ Ended
    /\ End(IF provider.failed THEN "failed" ELSE "completed")
    /\ UNCHANGED <<client, peer, provider, session, turn>>

Native ==
    \/ Handle \/ ProbeFrame \/ ProbeSend \/ ProbeHangUp \/ ProbeEnds \/ Receive
    \/ Forward \/ PumpFrame \/ PumpSend \/ PumpEnds \/ Farewell \/ Join

-----------------------------------------------------------------------------
(* The core, bridging: run_bridge_replaying. A send to a consumer that is  *)
(* gone may fail, which ends the session.                                  *)

SendFails ==
    /\ client.gone
    /\ End("completed")
    /\ UNCHANGED <<session, turn>>

\* session.created, before anything is replayed.
BridgeOpens ==
    /\ core.pc = "open"
    /\ (Goto("bridge") /\ UNCHANGED <<session, turn, log>>) \/ SendFails
    /\ UNCHANGED <<client, peer, provider>>

\* The next frame of the replay, then of the socket.
Replaying == core.replay # <<>>
Next1 == IF Replaying THEN Head(core.replay) ELSE client.read + 1

Read ==
    client' = IF Replaying THEN client ELSE [client EXCEPT !.read = @ + 1]

BridgeTo(pc) ==
    core' = [core EXCEPT !.pc = pc, !.replay = IF Replaying THEN Tail(@) ELSE @]

\* Only here does it matter what the consumer has said.
BridgeFrame ==
    /\ core.pc = "bridge" /\ (Replaying \/ Unread)
    /\ Read
    /\ \E event \in ClientEvents :
          LET runs == event \in Creates /\ ~WantsAudio(session, event)
          IN /\ session' = HandleEvent(session, Next1, event)
             /\ \/ ~runs /\ BridgeTo("bridge") /\ UNCHANGED <<turn, log>>
                \/ /\ runs
                   /\ BridgeTo("turn")
                   /\ turn' = [NoTurn EXCEPT !.open = TRUE, !.frames = <<Bare("created")>>,
                                  !.persist = event # "aside",
                                  !.past = turn.past + Len(turn.chunks)]
                   /\ UNCHANGED log
                \/ /\ client.gone /\ (runs \/ event \in Answered)
                   /\ BridgeTo("ended")
                   /\ log' = Append(log, "completed")
                   /\ UNCHANGED turn
    /\ UNCHANGED <<peer, provider>>

BridgeHangUp ==
    /\ core.pc = "bridge" /\ ~Replaying /\ HungUp
    /\ End("completed")
    /\ UNCHANGED <<client, peer, provider, session, turn>>

\* Engine::run refuses the turn; only an error tells.
TurnRefused ==
    /\ core.pc = "turn" /\ turn.chunks = <<>>
    /\ turn' = [turn EXCEPT !.open = FALSE, !.frames = Append(@, Bare("error"))]
    /\ Goto("bridge")
    /\ UNCHANGED <<client, peer, provider, session, log>>

\* What a provider may stream: the first delta of a call has its id.
Streamed == turn.past + Len(turn.chunks)
Fragment == <<Streamed + 1>>
Chunks(piece) ==
    CASE piece = "content" -> {Content(0, Fragment)}
      [] piece = "thinking" -> {Thinking(0, Fragment)}
      [] piece = "signature" -> {ThinkingSignature(0, Fragment)}
      [] piece = "redacted" -> {RedactedThinking(0, Fragment)}
      [] piece = "tool" ->
            {ToolCall(0, n, IF n \in DOMAIN turn.scaffold.tools THEN None ELSE Fragment, arguments) :
                n \in {0, 1}, arguments \in {None, Fragment}}
      [] piece = "compaction" -> {Compaction(0, Fragment, None, None, None, None)}
      [] piece = "finish" -> {Finish(0, "length")}

TurnChunk ==
    /\ core.pc = "turn" /\ Streamed < MaxPieces
    /\ \/ /\ \E piece \in Pieces : \E c \in Chunks(piece) :
                LET step == OnChunk(turn.scaffold, c)
                IN turn' = [turn EXCEPT !.chunks = Append(@, c), !.scaffold = step.scaffold,
                               !.frames = @ \o step.out,
                               !.reason = IF c.kind = "finish" THEN c.reason ELSE @]
          /\ UNCHANGED <<core, session, log>>
       \/ SendFails
    /\ UNCHANGED <<client, peer, provider>>

\* The stream ends or breaks: the answer is kept, also when it broke, and the turn is closed.
TurnEnds ==
    /\ core.pc = "turn"
    /\ \/ \E broke \in BOOLEAN :
             LET reason == CASE broke -> "error"
                             [] ~broke /\ turn.reason = None -> "stop"
                             [] OTHER -> turn.reason
                 error == IF broke THEN <<Bare("error")>> ELSE <<>>
             IN /\ turn' = [turn EXCEPT !.open = FALSE, !.reason = reason,
                               !.frames = @ \o error \o FinishFrames(turn.scaffold, reason)]
                /\ session' = IF ~turn.persist THEN session
                              ELSE [session EXCEPT !.messages =
                                       Append(@, AssistantMessage(turn.scaffold))]
                /\ Goto("bridge")
                /\ UNCHANGED log
       \/ SendFails
    /\ UNCHANGED <<client, peer, provider>>

Bridge == BridgeOpens \/ BridgeFrame \/ BridgeHangUp \/ TurnRefused \/ TurnChunk \/ TurnEnds

Core == Native \/ Bridge

-----------------------------------------------------------------------------
(* The provider: run_realtime_session.                                     *)

Return(failed) == provider' = [provider EXCEPT !.pc = "done", !.frame = None, !.failed = failed]

Dial ==
    /\ provider.pc = "dial"
    /\ \/ provider' = [provider EXCEPT !.pc = "pump"]
       \/ Return(TRUE)
    /\ UNCHANGED <<client, core, peer, session, turn, log>>

\* A frame for the upstream; a failed write ends the session without an error.
TakeInbound ==
    /\ provider.pc = "pump" /\ peer.inbound # <<>>
    /\ peer' = [peer EXCEPT !.inbound = Tail(@)]
    /\ \/ /\ Head(peer.inbound) # Close
          /\ provider' = [provider EXCEPT !.wrote = Append(@, Head(peer.inbound))]
       \/ Return(FALSE)
    /\ UNCHANGED <<client, core, session, turn, log>>

\* The core has dropped its sender.
InboundDropped ==
    /\ provider.pc = "pump" /\ peer.inbound = <<>> /\ core.pc = "ended"
    /\ Return(FALSE)
    /\ UNCHANGED <<client, core, peer, session, turn, log>>

UpstreamSpeaks ==
    /\ provider.pc = "pump" /\ Len(provider.spoken) < MaxSpoken
    /\ \E frame \in {"delta", "response_done"} :
          provider' = [provider EXCEPT !.pc = "out", !.spoken = Append(@, frame),
                                       !.frame = Len(provider.spoken) + 1]
    /\ UNCHANGED <<client, core, peer, session, turn, log>>

UpstreamCloses ==
    /\ provider.pc = "pump"
    /\ provider' = [provider EXCEPT !.pc = "out", !.frame = Close]
    /\ UNCHANGED <<client, core, peer, session, turn, log>>

UpstreamFails ==
    /\ provider.pc = "pump"
    /\ Return(TRUE)
    /\ UNCHANGED <<client, core, peer, session, turn, log>>

\* Waits for room in outbound; fails once the core has dropped the receiver.
PutOutbound ==
    /\ provider.pc = "out"
    /\ \/ /\ core.pc # "ended" /\ Len(peer.outbound) < Capacity
          /\ peer' = [peer EXCEPT !.outbound = Append(@, provider.frame)]
          /\ IF provider.frame = Close THEN Return(FALSE)
             ELSE provider' = [provider EXCEPT !.pc = "pump", !.frame = None]
       \/ core.pc = "ended" /\ Return(FALSE) /\ UNCHANGED peer
    /\ UNCHANGED <<client, core, session, turn, log>>

\* What the provider does without its upstream.
Obliging == Dial \/ TakeInbound \/ InboundDropped \/ PutOutbound

Provider ==
    \/ Obliging
    \/ UpstreamSpeaks \/ UpstreamCloses \/ UpstreamFails

Next == Say \/ HangUp \/ Core \/ Provider

Spec == Init /\ [][Next]_vars

\* After the consumer has hung up nothing the core waits for depends on it; dialling ends, the
\* provider's loop takes turns, and the upstream is not asked for anything.
FairSpec ==
    /\ Spec
    /\ WF_vars(client.gone /\ Core)
    /\ WF_vars(Dial) /\ WF_vars(TakeInbound) /\ WF_vars(InboundDropped) /\ WF_vars(PutOutbound)

-----------------------------------------------------------------------------
(* Properties.                                                             *)

TypeOK ==
    /\ client.read \in 0..client.said
    /\ core.pc \in {"handshake", "probe", "probe_send", "pump", "pump_send", "forward", "farewell",
                    "join", "open", "bridge", "turn", "ended"}
    /\ provider.pc \in {"none", "dial", "pump", "out", "done"}
    /\ Len(peer.inbound) <= Capacity /\ Len(peer.outbound) <= Capacity
    /\ turn.open => core.pc \in {"turn", "ended"}

\* engine.rs realtime_target: a session is served natively whenever some target can, and by one
\* that is cooling down only if they all are.
FailsOpen ==
    core.pc = "handshake" =>
        LET able == core.pick.registered \cap core.pick.capable
            target == RealtimeTarget(core.pick)
        IN /\ target = None <=> able = {}
           /\ target # None => target \in able
           /\ target \in core.pick.down => able \subseteq core.pick.down

Probing == core.pc \in {"probe", "probe_send"}
Pumping == core.pc \in {"pump", "pump_send", "forward"}
Bridging == core.pc \in {"open", "bridge", "turn"}
InHand(pcs) == IF core.pc \in pcs THEN <<core.frame>> ELSE <<>>

\* server.rs run_native_realtime: no frame of the consumer is lost, doubled or moved: while the
\* provider lives they are on their way to the upstream, and one that fails before its first
\* frame leaves all of them to the bridge, unless there were too many.
HeardWhole ==
    /\ IsPrefix(provider.wrote, Upto(client.read))
    /\ (Probing \/ Pumping) /\ ~Ended =>
          provider.wrote \o Frames(peer.inbound) \o InHand({"probe_send", "pump_send"})
              = Upto(client.read)
    /\ Probing => Overflowed \/ core.replay = Upto(client.read)
    /\ Bridging => session.handled \o core.replay = Upto(client.read)

\* The consumer is sent what the upstream said, verbatim and to the end, unless it leaves or the
\* end is seen in vain by a frame of its own; a session the bridge serves has had nothing from an
\* upstream.
ToldWhole ==
    /\ Probing \/ Pumping =>
          client.heard \o Frames(InHand({"forward"})) \o Frames(peer.outbound)
              \o (IF provider.pc = "out" THEN Frames(<<provider.frame>>) ELSE <<>>)
              = Upto(Len(provider.spoken))
    /\ IsPrefix(client.heard, Upto(Len(provider.spoken)))
    /\ core.pc \in {"farewell", "join"} /\ ~client.gone /\ core.frame = None =>
          client.heard = Upto(Len(provider.spoken))
    /\ Bridging => provider.spoken = <<>>

Count(s, x) == Cardinality({k \in DOMAIN s : s[k] = x})
Terminal == {"completed", "failed"}

\* A session is bracketed once on the event bus, whoever serves it and however it changes hands;
\* it is not reported as completed when it broke after its first frame, and every response.done
\* the consumer was sent has its usage.
Bracketed ==
    /\ core.pc # "handshake" => Head(log) = "started" /\ Count(log, "started") = 1
    /\ \A k \in DOMAIN log : log[k] \in Terminal <=> k = Len(log) /\ core.pc = "ended"
    /\ core.pc = "ended" /\ client.heard # <<>> =>
          (Last(log) = "failed" <=> provider.failed)
    /\ Count([k \in DOMAIN client.heard |-> provider.spoken[client.heard[k]]], "response_done")
          <= Count(log, "usage")
    /\ Count(log, "usage") <= Count(provider.spoken, "response_done")

Types(at, types) ==
    SelectSeq(turn.frames, LAMBDA f : f.at = at /\ f.type \in types)

\* One item of a turn: added, streamed in numbered deltas, and done with what was streamed.
ItemStaged(at) ==
    LET staged == Types(at, {"added", "delta", "item_done"})
        deltas == Types(at, {"delta"})
        streamed == FlattenSeq([k \in DOMAIN deltas |-> deltas[k].body])
    IN /\ Head(staged).type = "added"
       /\ Len(Types(at, {"added"})) = 1
       /\ \A k \in DOMAIN staged : staged[k].type = "item_done" =>
             k = Len(staged) /\ staged[k].body = streamed

\* wire.rs ResponseScaffold: created, the items, response.done naming every one of them; an error
\* in its place only if nothing was streamed.
Staged ==
    LET frames == turn.frames
        deltas == SelectSeq(frames, LAMBDA f : f.type = "delta")
        done == SelectSeq(frames, LAMBDA f : f.type = "item_done")
        items == {frames[k].at : k \in {j \in DOMAIN frames : frames[j].type = "added"}}
    IN /\ \A k \in DOMAIN deltas : deltas[k].seq = k
       /\ \A k \in DOMAIN deltas : deltas[k].at \in items
       /\ \A at \in items : ItemStaged(at)
       /\ frames # <<>> /\ ~turn.open =>
             \/ Last(frames).type = "error" /\ Len(frames) = 2
             \/ /\ Last(frames).type = "response_done"
                /\ Last(frames).body.output = done
                /\ Last(frames).body.status = "failed" <=> Bare("error") \in ToSet(frames)
                /\ {done[k].at : k \in DOMAIN done} = items
       /\ \A k \in DOMAIN frames : frames[k].type \in {"created", "response_done"} =>
             k \in {1, Len(frames)}

\* session.rs: what the next request says the assistant said is the answer a collecting reader
\* would have, and what the consumer was shown of it.
RememberedAsCollected ==
    LET told == AssistantMessage(turn.scaffold)
        choice == At(CollectChunks(turn.chunks).choices, 0, NoChoice)
    IN told.content = choice.compaction \o ThinkingParts(choice)
                      \o (IF choice.text = <<>> THEN <<>> ELSE <<[text |-> choice.text]>>)
       /\ told.calls = [k \in DOMAIN CallsOf(turn.scaffold) |->
                           choice.tools[CallsOf(turn.scaffold)[k]]]

\* server.rs run_native_realtime: all that can keep a session whose consumer is gone is its
\* provider waiting for room in an outbound channel that the core does not read meanwhile.
OutlivesOnlyBlocked ==
    client.gone /\ core.pc # "ended" /\ ~ENABLED Core /\ ~ENABLED Obliging
        => /\ provider.pc = "out" /\ Len(peer.outbound) = Capacity
           /\ core.pc \in {"probe_send", "pump_send", "farewell", "join"}

\* session.rs: "The session itself is bracketed with `RequestStarted`/`RequestCompleted`": the
\* session of a consumer that has hung up ends.
SessionEnds == client.gone ~> core.pc = "ended"
=============================================================================
