---------------------------- MODULE MessagesRelay ----------------------------
(***************************************************************************)
(* A streaming Messages request served by an Anthropic upstream: upstream  *)
(* events -> the decoder -> canonical chunks -> the encoder ->             *)
(* the consumer, pumped by anthropic_sse_from_response of server.rs. The   *)
(* upstream composes its message freely and may fail or hang up anywhere;  *)
(* collect folds the same chunks for a consumer that does not stream.      *)
(***************************************************************************)
EXTENDS MessagesDialect, FiniteSets

CONSTANTS
    BlockTypes,     \* block types the upstream uses
    StopReasons,    \* stop reasons it gives
    MaxBlocks,      \* bound: blocks of a message
    MaxFragments    \* bound: fragments, signatures and ids of a message

VARIABLES
    upstream,       \* the message as composed so far, and how it stands
    dec,            \* the provider's decoder
    enc,            \* the edge's encoder; its frames are read at once
    consumer,       \* the consumer's reader
    collected       \* the collector

vars == <<upstream, dec, enc, consumer, collected>>

Phases == {"idle", "between", "block", "ended", "stopped", "failed", "closed"}

TypeOK ==
    /\ upstream.phase \in Phases
    /\ Len(upstream.blocks) <= MaxBlocks /\ upstream.fresh \in 0..MaxFragments
    /\ dec.next_tool_index <= Len(upstream.blocks)
    /\ Cardinality(DOMAIN dec.compactions) <= 1
    /\ enc.out = <<>>
    /\ enc.next_index = Len(consumer.blocks)
    /\ (enc.open # None) = consumer.open

Init ==
    /\ upstream = [phase |-> "idle", blocks |-> <<>>, fresh |-> 0, reason |-> None, output |-> 0]
    /\ dec = NewDecoder
    /\ enc = NewEncoder("request")
    /\ consumer = NewReader
    /\ collected = NoResponse

-----------------------------------------------------------------------------
(* The pump: every chunk of a decoded event is encoded and its frames sent.*)

Deliver(encoder) ==
    /\ enc' = [encoder EXCEPT !.out = <<>>]
    /\ consumer' = FoldLeft(ReadStep, consumer, encoder.out)

Relay(e) ==
    LET decoded == Decode(dec, e)
    IN /\ dec' = decoded.dec
       /\ Deliver(FoldLeft(Encode, enc, decoded.chunks))
       /\ collected' = FoldLeft(CollectStep, collected, decoded.chunks)

-----------------------------------------------------------------------------
(* The upstream.                                                           *)

Compose(phase, blocks, fresh) ==
    upstream' = [upstream EXCEPT !.phase = phase, !.blocks = blocks, !.fresh = fresh]

Begin ==
    /\ upstream.phase = "idle"
    /\ Compose("between", <<>>, 0)
    /\ Relay(MessageStart("upstream", [input |-> 1, output |-> 0]))

\* The next fragment, signature or id is the next number.
Next1 == upstream.fresh + 1

OpenUpstream(type) ==
    /\ upstream.phase = "between" /\ Len(upstream.blocks) < MaxBlocks
    /\ LET tagged == type \in {"tool_use", "redacted_thinking"}
       IN \E signed \in IF type = "compaction" THEN BOOLEAN ELSE {FALSE} :
           /\ tagged \/ signed => Next1 <= MaxFragments
           /\ LET block == Block(type, IF tagged THEN Next1 ELSE None,
                                 IF signed THEN <<Next1>> ELSE <<>>,
                                 IF signed THEN Next1 ELSE None)
              IN /\ Compose("block", Append(upstream.blocks, block),
                            IF tagged \/ signed THEN Next1 ELSE upstream.fresh)
                 /\ Relay(BlockStart(Len(upstream.blocks), block))

Growing == Last(upstream.blocks)

\* A delta of the open block, possibly empty; a whole block takes none.
Grow(body) ==
    /\ upstream.phase = "block" /\ Next1 <= MaxFragments
    /\ Growing.type \in DOMAIN DeltaOf /\ Growing.signature = None
    /\ body \in {<<>>, <<Next1>>}
    /\ LET delta == Fragment(DeltaOf[Growing.type], body)
       IN /\ Compose("block", Append(Front(upstream.blocks), Extend(Growing, delta)), Next1)
          /\ Relay(BlockDelta(Len(upstream.blocks) - 1, delta))

Sign ==
    /\ upstream.phase = "block" /\ Next1 <= MaxFragments
    /\ Growing.type = "thinking" /\ Growing.signature = None
    /\ LET delta == Signed(Next1)
       IN /\ Compose("block", Append(Front(upstream.blocks), Extend(Growing, delta)), Next1)
          /\ Relay(BlockDelta(Len(upstream.blocks) - 1, delta))

CloseUpstream ==
    /\ upstream.phase = "block"
    /\ Compose("between", upstream.blocks, upstream.fresh)
    /\ Relay(BlockStop(Len(upstream.blocks) - 1))

\* message_delta, at most twice: usage is cumulative, the reason stands.
EndMessage(reason) ==
    /\ upstream.phase \in {"between", "ended"} /\ upstream.output < 2
    /\ upstream.reason \in {None, reason}
    /\ upstream' = [upstream EXCEPT !.phase = "ended", !.reason = reason, !.output = @ + 1]
    /\ Relay(MessageDelta(reason, [input |-> None, output |-> upstream.output + 1]))

StopMessage ==
    /\ upstream.phase = "ended"
    /\ Compose("stopped", upstream.blocks, upstream.fresh)
    /\ Relay(MessageStop)

\* An error event or a transport error: the consumer gets one error event and nothing else.
Fail ==
    /\ upstream.phase \notin {"failed", "closed"}
    /\ Compose("failed", upstream.blocks, upstream.fresh)
    /\ consumer' = ReadStep(consumer, ErrorEvent)
    /\ UNCHANGED <<dec, enc, collected>>

\* The body ends: the edge finishes the message.
Close ==
    /\ upstream.phase \notin {"failed", "closed"}
    /\ Compose("closed", upstream.blocks, upstream.fresh)
    /\ Deliver(FinishMessage(enc))
    /\ UNCHANGED <<dec, collected>>

Next ==
    \/ Begin
    \/ \E type \in BlockTypes : OpenUpstream(type)
    \/ \E body \in {<<>>, <<Next1>>} : Grow(body)
    \/ Sign \/ CloseUpstream
    \/ \E reason \in StopReasons : EndMessage(reason)
    \/ StopMessage \/ Fail \/ Close

Spec == Init /\ [][Next]_vars

-----------------------------------------------------------------------------
(* Properties.                                                             *)

\* The consumer is never sent an event out of place: blocks are bracketed and numbered in order,
\* deltas fit the open block, and a stream ends once, with message_stop or with an error.
Bracketed ==
    /\ ~consumer.broken
    /\ (upstream.phase = "closed") = consumer.stopped
    /\ (upstream.phase = "failed") = consumer.failed

\* What the wire can show of a message: empty text and thinking vanish, neighbours that then
\* touch are one, and the later signature stands.
Merge(blocks, block) ==
    IF block.type \in {"text", "thinking"} /\ block.body = <<>> /\ block.signature = None
    THEN blocks
    ELSE IF blocks # <<>> /\ block.type \in {"text", "thinking"} /\ Last(blocks).type = block.type
    THEN Append(Front(blocks),
                [Last(blocks) EXCEPT !.body = @ \o block.body,
                     !.signature = IF block.signature = None THEN @ ELSE block.signature])
    ELSE Append(blocks, block)
Shown(blocks) == FoldLeft(Merge, <<>>, blocks)

\* A compaction is shown once it is complete.
Visible ==
    IF upstream.blocks # <<>> /\ Growing.type = "compaction"
       /\ upstream.phase \in {"block", "failed", "closed"} /\ Cardinality(DOMAIN dec.compactions) = 1
    THEN Front(upstream.blocks) ELSE upstream.blocks

\* At every moment the consumer has assembled what the upstream has sent so far, block by block.
Faithful == Shown(consumer.blocks) = Shown(Visible)

OfType(type) == SelectSeq(Visible, LAMBDA b : b.type = type)
Bodies(type) == FlattenSeq([k \in DOMAIN OfType(type) |-> OfType(type)[k].body])

\* The collected response holds the same text, calls, redacted data and compactions as the stream.
CollectAgrees ==
    LET choice == At(collected.choices, 0, NoChoice)
        tools == OfType("tool_use")
    IN /\ choice.text = Bodies("text") /\ choice.thinking = Bodies("thinking")
       /\ DOMAIN choice.tools = 0..Len(tools) - 1
       /\ \A k \in DOMAIN tools :
              choice.tools[k - 1] = [id |-> tools[k].tag, arguments |-> tools[k].body]
       /\ choice.redacted = [k \in DOMAIN OfType("redacted_thinking") |->
                                OfType("redacted_thinking")[k].tag]
       /\ [k \in DOMAIN choice.compaction |-> choice.compaction[k].content]
          = [k \in DOMAIN OfType("compaction") |-> OfType("compaction")[k].body]

\* A finished message carries the upstream's first stop reason and its last cumulative usage, with
\* the input tokens that only message_start reported.
TrailerTrue ==
    consumer.stopped /\ upstream.reason # None =>
        /\ consumer.reason = upstream.reason
        /\ consumer.usage = [input |-> 1, output |-> upstream.output]
=============================================================================
