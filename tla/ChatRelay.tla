------------------------------ MODULE ChatRelay ------------------------------
(***************************************************************************)
(* A streaming chat completion through a chain of llmleaf nodes            *)
(* (provider kind "llmleaf" or any OpenAI-wire upstream): each node        *)
(* decodes the frames it reads (openai_sse_to_stream of openai_wire.rs),   *)
(* encodes its own (the ChunkEncoder of compat/openai.rs) and ends with    *)
(* [DONE] (sse_from_response). The upstream streams its choices in any     *)
(* interleaving, and may fail or hang up.                                  *)
(***************************************************************************)
EXTENDS StreamChunks, FiniteSets

CONSTANTS
    Wanted,         \* choice indexes the request asked for
    Hops,           \* nodes on the way
    Reasons,        \* finish reasons the upstream gives
    MaxFragments,   \* bound: fragments and ids
    MaxCalls        \* bound: tool calls of a choice

VARIABLES
    upstream,       \* what the upstream sent, as a direct reader would read it
    fresh,          \* fragments and ids used
    broken,         \* the upstream failed instead of ending
    nodes,          \* each node's stream: its decoder, whether it ended, what it collected
    consumer        \* what the consumer of the last node read

vars == <<upstream, fresh, broken, nodes, consumer>>

-----------------------------------------------------------------------------
(* The chat.completion.chunk stream, which llmleaf reads from upstreams    *)
(* and writes to its consumers, and what a reader assembles per choice.    *)

\* A frame: its choices, its usage, and whether it is an error envelope or the [DONE] sentinel.
Frame(choices, usage) == [choices |-> choices, usage |-> usage, sort |-> "chunk"]
ErrorFrame == [choices |-> <<>>, usage |-> None, sort |-> "error"]
Done == [choices |-> <<>>, usage |-> None, sort |-> "done"]

\* One tool-call delta of a frame.
ToolFrame(call, id, arguments) == [call |-> call, id |-> id, arguments |-> arguments]

NoDelta == [reasoning |-> <<>>, content |-> <<>>, tools |-> <<>>, details |-> None,
            compaction |-> None]

Entry(i, delta, finish) == [index |-> i, delta |-> delta, finish |-> finish]

-----------------------------------------------------------------------------
(* A reader.                                                               *)

NewReader == [choices |-> <<>>, usage |-> None, done |-> FALSE, failed |-> FALSE, late |-> FALSE]

ReadTool(choice, t) == [choice EXCEPT !.tools = PutTool(@, t)]

ReadEntry(r, entry) ==
    LET old == At(r.choices, entry.index, NoChoice)
        new == [old EXCEPT !.text = @ \o entry.delta.content,
                           !.thinking = @ \o entry.delta.reasoning,
                           !.finish = IF entry.finish = None THEN @ ELSE entry.finish]
    IN [r EXCEPT !.choices =
           (entry.index :> FoldLeft(ReadTool, new, entry.delta.tools)) @@ @]

\* A frame after [DONE], or a chunk after an error, comes too late.
ReadStep(r, f) ==
    CASE r.done \/ (r.failed /\ f.sort = "chunk") -> [r EXCEPT !.late = TRUE]
      [] ~r.done /\ f.sort = "done" -> [r EXCEPT !.done = TRUE]
      [] ~r.done /\ f.sort = "error" -> [r EXCEPT !.failed = TRUE]
      [] OTHER -> [FoldLeft(ReadEntry, r, f.choices) EXCEPT
                       !.usage = IF f.usage = None THEN @ ELSE f.usage]

-----------------------------------------------------------------------------
(* openai_chunk_to_canonical: one frame to canonical chunks.               *)

MapFinish(reason) ==
    CASE reason \in {"length", "content_filter"} -> reason
      [] reason \in {"tool_calls", "function_call"} -> "tool_calls"
      [] OTHER -> "stop"

Optional(present, chunk) == IF present THEN <<chunk>> ELSE <<>>

\* Tool-call deltas carry their own index.
DecodeTools(i, tools) ==
    [k \in DOMAIN tools |-> ToolCall(i, tools[k].call, tools[k].id, tools[k].arguments)]

\* Reasoning, content, tool calls, then the finish; reasoning details are not read.
DecodeEntry(entry) ==
    LET i == entry.index
        d == entry.delta
    IN Optional(d.reasoning # <<>>, Thinking(i, d.reasoning))
       \o Optional(d.content # <<>>, Content(i, d.content))
       \o DecodeTools(i, d.tools)
       \o Optional(entry.finish # None, Finish(i, MapFinish(entry.finish)))

\* The first frame opens the response; an error envelope is a frame like any other.
Decode(seen_start, f) ==
    Optional(~seen_start, Start("response"))
    \o FlattenSeq([k \in DOMAIN f.choices |-> DecodeEntry(f.choices[k])])
    \o Optional(f.usage # None, Usage(f.usage))

-----------------------------------------------------------------------------
(* ChunkEncoder::encode_into: at most one frame per chunk.                 *)

FinishStr(reason) == IF reason = "error" THEN "stop" ELSE reason

One(i, delta) == Frame(<<Entry(i, delta, None)>>, None)

Encode(c) ==
    CASE c.kind = "start" -> <<One(0, NoDelta)>>
      [] c.kind = "content" -> <<One(c.index, [NoDelta EXCEPT !.content = c.delta])>>
      [] c.kind = "thinking" -> <<One(c.index, [NoDelta EXCEPT !.reasoning = c.delta])>>
      [] c.kind = "signature" -> <<One(c.index, [NoDelta EXCEPT !.details = c.signature])>>
      [] c.kind = "redacted" -> <<One(c.index, [NoDelta EXCEPT !.details = c.data])>>
      [] c.kind = "compaction" -> <<One(c.index, [NoDelta EXCEPT !.compaction = c.delta])>>
      [] c.kind = "tool" -> <<One(c.index, [NoDelta EXCEPT !.tools =
                                  <<ToolFrame(c.call, c.id, c.arguments)>>])>>
      [] c.kind = "usage" -> <<Frame(<<>>, c.usage)>>
      [] c.kind = "finish" -> <<Frame(<<Entry(c.index, NoDelta, FinishStr(c.reason))>>, None)>>
      [] c.kind = "output_item" -> <<>>

-----------------------------------------------------------------------------
(* The chain.                                                              *)

Route == 1..Hops

TypeOK ==
    /\ fresh \in 0..MaxFragments /\ broken \in BOOLEAN
    /\ \A h \in Route : nodes[h].ended => nodes[h].seen_start \/ nodes[h].collected = NoResponse
    /\ DOMAIN consumer.choices \subseteq Wanted \cup {0}

Init ==
    /\ upstream = NewReader
    /\ fresh = 0
    /\ broken = FALSE
    /\ nodes = [h \in Route |-> [seen_start |-> FALSE, ended |-> FALSE, collected |-> NoResponse]]
    /\ consumer = NewReader

-----------------------------------------------------------------------------
(* A node's pump. A transport failure and the end of the body reach the    *)
(* first node as "reset" and "eof".                                        *)

Signal(sort) == [choices |-> <<>>, usage |-> None, sort |-> sort]

\* How a node ends its own stream.
EndFrames(sort) == IF sort = "reset" THEN <<ErrorFrame, Done>> ELSE <<Done>>

\* One frame through a node; out gathers the frames it writes.
NodeStep(step, f) ==
    LET node == step.node
    IN IF node.ended THEN step
       ELSE IF f.sort \in {"done", "eof", "reset"}
       THEN [node |-> [node EXCEPT !.ended = TRUE], out |-> step.out \o EndFrames(f.sort)]
       ELSE LET chunks == Decode(node.seen_start, f)
            IN [node |-> [node EXCEPT !.seen_start = TRUE,
                                      !.collected = FoldLeft(CollectStep, @, chunks)],
                out |-> step.out \o FlattenSeq([k \in DOMAIN chunks |-> Encode(chunks[k])])]

Hop(chain, h) ==
    LET step == FoldLeft(NodeStep, [node |-> chain.nodes[h], out |-> <<>>], chain.frames)
    IN [nodes |-> [chain.nodes EXCEPT ![h] = step.node], frames |-> step.out]

\* A frame from the upstream goes through every node to the consumer.
Pass(f) ==
    LET chain == FoldLeft(Hop, [nodes |-> nodes, frames |-> <<f>>], [h \in Route |-> h])
    IN /\ nodes' = chain.nodes
       /\ consumer' = FoldLeft(ReadStep, consumer, chain.frames)

-----------------------------------------------------------------------------
(* The upstream.                                                           *)

Streaming == ~upstream.done /\ ~upstream.failed /\ ~broken
Sent(i) == At(upstream.choices, i, NoChoice)
Unfinished == {i \in Wanted : Sent(i).finish = None}

Send(used, f) ==
    /\ fresh + used <= MaxFragments
    /\ fresh' = fresh + used
    /\ upstream' = ReadStep(upstream, f)
    /\ UNCHANGED broken
    /\ Pass(f)

Text(field, n) == [NoDelta EXCEPT ![field] = <<n>>]

SendText(i, field) ==
    /\ Streaming /\ i \in Unfinished
    /\ Send(1, Frame(<<Entry(i, Text(field, fresh + 1), None)>>, None))

\* One frame may carry a delta of every choice.
SendAll ==
    /\ Streaming /\ Unfinished = Wanted
    /\ Send(Cardinality(Wanted),
            Frame(LET order == SetToSeq(Wanted)
                  IN [k \in DOMAIN order |-> Entry(order[k], Text("content", fresh + k), None)],
                  None))

\* A frame that brings reasoning, text, the finish reason and usage at once.
SendLast(i, reason) ==
    /\ Streaming /\ i \in Unfinished
    /\ Send(2, Frame(<<Entry(i, [Text("content", fresh + 2) EXCEPT !.reasoning = <<fresh + 1>>],
                             reason)>>, 7))

Calls(i) == Cardinality(DOMAIN Sent(i).tools)

OpenTools(i, count) ==
    /\ Streaming /\ i \in Unfinished /\ Calls(i) + count <= MaxCalls
    /\ Send(count, Frame(<<Entry(i, [NoDelta EXCEPT !.tools =
                [k \in 1..count |-> ToolFrame(Calls(i) + k - 1, fresh + k, <<>>)]], None)>>, None))

GrowTool(i, n) ==
    /\ Streaming /\ i \in Unfinished /\ n \in DOMAIN Sent(i).tools
    /\ Send(1, Frame(<<Entry(i, [NoDelta EXCEPT !.tools =
                <<ToolFrame(n, None, <<fresh + 1>>)>>], None)>>, None))

SendFinish(i, reason) ==
    /\ Streaming /\ i \in Unfinished
    /\ Send(0, Frame(<<Entry(i, NoDelta, reason)>>, None))

SendUsage ==
    /\ Streaming /\ upstream.usage = None
    /\ Send(0, Frame(<<>>, fresh))

SendDone ==
    /\ ~broken /\ ~upstream.done
    /\ Send(0, Done)

\* The upstream reports a failure in a frame, the way llmleaf itself does.
SendError ==
    /\ Streaming
    /\ Send(0, ErrorFrame)

\* The connection fails, or the body just ends.
Drop(sort) ==
    /\ ~broken /\ ~upstream.done
    /\ broken' = (sort = "reset")
    /\ upstream' = [upstream EXCEPT !.done = (sort = "eof")]
    /\ UNCHANGED fresh
    /\ Pass(Signal(sort))

Next ==
    \/ \E i \in Wanted :
           \/ \E field \in {"content", "reasoning"} : SendText(i, field)
           \/ \E reason \in Reasons : SendLast(i, reason) \/ SendFinish(i, reason)
           \/ \E count \in 1..2 : OpenTools(i, count)
           \/ \E n \in 0..MaxCalls : GrowTool(i, n)
    \/ SendAll \/ SendUsage \/ SendDone \/ SendError
    \/ \E sort \in {"reset", "eof"} : Drop(sort)

Spec == Init /\ [][Next]_vars

-----------------------------------------------------------------------------
(* Properties.                                                             *)

Same(choices) == \A i \in Wanted : At(choices, i, NoChoice) = Sent(i)

\* The consumer reads, choice by choice and call by call, what a direct reader of the upstream
\* would have read by now, and the same usage.
Relayed == Same(consumer.choices) /\ consumer.usage = upstream.usage

\* The same response is collected on every node.
CollectedAlike ==
    \A h \in Route : Same(nodes[h].collected.choices) /\ nodes[h].collected.usage = upstream.usage

\* The consumer's stream ends exactly when the upstream's does, with [DONE], after nothing late.
OneEnd == ~consumer.late /\ consumer.done = (upstream.done \/ broken)
=============================================================================
