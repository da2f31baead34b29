---------------------------- MODULE ResponsesEdge ----------------------------
(***************************************************************************)
(* A streaming Responses request served by an upstream of any dialect:     *)
(* canonical chunks -> the encoder -> the consumer, and the collector      *)
(* beside it. ResponsesRelay is the case of a Responses upstream; here the *)
(* chunks are whatever the other decoders yield: tool calls one after      *)
(* another, compactions without an output index.                           *)
(***************************************************************************)
EXTENDS ResponsesDialect

CONSTANTS
    Kinds,          \* chunk kinds the upstream yields
    MaxChunks       \* bound: chunks of a response

VARIABLES
    last,           \* rank of the latest chunk
    calls,          \* tool calls so far
    fresh,          \* chunks so far
    enc,            \* the edge's encoder; its events are read at once
    consumer,       \* the consumer's reader
    collected       \* the collector

vars == <<last, calls, fresh, enc, consumer, collected>>

Rank == "thinking" :> 1 @@ "signature" :> 2 @@ "redacted" :> 3 @@ "compaction" :> 4
        @@ "content" :> 5 @@ "tool" :> 6 @@ "finish" :> 7

TypeOK ==
    /\ last \in 0..7 /\ fresh \in 0..MaxChunks /\ calls \in 0..fresh
    /\ enc.out = <<>> /\ enc.seq = consumer.next
    /\ enc.output_index = Len(consumer.items)
    /\ DOMAIN enc.tools = 0..(calls - 1)

Init ==
    /\ last = 0 /\ calls = 0 /\ fresh = 0
    /\ enc = NewEncoder /\ consumer = NewReader /\ collected = NoResponse

-----------------------------------------------------------------------------

Deliver(encoder) ==
    /\ enc' = [encoder EXCEPT !.out = <<>>]
    /\ consumer' = FoldLeft(ReadStep, consumer, encoder.out)

Running == consumer.status = None

\* One chunk; a reasoning block is signed once, and only then may the next block follow.
Relay(chunk) ==
    /\ Running /\ fresh < MaxChunks /\ last # Rank["finish"]
    /\ last <= Rank[chunk.kind]
    /\ last = Rank[chunk.kind] => chunk.kind # "signature"
    /\ last' = Rank[chunk.kind]
    /\ fresh' = fresh + 1
    /\ Deliver(Encode(enc, chunk))
    /\ collected' = CollectStep(collected, chunk)

\* A chunk that carries text or data.
Speak(kind) ==
    /\ kind \in Kinds
    /\ CASE kind = "content"    -> Relay(Content(0, <<fresh>>))
         [] kind = "thinking"   -> Relay(Thinking(0, <<fresh>>))
         [] kind = "signature"  -> last = Rank["thinking"] /\ Relay(ThinkingSignature(0, fresh))
         [] kind = "redacted"   -> Relay(RedactedThinking(0, fresh))
         [] kind = "compaction" -> Relay(Compaction(0, <<fresh>>, None, None, None, None))
         [] kind = "tool"       -> FALSE
    /\ UNCHANGED calls

\* A call starts, with its id.
Call ==
    /\ "tool" \in Kinds
    /\ Relay(ToolCall(0, calls, fresh, None))
    /\ calls' = calls + 1

\* The latest call's arguments grow.
Extend ==
    /\ "tool" \in Kinds /\ calls > 0
    /\ Relay(ToolCall(0, calls - 1, None, <<fresh>>))
    /\ UNCHANGED calls

\* Other choices than the first are not shown.
Ignore ==
    /\ Relay(Content(1, <<fresh>>))
    /\ UNCHANGED calls

Stop(reason) ==
    /\ Relay(Finish(0, reason))
    /\ UNCHANGED calls

\* The stream ends, finished or not.
End ==
    /\ Running
    /\ Deliver(FinishResponse(enc))
    /\ UNCHANGED <<last, calls, fresh, collected>>

Next ==
    \/ \E kind \in Kinds : Speak(kind)
    \/ Call \/ Extend \/ Ignore
    \/ \E reason \in {"stop", "length"} : Stop(reason)
    \/ End

Spec == Init /\ [][Next]_vars

-----------------------------------------------------------------------------
(* Properties.                                                             *)

\* "The terminal snapshot then names the same items": its output has the ids, types and contents
\* of the items that were streamed, in their places.
SnapshotNamesItems ==
    consumer.status # None /\ ~consumer.broken => consumer.output = consumer.items

\* The terminal snapshot is what the collected path answers for the same chunks: "exactly as the
\* stream collector would", the status included; but for a compaction without an output index,
\* which the two put in different places.
SnapshotAsCollected ==
    LET choice == At(collected.choices, 0, NoChoice)
    IN consumer.status # None =>
           /\ consumer.status = StatusFor(choice.finish)
           /\ (\A k \in DOMAIN consumer.items : consumer.items[k].type # "compaction") =>
                  consumer.output = ViewOf(choice)
=============================================================================
