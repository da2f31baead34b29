-------------------------- MODULE MessagesDialect --------------------------
(***************************************************************************)
(* The event stream of the Anthropic Messages dialect. llmleaf reads it    *)
(* from upstreams (anthropic_event_to_chunks of the provider's             *)
(* anthropic.rs) and writes it to its consumers (EventEncoder of           *)
(* compat/anthropic.rs). A block is its type, its tag (a tool's id,        *)
(* redacted data), its body (text or raw JSON, as fragments) and its       *)
(* signature.                                                              *)
(***************************************************************************)
EXTENDS StreamChunks

MessageStart(id, usage) == [type |-> "message_start", id |-> id, usage |-> usage]
BlockStart(n, block) == [type |-> "content_block_start", index |-> n, block |-> block]
BlockDelta(n, delta) == [type |-> "content_block_delta", index |-> n, delta |-> delta]
BlockStop(n) == [type |-> "content_block_stop", index |-> n]
MessageDelta(reason, usage) == [type |-> "message_delta", reason |-> reason, usage |-> usage]
MessageStop == [type |-> "message_stop"]
ErrorEvent == [type |-> "error"]

Block(type, tag, body, signature) ==
    [type |-> type, tag |-> tag, body |-> body, signature |-> signature]
Fragment(type, body) == [type |-> type, body |-> body]
Signed(signature) == [type |-> "signature_delta", signature |-> signature]

\* The delta type that extends a block of each type.
DeltaOf == "text" :> "text_delta" @@ "thinking" :> "thinking_delta"
           @@ "tool_use" :> "input_json_delta" @@ "compaction" :> "compaction_delta"

-----------------------------------------------------------------------------
(* A reader: it numbers blocks from 0, and one block is open at a time.    *)

NewReader == [id |-> None, blocks |-> <<>>, open |-> FALSE, reason |-> None, usage |-> None,
              stopped |-> FALSE, failed |-> FALSE, broken |-> FALSE]

Legal(r, e) ==
    /\ ~r.stopped /\ ~r.failed
    /\ CASE e.type = "message_start" -> r.id = None
         [] e.type = "content_block_start" ->
                r.id # None /\ r.reason = None /\ ~r.open /\ e.index = Len(r.blocks)
         [] e.type = "content_block_delta" ->
                /\ r.open /\ e.index = Len(r.blocks) - 1
                /\ LET block == Last(r.blocks)
                   IN \/ e.delta.type = "signature_delta" /\ block.type = "thinking"
                      \/ block.type \in DOMAIN DeltaOf /\ e.delta.type = DeltaOf[block.type]
         [] e.type = "content_block_stop" -> r.open /\ e.index = Len(r.blocks) - 1
         [] e.type = "message_delta" -> r.id # None /\ ~r.open
         [] e.type = "message_stop" -> r.reason # None
         [] OTHER -> TRUE

Extend(block, delta) ==
    IF delta.type = "signature_delta" THEN [block EXCEPT !.signature = delta.signature]
    ELSE [block EXCEPT !.body = @ \o delta.body]

ReadStep(r, e) ==
    IF ~Legal(r, e) THEN [r EXCEPT !.broken = TRUE]
    ELSE CASE e.type = "message_start" -> [r EXCEPT !.id = e.id]
           [] e.type = "content_block_start" ->
                  [r EXCEPT !.blocks = Append(@, e.block), !.open = TRUE]
           [] e.type = "content_block_delta" ->
                  [r EXCEPT !.blocks = Append(Front(@), Extend(Last(@), e.delta))]
           [] e.type = "content_block_stop" -> [r EXCEPT !.open = FALSE]
           [] e.type = "message_delta" -> [r EXCEPT !.reason = e.reason, !.usage = e.usage]
           [] e.type = "message_stop" -> [r EXCEPT !.stopped = TRUE]
           [] OTHER -> [r EXCEPT !.failed = TRUE]

-----------------------------------------------------------------------------
(* The decoder: one upstream event to canonical chunks. Upstream numbers   *)
(* all blocks together; canonical tool calls are numbered on their own,    *)
(* and a compaction is held until its block stops.                         *)

NewDecoder == [usage |-> [input |-> 0, output |-> 0], finished |-> FALSE, next_tool_index |-> 0,
               tool_indexes |-> <<>>, compactions |-> <<>>]

\* What a decoded event yields: the decoder after it, and the chunks in order.
Yield(dec, chunks) == [dec |-> dec, chunks |-> chunks]

\* Reported counts replace the ones held, each on its own.
UpdateUsage(usage, reported) ==
    IF reported = None THEN usage
    ELSE [field \in DOMAIN usage |->
              IF reported[field] = None THEN usage[field] ELSE reported[field]]

MapStopReason(reason) ==
    CASE reason = "compaction" -> "compaction"
      [] reason = "max_tokens" -> "length"
      [] reason = "tool_use" -> "tool_calls"
      [] reason = "refusal" -> "content_filter"
      [] OTHER -> "stop"

DecodeMessageStart(dec, e) ==
    Yield([dec EXCEPT !.usage = UpdateUsage(@, e.usage)], <<Start(e.id)>>)

DecodeBlockStart(dec, e) ==
    LET b == e.block
        n == dec.next_tool_index
    IN CASE b.type = "tool_use" ->
              Yield([dec EXCEPT !.next_tool_index = n + 1, !.tool_indexes = (e.index :> n) @@ @],
                    <<ToolCall(0, n, b.tag, None)>>)
         [] b.type = "redacted_thinking" -> Yield(dec, <<RedactedThinking(0, b.tag)>>)
         [] b.type = "compaction" ->
              Yield([dec EXCEPT !.compactions =
                        (e.index :> [content |-> b.body, signature |-> b.signature]) @@ @], <<>>)
         [] OTHER -> Yield(dec, <<>>)

DecodeBlockDelta(dec, e) ==
    LET d == e.delta
    IN CASE d.type = "text_delta" ->
              Yield(dec, IF d.body = <<>> THEN <<>> ELSE <<Content(0, d.body)>>)
         [] d.type = "thinking_delta" -> Yield(dec, <<Thinking(0, d.body)>>)
         [] d.type = "signature_delta" -> Yield(dec, <<ThinkingSignature(0, d.signature)>>)
         [] d.type = "compaction_delta" /\ e.index \in DOMAIN dec.compactions ->
              Yield([dec EXCEPT !.compactions[e.index].content = @ \o d.body], <<>>)
         [] d.type = "input_json_delta" /\ e.index \in DOMAIN dec.tool_indexes ->
              Yield(dec, <<ToolCall(0, dec.tool_indexes[e.index], None, d.body)>>)
         [] OTHER -> Yield(dec, <<>>)

DecodeBlockStop(dec, e) ==
    IF e.index \notin DOMAIN dec.compactions THEN Yield(dec, <<>>)
    ELSE LET held == dec.compactions[e.index]
         IN Yield([dec EXCEPT !.compactions =
                      [n \in DOMAIN @ \ {e.index} |-> @[n]]],
                  <<Compaction(0, held.content, None, None, held.signature, None)>>)

\* Only the first stop reason is passed on; the usage held so far goes with every report.
DecodeMessageDelta(dec, e) ==
    LET usage == UpdateUsage(dec.usage, e.usage)
    IN Yield([dec EXCEPT !.usage = usage, !.finished = @ \/ e.reason # None],
             (IF e.reason # None /\ ~dec.finished
              THEN <<Finish(0, MapStopReason(e.reason))>> ELSE <<>>)
             \o (IF e.usage = None THEN <<>> ELSE <<Usage(usage)>>))

\* One event; an error event ends the stream and is the pump's business.
Decode(dec, e) ==
    CASE e.type = "message_start" -> DecodeMessageStart(dec, e)
      [] e.type = "content_block_start" -> DecodeBlockStart(dec, e)
      [] e.type = "content_block_delta" -> DecodeBlockDelta(dec, e)
      [] e.type = "content_block_stop" -> DecodeBlockStop(dec, e)
      [] e.type = "message_delta" -> DecodeMessageDelta(dec, e)
      [] OTHER -> Yield(dec, <<>>)

-----------------------------------------------------------------------------
(* The encoder: canonical chunks to events. An encoder is a record; every  *)
(* operator returns the encoder after its call with the frames the call    *)
(* pushed appended to out.                                                 *)

NewEncoder(id) == [id |-> id, started |-> FALSE, next_index |-> 0, open |-> None,
                   usage |-> None, stop_reason |-> None, out |-> <<>>]

Push(enc, event) == [enc EXCEPT !.out = Append(@, event)]

\* The wire's stop reasons: unset and unknown reasons read as a normal end.
FinishToAnthropic(reason) ==
    CASE reason = "length" -> "max_tokens"
      [] reason = "tool_calls" -> "tool_use"
      [] reason = "content_filter" -> "refusal"
      [] reason = "compaction" -> "compaction"
      [] OTHER -> "end_turn"

EnsureStarted(enc) ==
    IF enc.started THEN enc
    ELSE Push([enc EXCEPT !.started = TRUE], MessageStart(enc.id, None))

CloseOpen(enc) ==
    IF enc.open = None THEN enc
    ELSE Push([enc EXCEPT !.open = None], BlockStop(enc.open.index))

\* Start a block of its own: whatever was open is closed first.
OpenBlock(enc, type, canon, block) ==
    LET closed == CloseOpen(enc)
        n == closed.next_index
    IN Push([closed EXCEPT !.next_index = n + 1,
                           !.open = [type |-> type, index |-> n, canon |-> canon]],
            BlockStart(n, block))

IsOpen(enc, type, canon) ==
    enc.open # None /\ enc.open.type = type /\ enc.open.canon = canon

\* Reuse the open block when it is the one the chunk extends, else open a new one.
EnsureOpen(enc, type, canon, block) ==
    IF IsOpen(enc, type, canon) THEN enc ELSE OpenBlock(enc, type, canon, block)

PushFragment(enc, type, body) ==
    IF body \in {None, <<>>} THEN enc
    ELSE Push(enc, BlockDelta(enc.open.index, Fragment(DeltaOf[type], body)))

\* A text or thinking delta.
EncodeText(enc, type, delta) ==
    PushFragment(EnsureOpen(enc, type, None, Block(type, None, <<>>, None)), type, delta)

EncodeSignature(enc, signature) ==
    LET opened == EnsureOpen(enc, "thinking", None, Block("thinking", None, <<>>, None))
    IN Push(opened, BlockDelta(opened.open.index, Signed(signature)))

\* Redacted thinking: a start that carries the data and its stop.
EncodeRedacted(enc, data) ==
    CloseOpen(OpenBlock(enc, "redacted_thinking", None,
                        Block("redacted_thinking", data, <<>>, None)))

\* A compaction: whole in its start event when it is signed, else a start and one delta.
EncodeCompaction(enc, delta, signature) ==
    LET whole == signature # None
        opened == OpenBlock(enc, "compaction", None,
                            Block("compaction", None, IF whole THEN delta ELSE <<>>, signature))
    IN CloseOpen(PushFragment(opened, "compaction", IF whole THEN <<>> ELSE delta))

\* Mutant: any open tool block takes the arguments.
EncodeToolAnyBlock(enc, call, id, arguments) ==
    LET opened == IF enc.open # None /\ enc.open.type = "tool_use" THEN enc
                  ELSE OpenBlock(enc, "tool_use", call, Block("tool_use", id, <<>>, None))
    IN PushFragment(opened, "tool_use", arguments)
\* A tool-call delta: the open block is reused only for the same canonical call.
EncodeTool(enc, call, id, arguments) ==
    PushFragment(EnsureOpen(enc, "tool_use", call, Block("tool_use", id, <<>>, None)),
                 "tool_use", arguments)

\* encode: one canonical chunk. Usage and Finish are held for the trailing message_delta.
Encode(enc, c) ==
    LET started == EnsureStarted(enc)
    IN CASE c.kind = "start" -> started
         [] c.kind = "content" -> EncodeText(started, "text", c.delta)
         [] c.kind = "thinking" -> EncodeText(started, "thinking", c.delta)
         [] c.kind = "signature" -> EncodeSignature(started, c.signature)
         [] c.kind = "redacted" -> EncodeRedacted(started, c.data)
         [] c.kind = "compaction" -> EncodeCompaction(started, c.delta, c.signature)
         [] c.kind = "tool" -> EncodeTool(started, c.call, c.id, c.arguments)
         [] c.kind = "usage" -> [enc EXCEPT !.usage = c.usage]
         [] c.kind = "finish" -> [enc EXCEPT !.stop_reason = c.reason]
         [] c.kind = "output_item" -> enc

\* finish: stop the open block, then the one message_delta and message_stop.
FinishMessage(enc) ==
    LET closed == CloseOpen(EnsureStarted(enc))
    IN Push(Push(closed, MessageDelta(FinishToAnthropic(enc.stop_reason), enc.usage)), MessageStop)
=============================================================================
