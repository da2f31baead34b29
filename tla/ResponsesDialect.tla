------------------------- MODULE ResponsesDialect ---------------------------
(***************************************************************************)
(* The OpenAI Responses dialect, which llmleaf reads from upstreams and    *)
(* writes to its consumers: its typed event stream and what a reader of it *)
(* assembles; the provider side (openai_responses_wire.rs), one upstream   *)
(* event to canonical chunks; and the consumer side (compat/responses.rs), *)
(* the EventEncoder from canonical chunks to events, with the output items *)
(* of a collected response. An item is its type, its id, its tag (a call   *)
(* id, redacted or encrypted data), its body (text or raw JSON, as         *)
(* fragments) and its signature.                                           *)
(***************************************************************************)
EXTENDS StreamChunks

Item(type, id, tag, body, signature) ==
    [type |-> type, id |-> id, tag |-> tag, body |-> body, signature |-> signature]

Envelope(type) == [type |-> type]
ItemAdded(n, item) == [type |-> "added", index |-> n, item |-> item]
ItemDelta(n, id, body) == [type |-> "delta", index |-> n, id |-> id, body |-> body]
\* The content part of a message opens and closes, and every text and argument list is repeated
\* when it is complete.
PartEvent(n, id, body) == [type |-> "part", index |-> n, id |-> id, body |-> body]
ItemDone(n, item) == [type |-> "done", index |-> n, item |-> item]
Terminal(status, output, usage) ==
    [type |-> "terminal", status |-> status, output |-> output, usage |-> usage]
ErrorEvent == [type |-> "error"]

-----------------------------------------------------------------------------
(* A reader: one item is open at a time, at the next output index.         *)

NewReader == [next |-> 0, items |-> <<>>, open |-> FALSE, status |-> None, output |-> None,
              usage |-> None, failed |-> FALSE, broken |-> FALSE]

\* An item that is done is the one its deltas built; only then is a signature known.
Agrees(built, item) ==
    [built EXCEPT !.signature = item.signature] = item

Legal(r, e) ==
    /\ e.seq = r.next /\ r.status = None /\ ~r.failed
    /\ CASE e.type = "created" -> r.next = 0
         [] e.type = "in_progress" -> r.next = 1
         [] e.type = "added" -> r.next > 1 /\ ~r.open /\ e.index = Len(r.items)
         [] e.type \in {"delta", "part"} ->
                r.open /\ e.index = Len(r.items) - 1 /\ e.id = Last(r.items).id
         [] e.type = "done" ->
                r.open /\ e.index = Len(r.items) - 1 /\ Agrees(Last(r.items), e.item)
         [] e.type = "terminal" -> r.next > 1 /\ ~r.open
         [] OTHER -> TRUE

\* One event; out of place, or not what its deltas built, it breaks the stream.
ReadStep(r, e) ==
    LET s == [r EXCEPT !.next = @ + 1]
    IN IF ~Legal(r, e) THEN [r EXCEPT !.broken = TRUE]
       ELSE CASE e.type = "added" -> [s EXCEPT !.items = Append(@, e.item), !.open = TRUE]
              [] e.type = "delta" ->
                     [s EXCEPT !.items = Append(Front(@), [Last(@) EXCEPT !.body = @ \o e.body])]
              [] e.type = "done" ->
                     [s EXCEPT !.items = Append(Front(@), e.item), !.open = FALSE]
              [] e.type = "terminal" ->
                     [s EXCEPT !.status = e.status, !.output = e.output, !.usage = e.usage]
              [] e.type = "error" -> [s EXCEPT !.failed = TRUE]
              [] OTHER -> s

-----------------------------------------------------------------------------
(* The decoder. A call is named upstream by its item id and numbered in    *)
(* canonical chunks. A request with context management preserves the item  *)
(* order.                                                                  *)

NewDecoder(preserve_order) ==
    [seen_start |-> FALSE, call_indices |-> <<>>, saw_function_call |-> FALSE,
     finished |-> FALSE, preserve_order |-> preserve_order]

Yield(dec, chunks) == [dec |-> dec, chunks |-> chunks]

Optional(present, chunk) == IF present THEN <<chunk>> ELSE <<>>

\* output_item_as_message: one item as a replay message.
OutputItemAsMessage(item) ==
    LET none == [thinking |-> <<>>, text |-> <<>>, calls |-> <<>>, compaction |-> <<>>]
    IN CASE item.type = "compaction" ->
              [none EXCEPT !.compaction =
                  <<[id |-> item.id, content |-> item.body, encrypted |-> item.tag,
                     signature |-> item.signature, output_index |-> None]>>]
         [] item.type = "message" -> [none EXCEPT !.text = item.body]
         [] item.type = "reasoning" ->
              [none EXCEPT !.thinking =
                  Optional(item.body # <<>>, [text |-> item.body, signature |-> item.signature])
                  \o Optional(item.tag # None, [data |-> item.tag])]
         [] item.type = "function_call" ->
              [none EXCEPT !.calls = <<[id |-> item.tag, arguments |-> item.body]>>]

DecodeAdded(dec, e) ==
    IF e.item.type # "function_call" THEN Yield(dec, <<>>)
    ELSE LET n == Cardinality(DOMAIN dec.call_indices)
         IN Yield([dec EXCEPT !.saw_function_call = TRUE,
                              !.call_indices = (e.item.id :> n) @@ @],
                  <<ToolCall(0, n, e.item.tag, None)>>)

\* The event type names the item type; a fragment of an unknown call goes to call 0.
DecodeDelta(dec, e, type) ==
    CASE type = "function_call" -> <<ToolCall(0, At(dec.call_indices, e.id, 0), None, e.body)>>
      [] type = "message" -> <<Content(0, e.body)>>
      [] OTHER -> <<Thinking(0, e.body)>>

\* What only arrives with the whole item: the signature, redacted data, a compaction.
DoneChunks(e) ==
    LET item == e.item
    IN CASE item.type = "reasoning" ->
              Optional(item.signature # None, ThinkingSignature(0, item.signature))
              \o Optional(item.tag # None, RedactedThinking(0, item.tag))
         [] item.type = "compaction" ->
              <<Compaction(0, IF item.body = None THEN <<>> ELSE item.body, item.id, item.tag,
                           item.signature, e.index)>>
         [] OTHER -> <<>>

DecodeDone(dec, e) ==
    DoneChunks(e) \o Optional(dec.preserve_order, OutputItem(0, OutputItemAsMessage(e.item)))

\* responses_finish_reason, for a completed response; an incomplete one hit its limit.
FinishReason(dec, e) ==
    CASE e.status = "completed" /\ dec.saw_function_call -> "tool_calls"
      [] e.status = "completed" /\ ~dec.saw_function_call ->
             IF e.output # <<>> /\ \A k \in DOMAIN e.output : e.output[k].type = "compaction"
             THEN "compaction" ELSE "stop"
      [] e.status = "incomplete" -> "length"
      [] OTHER -> "error"

\* One event; type is the item type its own type names. An error event is the pump's business.
Decode(dec, e, type) ==
    CASE e.type = "created" /\ ~dec.seen_start ->
             Yield([dec EXCEPT !.seen_start = TRUE], <<Start("response")>>)
      [] e.type = "added" -> DecodeAdded(dec, e)
      [] e.type = "delta" -> Yield(dec, DecodeDelta(dec, e, type))
      [] e.type = "done" -> Yield(dec, DecodeDone(dec, e))
      [] e.type = "terminal" ->
             Yield([dec EXCEPT !.finished = TRUE],
                   Optional(e.usage # None, Usage(e.usage)) \o <<Finish(0, FinishReason(dec, e))>>)
      [] OTHER -> Yield(dec, <<>>)

-----------------------------------------------------------------------------
(* openai_responses_to_chunks: a response that was not streamed.           *)

\* One item; n calls came before it.
ItemChunks(item, at, n) ==
    CASE item.type = "function_call" -> <<ToolCall(0, n, item.tag, item.body)>>
      [] item.type = "message" -> Optional(item.body # <<>>, Content(0, item.body))
      [] item.type = "reasoning" ->
             Optional(item.body # <<>>, Thinking(0, item.body))
             \o DoneChunks([item |-> item, index |-> at])
      [] OTHER -> DoneChunks([item |-> item, index |-> at])

IsCall(item) == item.type = "function_call"

\* The order is kept when the response holds a compaction.
ResponseToChunks(output, status, usage) ==
    LET ordered == \E k \in DOMAIN output : output[k].type = "compaction"
        CallsBefore(k) == Len(SelectSeq(SubSeq(output, 1, k - 1), IsCall))
        whole == [saw_function_call |-> \E k \in DOMAIN output : IsCall(output[k])]
    IN <<Start("response")>>
       \o FlattenSeq([k \in DOMAIN output |->
              ItemChunks(output[k], k - 1, CallsBefore(k))
              \o Optional(ordered, OutputItem(0, OutputItemAsMessage(output[k])))])
       \o <<Usage(usage), Finish(0, FinishReason(whole, [status |-> status, output |-> output]))>>

-----------------------------------------------------------------------------
(* The encoder, a record: every operator returns it after its call with    *)
(* the pushed events appended to out.                                      *)

NewEncoder ==
    [seq |-> 0, started |-> FALSE, output_index |-> 0, open |-> None, text |-> <<>>,
     think_text |-> <<>>, think_sig |-> None, redacted |-> <<>>, compaction |-> <<>>,
     ordered_output |-> <<>>, tools |-> <<>>, usage |-> None, finish |-> None, out |-> <<>>]

Push(enc, event) ==
    [enc EXCEPT !.out = Append(@, event @@ [seq |-> enc.seq]), !.seq = @ + 1]

PushAll(enc, events) == FoldLeft(Push, enc, events)

EnsureStarted(enc) ==
    IF enc.started THEN enc
    ELSE PushAll([enc EXCEPT !.started = TRUE], <<Envelope("created"), Envelope("in_progress")>>)

-----------------------------------------------------------------------------
(* The output of a collected choice.                                       *)

Prefix == "reasoning" :> "rs" @@ "message" :> "msg" @@ "function_call" :> "fc"
          @@ "compaction" :> "cmp"

\* Ids of an item's own are kept; the others name its place.
Numbered(items) ==
    [k \in DOMAIN items |->
        IF items[k].type = "compaction" THEN items[k]
        ELSE [items[k] EXCEPT !.id = <<Prefix[items[k].type], k - 1>>]]

MessageItem(text) ==
    IF text = <<>> THEN <<>> ELSE <<Item("message", None, None, text, None)>>

\* One compaction inserted at its output index, or else after the leading reasoning.
InsertCompaction(items, part) ==
    LET leading == SelectInSeq(items, LAMBDA item : item.type # "reasoning")
        wanted == IF part.output_index # None THEN part.output_index
                  ELSE IF leading = 0 THEN Len(items) ELSE leading - 1
        at == IF wanted < Len(items) THEN wanted ELSE Len(items)
    IN InsertAt(items, at + 1,
                Item("compaction", IF part.id = None THEN <<"cmp", at>> ELSE part.id,
                     part.encrypted, part.content, part.signature))

\* A thinking part or a redacted one as an item of its own; open parts never neighbour each other.
ReasoningItem(part) ==
    IF "data" \in DOMAIN part THEN Item("reasoning", None, part.data, <<>>, None)
    ELSE Item("reasoning", None, None, part.text, part.signature)

CallItem(call) == Item("function_call", None, call.id, call.arguments, None)

\* output_items: reasoning, then the message, then the calls; compactions are put where they were.
OutputItems(thinking, text, calls, compaction) ==
    LET plain == [k \in DOMAIN thinking |-> ReasoningItem(thinking[k])]
                 \o MessageItem(text)
                 \o [k \in DOMAIN calls |-> CallItem(calls[k])]
    IN Numbered(FoldLeft(InsertCompaction, plain, compaction))

\* ordered_output_items: the items of each replay message, in upstream order.
OrderedItems(output) ==
    Numbered(FlattenSeq([k \in DOMAIN output |->
        OutputItems(output[k].thinking, output[k].text, output[k].calls, output[k].compaction)]))

\* Canonical calls are numbered from 0.
CallSeq(tools) ==
    LET order == SetToSortSeq(DOMAIN tools, <)
    IN [k \in DOMAIN order |-> tools[order[k]]]

\* response_to_responses: the output array of a collected choice.
ViewOf(choice) ==
    IF choice.output # <<>> THEN OrderedItems(choice.output)
    ELSE OutputItems(ThinkingParts(choice), choice.text, CallSeq(choice.tools), choice.compaction)

StatusFor(finish) ==
    CASE finish \in {"length", "content_filter"} -> "incomplete"
      [] finish = "error" -> "failed"
      [] OTHER -> "completed"

-----------------------------------------------------------------------------
(* Opening and closing items.                                              *)

\* What the open item is when it closes; a tool reads its call from the accumulator.
Opened(enc) ==
    IF enc.open.type = "function_call"
    THEN LET call == enc.tools[enc.open.canon]
         IN Item("function_call", enc.open.id, call.id, call.arguments, None)
    ELSE Item(enc.open.type, enc.open.id, None, enc.open.text, enc.open.sig)

\* The text is done, a message's part with it, then the item.
ClosingEvents(n, item) ==
    LET text == PartEvent(n, item.id, item.body)
    IN (IF item.type = "message" THEN <<text, text>> ELSE <<text>>) \o <<ItemDone(n, item)>>

CloseOpen(enc) ==
    IF enc.open = None THEN enc
    ELSE PushAll([enc EXCEPT !.open = None], ClosingEvents(enc.open.index, Opened(enc)))

\* With nothing open, start an item at the next output index.
OpenNew(enc, type, canon, tag) ==
    LET n == enc.output_index
        id == <<Prefix[type], n>>
    IN PushAll([enc EXCEPT !.output_index = n + 1,
                           !.open = [type |-> type, index |-> n, id |-> id, text |-> <<>>,
                                     sig |-> None, canon |-> canon]],
               <<ItemAdded(n, Item(type, id, tag, <<>>, None))>>
               \o (IF type = "message" THEN <<PartEvent(n, id, <<>>)>> ELSE <<>>))

\* open_reasoning, open_message, open_tool: close whatever else is open.
EnsureOpen(enc, type, canon, tag) ==
    IF enc.open # None /\ enc.open.type = type /\ enc.open.canon = canon THEN enc
    ELSE OpenNew(CloseOpen(enc), type, canon, tag)

\* An item that arrives whole, after whatever is open has been closed.
WholeItem(enc, type, id, tag, body, signature) ==
    LET n == enc.output_index
        item == Item(type, IF id = None THEN <<Prefix[type], n>> ELSE id, tag, body, signature)
    IN PushAll([CloseOpen(enc) EXCEPT !.output_index = n + 1], <<ItemAdded(n, item), ItemDone(n, item)>>)

PushDelta(enc, body) == Push(enc, ItemDelta(enc.open.index, enc.open.id, body))

-----------------------------------------------------------------------------
(* encode, one arm per chunk kind.                                         *)

ExtendText(enc, delta) == PushDelta([enc EXCEPT !.open.text = @ \o delta], delta)
EncodeText(enc, type, delta) == ExtendText(EnsureOpen(enc, type, None, None), delta)

EncodeSignature(enc, signature) ==
    LET kept == [enc EXCEPT !.think_sig = signature]
    IN IF enc.open # None /\ enc.open.type = "reasoning"
       THEN [kept EXCEPT !.open.sig = signature] ELSE kept

\* The compaction as it was streamed, for the snapshot.
KeptCompaction(c, n) ==
    [id |-> c.id, content |-> IF c.delta = <<>> THEN None ELSE c.delta,
     encrypted |-> c.encrypted, signature |-> c.signature,
     output_index |-> IF c.output_index = None THEN n ELSE c.output_index]

EncodeCompaction(enc, c) ==
    [WholeItem(enc, "compaction", c.id, c.encrypted, IF c.delta = <<>> THEN None ELSE c.delta,
               c.signature)
     EXCEPT !.compaction = Append(@, KeptCompaction(c, enc.output_index))]

ExtendTool(enc, arguments) == IF arguments \in {None, <<>>} THEN enc ELSE PushDelta(enc, arguments)
EncodeTool(enc, c) ==
    ExtendTool(EnsureOpen([enc EXCEPT !.tools = PutTool(@, c)], "function_call", c.call, c.id),
               c.arguments)

\* Only choice 0 is representable.
Encode(enc, c) ==
    LET started == EnsureStarted(enc)
    IN CASE "index" \in DOMAIN c /\ c.index # 0 -> enc
         [] c.kind = "start" -> started
         [] c.kind = "content" ->
                EncodeText([started EXCEPT !.text = @ \o c.delta], "message", c.delta)
         [] c.kind = "thinking" ->
                EncodeText([started EXCEPT !.think_text = @ \o c.delta], "reasoning", c.delta)
         [] c.kind = "signature" -> EncodeSignature(enc, c.signature)
         [] c.kind = "redacted" ->
                WholeItem([started EXCEPT !.redacted = Append(@, c.data)],
                          "reasoning", None, c.data, <<>>, None)
         [] c.kind = "compaction" -> EncodeCompaction(started, c)
         [] c.kind = "tool" -> EncodeTool(started, c)
         [] c.kind = "output_item" -> [enc EXCEPT !.ordered_output = Append(@, c.message)]
         [] c.kind = "usage" -> [enc EXCEPT !.usage = c.usage]
         [] c.kind = "finish" -> [CloseOpen(enc) EXCEPT !.finish = c.reason]

-----------------------------------------------------------------------------
\* accumulated_choice: the streamed content as the choice the snapshot is made of.
AccumulatedChoice(enc) ==
    [text |-> enc.text, thinking |-> enc.think_text, signature |-> enc.think_sig,
     redacted |-> enc.redacted, tools |-> enc.tools, compaction |-> enc.compaction,
     output |-> enc.ordered_output, finish |-> enc.finish]

\* Mutant: the terminal event leaves the open item open.
FinishResponseOpen(enc) ==
    Push(EnsureStarted(enc), Terminal(StatusFor(enc.finish), ViewOf(AccumulatedChoice(enc)), enc.usage))
\* finish: close the open item, then the terminal event with the whole snapshot.
FinishResponse(enc) ==
    Push(CloseOpen(EnsureStarted(enc)),
         Terminal(StatusFor(enc.finish), ViewOf(AccumulatedChoice(enc)), enc.usage))

ErrorFrame(enc) == Push(enc, ErrorEvent)
=============================================================================
