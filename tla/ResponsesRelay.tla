--------------------------- MODULE ResponsesRelay ---------------------------
(***************************************************************************)
(* A streaming Responses request served by a Responses upstream:           *)
(* upstream events -> the decoder -> canonical chunks -> the encoder ->    *)
(* the consumer, pumped by responses_sse_from_response                     *)
(* of server.rs, and collected alike. The upstream emits any items, and    *)
(* may fail or hang up anywhere.                                           *)
(***************************************************************************)
EXTENDS ResponsesDialect, FiniteSets

CONSTANTS
    ItemTypes,      \* item types the upstream uses
    Statuses,       \* statuses it ends with
    MaxItems,       \* bound: items of a response
    MaxFragments    \* bound: fragments, signatures and ids of a response

VARIABLES
    upstream,       \* the response as emitted so far, and how it stands
    dec,            \* the provider's decoder
    enc,            \* the edge's encoder; its events are read at once
    consumer,       \* the consumer's reader
    collected       \* the collector

vars == <<upstream, dec, enc, consumer, collected>>

Phases == {"idle", "between", "item", "ended", "failed", "closed"}

TypeOK ==
    /\ upstream.phase \in Phases
    /\ Len(upstream.items) <= MaxItems /\ upstream.fresh \in 0..MaxFragments
    /\ enc.out = <<>>
    /\ enc.seq = consumer.next /\ enc.output_index = Len(consumer.items)
    /\ (enc.open # None) = consumer.open
    /\ Cardinality(DOMAIN dec.call_indices) <= Len(upstream.items)

Init ==
    /\ upstream = [phase |-> "idle", items |-> <<>>, fresh |-> 0, status |-> None]
    /\ dec \in {NewDecoder(preserve_order) : preserve_order \in BOOLEAN}
    /\ enc = NewEncoder
    /\ consumer = NewReader
    /\ collected = NoResponse

-----------------------------------------------------------------------------
(* The pump.                                                               *)

Deliver(encoder) ==
    /\ enc' = [encoder EXCEPT !.out = <<>>]
    /\ consumer' = FoldLeft(ReadStep, consumer, encoder.out)

\* A decoder and an encoder after one event; the node of a stream.
Node(node, e) ==
    LET decoded == Decode(node.dec, e.event, e.type)
    IN [dec |-> decoded.dec,
        enc |-> FoldLeft(Encode, node.enc, decoded.chunks),
        collected |-> FoldLeft(CollectStep, node.collected, decoded.chunks)]

\* The events of one upstream step; the terminal event ends the stream.
Relay(events, type) ==
    LET after == FoldLeft(Node, [dec |-> dec, enc |-> enc, collected |-> collected],
                          [k \in DOMAIN events |-> [event |-> events[k], type |-> type]])
    IN /\ dec' = after.dec
       /\ collected' = after.collected
       /\ Deliver(IF after.dec.finished THEN FinishResponse(after.enc) ELSE after.enc)

-----------------------------------------------------------------------------
(* The upstream.                                                           *)

Compose(phase, items, fresh) ==
    upstream' = [upstream EXCEPT !.phase = phase, !.items = items, !.fresh = fresh]

Here == Len(upstream.items)
Fresh == upstream.fresh + 1

Begin ==
    /\ upstream.phase = "idle"
    /\ Compose("between", <<>>, 0)
    /\ Relay(<<Envelope("created"), Envelope("in_progress")>>, None)

\* An item starts: a call has its id, the rest are empty.
Add(type) ==
    /\ upstream.phase = "between" /\ Here < MaxItems
    /\ type = "function_call" => Fresh <= MaxFragments
    /\ LET call == type = "function_call"
           item == Item(type, <<"up", Here>>, IF call THEN Fresh ELSE None, <<>>, None)
       IN /\ Compose("item", Append(upstream.items, item),
                     IF call THEN Fresh ELSE upstream.fresh)
          /\ Relay(<<ItemAdded(Here, item)>>, type)

Growing == Last(upstream.items)

Grow ==
    /\ upstream.phase = "item" /\ Fresh <= MaxFragments
    /\ LET grown == [Growing EXCEPT !.body = Append(@, Fresh)]
       IN /\ Compose("item", Append(Front(upstream.items), grown), Fresh)
          /\ Relay(<<ItemDelta(Here - 1, Growing.id, <<Fresh>>)>>, Growing.type)

\* The item is done: reasoning may be signed, and may carry redacted data.
Complete(signed, redacted) ==
    /\ upstream.phase = "item"
    /\ Growing.type = "reasoning" \/ ~(signed \/ redacted)
    /\ signed => Growing.body # <<>>
    /\ signed \/ redacted => Fresh <= MaxFragments
    /\ LET done == [Growing EXCEPT !.signature = IF signed THEN Fresh ELSE None,
                                   !.tag = IF redacted THEN Fresh ELSE @]
       IN /\ Compose("between", Append(Front(upstream.items), done),
                     IF signed \/ redacted THEN Fresh ELSE upstream.fresh)
          /\ Relay(<<ItemDone(Here - 1, done)>>, done.type)

\* A compaction arrives whole: a readable summary, or encrypted.
Compact(encrypted) ==
    /\ upstream.phase = "between" /\ Here < MaxItems /\ Fresh <= MaxFragments
    /\ LET item == Item("compaction", <<"up", Here>>, IF encrypted THEN Fresh ELSE None,
                        IF encrypted THEN None ELSE <<Fresh>>, None)
       IN /\ Compose("between", Append(upstream.items, item), Fresh)
          /\ Relay(<<ItemAdded(Here, item), ItemDone(Here, item)>>, "compaction")

End(status) ==
    /\ upstream.phase = "between"
    /\ upstream' = [upstream EXCEPT !.phase = "ended", !.status = status]
    /\ Relay(<<Terminal(status, upstream.items, upstream.fresh)>>, None)

\* An error event or a transport error: the consumer gets one error event and nothing else.
Fail ==
    /\ upstream.phase \in {"idle", "between", "item"}
    /\ Compose("failed", upstream.items, upstream.fresh)
    /\ Deliver(ErrorFrame(enc))
    /\ UNCHANGED <<dec, collected>>

\* The body ends without a terminal event.
Close ==
    /\ upstream.phase \in {"idle", "between", "item"}
    /\ Compose("closed", upstream.items, upstream.fresh)
    /\ Deliver(FinishResponse(enc))
    /\ UNCHANGED <<dec, collected>>

Next ==
    \/ Begin
    \/ \E type \in ItemTypes \ {"compaction"} : Add(type)
    \/ Grow
    \/ \E signed, redacted \in BOOLEAN : Complete(signed, redacted)
    \/ "compaction" \in ItemTypes /\ \E encrypted \in BOOLEAN : Compact(encrypted)
    \/ \E status \in Statuses : End(status)
    \/ Fail \/ Close

Spec == Init /\ [][Next]_vars

-----------------------------------------------------------------------------
(* Properties.                                                             *)

\* The consumer is never sent an event out of place: events are numbered without a gap, items are
\* bracketed at consecutive output indexes, a finished item is what its deltas built, and a stream
\* that fails before it was opened is the only one without an envelope.
Bracketed ==
    /\ ~consumer.broken
    /\ (upstream.phase \in {"ended", "closed"}) = (consumer.status # None)
    /\ (upstream.phase = "failed") = consumer.failed

Strip(item) == IF item.type = "compaction" THEN item ELSE [item EXCEPT !.id = None]

\* One upstream item as canonical chunks can carry it: redacted data stands apart, what is empty
\* is nothing.
Split(item) ==
    CASE item.type = "reasoning" ->
             Optional(item.body # <<>>, [Strip(item) EXCEPT !.tag = None])
             \o Optional(item.tag # None, [Strip(item) EXCEPT !.body = <<>>, !.signature = None])
      [] item.type = "message" -> Optional(item.body # <<>>, Strip(item))
      [] OTHER -> <<Strip(item)>>
SplitAll(items) == FlattenSeq([k \in DOMAIN items |-> Split(items[k])])

\* Open texts that touch are one; the later signature stands.
Merge(items, item) ==
    IF items # <<>> /\ item.type \in {"reasoning", "message"} /\ Last(items).type = item.type
       /\ item.tag = None /\ Last(items).tag = None
    THEN Append(Front(items),
                [Last(items) EXCEPT !.body = @ \o item.body,
                     !.signature = IF item.signature = None THEN @ ELSE item.signature])
    ELSE Append(items, item)
Shown(items) ==
    LET merged == FoldLeft(Merge, <<>>, SplitAll(items))
    IN IF consumer.open THEN [k \in DOMAIN merged |-> [merged[k] EXCEPT !.signature = None]]
       ELSE merged

\* At every moment the consumer has been streamed the items the upstream has sent, in order.
Streamed == Shown(consumer.items) = Shown(upstream.items)

\* Without context management, the terminal snapshot is the response as it would have been
\* collected: "exactly as the stream collector would".
SnapshotAsCollected ==
    ~dec.preserve_order /\ consumer.status # None =>
        consumer.output = ViewOf(At(collected.choices, 0, NoChoice))

\* A finished response is collected alike whether the upstream streamed it or sent it whole, as
\* long as both ways agree to keep the order: streaming asks the request, the other the response.
CollectedAlike ==
    LET ordered == \E k \in DOMAIN upstream.items : upstream.items[k].type = "compaction"
    IN upstream.phase = "ended" /\ dec.preserve_order = ordered =>
           collected = CollectChunks(ResponseToChunks(upstream.items, upstream.status, upstream.fresh))

\* With context management, the snapshot of a finished response has the upstream's items in the
\* upstream's order, compactions included.
OrderKept ==
    dec.preserve_order /\ upstream.phase = "ended" =>
        [k \in DOMAIN consumer.output |-> Strip(consumer.output[k])] = SplitAll(upstream.items)

\* How the response ended, and its usage, are the upstream's.
TrailerTrue ==
    upstream.phase = "ended" =>
        consumer.status = upstream.status /\ consumer.usage = upstream.fresh
=============================================================================
