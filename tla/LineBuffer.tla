----------------------------- MODULE LineBuffer ------------------------------
(***************************************************************************)
(* An upstream's body cut into lines (http.rs: sse_payloads and the loop   *)
(* of json_sse_to_stream; ollama.rs: ndjson_lines). The transport delivers *)
(* the bytes in pieces of any size. A byte is a cell [line, at, of]: the   *)
(* at-th of the of cells of a line, the last one being its newline.        *)
(***************************************************************************)
EXTENDS Naturals, Sequences

CONSTANTS
    Framings,           \* subset of {"sse", "ndjson"}
    MAX_SSE_LINE_BYTES, \* most cells a line may leave pending
    MaxSize,            \* bound: cells of a line
    MaxLines,           \* bound: lines of a body
    None

VARIABLES
    framing,
    lines,          \* the lines written so far: [kind, size], of kinds "data", "comment", "done"
    wire,           \* cells written and not yet delivered
    buf,            \* the cells that the decoder has
    payloads,       \* the lines decoded and handed on: [line, size], with the cells it came with
    end             \* None, or how the stream ended: "done", "closed", "error"

vars == <<framing, lines, wire, buf, payloads, end>>

-----------------------------------------------------------------------------

Newline(cell) == cell.at = cell.of

\* No line is complete, so that what is there is pending.
Drained == \A k \in 1..Len(buf) : ~Newline(buf[k])

\* More is pending than one line may leave; ndjson_lines has no limit.
OverLong == framing = "sse" /\ Len(buf) > MAX_SSE_LINE_BYTES

\* Where a line begins: with "data:", or with anything in NDJSON.
DataField(cell) == cell.at = 1 /\ lines[cell.line].kind # "comment"
IsPayload(cell) == framing = "ndjson" \/ DataField(cell)

-----------------------------------------------------------------------------

Init ==
    /\ framing \in Framings
    /\ lines = <<>> /\ wire = <<>> /\ buf = <<>> /\ payloads = <<>> /\ end = None

\* The upstream writes a line; [DONE] is a short one.
Write ==
    /\ Len(lines) < MaxLines
    /\ \E kind \in IF framing = "sse" THEN {"data", "comment", "done"} ELSE {"data"},
          size \in 1..MaxSize :
          /\ kind = "done" => size = 1
          /\ lines' = Append(lines, [kind |-> kind, size |-> size])
          /\ wire' = wire \o [k \in 1..size |-> [line |-> Len(lines) + 1, at |-> k, of |-> size]]
    /\ UNCHANGED <<framing, buf, payloads, end>>

\* The loop comes back for more once the lines are drained and the buffer is within its limit.
Polls == end = None /\ Drained /\ ~OverLong

\* The transport delivers a piece of the body.
Deliver ==
    /\ Polls
    /\ \E n \in 1..Len(wire) :
          wire' = SubSeq(wire, n + 1, Len(wire)) /\ buf' = buf \o SubSeq(wire, 1, n)
    /\ UNCHANGED <<framing, lines, payloads, end>>

\* A payload is handed on; [DONE] ends the stream, and what follows it is not.
HandOn(payload) ==
    IF lines[payload.line].kind = "done"
    THEN end' = "done" /\ UNCHANGED payloads
    ELSE payloads' = Append(payloads, payload) /\ UNCHANGED end

\* The first line of the buffer is drained.
TakeLine ==
    /\ end = None
    /\ \E nl \in 1..Len(buf) :
          /\ Newline(buf[nl]) /\ \A k \in 1..nl - 1 : ~Newline(buf[k])
          /\ buf' = SubSeq(buf, nl + 1, Len(buf))
          /\ IF IsPayload(buf[1]) THEN HandOn([line |-> buf[1].line, size |-> nl])
             ELSE UNCHANGED <<payloads, end>>
    /\ UNCHANGED <<framing, lines, wire>>

\* An over-long pending line is cleared.
Clear ==
    /\ end = None /\ Drained /\ OverLong
    /\ buf' = <<>>
    /\ UNCHANGED <<framing, lines, wire, payloads, end>>

\* The body ends, wherever it is; a partial line stays in the buffer.
Close ==
    /\ Polls /\ end' = "closed"
    /\ UNCHANGED <<framing, lines, wire, buf, payloads>>

TransportFails ==
    /\ Polls /\ end' = "error"
    /\ UNCHANGED <<framing, lines, wire, buf, payloads>>

Next == Write \/ Deliver \/ TakeLine \/ Clear \/ Close \/ TransportFails

Spec == Init /\ [][Next]_vars

-----------------------------------------------------------------------------
(* Properties.                                                             *)

TypeOK ==
    /\ framing \in Framings /\ end \in {None, "done", "closed", "error"}
    /\ \A k \in 1..Len(buf) : buf[k].line \in 1..Len(lines) /\ buf[k].at \in 1..buf[k].of
    /\ \A k \in 1..Len(payloads) : payloads[k].line \in 1..Len(lines)

\* The data lines whose last cell has been delivered, up to [DONE].
Expected == {k \in 1..Len(lines) :
                /\ lines[k].kind = "data"
                /\ wire = <<>> \/ k < wire[1].line
                /\ \A j \in 1..Len(lines) : lines[j].kind = "done" => k < j}

\* Lines that can never be pending beyond the limit.
Within == {k \in 1..Len(lines) : framing = "ndjson" \/ lines[k].size <= MAX_SSE_LINE_BYTES + 1}

\* However the bytes were cut, the payloads are data lines delivered so far, whole, in
\* order and once each; of those within the limit none is missing once the buffer is
\* drained, whatever over-long lines came between.
EveryLine ==
    LET got == {payloads[k].line : k \in 1..Len(payloads)}
    IN /\ \A i, j \in 1..Len(payloads) : i < j => payloads[i].line < payloads[j].line
       /\ \A k \in 1..Len(payloads) : payloads[k].size = lines[payloads[k].line].size
       /\ got \subseteq Expected
       /\ Drained \/ end = "done" => (Expected \cap Within) \subseteq got
=============================================================================
