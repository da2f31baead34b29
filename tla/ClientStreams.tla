---------------------------- MODULE ClientStreams ----------------------------
(***************************************************************************)
(* The far end of a stream: what the six client SDKs make of the frames a  *)
(* node writes for a chat stream, a Responses stream and a batch's         *)
(* results.  The node may fail midway, the connection may break, and a     *)
(* proxy between the two may close it as if all had been said.  A line     *)
(* arrives whole or not at all.  Lines that carry no data are left out,    *)
(* but for the blank line after each event, at which three of the SDKs     *)
(* hand an event over.                                                     *)
(***************************************************************************)
EXTENDS Naturals, Sequences

CONSTANTS
    None,
    Sdks,           \* subset of {"rust", "go", "typescript", "csharp", "kotlin", "zig"}
    Surfaces,       \* subset of {"chat", "responses", "batch"}
    MaxFrames       \* bound: frames said before the end

VARIABLES
    feed,           \* the node's side, with the lines that nobody has read
    reader          \* the SDK's iterator and what its caller got

vars == <<feed, reader>>

\* A frame: "item" or "large", longer than the line buffers of Go and Zig; on the Responses surface
\* also "other", a type of the response family that came after the SDK, and "terminal".
Said == {"item", "large", "other", "terminal"}

TypeOK ==
    /\ feed.surface \in Surfaces
    /\ feed.state \in {"open", "finished", "failed"} /\ feed.link \in {"up", "broken", "closed"}
    /\ \A i \in 1..Len(feed.said) : feed.said[i] \in Said
    /\ reader.sdk \in Sdks /\ reader.state \in {"open", "ended"}
    /\ reader.told \in BOOLEAN /\ feed.lost \subseteq 1..Len(feed.said)
    /\ \A i \in 1..Len(reader.got) : reader.got[i] \in 0..Len(feed.said)

Init ==
    /\ \E surface \in Surfaces :
          feed = [surface |-> surface, said |-> <<>>, lines |-> <<>>,
                  state |-> "open", link |-> "up", lost |-> {}]
    /\ \E sdk \in Sdks :
          reader = [sdk |-> sdk, pending |-> None, got |-> <<>>, told |-> FALSE, state |-> "open"]

-----------------------------------------------------------------------------
(* The node.                                                               *)

Frame(kind, n) == [kind |-> kind, n |-> n]
Blank == Frame("blank", 0)

Event(kind, n) ==
    IF feed.surface = "batch" THEN <<Frame(kind, n)>> ELSE <<Frame(kind, n), Blank>>

Open == feed.state = "open" /\ feed.link = "up" /\ reader.state = "open"

Say(kind) ==
    /\ Open /\ Len(feed.said) < MaxFrames
    /\ kind = "other" => feed.surface = "responses"
    /\ feed' = [feed EXCEPT !.said = Append(@, kind),
                            !.lines = @ \o Event(kind, Len(feed.said) + 1)]
    /\ UNCHANGED reader

\* A chat stream ends with its sentinel, failed or not.
ChatEnd(failed) ==
    /\ Open /\ feed.surface = "chat"
    /\ feed' = [feed EXCEPT !.state = IF failed THEN "failed" ELSE "finished",
                            !.lines = @ \o (IF failed THEN Event("error", 0) ELSE <<>>)
                                        \o Event("done", 0)]
    /\ UNCHANGED reader

\* A Responses stream ends with a terminal event or with an error event.
ResponsesEnd(failed) ==
    /\ Open /\ feed.surface = "responses"
    /\ feed' =
          IF failed
          THEN [feed EXCEPT !.state = "failed", !.lines = @ \o Event("error", 0)]
          ELSE [feed EXCEPT !.state = "finished", !.said = Append(@, "terminal"),
                            !.lines = @ \o Event("terminal", Len(feed.said) + 1)]
    /\ UNCHANGED reader

\* A batch's results simply end; a failure is a last line without a custom id.
BatchEnd(failed) ==
    /\ Open /\ feed.surface = "batch"
    /\ feed' = [feed EXCEPT !.state = IF failed THEN "failed" ELSE "finished",
                            !.lines = @ \o (IF failed THEN Event("error", 0) ELSE <<>>)]
    /\ UNCHANGED reader

\* The connection is lost, or closed in good order, with the last of the lines; lost names the
\* frames among them: history.
Lose(how) ==
    /\ reader.state = "open" /\ feed.link = "up"
    /\ \E kept \in 0..Len(feed.lines) :
          feed' = [feed EXCEPT !.link = how, !.lines = SubSeq(@, 1, kept),
                               !.lost = {feed.lines[i].n : i \in kept + 1 .. Len(feed.lines)} \ {0}]
    /\ UNCHANGED reader

-----------------------------------------------------------------------------
(* What an iterator does with one event.  A raised error that leaves it    *)
(* open is one item; the caller may go on.  0 stands for what a caller got *)
(* that no one said.                                                       *)

Hand(r, n) == [r EXCEPT !.got = Append(@, n)]
Stop(r) == [r EXCEPT !.state = "ended"]
Hurt(r) == [r EXCEPT !.told = TRUE]
Raise(r) == Stop(Hurt(r))
ShowError(r) == Hurt(Hand(r, 0))

\* An event that is handed over, the last one if it is terminal.
TypedEvent(r, f) == IF f.kind = "terminal" THEN Stop(Hand(r, f.n)) ELSE Hand(r, f.n)

\* An error frame lacks the fields of a chunk: where these are required it fails to decode.
RustChat(r, f) ==
    CASE f.kind = "done" -> Stop(r) [] f.kind = "error" -> Hurt(r) [] OTHER -> Hand(r, f.n)
KotlinChat(r, f) ==
    CASE f.kind = "done" -> Stop(r) [] f.kind = "error" -> Raise(r) [] OTHER -> Hand(r, f.n)
ZigChat(r, f) ==
    CASE f.kind = "done" -> Stop(r) [] f.kind = "error" -> Hurt(r) [] OTHER -> Hand(r, f.n)

\* Where they have defaults it is a chunk without choices.
GoChat(r, f) == IF f.kind = "error" THEN Hand(r, 0) ELSE Hand(r, f.n)
TypeScriptChat(r, f) == IF f.kind = "error" THEN Hand(r, 0) ELSE Hand(r, f.n)
CSharpChat(r, f) == IF f.kind = "error" THEN Hand(r, 0) ELSE Hand(r, f.n)

\* Two SDKs know the family by its prefix, four have a list.
RustResponses(r, f) == IF f.kind = "error" THEN Raise(r) ELSE TypedEvent(r, f)
ZigResponses(r, f) == IF f.kind = "error" THEN ShowError(r) ELSE TypedEvent(r, f)
GoResponses(r, f) ==
    CASE f.kind = "error" -> Raise(r) [] f.kind = "other" -> r [] OTHER -> TypedEvent(r, f)
KotlinResponses(r, f) ==
    CASE f.kind = "error" -> Raise(r) [] f.kind = "other" -> r [] OTHER -> TypedEvent(r, f)
TypeScriptResponses(r, f) ==
    CASE f.kind = "error" -> ShowError(r) [] f.kind = "other" -> r [] OTHER -> TypedEvent(r, f)
CSharpResponses(r, f) ==
    CASE f.kind = "error" -> ShowError(r) [] f.kind = "other" -> r [] OTHER -> TypedEvent(r, f)

\* A line without a custom id does not decode, or is a result of its own with an error.
RustBatch(r, f) == IF f.kind = "error" THEN Hurt(r) ELSE Hand(r, f.n)
KotlinBatch(r, f) == IF f.kind = "error" THEN Raise(r) ELSE Hand(r, f.n)
GoBatch(r, f) == IF f.kind = "error" THEN ShowError(r) ELSE Hand(r, f.n)
TypeScriptBatch(r, f) == IF f.kind = "error" THEN ShowError(r) ELSE Hand(r, f.n)
CSharpBatch(r, f) == IF f.kind = "error" THEN ShowError(r) ELSE Hand(r, f.n)
ZigBatch(r, f) == IF f.kind = "error" THEN ShowError(r) ELSE Hand(r, f.n)

Handle(r, f) ==
    LET by == <<r.sdk, feed.surface>> IN
    CASE by = <<"rust", "chat">> -> RustChat(r, f)
      [] by = <<"go", "chat">> -> GoChat(r, f)
      [] by = <<"typescript", "chat">> -> TypeScriptChat(r, f)
      [] by = <<"csharp", "chat">> -> CSharpChat(r, f)
      [] by = <<"kotlin", "chat">> -> KotlinChat(r, f)
      [] by = <<"zig", "chat">> -> ZigChat(r, f)
      [] by = <<"rust", "responses">> -> RustResponses(r, f)
      [] by = <<"go", "responses">> -> GoResponses(r, f)
      [] by = <<"typescript", "responses">> -> TypeScriptResponses(r, f)
      [] by = <<"csharp", "responses">> -> CSharpResponses(r, f)
      [] by = <<"kotlin", "responses">> -> KotlinResponses(r, f)
      [] by = <<"zig", "responses">> -> ZigResponses(r, f)
      [] by = <<"rust", "batch">> -> RustBatch(r, f)
      [] by = <<"go", "batch">> -> GoBatch(r, f)
      [] by = <<"typescript", "batch">> -> TypeScriptBatch(r, f)
      [] by = <<"csharp", "batch">> -> CSharpBatch(r, f)
      [] by = <<"kotlin", "batch">> -> KotlinBatch(r, f)
      [] by = <<"zig", "batch">> -> ZigBatch(r, f)

-----------------------------------------------------------------------------
(* Lines.                                                                  *)

AtBlank == {"go", "typescript", "csharp"}       \* hand an event over at the blank line
Bounded == {"go", "zig"}                        \* read into a buffer of one mebibyte

\* An SSE line of an SDK that waits for the blank one; the sentinel does not.
Keep(r, f) ==
    CASE f.kind = "done" -> Stop(r)
      [] f.kind = "blank" ->
            IF r.pending = None THEN r ELSE Handle([r EXCEPT !.pending = None], r.pending)
      [] OTHER -> [r EXCEPT !.pending = f]

ReadLine(r, f) ==
    IF f.kind = "large" /\ r.sdk \in Bounded THEN Raise(r)
    ELSE IF feed.surface # "batch" /\ r.sdk \in AtBlank THEN Keep(r, f)
    ELSE IF f.kind = "blank" THEN r
    ELSE Handle(r, f)

Read ==
    /\ reader.state = "open" /\ feed.lines # <<>>
    /\ reader' = ReadLine(reader, Head(feed.lines))
    /\ feed' = [feed EXCEPT !.lines = Tail(@)]

\* A broken connection is an error; a closed one is the end, after the event that was waiting.
ReadEnd ==
    /\ reader.state = "open" /\ feed.lines = <<>>
    /\ feed.state # "open" \/ feed.link # "up"
    /\ reader' =
          IF feed.link = "broken" THEN Raise(reader)
          ELSE IF reader.pending = None THEN Stop(reader)
          ELSE Stop(Handle([reader EXCEPT !.pending = None], reader.pending))
    /\ UNCHANGED feed

Next ==
    \/ \E kind \in {"item", "large", "other"} : Say(kind)
    \/ \E failed \in BOOLEAN : ChatEnd(failed) \/ ResponsesEnd(failed) \/ BatchEnd(failed)
    \/ \E how \in {"broken", "closed"} : Lose(how)
    \/ Read \/ ReadEnd

Spec == Init /\ [][Next]_vars

-----------------------------------------------------------------------------
(* Properties.                                                             *)

\* The frames a caller should see: those of later types only where they are let through.
Meant == {n \in 1..Len(feed.said) : feed.said[n] # "other" \/ reader.sdk \in {"rust", "zig"}}

Heard == {reader.got[i] : i \in DOMAIN reader.got} \ {0}

\* A caller gets the frames of the node, each once, in order and without a gap.
InOrder ==
    /\ Heard \subseteq Meant
    /\ \A i, j \in DOMAIN reader.got :
          i < j /\ {reader.got[i], reader.got[j]} \subseteq Heard => reader.got[i] < reader.got[j]
    /\ \A n \in Heard, missed \in Meant \ Heard : n < missed

\* These take a chat stream's error frame for an empty chunk.
Mute == feed.surface = "chat" /\ reader.sdk \in AtBlank

\* A caller who met no error had all that arrived, and the node had finished. That a proxy closed
\* the stream in good order is beyond what an SDK can see, and so is a failure for a mute one.
EndMeansWhole ==
    reader.state = "ended" /\ ~reader.told =>
        /\ Heard = Meant \ feed.lost
        /\ \/ feed.state = "finished" \/ feed.link = "closed"
           \/ feed.state = "failed" /\ Mute

\* An error means that something failed: the node, the connection or a line too long to read.
NoFalseAlarm ==
    reader.told =>
        \/ feed.state = "failed" \/ feed.link = "broken"
        \/ reader.sdk \in Bounded /\ \E i \in 1..Len(feed.said) : feed.said[i] = "large"
=============================================================================
