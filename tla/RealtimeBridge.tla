---------------------------- MODULE RealtimeBridge ----------------------------
(***************************************************************************)
(* The Realtime dialect served over the chat pipeline (llmleaf-core:       *)
(* compat/realtime): what a client event does to the session (session.rs), *)
(* and the server frames made of one turn's chunks (wire.rs,               *)
(* ResponseScaffold).  A session keeps its messages and the modality it    *)
(* answers in; its other settings are copied into the request unread.      *)
(***************************************************************************)
EXTENDS StreamChunks

-----------------------------------------------------------------------------
(* Client events, named by what the bridge tells apart.                    *)

Says == {"user", "output",                      \* items: a user message, a call's result
         "text", "audio",                       \* session.update with a modality
         "create", "aside",                     \* response.create; not to be kept
         "create_text", "create_audio",         \* response.create with a modality
         "sound", "binary",                     \* audio input, as event and as frame
         "garbage", "other"}                    \* no JSON; cancel, delete and the unknown

Creates == {"create", "aside", "create_text", "create_audio"}

NewSession == [messages |-> <<>>, text_only |-> TRUE, handled |-> <<>>]

\* The override of a response.create stands in for the session's modality.
WantsAudio(session, event) ==
    \/ event = "create_audio"
    \/ event \in {"create", "aside"} /\ ~session.text_only

\* Events that are answered, so that a dead socket is noticed; errors are sent blindly.
Answered == {"user", "output", "text", "audio"}

Said(role, n) == [role |-> role, frame |-> n]

\* handle_frame, but for the turn a response.create starts; handled is history.
HandleEvent(session, n, event) ==
    [session EXCEPT
        !.handled = Append(@, n),
        !.messages = CASE event = "user" -> Append(@, Said("user", n))
                       [] event = "output" -> Append(@, Said("tool", n))
                       [] OTHER -> @,
        !.text_only = CASE event = "text" -> TRUE
                        [] event = "audio" -> FALSE
                        [] OTHER -> @]

-----------------------------------------------------------------------------
(* ResponseScaffold.                                                       *)

NewScaffold == [opened |-> FALSE, text |-> <<>>, thinking |-> <<>>, signature |-> None,
                redacted |-> <<>>, compaction |-> <<>>, tools |-> <<>>, seq |-> 0]

\* A server frame of a turn: the output item it is about, its sequence number and its content.
ServerFrame(type, at, seq, body) == [type |-> type, at |-> at, seq |-> seq, body |-> body]
Bare(type) == ServerFrame(type, None, None, None)
About(type, at, body) == ServerFrame(type, at, None, body)

\* The message is output item 0, the calls follow by their index.
MessageItem == 0
CallItem(index) == 1 + index

Step(scaffold, out) == [scaffold |-> scaffold, out |-> out]

OnContent(s, delta) ==
    Step([s EXCEPT !.opened = TRUE, !.text = @ \o delta, !.seq = @ + 1],
         (IF s.opened THEN <<>>
          ELSE <<About("added", MessageItem, None), About("part_added", MessageItem, None)>>)
         \o <<ServerFrame("delta", MessageItem, s.seq + 1, delta)>>)

\* Arguments are numbered and streamed; the id of the call is taken from its first delta.
OnToolCall(s, c) ==
    LET tools == PutTool(s.tools, c)
        at == CallItem(c.call)
        numbered == c.arguments # None
    IN Step([s EXCEPT !.tools = tools, !.seq = IF numbered THEN @ + 1 ELSE @],
            (IF c.call \in DOMAIN s.tools THEN <<>> ELSE <<About("added", at, tools[c.call].id)>>)
            \o (IF numbered THEN <<ServerFrame("delta", at, s.seq + 1, c.arguments)>> ELSE <<>>))

\* on_chunk: reasoning is kept for the next request and not shown.
OnChunk(s, c) ==
    CASE c.kind = "content" -> OnContent(s, c.delta)
      [] c.kind = "tool" -> OnToolCall(s, c)
      [] c.kind = "thinking" -> Step([s EXCEPT !.thinking = @ \o c.delta], <<>>)
      [] c.kind = "signature" -> Step([s EXCEPT !.signature = c.signature], <<>>)
      [] c.kind = "redacted" -> Step([s EXCEPT !.redacted = Append(@, c.data)], <<>>)
      [] c.kind = "compaction" -> Step([s EXCEPT !.compaction = Append(@, c)], <<>>)
      [] OTHER -> Step(s, <<>>)

\* The calls in index order.
CallsOf(s) == SetToSortSeq(DOMAIN s.tools, <)

\* assistant_message.
AssistantMessage(s) ==
    LET compactions == IF s.compaction = <<>> THEN <<>>
                       ELSE CollectChunks(s.compaction).choices[0].compaction
        calls == CallsOf(s)
    IN [role |-> "assistant",
        content |-> compactions \o ThinkingParts(s)
                    \o (IF s.text = <<>> THEN <<>> ELSE <<[text |-> s.text]>>),
        calls |-> [k \in DOMAIN calls |-> s.tools[calls[k]]]]

StatusFor(reason) ==
    CASE reason \in {"stop", "tool_calls", "compaction"} -> "completed"
      [] reason \in {"length", "content_filter"} -> "incomplete"
      [] reason = "error" -> "failed"

\* finish: every open item is closed, then response.done with all of them.
FinishFrames(s, reason) ==
    LET calls == CallsOf(s)
        message == IF s.opened THEN <<About("item_done", MessageItem, s.text)>> ELSE <<>>
        items == message \o [k \in DOMAIN calls |->
                     About("item_done", CallItem(calls[k]), s.tools[calls[k]].arguments)]
    IN (IF s.opened
        THEN <<About("text_done", MessageItem, s.text), About("part_done", MessageItem, s.text)>>
             \o message \o <<About("kept", MessageItem, s.text)>>
        ELSE <<>>)
       \o FlattenSeq([k \in DOMAIN calls |->
             LET at == CallItem(calls[k])
                 arguments == s.tools[calls[k]].arguments
             IN <<About("arguments_done", at, arguments), About("item_done", at, arguments)>>])
       \o <<About("response_done", None, [status |-> StatusFor(reason), output |-> items])>>
=============================================================================
