------------------------- MODULE ConversationRelay --------------------------
(***************************************************************************)
(* A conversation with tool calls between a consumer, which holds the only *)
(* history and sends all of it with every request, and an upstream that    *)
(* answers. One node, or two joined by the "llmleaf" provider kind, read   *)
(* the history in the consumer's dialect and write it in the upstream's.   *)
(***************************************************************************)
EXTENDS Conversation, FiniteSets

CONSTANTS
    Dialects,       \* consumer dialects
    Upstreams,      \* kinds of upstream
    Hops,           \* numbers of llmleaf upstreams on the way: 0, 1
    Stops,          \* whether a request may have stop sequences
    Kinds,          \* kinds of output items an upstream may produce
    MaxItems,       \* bound: output items of a conversation
    MaxTurns        \* bound: turns of a conversation

VARIABLES
    route,          \* the consumer's dialect, the hops, the upstream
    dialogue,       \* the history the consumer holds
    request         \* the last request: who is to move, and what the upstream read of it

vars == <<route, dialogue, request>>

Routes == [dialect : Dialects, hops : Hops, upstream : Upstreams]

-----------------------------------------------------------------------------
(* The upstreams: OpenAI-wire brands, and what each can produce.           *)

Brand(name) ==
    [api |-> IF name = "chat" THEN "completions" ELSE "responses",
     flavor |-> IF name \in {"openrouter", "groq", "llmleaf"} THEN name ELSE "openai",
     served |-> name \notin {"chat", "unserved"}]

Provider(name, req) ==
    CASE name = "anthropic" -> AnthropicChat(req)
      [] name = "gemini" -> GeminiChat(req)
      [] name = "ollama" -> OllamaChat(req)
      [] name = "cohere" -> CohereChat(req)
      [] OTHER -> OpenAiChat(Brand(name), req)

Signs(name) == name \in {"anthropic", "openrouter"}
Produces(name) ==
    {"text", "call"}
    \cup (IF name \in {"anthropic", "openrouter", "groq"} THEN {"thinking"} ELSE {})
    \cup (IF name \in {"anthropic", "openrouter", "openai"} THEN {"redacted"} ELSE {})
    \cup (IF name \in {"anthropic", "openai"} THEN {"compaction"} ELSE {})

\* An output item; n is its fragment and its id.
Item(name, kind, n) ==
    CASE kind = "text" -> Text(<<n>>)
      [] kind = "thinking" -> Thinking(<<n>>, IF Signs(name) THEN n ELSE None)
      [] kind = "redacted" -> RedactedThinking(n)
      [] kind = "call" -> ToolCall(n, "tool", n)
      [] kind = "compaction" -> IF name = "anthropic" THEN Compaction(None, <<n>>, None, n)
                                ELSE Compaction(n, None, n, None)

-----------------------------------------------------------------------------
(* The consumer writes its history in its dialect.                         *)

Single(turn) == [k \in DOMAIN turn.parts |-> Turn(turn.role, <<turn.parts[k]>>)]

\* Chat: no reasoning is kept, each result is a message.
WriteChat(turn) ==
    CASE turn.role = "user" -> Single(turn)
      [] turn.role = "assistant" ->
            <<Turn("assistant", OfKind(turn.parts, {"text", "call", "compaction"}))>>
      [] turn.role = "system" -> <<Turn("developer", turn.parts)>>

WriteTurn(dialect, turn) ==
    CASE dialect = "chat" -> WriteChat(turn)
      [] dialect = "messages" -> <<turn>>
      [] dialect = "responses" -> Single(turn)

-----------------------------------------------------------------------------
(* One request through the nodes.                                          *)

Convey(turns, stop) ==
    LET first == Parse(route.dialect, turns, stop)
        hop == OpenAiChat(Brand("llmleaf"), first)
    IN IF route.hops = 0 THEN Provider(route.upstream, first)
       ELSE IF ~hop.ok THEN Refused
       ELSE Provider(route.upstream, Parse(hop.wire, hop.turns, stop))

Fragment == Len(FlattenSeq([k \in DOMAIN dialogue |-> dialogue[k].parts])) + 1

Submit(turns, stop) ==
    /\ dialogue' = turns
    /\ LET out == Convey(FlattenSeq([k \in DOMAIN turns |->
                             WriteTurn(route.dialect, turns[k])]), stop)
       IN request' = [phase |-> "sent", stop |-> stop, ok |-> out.ok, turns |-> out.turns]

Init ==
    /\ route \in Routes
    /\ dialogue \in {<<>>, <<Turn("system", <<Text(<<1>>)>>)>>}
    /\ request = [phase |-> "idle", stop |-> FALSE, ok |-> TRUE, turns |-> <<>>]

Calls(turn) == OfKind(turn.parts, {"call"})

Answered == dialogue # <<>> /\ Last(dialogue).role = "assistant" /\ request.phase = "idle"

\* The consumer says something, when no call waits for a result.
Ask(stop) ==
    /\ request.phase = "idle" /\ Len(dialogue) < MaxTurns
    /\ Answered => Calls(Last(dialogue)) = <<>>
    /\ Submit(Append(dialogue, Turn("user", <<Text(<<Fragment>>)>>)), stop)
    /\ UNCHANGED route

\* It returns the results of all calls, in any order, and may add a text.
Return(stop) ==
    /\ Answered /\ Len(dialogue) < MaxTurns
    /\ LET calls == Calls(Last(dialogue))
       IN /\ calls # <<>>
          /\ \E order \in SetToSeqs(DOMAIN calls), more \in BOOLEAN :
                LET results == [k \in DOMAIN calls |->
                        Result(calls[order[k]].id, None, <<Fragment + k>>)]
                IN Submit(Append(dialogue,
                        Turn("user", IF more THEN Append(results, Text(<<Fragment>>))
                                     ELSE results)), stop)
    /\ UNCHANGED route

\* The items of all answers so far.
ItemCount == Len(FlattenSeq([k \in DOMAIN dialogue |->
                 IF dialogue[k].role = "assistant" THEN dialogue[k].parts ELSE <<>>]))

\* The upstream answers a request it was given, with any items it can produce.
Answer ==
    /\ request.phase = "sent" /\ request.ok
    /\ \E n \in 1..(MaxItems - ItemCount) :
          \E kinds \in [1..n -> Kinds \cap Produces(route.upstream)] :
             dialogue' = Append(dialogue, Turn("assistant",
                 [k \in 1..n |-> Item(route.upstream, kinds[k], Fragment + k)]))
    /\ request' = [phase |-> "idle", stop |-> FALSE, ok |-> TRUE, turns |-> <<>>]
    /\ UNCHANGED route

Next ==
    \/ \E stop \in Stops : Ask(stop)
    \/ \E stop \in Stops : Return(stop)
    \/ Answer

Spec == Init /\ [][Next]_vars

-----------------------------------------------------------------------------
(* Properties. A part as the upstream read it, with the role it was in.    *)

Heard == FlattenSeq([k \in DOMAIN request.turns |-> request.turns[k].parts])
Held == FlattenSeq([k \in DOMAIN dialogue |-> dialogue[k].parts])

Delivered == request.phase = "sent" /\ request.ok

\* Texts and results as fragments, each with the side it comes from.
Side(role) == CASE role \in {"assistant", "model"} -> "assistant"
                [] role \in {"system", "developer"} -> "system"
                [] OTHER -> "user"
Spoken(turns) ==
    FlattenSeq([k \in DOMAIN turns |->
        LET said == OfKind(turns[k].parts, {"text", "result"})
            text == FlattenSeq([j \in DOMAIN said |-> said[j].text])
        IN [j \in DOMAIN text |-> <<Side(turns[k].role), text[j]>>]])

\* The request is well formed: an upstream sees no role of the consumer's dialect that
\* has no place on its wire, and nothing of a refused request.
TypeOK ==
    /\ route \in Routes
    /\ Len(dialogue) <= MaxTurns + 1 /\ ItemCount <= MaxItems
    /\ {request.ok, request.stop} \subseteq BOOLEAN /\ request.phase \in {"idle", "sent"}
    /\ ~request.ok => request.turns = <<>>
    /\ \A k \in DOMAIN request.turns :
          request.turns[k].role \in {"system", "user", "assistant", "model", "tool"}

\* Whatever wires the history crosses, the upstream reads every text and every result,
\* once, from the right side and in the order they were said.
SaidInOrder == Delivered => Spoken(request.turns) = Spoken(dialogue)

\* Every result the upstream reads follows exactly one call that goes by the same id,
\* and that is the call it answers in the history. Gemini pairs results by function name, which
\* the consumers' dialects do not carry.
CallsAnswered ==
    Delivered /\ route.upstream # "gemini" =>
        LET heard == Heard
            answers == OfKind(Held, {"result"})
        IN \A r \in DOMAIN heard :
              heard[r].kind = "result" =>
                 LET named == {c \in 1..(r - 1) :
                                 heard[c].kind = "call" /\ heard[c].id = heard[r].id}
                     meant == CHOOSE h \in DOMAIN answers : answers[h].text = heard[r].text
                 IN /\ Cardinality(named) = 1
                    /\ \A c \in named : heard[c].arguments = answers[meant].id

\* The reasoning an upstream made, as it is to be replayed to it.
Replayable == {Held[k] : k \in {k \in DOMAIN Held : Held[k].kind \in {"thinking", "redacted"}}}
HeardReasoning == {Heard[k] : k \in {k \in DOMAIN Heard : Heard[k].kind \in {"thinking", "redacted"}}}

\* Stop sequences force an OpenAI-wire upstream, and so a hop, onto chat completions.
ForcedToChat ==
    request.stop /\ (route.hops = 1 \/ route.upstream \in {"openai", "openrouter", "groq"})

\* Reasoning comes back to the upstream that made it verbatim, signature included, and whole,
\* unless the request is forced onto the chat wire; what came before a call is read before it.
ReasoningKept ==
    Delivered =>
        LET heard == Heard
            held == Held
            place(part) == {k \in DOMAIN heard : heard[k] = part}
        IN /\ route.dialect # "chat" =>
                 /\ HeardReasoning \subseteq Replayable
                 /\ ~ForcedToChat => HeardReasoning = Replayable
           /\ \A i, j \in DOMAIN held :
                 i < j /\ held[i].kind \in {"thinking", "redacted"} /\ held[j].kind = "call"
                 => \A r \in place(held[i]), c \in place(held[j]) : r < c

Essence(c) == [c EXCEPT !.id = None]

\* A compaction stands for the history before it: a request that is let through carries
\* every one of them whole.
CompactionSurvives ==
    Delivered =>
        {Essence(Heard[k]) : k \in {k \in DOMAIN Heard : Heard[k].kind = "compaction"}}
        = {Essence(Held[k]) : k \in {k \in DOMAIN Held : Held[k].kind = "compaction"}}

\* The two wires of an OpenAI upstream, and so of a hop, hold stop sequences or opaque parts but
\* not both; Claude's compaction, which is readable, is not sent across a hop at all.
Unwritable ==
    LET holds(kinds) == \E k \in DOMAIN Held : Held[k].kind \in kinds
    IN \/ ForcedToChat /\ holds({"redacted", "compaction"})
       \/ route.hops = 1 /\ route.upstream = "anthropic" /\ holds({"compaction"})

\* What an upstream said it can be sent again: no request is refused on the route that
\* produced the history, but for one that no wire of the route can hold.
Replays == request.ok \/ Unwritable
=============================================================================
