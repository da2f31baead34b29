--------------------------- MODULE Conversation -----------------------------
(***************************************************************************)
(* The canonical conversation of a chat request (llmleaf-model:            *)
(* request.rs), and the wire form every dialect's conversation is given    *)
(* here: a sequence of turns, each a role and its parts. A text is the     *)
(* sequence of its fragments; a fragment also stands for the arguments of  *)
(* a call. Images, audio and tool definitions are left out. Then the       *)
(* requests of the three consumer dialects read into it: chat completions  *)
(* (compat/openai.rs), Messages (compat/anthropic.rs) and Responses        *)
(* (compat/responses.rs). Last, a conversation written for each kind of    *)
(* upstream: the chat completions wire (openai_wire.rs), the Responses     *)
(* wire in its flavors (openai_responses_wire.rs) with the choice between  *)
(* the two (compat.rs), Anthropic, Gemini, Ollama and Cohere.              *)
(***************************************************************************)
EXTENDS Naturals, Sequences, SequencesExt

CONSTANT None       \* an absent optional field

\* ContentPart.
Text(text) == [kind |-> "text", text |-> text]
Thinking(text, signature) == [kind |-> "thinking", text |-> text, signature |-> signature]
RedactedThinking(data) == [kind |-> "redacted", data |-> data]
Compaction(id, content, encrypted, signature) ==
    [kind |-> "compaction", id |-> id, content |-> content,
     encrypted |-> encrypted, signature |-> signature]

\* ToolCall, and on a wire the result that answers one.
ToolCall(id, name, arguments) ==
    [kind |-> "call", id |-> id, name |-> name, arguments |-> arguments]
Result(id, name, text) == [kind |-> "result", id |-> id, name |-> name, text |-> text]

\* Message.
Message(role, content) ==
    [role |-> role, content |-> content, calls |-> <<>>, answers |-> None, name |-> None]

ToolMessage(result) ==
    [Message("tool", <<Text(result.text)>>) EXCEPT !.answers = result.id, !.name = result.name]

\* A turn of a wire; a Responses item is a turn of one part.
Turn(role, parts) == [role |-> role, parts |-> parts]

OfKind(parts, kinds) == SelectSeq(parts, LAMBDA p : p.kind \in kinds)

\* Message::text_content: all text parts as one.
TextContent(message) ==
    LET texts == OfKind(message.content, {"text"})
    IN FlattenSeq([k \in DOMAIN texts |-> texts[k].text])

\* A joined text as parts: none when it is empty.
TextPart(text) == IF text = <<>> THEN <<>> ELSE <<Text(text)>>

\* ChatRequest::has_compaction.
HasCompaction(request) ==
    \E m \in DOMAIN request.messages :
        OfKind(request.messages[m].content, {"compaction"}) # <<>>

-----------------------------------------------------------------------------
(* Reading.                                                                *)

ParseRole(role) ==
    CASE role \in {"system", "developer"} -> "system"
      [] role \in {"tool", "function"} -> "tool"
      [] OTHER -> role

-----------------------------------------------------------------------------
(* Chat completions: one message per turn.                                 *)

ParseChatTurn(turn) ==
    LET results == OfKind(turn.parts, {"result"})
    IN IF results # <<>> THEN ToolMessage(Head(results))
       ELSE [Message(ParseRole(turn.role),
                     OfKind(turn.parts, {"text"}) \o OfKind(turn.parts, {"compaction"}))
             EXCEPT !.calls = OfKind(turn.parts, {"call"})]

ParseChat(turns) == [k \in DOMAIN turns |-> ParseChatTurn(turns[k])]

-----------------------------------------------------------------------------
(* Messages: a user turn's results become tool messages ahead of its text. *)

\* Mutant: the results of a turn follow its text.
ParseUserTurnLast(turn) ==
    LET results == OfKind(turn.parts, {"result"})
        rest == OfKind(turn.parts, {"text", "compaction"})
    IN (IF rest # <<>> \/ results = <<>> THEN <<Message("user", rest)>> ELSE <<>>)
       \o [k \in DOMAIN results |-> ToolMessage(results[k])]
\* parse_user_content: a turn of nothing but results leaves no user message.
ParseUserTurn(turn) ==
    LET results == OfKind(turn.parts, {"result"})
        rest == OfKind(turn.parts, {"text", "compaction"})
    IN [k \in DOMAIN results |-> ToolMessage(results[k])]
       \o (IF rest # <<>> \/ results = <<>> THEN <<Message("user", rest)>> ELSE <<>>)

\* parse_assistant_message: content parts in their order, the calls apart.
ParseAssistantTurn(turn) ==
    [Message("assistant", OfKind(turn.parts, {"text", "thinking", "redacted", "compaction"}))
     EXCEPT !.calls = OfKind(turn.parts, {"call"})]

ParseMessagesTurn(turn) ==
    CASE turn.role = "user" -> ParseUserTurn(turn)
      [] turn.role = "assistant" -> <<ParseAssistantTurn(turn)>>
      [] turn.role = "system" -> <<Message("system", turn.parts)>>

ParseMessages(turns) == FlattenSeq([k \in DOMAIN turns |-> ParseMessagesTurn(turns[k])])

-----------------------------------------------------------------------------
(* Responses: reasoning waits for the next assistant-side item.            *)

\* prepend_pending.
PrependPending(message, pending) == [message EXCEPT !.content = pending \o @]

NewCallMessage(call) == [Message("assistant", <<>>) EXCEPT !.calls = <<call>>]

\* A message item with its content parts.
InputMessage(item) == Message(ParseRole(item.role), item.parts)

\* collect_reasoning.
CollectReasoning(pending, part) == Append(pending, part)

\* One item of the input list.
InputItem(st, item) ==
    LET part == Head(item.parts)
        role == ParseRole(item.role)
        out == st.out
        open == out # <<>> /\ Last(out).role = "assistant"
        put(message) == [out |-> Append(out, message), pending |-> <<>>]
    IN CASE part.kind = "text" /\ role = "assistant" ->
                put(PrependPending(InputMessage(item), st.pending))
         [] part.kind = "text" /\ role # "assistant" ->
                [st EXCEPT !.out = Append(@, InputMessage(item))]
         [] part.kind = "call" /\ open ->
                [out |-> Front(out) \o
                    <<[PrependPending(Last(out), st.pending) EXCEPT !.calls = Append(@, part)]>>,
                 pending |-> <<>>]
         [] part.kind = "call" /\ ~open ->
                put(PrependPending(NewCallMessage(part), st.pending))
         [] part.kind = "result" -> [st EXCEPT !.out = Append(@, ToolMessage(part))]
         [] part.kind \in {"thinking", "redacted"} -> [st EXCEPT !.pending = CollectReasoning(@, part)]
         [] part.kind = "compaction" ->
                [out |-> (IF st.pending = <<>> THEN out
                          ELSE Append(out, Message("assistant", st.pending)))
                         \o <<Message("assistant", <<part>>)>>,
                 pending |-> <<>>]

ReadInput(items) == FoldLeft(InputItem, [out |-> <<>>, pending |-> <<>>], items)

\* Mutant: reasoning that nothing follows is dropped.
ParseResponsesDropped(items) == ReadInput(items).out
\* parse_input_array: trailing reasoning becomes a message of its own.
ParseResponses(items) ==
    LET st == ReadInput(items)
    IN IF st.pending = <<>> THEN st.out ELSE Append(st.out, Message("assistant", st.pending))

-----------------------------------------------------------------------------

\* A request in a dialect; only chat completions and Messages have stop sequences.
Parse(dialect, turns, stop) ==
    [messages |-> CASE dialect = "chat" -> ParseChat(turns)
                    [] dialect = "messages" -> ParseMessages(turns)
                    [] dialect = "responses" -> ParseResponses(turns),
     stop |-> stop]

-----------------------------------------------------------------------------
(* Egress. A provider refuses, as Unsupported, what its upstream cannot    *)
(* represent.                                                              *)

Refused == [ok |-> FALSE, wire |-> None, turns |-> <<>>]
Written(wire, turns) == [ok |-> TRUE, wire |-> wire, turns |-> turns]

NotSystem(request) == SelectSeq(request.messages, LAMBDA m : m.role # "system")

\* System messages joined into one leading turn.
SystemTurn(request) ==
    LET systems == SelectSeq(request.messages, LAMBDA m : m.role = "system")
        text == FlattenSeq([k \in DOMAIN systems |-> TextContent(systems[k])])
    IN IF text = <<>> THEN <<>> ELSE <<Turn("system", <<Text(text)>>)>>

-----------------------------------------------------------------------------
(* Chat completions: reasoning and compactions have no field.              *)

MessageToOpenai(m) ==
    Turn(m.role, IF m.answers # None THEN <<Result(m.answers, m.name, TextContent(m))>>
                 ELSE OfKind(m.content, {"text"}) \o m.calls)

ToChat(request) == [k \in DOMAIN request.messages |-> MessageToOpenai(request.messages[k])]

-----------------------------------------------------------------------------
(* Responses.                                                              *)

ReplaysOpenReasoning(flavor) == flavor \in {"openrouter", "groq", "llmleaf"}
ModelsSignature(flavor) == flavor \in {"openrouter", "llmleaf"}
ModelsEncryptedReasoning(flavor) == flavor \in {"openai", "openrouter", "llmleaf"}

\* The items a content part becomes; text is written apart.
ReasoningItems(part, flavor) ==
    CASE part.kind = "redacted" /\ ModelsEncryptedReasoning(flavor) -> <<part>>
      [] part.kind = "thinking" /\ ReplaysOpenReasoning(flavor) ->
            <<[part EXCEPT !.signature = IF ModelsSignature(flavor) THEN @ ELSE None]>>
      [] part.kind = "compaction" -> <<Compaction(part.id, None, part.encrypted, None)>>
      [] OTHER -> <<>>

\* push_assistant_items: reasoning, then the text, then the calls.
AssistantItems(m, flavor) ==
    LET parts == FlattenSeq([k \in DOMAIN m.content |-> ReasoningItems(m.content[k], flavor)])
                 \o TextPart(TextContent(m)) \o m.calls
    IN [k \in DOMAIN parts |-> Turn("assistant", <<parts[k]>>)]

MessageItems(m, flavor) ==
    CASE m.role = "assistant" -> AssistantItems(m, flavor)
      [] m.role = "tool" -> <<Turn("tool", <<Result(m.answers, None, TextContent(m))>>)>>
      [] OTHER -> <<Turn(m.role, OfKind(m.content, {"text"}))>>

ToResponses(request, flavor) ==
    FlattenSeq([k \in DOMAIN request.messages |-> MessageItems(request.messages[k], flavor)])

-----------------------------------------------------------------------------
(* OpenAiCompatProvider::chat: which of the two wires.                     *)

\* Mutant: a request with tool results also needs chat completions.
NeedsChatCompletionsTools(request) ==
    request.stop \/ \E m \in DOMAIN request.messages : request.messages[m].answers # None
NeedsChatCompletions(request) == request.stop

RequiresResponses(request) ==
    \E m \in DOMAIN request.messages :
        OfKind(request.messages[m].content, {"redacted", "compaction"}) # <<>>

EffectiveChatApi(brand, request) ==
    CASE RequiresResponses(request) -> "responses"
      [] ~RequiresResponses(request) /\ NeedsChatCompletions(request) -> "completions"
      [] OTHER -> brand.api

\* Only an encrypted compaction can be replayed on this wire.
EncryptedOnly(request) ==
    \A m \in DOMAIN request.messages :
        LET found == OfKind(request.messages[m].content, {"compaction"})
        IN \A k \in DOMAIN found :
              found[k].content = None /\ found[k].signature = None /\ found[k].encrypted # None

\* The Responses endpoint of a brand that does not serve it answers 404: the request
\* goes to chat completions, unless it depends on Responses.
OpenAiChat(brand, request) ==
    LET api == EffectiveChatApi(brand, request)
    IN IF ~EncryptedOnly(request) \/ (api = "responses" /\ NeedsChatCompletions(request))
       THEN Refused
       ELSE IF api = "responses" /\ brand.served
       THEN Written("responses", ToResponses(request, brand.flavor))
       ELSE IF api = "responses" /\ RequiresResponses(request) THEN Refused
       ELSE Written("chat", ToChat(request))

-----------------------------------------------------------------------------
(* Anthropic.                                                              *)

\* Mutant: the signature is left behind.
AnthropicBlockUnsigned(part) ==
    IF part.kind = "compaction" THEN Compaction(None, part.content, None, None) ELSE part
\* A compaction block has no id and no encrypted form.
AnthropicBlock(part) ==
    IF part.kind = "compaction" THEN Compaction(None, part.content, None, part.signature) ELSE part

Blocks(m) == [k \in DOMAIN m.content |-> AnthropicBlock(m.content[k])]

AssistantBlocks(m) == Blocks(m) \o m.calls

MessageToAnthropic(m) ==
    IF m.role = "tool" THEN Turn("user", <<Result(m.answers, None, TextContent(m))>>)
    ELSE Turn(IF m.role = "assistant" THEN "assistant" ELSE "user", AssistantBlocks(m))

\* validate_compaction: an encrypted compaction is another provider's.
ValidCompaction(request) ==
    \A m \in DOMAIN request.messages :
        LET found == OfKind(request.messages[m].content, {"compaction"})
        IN \A k \in DOMAIN found : found[k].encrypted = None

AnthropicChat(request) ==
    LET messages == NotSystem(request)
    IN IF ~ValidCompaction(request) THEN Refused
       ELSE Written("messages",
                    SystemTurn(request) \o [k \in DOMAIN messages |-> MessageToAnthropic(messages[k])])

-----------------------------------------------------------------------------
(* Gemini, Ollama and Cohere refuse compactions and write no reasoning.    *)

\* A call has no id here and a result goes by the tool's name.
MessageToGemini(m) ==
    IF m.role = "tool"
    THEN Turn("user", <<Result(m.name, m.name, TextContent(m))>>)
    ELSE Turn(IF m.role = "assistant" THEN "model" ELSE "user",
              OfKind(m.content, {"text"})
              \o [k \in DOMAIN m.calls |-> [m.calls[k] EXCEPT !.id = m.calls[k].name]])

MessageToOllama(m) ==
    Turn(m.role, IF m.role = "tool" THEN <<Result(m.answers, m.name, TextContent(m))>>
                 ELSE TextPart(TextContent(m)) \o m.calls)

\* Mutant: a result goes by the tool's name.
MessageToCohereNamed(m) ==
    Turn(m.role, IF m.role = "tool" THEN <<Result(m.name, None, TextContent(m))>>
                 ELSE TextPart(TextContent(m)) \o m.calls)
MessageToCohere(m) ==
    Turn(m.role, IF m.role = "tool" THEN <<Result(m.answers, None, TextContent(m))>>
                 ELSE TextPart(TextContent(m)) \o m.calls)

GeminiChat(request) ==
    LET messages == NotSystem(request)
    IN IF HasCompaction(request) THEN Refused
       ELSE Written("gemini",
                    SystemTurn(request) \o [k \in DOMAIN messages |-> MessageToGemini(messages[k])])

OllamaChat(request) ==
    IF HasCompaction(request) THEN Refused
    ELSE Written("ollama", [k \in DOMAIN request.messages |-> MessageToOllama(request.messages[k])])

CohereChat(request) ==
    IF HasCompaction(request) THEN Refused
    ELSE Written("cohere", [k \in DOMAIN request.messages |-> MessageToCohere(request.messages[k])])
=============================================================================
