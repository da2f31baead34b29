---------------------------- MODULE VendorRelay -----------------------------
(***************************************************************************)
(* The answers of Gemini (gemini.rs), Ollama (ollama.rs) and Cohere        *)
(* (cohere.rs) read into canonical chunks, each both as one object and as  *)
(* a stream of events: a decoder takes its state and an event and returns  *)
(* [st, chunks, failed]; a call's arguments are a sequence of fragments.   *)
(* Then such an upstream streams its answer, in events of its choosing, to *)
(* the provider that decodes it in the shared loop of http.rs. The answer  *)
(* may break off anywhere, by an error event, a failed transport or a      *)
(* plain end of the body. What was streamed is compared with the same      *)
(* answer given as one object.                                             *)
(***************************************************************************)
EXTENDS StreamChunks, FiniteSets

-----------------------------------------------------------------------------
(* The decoders.                                                           *)

Optional(present, chunk) == IF present THEN <<chunk>> ELSE <<>>

Read(st, chunks) == [st |-> st, chunks |-> chunks, failed |-> FALSE]
Failed(st) == [st |-> st, chunks |-> <<>>, failed |-> TRUE]

-----------------------------------------------------------------------------
(* Gemini: candidates [index, parts, finish]; a part is a text or a call.  *)

GeminiFinish(reason) ==
    CASE reason = "MAX_TOKENS" -> "length"
      [] reason = "SAFETY" -> "content_filter"
      [] reason = "OTHER" -> "error"
      [] OTHER -> "stop"

\* The parts of one candidate; calls are numbered from next.
GeminiParts(index, parts, next) ==
    LET calls(k) == Cardinality({j \in 1..(k - 1) : parts[j].kind = "call"})
        chunk(k) ==
            IF parts[k].kind = "call"
            THEN <<ToolCall(index, next + calls(k), parts[k].id, parts[k].arguments)>>
            ELSE Optional(parts[k].text # <<>>, Content(index, parts[k].text))
    IN FlattenSeq([k \in DOMAIN parts |-> chunk(k)])

GeminiCalls(parts) == Cardinality({k \in DOMAIN parts : parts[k].kind = "call"})

\* gemini_to_chunks: every candidate is finished, and a reply without one too.
GeminiUnary(value) ==
    LET candidate(c) ==
            Append(GeminiParts(c.index, c.parts, 0),
                   Finish(c.index, IF GeminiCalls(c.parts) > 0 THEN "tool_calls"
                                   ELSE GeminiFinish(c.finish)))
    IN <<Start(value.id)>>
       \o FlattenSeq([k \in DOMAIN value.candidates |-> candidate(value.candidates[k])])
       \o Optional(value.candidates = <<>>,
                   Finish(0, IF value.blocked THEN "content_filter" ELSE "stop"))
       \o Optional(value.usage # None, Usage(value.usage))

GeminiState == [seen_start |-> FALSE, next_tool_indexes |-> <<>>, saw_tools |-> {}, finished |-> {}]

NextTool(st, index) == At(st.next_tool_indexes, index, 0)

Ends(st, c) == c.finish # None /\ c.index \notin st.finished

\* A candidate of a streamed event: calls are numbered and remembered per choice.
GeminiCandidate(st, c) ==
    LET next == NextTool(st, c.index)
        saw == IF GeminiCalls(c.parts) > 0 THEN st.saw_tools \cup {c.index} ELSE st.saw_tools
        reason == IF c.index \in saw THEN "tool_calls" ELSE GeminiFinish(c.finish)
    IN Read([st EXCEPT !.next_tool_indexes = (c.index :> next + GeminiCalls(c.parts)) @@ @,
                       !.saw_tools = saw,
                       !.finished = IF Ends(st, c) THEN @ \cup {c.index} ELSE @],
            GeminiParts(c.index, c.parts, next) \o Optional(Ends(st, c), Finish(c.index, reason)))

Opened(st) == [st EXCEPT !.seen_start = TRUE]

\* gemini_event_to_chunks.
GeminiEvent(st, event) ==
    LET step(r, c) == LET next == GeminiCandidate(r.st, c)
                      IN Read(next.st, r.chunks \o next.chunks)
        read == FoldLeft(step, Read(Opened(st),
                                    Optional(~st.seen_start, Start(event.id))),
                         event.candidates)
        blocks == event.blocked /\ 0 \notin read.st.finished
    IN IF event.error THEN Failed(st)
       ELSE Read(IF blocks THEN [read.st EXCEPT !.finished = @ \cup {0}] ELSE read.st,
                 read.chunks \o Optional(blocks, Finish(0, "content_filter"))
                             \o Optional(event.usage # None, Usage(event.usage)))

-----------------------------------------------------------------------------
(* Ollama: one object shape for both; its calls carry their own index.     *)

DoneReason(reason) == IF reason = "length" THEN "length" ELSE "stop"

OllamaState == [seen_start |-> FALSE, saw_tool |-> FALSE]

\* Mutant: the tool calls of earlier objects are forgotten.
SawToolLast(st, v) == v.tools # <<>>
SawTool(st, v) == st.saw_tool \/ v.tools # <<>>

\* ollama_chunk_to_canonical.
OllamaChunk(st, v) ==
    LET reason == IF SawTool(st, v) THEN "tool_calls" ELSE DoneReason(v.done_reason)
    IN Read([seen_start |-> TRUE, saw_tool |-> SawTool(st, v)],
            Optional(~st.seen_start, Start(""))
            \o Optional(v.content # <<>>, Content(0, v.content))
            \o [k \in DOMAIN v.tools |->
                   ToolCall(0, v.tools[k].index, v.tools[k].id, v.tools[k].arguments)]
            \o (IF v.done THEN <<Finish(0, reason), Usage(v.usage)>> ELSE <<>>))

OllamaUnary(value) == OllamaChunk(OllamaState, value).chunks

\* An object with "error" fails the stream.
OllamaEvent(st, event) == IF event.error THEN Failed(st) ELSE OllamaChunk(st, event)

-----------------------------------------------------------------------------
(* Cohere: a message with content blocks and calls, or typed events.       *)

CohereFinish(reason) ==
    CASE reason = "MAX_TOKENS" -> "length"
      [] reason = "TOOL_CALL" -> "tool_calls"
      [] reason \in {"ERROR", "TIMEOUT"} -> "error"
      [] OTHER -> "stop"

CohereUnary(value) ==
    <<Start(value.id)>>
    \o [k \in DOMAIN value.content |-> Content(0, value.content[k])]
    \o [k \in DOMAIN value.tools |-> ToolCall(0, k - 1, value.tools[k].id, value.tools[k].arguments)]
    \o <<Finish(0, CohereFinish(value.finish))>>
    \o Optional(value.usage # None, Usage(value.usage))

\* cohere_event_to_chunks; block boundaries and unknown events carry nothing.
CohereEvent(st, event) ==
    CASE event.type = "message-start" -> Read(st, <<Start(event.id)>>)
      [] event.type = "content-delta" -> Read(st, <<Content(0, event.text)>>)
      [] event.type = "tool-call-start" -> Read(st, <<ToolCall(0, event.index, event.id, None)>>)
      [] event.type = "tool-call-delta" ->
            Read(st, <<ToolCall(0, event.index, None, event.arguments)>>)
      [] event.type = "message-end" ->
            Read(st, <<Finish(0, CohereFinish(event.finish))>>
                     \o Optional(event.usage # None, Usage(event.usage)))
      [] event.type = "error" -> Failed(st)
      [] event.type = "block" -> Read(st, <<>>)

-----------------------------------------------------------------------------
(* The upstream and the provider.                                          *)

CONSTANTS
    Vendors,        \* the upstreams: subset of {"gemini", "ollama", "cohere"}
    Indexes,        \* the choices of a Gemini answer
    MaxParts,       \* bound: texts, calls and argument fragments of an answer
    MaxChunks       \* bound: chunks streamed before the upstream must stop

VARIABLES
    vendor,
    reply,          \* choice -> [parts, finish], as far as the upstream has got
    sent,           \* what else it said: [opened, blocked, usage]
    decoder,        \* the provider's state
    chunks,         \* what the provider has yielded
    phase           \* "open", "closed" by a plain end, "failed"

vars == <<vendor, reply, sent, decoder, chunks, phase>>

-----------------------------------------------------------------------------
(* The upstream's answer.                                                  *)

TextOf(n) == [kind |-> "text", text |-> <<n>>]
CallOf(n, arguments) == [kind |-> "call", id |-> n, arguments |-> arguments]

NoReply == [i \in Indexes |-> [parts |-> <<>>, finish |-> None]]

Calls(parts) == SelectSeq(parts, LAMBDA p : p.kind = "call")
Texts(parts) == SelectSeq(parts, LAMBDA p : p.kind = "text")

Weight(parts) ==
    LET calls == Calls(parts)
    IN Len(parts) + Len(FlattenSeq([k \in DOMAIN calls |-> calls[k].arguments]))
Total == FoldSet(LAMBDA i, sum : sum + Weight(reply[i].parts), 0, Indexes)

Touched == {i \in Indexes : reply[i].parts # <<>> \/ reply[i].finish # None}

\* The upstream has said all of its answer.
Complete ==
    \/ sent.blocked
    \/ Touched # {} /\ \A i \in Touched : reply[i].finish # None

-----------------------------------------------------------------------------
(* The provider reads one event in the loop of json_sse_to_stream, or in   *)
(* the same loop over lines of Ollama's chat.                              *)

Decode(event) ==
    CASE vendor = "gemini" -> GeminiEvent(decoder, event)
      [] vendor = "ollama" -> OllamaEvent(decoder, event)
      [] vendor = "cohere" -> CohereEvent(decoder, event)

Feed(event) ==
    LET read == Decode(event)
    IN /\ decoder' = read.st
       /\ chunks' = chunks \o read.chunks
       /\ phase' = IF read.failed THEN "failed" ELSE phase

Streaming == phase = "open" /\ Len(chunks) < MaxChunks

-----------------------------------------------------------------------------
(* The upstream's events. Fragments are numbered through the answer.       *)

Init ==
    /\ vendor \in Vendors
    /\ reply = NoReply
    /\ sent = [opened |-> FALSE, blocked |-> FALSE, usage |-> None]
    /\ decoder = CASE vendor = "gemini" -> GeminiState
                   [] vendor = "ollama" -> OllamaState
                   [] vendor = "cohere" -> None
    /\ chunks = <<>>
    /\ phase = "open"

Say(i, parts, finish) ==
    reply' = [reply EXCEPT ![i] = [parts |-> @.parts \o parts,
                                   finish |-> IF @.finish = None THEN finish ELSE @.finish]]

GeminiPieces == LET n == Total + 1
                IN {<<>>, <<TextOf(n)>>, <<CallOf(n, <<n>>)>>, <<TextOf(n), CallOf(n + 1, <<n + 1>>)>>}

Candidate(i, parts, finish) == [index |-> i, parts |-> parts, finish |-> finish]

\* One candidate, or none: a last event may bring only the usage, or repeat a finish.
GeminiSends ==
    /\ vendor = "gemini" /\ Streaming /\ ~sent.blocked
    /\ \E i \in Indexes, parts \in GeminiPieces, finish \in {None, "STOP", "MAX_TOKENS", "OTHER"},
          usage \in {None, Total} :
          /\ reply[i].finish # None => parts = <<>> /\ finish \in {None, reply[i].finish}
          /\ Say(i, parts, finish) /\ Total' <= MaxParts
          /\ sent' = [sent EXCEPT !.usage = IF usage = None THEN @ ELSE usage]
          /\ Feed([error |-> FALSE, id |-> "response", blocked |-> FALSE, usage |-> usage,
                   candidates |-> IF parts = <<>> /\ finish = None THEN <<>>
                                  ELSE <<Candidate(i, parts, finish)>>])
    /\ UNCHANGED vendor

\* The prompt is blocked before anything is generated.
GeminiBlocks ==
    /\ vendor = "gemini" /\ Streaming /\ Touched = {} /\ ~sent.blocked
    /\ sent' = [sent EXCEPT !.blocked = TRUE]
    /\ Feed([error |-> FALSE, id |-> "response", blocked |-> TRUE, usage |-> None,
             candidates |-> <<>>])
    /\ UNCHANGED <<vendor, reply>>

\* Calls come whole, each with its place among the answer's calls.
OllamaSends ==
    /\ vendor = "ollama" /\ Streaming /\ reply[0].finish = None
    /\ \E text \in {<<>>, <<TextOf(Total + 1)>>}, calls \in 0..2,
          finish \in {None, "stop", "length"} :
          LET first == Total + Len(text)
              numbered == [k \in 1..calls |-> CallOf(first + k, <<first + k>>)]
              place == Len(Calls(reply[0].parts))
          IN /\ Say(0, text \o numbered, finish) /\ Total' <= MaxParts
             /\ sent' = [sent EXCEPT !.usage = IF finish = None THEN @ ELSE Total]
             /\ Feed([error |-> FALSE,
                      content |-> IF text = <<>> THEN <<>> ELSE text[1].text,
                      tools |-> [k \in 1..calls |-> [index |-> place + k - 1, id |-> first + k,
                                                     arguments |-> <<first + k>>]],
                      done |-> finish # None, done_reason |-> finish, usage |-> Total])
    /\ UNCHANGED vendor

Cohere(type) == [type |-> type, id |-> None, index |-> 0, text |-> <<>>, arguments |-> <<>>,
                 finish |-> None, usage |-> None]

\* The message is opened, then blocks of text and of calls follow one another.
CohereOpens ==
    /\ vendor = "cohere" /\ Streaming /\ ~sent.opened
    /\ sent' = [sent EXCEPT !.opened = TRUE]
    /\ Feed([Cohere("message-start") EXCEPT !.id = "response"])
    /\ UNCHANGED <<vendor, reply>>

CohereWrites == vendor = "cohere" /\ Streaming /\ sent.opened /\ reply[0].finish = None

CohereText ==
    /\ CohereWrites /\ Total < MaxParts
    /\ Say(0, <<TextOf(Total + 1)>>, None)
    /\ Feed([Cohere("content-delta") EXCEPT !.text = <<Total + 1>>])
    /\ UNCHANGED <<vendor, sent>>

CohereCalls ==
    /\ CohereWrites /\ Total < MaxParts
    /\ Say(0, <<CallOf(Total + 1, <<>>)>>, None)
    /\ Feed([Cohere("tool-call-start") EXCEPT !.index = Len(Calls(reply[0].parts)),
                                              !.id = Total + 1])
    /\ UNCHANGED <<vendor, sent>>

\* More of the last call's arguments.
CohereArguments ==
    /\ CohereWrites /\ Total < MaxParts
    /\ reply[0].parts # <<>> /\ Last(reply[0].parts).kind = "call"
    /\ reply' = [reply EXCEPT ![0].parts =
                    Append(Front(@), [Last(@) EXCEPT !.arguments = Append(@, Total + 1)])]
    /\ Feed([Cohere("tool-call-delta") EXCEPT !.index = Len(Calls(reply[0].parts)) - 1,
                                              !.arguments = <<Total + 1>>])
    /\ UNCHANGED <<vendor, sent>>

\* A boundary of a block, or an event of no interest here.
CohereBlock ==
    /\ CohereWrites
    /\ Feed(Cohere("block"))
    /\ UNCHANGED <<vendor, reply, sent>>

CohereEnds ==
    /\ CohereWrites
    /\ \E finish \in {"COMPLETE", "MAX_TOKENS", "TOOL_CALL", "TIMEOUT"}, usage \in {None, Total} :
          /\ Say(0, <<>>, finish)
          /\ sent' = [sent EXCEPT !.usage = usage]
          /\ Feed([Cohere("message-end") EXCEPT !.finish = finish, !.usage = usage])
    /\ UNCHANGED vendor

-----------------------------------------------------------------------------
(* The stream ends.                                                        *)

ErrorEvent ==
    /\ phase = "open"
    /\ Feed(IF vendor = "cohere" THEN Cohere("error") ELSE [error |-> TRUE])
    /\ UNCHANGED <<vendor, reply, sent>>

\* The transport fails, or an event is not JSON.
TransportFails ==
    /\ phase = "open" /\ phase' = "failed"
    /\ UNCHANGED <<vendor, reply, sent, decoder, chunks>>

BodyEnds ==
    /\ phase = "open" /\ phase' = "closed"
    /\ UNCHANGED <<vendor, reply, sent, decoder, chunks>>

Next ==
    \/ GeminiSends \/ GeminiBlocks
    \/ OllamaSends
    \/ CohereOpens \/ CohereText \/ CohereCalls \/ CohereArguments \/ CohereBlock \/ CohereEnds
    \/ ErrorEvent \/ TransportFails \/ BodyEnds

Spec == Init /\ [][Next]_vars

-----------------------------------------------------------------------------
(* Properties.                                                             *)

Of(i) == SelectSeq(chunks, LAMBDA c : c.kind \notin {"start", "usage"} /\ c.index = i)
Collected == CollectChunks(chunks)

\* One Start opens what is streamed, whatever event came first.
TypeOK ==
    /\ vendor \in Vendors /\ phase \in {"open", "closed", "failed"}
    /\ Total <= MaxParts
    /\ \A k \in DOMAIN chunks : chunks[k].kind = "start" <=> k = 1

\* At any moment, each choice holds the texts and the calls the upstream has sent, each
\* call with its own id and arguments, in their order (the index a delta is collected by
\* is chosen by each decoder).
NothingLost ==
    \A i \in Indexes :
        LET choice == At(Collected.choices, i, NoChoice)
            texts == Texts(reply[i].parts)
            calls == Calls(reply[i].parts)
        IN /\ choice.text = FlattenSeq([k \in DOMAIN texts |-> texts[k].text])
           /\ DOMAIN choice.tools = {k - 1 : k \in DOMAIN calls}
           /\ \A k \in DOMAIN calls :
                 choice.tools[k - 1] = [id |-> calls[k].id, arguments |-> calls[k].arguments]

\* A choice is finished once, after all of its content, and only when the upstream has
\* finished it: an answer that breaks off never looks complete.
FinishedOnce ==
    \A i \in Indexes :
        \A k \in DOMAIN Of(i) :
            Of(i)[k].kind = "finish" =>
                /\ k = Len(Of(i))
                /\ reply[i].finish # None \/ sent.blocked

\* The same answer as one object.
Whole ==
    LET parts == reply[0].parts
        calls == Calls(parts)
        texts == Texts(parts)
    IN CASE vendor = "gemini" ->
              GeminiUnary([id |-> "response", blocked |-> sent.blocked, usage |-> sent.usage,
                           candidates |-> LET order == SetToSortSeq(Touched, <)
                               IN [k \in DOMAIN order |-> Candidate(order[k], reply[order[k]].parts,
                                                                    reply[order[k]].finish)]])
         [] vendor = "ollama" ->
              OllamaUnary([content |-> FlattenSeq([k \in DOMAIN texts |-> texts[k].text]),
                           tools |-> [k \in DOMAIN calls |->
                               [index |-> k - 1, id |-> calls[k].id, arguments |-> calls[k].arguments]],
                           done |-> TRUE, done_reason |-> reply[0].finish, usage |-> sent.usage])
         [] vendor = "cohere" ->
              CohereUnary([id |-> "response", finish |-> reply[0].finish, usage |-> sent.usage,
                           content |-> [k \in DOMAIN texts |-> texts[k].text], tools |-> calls])

\* A complete answer is the same response whether it was streamed or given whole.
SameAsUnary ==
    phase = "closed" /\ Complete => Collected = CollectChunks(Whole)
=============================================================================
