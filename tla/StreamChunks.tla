---------------------------- MODULE StreamChunks ----------------------------
(***************************************************************************)
(* The canonical response stream (llmleaf-model: response.rs) and its      *)
(* collection into one response (stream.rs). Every provider produces these *)
(* chunks and every consumer dialect is made from them. A text is the      *)
(* sequence of its fragments; a tool's name travels with its id.           *)
(***************************************************************************)
EXTENDS Naturals, Sequences, SequencesExt, TLC

CONSTANT None       \* an absent optional field

\* The chunk kinds; i is the choice a chunk belongs to.
Start(id) == [kind |-> "start", id |-> id]
Content(i, delta) == [kind |-> "content", index |-> i, delta |-> delta]
Thinking(i, delta) == [kind |-> "thinking", index |-> i, delta |-> delta]
ThinkingSignature(i, signature) == [kind |-> "signature", index |-> i, signature |-> signature]
RedactedThinking(i, data) == [kind |-> "redacted", index |-> i, data |-> data]
ToolCall(i, n, id, arguments) ==
    [kind |-> "tool", index |-> i, call |-> n, id |-> id, arguments |-> arguments]
Compaction(i, delta, id, encrypted, signature, at) ==
    [kind |-> "compaction", index |-> i, delta |-> delta, id |-> id,
     encrypted |-> encrypted, signature |-> signature, output_index |-> at]
OutputItem(i, message) == [kind |-> "output_item", index |-> i, message |-> message]
Usage(usage) == [kind |-> "usage", usage |-> usage]
Finish(i, reason) == [kind |-> "finish", index |-> i, reason |-> reason]

-----------------------------------------------------------------------------
(* collect: one accumulator per choice, folded over the chunks.            *)

NoChoice == [text |-> <<>>, thinking |-> <<>>, signature |-> None, redacted |-> <<>>,
             tools |-> <<>>, compaction |-> <<>>, output |-> <<>>, finish |-> None]

NoResponse == [id |-> None, usage |-> None, choices |-> <<>>]

\* A function's value at x, or else.
At(f, x, else) == IF x \in DOMAIN f THEN f[x] ELSE else

\* A tool-call delta names its call by index; its id is set, its arguments are appended.
PutTool(tools, c) ==
    LET old == At(tools, c.call, [id |-> None, arguments |-> <<>>])
    IN (c.call :> [id |-> IF c.id = None THEN old.id ELSE c.id,
                   arguments |-> IF c.arguments = None THEN old.arguments
                                 ELSE old.arguments \o c.arguments]) @@ tools

\* A compaction keeps its text unless it is encrypted, or an id came with no text.
CompactionPart(c) ==
    [id |-> c.id, encrypted |-> c.encrypted, signature |-> c.signature,
     output_index |-> c.output_index,
     content |-> IF c.encrypted = None /\ (c.id = None \/ c.delta # <<>>) THEN c.delta ELSE None]

ChoiceStep(choice, c) ==
    CASE c.kind = "content"     -> [choice EXCEPT !.text = @ \o c.delta]
      [] c.kind = "thinking"    -> [choice EXCEPT !.thinking = @ \o c.delta]
      [] c.kind = "signature"   -> [choice EXCEPT !.signature = c.signature]
      [] c.kind = "redacted"    -> [choice EXCEPT !.redacted = Append(@, c.data)]
      [] c.kind = "tool"        -> [choice EXCEPT !.tools = PutTool(@, c)]
      [] c.kind = "compaction"  -> [choice EXCEPT !.compaction = Append(@, CompactionPart(c))]
      [] c.kind = "output_item" -> [choice EXCEPT !.output = Append(@, c.message)]
      [] c.kind = "finish"      -> [choice EXCEPT !.finish = c.reason]

CollectStep(response, c) ==
    CASE c.kind = "start" -> [response EXCEPT !.id = c.id]
      [] c.kind = "usage" -> [response EXCEPT !.usage = c.usage]
      [] OTHER -> [response EXCEPT !.choices =
                      (c.index :> ChoiceStep(At(@, c.index, NoChoice), c)) @@ @]

CollectChunks(chunks) == FoldLeft(CollectStep, NoResponse, chunks)

\* The reasoning of a collected choice: one thinking block, then the redacted ones.
ThinkingParts(choice) ==
    (IF choice.thinking # <<>> \/ choice.signature # None
     THEN <<[text |-> choice.thinking, signature |-> choice.signature]>> ELSE <<>>)
    \o [k \in DOMAIN choice.redacted |-> [data |-> choice.redacted[k]]]
=============================================================================
