-------------------------------- MODULE Relays --------------------------------
(***************************************************************************)
(* What the relay carries, side by side: a consumer's conversation on its  *)
(* way to an upstream, the streams on their way back, the realtime         *)
(* session, which is both, a batch, and what a client SDK reads at the end. *)
(* A node serves many of them at once and they share no state, so it is    *)
(* enough to follow one at a time: stream says which, the variables of the *)
(* others stay idle, and every property speaks of the one that is followed. *)
(***************************************************************************)
EXTENDS Naturals, FiniteSets

CONSTANTS
    None,
    BlockTypes, StopReasons, MaxBlocks,                 \* Messages upstream
    Wanted, Hops, Reasons, MaxCalls,                    \* chain of chat nodes
    ItemTypes, Statuses, MaxItems,                      \* Responses upstream
    MaxFragments,                                       \* of these three
    Kinds, MaxKinds,                                    \* Responses edge
    Vendors, Indexes, MaxParts, MaxChunks,              \* other upstreams
    Framings, MAX_SSE_LINE_BYTES, MaxSize, MaxLines,    \* lines of a body
    Dialects, Upstreams, NodesBetween, Stops, Parts, MaxTurns,  \* conversation
    Targets, Capacity, MAX_REALTIME_REPLAY_BYTES,       \* realtime session
    ClientEvents, Pieces, MaxSaid, MaxSpoken, MaxPieces,
    Flavors, BatchModels, MaxRequests,                  \* batch
    Sdks, Surfaces, MaxFrames                           \* client SDK

VARIABLES
    stream,                                     \* the one followed
    upstream, dec, enc, consumer, collected,
    fresh, broken, nodes,
    last, calls,
    vendor, reply, sent, decoder, chunks, phase,
    framing, lines, wire, buf, payloads, end,
    route, dialogue, request,
    client, core, peer, provider, session, turn, log,
    job, seen, fetch,
    feed, reader

Messages == INSTANCE MessagesRelay
Chat == INSTANCE ChatRelay
Responses == INSTANCE ResponsesRelay
Edge == INSTANCE ResponsesEdge WITH MaxChunks <- MaxKinds
Vendor == INSTANCE VendorRelay
Lines == INSTANCE LineBuffer
Conversation == INSTANCE ConversationRelay WITH Hops <- NodesBetween, Kinds <- Parts
Realtime == INSTANCE RealtimeSession
Batch == INSTANCE BatchRelay WITH Between <- NodesBetween
Sdk == INSTANCE ClientStreams

ASSUME StreamAssumption ==
    /\ BlockTypes \subseteq {"text", "thinking", "redacted_thinking", "tool_use", "compaction"}
    /\ ItemTypes \subseteq {"reasoning", "message", "function_call", "compaction"}
    /\ Kinds \subseteq DOMAIN Edge!Rank \ {"finish"}
    /\ Wanted \subseteq Nat /\ Hops \in Nat \ {0}
    /\ Vendors \subseteq {"gemini", "ollama", "cohere"}
    /\ 0 \in Indexes /\ Indexes \subseteq Nat /\ IsFiniteSet(Indexes)
    /\ Framings \subseteq {"sse", "ndjson"} /\ MaxSize \in Nat \ {0}
    /\ Dialects \subseteq {"chat", "messages", "responses"}
    /\ NodesBetween \subseteq {0, 1} /\ Stops \subseteq BOOLEAN
    /\ Capacity \in Nat \ {0} /\ IsFiniteSet(Targets) /\ ClientEvents \subseteq Realtime!Says
    /\ Flavors \subseteq {"openai", "qianfan", "mistral", "anthropic", "gemini"}
    /\ Sdks \subseteq {"rust", "go", "typescript", "csharp", "kotlin", "zig"}
    /\ Surfaces \subseteq {"chat", "responses", "batch"}

-----------------------------------------------------------------------------

pumped == <<dec, enc, collected>>
chain == <<broken, nodes>>
edged == <<last, calls>>
answer == <<vendor, reply, sent, decoder, chunks, phase>>
body == <<framing, lines, wire, buf, payloads, end>>
history == <<route, dialogue, request>>
live == <<client, core, peer, provider, session, turn, log>>
batched == <<job, seen, fetch>>
read == <<feed, reader>>

IdlePumped == dec = "idle" /\ enc = "idle" /\ collected = "idle"
IdleChain == broken = "idle" /\ nodes = "idle"
IdleEdged == last = "idle" /\ calls = "idle"
IdleAnswer ==
    /\ vendor = "idle" /\ reply = "idle" /\ sent = "idle"
    /\ decoder = "idle" /\ chunks = "idle" /\ phase = "idle"
IdleBody ==
    /\ framing = "idle" /\ lines = "idle" /\ wire = "idle"
    /\ buf = "idle" /\ payloads = "idle" /\ end = "idle"
IdleHistory == route = "idle" /\ dialogue = "idle" /\ request = "idle"
IdleLive ==
    /\ client = "idle" /\ core = "idle" /\ peer = "idle" /\ provider = "idle"
    /\ session = "idle" /\ turn = "idle" /\ log = "idle"
IdleBatched == job = "idle" /\ seen = "idle" /\ fetch = "idle"
IdleRead == feed = "idle" /\ reader = "idle"

Init ==
    \/ /\ stream = "messages" /\ Messages!Init
       /\ fresh = "idle" /\ IdleChain /\ IdleEdged /\ IdleAnswer /\ IdleBody /\ IdleHistory
       /\ IdleLive /\ IdleBatched /\ IdleRead
    \/ /\ stream = "chat" /\ Chat!Init
       /\ IdlePumped /\ IdleEdged /\ IdleAnswer /\ IdleBody /\ IdleHistory
       /\ IdleLive /\ IdleBatched /\ IdleRead
    \/ /\ stream = "responses" /\ Responses!Init
       /\ fresh = "idle" /\ IdleChain /\ IdleEdged /\ IdleAnswer /\ IdleBody /\ IdleHistory
       /\ IdleLive /\ IdleBatched /\ IdleRead
    \/ /\ stream = "edge" /\ Edge!Init
       /\ upstream = "idle" /\ dec = "idle" /\ IdleChain /\ IdleAnswer /\ IdleBody /\ IdleHistory
       /\ IdleLive /\ IdleBatched /\ IdleRead
    \/ /\ stream = "vendor" /\ Vendor!Init
       /\ upstream = "idle" /\ consumer = "idle" /\ fresh = "idle"
       /\ IdlePumped /\ IdleChain /\ IdleEdged /\ IdleBody /\ IdleHistory
       /\ IdleLive /\ IdleBatched /\ IdleRead
    \/ /\ stream = "lines" /\ Lines!Init
       /\ upstream = "idle" /\ consumer = "idle" /\ fresh = "idle"
       /\ IdlePumped /\ IdleChain /\ IdleEdged /\ IdleAnswer /\ IdleHistory
       /\ IdleLive /\ IdleBatched /\ IdleRead
    \/ /\ stream = "conversation" /\ Conversation!Init
       /\ upstream = "idle" /\ consumer = "idle" /\ fresh = "idle"
       /\ IdlePumped /\ IdleChain /\ IdleEdged /\ IdleAnswer /\ IdleBody /\ IdleLive
       /\ IdleBatched /\ IdleRead
    \/ /\ stream = "realtime" /\ Realtime!Init
       /\ upstream = "idle" /\ consumer = "idle" /\ fresh = "idle"
       /\ IdlePumped /\ IdleChain /\ IdleEdged /\ IdleAnswer /\ IdleBody /\ IdleHistory
       /\ IdleBatched /\ IdleRead
    \/ /\ stream = "batch" /\ Batch!Init
       /\ upstream = "idle" /\ consumer = "idle" /\ fresh = "idle"
       /\ IdlePumped /\ IdleChain /\ IdleEdged /\ IdleAnswer /\ IdleBody /\ IdleHistory /\ IdleLive
       /\ IdleRead
    \/ /\ stream = "client" /\ Sdk!Init
       /\ upstream = "idle" /\ consumer = "idle" /\ fresh = "idle"
       /\ IdlePumped /\ IdleChain /\ IdleEdged /\ IdleAnswer /\ IdleBody /\ IdleHistory
       /\ IdleLive /\ IdleBatched

MessagesStep ==
    /\ stream = "messages" /\ Messages!Next
    /\ UNCHANGED <<stream, fresh, chain, edged, answer, body, history, live, batched, read>>
ChatStep ==
    /\ stream = "chat" /\ Chat!Next
    /\ UNCHANGED <<stream, pumped, edged, answer, body, history, live, batched, read>>
ResponsesStep ==
    /\ stream = "responses" /\ Responses!Next
    /\ UNCHANGED <<stream, fresh, chain, edged, answer, body, history, live, batched, read>>
EdgeStep ==
    /\ stream = "edge" /\ Edge!Next
    /\ UNCHANGED <<stream, upstream, dec, chain, answer, body, history, live, batched, read>>
VendorStep ==
    /\ stream = "vendor" /\ Vendor!Next
    /\ UNCHANGED <<stream, upstream, consumer, fresh, pumped, chain, edged, body, history, live,
                   batched, read>>
LinesStep ==
    /\ stream = "lines" /\ Lines!Next
    /\ UNCHANGED <<stream, upstream, consumer, fresh, pumped, chain, edged, answer, history, live,
                   batched, read>>
ConversationStep ==
    /\ stream = "conversation" /\ Conversation!Next
    /\ UNCHANGED <<stream, upstream, consumer, fresh, pumped, chain, edged, answer, body, live,
                   batched, read>>
RealtimeStep ==
    /\ stream = "realtime" /\ Realtime!Next
    /\ UNCHANGED <<stream, upstream, consumer, fresh, pumped, chain, edged, answer, body, history,
                   batched, read>>

BatchStep ==
    /\ stream = "batch" /\ Batch!Next
    /\ UNCHANGED <<stream, upstream, consumer, fresh, pumped, chain, edged, answer, body, history,
                   live, read>>

ClientStep ==
    /\ stream = "client" /\ Sdk!Next
    /\ UNCHANGED <<stream, upstream, consumer, fresh, pumped, chain, edged, answer, body, history,
                   live, batched>>

Next ==
    \/ MessagesStep \/ ChatStep \/ ResponsesStep \/ EdgeStep
    \/ VendorStep \/ LinesStep \/ ConversationStep \/ RealtimeStep \/ BatchStep
    \/ ClientStep

vars == <<stream, upstream, consumer, fresh, pumped, chain, edged, answer, body, history, live,
          batched, read>>

Spec == Init /\ [][Next]_vars

-----------------------------------------------------------------------------
(* Properties.                                                             *)

Of(name, property) == stream = name => property

\* What a reader has been sent is what the upstream has said so far: fragment by fragment, block
\* by block, choice by choice and line by line, through whatever decodes and encodes it; a batch's
\* results are its upstream's, each once, failures included, and an SDK hands on what the node says.
Relayed ==
    /\ Of("messages", Messages!Faithful)
    /\ Of("chat", Chat!Relayed)
    /\ Of("responses", Responses!Streamed)
    /\ Of("vendor", Vendor!NothingLost)
    /\ Of("lines", Lines!EveryLine)
    /\ Of("realtime", Realtime!HeardWhole /\ Realtime!ToldWhole)
    /\ Of("batch", Batch!ResultsWhole)
    /\ Of("client", Sdk!InOrder)

\* One answer, one response: streamed, collected from the same stream, named in the terminal
\* snapshot or given whole by the upstream, it has the same parts, and where order is promised
\* in the places they were streamed in, compactions among them. A batch reads the same through
\* another node.
CollectedAlike ==
    /\ Of("messages", Messages!CollectAgrees)
    /\ Of("chat", Chat!CollectedAlike)
    /\ Of("responses", /\ Responses!CollectedAlike
                       /\ Responses!SnapshotAsCollected /\ Responses!OrderKept)
    /\ Of("edge", Edge!SnapshotAsCollected /\ Edge!SnapshotNamesItems)
    /\ Of("vendor", Vendor!SameAsUnary)
    /\ Of("realtime", Realtime!RememberedAsCollected)
    /\ Of("batch", Batch!HopTransparent)

\* Each stream keeps its protocol and ends once: events bracketed and numbered, nothing after the
\* end, a reason and a usage that are the upstream's, and no answer that broke off looks finished;
\* a batch is shown as ended exactly when it has, and a client told of no failure has it all.
WellFormed ==
    /\ Of("messages", Messages!TypeOK /\ Messages!Bracketed /\ Messages!TrailerTrue)
    /\ Of("chat", Chat!TypeOK /\ Chat!OneEnd)
    /\ Of("responses", Responses!TypeOK /\ Responses!Bracketed /\ Responses!TrailerTrue)
    /\ Of("edge", Edge!TypeOK)
    /\ Of("vendor", Vendor!TypeOK /\ Vendor!FinishedOnce)
    /\ Of("lines", Lines!TypeOK)
    /\ Of("conversation", Conversation!TypeOK)
    /\ Of("realtime", /\ Realtime!TypeOK /\ Realtime!FailsOpen /\ Realtime!Bracketed
                      /\ Realtime!Staged /\ Realtime!OutlivesOnlyBlocked)
    /\ Of("batch", Batch!TypeOK /\ Batch!StatusTrue)
    /\ Of("client", Sdk!TypeOK /\ Sdk!EndMeansWhole /\ Sdk!NoFalseAlarm)

\* Whatever wires the history crosses, the upstream reads every text and every result, once, from
\* the right side and in the order they were said.
SaidInOrder == Of("conversation", Conversation!SaidInOrder)

\* Every result the upstream reads follows exactly one call that goes by its id, the one it answers.
CallsAnswered == Of("conversation", Conversation!CallsAnswered)

\* Reasoning comes back to the upstream that made it verbatim and before the calls it led to, and
\* a request that is let through carries whole every compaction, which stands for the history
\* before it.
OpaqueKept ==
    Of("conversation", Conversation!ReasoningKept /\ Conversation!CompactionSurvives)

\* What an upstream said it can be sent again.
Replays == Of("conversation", Conversation!Replays)
=============================================================================
