\* A conversation, a realtime session, a batch, an SDK's reading, or one stream of each kind, broken off or ended anywhere.
CONSTANTS
    None = None
    BlockTypes = {"text", "thinking", "redacted_thinking", "tool_use", "compaction"}
    StopReasons = {"end_turn", "tool_use"}
    MaxBlocks = 3
    Wanted = {0, 1}
    Hops = 2
    Reasons = {"stop", "tool_calls"}
    MaxCalls = 2
    ItemTypes = {"reasoning", "message", "function_call", "compaction"}
    Statuses = {"completed", "incomplete", "failed"}
    MaxItems = 3
    MaxFragments = 3
    Kinds = {"thinking", "signature", "redacted", "compaction", "content", "tool"}
    MaxKinds = 7
    Vendors = {"gemini", "ollama", "cohere"}
    Indexes = {0, 1}
    MaxParts = 5
    MaxChunks = 5
    Framings = {"sse", "ndjson"}
    MAX_SSE_LINE_BYTES = 2
    MaxSize = 4
    MaxLines = 3
    Dialects = {"chat", "messages", "responses"}
    Upstreams = {"anthropic", "openai", "openrouter", "groq", "chat", "unserved", "ollama", "cohere", "gemini"}
    NodesBetween = {0, 1}
    Stops = {TRUE, FALSE}
    Parts = {"text", "call", "thinking", "redacted", "compaction"}
    MaxTurns = 5
    Targets = {t1, t2}
    Capacity = 1
    MAX_REALTIME_REPLAY_BYTES = 2
    ClientEvents = {"user", "audio", "create", "aside"}
    Pieces = {"content", "tool", "thinking"}
    MaxSaid = 3  MaxSpoken = 2  MaxPieces = 2
    Flavors = {"openai", "qianfan", "mistral", "anthropic", "gemini"}
    BatchModels = {m1, m2}
    MaxRequests = 2
    Sdks = {"rust", "go", "typescript", "csharp", "kotlin", "zig"}
    Surfaces = {"chat", "responses", "batch"}
    MaxFrames = 3
SPECIFICATION Spec
INVARIANTS Relayed CollectedAlike WellFormed
    SaidInOrder CallsAnswered OpaqueKept Replays
CHECK_DEADLOCK FALSE
