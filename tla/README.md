# llmleaf: TLA+ models of the gateway

llmleaf is a stateless LLM gateway. A *node* (crate `llmleaf`, core in
`llmleaf-core`) accepts chat, embedding, rerank, decision, speech, voice and
transcription requests under *virtual keys*, walks a *fallback chain* of
providers for the requested model, and streams the answer back while it emits
events. It reads three consumer dialects and writes as many upstream dialects as
there are kinds of provider. Everything durable lives in an optional *control
plane* (`llmleaf-control` on the node, `llmleaf-web` on the other side), from
which the node pulls keys, verdicts and topology, and to which it pushes usage.

This directory holds the specifications of the parts that carry the system's own
logic, the TLC configurations that check them, and TLAPS proofs.

* [Inventory](#inventory): what the system consists of
* [Modules](#modules): which module models which code, and how
* [Runs](#runs): what TLC checks, with which bounds and which fairness
* [Proofs](#proofs): what is proved for all constants, and how
* [Disagreements](#disagreements-between-code-and-text)
* [Plan](#plan) and [what is not modelled](#not-modelled)

Running: `tlc -config KeyStore.cfg MCKeyStore`, and likewise for the other
configurations (the [table of runs](#runs) names module and configuration);
`tlapm KeyStoreProofs.tla` for the proofs.

## Inventory

| Component | State | Operations | Interacts with | Modelled in |
|---|---|---|---|---|
| key store (`keys.rs`, `[[keys]]` of `config.rs`) | a snapshot of all keys behind an `RwLock<Arc>`, a cache of tokens whose password was proven | `authorize`, `authorize_identity`, `install_identities`, `install_verdicts`, `model_scope` | every handler; the pull refreshers | `KeyStore` |
| rate limiter (`ratelimit.rs`) | per provider and per model: semaphore, requests/min and tokens/min buckets | `try_admit`, `debit_tokens`, dropping a `RateGuard`, `reconciled` | dispatch; topology swap | `RateLimiter`, `Topology` |
| health table (`route.rs`) | provider → end of its cooldown | `penalize`, `is_down`, `clear` | dispatch; topology swap | `Dispatch`, `Topology` |
| request dispatch (`engine.rs`) | the walk of each request | `screen_request`, `dispatch`, `instrument`, `instrument_audio`, `emit_batch_tail` | all of the above, providers, event bus | `Dispatch` |
| event bus (`events.rs`) | a bounded broadcast ring | `emit`, lossy `recv` | dispatch; usage reporter | `Dispatch`, `NodeLife` |
| topology and router (`engine.rs`, `route.rs`), the model listing (`server.rs`) | registry, routes, limiters, swapped as one snapshot | `install_topology`, `Router::resolve`, `list_models` | dispatch; topology refresher | `Topology` |
| batch jobs (`engine.rs`, `batch_id.rs`) | none: the job is in its signed id | create, retrieve, cancel, results | providers; key identity; web usage | `BatchJobs`, `BatchRelay` |
| OAuth resource server (`oauth.rs`, both crates) | bounded cache of verified tokens, JWKS | `verify`, introspection, JWKS swap | handlers; refresher | `OAuthVerifier` |
| control-plane refreshers (`refresh.rs`) | last good pull | identity, verdict and topology pulls | key store, engine, control plane | `NodeLife` |
| usage reporter (`usage.rs`) | batch under construction | batch, flush by size, tick, shutdown | event bus; control plane | `NodeLife` |
| node start and shutdown (`main.rs`) | cancellation tokens | prime, serve, drain, join | everything | `NodeLife` |
| consumer dialects (`compat/*.rs`) | per stream: an encoder; per request: none | read a conversation, encode a stream, collect a response | handlers | `Relays` and its strands |
| provider dialects (`llmleaf-providers`) | per stream: a decoder and a line buffer | write a conversation, decode a stream or an object | dispatch | `Relays` and its strands |
| canonical types (`llmleaf-model`) | none | `StreamChunk` collection | both dialect layers | `StreamChunks`, `Conversation` |
| web: keys, verdicts, limiter (`llmleaf-web`) | key rows with one verdict each, usage rows | operator edits, limiter scan, ingest, pruning | refreshers, usage reporter | `WebLimiter` |
| web: login | failure counters, sessions, OIDC flows | login, callback, gate, logout, sweep | operators | `LoginThrottle`, `WebSessions` |
| HTTP surface (`server.rs`) | none | authorize, parse, call the engine, pump a stream | everything | in part, in the modules above |
| realtime session (`server.rs`, `compat/realtime`, `realtime_ws.rs`) | per session: the replay buffer of the probe, two bounded channels to the provider's task, or the bridge's history and turn | choose a target, probe, forward both ways, fall back with replay, run a turn, end | dispatch (a turn is a chat request); event bus; upstream socket | `RealtimeSession`, `RealtimeBridge` |
| client SDKs (`clients/`) | per stream: an event that waits for its blank line | iterate over a chat stream, a Responses stream, a batch's results | the node's streams | `ClientStreams` |
| request interceptor, web terminal, pricing, tooling | | | | [not modelled](#not-modelled) |

What is hard in it, and what correctness means:

* **Three unlocked steps of an authorization.** A request clones the snapshot,
  looks into the cache and, on a miss, runs a slow KDF before it writes the
  cache. Pulls replace the snapshot between any two steps. Right means: the
  cache never changes an answer, whatever is installed meanwhile.
* **Two pulls that overlay one another.** Identities and verdicts are installed
  separately and in any order; an identity pull must not lift a verdict, and a
  roster that repeats ids and names must not merge two keys.
* **Admission lock by lock.** `try_admit` takes up to six locks or atomics in
  turn with one clock reading that may be old, and undoes a partial admission
  while others proceed. Right means: permits are conserved, no scope grants more
  than burst plus accrual, a refused request pays nothing.
* **The walk.** Two passes, cooldowns, missing providers, saturation, a bounded
  wait and a retry interleave with other requests, with slow upstreams and with
  clients that hang up at any await. Right means: every permit comes back, each
  request's events tell one story, no target is asked twice in a walk, and the
  wait ends.
* **A topology swapped under requests.** Requests keep the snapshot they came
  with; limiters and cooldowns are shared with those that come later. Right
  means: the node is what the last pull says, no provider is used beyond its
  limit, what a pull does not touch is left alone, and the models listed are the
  models served.
* **Trust across an await.** A token is introspected with a clock reading from
  before, then cached; keys rotate and tokens are revoked meanwhile. Right
  means: trust ends when the documentation says it does.
* **Lossy and late control traffic.** The ring overruns, pushes fail, time out
  or arrive late, refreshers hang, the signal comes in the middle. Right means:
  each event is in one place, nothing is stored twice, the node ends.
* **Jobs that no node remembers.** Any node must serve a batch from its id
  alone, for its owner alone, through topology changes; and what an upstream's
  files, lists and state words say of it must reach its owner whole.
* **State machines between dialects.** Decoders number what upstreams do not,
  encoders bracket what upstreams leave open, the same response is streamed,
  collected and summarised in a terminal snapshot. Right means: all three agree,
  nothing is lost or reordered, and a broken answer never looks complete.
* **Six readers of one stream.** SDKs differ in when they hand over an event, what
  they take for an error and how an end reaches them. Right means: a caller who
  is told of no failure has had the whole answer.
* **A history that comes back.** Consumers return the conversation in their own
  dialect, with opaque parts the upstream insists on. Right means: what an
  upstream said can be sent back to it, in order, with its ids.
* **Two loops and two full channels.** A realtime session is proxied between a
  consumer and a provider that both speak at any time, and changes hands if the
  provider fails before its first word. Right means: nobody's frames are lost,
  doubled or moved, the replay is complete or refused, the events tell of one
  session, and a session whose consumer has gone ends.
* **Operators, a limiter and sign-ins on shared rows.** No transaction spans a
  limiter pass, a throttled login or an OIDC round trip. Right means: the
  limiter undoes only its own suspensions, a budget of failures holds, a
  session ends when it is ended.

`PROJECT.json` lists the hazards line by line, with the property that covers
each.

## Modules

```
KeyPolicy ── KeyGate  (abstract: no cache)
    └─────── KeyStore (implements KeyGate) ── MCKeyStore, KeyStoreProofs
TokenBucket ─┬─ RateLimiter ── MCRateLimiter, RateLimiterProofs
             └─ Dispatch ───── MCDispatch, DispatchProofs (RealtimeSession too)
TopologyPolicy ── TopologyLayer (abstract: no history)
    └──────────── Topology (implements TopologyLayer) ── MCTopology, TopologyProofs
NodeLife ── NodeLifeProofs
OAuthVerifier ── MCOAuthVerifier, OAuthVerifierProofs
BatchJobs ── MCBatchJobs, BatchJobsProofs (BatchRelay and ClientStreams too)
the dialects (a tree of their own, below) ── Relays
WebLimiter, LoginThrottle, WebSessions ───── Website ── WebsiteProofs
```

An `MC` module only gives the constants of its specification values that a
configuration cannot write. Operators whose comment begins with *Mutant:* are
faulty variants of the definition that follows them; no specification uses them.
Each property is known to fail when one of them takes its original's place.

### KeyPolicy, KeyGate, KeyStore: `keys.rs`

`KeyPolicy` holds the pure functions: `enforce` (blocked, suspended, config
allow-list, verdict allow-list, in that order), `model_scope`, the integrity
rules of a roster (`Kept`: no control bytes, first claim of a display id wins;
`LastWith`: of the survivors with one id the last overwrites), `RosterKeys`,
`WithVerdicts`, and the load-time checks of `[[keys]]`.

`KeyStore` has the store's variables (`snapshot`, `verified`), the wall clock
and one authorization per request slot. `Arrive` clones the snapshot, `WarmHit`
and `WarmMiss` are the cache lookup, `ColdReject` and `ColdAccept` the KDF and
the cache write; each is one step because each takes one lock. `ListModels` is
the second half of `GET /v1/models`, which scopes by display id against the
snapshot current by then. `install_identities` and `install_verdicts` are the
refreshers; a failed pull installs nothing and is a stutter. In
`install_identities` the pruning of the cache and the swap of the snapshot are one
step: the code prunes first, but inside the snapshot's write lock, where nobody can
take a clone, and a request that holds an older clone cannot tell whether the swap
has followed yet.

`KeyGate` is what the store promises: every request is judged by running the
password check against the snapshot it was bound to. `ImplementsGate` says that
`KeyStore`, with the cache hidden and the two lookup steps seen as one, is that.

Abstracted: a token is a model value and `Credential` says what it decodes to;
the KDF is the relation `Verifies`; an allow-list pattern is the set of models it
matches. These three are constants, so the proofs hold for every decoder, KDF and
matcher.

### TokenBucket, RateLimiter: `ratelimit.rs`

Buckets count in units of 1/`Minute` token so that the refill is exact integer
arithmetic; with `Minute` = 60 and a tick of one second that is the code's
`limit / 60` per second. `refill` ignores a reading older than the bucket's.

`RateLimiter` has one provider (providers share nothing here) with a global scope
and one per model. A call goes through the stages `permit`, `floor` (tokens/min is
read, not taken), `take` (requests/min) at the global scope and then at the
model's, each step under one lock, with the clock reading of `Enter`. Early
returns release all permits. A refused model take owes the global token back:
`Refund` is a separate step because the code takes that lock again. Dropping the
permits is merged with the step that returns. `taken` and `window` are history
variables for `BurstBound`; no action reads them.

### Dispatch: `engine.rs`, `route.rs`, and the parts of `ratelimit.rs` and `events.rs` they use

One record per request: the pass (`honor`), the target (`i`), whether the walk
has an error (`err`), the shortest wait asked for, the budget left, the guard,
and which targets the walk has attempted (`tried`, history). The actions are the
branches of `Engine::dispatch` in its order: `SkipCooled`, `SkipUnregistered`,
`AcquirePermit` / `PermitsExhausted`, `FloorHolds` / `FloorExhausted`, the
provider's answer (`OpOk`, `OpUnsupported`, `OpFailed`), then `FailOpen`, `Sleep`
and `Wake`, `RateLimited`, `AllTargetsFailed`. The tails are those of the seven
modalities: `UsageChunk`, `StreamError`, `StreamEnd` for chat and speech,
`BatchTail` for embed, rerank, decisions and transcribe, `VoicesTail` for voices.
`Disconnect` drops the future or the stream at any await.

Abstracted: a provider has one scope with concurrency and tokens/min
(`RateLimiter` has the other dimensions). Ticks stand for `Instant`s and a sleep
lasts longer than asked. What a provider answers, and what the interceptor
decides, is a free choice. The early returns for a model without a route happen
before any state changes and are left out, so chains are not empty. An event is
its kind. The debit, `Usage` and `Completed` of a batch modality follow one
another without an await; they are one step.

### TopologyPolicy, TopologyLayer, Topology: `install_topology`, `reconciled`, `Router::resolve`, `list_models`

`TopologyPolicy` is the pure part: which entries of a pulled layer survive beside
the file base (`base_names`, `base_models`: a pull cannot replace what the file
declares), which kinds can be built, and how a model resolves by route, by
namespace or not at all. `Topology` has the live snapshot, the health table and
one refresher. `Pull` computes the diff, `ClearHealth` forgets the cooldowns one
by one, `Swap` replaces the snapshot; these are separate steps because requests
run between them. A request (`Arrive`, `SkipTarget`, `WalkAgain`, `Admit`, `Fail`,
`Answer`, `Finish`) keeps its snapshot to the end. A limiter entry is known by the
swap that made it, so that "the same semaphore" can be told from "an equal one".

`GET /v1/models` is the other user of a snapshot. `ListModels` takes the names to
be listed from one, `ListRoutes` resolves the routes in the one current by then,
`AskCatalog` asks one upstream at a time through whatever instance then has the
name, and fails freely; `AnswerListing` ends it. `Offers`, `FirstOffer` and `Entry`
merge what was gathered. The scope of a key is `KeyStore`'s subject; the filters,
the metadata of an entry and the administrator's markers are left out.

`TopologyLayer` is what a pull promises: a view that is a function of the last
pull. `ImplementsLayer` says that the diff, the reuse and the history amount to
that. A provider configuration is its name, kind, namespace, one concurrency limit
and an endpoint that stands for all the rest.

### NodeLife: `main.rs`, `llmleaf-control`, `events.rs`

`run()` step by step: `StartRefresher` spawns a control task, a primed one is
waited for (`SkipStep` when it is not configured), `Listen` or `BindFails`,
`Signal`, `Drained`, `Join`. Each refresher is a loop of `Tick`, `Answered` or
`Unanswered`, `BodyRead` or `BodyFails`, and `StopRefresher`, the arm of
`tokio::select!` that sees the cancellation. Requests emit into a ring of
`Capacity` events; `Push`, `Lag` are the two answers of the reporter's `recv`,
`Flush` and `LastSend` take the batch to the sink, which stores it and answers
(`SinkStores`, `Acknowledged`), or does not in time (`GivenUp`); a batch given up
may still be stored later (`Drift`). Not modelled: a signal before the listener
opens, which kills the process by its default action, and WebSocket connections,
which the drain does not wait for.

### OAuthVerifier: `oauth.rs`

`Present` reads the clock, `Lookup` the cache, `Verify` the key set, `Introspect`
and `Answer` are the two ends of the await, with `Insert` and its eviction in the
latter. `InstallJwks`, `Revoke` and `Tick` happen at any time. A signature is the
key that made it; `nbf`, issuer and audience are not modelled, and the leeway is
the constant of the JWT library.

### BatchJobs: the batch half of `engine.rs`, `batch_id.rs`, `db/usage.rs`

Nodes with the same secret, another one and none; topologies change under them.
`CreateBatch` is atomic but its answer may be lost; a token is what was
handed out, and `DecodeBatch`, `CheckBatchOwner`, `BatchTarget` are what any node
does with it. `NextLine` is one line of a results stream, with the usage event it
emits. The upstream settles lines in any order (`Work`, external); errored lines
behave as cancelled ones. The reporter between node and ledger is `NodeLife`'s
and is a step here.

### StreamChunks and the relays: `llmleaf-model`, `compat/*.rs`, `llmleaf-providers`

```
StreamChunks ─┬─ MessagesDialect ───────────────────────────────────── MessagesRelay
              ├─────────────────────────────────────────────────────── ChatRelay
              ├─ ResponsesDialect ──────────────────────────────────── ResponsesRelay, ResponsesEdge
              ├─────────────────────────────────────────────────────── VendorRelay
              └─ RealtimeBridge ────────────────────────────────────── RealtimeSession
LineBuffer
Conversation ───────────────────────────────────────────────────────── ConversationRelay
BatchRelay     ClientStreams
all of the right column, LineBuffer, BatchRelay, ClientStreams ─────── Relays
```

`StreamChunks` has the canonical chunks and `CollectChunks`, the fold of
`stream.rs`. A *decoder* is an operator from its state and one upstream event to its
state and chunks; an *encoder* is a record whose operators append the frames they
push. A dialect (`ResponsesDialect`, `MessagesDialect`) also has its wire, and a
**reader** of it: what a client that follows the dialect's protocol assembles, with a
flag for every event that is out of place. A *relay* closes the loop: an upstream that composes its answer
freely and may fail or hang up anywhere, decoder, encoder and reader, so that what
the consumer has can be compared with what the upstream has sent, at every step.

* `MessagesRelay`: Anthropic upstream to Messages consumer; `ChatRelay`: chat
  completions through two nodes; `ResponsesRelay`: Responses to Responses.
* `ResponsesEdge`: the Responses encoder fed by any decoder's chunks, in the order
  reasoning, text, calls that all of them keep.
* `VendorRelay`: Gemini, Ollama and Cohere, against the same answer given as one
  object (`Whole`).
* `LineBuffer`: SSE and NDJSON lines cut into pieces of any size, with the limit on
  a pending line. The decoder drains one line per step, and asks for the next piece when
  none is left.

A text is the sequence of its fragments, and every fragment, id and signature is
a fresh number: a lost, doubled or misplaced one shows. Folded: the
`in_progress` snapshot and the `part`/text `done` events of Responses go with
their neighbours; a compaction item is added and done in one step; the request id
is left out. Not modelled: chat tool calls without an index, fragments of two
upstream tool calls that interleave in Responses, an empty reasoning that is
signed. Ollama's missing tool index reads as 0, as in the code.

### Conversation, ConversationRelay

The way in: a history in one of three consumer dialects, read into canonical
messages (`ParseUserTurn`, `ParseResponses`, ...), perhaps written and read again
by a second node (provider kind `llmleaf`), and written for one of nine kinds of
upstream, with the refusals (`Unsupported`) and the choice between the two OpenAI
wires (`NeedsChatCompletions`). `ConversationRelay` lets the consumer speak, call back
results and send again, and the upstream answer in parts of every kind. The route
of a conversation is fixed; `unserved` is an OpenAI wire that lacks the Responses
endpoint (the downgrade after a 404). Images, audio, tool definitions, sampling
parameters and the parsing of arguments are left out.

### RealtimeBridge, RealtimeSession: `server.rs`, `compat/realtime`, `realtime_ws.rs`

`RealtimeSession` is one session. `Handle` picks the target (`RealtimeTarget`: the
first capable one that is not cooling down, or the first capable one) or goes to
the bridge. `ProbeFrame` and `ProbeSend`, `PumpFrame` and `PumpSend`, `Receive` and
`Forward`, `Farewell` and `Join` are the two halves of what the core does with a
frame around the await between them: a send to a channel waits while it is full.
`ProbeHangUp`, `ProbeEnds` and `PumpEnds` are the other arms of its two loops. The
provider's task is `Dial`, `TakeInbound`, `InboundDropped`, the upstream's three
actions and `PutOutbound`, which waits as well. `ProbeEnds` sends a session that
failed before the first frame to the bridge with its replay buffer, or ends it
when the buffer has overflowed.

The bridge is `BridgeOpens`, `BridgeFrame` (`HandleEvent` of `RealtimeBridge`),
`TurnRefused`, `TurnChunk` and `TurnEnds`; while a turn streams it reads nothing
else. `OnChunk`, `FinishFrames` and `AssistantMessage` are the `ResponseScaffold`:
what the consumer is shown of a turn and what the next request will say of it.

A frame is its place in what was said; what a frame of the consumer means is
chosen when the bridge reads it, because nothing before depends on it. A frame
counts for one byte of the replay buffer. The chunks of a turn are what a decoder
may stream; the walk behind them is `Dispatch`'s. Left out: settings that are only
copied into a request, ping and pong, the error frame before the end of a failed
session, tasks that panic.

#### BatchRelay: the batch half of `llmleaf-providers`, `compat/batch.rs`

One batch at one of five kinds of upstream, asked for directly or through a second
node. The upstream is free: `UpstreamWorks` settles requests one at a time with any
outcome, lets the batch fail, expire or end, and writes its state, its counts and
its results as its API does. The code is what reads them: `MapBatchStatus` and its
likes, `BatchCounts`, `BatchResultFiles`, the `...ResultLine` of each dialect, and
`HandleToJson` and `ResultToLine`, whose output `LlmleafBatchHandle` and
`LlmleafBatchResultLine` of the next node read. `BatchCreate`, `BatchRetrieve`,
`BatchCancel` and `BatchResults` are the consumer's calls; a fetch reads line by line
(`NextLine`), may break on either connection (`UpstreamBreaks`, `LinkBreaks`) and may
be repeated. `Shown` keeps what the node nearest the upstream read beside what the
consumer was shown, and whether the batch had ended: history. A call that an
upstream refuses changes nothing and is left out.

#### ClientStreams: the streams of `clients/`

The far end: what the iterators of the six SDKs make of a node's frames. `Say`,
`ChatEnd`, `ResponsesEnd` and `BatchEnd` are the node, which may fail midway and
says so in each surface's own way; `Lose` breaks the connection, or closes it in
good order as a proxy may, with the last lines (`lost` counts their frames: history). `RustChat` to `ZigBatch` are the
SDKs' handling of one frame, one definition for each iterator, and `ReadLine`, `Keep`
and `ReadEnd` their three kinds of line loop. Lines arrive whole. `told` says that
the caller has met an error; `Mute` is the exception of three SDKs that the table of
disagreements explains.

`Relays` is the disjoint union of the ten strands: a node serves many at once
and they share no state, so following one at a time is enough.

### WebLimiter, LoginThrottle, WebSessions, Website: `llmleaf-web`

`WebLimiter` has the key rows, the usage rows and one limiter pass. `Begin`
prunes old events and reads the labels of recent ones, `Extend` adds the keys that are
suspended by the limiter, `Weigh` is the pair of window queries of one label, `limiter_suspend` and `limiter_clear` are the
writes; operators (`create`, `delete`, `set_blocked`, `set_suspended`,
`set_verdict`, `set_narrow`) and `ingest` come between any two of them, and `Abort`
is a query that fails. A cost is one unit per row; a limiter without caps is
not modelled. `operator_until` is history: what the operator asked for.

`LoginThrottle` has the window of each client address and the attempts under way,
between whose `Check` and outcome others pass. `recent` is history: the failures
of an address since its last success, each with its age and its number in its tick. `WebSessions` has sessions and OIDC
flows; `TakeFlow` consumes the flow before the identity provider is asked. A
`Logout` whose DELETE fails clears the cookie and leaves the row: the code ignores
the error. `Gate` stands for the three users of `lookup_session`; its disjuncts are
its outcomes: `LetIn`, `TurnAway` (the row is gone or expired) and `LookupFails`: a
SELECT that fails refuses a valid token and leaves its row, so a later request may
be let in. `refused` is history, why each token was refused, and `EndedStaysEnded` says that of
these only a failed lookup is ever taken back: a row that was found ended, or
that a logout deleted, lets nobody in again.

`Website` is their disjoint union, for the same reason as `Relays`.

## Runs

| Run | Module, configuration | Checks | Distinct states |
|---|---|---|---|
| keystore | `MCKeyStore`, `KeyStore.cfg` | `TypeOK`, `CacheTransparent`, `DisplayIdsUnique`, `ScopeAgreesWithEnforce`, `VerdictsSurviveIdentityPull`, `ImplementsGate` | 774,411 |
| ratelimiter | `MCRateLimiter`, `RateLimiter.cfg` | `TypeOK`, `PermitsConserved`, `BurstBound`, `RejectionReturnsTokens` | 2,614,618 |
| dispatch | `MCDispatch`, `Dispatch.cfg` | `TypeOK`, `GuardsConserved`, `EventsWellFormed`, `AttemptDiscipline`, `Terminates` | 925,810 |
| topology | `MCTopology`, `Topology.cfg` | `LimitHolds`, `ListedAsServed`, `UntouchedKept`, `ImplementsLayer` | 594,261 |
| nodelife | `NodeLife`, `NodeLife.cfg` | `Accounted`, `PrimedBeforeListening`, `BatchLeaves`, `ShutdownCompletes` | 43,221 |
| oauth | `MCOAuthVerifier`, `OAuthVerifier.cfg` | `TrustWindow`, `Granted`, `CacheBounded` | 1,714,890 |
| batch | `MCBatchJobs`, `BatchJobs.cfg` | `OwnerOnly`, `AnyNode`, `OneProvider`, `UsagePerLine` | 302,726 |
| relays | `Relays`, `Relays.cfg` | `Relayed`, `CollectedAlike`, `WellFormed`, `SaidInOrder`, `CallsAnswered`, `OpaqueKept`, `Replays` | 839,395 |
| website | `Website`, `Website.cfg` | `Consistent`, `StandsUntilEnded`, `RefusalsEnd` | 138,672 |
| keystore_listing | `MCKeyStore`, `KeyStoreListing.cfg` | `ListingWithinGrant`, violated | |
| weblimiter_operator | `WebLimiter`, `WebLimiterOperator.cfg` | `OperatorSuspensionsStand`, violated | |
| realtime_end | `RealtimeSession`, `RealtimeSession.cfg` | `SessionEnds`, violated | |

**keystore.** Two requests, an old and a new token of one key, and rosters that
re-salt, rotate, rename, drop and re-add it, and that clash in the ways the
integrity rules distinguish: a name equal to another key's id, an id twice (the
rotated entry is the last of the two), control bytes. Two installs are what the
dangerous case needs: a request proves a token against generation 0, the key is
rotated (1) and restored or replaced (2), and the late cache write must not be
believed. Request slots are symmetric.

**ratelimiter.** Two requests over two models that share the global scope, one
with a semaphore inside the provider's own, budgets of one and two: every
semaphore and bucket runs dry, is contended and is refilled; a model's bucket
refuses what the global one has granted while the other request uses the global
bucket in between; readings are as old as a minute, so that a bucket fills up
behind a reading's back.

**dispatch.** Two requests over three chains: with fallback, with an unregistered
first target, and with no fallback; one provider admits one request at a time, the
other has a budget of one token a minute. Cooldowns begin and end during a walk
and a wait budget is spent in one nap. A third request would only hold the permit
for longer.

**topology.** Two requests, two swaps, three pulls that add, change, re-kind,
repeat, shadow and drop providers. Two swaps are what it takes for a pulled
provider to be changed or dropped while a stream still runs on it, under its old
limiter. One request at a time may be a listing, which writes nothing; a namespace
nests in another whose upstream lists a model that falls into it, two providers share
one, and a provider changes its endpoint meanwhile.

**nodelife.** One primed refresher, one that is not, and the reporter; a ring of
two, batches of two, three events: the ring overruns, a batch fills, and one is
partial at the shutdown.

**oauth.** Two requests, two tokens, two keys of which one is inline, one cache
entry, two ticks: eviction under contention, rotation and revocation across an
await, a token that is fresh, then inside the leeway, and one that is inside it, then
outside.

**batch.** Two signing nodes and a plain one, two keys, two providers that use the
same upstream number, two fetches. Either one job of two lines, which a fetch may
break off between, or two jobs of one line each, whose lines have the same custom
id. Signing nodes are symmetric.

**relays.** Per strand: three blocks, items, calls and fragments, the two
finish reasons that are treated differently, bodies of three lines of up to four
cells against a limit of two, conversations of five turns with parts of every
kind over every route of none or one node between. Two texts around a call, two
calls at once and an opaque part between them are the cases that break orderings;
all fit. A realtime session has two targets, three frames of its consumer, two of
its upstream and two chunks. Its channels have one slot instead of 64: what matters
is whether a channel is full or empty when the other side stops, and one slot
reaches every combination of that. The replay limit of two is met, and passed by
one. A batch has one or two requests for two models. Of the properties of the
realtime session `HeardWhole` and `ToldWhole` are part of `Relayed`,
`RememberedAsCollected` of `CollectedAlike`, the others of `WellFormed`; of the
batch's, `ResultsWhole` is part of `Relayed`, `HopTransparent` of `CollectedAlike` and
`StatusTrue` of `WellFormed`; of the client's, `InOrder` is part of `Relayed`,
`EndMeansWhole` and `NoFalseAlarm` are part of `WellFormed`; of the line buffer's,
`EveryLine` is part of `Relayed`.
`OutlivesOnlyBlocked` is what remains true of the end of a session: a full
outbound channel is the only thing that can keep it (see `realtime_end`).

**website.** One key, a limiter with both caps, three operator edits between the
steps of its passes; two addresses, two attempts, a failure limit of two (so that,
after a first failure, one attempt is late); two session tokens, two OIDC flows, two
callbacks. One usage event, so both caps never trip in one pass.

Deadlock is checked except where the system may rest: requests arrive once
(`Dispatch`), streams end (`Relays`), a node without tokens or jobs waits
(`Website`, `BatchJobs`).

### Fairness

* `Dispatch`: weak fairness of `EngineStep` of each request, because the tokio
  runtime polls every task that can go on and the interceptor has its own
  timeout, and of `Tick`, because time passes. *Nothing* is assumed of upstreams:
  the HTTP client sets no timeout, so `Terminates` allows a request to wait for
  ever on an upstream it has called, and says that nothing else can hold it.
* `NodeLife.FairSpec`: weak fairness of tasks and timers; strong fairness of the
  arms of `tokio::select!`, which picks at random among those ready.
  `PromptSpec` adds what the code cannot ensure: peers finish the bodies they
  have begun (the pull's timeout covers the head only, see below), and requests
  in flight end. `ShutdownCompletes` is a statement under that.
* `Website`: weak fairness of time, of the limiter loop, whose interval timer
  fires, and of the sweep.
* `RealtimeSession.FairSpec`: once the consumer has hung up, weak fairness of the
  core, none of whose awaits depends on the consumer any more; and weak fairness of
  dialling, which ends, and of what the provider's loop does without its upstream.
  Nothing is assumed of the upstream.
* `Relays`, `Topology`, `OAuthVerifier`, `BatchJobs` and the other two have safety
  properties only, and state no fairness.

Bounds: `MaxGen`, `MaxSwaps` installs; `MaxTime` ticks (in `Dispatch` the clock
goes on while somebody sleeps); `MaxUsage` usage chunks; `MaxEvents`, `MaxOpen`,
`MaxJobs`, `MaxPair`, `MaxStreams`, `MaxEdits`, `MaxErrors`, `MaxRecent`; and for the strands of
`Relays` `MaxBlocks`, `MaxItems`, `MaxFragments`, `MaxCalls`, `MaxKinds`, `MaxParts`,
`MaxChunks`, `MaxSize`, `MaxLines`, `MaxTurns`, `MaxSaid`, `MaxSpoken`, `MaxPieces`,
`MaxRequests`, `MaxFrames`. The bounds occur only in guards and in the sets of inputs;
`Capacity` and the byte limits are parameters of the code, smaller here. The
proofs hold for every value of those in the modules they are about.

## Proofs

| Theorem | Module | States |
|---|---|---|
| `TypeCorrect` | each but `WebsiteProofs` | `Spec => []TypeOK` |
| `CacheIsSound` | `KeyStoreProofs` | `Spec => []CacheInv` |
| `CacheIsTransparent` | `KeyStoreProofs` | `Spec => []CacheTransparent` |
| `DisplayIdsStayUnique` | `KeyStoreProofs` | `Spec => []DisplayIdsUnique` |
| `ScopeIsEnforcement` | `KeyStoreProofs` | `Spec => []ScopeAgreesWithEnforce` |
| `VerdictsAreKept` | `KeyStoreProofs` | `Spec => VerdictsSurviveIdentityPull` |
| `StoreImplementsGate` | `KeyStoreProofs` | `Spec => ImplementsGate` |
| `PermitsAreConserved` | `RateLimiterProofs` | `Spec => []PermitsConserved` |
| `BurstIsBounded` | `RateLimiterProofs` | `Spec => []BurstBound` |
| `RejectionCostsNothing` | `RateLimiterProofs` | `Spec => []RejectionReturnsTokens` |
| `GuardsAreConserved` | `DispatchProofs` | `Spec => []GuardsConserved` |
| `AttemptsAreDisciplined` | `DispatchProofs` | `Spec => AttemptDiscipline` |
| `EventsAreWellFormed` | `DispatchProofs` | `Spec => []EventsWellFormed` |
| `SnapshotsAreWhole` | `TopologyProofs` | `Spec => []SnapshotInv` |
| `UntouchedIsKept` | `TopologyProofs` | `Spec => UntouchedKept` |
| `LimitsHoldAcrossSwaps` | `TopologyProofs` | `Spec => []LimitHolds` |
| `ListingsAgree` | `TopologyProofs` | `Spec => []ListedAsServed` |
| `TopologyImplementsLayer` | `TopologyProofs` | `Spec => ImplementsLayer` |
| `TrustWindowHolds` | `OAuthVerifierProofs` | `Spec => []TrustWindow` |
| `OnlyGranted` | `OAuthVerifierProofs` | `Spec => []Granted` |
| `CacheStaysBounded` | `OAuthVerifierProofs` | `Spec => []CacheBounded` |
| `OwnersOnly` | `BatchJobsProofs` | `Spec => []OwnerOnly` |
| `ServedAnywhere` | `BatchJobsProofs` | `Spec => []AnyNode` |
| `OneProviderEach` | `BatchJobsProofs` | `Spec => []OneProvider` |
| `UsageOnce` | `BatchJobsProofs` | `DistinctIds` implies `Spec => []UsagePerLine` |
| `ListensPrimed` | `NodeLifeProofs` | `Spec => []PrimedBeforeListening` |
| `EventsAccounted` | `NodeLifeProofs` | `Spec => []Accounted` |
| `CountsAreTrue` | `WebsiteProofs` | `Spec => []Consistent` |
| `NothingElseEndsThem` | `WebsiteProofs` | `Spec => StandsUntilEnded` |
| `SessionTypeOK`, `SessionFailsOpen`, `SessionHeardWhole`, `SessionToldWhole`, `SessionBracketed` | `DispatchProofs`, of `RealtimeSession` | `SessionAssumption` implies `RT!Spec => []RT!TypeOK`, and so on |
| `BatchRelayTypeOK`, `BatchStatusTrue`, `BatchHopTransparent`, `BatchResultsWhole` | `BatchJobsProofs`, of `BatchRelay` | `RelayAssumption` implies `BR!Spec => []BR!TypeOK`, and so on |
| `ClientTypeOK`, `ClientInOrder`, `ClientEndMeansWhole`, `ClientNoFalseAlarm` | `BatchJobsProofs`, of `ClientStreams` | `ClientAssumption` implies `CS!Spec => []CS!TypeOK`, and so on |
| `LineTypeOK`, `EveryLineHandedOn` | `BatchJobsProofs`, of `LineBuffer` | `LineAssumption` implies `LB!Spec => []LB!TypeOK` and `[]LB!EveryLine` |

The last four rows are about strands of `Relays`. Each theorem states one conjunct of
`Relayed`, `CollectedAlike` or `WellFormed` for every value of the constants of its
strand; the strand is an instance (`RT`, `BR`, `CS`, `LB`) in the module of the proofs,
with variables of its own.

They hold for every roster, overlay, chain, pull, limit, cost, key set, batch and
number of requests, and for every value of the bounds. The assumptions are those
named in the modules, and TLC evaluates them in the runs:

* *Sentinels* differ from the values they stand beside (`SentinelAssumption`,
  `NoEntryAssumption`, `AbsentAssumption`, `NoneAssumption`, `NullAssumption` and the
  slots of each module). In the code these are `Option`s and enum variants, which
  cannot be confused with a value.
* *Inputs are what parsing admits*: `[[keys]]` and `[[providers]]` passed their
  load-time checks, pulls parse, the requests of a batch are not empty.
* *Numbers are numbers*: windows, budgets and costs are naturals; `Minute`, `Poll`,
  `WINDOW`, `Day` and a session's lifetime are not zero.
* *Slots are finite where they are counted*: `Requests` of `RateLimiter` and
  `Dispatch`, `Models` of `RateLimiter`, `Attempts` of `LoginThrottle`. Elsewhere finiteness of what is counted
  is part of the invariant (`Permits`, `RecentInv`, `LimitsInv`, the cache's).

* *The four strands* name theirs in the theorems. `SessionAssumption`: the capacity and
  the replay limit are naturals, the targets are finitely many, `None` is neither a
  number nor a target. `RelayAssumption`: the upstream APIs are among the five of the
  code, none or one node is in between, `None` is no number, word, batch, error or
  response. `ClientAssumption`: the SDKs are among the six, the surfaces among the three,
  `None` is no line. `LineAssumption`: the framings are SSE or NDJSON, the limit is a
  natural number, `None` is no way to end. `StreamAssumption` of `Relays`, which TLC
  evaluates, has those about sets; a model value is no number, word or record.

`UsageOnce` alone has a hypothesis about data: that no two requests of a batch have
the same custom id. The node does not check it (see the table of disagreements),
and without it the theorem is false.

**The cache.** `CacheTransparent` alone is not inductive: it says nothing of what
the cache holds. `CacheInv` adds what the generation tag is worth. (1) Nothing
live is tagged with a generation that has not been installed
(`GenerationsBounded`), so an install opens a fresh one. (2) All live snapshots,
including the clones of requests under way, of one generation have the same
hashes (`GenerationFixesHashes`); verdict installs keep both generation and
hashes. (3) A cached entry verifies against the hash stored with it, and that hash
is the key's in every live snapshot of its generation (`CacheSound`). A late
`ColdAccept` keeps (3) because it tags the entry with its clone's generation.
`CacheInv` only speaks of the set of live snapshots, so that a step which adds none
preserves it (`CacheInvMonotone`). A trusted entry is then genuine for the
request's own snapshot (`TrustedIsGenuine`), which gives both transparency and the
refinement.

**Display ids.** Of two keys in the new layer, each stands for a kept entry; the
earlier of the two claims would have excluded the later one.

**Permits.** `ShapeInv` ties the stage of a call to the scopes it holds
(`RateLimiter`), and the guard to the target faced (`Dispatch`). With it each
step moves one request in or out of `Holders`, and the cardinality changes by one.

**The burst.** `BurstInv` says that every reading a call may still present lies
between the window's start and the clock, that each bucket's level is within its
capacity, and that either the bucket has not been touched since the window opened, and
then nothing has left it, or its level plus what left it since is at most the burst plus
what accrued up to its last refill. A stale reading leaves `last` alone, so accrual is
counted once; a refund returns what `taken` gives back.

**The refund.** `BooksInv` carries what a call has taken: nothing before it takes,
nothing when it takes at the global scope, and the global token, if one is asked for, by
the time it takes at its model's. With it each step moves one call in or out of
`Owing`. The books name a sum over the models, which needs a theory of sums: that
`MapThenSumSet` over a finite set changes by what one of its values changes by. The library's
induction theorems have an operator for a parameter and cannot be used, but that a
well-founded order has minimal elements (`WFMin`) has none: each lemma supposes a smallest
counterexample and finds a smaller one.

**The walk.** For `AttemptDiscipline`, `Shape` says that everything in `tried`
lies behind `i` in the present pass or left an error, and an error rules out the
second pass.

**The story of a request.** `EventsWellFormed` looks at whole logs; what makes it
inductive is `Story`, which says for each stage how far the log has come: nothing
before the screening ends, `Started` and health reports during the walk, `Routed`
once a target has answered, and a terminal event only in the last stage.

**Verdicts.** An identity pull rebuilds every key from the roster and takes its
verdict from the old snapshot. The proof follows one key through `RosterKeys` and
`WithVerdicts`, whatever the roster repeats or drops.

**Snapshots.** `SnapshotInv` says that every snapshot, live or held by a request, is
*whole*: each provider it names has an instance of its kind, and a limiter entry of
its limits exactly when it has limits. The refresher prepares the successor of the
live snapshot (`Preparing`), and a held snapshot is an earlier one or the live one
(`Holding`). `Sharing` says that whoever arrived since the limits of a provider last
changed draws on the entry that is live now, and `Permits` that no entry, forgotten
ones included, has more permits out than it was made with. Together they give
`LimitHolds`: the streams under the present limits all draw on one entry.
`Agreeing` relates a listing's resolved routes to the snapshot it began with. For
`ImplementsLayer`, what can be told of a whole snapshot is told by its providers and
routes alone (`WholeVisible`), and those of a successor come from the pull
(`SuccessorVisible`): what was reused of its predecessor does not show.

**Trust.** `Vouched` bounds each cached entry, and each request on either side of its
await, by the last moment at which the token was vouched for (`Since`): the clock
if it is not revoked, else its revocation. An entry's lifetime is reckoned from the
clock reading before the await, so that a late answer shortens it. The bound of the
cache needs that the entries held are finitely many, for their count to go down with
each eviction; that is part of the induction.

**Batches.** A signed id names its job because upstream numbers are unique per provider
(`Numbered`: a number never exceeds the count of jobs there, so the next one is
fresh), lines answer requests in order (`Answering`), and tokens, streams and stored rows
all carry the id of their job (`Named`, `Streaming`, `Stored`).

**Where an event is.** `Accounted` counts the places of one event. `Parted` says
that the events taken from the ring are the disjoint union of those skipped, held,
stored, adrift (given up, perhaps to be stored yet) and lost. `HandInv` says what the
reporter holds at each stage; `DriftInv` keeps the batches that were given up apart
from one another, so that a late store moves a whole batch and nothing twice.
`BootInv` ties a running listener to the first pulls.

**Counts of the web control plane.** `CountInv` says that a running window counts
the remembered failures no older than itself, and that where no window runs there
is none of this tick; `RecentInv` numbers the failures of a tick, so that a
new one is new. `BudgetInv`: a spent budget and the attempts still in flight fit into
the limit, because no attempt is let through once it is spent. A flow is in the
table, in the hands of one callback or has opened its session (`OnceInv`); an ended
token was drawn and is not valid (`EndedInv`), and no step makes a drawn token
valid again (`TokensMoveOn`). `LongInv` needs to know that what the limiter asks
for is at most a day from its pass (`AskedInv`; the next midnight is, by
arithmetic) and that an operator's suspension is marked as one.

**A realtime session.** A frame of the consumer is, in this order, written upstream, in
the inbound channel or in the core's hand; laid end to end these are what was read
(`Upward`), and the replay buffer is the beginning of it while a fallback is possible.
`Downward` says the same of the frames of the upstream. Neither is inductive alone: a
`Close` in the middle of a channel would leave frames behind it, so `Closing` says that it
comes last, and only from a side that has finished; `Roles` says who exists at each
stage, and that nobody was told anything before the first frame; `Metering` counts the
`usage` events against the `response.done`s the consumer was sent, the one in the core's
hand included. Counting a longer prefix needs that one frame changes a count by one,
which is again shown by least counterexample.

**A batch as it is told.** An upstream batch that has ended changes no more, so that what a
fetch has left to tell can be compared with what the batch holds: `Fetching` says that
the lines left are those of the requests with something to tell and no answer yet, each
once (`Lists`), and that each answer heard is the one expected. `ShownTrue` says that a
handle, read or passed on, ended exactly when the batch had. The words and the lines of
the five APIs, and those between two nodes, are lemmas by cases over the tables; a
second node then reads back what the first wrote.

**What a client reads.** `Written` says of the lines that nobody has read that the
numbers of their frames grow, that no frame follows an end, that a blank line follows each event
where there are blank lines, and that what was lost came later. `Waiting` puts the
event which an SDK holds back until its blank line before all of these. With that
`Reading` divides the frames that a caller should get into those it got and those
still to come, and an iterator that ends without an error has none to come. `Alarms`
says that the news of a failure is among the lines, or in the event held back, until it was told,
and never after the `[DONE]` that would end the stream before it. The eighteen
handlers come in through one lemma (`HandleStep`) that says what they have in common.

**Lines cut anywhere.** What is buffered and what is on the wire, end to end, are always
a tail of the body (`Untold`): each cell is followed by the rest of its line and then by
later lines only, whole lines or a broken first one. Delivering moves the cut and
changes nothing of this, so the invariant does not mention the cut. `HandedOn` puts the
payloads before that tail and before `[DONE]`; `NoneLost` says that a line within the
limit was handed on or is still there from its first cell. What a `clear` drops is one
line, because no newline is among it; if its first cell were there it would have more
cells than the limit allows, so it is never a line within the limit. That all NDJSON
lines are handed on whole needs the same: nothing is ever cleared there, hence the first
cell of the tail is the first of its line.

Only model-checked:

* `Terminates`, `BatchLeaves`, `ShutdownCompletes` and `RefusalsEnd`: liveness
  under fairness is outside the prover's reach, as is `ENABLED`;
* `Relayed`, `CollectedAlike` and `WellFormed` of `Relays` as wholes. Their realtime,
  batch, client and line conjuncts are proved, see above. What the decoders, encoders and
  collectors of the other strands compute are folds over sequences of events and
  selections from them, about which the provers know nothing: each needs an
  induction of its own;
* `SaidInOrder`, `CallsAnswered`, `OpaqueKept` and `Replays`, for the same reason: a
  conversation is translated by folds and recursive functions;
* of the realtime session `Staged`, `RememberedAsCollected` (a fold) and
  `OutlivesOnlyBlocked` (`ENABLED`).

## Disagreements between code and text

Three runs are expected to be violated; each states what the repository's own
text says.

1. `keystore_listing`: a listing is scoped by display id against a later snapshot
   than the one that admitted it. If a pull has removed or renamed the key, no
   scope is found and every model is shown (`keys.rs:331`, `server.rs:1240-1242`).
2. `weblimiter_operator`: the limiter extends an operator's shorter suspension,
   marks it as its own, and then lifts it before the operator's end
   (`db/keys.rs:222`, against `limiter.rs:9-10`).
3. `realtime_end`: after its loop the core sends `Close` and awaits the provider's
   task without reading the outbound channel, while that task may be waiting for
   room in it. Neither moves again, the session has no terminal event and the
   upstream socket stays open (`server.rs:859`, against `session.rs:186-188` and
   `server.rs:856-857`).

Others were met while modelling. The models have the code's behaviour, and the
properties set these cases aside where they touch them.

| Where | The code | The text, or the expectation |
|---|---|---|
| `keys.rs:238` | a rotation leaves the old token in the cache beside the new one; it is never trusted | "bounded by the number of keys (one valid token each)" (`keys.rs:27-28`) |
| `engine.rs:1192` | an unregistered target counts as an error and suppresses the second pass, so a cooled-down target is not tried although nobody was asked | the comment on the two passes (`engine.rs:1181`) |
| `ratelimit.rs:306` | an exactly empty bucket asks for no wait, which dispatch takes for an exhausted wait budget | `engine.rs:1269-1275` |
| `engine.rs:1251` | a penalty is reckoned from the request's arrival, so a slow failure cools down for less | `fallback_cooldown_secs` (`config.rs:137`) |
| `engine.rs:455` | the cooldown of a removed provider is cleared before the swap; a request on the old snapshot can set it again, and a provider re-added later starts cooled down | removed providers leave nothing behind |
| `engine.rs:425`, `route.rs:37` | a pulled route for a model that the file serves by namespace, or a pulled provider with a longer namespace, takes the model over | "the pulled layer extends the base but never overrides it" (`engine.rs:305-306`) |
| `control/src/lib.rs:176` | the timeout ends with the response head; a body that never ends holds the refresher, and the shutdown | "per-request timeout" (`lib.rs:157`) |
| `main.rs:142` | the tasks are cancelled when the drain begins, so what requests emit while they finish, and what still waits in the ring, is never reported | "make sure the background tasks are cancelled and drained" (`main.rs:147`) |
| `oauth.rs:251` | a cached token is served until it expires although the key that signed it has left the key set | `cache_ttl_secs` bounds introspected tokens only |
| `model/src/stream.rs:64` | the collector joins reasoning runs and keeps one signature, losing where they stood between other parts | verbatim reasoning |
| `openai_wire.rs:318` | an error frame in an upstream's chat stream is skipped: the consumer's stream ends as if complete | "llmleaf never silently mutates prompts or responses" (`SOUL.md`) |
| `responses.rs:657` | without context management the terminal snapshot puts reasoning first, then text, then calls, so that items streamed in another order get other places and ids | "the terminal snapshot then names the same items" (`responses.rs:678-679`) |
| `responses.rs:1398` | a compaction without an output index stands first in a collected response and in its place in the terminal snapshot | "exactly as the stream collector would" (`responses.rs:1497`) |
| `responses.rs:306` | reasoning that follows a text of its turn is put before it, when a call joins them in one message | order of the history |
| `compat.rs:799` | stop sequences force the chat wire, on which signed reasoning cannot be sent and is dropped | verbatim reasoning |
| `compat.rs:1465` | Claude's readable compaction is refused across an `llmleaf` hop | a hop serves what its upstream serves |
| `llmleaf.rs:309` | the line with which an inner node ends a broken fetch of batch results has no custom id and is skipped: the consumer of the outer node sees a complete list | "surface the failure as a trailing JSON line" (`server.rs:1960`) |
| `compat.rs:1803`, `gemini.rs:157` | a batch whose requests name several models runs on the first one's at Mistral and Gemini; Qianfan's is refused | "llmleaf never silently mutates prompts or responses" (`SOUL.md`) |
| `gemini.rs:231` | results that are fetched before the end are an empty list without an error; a cancel of a batch that has ended is answered as a cancel under way | the other upstreams refuse, or answer with the batch |
| `compat.rs:1343` | requests that an OpenAI-shaped upstream canceled count as being processed for ever, and the file-based dialects report expired and canceled lines as errored | "Cancellation/expiry surface as errors with a stable `code`" (`compat/batch.rs:134`) |
| `compat/batch.rs:39` | custom ids need not differ, so two lines of one batch may have one usage event id | "downstream dedupes by the event id" (`engine.rs:1023`) |
| `gemini.rs:386` | a function response has an empty name, because the consumers' dialects carry call ids only | Gemini pairs responses with calls by name |
| `http.rs:81` | an over-long pending line is dropped, and its rest, which has no `data:` prefix, is skipped: the event vanishes without an error | "the eventual truncated JSON surfaces as a parse error" (`http.rs:60-61`) |
| `server.rs:846` | a frame of the consumer that finds the provider gone ends the loop; what the outbound channel still holds is dropped, its usage included | "provider returned ⇒ out_tx dropped ⇒ loop drained" (`server.rs:855`) |
| `realtime_ws.rs:94` | an upstream write that fails ends the session without an error: before the first frame there is no fallback, and the session is reported as completed | "any provider error is safe to recover from" (`server.rs:632-633`) |
| `session.rs:437` | a turn that is refused sends an error and no `response.done` | clients "await `response.done`" (`session.rs:12`) |
| `server.rs:1258`, `:1284` | a listing takes names from one snapshot, but the targets of its routes, the catalogs and the compaction support from whichever is current at each step | "One topology snapshot for the whole listing" (`server.rs:1249`) |
| `server.rs:1343` | a model that a provider lists inside a longer namespace of another one is shown as the first one's, and served by the other | the entry names the upstream "so the admin `endpoints` line needs no re-resolution" (`server.rs:1206`) |
| `go/stream.go:66`, `typescript/src/wire.ts:488`, C# `Mapper.cs:283` | the error frame of a failed chat stream decodes to a chunk without choices, and the `[DONE]` after it ends the stream as if complete | an error "must never be silently dropped" (`clients/SPEC.md:111`, of Responses streams, "matching how the SDK's chat stream reports failures") |
| web `limiter.rs:73` | usage is recorded under a key's name, and the limiter takes the label for an id: a key with a name is never suspended | "When a key trips a cap the limiter *suspends* it" (`limiter.rs:7`) |
| web `db/usage.rs:21` | every pushed event is inserted: a batch fetched twice is counted twice | "downstream dedupes by the event id" (`engine.rs:1023`) |
| web `auth/mod.rs:115` | a lookup that fails is taken for a session that is not there: an operator who is logged in is sent to the login page until the database answers again | |
| web `auth/mod.rs:212` | a logout whose DELETE fails clears the cookie and leaves the session valid | |
| web `auth/throttle.rs:51` | a window starts with its first failure and is fixed: nearly twice the budget fits into one window's length | "in a sliding window" (`throttle.rs:5`) |

## Plan

What is left, the most valuable first:

1. That a late store (`Drift`) and an acknowledged one amount to the same ledger:
   an abstract reporter without batches, implemented by `NodeLife`.
2. The folds of `Relays`, by least counterexample as the sums of `RateLimiterProofs`.

## Not modelled

* **The request interceptor**: stateless; its three outcomes are free choices of
  `Dispatch`.
* **The web terminal**: pumps bytes between a PTY and a WebSocket.
* **Data of the dialects**: images, audio, files, tool definitions, sampling
  parameters, embeddings, speech, transcription and rerank bodies, error texts.
  They are field-by-field mappings without state; a model would repeat them line
  by line and a unit test checks them better.
* **Pricing** and its collector: a table, a floating-point product, an offline
  scraper of provider pages.
* **Admin and dashboard reads**, web pages, schema text, configuration parsing:
  formatting, or reading without a state change.
* **The SDKs' types and unary calls**: field mappings, and one request each.
* **Simulation, benchmarks, generated code**: tooling.

The last six are most of the repository's lines, which is why the specifications,
although they have the stateful code of the node and its control plane, stand for
a smaller share of its text. `PROJECT.json` says of each component how far it is
modelled and what is left out.
