------------------------------ MODULE BatchJobs ------------------------------
(***************************************************************************)
(* Batches: asynchronous jobs that live at one upstream provider. A node   *)
(* keeps nothing of a batch; the id it hands out names the provider, the   *)
(* upstream id and, where ids are signed, the key that created it          *)
(* (batch_id.rs), so any node can poll, cancel and fetch (engine.rs).      *)
(* Every succeeded line a consumer fetches is a usage event, which the     *)
(* web control plane stores.                                               *)
(***************************************************************************)
EXTENDS Integers, Sequences, FiniteSets

CONSTANTS
    None,           \* an absent optional field
    Nodes, Keys, Models, Providers,
    Secret,         \* batch_id_secret of each node, or None
    MayUse,         \* models each key may use
    Topologies,     \* topologies a node may run: registry and routes
    Specs,          \* batches consumers submit: sequences of a custom id and a model
    MaxJobs,        \* bound: jobs
    MaxPair,        \* bound: lines of any two jobs
    MaxStreams      \* bound: fetches of results

VARIABLES
    topo,           \* topology each node runs
    jobs,           \* jobs at the upstreams, in order of creation
    tokens,         \* ids handed out, each with its job
    streams,        \* result streams, in order of opening
    rows            \* usage events the web app has stored, as [job, line, id]

vars == <<topo, jobs, tokens, streams, rows>>

\* A line that errored or expired is, to a node, like one that was canceled.
Outcomes == {"succeeded", "canceled"}

ASSUME BatchAssumption ==
    /\ MaxJobs \in Nat /\ MaxStreams \in Nat
    /\ None \notin Keys \cup Providers /\ Nodes \subseteq DOMAIN Secret
    /\ MayUse \in [Keys -> SUBSET Models]
    /\ \A t \in Topologies :
           t.registry \subseteq Providers /\ DOMAIN t.routes \subseteq Models
    /\ \A spec \in Specs : /\ Len(spec) \in Nat \ {0} /\ DOMAIN spec = 1..Len(spec)
                            /\ \A k \in DOMAIN spec : DOMAIN spec[k] = {"custom_id", "model"}

ASSUME NoneAssumption ==
    /\ None \notin Nat
    /\ None \notin {Secret[n] : n \in Nodes} \X Providers \X Nat \X (Keys \cup {None})

TypeOK ==
    /\ topo \in [Nodes -> Topologies]
    /\ Len(jobs) <= MaxJobs /\ Len(streams) <= MaxStreams
    /\ \A t \in tokens : t.job \in DOMAIN jobs
    /\ \A k \in DOMAIN streams : streams[k].next \in 1..(Len(jobs[streams[k].job].lines) + 1)
    /\ \A e \in rows : e.job \in DOMAIN jobs /\ e.line \in DOMAIN jobs[e.job].lines

Init ==
    /\ topo \in [Nodes -> Topologies]
    /\ jobs = <<>> /\ tokens = {} /\ streams = <<>> /\ rows = {}

-----------------------------------------------------------------------------
(* Batch ids.                                                              *)

\* A tag no one makes without the secret.
Tag(secret, provider, upstream, owner) == <<secret, provider, upstream, owner>>

EncodeBatch(n, provider, upstream, owner) ==
    IF Secret[n] = None
    THEN [provider |-> provider, upstream |-> upstream, owner |-> None, tag |-> None]
    ELSE [provider |-> provider, upstream |-> upstream, owner |-> owner,
          tag |-> Tag(Secret[n], provider, upstream, owner)]

\* Mutant: the owner is split off before the upstream id.
DecodeBatchSwapped(n, token) ==
    {[provider |-> token.provider, owner |-> None, upstream |-> token.owner]}
\* What a node makes of an id: nothing, or its fields. Without a secret, all that follows the
\* provider is taken for an upstream id, which no upstream has issued if the id was signed.
DecodeBatch(n, token) ==
    IF Secret[n] = None
    THEN {[provider |-> token.provider, owner |-> None,
           upstream |-> IF token.tag = None THEN token.upstream ELSE None]}
    ELSE {[provider |-> token.provider, owner |-> token.owner, upstream |-> token.upstream] :
             x \in {y \in {token} : y.tag = Tag(Secret[n], y.provider, y.upstream, y.owner)}}

\* Mutant: any authenticated key is admitted.
CheckBatchOwnerAny(decoded, key) == TRUE
\* A signed id admits its owner.
CheckBatchOwner(decoded, key) == decoded.owner \in {None, key}

\* The jobs a call reaches: none, or the one its id names at a provider of this node.
BatchTarget(n, key, token) ==
    {j \in DOMAIN jobs : \E decoded \in DecodeBatch(n, token) :
        /\ decoded.provider \in topo[n].registry
        /\ CheckBatchOwner(decoded, key)
        /\ jobs[j].provider = decoded.provider /\ jobs[j].id = decoded.upstream}

-----------------------------------------------------------------------------
(* Submission.                                                             *)

\* The first target of a model's route.
Primary(t, model) == Head(t.routes[model])

\* Mutant: every item goes to the provider of the first.
ResolvableMixed(t, spec) ==
    /\ \A k \in DOMAIN spec : spec[k].model \in DOMAIN t.routes /\ t.routes[spec[k].model] # <<>>
    /\ Primary(t, spec[1].model).provider \in t.registry
\* resolve_batch: every item has a target, all at one provider.
Resolvable(t, spec) ==
    /\ \A k \in DOMAIN spec : spec[k].model \in DOMAIN t.routes /\ t.routes[spec[k].model] # <<>>
    /\ \A k \in DOMAIN spec :
           Primary(t, spec[k].model).provider = Primary(t, spec[1].model).provider
    /\ Primary(t, spec[1].model).provider \in t.registry

\* Each item with the model the upstream knows it by.
ResolveBatch(t, spec) ==
    [k \in DOMAIN spec |->
        LET upstream == Primary(t, spec[k].model).model
        IN [spec[k] EXCEPT !.model = IF upstream = None THEN @ ELSE upstream]]

\* create_batch checks the key against every model.
Authorized(key, spec) == \A k \in DOMAIN spec : spec[k].model \in MayUse[key]

\* The upstream stores the job; its answer may be lost, and then no one holds the id.
CreateBatch(n, key, spec, lost) ==
    /\ Len(jobs) < MaxJobs
    /\ \A j \in DOMAIN jobs : Len(jobs[j].lines) + Len(spec) <= MaxPair
    /\ Authorized(key, spec) /\ Resolvable(topo[n], spec)
    /\ LET provider == Primary(topo[n], spec[1].model).provider
           id == Cardinality({j \in DOMAIN jobs : jobs[j].provider = provider}) + 1
           job == [provider |-> provider, id |-> id, key |-> key, node |-> n, spec |-> spec,
                   lines |-> [k \in DOMAIN spec |->
                                 [item |-> ResolveBatch(topo[n], spec)[k], outcome |-> None]],
                   targets |-> {Primary(topo[n], spec[k].model).provider : k \in DOMAIN spec},
                   canceling |-> FALSE]
       IN /\ jobs' = Append(jobs, job)
          /\ tokens' = IF lost THEN tokens
                       ELSE tokens \cup {[token |-> EncodeBatch(n, provider, id, key),
                                          job |-> Len(jobs) + 1]}
    /\ UNCHANGED <<topo, streams, rows>>

-----------------------------------------------------------------------------
(* Polling, cancelling, fetching: routed by the id alone. Any id handed    *)
(* out may be presented by any key at any node.                            *)

\* The answer names the batch again, for the caller.
Answer(n, key, j) ==
    tokens' = tokens \cup {[token |-> EncodeBatch(n, jobs[j].provider, jobs[j].id, key), job |-> j]}

Ended(job) == \A k \in DOMAIN job.lines : job.lines[k].outcome # None

BatchRetrieve(n, key, t) ==
    \E j \in BatchTarget(n, key, t.token) :
        /\ Answer(n, key, j)
        /\ UNCHANGED <<topo, jobs, streams, rows>>

BatchCancel(n, key, t) ==
    \E j \in BatchTarget(n, key, t.token) :
        /\ Answer(n, key, j)
        /\ jobs' = [jobs EXCEPT ![j].canceling = ~Ended(jobs[j])]
        /\ UNCHANGED <<topo, streams, rows>>

\* An upstream has results once every line has an outcome.
BatchResults(n, key, t) ==
    /\ Len(streams) < MaxStreams
    /\ \E j \in BatchTarget(n, key, t.token) :
           /\ Ended(jobs[j])
           /\ streams' = Append(streams, [batch_id |-> t.token, key |-> key, job |-> j, next |-> 1])
           /\ UNCHANGED <<topo, jobs, tokens, rows>>

\* Mutant: usage events are named by the line alone.
UsageIdLine(stream, line) == line.item.custom_id
\* "<batch-id>:<custom-id>"
UsageId(stream, line) == <<stream.batch_id, line.item.custom_id>>

Advance(stream) == [stream EXCEPT !.next = @ + 1]

\* instrument_batch: one line reaches the consumer; if it succeeded its usage is emitted, and
\* ingest inserts a row.
NextLine(k) ==
    LET stream == streams[k]
        lines == jobs[stream.job].lines
        line == lines[stream.next]
        event == [job |-> stream.job, line |-> stream.next, id |-> UsageId(stream, line)]
    IN /\ stream.next <= Len(lines)
       /\ streams' = [streams EXCEPT ![k] = Advance(@)]
       /\ rows' = IF line.outcome = "succeeded" THEN rows \cup {event} ELSE rows
       /\ UNCHANGED <<topo, jobs, tokens>>

\* The consumer hangs up, or the upstream fails: the stream stops.
StopStream(k) ==
    /\ streams[k].next <= Len(jobs[streams[k].job].lines)
    /\ streams' = [streams EXCEPT ![k].next = Len(jobs[streams[k].job].lines) + 1]
    /\ UNCHANGED <<topo, jobs, tokens, rows>>

-----------------------------------------------------------------------------

\* An upstream settles a line; once canceling it may also cancel it.
Work(j, k, outcome) ==
    /\ jobs[j].lines[k].outcome = None
    /\ outcome = "canceled" => jobs[j].canceling
    /\ LET settled == [jobs[j] EXCEPT !.lines[k].outcome = outcome]
       IN jobs' = [jobs EXCEPT ![j] = [settled EXCEPT !.canceling = @ /\ ~Ended(settled)]]
    /\ UNCHANGED <<topo, tokens, streams, rows>>

\* A node pulls another topology.
InstallTopology(n, t) ==
    /\ t # topo[n]
    /\ topo' = [topo EXCEPT ![n] = t]
    /\ UNCHANGED <<jobs, tokens, streams, rows>>

Next ==
    \/ \E n \in Nodes, key \in Keys :
           \/ \E spec \in Specs, lost \in BOOLEAN : CreateBatch(n, key, spec, lost)
           \/ \E t \in tokens :
                  BatchRetrieve(n, key, t) \/ BatchCancel(n, key, t) \/ BatchResults(n, key, t)
    \/ \E k \in DOMAIN streams : NextLine(k) \/ StopStream(k)
    \/ \E j \in DOMAIN jobs, outcome \in Outcomes :
           \E k \in DOMAIN jobs[j].lines : Work(j, k, outcome)
    \/ \E n \in Nodes, t \in Topologies : InstallTopology(n, t)

Spec == Init /\ [][Next]_vars

-----------------------------------------------------------------------------
(* Properties.                                                             *)

Signed(job) == Secret[job.node] # None

\* A signed id serves its owner only, at every node and whatever happened since.
OwnerOnly ==
    \A t \in tokens, n \in Nodes, key \in Keys :
        \A j \in BatchTarget(n, key, t.token) : Signed(jobs[j]) => key = jobs[j].key

\* An id reaches the job it was handed out for, never another upstream's or another key's of the
\* same number, every node with the same secret that runs the provider can serve it, and a batch
\* keeps one id for its whole life, whichever node answers.
AnyNode ==
    /\ \A t \in tokens, n \in Nodes, key \in Keys : BatchTarget(n, key, t.token) \subseteq {t.job}
    /\ \A t \in tokens, n \in Nodes :
           LET job == jobs[t.job]
           IN Secret[n] = Secret[job.node] /\ job.provider \in topo[n].registry =>
                  BatchTarget(n, job.key, t.token) = {t.job}
    /\ \A s, t \in tokens : s.job = t.job => s = t

\* A batch is one job at one provider, and no model in it was out of its key's reach.
OneProvider ==
    \A j \in DOMAIN jobs :
        /\ jobs[j].targets = {jobs[j].provider}
        /\ \A k \in DOMAIN jobs[j].spec : jobs[j].spec[k].model \in MayUse[jobs[j].key]

\* Fetched again, by anyone at any node, a line's usage carries the same event id, and no other
\* line's does: whoever dedupes by id counts every line once.
UsagePerLine ==
    \A e, f \in rows : (e.id = f.id) = (e.job = f.job /\ e.line = f.line)
=============================================================================
