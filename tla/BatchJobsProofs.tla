-------------------------- MODULE BatchJobsProofs ---------------------------
(***************************************************************************)
(* Proofs about BatchJobs for every set of nodes, keys, topologies and     *)
(* batches and every number of jobs: that a signed id serves its owner     *)
(* only, that an id reaches the job it names at every node that can serve  *)
(* it and at no other job, that a batch stays at one provider within its   *)
(* key's reach, and that usage is counted once per line.  Two more parts   *)
(* follow what a job's consumer sees of it: BatchRelay, its status and     *)
(* results through one node or two, and ClientStreams, what a client SDK   *)
(* reads of these and of a stream.  A last one is about the other end of a *)
(* stream: LineBuffer, where an upstream's body is cut into lines.         *)
(***************************************************************************)
EXTENDS BatchJobs, SequenceTheorems, FiniteSetTheorems, TLAPS

-----------------------------------------------------------------------------
(* The inductive invariant. *)

\* What the upstreams are asked, line by line.
Items == UNION {{ResolveBatch(t, spec)[k] : k \in DOMAIN spec} : t \in Topologies, spec \in Specs}
Lines == [item : Items, outcome : Outcomes \cup {None}]
Job == [provider : Providers, id : Nat, key : Keys, node : Nodes, spec : Specs,
        lines : Seq(Lines), targets : SUBSET Providers, canceling : BOOLEAN]

JobsTyped ==
    /\ topo \in [Nodes -> Topologies]
    /\ jobs \in Seq(Job) /\ Len(jobs) <= MaxJobs

\* The id under which a job is handed out, by whichever node answers.
Ids == [j \in DOMAIN jobs |->
           EncodeBatch(jobs[j].node, jobs[j].provider, jobs[j].id, jobs[j].key)]

JobsAt(provider) == {j \in DOMAIN jobs : jobs[j].provider = provider}

\* An upstream numbers its jobs.
Numbered ==
    /\ \A p \in Providers : \A j \in JobsAt(p) : jobs[j].id <= Cardinality(JobsAt(p))
    /\ \A i, j \in DOMAIN jobs :
           jobs[i].provider = jobs[j].provider /\ jobs[i].id = jobs[j].id => i = j

\* The lines of a job answer the lines of its batch.
Answering ==
    \A j \in DOMAIN jobs :
        /\ Len(jobs[j].lines) = Len(jobs[j].spec)
        /\ \A k \in DOMAIN jobs[j].spec :
               jobs[j].lines[k].item.custom_id = jobs[j].spec[k].custom_id

\* A job has one id, whoever asked for it and whichever node told it.
Named ==
    \A t \in tokens : t.job \in DOMAIN jobs /\ t = [token |-> Ids[t.job], job |-> t.job]

Stream == [batch_id : {Ids[j] : j \in DOMAIN jobs}, key : Keys, job : DOMAIN jobs, next : Nat]

\* A stream carries the id of its job and stands at one of its lines, or past the last.
Streaming ==
    /\ streams \in Seq(Stream) /\ Len(streams) <= MaxStreams
    /\ \A k \in DOMAIN streams :
           /\ streams[k].batch_id = Ids[streams[k].job]
           /\ streams[k].next \in 1..(Len(jobs[streams[k].job].lines) + 1)

\* A row names its line by the id of the job and the custom id of the line.
Stored ==
    \A e \in rows :
        /\ e.job \in DOMAIN jobs /\ e.line \in DOMAIN jobs[e.job].lines
        /\ e.id = <<Ids[e.job], jobs[e.job].spec[e.line].custom_id>>

JobsInv == JobsTyped /\ Numbered /\ Answering /\ OneProvider
BatchInv == JobsInv /\ Named /\ Streaming /\ Stored

-----------------------------------------------------------------------------
(* Ids. *)

\* A node reads back what a node with its secret wrote, and of any other id no upstream id.
LEMMA Decoding ==
    ASSUME NEW n \in Nodes, NEW m \in Nodes, NEW p \in Providers, NEW id \in Nat, NEW key \in Keys,
           NEW d \in DecodeBatch(n, EncodeBatch(m, p, id, key)), d.upstream # None
    PROVE  /\ Secret[n] = Secret[m] /\ d.provider = p /\ d.upstream = id
           /\ d.owner = IF Secret[m] = None THEN None ELSE key
<1> DEFINE tok == EncodeBatch(m, p, id, key)
<1>1. CASE Secret[m] = None
    <2>1. tok = [provider |-> p, upstream |-> id, owner |-> None, tag |-> None]
        BY <1>1 DEF EncodeBatch
    <2>2. Tag(Secret[n], p, id, None) # None
        BY NoneAssumption DEF Tag
    <2>3. Secret[n] = None
        BY <2>1, <2>2 DEF DecodeBatch
    <2>4. d = [provider |-> p, owner |-> None, upstream |-> id]
        BY <2>1, <2>3 DEF DecodeBatch
    <2> QED
        BY <1>1, <2>3, <2>4
<1>2. CASE Secret[m] # None
    <2>1. tok = [provider |-> p, upstream |-> id, owner |-> key, tag |-> Tag(Secret[m], p, id, key)]
        BY <1>2 DEF EncodeBatch
    <2>2. Tag(Secret[m], p, id, key) # None
        BY NoneAssumption DEF Tag
    <2>3. Secret[n] # None
        BY <2>1, <2>2 DEF DecodeBatch
    <2>4. /\ Tag(Secret[m], p, id, key) = Tag(Secret[n], p, id, key)
          /\ d = [provider |-> p, owner |-> key, upstream |-> id]
        BY <2>1, <2>3 DEF DecodeBatch
    <2>5. Secret[m] = Secret[n]
        BY <2>4 DEF Tag
    <2> QED
        BY <1>2, <2>4, <2>5
<1> QED
    BY <1>1, <1>2

\* A node with the same secret does read it back.
LEMMA Readable ==
    ASSUME NEW n \in Nodes, NEW m \in Nodes, NEW p, NEW id, NEW key, Secret[n] = Secret[m]
    PROVE  \E d \in DecodeBatch(n, EncodeBatch(m, p, id, key)) :
               /\ d.provider = p /\ d.upstream = id
               /\ d.owner = IF Secret[m] = None THEN None ELSE key
<1>1. CASE Secret[m] = None
    BY <1>1 DEF DecodeBatch, EncodeBatch
<1>2. CASE Secret[m] # None
    <2> DEFINE tok == [provider |-> p, upstream |-> id, owner |-> key,
                       tag |-> Tag(Secret[m], p, id, key)]
               d == [provider |-> p, owner |-> key, upstream |-> id]
    <2>1. EncodeBatch(n, p, id, key) = tok /\ EncodeBatch(m, p, id, key) = tok
        BY <1>2 DEF EncodeBatch
    <2>2. tok \in {y \in {tok} : y.tag = Tag(Secret[n], y.provider, y.upstream, y.owner)}
        OBVIOUS
    <2>3. d = [provider |-> tok.provider, owner |-> tok.owner, upstream |-> tok.upstream]
        OBVIOUS
    <2>4. d \in DecodeBatch(n, tok)
        BY <1>2, <2>2, <2>3 DEF DecodeBatch
    <2> QED
        BY <1>2, <2>1, <2>4
<1> QED
    BY <1>1, <1>2

\* What the fields of a job are.
LEMMA JobFields ==
    ASSUME JobsTyped, NEW j \in DOMAIN jobs
    PROVE  /\ jobs[j] \in Job /\ jobs[j].provider \in Providers /\ jobs[j].id \in Nat
           /\ jobs[j].key \in Keys /\ jobs[j].node \in Nodes /\ jobs[j].spec \in Specs
           /\ jobs[j].lines \in Seq(Lines) /\ jobs[j].key # None /\ jobs[j].id # None
<1>1. jobs[j] \in Job
    BY DEF JobsTyped
<1>2. /\ jobs[j].provider \in Providers /\ jobs[j].id \in Nat
      /\ jobs[j].key \in Keys /\ jobs[j].node \in Nodes /\ jobs[j].spec \in Specs
      /\ jobs[j].lines \in Seq(Lines)
    BY <1>1 DEF Job
<1> QED
    BY <1>1, <1>2, BatchAssumption, NoneAssumption

\* The id of a job reaches that job, from the nodes that share its secret and, if it is signed,
\* for its owner.
LEMMA TargetOf ==
    ASSUME JobsTyped, Numbered, NEW j \in DOMAIN jobs, NEW n \in Nodes, NEW key \in Keys,
           NEW i \in BatchTarget(n, key, Ids[j])
    PROVE  /\ i = j /\ Secret[n] = Secret[jobs[j].node]
           /\ Signed(jobs[j]) => key = jobs[j].key
<1>0. /\ jobs[j].provider \in Providers /\ jobs[j].id \in Nat /\ jobs[j].key \in Keys
      /\ jobs[j].node \in Nodes /\ jobs[j].key # None
    BY JobFields
<1>1. i \in DOMAIN jobs
    BY DEF BatchTarget
<1>2. PICK d \in DecodeBatch(n, Ids[j]) :
          /\ CheckBatchOwner(d, key)
          /\ jobs[i].provider = d.provider /\ jobs[i].id = d.upstream
    BY DEF BatchTarget
<1>3. jobs[i].id # None
    BY <1>1, JobFields
<1>4. /\ Secret[n] = Secret[jobs[j].node] /\ d.provider = jobs[j].provider
      /\ d.upstream = jobs[j].id
      /\ d.owner = IF Secret[jobs[j].node] = None THEN None ELSE jobs[j].key
    BY <1>0, <1>2, <1>3, Decoding DEF Ids
<1>5. i = j
    BY <1>1, <1>2, <1>4 DEF Numbered
<1>6. Signed(jobs[j]) => key = jobs[j].key
    BY <1>0, <1>2, <1>4 DEF Signed, CheckBatchOwner
<1> QED
    BY <1>4, <1>5, <1>6

\* And it does reach it, wherever its provider is registered, for its owner.
LEMMA Reaches ==
    ASSUME JobsTyped, NEW j \in DOMAIN jobs, NEW n \in Nodes,
           Secret[n] = Secret[jobs[j].node], jobs[j].provider \in topo[n].registry
    PROVE  j \in BatchTarget(n, jobs[j].key, Ids[j])
<1>1. jobs[j].node \in Nodes
    BY JobFields
<1>2. PICK d \in DecodeBatch(n, Ids[j]) :
          /\ d.provider = jobs[j].provider /\ d.upstream = jobs[j].id
          /\ d.owner = IF Secret[jobs[j].node] = None THEN None ELSE jobs[j].key
    BY <1>1, Readable DEF Ids
<1> QED
    BY <1>2 DEF BatchTarget, CheckBatchOwner

\* The answer to a call on a job names it as it was named before.
LEMMA SameId ==
    ASSUME JobsTyped, NEW j \in DOMAIN jobs, NEW n \in Nodes, NEW key \in Keys,
           Secret[n] = Secret[jobs[j].node], Signed(jobs[j]) => key = jobs[j].key
    PROVE  EncodeBatch(n, jobs[j].provider, jobs[j].id, key) = Ids[j]
BY DEF Ids, EncodeBatch, Signed

-----------------------------------------------------------------------------
(* Steps: what every one of them leaves of the jobs there are. *)

JobsKept ==
    /\ DOMAIN jobs \subseteq DOMAIN jobs'
    /\ \A j \in DOMAIN jobs :
           /\ jobs'[j].provider = jobs[j].provider /\ jobs'[j].id = jobs[j].id
           /\ jobs'[j].key = jobs[j].key /\ jobs'[j].node = jobs[j].node
           /\ jobs'[j].spec = jobs[j].spec /\ Len(jobs'[j].lines) = Len(jobs[j].lines)

\* An id tells its job's provider and number.
LEMMA IdTells ==
    \A j \in DOMAIN jobs : Ids[j].provider = jobs[j].provider /\ Ids[j].upstream = jobs[j].id
BY DEF Ids, EncodeBatch

\* A job keeps its id.
LEMMA IdKept == JobsKept => \A j \in DOMAIN jobs : Ids'[j] = Ids[j]
BY DEF JobsKept, Ids, EncodeBatch

\* A batch that resolves is one job at one registered provider.
LEMMA ResolvableFacts ==
    ASSUME NEW t \in Topologies, NEW spec \in Specs, Resolvable(t, spec)
    PROVE  LET provider == Primary(t, spec[1].model).provider
           IN /\ provider \in Providers
              /\ {Primary(t, spec[k].model).provider : k \in DOMAIN spec} = {provider}
<1>1. 1 \in DOMAIN spec
    BY BatchAssumption
<1> QED
    BY <1>1, BatchAssumption DEF Resolvable

\* Resolving a batch leaves the custom ids as they are.
LEMMA ResolveFacts ==
    ASSUME NEW t \in Topologies, NEW spec \in Specs, NEW k \in DOMAIN spec
    PROVE  /\ ResolveBatch(t, spec)[k] \in Items
           /\ ResolveBatch(t, spec)[k].custom_id = spec[k].custom_id
<1> DEFINE asked(u, v) == {ResolveBatch(u, v)[l] : l \in DOMAIN v}
<1>1. ResolveBatch(t, spec)[k] \in asked(t, spec)
    OBVIOUS
<1>5. Items = UNION {asked(u, v) : u \in Topologies, v \in Specs}
    BY DEF Items
<1> HIDE DEF asked
<1>4. ResolveBatch(t, spec)[k] \in Items
    BY <1>1, <1>5
<1>2. DOMAIN spec[k] = {"custom_id", "model"}
    BY BatchAssumption
<1>3. ResolveBatch(t, spec)[k].custom_id = spec[k].custom_id
    BY <1>2 DEF ResolveBatch
<1> QED
    BY <1>4, <1>3

\* The job a submission creates.
Created(n, key, spec) ==
    LET provider == Primary(topo[n], spec[1].model).provider
    IN [provider |-> provider, id |-> Cardinality(JobsAt(provider)) + 1,
        key |-> key, node |-> n, spec |-> spec,
        lines |-> [k \in DOMAIN spec |->
                      [item |-> ResolveBatch(topo[n], spec)[k], outcome |-> None]],
        targets |-> {Primary(topo[n], spec[k].model).provider : k \in DOMAIN spec},
        canceling |-> FALSE]

\* The jobs at an upstream are finitely many, so its numbers do not run out.
LEMMA JobsAtFinite ==
    ASSUME JobsTyped, NEW p
    PROVE  IsFiniteSet(JobsAt(p)) /\ Cardinality(JobsAt(p)) \in Nat
<1>1. IsFiniteSet(1..Len(jobs)) /\ JobsAt(p) \subseteq 1..Len(jobs)
    BY FS_Interval DEF JobsTyped, JobsAt
<1>2. IsFiniteSet(JobsAt(p))
    BY <1>1, FS_Subset
<1> QED
    BY <1>2, FS_CardinalityType

\* It is a job, and its lines answer the batch.
LEMMA CreatedFacts ==
    ASSUME JobsTyped, NEW n \in Nodes, NEW key \in Keys, NEW spec \in Specs,
           Resolvable(topo[n], spec)
    PROVE  /\ Created(n, key, spec) \in Job
           /\ Created(n, key, spec).targets = {Created(n, key, spec).provider}
           /\ Len(Created(n, key, spec).lines) = Len(spec)
           /\ \A k \in DOMAIN spec :
                  Created(n, key, spec).lines[k].item.custom_id = spec[k].custom_id
<1> DEFINE provider == Primary(topo[n], spec[1].model).provider
           lines == [k \in DOMAIN spec |->
                        [item |-> ResolveBatch(topo[n], spec)[k], outcome |-> None]]
<1>0. topo[n] \in Topologies
    BY DEF JobsTyped
<1>1. provider \in Providers
      /\ {Primary(topo[n], spec[k].model).provider : k \in DOMAIN spec} = {provider}
    BY <1>0, ResolvableFacts
<1>2. Cardinality(JobsAt(provider)) + 1 \in Nat
    BY JobsAtFinite
<1>3. DOMAIN spec = 1..Len(spec) /\ Len(spec) \in Nat
    BY BatchAssumption
<1>4. \A k \in DOMAIN spec : [item |-> ResolveBatch(topo[n], spec)[k], outcome |-> None] \in Lines
    BY <1>0, ResolveFacts DEF Lines
<1>5. lines \in Seq(Lines) /\ Len(lines) = Len(spec)
    BY <1>3, <1>4
<1>6. \A k \in DOMAIN spec : lines[k].item.custom_id = spec[k].custom_id
    BY <1>0, ResolveFacts
<1> HIDE DEF provider, lines
<1>7. Created(n, key, spec) =
          [provider |-> provider, id |-> Cardinality(JobsAt(provider)) + 1,
           key |-> key, node |-> n, spec |-> spec, lines |-> lines, targets |-> {provider},
           canceling |-> FALSE]
    BY <1>1 DEF Created, provider, lines
<1> QED
    BY <1>1, <1>2, <1>5, <1>6, <1>7 DEF Job

\* Appending a job leaves the others where they are.
LEMMA AppendFacts ==
    ASSUME JobsTyped, NEW job \in Job, jobs' = Append(jobs, job), Len(jobs) < MaxJobs, topo' = topo
    PROVE  /\ JobsTyped'
           /\ DOMAIN jobs' = DOMAIN jobs \cup {Len(jobs) + 1} /\ Len(jobs) + 1 \notin DOMAIN jobs
           /\ jobs'[Len(jobs) + 1] = job /\ \A j \in DOMAIN jobs : jobs'[j] = jobs[j]
           /\ JobsKept
<1>1. jobs \in Seq(Job)
    BY DEF JobsTyped
<1>2. /\ jobs' \in Seq(Job) /\ Len(jobs') = Len(jobs) + 1
      /\ DOMAIN jobs' = DOMAIN jobs \cup {Len(jobs) + 1} /\ Len(jobs) + 1 \notin DOMAIN jobs
      /\ jobs'[Len(jobs) + 1] = job /\ \A j \in DOMAIN jobs : jobs'[j] = jobs[j]
    BY <1>1
<1> QED
    BY <1>2, BatchAssumption DEF JobsTyped, JobsKept

\* A submission adds one job, with the next number of its upstream.
LEMMA CreateStep ==
    ASSUME JobsInv, NEW n \in Nodes, NEW key \in Keys, NEW spec \in Specs, NEW lost \in BOOLEAN,
           CreateBatch(n, key, spec, lost)
    PROVE  JobsInv' /\ JobsKept /\ (Named => Named')
<1> DEFINE job == Created(n, key, spec)
<1>a. PICK new \in Nat : new = Len(jobs) + 1
    BY DEF JobsInv, JobsTyped
<1>b. PICK p : p = Primary(topo[n], spec[1].model).provider
    OBVIOUS
<1>0. JobsTyped /\ Numbered /\ Answering /\ OneProvider
    BY DEF JobsInv
<1>1. /\ Len(jobs) < MaxJobs /\ Authorized(key, spec) /\ Resolvable(topo[n], spec)
      /\ jobs' = Append(jobs, job) /\ topo' = topo
      /\ tokens' = IF lost THEN tokens
                   ELSE tokens \cup {[token |-> EncodeBatch(n, p, Cardinality(JobsAt(p)) + 1, key),
                                      job |-> new]}
    BY <1>a, <1>b DEF CreateBatch, Created, JobsAt
<1>2. /\ job.provider = p /\ job.id = Cardinality(JobsAt(p)) + 1 /\ job.key = key
      /\ job.node = n /\ job.spec = spec
    BY <1>b DEF Created
<1>3. /\ job \in Job /\ job.targets = {job.provider} /\ Len(job.lines) = Len(spec)
      /\ \A k \in DOMAIN spec : job.lines[k].item.custom_id = spec[k].custom_id
    BY <1>0, <1>1, CreatedFacts
<1> HIDE DEF job
<1>4. /\ JobsTyped' /\ JobsKept
      /\ DOMAIN jobs' = DOMAIN jobs \cup {new} /\ new \notin DOMAIN jobs
      /\ jobs'[new] = job /\ \A j \in DOMAIN jobs : jobs'[j] = jobs[j]
    BY <1>a, <1>0, <1>1, <1>3, AppendFacts
<1>5. Answering' /\ OneProvider'
    BY <1>0, <1>1, <1>2, <1>3, <1>4 DEF Answering, OneProvider, Authorized
<1>6. Numbered'
    <2>1. \A q : JobsAt(q)' = IF q = p THEN JobsAt(q) \cup {new} ELSE JobsAt(q)
        BY <1>2, <1>4 DEF JobsAt
    <2>2. \A q : Cardinality(JobsAt(q)) \in Nat /\ IsFiniteSet(JobsAt(q))
        BY <1>0, JobsAtFinite
    <2>8. new \notin JobsAt(p)
        BY <1>4 DEF JobsAt
    <2>3. Cardinality(JobsAt(p) \cup {new}) = Cardinality(JobsAt(p)) + 1
        BY <2>2, <2>8, FS_AddElement
    <2>4. \A q \in Providers : \A j \in JobsAt(q) :
              jobs[j].id \in Nat /\ jobs[j].id <= Cardinality(JobsAt(q))
        BY <1>0, JobFields DEF Numbered, JobsAt
    <2>5. ASSUME NEW q \in Providers, NEW j \in JobsAt(q)'
          PROVE  jobs'[j].id <= Cardinality(JobsAt(q)')
        <3>1. CASE q = p /\ j = new
            <4>1. JobsAt(q)' = JobsAt(p) \cup {new}
                BY <2>1, <3>1
            <4>2. Cardinality(JobsAt(q)') = Cardinality(JobsAt(p)) + 1
                BY <2>3, <4>1
            <4>3. jobs'[j].id = Cardinality(JobsAt(p)) + 1 /\ Cardinality(JobsAt(p)) \in Nat
                BY <1>2, <1>4, <2>2, <3>1
            <4> QED
                BY <4>2, <4>3
        <3>2. CASE q = p /\ j # new
            <4>1. j \in JobsAt(q) /\ jobs'[j] = jobs[j]
                BY <1>4, <2>1, <2>5, <3>2 DEF JobsAt
            <4> QED
                <5>1. Cardinality(JobsAt(q)') = Cardinality(JobsAt(q)) + 1
                    BY <2>1, <2>3, <3>2
                <5>2. Cardinality(JobsAt(q)) \in Nat /\ jobs[j].id \in Nat
                      /\ jobs[j].id <= Cardinality(JobsAt(q))
                    BY <2>2, <2>4, <4>1
                <5> QED
                    BY <4>1, <5>1, <5>2
        <3>3. CASE q # p
            <4>1. j \in JobsAt(q) /\ jobs'[j] = jobs[j] /\ JobsAt(q)' = JobsAt(q)
                BY <1>4, <2>1, <2>5, <3>3 DEF JobsAt
            <4> QED
                BY <2>4, <4>1
        <3> QED
            BY <3>1, <3>2, <3>3
    <2>6. \A j \in DOMAIN jobs : jobs[j].provider = p => jobs[j].id # job.id
        <3>1. \A j \in JobsAt(p) : jobs[j].id # job.id
            BY <1>2, <1>3, <2>2, <2>4 DEF Job
        <3> QED
            BY <3>1 DEF JobsAt
    <2>7. \A i, j \in DOMAIN jobs' :
              jobs'[i].provider = jobs'[j].provider /\ jobs'[i].id = jobs'[j].id => i = j
        BY <1>0, <1>2, <1>4, <2>6 DEF Numbered
    <2> QED
        BY <2>5, <2>7 DEF Numbered
<1>7. ASSUME Named
      PROVE  Named'
    <2>1. \A j \in DOMAIN jobs : Ids'[j] = Ids[j]
        BY <1>4, IdKept
    <2>2. Ids'[new] = EncodeBatch(n, p, Cardinality(JobsAt(p)) + 1, key)
        BY <1>2, <1>4 DEF Ids, EncodeBatch
    <2>3. \A t \in tokens : t.job \in DOMAIN jobs' /\ t = [token |-> Ids'[t.job], job |-> t.job]
        BY <1>4, <1>7, <2>1 DEF Named
    <2>4. new \in DOMAIN jobs'
        BY <1>4
    <2> QED
        BY <1>1, <2>2, <2>3, <2>4 DEF Named
<1> QED
    BY <1>4, <1>5, <1>6, <1>7 DEF JobsInv

\* A change to one job that touches only its outcomes and its state leaves all else.
LEMMA OneJobStep ==
    ASSUME JobsInv, NEW j \in DOMAIN jobs, NEW job \in Job, topo' = topo,
           jobs' = [jobs EXCEPT ![j] = job],
           job.provider = jobs[j].provider, job.id = jobs[j].id, job.key = jobs[j].key,
           job.node = jobs[j].node, job.spec = jobs[j].spec, job.targets = jobs[j].targets,
           Len(job.lines) = Len(jobs[j].lines),
           \A k \in DOMAIN jobs[j].spec : job.lines[k].item = jobs[j].lines[k].item
    PROVE  JobsInv' /\ JobsKept
<1>0. JobsTyped /\ Numbered /\ Answering /\ OneProvider /\ jobs \in Seq(Job)
    BY DEF JobsInv, JobsTyped
<1>1. /\ jobs' \in Seq(Job) /\ Len(jobs') = Len(jobs) /\ DOMAIN jobs' = DOMAIN jobs
      /\ jobs'[j] = job /\ \A i \in DOMAIN jobs : i # j => jobs'[i] = jobs[i]
    BY <1>0
<1>2. JobsTyped' /\ JobsKept
    BY <1>0, <1>1 DEF JobsTyped, JobsKept
<1>3. \A q : JobsAt(q)' = JobsAt(q)
    BY <1>1 DEF JobsAt
<1>4. Numbered'
    BY <1>0, <1>1, <1>3 DEF Numbered
<1>5. Answering' /\ OneProvider'
    BY <1>0, <1>1, SMTT(30) DEF Answering, OneProvider
<1> QED
    BY <1>2, <1>4, <1>5 DEF JobsInv

\* Cancelling.
LEMMA CancelStep ==
    ASSUME JobsInv, NEW j \in DOMAIN jobs, topo' = topo,
           jobs' = [jobs EXCEPT ![j].canceling = ~Ended(jobs[j])]
    PROVE  JobsInv' /\ JobsKept
<1> DEFINE job == [jobs[j] EXCEPT !.canceling = ~Ended(jobs[j])]
<1>1. jobs[j] \in Job
    BY JobFields DEF JobsInv
<1>2. /\ job \in Job
      /\ job.provider = jobs[j].provider /\ job.id = jobs[j].id /\ job.key = jobs[j].key
      /\ job.node = jobs[j].node /\ job.spec = jobs[j].spec /\ job.targets = jobs[j].targets
      /\ job.lines = jobs[j].lines
    BY <1>1 DEF Job, Ended
<1>3. jobs' = [jobs EXCEPT ![j] = job]
    OBVIOUS
<1> HIDE DEF job
<1> QED
    BY <1>2, <1>3, OneJobStep

\* A line settled at the upstream.
LEMMA WorkStep ==
    ASSUME JobsInv, NEW j \in DOMAIN jobs, NEW k \in DOMAIN jobs[j].lines, NEW outcome \in Outcomes,
           Work(j, k, outcome)
    PROVE  JobsInv' /\ JobsKept
<1> DEFINE settled == [jobs[j] EXCEPT !.lines[k].outcome = outcome]
           job == [settled EXCEPT !.canceling = @ /\ ~Ended(settled)]
           lines == [jobs[j].lines EXCEPT ![k] = [jobs[j].lines[k] EXCEPT !.outcome = outcome]]
<1>1. jobs[j] \in Job /\ jobs[j].lines \in Seq(Lines)
    BY JobFields DEF JobsInv
<1>2. jobs[j].lines[k] \in Lines
    BY <1>1
<1>3. [jobs[j].lines[k] EXCEPT !.outcome = outcome] \in Lines
      /\ [jobs[j].lines[k] EXCEPT !.outcome = outcome].item = jobs[j].lines[k].item
    BY <1>2 DEF Lines
<1>4. /\ lines \in Seq(Lines) /\ Len(lines) = Len(jobs[j].lines)
      /\ \A i \in DOMAIN jobs[j].lines : lines[i].item = jobs[j].lines[i].item
    BY <1>1, <1>3
<1>5. settled = [jobs[j] EXCEPT !.lines = lines]
    BY <1>1 DEF Job
<1> HIDE DEF lines, settled
<1>6. /\ settled \in Job
      /\ settled.provider = jobs[j].provider /\ settled.id = jobs[j].id /\ settled.key = jobs[j].key
      /\ settled.node = jobs[j].node /\ settled.spec = jobs[j].spec
      /\ settled.targets = jobs[j].targets /\ settled.lines = lines
    BY <1>1, <1>4, <1>5 DEF Job
<1>7. /\ job \in Job
      /\ job.provider = jobs[j].provider /\ job.id = jobs[j].id /\ job.key = jobs[j].key
      /\ job.node = jobs[j].node /\ job.spec = jobs[j].spec /\ job.targets = jobs[j].targets
      /\ job.lines = lines
    BY <1>6 DEF Job, Ended
<1>8. jobs' = [jobs EXCEPT ![j] = job] /\ topo' = topo
    BY DEF Work, settled
<1> HIDE DEF job
<1>9. DOMAIN jobs[j].spec = DOMAIN jobs[j].lines
    BY <1>1, JobFields, BatchAssumption DEF JobsInv, Answering
<1> QED
    BY <1>4, <1>7, <1>8, <1>9, OneJobStep

-----------------------------------------------------------------------------
(* Preservation. *)

\* A topology installed on a node changes no job.
LEMMA InstallStep ==
    ASSUME JobsInv, NEW n \in Nodes, NEW t \in Topologies, InstallTopology(n, t)
    PROVE  JobsInv' /\ JobsKept
<1>1. JobsTyped' /\ JobsKept
    BY DEF InstallTopology, JobsInv, JobsTyped, JobsKept
<1>2. Numbered' /\ Answering' /\ OneProvider'
    BY DEF InstallTopology, JobsInv, Numbered, Answering, OneProvider, JobsAt
<1> QED
    BY <1>1, <1>2 DEF JobsInv

\* A step that leaves jobs and topologies leaves what is said of them.
LEMMA JobsStutter ==
    ASSUME JobsInv, jobs' = jobs, topo' = topo
    PROVE  JobsInv' /\ JobsKept
BY DEF JobsInv, JobsTyped, Numbered, Answering, OneProvider, JobsAt, JobsKept

\* Every step leaves the jobs in order and the ids they have.
LEMMA JobsStep ==
    ASSUME BatchInv, [Next]_vars
    PROVE  JobsInv' /\ JobsKept
<1>0. JobsInv /\ Named
    BY DEF BatchInv
<1>1. ASSUME NEW n \in Nodes, NEW key \in Keys, NEW spec \in Specs, NEW lost \in BOOLEAN,
             CreateBatch(n, key, spec, lost)
      PROVE  JobsInv' /\ JobsKept
    BY <1>0, <1>1, CreateStep
<1>2. ASSUME NEW n \in Nodes, NEW key \in Keys, NEW t \in tokens, BatchCancel(n, key, t)
      PROVE  JobsInv' /\ JobsKept
    BY <1>0, <1>2, CancelStep DEF BatchCancel, BatchTarget
<1>3. ASSUME NEW j \in DOMAIN jobs, NEW outcome \in Outcomes, NEW k \in DOMAIN jobs[j].lines,
             Work(j, k, outcome)
      PROVE  JobsInv' /\ JobsKept
    BY <1>0, <1>3, WorkStep
<1>4. ASSUME NEW n \in Nodes, NEW t \in Topologies, InstallTopology(n, t)
      PROVE  JobsInv' /\ JobsKept
    BY <1>0, <1>4, InstallStep
<1>5. ASSUME jobs' = jobs, topo' = topo
      PROVE  JobsInv' /\ JobsKept
    BY <1>0, <1>5, JobsStutter
<1> QED
    BY <1>1, <1>2, <1>3, <1>4, <1>5
    DEF Next, BatchRetrieve, BatchResults, NextLine, StopStream, vars

\* An answer hands out no second id.
LEMMA AnswerFacts ==
    ASSUME BatchInv, NEW n \in Nodes, NEW key \in Keys, NEW t \in tokens,
           NEW j \in BatchTarget(n, key, t.token)
    PROVE  /\ j = t.job /\ j \in DOMAIN jobs /\ t.token = Ids[j]
           /\ EncodeBatch(n, jobs[j].provider, jobs[j].id, key) = Ids[j]
<1>0. JobsTyped /\ Numbered /\ Named
    BY DEF BatchInv, JobsInv
<1>1. t.job \in DOMAIN jobs /\ t.token = Ids[t.job]
    BY <1>0 DEF Named
<1>2. /\ j = t.job /\ Secret[n] = Secret[jobs[j].node]
      /\ Signed(jobs[j]) => key = jobs[j].key
    BY <1>0, <1>1, TargetOf
<1> QED
    BY <1>0, <1>1, <1>2, SameId

\* Every id that is out names its job.
LEMMA NamedStep == BatchInv /\ [Next]_vars => Named'
<1> SUFFICES ASSUME BatchInv, [Next]_vars
             PROVE  Named'
    OBVIOUS
<1>0. JobsInv /\ Named /\ JobsKept
    BY JobsStep DEF BatchInv
<1>1. \A j \in DOMAIN jobs : j \in DOMAIN jobs' /\ Ids'[j] = Ids[j]
    BY <1>0, IdKept DEF JobsKept
<1>2. ASSUME NEW n \in Nodes, NEW key \in Keys, NEW spec \in Specs, NEW lost \in BOOLEAN,
             CreateBatch(n, key, spec, lost)
      PROVE  Named'
    BY <1>0, <1>2, CreateStep
<1>3. ASSUME NEW n \in Nodes, NEW key \in Keys, NEW t \in tokens,
             NEW j \in BatchTarget(n, key, t.token), Answer(n, key, j)
      PROVE  Named'
    <2>1. j \in DOMAIN jobs /\ tokens' = tokens \cup {[token |-> Ids[j], job |-> j]}
        BY <1>3, AnswerFacts DEF Answer
    <2> QED
        BY <1>0, <1>1, <2>1 DEF Named
<1>4. ASSUME tokens' = tokens
      PROVE  Named'
    BY <1>0, <1>1, <1>4 DEF Named
<1> QED
    BY <1>2, <1>3, <1>4
    DEF Next, vars, BatchRetrieve, BatchCancel, BatchResults, NextLine, StopStream, Work,
        InstallTopology

\* The streams that are open stay what they are.
LEMMA StreamsKept ==
    ASSUME BatchInv, JobsKept
    PROVE  /\ streams \in Seq(Stream')
           /\ \A k \in DOMAIN streams :
                  /\ streams[k].job \in DOMAIN jobs' /\ streams[k].batch_id = Ids'[streams[k].job]
                  /\ streams[k].next \in 1..(Len(jobs'[streams[k].job].lines) + 1)
<1>a. streams \in Seq(Stream) /\ Streaming
    BY DEF BatchInv, Streaming
<1>b. \A k \in DOMAIN streams : streams[k] \in Stream
    BY <1>a
<1>0. \A k \in DOMAIN streams : streams[k].job \in DOMAIN jobs
    BY <1>b DEF Stream
<1>1. \A j \in DOMAIN jobs : j \in DOMAIN jobs' /\ Ids'[j] = Ids[j]
                             /\ Len(jobs'[j].lines) = Len(jobs[j].lines)
    BY IdKept DEF JobsKept
<1>2. Stream \subseteq Stream'
    BY <1>1 DEF Stream
<1>3. streams \in Seq(Stream')
    BY <1>a, <1>2
<1>4. \A k \in DOMAIN streams :
          /\ streams[k].batch_id = Ids[streams[k].job]
          /\ streams[k].next \in 1..(Len(jobs[streams[k].job].lines) + 1)
    BY <1>a DEF Streaming
<1> QED
    BY <1>0, <1>1, <1>3, <1>4

\* A stream that moves on.
LEMMA MoveStep ==
    ASSUME BatchInv, JobsKept, NEW k \in DOMAIN streams,
           NEW next \in 1..(Len(jobs[streams[k].job].lines) + 1),
           streams' = [streams EXCEPT ![k].next = next]
    PROVE  Streaming'
<1>0. streams \in Seq(Stream) /\ Len(streams) <= MaxStreams /\ streams[k] \in Stream
    BY DEF BatchInv, Streaming
<1>1. /\ streams \in Seq(Stream')
      /\ \A i \in DOMAIN streams :
             /\ streams[i].job \in DOMAIN jobs' /\ streams[i].batch_id = Ids'[streams[i].job]
             /\ streams[i].next \in 1..(Len(jobs'[streams[i].job].lines) + 1)
    BY StreamsKept
<1>2. JobsTyped /\ streams[k].job \in DOMAIN jobs
    BY <1>0 DEF BatchInv, JobsInv, Stream
<1>3. Len(jobs[streams[k].job].lines) \in Nat
    BY <1>2, JobFields
<1>4. next \in Nat /\ next \in 1..(Len(jobs'[streams[k].job].lines) + 1)
    BY <1>2, <1>3 DEF JobsKept
<1> DEFINE moved == [streams[k] EXCEPT !.next = next]
<1>5. moved \in Stream' /\ moved.job = streams[k].job /\ moved.batch_id = streams[k].batch_id
      /\ moved.next = next
    <2>1. streams[k] \in Stream'
        BY <1>1
    <2> QED
        BY <1>4, <2>1 DEF Stream
<1>6. streams' = [streams EXCEPT ![k] = moved]
    OBVIOUS
<1> HIDE DEF moved
<1>7. /\ streams' \in Seq(Stream') /\ Len(streams') = Len(streams)
      /\ DOMAIN streams' = DOMAIN streams /\ streams'[k] = moved
      /\ \A i \in DOMAIN streams : i # k => streams'[i] = streams[i]
    <2>1. streams \in Seq(Stream') /\ moved \in Stream'
        BY <1>1, <1>5
    <2> HIDE DEF Stream
    <2>2. streams' \in Seq(Stream') /\ Len(streams') = Len(streams)
        BY <1>6, <2>1
    <2>3. DOMAIN streams' = DOMAIN streams /\ streams'[k] = moved
        BY <1>6
    <2>4. \A i \in DOMAIN streams : i # k => streams'[i] = streams[i]
        BY <1>6
    <2> QED
        BY <2>2, <2>3, <2>4
<1> QED
    BY <1>0, <1>1, <1>4, <1>5, <1>7 DEF Streaming

\* Every stream carries the id of its job.
LEMMA StreamStep == BatchInv /\ [Next]_vars => Streaming'
<1> SUFFICES ASSUME BatchInv, [Next]_vars
             PROVE  Streaming'
    OBVIOUS
<1>0. JobsInv /\ Named /\ Streaming /\ JobsKept /\ JobsTyped
    BY JobsStep DEF BatchInv, JobsInv
<1>1. /\ streams \in Seq(Stream')
      /\ \A i \in DOMAIN streams :
             /\ streams[i].job \in DOMAIN jobs' /\ streams[i].batch_id = Ids'[streams[i].job]
             /\ streams[i].next \in 1..(Len(jobs'[streams[i].job].lines) + 1)
    BY <1>0, StreamsKept
<1>2. ASSUME NEW n \in Nodes, NEW key \in Keys, NEW t \in tokens, BatchResults(n, key, t)
      PROVE  Streaming'
    <2>1. PICK j \in BatchTarget(n, key, t.token) :
              /\ streams' = Append(streams, [batch_id |-> t.token, key |-> key, job |-> j,
                                             next |-> 1])
              /\ UNCHANGED jobs
        BY <1>2 DEF BatchResults
    <2> DEFINE s == [batch_id |-> t.token, key |-> key, job |-> j, next |-> 1]
    <2>2. j \in DOMAIN jobs /\ t.token = Ids[j] /\ jobs' = jobs
        BY <2>1, AnswerFacts
    <2>3. Ids'[j] = Ids[j] /\ j \in DOMAIN jobs'
        BY <1>0, <2>2, IdKept
    <2>4. s \in Stream' /\ s.job = j /\ s.batch_id = Ids'[j] /\ s.next = 1
        BY <2>2, <2>3 DEF Stream
    <2>5. Len(jobs'[j].lines) \in Nat
        BY <1>0, <2>2, JobFields
    <2>6. Len(streams) < MaxStreams /\ Len(streams) \in Nat
        BY <1>0, <1>2 DEF BatchResults, Streaming
    <2> HIDE DEF s
    <2>7. /\ streams' \in Seq(Stream') /\ Len(streams') = Len(streams) + 1
          /\ DOMAIN streams' = DOMAIN streams \cup {Len(streams) + 1}
          /\ streams'[Len(streams) + 1] = s /\ \A i \in DOMAIN streams : streams'[i] = streams[i]
        BY <1>1, <2>1, <2>4 DEF s
    <2>8. \A i \in DOMAIN streams' :
             /\ streams'[i].batch_id = Ids'[streams'[i].job]
             /\ streams'[i].next \in 1..(Len(jobs'[streams'[i].job].lines) + 1)
        BY <1>1, <2>4, <2>5, <2>7
    <2>9. Len(streams') <= MaxStreams
        BY <2>6, <2>7, BatchAssumption
    <2> QED
        BY <2>7, <2>8, <2>9 DEF Streaming
<1>3. ASSUME NEW k \in DOMAIN streams, NextLine(k) \/ StopStream(k)
      PROVE  Streaming'
    <2>0. streams[k] \in Stream /\ streams[k].next \in 1..(Len(jobs[streams[k].job].lines) + 1)
        BY <1>0 DEF Streaming
    <2>1. streams[k].job \in DOMAIN jobs
        BY <2>0 DEF Stream
    <2>2. Len(jobs[streams[k].job].lines) \in Nat
        BY <1>0, <2>1, JobFields
    <2>3. CASE NextLine(k)
        <3>1. /\ streams[k].next + 1 \in 1..(Len(jobs[streams[k].job].lines) + 1)
              /\ streams' = [streams EXCEPT ![k].next = streams[k].next + 1]
            BY <2>0, <2>2, <2>3 DEF NextLine, Advance
        <3> QED
            BY <1>0, <3>1, MoveStep
    <2>4. CASE StopStream(k)
        <3>1. /\ Len(jobs[streams[k].job].lines) + 1 \in 1..(Len(jobs[streams[k].job].lines) + 1)
              /\ streams' = [streams EXCEPT ![k].next = Len(jobs[streams[k].job].lines) + 1]
            BY <2>2, <2>4 DEF StopStream
        <3> QED
            BY <1>0, <3>1, MoveStep
    <2> QED
        BY <1>3, <2>3, <2>4
<1>4. ASSUME streams' = streams
      PROVE  Streaming'
    BY <1>0, <1>1, <1>4 DEF Streaming
<1> QED
    BY <1>2, <1>3, <1>4, ZenonT(30)
    DEF Next, vars, CreateBatch, BatchRetrieve, BatchCancel, Work, InstallTopology

\* Every row carries the id of its line.
LEMMA StoredStep == BatchInv /\ [Next]_vars => Stored'
<1> SUFFICES ASSUME BatchInv, [Next]_vars
             PROVE  Stored'
    OBVIOUS
<1>0. JobsInv /\ Streaming /\ Stored /\ JobsKept /\ JobsTyped /\ JobsInv'
    BY JobsStep DEF BatchInv, JobsInv
<1>1. \A j \in DOMAIN jobs :
          /\ j \in DOMAIN jobs' /\ Ids'[j] = Ids[j] /\ jobs'[j].spec = jobs[j].spec
          /\ DOMAIN jobs[j].lines = DOMAIN jobs'[j].lines
    <2>1. \A j \in DOMAIN jobs : /\ j \in DOMAIN jobs' /\ Ids'[j] = Ids[j]
                                 /\ jobs'[j].spec = jobs[j].spec
                                 /\ Len(jobs'[j].lines) = Len(jobs[j].lines)
        BY <1>0, IdKept DEF JobsKept
    <2>2. \A j \in DOMAIN jobs : jobs[j].lines \in Seq(Lines) /\ jobs'[j].lines \in Seq(Lines)
        <3>1. \A j \in DOMAIN jobs : jobs[j] \in Job /\ jobs'[j] \in Job
            BY <1>0, <2>1 DEF JobsInv, JobsTyped
        <3> QED
            BY <3>1 DEF Job
    <2> QED
        BY <2>1, <2>2
<1>2. ASSUME NEW e \in rows
      PROVE  /\ e.job \in DOMAIN jobs' /\ e.line \in DOMAIN jobs'[e.job].lines
             /\ e.id = <<Ids'[e.job], jobs'[e.job].spec[e.line].custom_id>>
    BY <1>0, <1>1 DEF Stored
<1>3. ASSUME NEW k \in DOMAIN streams, NextLine(k)
      PROVE  Stored'
    <2> DEFINE j == streams[k].job
               l == streams[k].next
               e == [job |-> j, line |-> l, id |-> UsageId(streams[k], jobs[j].lines[l])]
    <2>1. /\ streams[k] \in Stream /\ l \in 1..(Len(jobs[j].lines) + 1)
          /\ streams[k].batch_id = Ids[j]
        BY <1>0 DEF Streaming
    <2>2. j \in DOMAIN jobs /\ l \in Nat
        BY <2>1 DEF Stream
    <2>3. jobs[j].lines \in Seq(Lines) /\ jobs[j].spec \in Specs
        BY <1>0, <2>2, JobFields
    <2>4. l \in 1..Len(jobs[j].lines) /\ rows' \subseteq rows \cup {e}
        BY <1>3, <2>1, <2>3 DEF NextLine
    <2>5. l \in DOMAIN jobs[j].lines /\ l \in DOMAIN jobs[j].spec
        BY <1>0, <2>2, <2>3, <2>4, BatchAssumption DEF JobsInv, Answering
    <2>6. e.id = <<Ids[j], jobs[j].spec[l].custom_id>>
        BY <1>0, <2>1, <2>2, <2>5 DEF UsageId, JobsInv, Answering
    <2>7. e.job \in DOMAIN jobs' /\ e.line \in DOMAIN jobs'[e.job].lines
          /\ e.id = <<Ids'[e.job], jobs'[e.job].spec[e.line].custom_id>>
        BY <1>1, <2>2, <2>5, <2>6
    <2> HIDE DEF e
    <2> QED
        BY <1>2, <2>4, <2>7 DEF Stored
<1>4. ASSUME rows' = rows
      PROVE  Stored'
    BY <1>2, <1>4 DEF Stored
<1> QED
    BY <1>3, <1>4, ZenonT(30)
    DEF Next, vars, CreateBatch, BatchRetrieve, BatchCancel, BatchResults, StopStream, Work,
        InstallTopology

\* At first there is no job, no id, no stream and no row.
LEMMA InitInv == Init => BatchInv
<1> SUFFICES ASSUME Init
             PROVE  BatchInv
    OBVIOUS
<1>1. DOMAIN jobs = {} /\ DOMAIN streams = {} /\ Len(jobs) = 0 /\ Len(streams) = 0
    BY DEF Init
<1>2. JobsTyped /\ streams \in Seq(Stream) /\ Len(streams) <= MaxStreams
    BY BatchAssumption DEF Init, JobsTyped
<1> QED
    BY <1>1, <1>2
    DEF Init, BatchInv, JobsInv, Numbered, JobsAt, Answering, OneProvider, Named, Streaming, Stored

\* The invariant behind the theorems: jobs in order, and every id, stream and row with the one id
\* of its job.
LEMMA Invariance == Spec => []BatchInv
<1>1. BatchInv /\ [Next]_vars => BatchInv'
    BY JobsStep, NamedStep, StreamStep, StoredStep DEF BatchInv
<1> QED
    BY <1>1, InitInv, PTL DEF Spec

-----------------------------------------------------------------------------
(* The theorems. *)

\* Ids, streams and rows refer to jobs that exist.
THEOREM TypeCorrect == Spec => []TypeOK
<1>1. BatchInv => TypeOK
    <2> SUFFICES ASSUME BatchInv
                 PROVE  TypeOK
        OBVIOUS
    <2>1. JobsTyped /\ Named /\ Streaming /\ Stored
        BY DEF BatchInv, JobsInv
    <2>2. topo \in [Nodes -> Topologies] /\ Len(jobs) <= MaxJobs /\ Len(streams) <= MaxStreams
        BY <2>1 DEF JobsTyped, Streaming
    <2> QED
        BY <2>1, <2>2 DEF TypeOK, Named, Streaming, Stored
<1> QED
    BY <1>1, Invariance, PTL

\* A signed batch id is good for the key that created the batch and for no other: a tag that a
\* node accepts was made by a node with its secret, over the owner it names (batch_id.rs,
\* check_batch_owner).
THEOREM OwnersOnly == Spec => []OwnerOnly
<1>1. BatchInv => OwnerOnly
    <2> SUFFICES ASSUME BatchInv, NEW t \in tokens, NEW n \in Nodes, NEW key \in Keys,
                        NEW j \in BatchTarget(n, key, t.token), Signed(jobs[j])
                 PROVE  key = jobs[j].key
        BY DEF OwnerOnly
    <2>1. JobsTyped /\ Numbered /\ t.job \in DOMAIN jobs /\ t.token = Ids[t.job]
        BY DEF BatchInv, JobsInv, Named
    <2> QED
        BY <2>1, TargetOf
<1> QED
    BY <1>1, Invariance, PTL

\* An id reaches its own job and no other, from every node that shares the secret and runs the
\* provider, and is the only id of that job (engine.rs, decode_batch_target).
THEOREM ServedAnywhere == Spec => []AnyNode
<1>1. BatchInv => AnyNode
    <2> SUFFICES ASSUME BatchInv
                 PROVE  AnyNode
        OBVIOUS
    <2>0. JobsTyped /\ Numbered /\ Named
        BY DEF BatchInv, JobsInv
    <2>1. ASSUME NEW t \in tokens, NEW n \in Nodes, NEW key \in Keys
          PROVE  BatchTarget(n, key, t.token) \subseteq {t.job}
        BY AnswerFacts
    <2>2. ASSUME NEW t \in tokens, NEW n \in Nodes, Secret[n] = Secret[jobs[t.job].node],
                 jobs[t.job].provider \in topo[n].registry
          PROVE  BatchTarget(n, jobs[t.job].key, t.token) = {t.job}
        <3>1. t.job \in DOMAIN jobs /\ t.token = Ids[t.job]
            BY <2>0 DEF Named
        <3>2. jobs[t.job].key \in Keys
            BY <2>0, <3>1, JobFields
        <3>3. t.job \in BatchTarget(n, jobs[t.job].key, t.token)
            BY <2>0, <2>2, <3>1, Reaches
        <3> QED
            BY <2>1, <3>2, <3>3
    <2>3. \A s, t \in tokens : s.job = t.job => s = t
        BY <2>0 DEF Named
    <2> QED
        BY <2>1, <2>2, <2>3 DEF AnyNode
<1> QED
    BY <1>1, Invariance, PTL

\* A batch is one job at one provider, whose key may use every model in it (engine.rs,
\* create_batch and resolve_batch).
THEOREM OneProviderEach == Spec => []OneProvider
<1>1. BatchInv => OneProvider
    BY DEF BatchInv, JobsInv
<1> QED
    BY <1>1, Invariance, PTL

\* No two lines of a batch have the same custom id. The upstreams' rule; a node does not check it.
DistinctIds ==
    \A spec \in Specs : \A k, l \in DOMAIN spec : spec[k].custom_id = spec[l].custom_id => k = l

\* The events of one line carry one id, however often it is fetched, and those of two lines
\* different ones, as long as the lines of a batch are told apart by their custom ids
\* (engine.rs, instrument_batch: "<batch-id>:<custom-id>").
THEOREM UsageOnce ==
    ASSUME DistinctIds
    PROVE  Spec => []UsagePerLine
<1>1. BatchInv => UsagePerLine
    <2> SUFFICES ASSUME BatchInv, NEW e \in rows, NEW f \in rows
                 PROVE  (e.id = f.id) = (e.job = f.job /\ e.line = f.line)
        BY DEF UsagePerLine
    <2>0. JobsTyped /\ Numbered /\ Answering
        BY DEF BatchInv, JobsInv
    <2>1. ASSUME NEW g \in rows
          PROVE  /\ g.job \in DOMAIN jobs /\ g.line \in DOMAIN jobs[g.job].spec
                 /\ g.id = <<Ids[g.job], jobs[g.job].spec[g.line].custom_id>>
                 /\ jobs[g.job].spec \in Specs
        <3>1. /\ g.job \in DOMAIN jobs /\ g.line \in DOMAIN jobs[g.job].lines
              /\ g.id = <<Ids[g.job], jobs[g.job].spec[g.line].custom_id>>
            BY DEF BatchInv, Stored
        <3>2. jobs[g.job].lines \in Seq(Lines) /\ jobs[g.job].spec \in Specs
            BY <2>0, <3>1, JobFields
        <3>3. DOMAIN jobs[g.job].spec = DOMAIN jobs[g.job].lines
            BY <2>0, <3>1, <3>2, BatchAssumption DEF Answering
        <3> QED
            BY <3>1, <3>2, <3>3
    <2>2. ASSUME e.id = f.id
          PROVE  e.job = f.job /\ e.line = f.line
        <3>1. Ids[e.job] = Ids[f.job]
              /\ jobs[e.job].spec[e.line].custom_id = jobs[f.job].spec[f.line].custom_id
            BY <2>1, <2>2
        <3>2. jobs[e.job].provider = jobs[f.job].provider /\ jobs[e.job].id = jobs[f.job].id
            BY <2>1, <3>1, IdTells
        <3>3. e.job = f.job
            BY <2>0, <2>1, <3>2 DEF Numbered
        <3> QED
            BY <2>1, <3>1, <3>3 DEF DistinctIds
    <2>3. ASSUME e.job = f.job, e.line = f.line
          PROVE  e.id = f.id
        BY <2>1, <2>3
    <2> QED
        BY <2>2, <2>3
<1> QED
    BY <1>1, Invariance, PTL

-----------------------------------------------------------------------------
(***************************************************************************)
(* A batch as its consumer sees it: BatchRelay for every upstream API,     *)
(* number of requests and models asked for, with and without a second node *)
(* in between.  The invariant says that the lines a fetch has left are     *)
(* those of the requests with something to tell and no answer yet, which   *)
(* holds since an ended batch changes no more.                             *)
(***************************************************************************)
CONSTANTS Flavors, BatchModels, MaxRequests, Between
VARIABLES job, seen, fetch

BR == INSTANCE BatchRelay

-----------------------------------------------------------------------------
(* A batch behind its upstream's words. *)

\* The stages and outcomes of a batch; the last two outcomes are known to files only.
Stages == BR!EndStages \cup {"validating", "in_progress", "finalizing", "canceling"}
FileOnly == {"rejected", "dropped"}
Settlements == {None, "succeeded", "errored", "expired", "canceled"} \cup FileOnly
OutcomeWords == {"succeeded", "errored", "expired", "canceled"}

\* What a consumer hears of a request.
Answered == [id : Nat, outcome : OutcomeWords, detail : {None} \cup Nat \cup BatchModels]

Jobs ==
    [flavor : Flavors, between : Between, asked : BR!Batches, stage : Stages, ran : BR!Batches,
     outcome : UNION {[1..n -> Settlements] : n \in 1..MaxRequests}]

\* What the proofs assume of the constants: None is no batch and nothing that a line may hold.
RelayAssumption ==
    /\ Flavors \subseteq {"openai", "qianfan", "mistral", "anthropic", "gemini"}
    /\ Between \subseteq {0, 1} /\ MaxRequests \in Nat
    /\ None \notin Nat /\ None \notin OutcomeWords \cup FileOnly /\ None \notin Jobs
    /\ \A code \in {"errored", "expired", "canceled"}, status \in Nat : None # BR!Error(code, status)
    /\ \A status \in Nat, model \in BatchModels : None # BR!Response(status, model)
    /\ \A status \in Nat : None # BR!Response(status, None)

\* A batch runs each request on its model; only files know a bad response or a dropped request.
JobTyped(j) ==
    /\ j \in Jobs
    /\ j.flavor \in Flavors /\ j.between \in Between /\ j.asked \in BR!Batches
    /\ j.stage \in Stages /\ j.ran = BR!ModelsRun(j.flavor, j.asked)
    /\ j.outcome \in [DOMAIN j.asked -> Settlements]
    /\ j.flavor \notin BR!FileBased => \A k \in DOMAIN j.asked : j.outcome[k] \notin FileOnly

Fetches ==
    [state : {"none", "refused", "open", "over", "failed"}, lines : Seq(Nat), early : BOOLEAN,
     read : Seq(Answered), heard : Seq(Answered), swallowed : BOOLEAN]

\* Nothing is heard of a fetch that was refused; one that ended left no line.
FetchTyped(f) ==
    /\ f \in Fetches /\ f.read = f.heard
    /\ f.state \in {"none", "refused"} => f.heard = <<>>
    /\ f.state = "open" => ~f.swallowed
    /\ f.state = "over" /\ ~f.swallowed => f.lines = <<>>

\* Nothing is shown or fetched before there is a batch.
BatchTyped ==
    /\ job = None => seen = None /\ fetch.state = "none"
    /\ job # None => JobTyped(job)
    /\ FetchTyped(fetch)

\* What was shown is what the upstream's own node reads, and true.
ShownTrue ==
    seen # None =>
        /\ seen.handle = seen.read
        /\ \/ job.flavor = "gemini" /\ seen.handle.status = "canceling"
           \/ seen.handle.status \in BR!EndStages <=> seen.ended
        /\ seen.ended \in BOOLEAN

\* The requests with something to tell.
Due(k) == job.outcome[k] \notin {None, "dropped"}

\* A sequence that names each member of a set once.
Lists(lines, S) ==
    /\ lines \in Seq(S)
    /\ \A k \in S : \E i \in 1..Len(lines) : lines[i] = k
    /\ \A i, j \in 1..Len(lines) : lines[i] = lines[j] => i = j

\* The lines that are left are of the requests without an answer yet; an answer is the one
\* expected.
Fetching ==
    fetch.state \in {"open", "over"} /\ ~fetch.swallowed =>
        IF fetch.early THEN fetch.lines = <<>>
        ELSE /\ BR!Ended
             /\ Lists(fetch.lines, {k \in DOMAIN job.asked : Due(k) /\ BR!Answers(k) = {}})
             /\ \A k \in DOMAIN job.asked : \A i, j \in BR!Answers(k) :
                   i = j /\ BR!Expected(k) = <<fetch.heard[i]>>

\* The inductive invariant.
RelayInv == BatchTyped /\ ShownTrue /\ Fetching

-----------------------------------------------------------------------------
(* Status words and counts. *)

\* Each table reads a stage as ended exactly when it is.
LEMMA WordsRead ==
    ASSUME NEW stage \in Stages
    PROVE  /\ BR!AnthropicStatus(BR!Word("anthropic", stage)) \in Stages
           /\ BR!AnthropicStatus(BR!Word("anthropic", stage)) \in BR!EndStages
                 <=> stage \in BR!EndStages
           /\ BR!MapGeminiBatchState(BR!Word("gemini", stage)) \in Stages
           /\ BR!MapGeminiBatchState(BR!Word("gemini", stage)) \in BR!EndStages
                 <=> stage \in BR!EndStages
           /\ \A flavor \in {"openai", "qianfan", "mistral"} :
                 /\ BR!MapBatchStatus(BR!Word(flavor, stage)) \in Stages
                 /\ BR!MapBatchStatus(BR!Word(flavor, stage)) \in BR!EndStages
                       <=> stage \in BR!EndStages
<1>1. /\ BR!AnthropicStatus(BR!Word("anthropic", stage)) \in Stages
      /\ BR!AnthropicStatus(BR!Word("anthropic", stage)) \in BR!EndStages
            <=> stage \in BR!EndStages
    BY DEF Stages, BR!EndStages, BR!AnthropicStatus, BR!Word
<1>2. /\ BR!MapGeminiBatchState(BR!Word("gemini", stage)) \in Stages
      /\ BR!MapGeminiBatchState(BR!Word("gemini", stage)) \in BR!EndStages
            <=> stage \in BR!EndStages
    BY DEF Stages, BR!EndStages, BR!MapGeminiBatchState, BR!Word
<1>3. ASSUME NEW flavor \in {"openai", "qianfan", "mistral"}
      PROVE  /\ BR!MapBatchStatus(BR!Word(flavor, stage)) \in Stages
             /\ BR!MapBatchStatus(BR!Word(flavor, stage)) \in BR!EndStages
                   <=> stage \in BR!EndStages
    <2>1. CASE flavor = "openai"
        BY <2>1 DEF Stages, BR!EndStages, BR!MapBatchStatus, BR!Word
    <2>2. CASE flavor = "qianfan"
        BY <2>2 DEF Stages, BR!EndStages, BR!MapBatchStatus, BR!Word
    <2>3. CASE flavor = "mistral"
        BY <2>3 DEF Stages, BR!EndStages, BR!MapBatchStatus, BR!Word
    <2> QED
        BY <2>1, <2>2, <2>3
<1> QED
    BY <1>1, <1>2, <1>3

\* A status survives a second node.
LEMMA StatusHop ==
    ASSUME NEW status \in Stages
    PROVE  BR!MapBatchStatus(BR!StatusStr(status)) = status
BY DEF Stages, BR!EndStages, BR!MapBatchStatus, BR!StatusStr

\* The counts of a batch object.
Counts ==
    [total : Nat, processing : Nat, succeeded : Nat, errored : Nat, canceled : Nat, expired : Nat]

\* Six counts make the counts of a batch.
LEMMA SameCounts ==
    ASSUME NEW a \in Counts, NEW b \in Counts, a.total = b.total, a.processing = b.processing,
           a.succeeded = b.succeeded, a.errored = b.errored, a.canceled = b.canceled,
           a.expired = b.expired
    PROVE  a = b
BY DEF Counts

\* What batch_counts makes of three numbers.
LEMMA CountsMade ==
    ASSUME NEW t \in Nat, NEW s \in Nat, NEW e \in Nat
    PROVE  /\ BR!BatchCounts(t, s, e) \in Counts
           /\ BR!BatchCounts(t, s, e).total = t /\ BR!BatchCounts(t, s, e).succeeded = s
           /\ BR!BatchCounts(t, s, e).errored = e
<1>1. BR!NoCounts \in Counts
    BY DEF BR!NoCounts, Counts
<1>2. ASSUME NEW p \in Nat, NEW a \in Counts, NEW b,
             b = [a EXCEPT !.total = t, !.succeeded = s, !.errored = e, !.processing = p]
      PROVE  b \in Counts /\ b.total = t /\ b.succeeded = s /\ b.errored = e
    BY <1>2 DEF Counts
<1> DEFINE p == IF t > s + e THEN t - (s + e) ELSE 0
<1>3. p \in Nat
    OBVIOUS
<1> HIDE DEF p
<1>4. BR!BatchCounts(t, s, e)
          = [BR!NoCounts EXCEPT !.total = t, !.succeeded = s, !.errored = e, !.processing = p]
    BY Zenon DEF BR!BatchCounts, p
<1> QED
    BY <1>1, <1>2, <1>3, <1>4

\* A batch object survives a second node.
LEMMA HandleHop ==
    ASSUME NEW status \in Stages, NEW counts \in Counts
    PROVE  BR!LlmleafBatchHandle(BR!HandleToJson([status |-> status, counts |-> counts]))
               = [status |-> status, counts |-> counts]
<1> DEFINE json == BR!HandleToJson([status |-> status, counts |-> counts])
<1>1. /\ json.status = BR!StatusStr(status) /\ json.total = counts.total
      /\ json.completed = counts.succeeded /\ json.failed = counts.errored
      /\ json.processing = counts.processing /\ json.canceled = counts.canceled
      /\ json.expired = counts.expired
    BY DEF BR!HandleToJson
<1> HIDE DEF json
<1>2. BR!MapBatchStatus(json.status) = status
    BY <1>1, StatusHop
<1>3. /\ counts.total \in Nat /\ counts.succeeded \in Nat /\ counts.errored \in Nat
      /\ counts.processing \in Nat /\ counts.canceled \in Nat /\ counts.expired \in Nat
    BY DEF Counts
<1> DEFINE made == BR!BatchCounts(json.total, json.completed, json.failed)
           read == [made EXCEPT !.processing = json.processing, !.canceled = json.canceled,
                                !.expired = json.expired]
<1>4. /\ made \in Counts /\ made.total = counts.total /\ made.succeeded = counts.succeeded
      /\ made.errored = counts.errored
    BY <1>1, <1>3, CountsMade, SMTT(30)
<1> HIDE DEF made
<1>5. /\ read \in Counts /\ read.total = made.total /\ read.succeeded = made.succeeded
      /\ read.errored = made.errored /\ read.processing = counts.processing
      /\ read.canceled = counts.canceled /\ read.expired = counts.expired
    BY <1>1, <1>3, <1>4 DEF Counts
<1>6. BR!LlmleafBatchHandle(json) = [status |-> BR!MapBatchStatus(json.status), counts |-> read]
    BY DEF BR!LlmleafBatchHandle, made
<1> HIDE DEF read
<1>7. read = counts
    BY <1>4, <1>5, SameCounts
<1> QED
    BY <1>2, <1>6, <1>7 DEF json

-----------------------------------------------------------------------------
(* What the provider at the upstream reads. *)

\* The requests of a batch are numbered.
LEMMA Requests ==
    ASSUME RelayAssumption, NEW asked \in BR!Batches
    PROVE  /\ asked \in Seq(BatchModels) /\ Len(asked) \in 1..MaxRequests
           /\ DOMAIN asked = 1..Len(asked)
<1>1. PICK n \in 1..MaxRequests : asked \in [1..n -> BatchModels]
    BY DEF BR!Batches
<1>2. n \in Nat /\ n >= 1
    BY <1>1 DEF RelayAssumption
<1>3. asked \in Seq(BatchModels) /\ Len(asked) = n
    BY <1>1, <1>2
<1> QED
    BY <1>1, <1>2, <1>3

\* Cardinality, in the batch's module and here.
LEMMA SameCardinality ==
    ASSUME NEW S
    PROVE  BR!Cardinality(S) = Cardinality(S)
BY DEF BR!Cardinality, Cardinality

\* Outcomes are counted.
LEMMA SettledCounted ==
    RelayAssumption /\ JobTyped(job) => \A outcomes : BR!Settled(outcomes) \in Nat
<1> SUFFICES ASSUME RelayAssumption, JobTyped(job), NEW outcomes
             PROVE  BR!Settled(outcomes) \in Nat
    OBVIOUS
<1> DEFINE places == {k \in DOMAIN job.outcome : job.outcome[k] \in outcomes}
<1>1. DOMAIN job.outcome = 1..Len(job.asked) /\ Len(job.asked) \in Nat
    BY Requests DEF JobTyped, RelayAssumption
<1>2. IsFiniteSet(1..Len(job.asked)) /\ places \in SUBSET (1..Len(job.asked))
    BY <1>1, FS_Interval
<1>3. Cardinality(places) \in Nat
    BY <1>2, FS_Subset, FS_CardinalityType
<1> QED
    BY <1>3, SameCardinality DEF BR!Settled

\* What is read of a batch: a stage and six counts.
HandleRead(handle) ==
    /\ handle = [status |-> handle.status, counts |-> handle.counts]
    /\ handle.status \in Stages /\ handle.counts \in Counts

\* Each provider reads so, and reads a batch as ended exactly when it is.
LEMMA UpstreamRead ==
    RelayAssumption /\ JobTyped(job) =>
        HandleRead(BR!UpstreamHandle) /\ (BR!UpstreamHandle.status \in BR!EndStages <=> BR!Ended)
<1> SUFFICES ASSUME RelayAssumption, JobTyped(job)
             PROVE  /\ HandleRead(BR!UpstreamHandle)
                    /\ BR!UpstreamHandle.status \in BR!EndStages <=> BR!Ended
    OBVIOUS
<1>1. \A outcomes : BR!Settled(outcomes) \in Nat
    BY SettledCounted
<1> HIDE DEF BR!Settled
<1>2. Len(job.asked) \in Nat
    BY Requests DEF JobTyped, RelayAssumption
<1>3. job.stage \in Stages /\ job.flavor \in {"openai", "qianfan", "mistral", "anthropic", "gemini"}
    BY DEF JobTyped, RelayAssumption
<1>4. ASSUME NEW status \in Stages, NEW counts \in Counts, status \in BR!EndStages <=> BR!Ended,
             BR!UpstreamHandle = [status |-> status, counts |-> counts]
      PROVE  HandleRead(BR!UpstreamHandle) /\ (BR!UpstreamHandle.status \in BR!EndStages <=> BR!Ended)
    BY <1>4 DEF HandleRead
<1>5. CASE job.flavor = "anthropic"
    <2> DEFINE status == BR!AnthropicStatus(BR!Status)
               counts == [total |-> Len(job.asked), processing |-> BR!Settled({None}),
                          succeeded |-> BR!Settled({"succeeded"}), errored |-> BR!Settled({"errored"}),
                          canceled |-> BR!Settled({"canceled"}), expired |-> BR!Settled({"expired"})]
    <2>1. counts \in Counts
        BY <1>1, <1>2 DEF Counts
    <2>2. status \in Stages /\ (status \in BR!EndStages <=> BR!Ended)
        BY <1>3, <1>5, WordsRead DEF BR!Status, BR!Ended
    <2>3. BR!UpstreamHandle = [status |-> status, counts |-> counts]
        BY <1>5 DEF BR!UpstreamHandle, BR!AnthropicBatchToHandle
    <2> HIDE DEF status, counts
    <2> QED
        BY <1>4, <2>1, <2>2, <2>3
<1>6. CASE job.flavor = "gemini"
    <2> DEFINE status == BR!MapGeminiBatchState(BR!Status)
               t == Len(job.asked)
               p == BR!Settled({None})
               s == BR!Settled({"succeeded"})
               e == BR!Settled(BR!Failures \cup {"canceled"})
               counts == [BR!NoCounts EXCEPT !.total = t, !.processing = p, !.succeeded = s,
                                          !.errored = e]
    <2>1. t \in Nat /\ p \in Nat /\ s \in Nat /\ e \in Nat
        BY <1>1, <1>2
    <2>2. BR!UpstreamHandle = [status |-> status, counts |-> counts]
        BY <1>6 DEF BR!UpstreamHandle, BR!GeminiBatchToHandle
    <2> HIDE DEF t, p, s, e
    <2>3. BR!NoCounts \in Counts
        BY DEF BR!NoCounts, Counts
    <2>4. counts \in Counts
        BY <2>1, <2>3 DEF Counts
    <2>5. status \in Stages /\ (status \in BR!EndStages <=> BR!Ended)
        BY <1>3, <1>6, WordsRead DEF BR!Status, BR!Ended
    <2> HIDE DEF status, counts
    <2> QED
        BY <1>4, <2>2, <2>4, <2>5
<1>7. CASE job.flavor \in {"openai", "qianfan", "mistral"}
    <2> DEFINE status == BR!MapBatchStatus(BR!Status)
               counts == BR!BatchCounts(Len(job.asked), BR!Settled({"succeeded"}),
                                        BR!Settled(BR!Failures))
    <2>1. counts \in Counts
        BY <1>1, <1>2, CountsMade
    <2>2. status \in Stages /\ (status \in BR!EndStages <=> BR!Ended)
        BY <1>3, <1>7, WordsRead DEF BR!Status, BR!Ended
    <2>3. BR!UpstreamHandle = [status |-> status, counts |-> counts]
        BY <1>7 DEF BR!UpstreamHandle, BR!BatchValueToHandle
    <2> HIDE DEF status, counts
    <2> QED
        BY <1>4, <2>1, <2>2, <2>3
<1> QED
    BY <1>3, <1>5, <1>6, <1>7

\* What a consumer is shown of what was read is the same.
LEMMA ShownRead ==
    RelayAssumption /\ JobTyped(job) => \A handle : HandleRead(handle) =>
        /\ BR!Shown(handle).handle = handle /\ BR!Shown(handle).read = handle
        /\ BR!Shown(handle).ended = BR!Ended
<1> SUFFICES ASSUME RelayAssumption, JobTyped(job), NEW handle, HandleRead(handle)
             PROVE  /\ BR!Shown(handle).handle = handle /\ BR!Shown(handle).read = handle
                    /\ BR!Shown(handle).ended = BR!Ended
    OBVIOUS
<1>1. BR!LlmleafBatchHandle(BR!HandleToJson(handle)) = handle
    <2> DEFINE status == handle.status
               counts == handle.counts
    <2>1. status \in Stages /\ counts \in Counts
        BY DEF HandleRead
    <2>2. handle = [status |-> status, counts |-> counts]
        BY DEF HandleRead
    <2> HIDE DEF status, counts
    <2>3. BR!LlmleafBatchHandle(BR!HandleToJson([status |-> status, counts |-> counts]))
              = [status |-> status, counts |-> counts]
        BY <2>1, HandleHop
    <2> QED
        BY <2>2, <2>3
<1> QED
    BY <1>1 DEF BR!Shown

\* Gemini's answer to a cancel reads so too.
LEMMA CancelRead == HandleRead(BR!GeminiCancelHandle) /\ BR!GeminiCancelHandle.status = "canceling"
BY DEF HandleRead, BR!GeminiCancelHandle, Stages, Counts, BR!NoCounts

-----------------------------------------------------------------------------
(* Result lines. *)

\* A result survives a second node.
LEMMA LineHop ==
    ASSUME RelayAssumption, NEW k \in Nat
    PROVE  /\ \A m \in BatchModels :
                 BR!LlmleafBatchResultLine(BR!ResultToLine(BR!Succeeded(k, m))) = <<BR!Succeeded(k, m)>>
           /\ \A s \in Nat :
                 BR!LlmleafBatchResultLine(BR!ResultToLine(BR!Errored(k, s))) = <<BR!Errored(k, s)>>
           /\ \A o \in {"canceled", "expired"} :
                 BR!LlmleafBatchResultLine(BR!ResultToLine(BR!Result(k, o, None)))
                     = <<BR!Result(k, o, None)>>
<1>1. k # None
    BY DEF RelayAssumption
<1>2. ASSUME NEW m \in BatchModels
      PROVE  BR!LlmleafBatchResultLine(BR!ResultToLine(BR!Succeeded(k, m))) = <<BR!Succeeded(k, m)>>
    <2>1. BR!ResultToLine(BR!Succeeded(k, m)) = BR!Line(k, None, BR!Response(200, m))
        BY DEF BR!ResultToLine, BR!Succeeded, BR!Result
    <2>2. /\ BR!Response(200, m) # None /\ BR!Response(200, m).status = 200
          /\ BR!Response(200, m).model = m
        BY DEF RelayAssumption, BR!Response
    <2> HIDE DEF BR!Response
    <2>3. BR!LlmleafBatchResultLine(BR!Line(k, None, BR!Response(200, m))) = <<BR!Succeeded(k, m)>>
        BY <2>2 DEF BR!LlmleafBatchResultLine, BR!OpenAiBatchResultLine, BR!Line
    <2> QED
        BY <2>1, <2>3
<1>3. ASSUME NEW code \in {"errored", "expired", "canceled"}, NEW s \in Nat
      PROVE  BR!Error(code, s) # None /\ BR!Error(code, s).code = code /\ BR!Error(code, s).status = s
    BY DEF RelayAssumption, BR!Error
<1>4. ASSUME NEW s \in Nat
      PROVE  BR!LlmleafBatchResultLine(BR!ResultToLine(BR!Errored(k, s))) = <<BR!Errored(k, s)>>
    <2>1. BR!ResultToLine(BR!Errored(k, s)) = BR!Line(k, BR!Error("errored", s), None)
        BY DEF BR!ResultToLine, BR!Errored, BR!Result
    <2>2. /\ BR!Error("errored", s) # None /\ BR!Error("errored", s).code = "errored"
          /\ BR!Error("errored", s).status = s
        BY <1>3
    <2> HIDE DEF BR!Error
    <2>3. BR!LlmleafBatchResultLine(BR!Line(k, BR!Error("errored", s), None)) = <<BR!Errored(k, s)>>
        BY <1>1, <2>2 DEF BR!LlmleafBatchResultLine, BR!Line
    <2> QED
        BY <2>1, <2>3
<1>5. ASSUME NEW o \in {"canceled", "expired"}
      PROVE  BR!LlmleafBatchResultLine(BR!ResultToLine(BR!Result(k, o, None)))
                 = <<BR!Result(k, o, None)>>
    <2>1. BR!ResultToLine(BR!Result(k, o, None)) = BR!Line(k, BR!Error(o, 0), None)
        BY DEF BR!ResultToLine, BR!Result
    <2>2. BR!Error(o, 0) # None /\ BR!Error(o, 0).code = o /\ BR!Error(o, 0).status = 0
        BY <1>3
    <2> HIDE DEF BR!Error
    <2>3. BR!LlmleafBatchResultLine(BR!Line(k, BR!Error(o, 0), None)) = <<BR!Result(k, o, None)>>
        BY <1>1, <2>2 DEF BR!LlmleafBatchResultLine, BR!Line
    <2> QED
        BY <2>1, <2>3
<1> QED
    BY <1>2, <1>4, <1>5

\* What a provider reads of a request with something to tell is what is expected, and
\* survives a second node.
LEMMA ResultRead ==
    RelayAssumption /\ JobTyped(job) => \A k \in DOMAIN job.asked :
        /\ ~Due(k) => BR!Expected(k) = <<>>
        /\ Due(k) => \E r \in Answered :
              /\ r.id = k /\ BR!UpstreamResult(k) = <<r>> /\ BR!Expected(k) = <<r>>
              /\ BR!LlmleafBatchResultLine(BR!ResultToLine(r)) = <<r>>
<1> SUFFICES ASSUME RelayAssumption, JobTyped(job), NEW k \in DOMAIN job.asked
             PROVE  /\ ~Due(k) => BR!Expected(k) = <<>>
                    /\ Due(k) => \E r \in Answered :
                          /\ r.id = k /\ BR!UpstreamResult(k) = <<r>> /\ BR!Expected(k) = <<r>>
                          /\ BR!LlmleafBatchResultLine(BR!ResultToLine(r)) = <<r>>
    OBVIOUS
<1> DEFINE o == job.outcome[k]
           m == IF job.flavor \in BR!SingleModel THEN job.asked[1] ELSE job.asked[k]
<1>1. /\ o \in Settlements /\ None \notin OutcomeWords /\ None \notin FileOnly /\ None \notin Nat
      /\ job.flavor \in {"openai", "qianfan", "mistral", "anthropic", "gemini"}
      /\ job.flavor \notin BR!FileBased => o \notin FileOnly
    BY DEF JobTyped, RelayAssumption
<1>2. k \in Nat /\ m \in BatchModels /\ job.ran[k] = m
    <2>0. job.asked \in BR!Batches /\ MaxRequests \in Nat
        BY DEF JobTyped, RelayAssumption
    <2>1. job.asked \in Seq(BatchModels) /\ Len(job.asked) \in Nat /\ Len(job.asked) >= 1
        BY <2>0, Requests
    <2>2. k \in 1..Len(job.asked) /\ 1 \in 1..Len(job.asked)
        BY <2>1
    <2>3. job.ran = BR!ModelsRun(job.flavor, job.asked)
        BY DEF JobTyped
    <2>4. job.ran[k] = m
        BY <2>3 DEF BR!ModelsRun
    <2> QED
        BY <2>1, <2>2, <2>4
<1> HIDE DEF o, m
<1> DEFINE Reads(r) ==
               /\ r.id = k /\ BR!UpstreamResult(k) = <<r>> /\ BR!Expected(k) = <<r>>
               /\ BR!LlmleafBatchResultLine(BR!ResultToLine(r)) = <<r>>
<1>4. /\ BR!Succeeded(k, m) \in Answered /\ BR!Succeeded(k, m).id = k
      /\ \A s \in Nat : BR!Errored(k, s) \in Answered /\ BR!Errored(k, s).id = k
      /\ \A x \in {"canceled", "expired"} :
            BR!Result(k, x, None) \in Answered /\ BR!Result(k, x, None).id = k
    BY <1>2 DEF BR!Succeeded, BR!Errored, BR!Result, Answered, OutcomeWords
<1>5. ASSUME o = "succeeded"
      PROVE  \E r \in Answered : Reads(r)
    <2>1. BR!Expected(k) = <<BR!Succeeded(k, m)>>
        <3>1. job.outcome[k] = "succeeded" /\ job.outcome[k] # None
            BY <1>1, <1>5 DEF o, OutcomeWords
        <3> QED
            BY <3>1 DEF BR!Expected, m
    <2>2. BR!UpstreamResult(k) = <<BR!Succeeded(k, m)>>
        <3>1. BR!FileLine(k) = BR!Line(k, None, BR!Response(200, m))
            BY <1>2, <1>5 DEF BR!FileLine, o
        <3>2. /\ BR!Response(200, m) # None /\ BR!Response(200, m).status = 200
              /\ BR!Response(200, m).model = m
            BY <1>2 DEF RelayAssumption, BR!Response
        <3>3. BR!OpenAiBatchResultLine(BR!Line(k, None, BR!Response(200, m))) = <<BR!Succeeded(k, m)>>
            BY <3>2 DEF BR!OpenAiBatchResultLine, BR!Line
        <3> QED
            BY <1>1, <1>2, <1>5, <3>1, <3>3
            DEF BR!UpstreamResult, BR!AnthropicResultLine, BR!GeminiInlineResult, o
    <2>3. BR!LlmleafBatchResultLine(BR!ResultToLine(BR!Succeeded(k, m))) = <<BR!Succeeded(k, m)>>
        BY <1>2, LineHop
    <2>4. BR!Succeeded(k, m) \in Answered /\ Reads(BR!Succeeded(k, m))
        BY <1>4, <2>1, <2>2, <2>3
    <2> HIDE DEF Reads
    <2> QED
        BY <2>4
<1>6. ASSUME o = "rejected"
      PROVE  \E r \in Answered : Reads(r)
    <2>1. BR!Expected(k) = <<BR!Errored(k, 400)>>
        BY <1>1, <1>6 DEF BR!Expected, o
    <2>2. BR!UpstreamResult(k) = <<BR!Errored(k, 400)>>
        <3>1. BR!FileLine(k) = BR!Line(k, None, BR!Response(400, None))
            BY <1>6 DEF BR!FileLine, o
        <3>2. BR!Response(400, None) # None /\ BR!Response(400, None).status = 400
            BY DEF RelayAssumption, BR!Response
        <3>3. BR!OpenAiBatchResultLine(BR!Line(k, None, BR!Response(400, None)))
                  = <<BR!Errored(k, 400)>>
            BY <3>2 DEF BR!OpenAiBatchResultLine, BR!Line
        <3>4. job.flavor # "anthropic" /\ job.flavor # "gemini"
            BY <1>1, <1>6 DEF BR!FileBased, FileOnly
        <3> QED
            BY <3>1, <3>3, <3>4 DEF BR!UpstreamResult
    <2>3. BR!LlmleafBatchResultLine(BR!ResultToLine(BR!Errored(k, 400))) = <<BR!Errored(k, 400)>>
        BY <1>2, LineHop
    <2>4. BR!Errored(k, 400) \in Answered /\ Reads(BR!Errored(k, 400))
        BY <1>4, <2>1, <2>2, <2>3
    <2> HIDE DEF Reads
    <2> QED
        BY <2>4
<1>7. ASSUME o \in {"errored", "canceled", "expired"}
      PROVE  \E r \in Answered : Reads(r)
    <2>1. BR!FileLine(k) = BR!Line(k, BR!Error(o, 0), None)
        BY <1>7 DEF BR!FileLine, o
    <2>2. BR!Error(o, 0) # None
        BY <1>7 DEF RelayAssumption
    <2>3. BR!OpenAiBatchResultLine(BR!FileLine(k)) = <<BR!Errored(k, 0)>>
        BY <2>1, <2>2 DEF BR!OpenAiBatchResultLine, BR!Line
    <2>4. CASE job.flavor = "anthropic" /\ o # "errored"
        <3>1. BR!Expected(k) = <<BR!Result(k, o, None)>>
            BY <1>1, <1>7, <2>4 DEF BR!Expected, o
        <3>2. BR!UpstreamResult(k) = <<BR!Result(k, o, None)>>
            BY <1>7, <2>4 DEF BR!UpstreamResult, BR!AnthropicResultLine, o
        <3> QED
            <4>1. BR!LlmleafBatchResultLine(BR!ResultToLine(BR!Result(k, o, None)))
                      = <<BR!Result(k, o, None)>>
                BY <1>2, <1>7, <2>4, LineHop
            <4>2. BR!Result(k, o, None) \in Answered /\ Reads(BR!Result(k, o, None))
                BY <1>4, <1>7, <2>4, <3>1, <3>2, <4>1
            <4> HIDE DEF Reads
            <4> QED
                BY <4>2
    <2>5. CASE ~(job.flavor = "anthropic" /\ o # "errored")
        <3>1. BR!Expected(k) = <<BR!Errored(k, 0)>>
            <4>1. job.outcome[k] \in {"errored", "canceled", "expired"} /\ job.outcome[k] # None
                BY <1>1, <1>7 DEF o, OutcomeWords
            <4>2. job.outcome[k] = "errored" \/ job.flavor # "anthropic"
                BY <2>5 DEF o
            <4> QED
                BY <4>1, <4>2 DEF BR!Expected
        <3>2. BR!UpstreamResult(k) = <<BR!Errored(k, 0)>>
            BY <1>1, <1>7, <2>3, <2>5
            DEF BR!UpstreamResult, BR!AnthropicResultLine, BR!GeminiInlineResult, o
        <3> QED
            <4>1. BR!LlmleafBatchResultLine(BR!ResultToLine(BR!Errored(k, 0))) = <<BR!Errored(k, 0)>>
                BY <1>2, LineHop
            <4>2. BR!Errored(k, 0) \in Answered /\ Reads(BR!Errored(k, 0))
                BY <1>4, <3>1, <3>2, <4>1
            <4> HIDE DEF Reads
            <4> QED
                BY <4>2
    <2> QED
        BY <2>4, <2>5
<1>8. ~Due(k) => BR!Expected(k) = <<>>
    <2>1. ASSUME ~Due(k)
          PROVE  /\ job.outcome[k] \in {None, "dropped"}
                 /\ job.outcome[k] \notin {"succeeded", "rejected", "canceled", "expired"}
        BY <1>1, <2>1 DEF Due, OutcomeWords, FileOnly, o
    <2> QED
        BY <2>1 DEF BR!Expected
<1>9. Due(k) => o \in {"succeeded", "rejected", "errored", "canceled", "expired"}
    BY <1>1 DEF Due, Settlements, FileOnly, o
<1> QED
    BY <1>5, <1>6, <1>7, <1>8, <1>9

\* A finite set as a sequence.
LEMMA SetListed ==
    ASSUME NEW S, IsFiniteSet(S)
    PROVE  Lists(BR!SetToSeq(S), S)
<1> DEFINE n == Cardinality(S)
           f == BR!SetToSeq(S)
<1>1. n \in Nat /\ ExistsBijection(1..n, S)
    BY FS_CardinalityType
<1>2. PICK g : g \in [1..n -> S] /\ IsInjective(g)
    BY <1>1 DEF ExistsBijection, Bijection, Injection
<1>3. f \in [1..n -> S] /\ IsInjective(f)
    BY <1>2, SameCardinality DEF BR!SetToSeq, BR!IsInjective, IsInjective
<1>4. f \in Injection(1..n, S)
    BY <1>3 DEF Injection
<1>5. IsFiniteSet(1..n) /\ Cardinality(1..n) = n
    BY <1>1, FS_Interval
<1>6. f \in Surjection(1..n, S)
    BY <1>4, <1>5, FS_Injection
<1>7. f \in Seq(S) /\ Len(f) = n
    BY <1>1, <1>3
<1> HIDE DEF f, n
<1>8. /\ \A k \in S : \E i \in 1..n : f[i] = k
      /\ \A i, j \in 1..n : f[i] = f[j] => i = j
    BY <1>3, <1>6 DEF Surjection, IsInjective
<1>9. Lists(f, S)
    BY <1>7, <1>8 DEF Lists
<1> QED
    BY <1>9 DEF f

\* Two sets without a member in common, one after the other.
LEMMA ListsJoin ==
    ASSUME NEW S, NEW T, S \cap T = {}, NEW a, Lists(a, S), NEW b, Lists(b, T)
    PROVE  Lists(a \o b, S \cup T)
<1> DEFINE c == a \o b
           U == S \cup T
<1>1. a \in Seq(U) /\ b \in Seq(U) /\ a \in Seq(S) /\ b \in Seq(T)
    BY DEF Lists
<1>2. /\ c \in Seq(U) /\ Len(c) = Len(a) + Len(b) /\ Len(a) \in Nat /\ Len(b) \in Nat
      /\ \A i \in 1..Len(c) : c[i] = IF i <= Len(a) THEN a[i] ELSE b[i - Len(a)]
    BY <1>1
<1> HIDE DEF c, U
<1>3. ASSUME NEW k \in U
      PROVE  \E i \in 1..Len(c) : c[i] = k
    <2>1. CASE k \in S
        <3>1. PICK i \in 1..Len(a) : a[i] = k
            BY <2>1 DEF Lists
        <3>2. i \in 1..Len(c) /\ c[i] = k
            BY <1>2, <3>1
        <3> QED
            BY <3>2
    <2>2. CASE k \in T
        <3>1. PICK i \in 1..Len(b) : b[i] = k
            BY <2>2 DEF Lists
        <3>2. Len(a) + i \in 1..Len(c) /\ c[Len(a) + i] = k
            BY <1>2, <3>1
        <3> QED
            BY <3>2
    <2> QED
        BY <2>1, <2>2 DEF U
<1>4. ASSUME NEW i \in 1..Len(c), NEW j \in 1..Len(c), c[i] = c[j]
      PROVE  i = j
    <2>1. ASSUME NEW x \in 1..Len(c)
          PROVE  IF x <= Len(a) THEN x \in 1..Len(a) /\ c[x] = a[x] /\ c[x] \in S
                 ELSE x - Len(a) \in 1..Len(b) /\ c[x] = b[x - Len(a)] /\ c[x] \in T
        BY <1>1, <1>2
    <2>2. i <= Len(a) <=> j <= Len(a)
        BY <1>4, <2>1
    <2>3. CASE i <= Len(a)
        BY <1>4, <2>1, <2>2, <2>3 DEF Lists
    <2>4. CASE ~(i <= Len(a))
        <3>1. i - Len(a) = j - Len(a)
            BY <1>4, <2>1, <2>2, <2>4, ZenonT(30) DEF Lists
        <3> QED
            BY <1>2, <3>1
    <2> QED
        BY <2>3, <2>4
<1>5. Lists(c, U)
    BY <1>2, <1>3, <1>4 DEF Lists
<1> QED
    BY <1>5 DEF c, U

\* A sequence without its first.
LEMMA ListsTail ==
    ASSUME NEW S, NEW lines, Lists(lines, S), lines # <<>>
    PROVE  /\ Head(lines) \in S
           /\ Lists(Tail(lines), S \ {Head(lines)})
<1> DEFINE t == Tail(lines)
           h == Head(lines)
<1>1. /\ lines \in Seq(S) /\ Len(lines) \in Nat /\ Len(lines) >= 1
      /\ h = lines[1] /\ h \in S
      /\ t \in Seq(S) /\ Len(t) = Len(lines) - 1
      /\ \A i \in 1..Len(t) : t[i] = lines[i + 1]
    BY DEF Lists
<1> HIDE DEF t, h
<1>2. \A i \in 1..Len(t) : i + 1 \in 1..Len(lines) /\ i + 1 # 1
    BY <1>1
<1>3. 1 \in 1..Len(lines)
    BY <1>1
<1>4. \A i \in 1..Len(t) : t[i] \in S \ {h}
    <2>1. ASSUME NEW i \in 1..Len(t)
          PROVE  t[i] \in S \ {h}
        <3>1. i + 1 \in 1..Len(lines) /\ 1 \in 1..Len(lines) /\ i + 1 # 1
            BY <1>2, <1>3
        <3>2. lines[i + 1] # lines[1]
            BY <3>1 DEF Lists
        <3> QED
            BY <1>1, <3>2
    <2> QED
        BY <2>1
<1>5. t \in Seq(S \ {h})
    BY <1>1, <1>4
<1>6. ASSUME NEW k \in S \ {h}
      PROVE  \E i \in 1..Len(t) : t[i] = k
    <2>1. PICK i \in 1..Len(lines) : lines[i] = k
        BY DEF Lists
    <2>2. i # 1
        BY <1>1, <2>1
    <2>3. i - 1 \in 1..Len(t) /\ t[i - 1] = lines[i]
        BY <1>1, <2>2
    <2> QED
        BY <2>1, <2>3
<1>7. ASSUME NEW i \in 1..Len(t), NEW j \in 1..Len(t), t[i] = t[j]
      PROVE  i = j
    <2>1. i + 1 = j + 1
        <3>1. i + 1 \in 1..Len(lines) /\ j + 1 \in 1..Len(lines)
            BY <1>2
        <3>2. lines[i + 1] = lines[j + 1]
            BY <1>1, <1>7
        <3> QED
            BY <3>1, <3>2 DEF Lists
    <2> QED
        BY <2>1
<1>8. Lists(t, S \ {h})
    BY <1>5, <1>6, <1>7 DEF Lists
<1> QED
    BY <1>1, <1>8 DEF t, h

-----------------------------------------------------------------------------
(* The invariant. *)

\* Init starts without a batch.
LEMMA RelayInit == ASSUME RelayAssumption PROVE BR!Init => RelayInv
<1> SUFFICES ASSUME BR!Init PROVE RelayInv
    OBVIOUS
<1>1. /\ job = None /\ seen = None /\ fetch.state = "none" /\ fetch.lines = <<>>
      /\ fetch.heard = <<>> /\ fetch.read = <<>> /\ fetch.early = FALSE
      /\ fetch.swallowed = FALSE /\ fetch \in Fetches
    BY DEF BR!Init, BR!Fetch, Fetches
<1> QED
    BY <1>1 DEF RelayInv, BatchTyped, FetchTyped, ShownTrue, Fetching

\* Steps that leave the fetch alone, and an ended batch.
LEMMA BatchMoves ==
    ASSUME RelayAssumption, RelayInv, UNCHANGED fetch, JobTyped(job'),
           job # None => job'.flavor = job.flavor /\ (BR!Ended => job' = job)
    PROVE  /\ BatchTyped' /\ Fetching'
           /\ UNCHANGED seen => ShownTrue'
<1>1. job' # None
    BY DEF JobTyped, RelayAssumption
<1>2. BatchTyped'
    BY <1>1 DEF RelayInv, BatchTyped
<1>3. UNCHANGED seen => ShownTrue'
    BY DEF RelayInv, BatchTyped, ShownTrue
<1>4. Fetching'
    <2>1. CASE fetch.state \in {"open", "over"} /\ ~fetch.swallowed /\ ~fetch.early
        <3>1. job # None /\ BR!Ended
            BY <2>1 DEF RelayInv, BatchTyped, Fetching
        <3>2. job' = job
            BY <3>1
        <3>3. BR!Ended' = BR!Ended
            BY <3>2 DEF BR!Ended
        <3>4. \A k : BR!Expected(k)' = BR!Expected(k)
            BY <3>2 DEF BR!Expected
        <3>5. \A k : Due(k)' = Due(k) /\ BR!Answers(k)' = BR!Answers(k)
            BY <3>2 DEF Due, BR!Answers
        <3> QED
            BY <3>2, <3>3, <3>4, <3>5 DEF RelayInv, Fetching
    <2>2. CASE fetch.state \in {"open", "over"} /\ ~fetch.swallowed /\ fetch.early
        BY <2>2 DEF RelayInv, Fetching
    <2>3. CASE ~(fetch.state \in {"open", "over"} /\ ~fetch.swallowed)
        BY <2>3 DEF Fetching
    <2>4. fetch.early \in BOOLEAN
        BY DEF RelayInv, BatchTyped, FetchTyped, Fetches
    <2> QED
        BY <2>1, <2>2, <2>3, <2>4
<1> QED
    BY <1>2, <1>3, <1>4

\* batch_create makes a batch of requests that are not settled yet.
LEMMA BatchMadeStep ==
    ASSUME RelayAssumption, RelayInv, NEW flavor \in Flavors, NEW between \in Between,
           NEW asked \in BR!Batches, BR!BatchCreate(flavor, between, asked)
    PROVE  RelayInv'
<1>1. /\ asked \in Seq(BatchModels) /\ Len(asked) \in 1..MaxRequests
      /\ DOMAIN asked = 1..Len(asked)
    BY Requests
<1>2. Len(asked) \in Nat /\ Len(asked) >= 1
    BY <1>1 DEF RelayAssumption
<1> DEFINE ran == BR!ModelsRun(flavor, asked)
           outcome == [k \in DOMAIN asked |-> None]
           made == [flavor |-> flavor, between |-> between, asked |-> asked, stage |-> "validating",
                    ran |-> ran, outcome |-> outcome]
<1>3. ran \in BR!Batches
    <2>1. 1 \in DOMAIN asked
        BY <1>1, <1>2
    <2>2. ran \in [1..Len(asked) -> BatchModels]
        BY <1>1, <2>1 DEF BR!ModelsRun
    <2> QED
        BY <1>1, <2>2 DEF BR!Batches
<1>4. /\ outcome \in [DOMAIN asked -> Settlements]
      /\ \A k \in DOMAIN asked : outcome[k] = None
    BY DEF Settlements
<1>5. outcome \in UNION {[1..n -> Settlements] : n \in 1..MaxRequests}
    BY <1>1, <1>4
<1>6. "validating" \in Stages
    BY DEF Stages
<1>7. job' = made
    BY DEF BR!BatchCreate
<1> HIDE DEF ran, outcome
<1>8. made \in Jobs
    BY <1>3, <1>5, <1>6 DEF Jobs
<1>9. /\ made.flavor = flavor /\ made.between = between /\ made.asked = asked
      /\ made.stage = "validating" /\ made.ran = ran /\ made.outcome = outcome
    OBVIOUS
<1> HIDE DEF made
<1>10. ran = BR!ModelsRun(flavor, asked)
    BY DEF ran
<1>11. JobTyped(job')
    <2>1. \A k \in DOMAIN asked : outcome[k] \notin FileOnly
        BY <1>4 DEF RelayAssumption
    <2> QED
        BY <1>4, <1>6, <1>7, <1>8, <1>9, <1>10, <2>1 DEF JobTyped
<1>12. job = None /\ UNCHANGED fetch /\ UNCHANGED seen
    BY DEF BR!BatchCreate
<1> QED
    BY <1>11, <1>12, BatchMoves DEF RelayInv

\* batch_retrieve shows what is read.
LEMMA RetrieveStep ==
    ASSUME RelayAssumption, RelayInv, BR!BatchRetrieve
    PROVE  RelayInv'
<1>1. job # None /\ JobTyped(job) /\ job' = job /\ fetch' = fetch
    BY DEF BR!BatchRetrieve, RelayInv, BatchTyped
<1>2. BatchTyped' /\ Fetching'
    BY <1>1, BatchMoves
<1>3. HandleRead(BR!UpstreamHandle) /\ (BR!UpstreamHandle.status \in BR!EndStages <=> BR!Ended)
    BY <1>1, UpstreamRead
<1>4. /\ BR!Shown(BR!UpstreamHandle).handle = BR!UpstreamHandle
      /\ BR!Shown(BR!UpstreamHandle).read = BR!UpstreamHandle
      /\ BR!Shown(BR!UpstreamHandle).ended = BR!Ended
    BY <1>1, <1>3, ShownRead
<1>5. seen' = BR!Shown(BR!UpstreamHandle) /\ BR!Ended \in BOOLEAN
    BY DEF BR!BatchRetrieve, BR!Ended
<1>6. ShownTrue'
    BY <1>3, <1>4, <1>5 DEF ShownTrue
<1> QED
    BY <1>2, <1>6 DEF RelayInv

\* A batch that moves to another stage.
LEMMA StageMoves ==
    ASSUME RelayAssumption, JobTyped(job), NEW to \in Stages, job' = [job EXCEPT !.stage = to]
    PROVE  JobTyped(job') /\ job'.flavor = job.flavor
<1>1. /\ job' \in Jobs /\ job'.flavor = job.flavor /\ job'.between = job.between
      /\ job'.asked = job.asked /\ job'.stage = to /\ job'.ran = job.ran
      /\ job'.outcome = job.outcome
    BY DEF JobTyped, Jobs
<1> QED
    BY <1>1 DEF JobTyped

\* batch_cancel shows the batch that it leaves.
LEMMA BatchCanceledStep ==
    ASSUME RelayAssumption, RelayInv, BR!BatchCancel
    PROVE  RelayInv'
<1>1. job # None /\ JobTyped(job) /\ fetch' = fetch
    BY DEF BR!BatchCancel, RelayInv, BatchTyped
<1>2. JobTyped(job') /\ job'.flavor = job.flavor /\ (BR!Ended => job' = job)
    <2>1. CASE BR!Cancelable
        <3>1. job' = [job EXCEPT !.stage = "canceling"] /\ "canceling" \in Stages
            BY <2>1 DEF BR!BatchCancel, Stages
        <3>2. ~BR!Ended
            BY <2>1 DEF BR!Cancelable, BR!Ended, BR!EndStages
        <3> QED
            BY <1>1, <3>1, <3>2, StageMoves
    <2>2. CASE ~BR!Cancelable
        BY <1>1, <2>2 DEF BR!BatchCancel
    <2> QED
        BY <2>1, <2>2
<1>3. BatchTyped' /\ Fetching'
    BY <1>1, <1>2, BatchMoves
<1>4. (RelayAssumption /\ JobTyped(job) =>
          HandleRead(BR!UpstreamHandle) /\ (BR!UpstreamHandle.status \in BR!EndStages <=> BR!Ended))'
    BY UpstreamRead, PTL
<1>5. (RelayAssumption /\ JobTyped(job) => \A handle : HandleRead(handle) =>
          /\ BR!Shown(handle).handle = handle /\ BR!Shown(handle).read = handle
          /\ BR!Shown(handle).ended = BR!Ended)'
    BY ShownRead, PTL
<1>6. HandleRead(BR!UpstreamHandle') /\ (BR!UpstreamHandle'.status \in BR!EndStages <=> BR!Ended')
    BY <1>2, <1>4
<1>7. \A handle : HandleRead(handle) =>
          /\ (BR!Shown(handle)').handle = handle /\ (BR!Shown(handle)').read = handle
          /\ (BR!Shown(handle)').ended = BR!Ended'
    BY <1>2, <1>5
<1>8. BR!Ended' \in BOOLEAN
    BY DEF BR!Ended
<1>9. CASE job.flavor = "gemini"
    <2>1. seen' = BR!Shown(BR!GeminiCancelHandle)'
        BY <1>9 DEF BR!BatchCancel
    <2>2. /\ seen'.handle = BR!GeminiCancelHandle /\ seen'.read = BR!GeminiCancelHandle
          /\ seen'.ended = BR!Ended'
        BY <1>7, <2>1, CancelRead
    <2>3. ShownTrue'
        BY <1>2, <1>8, <1>9, <2>2, CancelRead DEF ShownTrue
    <2> QED
        BY <1>3, <2>3 DEF RelayInv
<1>10. CASE job.flavor # "gemini"
    <2>1. seen' = BR!Shown(BR!UpstreamHandle)'
        BY <1>10 DEF BR!BatchCancel
    <2>2. /\ seen'.handle = BR!UpstreamHandle' /\ seen'.read = BR!UpstreamHandle'
          /\ seen'.ended = BR!Ended'
        BY <1>6, <1>7, <2>1
    <2>3. ShownTrue'
        BY <1>6, <1>8, <2>2 DEF ShownTrue
    <2> QED
        BY <1>3, <2>3 DEF RelayInv
<1> QED
    BY <1>9, <1>10

\* The requests of an ended batch, listed for a fetch.
LEMMA DueListed ==
    ASSUME RelayAssumption, JobTyped(job)
    PROVE  /\ Lists(BR!BatchResultFiles, {k \in DOMAIN job.asked : Due(k)})
           /\ job.flavor \notin BR!FileBased => Lists(BR!ResultList, {k \in DOMAIN job.asked : Due(k)})
<1>1. /\ DOMAIN job.outcome = DOMAIN job.asked
      /\ \A k \in DOMAIN job.asked : job.outcome[k] \in Settlements
    BY DEF JobTyped
<1>2. IsFiniteSet(DOMAIN job.asked)
    <2>1. DOMAIN job.asked = 1..Len(job.asked) /\ Len(job.asked) \in Nat
        BY Requests DEF JobTyped, RelayAssumption
    <2>2. IsFiniteSet(1..Len(job.asked))
        BY <2>1, FS_Interval
    <2> QED
        BY <2>1, <2>2
<1> DEFINE D == DOMAIN job.asked
           succeeded == {k \in D : job.outcome[k] = "succeeded"}
           failed == {k \in D : job.outcome[k] \in BR!Failures \cup {"canceled"}}
           settled == {k \in D : job.outcome[k] # None}
           due == {k \in D : Due(k)}
<1>3. IsFiniteSet(succeeded) /\ IsFiniteSet(failed) /\ IsFiniteSet(settled)
    BY <1>2, FS_Subset
<1>4. Lists(BR!OutputFile, succeeded) /\ Lists(BR!ErrorFile, failed) /\ Lists(BR!ResultList, settled)
    BY <1>1, <1>3, SetListed DEF BR!OutputFile, BR!ErrorFile, BR!ResultList
<1>5. succeeded \cap failed = {} /\ succeeded \cup failed = due
    BY <1>1 DEF BR!Failures, Due, Settlements, FileOnly, RelayAssumption, OutcomeWords
<1>6. job.flavor \notin BR!FileBased => settled = due
    BY <1>1 DEF JobTyped, Due, FileOnly
<1> HIDE DEF succeeded, failed, settled, due
<1>7. Lists(BR!BatchResultFiles, due)
    BY <1>4, <1>5, ListsJoin DEF BR!BatchResultFiles
<1> QED
    BY <1>4, <1>6, <1>7 DEF due

\* The lines of an ended batch are its requests with something to tell.
LEMMA OpenStep ==
    ASSUME RelayAssumption, RelayInv, BR!BatchResults
    PROVE  RelayInv'
<1>1. job # None /\ JobTyped(job) /\ UNCHANGED job /\ UNCHANGED seen
    BY DEF BR!BatchResults, RelayInv, BatchTyped
<1> DEFINE due == {k \in DOMAIN job.asked : Due(k)}
           Good(f) ==
               /\ f \in Fetches /\ f.read = <<>> /\ f.heard = <<>> /\ f.swallowed = FALSE
               /\ f.state \in {"open", "refused"}
               /\ f.state = "open" =>
                     IF f.early THEN f.lines = <<>> ELSE BR!Ended /\ Lists(f.lines, due)
<1>2. due \subseteq Nat
    <2>1. DOMAIN job.asked = 1..Len(job.asked) /\ Len(job.asked) \in Nat
        BY <1>1, Requests DEF JobTyped, RelayAssumption
    <2> QED
        BY <2>1
<1>3. ASSUME NEW lines, Lists(lines, due)
      PROVE  lines \in Seq(Nat)
    BY <1>2, <1>3 DEF Lists
<1>4. Lists(BR!BatchResultFiles, due) /\ (job.flavor \notin BR!FileBased => Lists(BR!ResultList, due))
    BY <1>1, DueListed
<1>5. BR!Ended \in BOOLEAN /\ job.flavor \in Flavors
    BY <1>1 DEF BR!Ended, JobTyped
<1> HIDE DEF due
<1>6. ASSUME NEW state \in {"open", "refused"}, NEW lines \in Seq(Nat), NEW early \in BOOLEAN,
             state = "open" => IF early THEN lines = <<>> ELSE BR!Ended /\ Lists(lines, due)
      PROVE  Good(BR!Fetch(state, lines, early))
    BY <1>6 DEF BR!Fetch, Fetches
<1> HIDE DEF Good
<1>7. <<>> \in Seq(Nat)
    OBVIOUS
<1>8. ASSUME NEW early \in BOOLEAN
      PROVE  Good(BR!Fetch("refused", <<>>, early))
    BY <1>6, <1>7
<1>9. ASSUME NEW lines, BR!Ended, Lists(lines, due)
      PROVE  Good(BR!Fetch("open", lines, FALSE))
    BY <1>3, <1>6, <1>9
<1>10. Good(fetch')
    <2>1. CASE job.flavor = "anthropic"
        <3>1. fetch' = IF BR!Ended THEN BR!Fetch("open", BR!ResultList, FALSE)
                       ELSE BR!Fetch("refused", <<>>, TRUE)
            BY <2>1 DEF BR!BatchResults, BR!AnthropicFetch
        <3>2. Lists(BR!ResultList, due)
            BY <1>4, <2>1 DEF BR!FileBased
        <3> QED
            BY <1>8, <1>9, <3>1, <3>2
    <2>2. CASE job.flavor = "gemini"
        <3>1. fetch' = BR!Fetch("open", IF BR!Ended THEN BR!ResultList ELSE <<>>, ~BR!Ended)
            BY <2>2 DEF BR!BatchResults, BR!GeminiFetch
        <3>2. Lists(BR!ResultList, due)
            BY <1>4, <2>2 DEF BR!FileBased
        <3>3. CASE BR!Ended
            <4>1. fetch' = BR!Fetch("open", BR!ResultList, FALSE)
                BY <3>1, <3>3
            <4> QED
                BY <1>9, <3>2, <3>3, <4>1
        <3>4. CASE ~BR!Ended
            <4>1. fetch' = BR!Fetch("open", <<>>, TRUE)
                BY <3>1, <3>4
            <4> QED
                BY <1>6, <1>7, <4>1
        <3> QED
            BY <3>3, <3>4
    <2>3. CASE job.flavor # "anthropic" /\ job.flavor # "gemini"
        <3>1. fetch' = IF BR!Ended /\ BR!BatchResultFiles # <<>>
                       THEN BR!Fetch("open", BR!BatchResultFiles, FALSE)
                       ELSE BR!Fetch("refused", <<>>, ~BR!Ended)
            BY <2>3 DEF BR!BatchResults, BR!FilesFetch
        <3> QED
            BY <1>4, <1>5, <1>8, <1>9, <3>1
    <2> QED
        BY <2>1, <2>2, <2>3
<1>11. FetchTyped(fetch')
    BY <1>10 DEF Good, FetchTyped
<1>12. BatchTyped' /\ ShownTrue'
    BY <1>1, <1>11 DEF RelayInv, BatchTyped, ShownTrue
<1>13. Fetching'
    <2>1. \A k : BR!Answers(k)' = {}
        BY <1>10 DEF Good, BR!Answers
    <2>2. {k \in DOMAIN job'.asked : Due(k)' /\ BR!Answers(k)' = {}} = due
        BY <1>1, <2>1 DEF Due, due
    <2>3. BR!Ended' = BR!Ended
        BY <1>1 DEF BR!Ended
    <2> QED
        BY <1>10, <2>1, <2>2, <2>3 DEF Fetching, Good
<1> QED
    BY <1>12, <1>13 DEF RelayInv

\* The next line tells of a request that had no answer yet.
LEMMA NextLineStep ==
    ASSUME RelayAssumption, RelayInv, BR!NextLine
    PROVE  RelayInv'
<1>1. /\ fetch.state = "open" /\ fetch.lines # <<>> /\ fetch.swallowed = FALSE
      /\ FetchTyped(fetch) /\ fetch \in Fetches
      /\ job # None /\ JobTyped(job) /\ UNCHANGED job /\ UNCHANGED seen
    BY DEF BR!NextLine, RelayInv, BatchTyped, FetchTyped, Fetches
<1>2. /\ fetch.early = FALSE /\ BR!Ended
      /\ Lists(fetch.lines, {k \in DOMAIN job.asked : Due(k) /\ BR!Answers(k) = {}})
      /\ \A k \in DOMAIN job.asked : \A i, j \in BR!Answers(k) :
            i = j /\ BR!Expected(k) = <<fetch.heard[i]>>
    BY <1>1 DEF RelayInv, Fetching, Fetches
<1> DEFINE h == Head(fetch.lines)
           left == {k \in DOMAIN job.asked : Due(k) /\ BR!Answers(k) = {}}
<1>3. h \in left /\ Lists(Tail(fetch.lines), left \ {h})
    BY <1>1, <1>2, ListsTail
<1>4. PICK r \in Answered :
          /\ r.id = h /\ BR!UpstreamResult(h) = <<r>> /\ BR!Expected(h) = <<r>>
          /\ BR!LlmleafBatchResultLine(BR!ResultToLine(r)) = <<r>>
    BY <1>1, <1>3, ResultRead
<1>5. BR!Heard(<<r>>) = <<r>>
    <2>1. <<r>> # <<>> /\ Head(<<r>>) = r
        OBVIOUS
    <2> QED
        BY <1>4, <2>1 DEF BR!Heard
<1>6. fetch' = [fetch EXCEPT !.lines = Tail(fetch.lines), !.read = fetch.read \o <<r>>,
                             !.heard = fetch.heard \o <<r>>]
    BY <1>4, <1>5 DEF BR!NextLine, h
<1>7. /\ fetch.lines \in Seq(Nat) /\ fetch.heard \in Seq(Answered) /\ fetch.read = fetch.heard
      /\ Tail(fetch.lines) \in Seq(Nat) /\ fetch.heard \o <<r>> \in Seq(Answered)
    BY <1>1 DEF FetchTyped, Fetches
<1> DEFINE lines == Tail(fetch.lines)
           heard == fetch.heard \o <<r>>
           n == Len(fetch.heard) + 1
<1>8. /\ n \in Nat /\ DOMAIN heard = DOMAIN fetch.heard \cup {n} /\ n \notin DOMAIN fetch.heard
      /\ heard[n] = r /\ \A i \in DOMAIN fetch.heard : heard[i] = fetch.heard[i]
    BY <1>7
<1>9. fetch' = [fetch EXCEPT !.lines = lines, !.read = heard, !.heard = heard]
    BY <1>6, <1>7
<1>10. lines \in Seq(Nat) /\ heard \in Seq(Answered) /\ Lists(lines, left \ {h})
    BY <1>3, <1>7
<1> HIDE DEF lines, heard, n, h
<1>11. /\ fetch' \in Fetches /\ fetch'.state = "open" /\ fetch'.lines = lines
       /\ fetch'.heard = heard /\ fetch'.read = heard /\ fetch'.early = FALSE
       /\ fetch'.swallowed = FALSE
    BY <1>1, <1>2, <1>9, <1>10 DEF Fetches
<1>12. BatchTyped' /\ ShownTrue'
    <2>1. FetchTyped(fetch')
        BY <1>11 DEF FetchTyped
    <2> QED
        BY <1>1, <2>1 DEF RelayInv, BatchTyped, ShownTrue
<1>13. ASSUME NEW k
       PROVE  BR!Answers(k)' = IF k = h THEN BR!Answers(k) \cup {n} ELSE BR!Answers(k)
    BY <1>4, <1>8, <1>11 DEF BR!Answers
<1>14. /\ BR!Ended' = BR!Ended /\ \A k : BR!Expected(k)' = BR!Expected(k)
       /\ \A k : Due(k)' = Due(k)
    BY <1>1 DEF BR!Ended, BR!Expected, Due
<1>15. {k \in DOMAIN job'.asked : Due(k)' /\ BR!Answers(k)' = {}} = left \ {h}
    BY <1>1, <1>13, <1>14
<1>16. ASSUME NEW k \in DOMAIN job.asked, NEW i \in BR!Answers(k)', NEW j \in BR!Answers(k)'
       PROVE  i = j /\ BR!Expected(k)' = <<fetch'.heard[i]>>
    <2>1. CASE k = h
        <3>1. BR!Answers(k)' = {n}
            BY <1>3, <1>13, <2>1
        <3> QED
            BY <1>4, <1>8, <1>11, <1>14, <2>1, <3>1
    <2>2. CASE k # h
        <3>1. i \in BR!Answers(k) /\ j \in BR!Answers(k)
            BY <1>13, <2>2
        <3>2. i \in DOMAIN fetch.heard
            BY <3>1 DEF BR!Answers
        <3> QED
            BY <1>2, <1>8, <1>11, <1>14, <3>1, <3>2
    <2> QED
        BY <2>1, <2>2
<1>17. Fetching'
    BY <1>1, <1>2, <1>10, <1>11, <1>14, <1>15, <1>16 DEF Fetching
<1> QED
    BY <1>12, <1>17 DEF RelayInv

\* A fetch that breaks or ends.
LEMMA EndingSteps ==
    ASSUME RelayAssumption, RelayInv, BR!UpstreamBreaks \/ BR!LinkBreaks \/ BR!FetchEnds
    PROVE  RelayInv'
<1>1. /\ fetch.state = "open" /\ fetch.swallowed = FALSE
      /\ FetchTyped(fetch) /\ fetch \in Fetches
      /\ job # None /\ JobTyped(job) /\ UNCHANGED job /\ UNCHANGED seen
    BY DEF BR!UpstreamBreaks, BR!LinkBreaks, BR!FetchEnds, RelayInv, BatchTyped, FetchTyped,
           Fetches
<1>2. ASSUME FetchTyped(fetch')
      PROVE  BatchTyped' /\ ShownTrue'
    BY <1>1, <1>2 DEF RelayInv, BatchTyped, ShownTrue
<1>3. CASE fetch' = [fetch EXCEPT !.state = "failed"]
    <2>1. /\ fetch' \in Fetches /\ fetch'.state = "failed" /\ fetch'.heard = fetch.heard
          /\ fetch'.read = fetch.read
        BY <1>1, <1>3 DEF Fetches
    <2>2. FetchTyped(fetch')
        BY <1>1, <2>1 DEF FetchTyped
    <2>3. Fetching'
        BY <2>1 DEF Fetching
    <2> QED
        BY <1>2, <2>2, <2>3 DEF RelayInv
<1>4. CASE BR!UpstreamBreaks /\ job.between # 0
    <2>1. BR!LlmleafBatchResultLine(BR!TrailingLine) = <<>>
        <3>1. BR!Error("errored", 0) # None
            BY DEF RelayAssumption
        <3> QED
            BY <3>1 DEF BR!LlmleafBatchResultLine, BR!TrailingLine, BR!Line
    <2>2. fetch.heard \in Seq(Answered)
        BY <1>1 DEF Fetches
    <2>3. fetch.heard \o <<>> = fetch.heard
        BY <2>2
    <2>4. fetch' = [fetch EXCEPT !.state = "over", !.swallowed = TRUE, !.heard = fetch.heard]
        BY <1>4, <2>1, <2>3 DEF BR!UpstreamBreaks
    <2>5. /\ fetch' \in Fetches /\ fetch'.state = "over" /\ fetch'.heard = fetch.heard
          /\ fetch'.read = fetch.read /\ fetch'.swallowed = TRUE
        BY <1>1, <2>2, <2>4 DEF Fetches
    <2>6. FetchTyped(fetch')
        BY <1>1, <2>5 DEF FetchTyped
    <2>7. Fetching'
        BY <2>5 DEF Fetching
    <2> QED
        BY <1>2, <2>6, <2>7 DEF RelayInv
<1>5. CASE BR!FetchEnds
    <2>1. fetch' = [fetch EXCEPT !.state = "over"] /\ fetch.lines = <<>>
        BY <1>5 DEF BR!FetchEnds
    <2>2. /\ fetch' \in Fetches /\ fetch'.state = "over" /\ fetch'.heard = fetch.heard
          /\ fetch'.read = fetch.read /\ fetch'.swallowed = FALSE /\ fetch'.lines = fetch.lines
          /\ fetch'.early = fetch.early
        BY <1>1, <2>1 DEF Fetches
    <2>3. FetchTyped(fetch')
        BY <1>1, <2>1, <2>2 DEF FetchTyped
    <2>4. /\ BR!Ended' = BR!Ended /\ \A k : BR!Expected(k)' = BR!Expected(k)
          /\ \A k : Due(k)' = Due(k)
        BY <1>1 DEF BR!Ended, BR!Expected, Due
    <2>5. \A k : BR!Answers(k)' = BR!Answers(k)
        BY <2>2 DEF BR!Answers
    <2>6. Fetching'
        BY <1>1, <2>2, <2>4, <2>5 DEF RelayInv, Fetching
    <2> QED
        BY <1>2, <2>3, <2>6 DEF RelayInv
<1> QED
    BY <1>3, <1>4, <1>5 DEF BR!UpstreamBreaks, BR!LinkBreaks

\* A batch whose requests settle.
LEMMA OutcomesMove ==
    ASSUME RelayAssumption, JobTyped(job), NEW to \in Stages,
           NEW outcome \in [DOMAIN job.asked -> Settlements],
           job.flavor \notin BR!FileBased => \A k \in DOMAIN job.asked : outcome[k] \notin FileOnly,
           job' = [job EXCEPT !.stage = to, !.outcome = outcome]
    PROVE  JobTyped(job') /\ job'.flavor = job.flavor
<1>1. DOMAIN job.asked = 1..Len(job.asked) /\ Len(job.asked) \in 1..MaxRequests
    BY Requests DEF JobTyped
<1>2. outcome \in UNION {[1..n -> Settlements] : n \in 1..MaxRequests}
    BY <1>1
<1>3. /\ job' \in Jobs /\ job'.flavor = job.flavor /\ job'.between = job.between
      /\ job'.asked = job.asked /\ job'.stage = to /\ job'.ran = job.ran
      /\ job'.outcome = outcome
    BY <1>2 DEF JobTyped, Jobs
<1> QED
    BY <1>3 DEF JobTyped

\* The upstream works on a batch that has not ended.
LEMMA UpstreamStep ==
    ASSUME RelayAssumption, RelayInv, BR!UpstreamWorks
    PROVE  RelayInv'
<1>1. job # None /\ JobTyped(job) /\ UNCHANGED fetch /\ UNCHANGED seen
    BY DEF BR!UpstreamWorks, RelayInv, BatchTyped
<1>2. JobTyped(job') /\ job'.flavor = job.flavor /\ ~BR!Ended
    <2>1. ASSUME NEW from \in {"validating", "in_progress", "finalizing", "canceling"},
                 NEW to \in Stages, BR!Move(from, to)
          PROVE  JobTyped(job') /\ job'.flavor = job.flavor /\ ~BR!Ended
        <3>1. job' = [job EXCEPT !.stage = to] /\ job.stage = from
            BY <2>1 DEF BR!Move
        <3>2. ~BR!Ended
            BY <3>1 DEF BR!Ended, BR!EndStages
        <3> QED
            BY <1>1, <3>1, <3>2, StageMoves
    <2>2. ASSUME NEW k \in DOMAIN job.outcome, NEW o \in BR!Outcomes, BR!Settle(k, o)
          PROVE  JobTyped(job') /\ job'.flavor = job.flavor /\ ~BR!Ended
        <3> DEFINE outcome == [job.outcome EXCEPT ![k] = o]
        <3>1. /\ job.outcome \in [DOMAIN job.asked -> Settlements]
              /\ job \in Jobs /\ job.stage \in Stages
              /\ job.flavor \notin BR!FileBased =>
                    \A x \in DOMAIN job.asked : job.outcome[x] \notin FileOnly
            BY <1>1 DEF JobTyped
        <3>2. o \in Settlements /\ (job.flavor \notin BR!FileBased => o \notin FileOnly)
            BY DEF BR!Outcomes, Settlements, FileOnly
        <3>3. outcome \in [DOMAIN job.asked -> Settlements]
            BY <3>1, <3>2
        <3>4. job.flavor \notin BR!FileBased => \A x \in DOMAIN job.asked : outcome[x] \notin FileOnly
            BY <3>1, <3>2
        <3>5. job' = [job EXCEPT !.outcome = outcome] /\ ~BR!Ended
            BY <2>2 DEF BR!Settle, BR!Ended, BR!EndStages
        <3> HIDE DEF outcome
        <3>6. job' = [job EXCEPT !.stage = job.stage, !.outcome = outcome]
            BY <3>1, <3>5 DEF Jobs
        <3> QED
            BY <1>1, <3>1, <3>3, <3>4, <3>5, <3>6, OutcomesMove
    <2>3. CASE BR!Expires
        <3> DEFINE outcome == [k \in DOMAIN job.outcome |->
                                  IF job.outcome[k] = None THEN "expired" ELSE job.outcome[k]]
        <3>1. /\ job.outcome \in [DOMAIN job.asked -> Settlements]
              /\ job.flavor \notin BR!FileBased =>
                    \A x \in DOMAIN job.asked : job.outcome[x] \notin FileOnly
            BY <1>1 DEF JobTyped
        <3>2. outcome \in [DOMAIN job.asked -> Settlements]
            BY <3>1 DEF Settlements
        <3>3. job.flavor \notin BR!FileBased => \A x \in DOMAIN job.asked : outcome[x] \notin FileOnly
            BY <3>1 DEF FileOnly
        <3>4. job' = [job EXCEPT !.stage = "expired", !.outcome = outcome] /\ ~BR!Ended
            BY <2>3 DEF BR!Expires, BR!Ended, BR!EndStages
        <3>5. "expired" \in Stages
            BY DEF Stages, BR!EndStages
        <3> HIDE DEF outcome
        <3> QED
            BY <1>1, <3>2, <3>3, <3>4, <3>5, OutcomesMove
    <2>4. /\ "in_progress" \in Stages /\ "failed" \in Stages /\ "finalizing" \in Stages
          /\ "completed" \in Stages /\ "canceled" \in Stages
        BY DEF Stages, BR!EndStages
    <2> QED
        BY <2>1, <2>2, <2>3, <2>4 DEF BR!UpstreamWorks
<1> QED
    BY <1>1, <1>2, BatchMoves DEF RelayInv

\* RelayInv holds in every state.
LEMMA RelayKept == ASSUME RelayAssumption PROVE BR!Spec => []RelayInv
<1>1. BR!Init => RelayInv
    BY RelayInit
<1>2. RelayInv /\ [BR!Next]_BR!vars => RelayInv'
    <2> SUFFICES ASSUME RelayInv, [BR!Next]_BR!vars PROVE RelayInv'
        OBVIOUS
    <2>1. CASE UNCHANGED BR!vars
        BY <2>1
        DEF BR!vars, RelayInv, BatchTyped, ShownTrue, Fetching, BR!Ended, Due, BR!Answers,
            BR!Expected
    <2>2. ASSUME NEW flavor \in Flavors, NEW between \in Between, NEW asked \in BR!Batches,
                 BR!BatchCreate(flavor, between, asked)
          PROVE  RelayInv'
        BY <2>2, BatchMadeStep
    <2>3. CASE BR!BatchRetrieve
        BY <2>3, RetrieveStep
    <2>4. CASE BR!BatchCancel
        BY <2>4, BatchCanceledStep
    <2>5. CASE BR!BatchResults
        BY <2>5, OpenStep
    <2>6. CASE BR!NextLine
        BY <2>6, NextLineStep
    <2>7. CASE BR!UpstreamBreaks \/ BR!LinkBreaks \/ BR!FetchEnds
        BY <2>7, EndingSteps
    <2>8. CASE BR!UpstreamWorks
        BY <2>8, UpstreamStep
    <2> QED
        BY <2>1, <2>2, <2>3, <2>4, <2>5, <2>6, <2>7, <2>8 DEF BR!Next
<1> QED
    BY <1>1, <1>2, PTL DEF BR!Spec

-----------------------------------------------------------------------------
(* The theorems. *)

\* The batch, what is shown of it and the fetch of its results keep their types; a fetch that
\* was refused has told nothing.
THEOREM BatchRelayTypeOK == ASSUME RelayAssumption PROVE BR!Spec => []BR!TypeOK
<1>1. RelayInv => BR!TypeOK
    <2> SUFFICES ASSUME RelayInv PROVE BR!TypeOK
        OBVIOUS
    <2>1. ASSUME job # None
          PROVE  /\ job.flavor \in Flavors /\ job.between \in Between /\ job.asked \in BR!Batches
                 /\ job.stage \in BR!EndStages
                       \cup {"validating", "in_progress", "finalizing", "canceling"}
                 /\ DOMAIN job.outcome = DOMAIN job.asked /\ DOMAIN job.ran = DOMAIN job.asked
        <3>1. JobTyped(job)
            BY <2>1 DEF RelayInv, BatchTyped
        <3>2. DOMAIN job.ran = DOMAIN job.asked
            BY <3>1 DEF JobTyped, BR!ModelsRun
        <3> QED
            BY <3>1, <3>2 DEF JobTyped, Stages
    <2>2. /\ fetch.state \in {"none", "refused", "open", "over", "failed"}
          /\ fetch.state = "refused" => fetch.heard = <<>>
        BY DEF RelayInv, BatchTyped, FetchTyped, Fetches
    <2> QED
        BY <2>1, <2>2 DEF BR!TypeOK
<1> QED
    BY <1>1, RelayKept, PTL

\* map_batch_status and its likes: whatever an upstream calls a stage, its batch is shown as ended
\* exactly when it had ended.
THEOREM BatchStatusTrue == ASSUME RelayAssumption PROVE BR!Spec => []BR!StatusTrue
<1>1. RelayInv => BR!StatusTrue
    <2> SUFFICES ASSUME RelayInv, seen # None,
                        ~(job.flavor = "gemini" /\ seen.handle.status = "canceling")
                 PROVE  (seen.handle.status \in BR!EndStages) = seen.ended
        BY DEF BR!StatusTrue
    <2>1. (seen.handle.status \in BR!EndStages <=> seen.ended) /\ seen.ended \in BOOLEAN
        BY DEF RelayInv, ShownTrue
    <2>2. CASE seen.ended = TRUE
        BY <2>1, <2>2
    <2>3. CASE seen.ended = FALSE
        BY <2>1, <2>3
    <2> QED
        BY <2>1, <2>2, <2>3
<1> QED
    BY <1>1, RelayKept, PTL

\* handle_to_json, result_to_line and what the next node makes of them: a consumer behind a second
\* node sees the batch object and hears the results that the node at the upstream read.
THEOREM BatchHopTransparent == ASSUME RelayAssumption PROVE BR!Spec => []BR!HopTransparent
<1>1. RelayInv => BR!HopTransparent
    BY DEF RelayInv, BatchTyped, FetchTyped, ShownTrue, BR!HopTransparent
<1> QED
    BY <1>1, RelayKept, PTL

\* batch_results: a fetch that ends without an error gave each request's outcome once, under its
\* own id, of a batch that had ended.
THEOREM BatchResultsWhole == ASSUME RelayAssumption PROVE BR!Spec => []BR!ResultsWhole
<1>1. RelayInv => BR!ResultsWhole
    <2> SUFFICES ASSUME RelayInv, fetch.state = "over", ~fetch.swallowed, ~fetch.early
                 PROVE  /\ BR!Ended
                        /\ \A k \in DOMAIN job.asked :
                              /\ BR!Answers(k) = {} <=> BR!Expected(k) = <<>>
                              /\ \A i, j \in BR!Answers(k) :
                                    i = j /\ BR!Expected(k) = <<fetch.heard[i]>>
        BY DEF BR!ResultsWhole
    <2>1. /\ BR!Ended /\ fetch.lines = <<>>
          /\ Lists(fetch.lines, {k \in DOMAIN job.asked : Due(k) /\ BR!Answers(k) = {}})
          /\ \A k \in DOMAIN job.asked : \A i, j \in BR!Answers(k) :
                i = j /\ BR!Expected(k) = <<fetch.heard[i]>>
          /\ JobTyped(job)
        BY DEF RelayInv, BatchTyped, FetchTyped, Fetching
    <2>2. ASSUME NEW k \in DOMAIN job.asked
          PROVE  BR!Answers(k) = {} <=> BR!Expected(k) = <<>>
        <3>1. BR!Answers(k) # {} => BR!Expected(k) # <<>>
            BY <2>1
        <3>2. BR!Answers(k) = {} => ~Due(k)
            <4>1. Len(fetch.lines) = 0
                BY <2>1
            <4> QED
                BY <2>1, <4>1 DEF Lists
        <3>3. ~Due(k) => BR!Expected(k) = <<>>
            BY <2>1, ResultRead
        <3> QED
            BY <3>1, <3>2, <3>3
    <2> QED
        BY <2>1, <2>2
<1> QED
    BY <1>1, RelayKept, PTL

-----------------------------------------------------------------------------
(***************************************************************************)
(* The far end of a stream: ClientStreams for every SDK, every surface and *)
(* any number of frames.  The invariant says of the lines nobody has read  *)
(* that their numbers grow, that no frame follows an end and that a        *)
(* failure is told before it; and of what a caller got, that it and what   *)
(* is still to come are what was said.                                     *)
(***************************************************************************)
CONSTANTS Sdks, Surfaces, MaxFrames
VARIABLES feed, reader

CS == INSTANCE ClientStreams

-----------------------------------------------------------------------------
(* The far end of a stream. *)

\* Lines, and the records of both sides.
Frames == [kind : CS!Said \cup {"blank", "error", "done"}, n : Nat]
Feeds ==
    [surface : Surfaces, said : Seq(CS!Said), lines : Seq(Frames),
     state : {"open", "finished", "failed"}, link : {"up", "broken", "closed"}, lost : SUBSET Nat]
Readers ==
    [sdk : Sdks, pending : Frames \cup {None}, got : Seq(Nat), told : BOOLEAN,
     state : {"open", "ended"}]

\* What the proofs assume of the constants: None is no line.
ClientAssumption ==
    /\ Sdks \subseteq {"rust", "go", "typescript", "csharp", "kotlin", "zig"}
    /\ Surfaces \subseteq {"chat", "responses", "batch"}
    /\ None \notin Frames

\* The frames of a run of lines: their numbers grow, none follows an end, and a blank line follows
\* each.
Numbers(lines) == {lines[i].n : i \in 1..Len(lines)} \ {0}
Growing(lines) ==
    \A i, j \in 1..Len(lines) :
        i < j /\ lines[i].n # 0 /\ lines[j].n # 0 => lines[i].n < lines[j].n
Concluded(lines) ==
    \A i, j \in 1..Len(lines) : i < j /\ lines[i].kind \in {"done", "terminal"} => lines[j].n = 0
Spaced(lines) ==
    \A i, j \in 1..Len(lines) : j = i + 1 /\ lines[i].kind # "blank" => lines[j].kind = "blank"
\* A failed stream says so before it ends.
Warned(lines) ==
    \A j \in 1..Len(lines) : lines[j].kind = "done" =>
        \E i \in 1..Len(lines) : i < j /\ lines[i].kind = "error"

\* A line is one that the node has written.
Genuine(s, f) ==
    /\ f \in Frames
    /\ f.kind \in CS!Said => f.n \in 1..Len(s.said) /\ s.said[f.n] = f.kind
    /\ f.kind \notin CS!Said => f.n = 0
    /\ f.kind \in {"other", "terminal"} => s.surface = "responses"
    /\ f.kind = "terminal" => s.state = "finished"
    /\ f.kind = "done" => s.surface = "chat" /\ s.state # "open"
    /\ f.kind = "error" => s.state = "failed"

Written ==
    /\ \A i \in 1..Len(feed.lines) : Genuine(feed, feed.lines[i])
    /\ Growing(feed.lines) /\ Concluded(feed.lines)
    /\ feed.surface # "batch" => Spaced(feed.lines)
    /\ feed.link = "up" => feed.lost = {}
    /\ feed.link = "up" /\ feed.surface # "batch" /\ feed.lines # <<>> =>
          feed.lines[Len(feed.lines)].kind = "blank"
    /\ \A n \in Numbers(feed.lines), lost \in feed.lost : n < lost

\* The event that waits for its blank line.
Waiting ==
    reader.pending # None =>
        /\ Genuine(feed, reader.pending) /\ reader.pending.kind \notin {"blank", "done"}
        /\ reader.sdk \in CS!AtBlank /\ feed.surface # "batch"
        /\ \A n \in Numbers(feed.lines) \cup feed.lost : reader.pending.n < n
        /\ reader.pending.kind = "terminal" => Numbers(feed.lines) = {}
        /\ feed.lines # <<>> => feed.lines[1].kind = "blank"
        /\ feed.lines = <<>> => feed.link # "up"

\* What was got grew and was meant, and what is meant and was not got is still to come.
Progress(meant, got, rest) ==
    /\ \A i, j \in 1..Len(got) : i < j /\ got[i] # 0 /\ got[j] # 0 => got[i] < got[j]
    /\ \A i \in 1..Len(got) : got[i] # 0 => got[i] \in meant /\ \A n \in rest : got[i] < n
    /\ \A n \in meant : n \in rest \/ \E i \in 1..Len(got) : got[i] = n

Held == IF reader.pending = None THEN {} ELSE {reader.pending.n} \ {0}
Reading == Progress(CS!Meant, reader.got, Numbers(feed.lines) \cup Held \cup feed.lost)

\* A failure is told, or about to be, where it can be.
Alarms ==
    feed.state = "failed" /\ ~CS!Mute /\ ~reader.told =>
        /\ Warned(feed.lines)
        /\ feed.link = "up" =>
              \/ \E i \in 1..Len(feed.lines) : feed.lines[i].kind = "error"
              \/ reader.pending # None /\ reader.pending.kind = "error"

ClientTyped == feed \in Feeds /\ reader \in Readers /\ feed.lost \subseteq 1..Len(feed.said)
ClientWorks == reader.state = "open" => Written /\ Waiting /\ Reading /\ Alarms
ClientInv == ClientTyped /\ ClientWorks /\ CS!InOrder /\ CS!EndMeansWhole /\ CS!NoFalseAlarm

-----------------------------------------------------------------------------
(* Runs of lines. *)

\* A run of lines cut out of another keeps its shape.
LEMMA CutLines ==
    ASSUME NEW lines \in Seq(Frames), NEW part \in Seq(Frames), NEW d \in Nat,
           d + Len(part) <= Len(lines), \A i \in 1..Len(part) : part[i] = lines[i + d]
    PROVE  /\ Growing(lines) => Growing(part)
           /\ Concluded(lines) => Concluded(part)
           /\ Spaced(lines) => Spaced(part)
           /\ Numbers(part) \subseteq Numbers(lines)
<1>1. Len(lines) \in Nat /\ Len(part) \in Nat
    OBVIOUS
<1>2. ASSUME NEW i \in 1..Len(part)
      PROVE  i + d \in 1..Len(lines) /\ part[i] = lines[i + d]
    BY <1>1
<1>3. ASSUME NEW i \in 1..Len(part), NEW j \in 1..Len(part), i < j
      PROVE  i + d < j + d
    BY <1>1, <1>3
<1>4. ASSUME NEW i \in 1..Len(part), NEW j \in 1..Len(part), j = i + 1
      PROVE  j + d = (i + d) + 1
    BY <1>1, <1>4
<1>5. Growing(lines) => Growing(part)
    <2> SUFFICES ASSUME Growing(lines), NEW i \in 1..Len(part), NEW j \in 1..Len(part), i < j,
                        part[i].n # 0, part[j].n # 0
                 PROVE  part[i].n < part[j].n
        BY DEF Growing
    <2> QED
        BY <1>2, <1>3 DEF Growing
<1>6. Concluded(lines) => Concluded(part)
    <2> SUFFICES ASSUME Concluded(lines), NEW i \in 1..Len(part), NEW j \in 1..Len(part), i < j,
                        part[i].kind \in {"done", "terminal"}
                 PROVE  part[j].n = 0
        BY DEF Concluded
    <2> QED
        BY <1>2, <1>3 DEF Concluded
<1>7. Spaced(lines) => Spaced(part)
    <2> SUFFICES ASSUME Spaced(lines), NEW i \in 1..Len(part), NEW j \in 1..Len(part), j = i + 1,
                        part[i].kind # "blank"
                 PROVE  part[j].kind = "blank"
        BY DEF Spaced
    <2> QED
        BY <1>2, <1>4 DEF Spaced
<1>8. Numbers(part) \subseteq Numbers(lines)
    BY <1>2 DEF Numbers
<1> QED
    BY <1>5, <1>6, <1>7, <1>8

\* The first line, and the others.
LEMMA FirstLine ==
    ASSUME NEW lines \in Seq(Frames), lines # <<>>
    PROVE  /\ Head(lines) = lines[1] /\ Head(lines) \in Frames /\ Tail(lines) \in Seq(Frames)
           /\ 1 \in 1..Len(lines) /\ Len(Tail(lines)) = Len(lines) - 1 /\ Len(lines) \in Nat
           /\ \A i \in 1..Len(Tail(lines)) :
                 i + 1 \in 1..Len(lines) /\ Tail(lines)[i] = lines[i + 1]
           /\ Numbers(lines) = ({Head(lines).n} \cup Numbers(Tail(lines))) \ {0}
           /\ Growing(lines) => Growing(Tail(lines))
           /\ Concluded(lines) => Concluded(Tail(lines))
           /\ Spaced(lines) => Spaced(Tail(lines))
<1> DEFINE t == Tail(lines)
<1>1. /\ Head(lines) = lines[1] /\ Head(lines) \in Frames /\ t \in Seq(Frames)
      /\ Len(lines) \in Nat /\ Len(lines) >= 1 /\ Len(t) = Len(lines) - 1
      /\ \A i \in 1..Len(t) : t[i] = lines[i + 1]
    OBVIOUS
<1> HIDE DEF t
<1>2. 1 \in 1..Len(lines) /\ \A i \in 1..Len(t) : i + 1 \in 1..Len(lines)
    BY <1>1
<1>3. 1 + Len(t) <= Len(lines)
    BY <1>1
<1>4. /\ Growing(lines) => Growing(t)
      /\ Concluded(lines) => Concluded(t)
      /\ Spaced(lines) => Spaced(t)
    BY <1>1, <1>3, CutLines
<1>5. Numbers(lines) = ({Head(lines).n} \cup Numbers(t)) \ {0}
    <2>1. ASSUME NEW i \in 1..Len(lines)
          PROVE  i = 1 \/ (i - 1 \in 1..Len(t) /\ t[i - 1] = lines[i])
        BY <1>1
    <2> QED
        BY <1>1, <1>2, <2>1 DEF Numbers
<1> QED
    BY <1>1, <1>2, <1>4, <1>5 DEF t

\* Lines added to lines.
LEMMA LinesAdded ==
    ASSUME NEW a \in Seq(Frames), NEW b \in Seq(Frames)
    PROVE  /\ a \o b \in Seq(Frames) /\ Len(a \o b) = Len(a) + Len(b)
           /\ Len(a) \in Nat /\ Len(b) \in Nat
           /\ \A i \in 1..Len(a) : i \in 1..Len(a \o b) /\ (a \o b)[i] = a[i]
           /\ \A i \in 1..Len(b) :
                 Len(a) + i \in 1..Len(a \o b) /\ (a \o b)[Len(a) + i] = b[i]
           /\ \A i \in 1..Len(a \o b) :
                 \/ i \in 1..Len(a) /\ (a \o b)[i] = a[i]
                 \/ i - Len(a) \in 1..Len(b) /\ (a \o b)[i] = b[i - Len(a)]
           /\ Numbers(a \o b) = Numbers(a) \cup Numbers(b)
<1> DEFINE c == a \o b
<1>1. /\ c \in Seq(Frames) /\ Len(c) = Len(a) + Len(b) /\ Len(a) \in Nat /\ Len(b) \in Nat
      /\ \A i \in 1..Len(c) : c[i] = IF i <= Len(a) THEN a[i] ELSE b[i - Len(a)]
    OBVIOUS
<1> HIDE DEF c
<1>2. \A i \in 1..Len(a) : i \in 1..Len(c) /\ c[i] = a[i]
    BY <1>1
<1>3. \A i \in 1..Len(b) : Len(a) + i \in 1..Len(c) /\ c[Len(a) + i] = b[i]
    <2> SUFFICES ASSUME NEW i \in 1..Len(b)
                 PROVE  Len(a) + i \in 1..Len(c) /\ c[Len(a) + i] = b[i]
        OBVIOUS
    <2>1. Len(a) + i \in 1..Len(c) /\ ~(Len(a) + i <= Len(a)) /\ (Len(a) + i) - Len(a) = i
        BY <1>1
    <2> QED
        BY <1>1, <2>1
<1>4. \A i \in 1..Len(c) :
          \/ i \in 1..Len(a) /\ c[i] = a[i]
          \/ i - Len(a) \in 1..Len(b) /\ c[i] = b[i - Len(a)]
    BY <1>1
<1>5. Numbers(c) = Numbers(a) \cup Numbers(b)
    <2>1. ASSUME NEW n \in Numbers(c)
          PROVE  n \in Numbers(a) \cup Numbers(b)
        BY <1>4, <2>1 DEF Numbers
    <2>2. ASSUME NEW n \in Numbers(a)
          PROVE  n \in Numbers(c)
        BY <1>2, <2>2 DEF Numbers
    <2>3. ASSUME NEW n \in Numbers(b)
          PROVE  n \in Numbers(c)
        BY <1>3, <2>3 DEF Numbers
    <2> QED
        BY <2>1, <2>2, <2>3
<1> QED
    BY <1>1, <1>2, <1>3, <1>4, <1>5 DEF c

-----------------------------------------------------------------------------
(* What a caller got. *)

\* A frame of nothing changes nothing.
LEMMA ProgressNothing ==
    ASSUME NEW meant \in SUBSET Nat, NEW got \in Seq(Nat), NEW rest, Progress(meant, got, rest),
           0 \notin meant
    PROVE  Progress(meant, Append(got, 0), rest)
<1> DEFINE more == Append(got, 0)
<1>1. /\ Len(more) = Len(got) + 1 /\ Len(got) \in Nat /\ more[Len(got) + 1] = 0
      /\ \A i \in 1..Len(got) : more[i] = got[i]
    OBVIOUS
<1> HIDE DEF more
<1>2. \A i \in 1..Len(got) : i \in 1..Len(more) /\ more[i] = got[i]
    BY <1>1
<1>3. \A i \in 1..Len(more) : more[i] # 0 => i \in 1..Len(got) /\ more[i] = got[i]
    BY <1>1
<1>4. Progress(meant, more, rest)
    BY <1>2, <1>3 DEF Progress
<1> QED
    BY <1>4 DEF more

\* The next frame is got, or not meant.
LEMMA ProgressFrame ==
    ASSUME NEW meant \in SUBSET Nat, NEW got \in Seq(Nat), NEW rest \in SUBSET Nat,
           NEW n \in Nat, n # 0, \A m \in rest : n < m, Progress(meant, got, {n} \cup rest)
    PROVE  /\ n \in meant => Progress(meant, Append(got, n), rest)
           /\ n \notin meant => Progress(meant, got, rest)
<1> DEFINE more == Append(got, n)
           last == Len(got) + 1
<1>1. /\ Len(more) = last /\ Len(got) \in Nat /\ more[last] = n
      /\ \A i \in 1..Len(got) : more[i] = got[i]
    OBVIOUS
<1>2. /\ last \in 1..Len(more) /\ \A i \in 1..Len(got) : i \in 1..Len(more) /\ i < last
      /\ \A i \in 1..Len(more) : i = last \/ i \in 1..Len(got)
      /\ \A i \in 1..Len(more) : ~(last < i)
    BY <1>1
<1> HIDE DEF more, last
<1>3. n \notin meant => Progress(meant, got, rest)
    BY DEF Progress
<1>4. ASSUME n \in meant
      PROVE  Progress(meant, more, rest)
    <2>1. ASSUME NEW i \in 1..Len(more), NEW j \in 1..Len(more), i < j, more[i] # 0, more[j] # 0
          PROVE  more[i] < more[j]
        <3>1. i \in 1..Len(got) /\ more[i] = got[i]
            BY <1>1, <1>2, <2>1
        <3>2. CASE j = last
            BY <1>1, <2>1, <3>1, <3>2 DEF Progress
        <3>3. CASE j \in 1..Len(got)
            <4>1. more[j] = got[j]
                BY <1>1, <3>3
            <4> QED
                BY <2>1, <3>1, <3>3, <4>1 DEF Progress
        <3> QED
            BY <1>2, <3>2, <3>3
    <2>2. ASSUME NEW i \in 1..Len(more), more[i] # 0
          PROVE  more[i] \in meant /\ \A m \in rest : more[i] < m
        <3>1. CASE i = last
            BY <1>1, <1>4, <3>1
        <3>2. CASE i \in 1..Len(got)
            <4>1. more[i] = got[i]
                BY <1>1, <3>2
            <4> QED
                BY <2>2, <3>2, <4>1 DEF Progress
        <3> QED
            BY <1>2, <3>1, <3>2
    <2>3. ASSUME NEW m \in meant
          PROVE  m \in rest \/ \E i \in 1..Len(more) : more[i] = m
        <3>1. CASE m = n
            BY <1>1, <1>2, <3>1
        <3>2. CASE m # n
            <4>1. m \in rest \/ \E i \in 1..Len(got) : got[i] = m
                BY <3>2 DEF Progress
            <4> QED
                BY <1>1, <1>2, <4>1
        <3> QED
            BY <3>1, <3>2
    <2> QED
        BY <2>1, <2>2, <2>3 DEF Progress
<1> QED
    BY <1>3, <1>4 DEF more

\* Progress is order, and the whole once nothing is to come but what was lost.
LEMMA ProgressOrder ==
    \A rest : Progress(CS!Meant, reader.got, rest) /\ reader.got \in Seq(Nat) =>
        /\ CS!InOrder
        /\ rest = feed.lost /\ feed.lost \subseteq Nat => CS!Heard = CS!Meant \ feed.lost
<1> SUFFICES ASSUME NEW rest, Progress(CS!Meant, reader.got, rest), reader.got \in Seq(Nat)
             PROVE  /\ CS!InOrder
                    /\ rest = feed.lost /\ feed.lost \subseteq Nat => CS!Heard = CS!Meant \ feed.lost
    OBVIOUS
<1>1. DOMAIN reader.got = 1..Len(reader.got) /\ CS!Meant \subseteq Nat
    BY DEF CS!Meant
<1>2. /\ \A i \in 1..Len(reader.got) : reader.got[i] # 0 => reader.got[i] \in CS!Heard
      /\ \A n \in CS!Heard : n # 0 /\ \E i \in 1..Len(reader.got) : reader.got[i] = n
    BY <1>1 DEF CS!Heard
<1>3. CS!Heard \subseteq CS!Meant /\ \A n \in CS!Heard, m \in rest : n < m
    BY <1>2 DEF Progress
<1>4. 0 \notin CS!Meant
    BY DEF CS!Meant
<1>5. \A m \in CS!Meant \ CS!Heard : m \in rest
    BY <1>2, <1>4 DEF Progress
<1>6. ASSUME NEW i \in 1..Len(reader.got), NEW j \in 1..Len(reader.got), i < j,
             {reader.got[i], reader.got[j]} \subseteq CS!Heard
      PROVE  reader.got[i] < reader.got[j]
    BY <1>2, <1>6 DEF Progress
<1>7. CS!InOrder
    BY <1>1, <1>3, <1>5, <1>6 DEF CS!InOrder
<1>8. ASSUME rest = feed.lost, feed.lost \subseteq Nat
      PROVE  CS!Heard = CS!Meant \ feed.lost
    <2>1. \A n \in CS!Heard : n \notin rest
        <3>1. \A n \in CS!Heard : n \in Nat
            BY <1>1, <1>3
        <3> QED
            BY <1>3, <3>1
    <2> QED
        BY <1>3, <1>5, <1>8, <2>1
<1> QED
    BY <1>7, <1>8

-----------------------------------------------------------------------------
(* What an iterator does with one event. *)

\* The kinds of an event on each surface.
Kinds(surface) ==
    CASE surface = "chat" -> {"item", "large", "error", "done"}
      [] surface = "responses" -> {"item", "large", "other", "terminal", "error"}
      [] surface = "batch" -> {"item", "large", "error"}

\* What is common to the eighteen handlers.
Handled(r, f, after) ==
    /\ after \in Readers /\ after.sdk = r.sdk /\ after.pending = r.pending
    /\ f.kind \in CS!Said =>
          /\ after.told = r.told
          /\ after.state = IF f.kind = "terminal" THEN "ended" ELSE r.state
          /\ after.got = IF f.kind = "other" /\ r.sdk \notin {"rust", "zig"} THEN r.got
                         ELSE Append(r.got, f.n)
    /\ f.kind = "error" =>
          /\ after.got \in {r.got, Append(r.got, 0)}
          /\ after.told \/ (after.told = r.told /\ feed.surface = "chat" /\ r.sdk \in CS!AtBlank)
          /\ after.state = "ended" => after.told
    /\ f.kind = "done" => after.got = r.got /\ after.told = r.told /\ after.state = "ended"

\* The steps of the handlers.
LEMMA HandStep ==
    ASSUME NEW r \in Readers, NEW n \in Nat
    PROVE  /\ CS!Hand(r, n) \in Readers /\ CS!Hand(r, n).sdk = r.sdk
           /\ CS!Hand(r, n).pending = r.pending
           /\ CS!Hand(r, n).got = Append(r.got, n) /\ CS!Hand(r, n).told = r.told
           /\ CS!Hand(r, n).state = r.state
<1>1. Append(r.got, n) \in Seq(Nat)
    BY DEF Readers
<1> DEFINE more == Append(r.got, n)
<1> HIDE DEF more
<1>2. CS!Hand(r, n) = [r EXCEPT !.got = more]
    BY DEF CS!Hand, more
<1>3. /\ CS!Hand(r, n) \in Readers /\ CS!Hand(r, n).sdk = r.sdk /\ CS!Hand(r, n).pending = r.pending
      /\ CS!Hand(r, n).got = more /\ CS!Hand(r, n).told = r.told /\ CS!Hand(r, n).state = r.state
    BY <1>1, <1>2 DEF Readers, more
<1> QED
    BY <1>3 DEF more

LEMMA StopStep ==
    ASSUME NEW r \in Readers
    PROVE  /\ CS!Stop(r) \in Readers /\ CS!Stop(r).sdk = r.sdk /\ CS!Stop(r).pending = r.pending
           /\ CS!Stop(r).got = r.got /\ CS!Stop(r).told = r.told /\ CS!Stop(r).state = "ended"
BY DEF CS!Stop, Readers

LEMMA HurtStep ==
    ASSUME NEW r \in Readers
    PROVE  /\ CS!Hurt(r) \in Readers /\ CS!Hurt(r).sdk = r.sdk /\ CS!Hurt(r).pending = r.pending
           /\ CS!Hurt(r).got = r.got /\ CS!Hurt(r).told = TRUE /\ CS!Hurt(r).state = r.state
BY DEF CS!Hurt, Readers

LEMMA RaiseStep ==
    ASSUME NEW r \in Readers
    PROVE  /\ CS!Raise(r) \in Readers /\ CS!Raise(r).sdk = r.sdk /\ CS!Raise(r).pending = r.pending
           /\ CS!Raise(r).got = r.got /\ CS!Raise(r).told = TRUE /\ CS!Raise(r).state = "ended"
<1>1. /\ CS!Hurt(r) \in Readers /\ CS!Hurt(r).sdk = r.sdk /\ CS!Hurt(r).pending = r.pending
      /\ CS!Hurt(r).got = r.got /\ CS!Hurt(r).told = TRUE
    BY HurtStep
<1> QED
    BY <1>1, StopStep DEF CS!Raise

LEMMA ShowErrorStep ==
    ASSUME NEW r \in Readers
    PROVE  /\ CS!ShowError(r) \in Readers /\ CS!ShowError(r).sdk = r.sdk
           /\ CS!ShowError(r).pending = r.pending /\ CS!ShowError(r).got = Append(r.got, 0)
           /\ CS!ShowError(r).told = TRUE /\ CS!ShowError(r).state = r.state
<1>1. /\ CS!Hand(r, 0) \in Readers /\ CS!Hand(r, 0).sdk = r.sdk /\ CS!Hand(r, 0).pending = r.pending
      /\ CS!Hand(r, 0).got = Append(r.got, 0) /\ CS!Hand(r, 0).state = r.state
    BY HandStep
<1> QED
    BY <1>1, HurtStep DEF CS!ShowError

\* An event that is handed over.
LEMMA TypedEventStep ==
    ASSUME NEW r \in Readers, NEW f \in Frames
    PROVE  /\ CS!TypedEvent(r, f) \in Readers /\ CS!TypedEvent(r, f).sdk = r.sdk
           /\ CS!TypedEvent(r, f).pending = r.pending /\ CS!TypedEvent(r, f).got = Append(r.got, f.n)
           /\ CS!TypedEvent(r, f).told = r.told
           /\ CS!TypedEvent(r, f).state = IF f.kind = "terminal" THEN "ended" ELSE r.state
<1>1. f.n \in Nat
    BY DEF Frames
<1>2. /\ CS!Hand(r, f.n) \in Readers /\ CS!Hand(r, f.n).sdk = r.sdk
      /\ CS!Hand(r, f.n).pending = r.pending
      /\ CS!Hand(r, f.n).got = Append(r.got, f.n) /\ CS!Hand(r, f.n).told = r.told
      /\ CS!Hand(r, f.n).state = r.state
    BY <1>1, HandStep
<1>3. CASE f.kind = "terminal"
    BY <1>2, <1>3, StopStep DEF CS!TypedEvent
<1>4. CASE f.kind # "terminal"
    BY <1>2, <1>4 DEF CS!TypedEvent
<1> QED
    BY <1>3, <1>4

\* The eighteen handlers, each of an event of its surface; the sentinel reaches three of them.
LEMMA HandleStep ==
    ASSUME ClientAssumption, feed.surface \in Surfaces, NEW r \in Readers, NEW f \in Frames,
           r.state = "open", f.kind \in Kinds(feed.surface),
           f.kind = "done" => r.sdk \notin CS!AtBlank
    PROVE  Handled(r, f, CS!Handle(r, f))
<1>1. f.n \in Nat /\ 0 \in Nat
    BY DEF Frames
<1>2. /\ r.sdk \in {"rust", "go", "typescript", "csharp", "kotlin", "zig"}
      /\ feed.surface \in {"chat", "responses", "batch"}
    BY DEF ClientAssumption, Readers
<1> DEFINE Hands(n, x) ==
               /\ x \in Readers /\ x.sdk = r.sdk /\ x.pending = r.pending
               /\ x.got = Append(r.got, n) /\ x.told = r.told /\ x.state = r.state
<1>3. Hands(f.n, CS!Hand(r, f.n)) /\ Hands(0, CS!Hand(r, 0))
    BY <1>1, HandStep
<1>4. CASE feed.surface = "chat"
    <2>1. f.kind \in {"item", "large", "error", "done"}
        BY <1>4 DEF Kinds
    <2>2. ASSUME r.sdk \in {"rust", "kotlin", "zig"}, f.kind = "done"
          PROVE  CS!Handle(r, f) = CS!Stop(r)
        BY <1>4, <2>2 DEF CS!Handle, CS!RustChat, CS!KotlinChat, CS!ZigChat
    <2>3. ASSUME f.kind \in {"item", "large"}
          PROVE  CS!Handle(r, f) = CS!Hand(r, f.n)
        BY <1>2, <1>4, <2>3
        DEF CS!Handle, CS!RustChat, CS!KotlinChat, CS!ZigChat, CS!GoChat, CS!TypeScriptChat,
            CS!CSharpChat
    <2>4. ASSUME f.kind = "error"
          PROVE  \/ r.sdk \notin CS!AtBlank /\ CS!Handle(r, f) \in {CS!Hurt(r), CS!Raise(r)}
                 \/ r.sdk \in CS!AtBlank /\ CS!Handle(r, f) = CS!Hand(r, 0)
        BY <1>2, <1>4, <2>4
        DEF CS!Handle, CS!RustChat, CS!KotlinChat, CS!ZigChat, CS!GoChat, CS!TypeScriptChat,
            CS!CSharpChat, CS!AtBlank
    <2>5. CASE f.kind = "done"
        <3>1. CS!Handle(r, f) = CS!Stop(r)
            BY <1>2, <2>2, <2>5 DEF CS!AtBlank
        <3> QED
            BY <2>5, <3>1, StopStep DEF Handled, CS!Said
    <2>6. CASE f.kind \in {"item", "large"}
        BY <1>3, <2>3, <2>6 DEF Handled, CS!Said
    <2>7. CASE f.kind = "error"
        <3>1. CASE r.sdk \notin CS!AtBlank /\ CS!Handle(r, f) = CS!Hurt(r)
            BY <2>7, <3>1, HurtStep DEF Handled, CS!Said
        <3>2. CASE r.sdk \notin CS!AtBlank /\ CS!Handle(r, f) = CS!Raise(r)
            BY <2>7, <3>2, RaiseStep DEF Handled, CS!Said
        <3>3. CASE r.sdk \in CS!AtBlank /\ CS!Handle(r, f) = CS!Hand(r, 0)
            BY <1>3, <1>4, <2>7, <3>3 DEF Handled, CS!Said
        <3> QED
            BY <2>4, <2>7, <3>1, <3>2, <3>3
    <2> QED
        BY <2>1, <2>5, <2>6, <2>7
<1>5. CASE feed.surface = "responses"
    <2>1. f.kind \in {"item", "large", "other", "terminal", "error"}
        BY <1>5 DEF Kinds
    <2>2. ASSUME f.kind = "error"
          PROVE  CS!Handle(r, f) \in {CS!Raise(r), CS!ShowError(r)}
        BY <1>2, <1>5, <2>2
        DEF CS!Handle, CS!RustResponses, CS!ZigResponses, CS!GoResponses, CS!KotlinResponses,
            CS!TypeScriptResponses, CS!CSharpResponses
    <2>3. ASSUME f.kind # "error", f.kind # "other" \/ r.sdk \in {"rust", "zig"}
          PROVE  CS!Handle(r, f) = CS!TypedEvent(r, f)
        BY <1>2, <1>5, <2>3
        DEF CS!Handle, CS!RustResponses, CS!ZigResponses, CS!GoResponses, CS!KotlinResponses,
            CS!TypeScriptResponses, CS!CSharpResponses
    <2>4. ASSUME f.kind = "other", r.sdk \notin {"rust", "zig"}
          PROVE  CS!Handle(r, f) = r
        BY <1>2, <1>5, <2>4
        DEF CS!Handle, CS!GoResponses, CS!KotlinResponses, CS!TypeScriptResponses,
            CS!CSharpResponses
    <2>5. CASE f.kind = "error"
        BY <2>2, <2>5, RaiseStep, ShowErrorStep, ZenonT(30) DEF Handled, CS!Said
    <2>6. CASE f.kind # "error" /\ (f.kind # "other" \/ r.sdk \in {"rust", "zig"})
        <3>1. CS!Handle(r, f) = CS!TypedEvent(r, f) /\ f.kind \notin {"error", "done"}
            BY <2>1, <2>3, <2>6
        <3> DEFINE x == CS!Handle(r, f)
        <3>2. /\ x \in Readers /\ x.sdk = r.sdk /\ x.pending = r.pending
              /\ x.got = Append(r.got, f.n) /\ x.told = r.told
              /\ x.state = IF f.kind = "terminal" THEN "ended" ELSE r.state
            BY <3>1, TypedEventStep
        <3> HIDE DEF x
        <3>3. ~(f.kind = "other" /\ r.sdk \notin {"rust", "zig"})
            BY <2>6
        <3>4. Handled(r, f, x)
            BY <3>1, <3>2, <3>3 DEF Handled
        <3> QED
            BY <3>4 DEF x
    <2>7. CASE f.kind = "other" /\ r.sdk \notin {"rust", "zig"}
        BY <2>4, <2>7 DEF Handled, CS!Said
    <2> QED
        BY <2>5, <2>6, <2>7
<1>6. CASE feed.surface = "batch"
    <2>1. f.kind \in {"item", "large", "error"}
        BY <1>6 DEF Kinds
    <2>2. ASSUME f.kind = "error"
          PROVE  CS!Handle(r, f) \in {CS!Hurt(r), CS!Raise(r), CS!ShowError(r)}
        BY <1>2, <1>6, <2>2
        DEF CS!Handle, CS!RustBatch, CS!KotlinBatch, CS!GoBatch, CS!TypeScriptBatch,
            CS!CSharpBatch, CS!ZigBatch
    <2>3. ASSUME f.kind # "error"
          PROVE  CS!Handle(r, f) = CS!Hand(r, f.n)
        BY <1>2, <1>6, <2>3
        DEF CS!Handle, CS!RustBatch, CS!KotlinBatch, CS!GoBatch, CS!TypeScriptBatch,
            CS!CSharpBatch, CS!ZigBatch
    <2>4. CASE f.kind = "error"
        <3>1. CASE CS!Handle(r, f) = CS!Hurt(r)
            BY <2>4, <3>1, HurtStep DEF Handled, CS!Said
        <3>2. CASE CS!Handle(r, f) = CS!Raise(r)
            BY <2>4, <3>2, RaiseStep DEF Handled, CS!Said
        <3>3. CASE CS!Handle(r, f) = CS!ShowError(r)
            BY <2>4, <3>3, ShowErrorStep DEF Handled, CS!Said
        <3> QED
            BY <2>2, <2>4, <3>1, <3>2, <3>3
    <2>5. CASE f.kind \in {"item", "large"}
        BY <1>3, <2>3, <2>5 DEF Handled, CS!Said
    <2> QED
        BY <2>1, <2>4, <2>5
<1> QED
    BY <1>2, <1>4, <1>5, <1>6

-----------------------------------------------------------------------------
(* The node. *)

\* While both sides are open.
LEMMA WhileOpen ==
    ASSUME ClientInv, reader.state = "open"
    PROVE  /\ feed \in Feeds /\ reader \in Readers /\ feed.lost \subseteq 1..Len(feed.said)
           /\ Written /\ Waiting /\ Reading /\ Alarms /\ CS!NoFalseAlarm
           /\ feed.said \in Seq(CS!Said) /\ feed.lines \in Seq(Frames) /\ Len(feed.said) \in Nat
           /\ feed.surface \in Surfaces /\ reader.got \in Seq(Nat) /\ reader.sdk \in Sdks
           /\ reader.told \in BOOLEAN /\ feed.lost \subseteq Nat
<1>1. feed \in Feeds /\ reader \in Readers
    BY DEF ClientInv, ClientTyped
<1>2. /\ feed.said \in Seq(CS!Said) /\ feed.lines \in Seq(Frames) /\ feed.surface \in Surfaces
      /\ reader.got \in Seq(Nat) /\ reader.sdk \in Sdks /\ reader.told \in BOOLEAN
      /\ feed.lost \subseteq Nat
    BY <1>1 DEF Feeds, Readers
<1> QED
    BY <1>1, <1>2 DEF ClientInv, ClientTyped, ClientWorks

\* The node writes more lines.
LEMMA LinesWritten ==
    ASSUME ClientAssumption, ClientInv, reader.state = "open", feed.state = "open",
           feed.link = "up", UNCHANGED reader, NEW more \in Seq(Frames), feed' \in Feeds,
           feed'.surface = feed.surface, feed'.lines = feed.lines \o more, feed'.link = feed.link,
           feed'.lost = feed.lost, Len(feed'.said) >= Len(feed.said),
           \A i \in 1..Len(feed.said) : feed'.said[i] = feed.said[i],
           \A i \in 1..Len(more) : Genuine(feed', more[i]),
           Numbers(more) = Len(feed.said) + 1 .. Len(feed'.said),
           Growing(more), Concluded(more),
           feed.surface # "batch" => Spaced(more) /\ more # <<>> /\ more[Len(more)].kind = "blank",
           feed'.state = "failed" /\ ~CS!Mute =>
               Warned(more) /\ \E i \in 1..Len(more) : more[i].kind = "error"
    PROVE  ClientInv'
<1> DEFINE old == feed.lines
           new == old \o more
           n == Len(feed.said)
           n2 == Len(feed'.said)
<1>1. /\ feed \in Feeds /\ reader \in Readers /\ Written /\ Waiting /\ Reading /\ CS!NoFalseAlarm
      /\ old \in Seq(Frames) /\ n \in Nat /\ reader.got \in Seq(Nat) /\ feed.lost = {}
    BY WhileOpen DEF Written
<1>2. feed'.said \in Seq(CS!Said) /\ n2 \in Nat /\ n2 >= n
    BY DEF Feeds
<1>3. /\ new \in Seq(Frames) /\ Len(new) = Len(old) + Len(more)
      /\ Len(old) \in Nat /\ Len(more) \in Nat
      /\ \A i \in 1..Len(old) : i \in 1..Len(new) /\ new[i] = old[i]
      /\ \A i \in 1..Len(more) : Len(old) + i \in 1..Len(new) /\ new[Len(old) + i] = more[i]
      /\ \A i \in 1..Len(new) :
            \/ i \in 1..Len(old) /\ new[i] = old[i]
            \/ i - Len(old) \in 1..Len(more) /\ new[i] = more[i - Len(old)]
      /\ Numbers(new) = Numbers(old) \cup Numbers(more)
    BY <1>1, LinesAdded
<1>4. feed'.lines = new
    OBVIOUS
<1> HIDE DEF new
<1>5. ASSUME NEW f, Genuine(feed, f)
      PROVE  /\ Genuine(feed', f) /\ f.kind \notin {"done", "terminal", "error"}
             /\ f.n \in Nat /\ f.n <= n
    <2>1. f.kind \notin {"done", "terminal", "error"} /\ f.n \in Nat /\ f.n <= n
        BY <1>1, <1>5 DEF Genuine
    <2>2. f.kind \in CS!Said => f.n \in 1..n2 /\ feed'.said[f.n] = f.kind
        BY <1>1, <1>2, <1>5 DEF Genuine
    <2> QED
        BY <1>5, <2>1, <2>2 DEF Genuine
<1>6. ASSUME NEW i \in 1..Len(old)
      PROVE  Genuine(feed, old[i]) /\ old[i].n \in Nat /\ old[i].n <= n
    BY <1>1, <1>5 DEF Written
<1>7. ASSUME NEW i \in 1..Len(more)
      PROVE  more[i].n # 0 => more[i].n \in Nat /\ n < more[i].n
    <2>1. more[i].n # 0 => more[i].n \in Numbers(more)
        BY DEF Numbers
    <2> QED
        BY <1>1, <1>2, <2>1
<1>8. Written'
    <2>1. \A i \in 1..Len(new) : Genuine(feed', new[i])
        <3> SUFFICES ASSUME NEW i \in 1..Len(new)
                     PROVE  Genuine(feed', new[i])
            OBVIOUS
        <3>1. CASE i \in 1..Len(old) /\ new[i] = old[i]
            BY <1>5, <1>6, <3>1
        <3>2. CASE i - Len(old) \in 1..Len(more) /\ new[i] = more[i - Len(old)]
            BY <3>2
        <3> QED
            BY <1>3, <3>1, <3>2
    <2>2. Growing(new)
        <3> SUFFICES ASSUME NEW i \in 1..Len(new), NEW j \in 1..Len(new), i < j,
                            new[i].n # 0, new[j].n # 0
                     PROVE  new[i].n < new[j].n
            BY DEF Growing
        <3>1. CASE i \in 1..Len(old) /\ j \in 1..Len(old)
            BY <1>1, <1>3, <3>1 DEF Written, Growing
        <3>2. CASE i \in 1..Len(old) /\ j \notin 1..Len(old)
            <4>1. j - Len(old) \in 1..Len(more) /\ new[j] = more[j - Len(old)]
                BY <1>3, <3>2
            <4> QED
                <5>1. new[i] = old[i] /\ old[i].n \in Nat /\ old[i].n <= n
                    BY <1>3, <1>6, <3>2
                <5>2. new[j].n \in Nat /\ n < new[j].n
                    BY <1>7, <4>1
                <5>3. new[i].n \in Nat /\ new[i].n <= n
                    BY <5>1
                <5>4. n \in Nat
                    BY <1>1
                <5> HIDE DEF n
                <5> QED
                    BY <5>2, <5>3, <5>4
        <3>3. CASE i \notin 1..Len(old)
            <4>1. i - Len(old) \in 1..Len(more) /\ new[i] = more[i - Len(old)]
                BY <1>3, <3>3
            <4>2. j \notin 1..Len(old)
                BY <1>3, <3>3
            <4>3. j - Len(old) \in 1..Len(more) /\ new[j] = more[j - Len(old)]
                BY <1>3, <4>2
            <4>4. i - Len(old) < j - Len(old)
                BY <1>3
            <4> QED
                BY <4>1, <4>3, <4>4 DEF Growing
        <3> QED
            BY <3>1, <3>2, <3>3
    <2>3. Concluded(new)
        <3> SUFFICES ASSUME NEW i \in 1..Len(new), NEW j \in 1..Len(new), i < j,
                            new[i].kind \in {"done", "terminal"}
                     PROVE  new[j].n = 0
            BY DEF Concluded
        <3>1. i \notin 1..Len(old)
            BY <1>3, <1>5, <1>6
        <3>2. i - Len(old) \in 1..Len(more) /\ new[i] = more[i - Len(old)]
            BY <1>3, <3>1
        <3>3. j \notin 1..Len(old)
            BY <1>3, <3>1
        <3>4. j - Len(old) \in 1..Len(more) /\ new[j] = more[j - Len(old)]
            BY <1>3, <3>3
        <3>5. i - Len(old) < j - Len(old)
            BY <1>3
        <3> QED
            BY <3>2, <3>4, <3>5 DEF Concluded
    <2>4. ASSUME feed.surface # "batch"
          PROVE  Spaced(new) /\ new[Len(new)].kind = "blank"
        <3>1. Len(more) >= 1
            BY <1>3, <2>4
        <3>2. new[Len(new)] = more[Len(more)]
            BY <1>3, <3>1
        <3>3. ASSUME NEW i \in 1..Len(new), NEW j \in 1..Len(new), j = i + 1, new[i].kind # "blank"
              PROVE  new[j].kind = "blank"
            <4>1. CASE i \in 1..Len(old)
                <5>1. old # <<>> /\ new[i] = old[i]
                    BY <1>3, <4>1
                <5>2. old[Len(old)].kind = "blank"
                    BY <1>1, <2>4, <5>1 DEF Written
                <5>3. i # Len(old)
                    BY <3>3, <5>1, <5>2
                <5>4. j \in 1..Len(old) /\ new[j] = old[j]
                    BY <1>3, <3>3, <4>1, <5>3
                <5> QED
                    BY <1>1, <2>4, <3>3, <4>1, <5>1, <5>4 DEF Written, Spaced
            <4>2. CASE i \notin 1..Len(old)
                <5>1. i - Len(old) \in 1..Len(more) /\ new[i] = more[i - Len(old)]
                    BY <1>3, <4>2
                <5>2. j \notin 1..Len(old)
                    BY <1>3, <3>3, <4>2
                <5>3. j - Len(old) \in 1..Len(more) /\ new[j] = more[j - Len(old)]
                    BY <1>3, <5>2
                <5>4. j - Len(old) = (i - Len(old)) + 1
                    BY <1>3, <3>3
                <5> QED
                    BY <2>4, <3>3, <5>1, <5>3, <5>4 DEF Spaced
            <4> QED
                BY <4>1, <4>2
        <3> QED
            BY <2>4, <3>2, <3>3 DEF Spaced
    <2> QED
        <3>1. feed'.link = "up" /\ feed'.lost = {} /\ feed'.surface = feed.surface
            BY <1>1
        <3> QED
            BY <1>4, <2>1, <2>2, <2>3, <2>4, <3>1 DEF Written
<1>9. Waiting'
    <2> SUFFICES ASSUME reader.pending # None
                 PROVE  /\ Genuine(feed', reader.pending)
                        /\ reader.pending.kind \notin {"blank", "done"}
                        /\ reader.sdk \in CS!AtBlank /\ feed.surface # "batch"
                        /\ \A m \in Numbers(new) \cup feed.lost : reader.pending.n < m
                        /\ reader.pending.kind # "terminal"
                        /\ new # <<>> /\ new[1].kind = "blank"
        BY <1>4 DEF Waiting
    <2>1. /\ Genuine(feed, reader.pending) /\ reader.pending.kind \notin {"blank", "done"}
          /\ reader.sdk \in CS!AtBlank /\ feed.surface # "batch" /\ old # <<>>
          /\ old[1].kind = "blank" /\ \A m \in Numbers(old) \cup feed.lost : reader.pending.n < m
        BY <1>1 DEF Waiting
    <2>2. Genuine(feed', reader.pending) /\ reader.pending.n <= n /\ reader.pending.n \in Nat
          /\ reader.pending.kind # "terminal"
        BY <1>5, <2>1
    <2>3. 1 \in 1..Len(old)
        BY <1>1, <2>1
    <2>4. new # <<>> /\ new[1] = old[1]
        BY <1>3, <2>3
    <2>5. \A m \in Numbers(more) : reader.pending.n < m
        BY <1>1, <1>2, <2>2
    <2> QED
        BY <1>3, <2>1, <2>2, <2>4, <2>5
<1>10. Reading'
    <2> DEFINE rest == Numbers(old) \cup Held \cup feed.lost
    <2>1. Progress(CS!Meant, reader.got, rest)
        BY <1>1 DEF Reading
    <2>2. Held' = Held
        BY DEF Held
    <2>3. /\ \A m \in CS!Meant : m \in CS!Meant' /\ m \in Nat /\ m <= n
          /\ \A m \in CS!Meant' : m \in CS!Meant \/ m \in Numbers(more)
        BY <1>1, <1>2 DEF CS!Meant
    <2>4. \A m \in Numbers(more) : m \in Nat /\ n < m
        BY <1>1, <1>2
    <2>5. \A i \in 1..Len(reader.got) : reader.got[i] # 0 =>
              reader.got[i] \in Nat /\ \A m \in Numbers(more) : reader.got[i] < m
        BY <1>1, <2>1, <2>3, <2>4, SMTT(30) DEF Progress
    <2> HIDE DEF rest
    <2>6. Progress(CS!Meant', reader.got, rest \cup Numbers(more))
        BY <2>1, <2>3, <2>5 DEF Progress
    <2>7. rest \cup Numbers(more) = (Numbers(feed.lines) \cup Held \cup feed.lost)'
        BY <1>3, <1>4, <2>2 DEF rest
    <2> QED
        BY <2>6, <2>7 DEF Reading
<1>11. Alarms'
    <2> SUFFICES ASSUME feed'.state = "failed", ~CS!Mute
                 PROVE  Warned(new) /\ \E i \in 1..Len(new) : new[i].kind = "error"
        BY <1>4 DEF Alarms, CS!Mute
    <2>1. Warned(more) /\ \E i \in 1..Len(more) : more[i].kind = "error"
        OBVIOUS
    <2>2. \E i \in 1..Len(new) : new[i].kind = "error"
        BY <1>3, <2>1
    <2>3. ASSUME NEW j \in 1..Len(new), new[j].kind = "done"
          PROVE  \E i \in 1..Len(new) : i < j /\ new[i].kind = "error"
        <3>1. j \notin 1..Len(old)
            BY <1>3, <1>5, <1>6, <2>3
        <3>2. j - Len(old) \in 1..Len(more) /\ new[j] = more[j - Len(old)]
            BY <1>3, <3>1
        <3>3. PICK i \in 1..Len(more) : i < j - Len(old) /\ more[i].kind = "error"
            BY <2>1, <2>3, <3>2 DEF Warned
        <3>4. Len(old) + i \in 1..Len(new) /\ new[Len(old) + i] = more[i] /\ Len(old) + i < j
            BY <1>3, <3>3
        <3> QED
            BY <3>3, <3>4
    <2> QED
        BY <2>2, <2>3 DEF Warned
<1>12. CS!NoFalseAlarm'
    <2> SUFFICES ASSUME reader.told
                 PROVE  reader.sdk \in CS!Bounded /\ \E i \in 1..n2 : feed'.said[i] = "large"
        BY DEF CS!NoFalseAlarm
    <2>1. reader.sdk \in CS!Bounded /\ \E i \in 1..n : feed.said[i] = "large"
        BY <1>1 DEF CS!NoFalseAlarm
    <2> QED
        <3>1. PICK i \in 1..n : feed.said[i] = "large"
            BY <2>1
        <3>2. i \in 1..n2 /\ feed'.said[i] = "large"
            BY <1>1, <1>2, <3>1
        <3> QED
            BY <2>1, <3>2
<1>13. CS!InOrder'
    <2>1. (\A rest : Progress(CS!Meant, reader.got, rest) /\ reader.got \in Seq(Nat) =>
              /\ CS!InOrder
              /\ rest = feed.lost /\ feed.lost \subseteq Nat => CS!Heard = CS!Meant \ feed.lost)'
        BY ProgressOrder, PTL
    <2>2. reader'.got \in Seq(Nat)
        BY <1>1
    <2> QED
        BY <1>10, <2>1, <2>2 DEF Reading
<1>14. CS!EndMeansWhole'
    BY DEF CS!EndMeansWhole
<1>15. ClientTyped'
    BY <1>1 DEF ClientTyped
<1> QED
    BY <1>8, <1>9, <1>10, <1>11, <1>12, <1>13, <1>14, <1>15 DEF ClientInv, ClientWorks

\* One event: its line and, on two surfaces, a blank one.
LEMMA EventLines ==
    ASSUME feed.surface \in Surfaces, NEW kind \in CS!Said \cup {"error", "done"}, NEW n \in Nat
    PROVE  LET e == CS!Event(kind, n)
           IN /\ e \in Seq(Frames) /\ Len(e) \in 1..2 /\ 1 \in 1..Len(e)
              /\ e[1] = CS!Frame(kind, n) /\ CS!Frame(kind, n) \in Frames
              /\ \A i \in 1..Len(e) : i = 1 \/ (i = 2 /\ e[i] = CS!Blank)
              /\ feed.surface # "batch" => Len(e) = 2
              /\ Numbers(e) = {n} \ {0}
              /\ Growing(e) /\ Concluded(e) /\ Spaced(e)
<1> DEFINE f == CS!Frame(kind, n)
           e == CS!Event(kind, n)
<1>1. f \in Frames /\ CS!Blank \in Frames /\ CS!Blank.n = 0 /\ CS!Blank.kind = "blank" /\ f.n = n
    BY DEF CS!Frame, CS!Blank, Frames
<1>2. e = IF feed.surface = "batch" THEN <<f>> ELSE <<f, CS!Blank>>
    BY DEF CS!Event
<1> HIDE DEF f, e
<1>3. /\ e \in Seq(Frames) /\ Len(e) \in 1..2 /\ 1 \in 1..Len(e) /\ e[1] = f
      /\ \A i \in 1..Len(e) : i = 1 \/ (i = 2 /\ e[i] = CS!Blank)
      /\ feed.surface # "batch" => Len(e) = 2
    <2> HIDE DEF CS!Blank
    <2>1. CASE feed.surface = "batch"
        BY <1>1, <1>2, <2>1
    <2>2. CASE feed.surface # "batch"
        BY <1>1, <1>2, <2>2
    <2> QED
        BY <2>1, <2>2
<1>4. \A i \in 1..Len(e) : i = 1 \/ (i = 2 /\ e[i].n = 0 /\ e[i].kind = "blank")
    BY <1>1, <1>3
<1>5. Numbers(e) = {n} \ {0}
    BY <1>1, <1>3, <1>4 DEF Numbers
<1>6. Growing(e) /\ Concluded(e) /\ Spaced(e)
    BY <1>3, <1>4 DEF Growing, Concluded, Spaced
<1> QED
    BY <1>1, <1>3, <1>5, <1>6 DEF e, f

\* The node says one frame more.
LEMMA SayStep ==
    ASSUME ClientAssumption, ClientInv, NEW kind \in {"item", "large", "other"}, CS!Say(kind)
    PROVE  ClientInv'
<1> DEFINE n == Len(feed.said)
           said == Append(feed.said, kind)
           e == CS!Event(kind, n + 1)
<1>1. /\ reader.state = "open" /\ feed.state = "open" /\ feed.link = "up" /\ UNCHANGED reader
      /\ kind = "other" => feed.surface = "responses"
      /\ feed' = [feed EXCEPT !.said = said, !.lines = feed.lines \o e]
    BY DEF CS!Say, CS!Open
<1>2. /\ feed \in Feeds /\ feed.said \in Seq(CS!Said) /\ feed.lines \in Seq(Frames) /\ n \in Nat
      /\ feed.surface \in Surfaces
    BY <1>1, WhileOpen
<1>3. kind \in CS!Said /\ kind \in CS!Said \cup {"error", "done"} /\ n + 1 \in Nat
    BY <1>2 DEF CS!Said
<1>4. /\ e \in Seq(Frames) /\ Len(e) \in 1..2 /\ 1 \in 1..Len(e)
      /\ e[1] = CS!Frame(kind, n + 1) /\ CS!Frame(kind, n + 1) \in Frames
      /\ \A i \in 1..Len(e) : i = 1 \/ (i = 2 /\ e[i] = CS!Blank)
      /\ feed.surface # "batch" => Len(e) = 2
      /\ Numbers(e) = {n + 1} \ {0}
      /\ Growing(e) /\ Concluded(e) /\ Spaced(e)
    BY <1>2, <1>3, EventLines
<1> HIDE DEF e
<1>5. /\ said \in Seq(CS!Said) /\ Len(said) = n + 1 /\ said[n + 1] = kind
      /\ \A i \in 1..n : said[i] = feed.said[i]
    BY <1>2, <1>3
<1>6. feed.lines \o e \in Seq(Frames)
    BY <1>2, <1>4
<1> DEFINE lines == feed.lines \o e
<1> HIDE DEF said, lines
<1>7. feed' = [feed EXCEPT !.said = said, !.lines = lines]
    BY <1>1 DEF lines
<1>8. lines \in Seq(Frames)
    BY <1>6 DEF lines
<1>9. /\ feed' \in Feeds /\ feed'.surface = feed.surface /\ feed'.lines = lines
      /\ feed'.link = feed.link /\ feed'.lost = feed.lost /\ feed'.said = said
      /\ feed'.state = feed.state
    BY <1>2, <1>5, <1>7, <1>8 DEF Feeds
<1>10. CS!Blank \in Frames /\ CS!Blank.n = 0 /\ CS!Blank.kind = "blank" /\ "blank" \notin CS!Said
    BY DEF CS!Blank, CS!Frame, Frames, CS!Said
<1>11. CS!Frame(kind, n + 1).kind = kind /\ CS!Frame(kind, n + 1).n = n + 1
    BY DEF CS!Frame
<1>12. Genuine(feed', CS!Frame(kind, n + 1)) /\ Genuine(feed', CS!Blank)
    <2>1. n + 1 \in 1..Len(said)
        BY <1>2, <1>5
    <2> QED
        BY <1>1, <1>3, <1>4, <1>5, <1>9, <1>10, <1>11, <2>1 DEF Genuine
<1>13. \A i \in 1..Len(e) : Genuine(feed', e[i])
    BY <1>4, <1>12
<1>14. Numbers(e) = n + 1 .. Len(feed'.said) /\ Len(feed'.said) >= n
    BY <1>2, <1>4, <1>5, <1>9
<1>15. feed.surface # "batch" => Spaced(e) /\ e # <<>> /\ e[Len(e)].kind = "blank"
    <2>1. feed.surface # "batch" => Len(e) = 2 /\ 2 \in 1..Len(e) /\ e[2] = CS!Blank
        BY <1>4
    <2> QED
        BY <1>4, <1>10, <2>1
<1>16. feed'.lines = feed.lines \o e /\ feed'.state # "failed"
    BY <1>1, <1>9 DEF lines
<1> QED
    BY <1>1, <1>4, <1>5, <1>9, <1>13, <1>14, <1>15, <1>16, LinesWritten

\* The node ends the stream with lines that carry no frame.
LEMMA TrailerWritten ==
    ASSUME ClientAssumption, ClientInv, CS!Open, UNCHANGED reader,
           NEW more \in Seq(Frames), NEW state \in {"finished", "failed"},
           feed' = [feed EXCEPT !.state = state, !.lines = feed.lines \o more],
           \A i \in 1..Len(more) :
               /\ more[i].n = 0 /\ more[i].kind \in {"blank", "error", "done"}
               /\ more[i].kind = "error" => state = "failed"
               /\ more[i].kind = "done" => feed.surface = "chat",
           feed.surface # "batch" => Spaced(more) /\ more # <<>> /\ more[Len(more)].kind = "blank",
           state = "failed" => Warned(more) /\ \E i \in 1..Len(more) : more[i].kind = "error"
    PROVE  ClientInv'
<1>1. reader.state = "open" /\ feed.state = "open" /\ feed.link = "up"
    BY DEF CS!Open
<1>2. /\ feed \in Feeds /\ feed.said \in Seq(CS!Said) /\ feed.lines \in Seq(Frames)
      /\ Len(feed.said) \in Nat
    BY <1>1, WhileOpen
<1> DEFINE lines == feed.lines \o more
<1>3. lines \in Seq(Frames)
    BY <1>2
<1> HIDE DEF lines
<1>4. feed' = [feed EXCEPT !.state = state, !.lines = lines]
    BY DEF lines
<1>5. /\ feed' \in Feeds /\ feed'.surface = feed.surface /\ feed'.lines = lines
      /\ feed'.link = feed.link /\ feed'.lost = feed.lost /\ feed'.said = feed.said
      /\ feed'.state = state
    BY <1>2, <1>3, <1>4 DEF Feeds
<1>6. ASSUME NEW i \in 1..Len(more)
      PROVE  Genuine(feed', more[i])
    <2>1. more[i] \in Frames /\ more[i].kind \notin CS!Said
        BY DEF CS!Said
    <2> QED
        BY <1>5, <2>1 DEF Genuine
<1>7. Numbers(more) = {} /\ Len(feed.said) + 1 .. Len(feed'.said) = {}
    BY <1>2, <1>5 DEF Numbers
<1>8. Growing(more) /\ Concluded(more)
    BY DEF Growing, Concluded
<1>9. Len(feed'.said) >= Len(feed.said) /\ \A i \in 1..Len(feed.said) : feed'.said[i] = feed.said[i]
    BY <1>2, <1>5
<1>10. feed'.lines = feed.lines \o more
    BY <1>5 DEF lines
<1>11. Numbers(more) = Len(feed.said) + 1 .. Len(feed'.said)
    BY <1>7
<1>12. \A i \in 1..Len(more) : Genuine(feed', more[i])
    BY <1>6
<1>13. feed'.state = "failed" /\ ~CS!Mute =>
           Warned(more) /\ \E i \in 1..Len(more) : more[i].kind = "error"
    BY <1>5
<1> QED
    BY <1>1, <1>5, <1>8, <1>9, <1>10, <1>11, <1>12, <1>13, LinesWritten

\* A chat stream ends with its sentinel, after an error frame if it failed.
LEMMA ChatEndStep ==
    ASSUME ClientAssumption, ClientInv, NEW failed \in BOOLEAN, CS!ChatEnd(failed)
    PROVE  ClientInv'
<1> DEFINE E == CS!Frame("error", 0)
           D == CS!Frame("done", 0)
<1>1. /\ CS!Open /\ feed.surface = "chat" /\ UNCHANGED reader
      /\ feed' = [feed EXCEPT !.state = IF failed THEN "failed" ELSE "finished",
                      !.lines = feed.lines \o (IF failed THEN CS!Event("error", 0) ELSE <<>>)
                                    \o CS!Event("done", 0)]
    BY DEF CS!ChatEnd
<1>2. feed.lines \in Seq(Frames)
    BY <1>1, WhileOpen DEF CS!Open
<1>3. CS!Event("error", 0) = <<E, CS!Blank>> /\ CS!Event("done", 0) = <<D, CS!Blank>>
    BY <1>1 DEF CS!Event
<1>4. /\ E \in Frames /\ E.n = 0 /\ E.kind = "error" /\ D \in Frames /\ D.n = 0 /\ D.kind = "done"
      /\ CS!Blank \in Frames /\ CS!Blank.n = 0 /\ CS!Blank.kind = "blank"
    BY DEF CS!Frame, CS!Blank, Frames
<1> HIDE DEF E, D
<1>5. CASE failed
    <2> DEFINE more == <<E, CS!Blank, D, CS!Blank>>
    <2>1. <<E, CS!Blank>> \in Seq(Frames) /\ <<D, CS!Blank>> \in Seq(Frames)
        BY <1>4
    <2>2. <<E, CS!Blank>> \o <<D, CS!Blank>> = more
        <3> DEFINE both == <<E, CS!Blank>> \o <<D, CS!Blank>>
                   B == CS!Blank
        <3>1. both = <<E, B>> \o <<D, B>> /\ more = <<E, B, D, B>>
            OBVIOUS
        <3> HIDE DEF B
        <3>2. /\ Len(both) = 4 /\ both[1] = E /\ both[2] = B /\ both[3] = D /\ both[4] = B
              /\ both \in Seq({E, B, D})
            BY <3>1
        <3>3. /\ Len(more) = 4 /\ more[1] = E /\ more[2] = B /\ more[3] = D /\ more[4] = B
              /\ more \in Seq({E, B, D})
            BY <3>1
        <3> HIDE DEF both, more
        <3>4. \A i \in 1..Len(both) : both[i] = more[i]
            <4>1. 1..Len(both) = {1, 2, 3, 4}
                BY <3>2
            <4> QED
                BY <3>2, <3>3, <4>1
        <3>5. both = more
            BY <3>2, <3>3, <3>4, SeqEqual
        <3> QED
            BY <3>5 DEF both
    <2>3. (feed.lines \o <<E, CS!Blank>>) \o <<D, CS!Blank>>
              = feed.lines \o (<<E, CS!Blank>> \o <<D, CS!Blank>>)
        BY <1>2, <2>1, ConcatAssociative
    <2>4. feed' = [feed EXCEPT !.state = "failed", !.lines = feed.lines \o more]
        BY <1>1, <1>3, <1>5, <2>2, <2>3
    <2>5. /\ more \in Seq(Frames) /\ Len(more) = 4 /\ 1..Len(more) = {1, 2, 3, 4}
          /\ more[1] = E /\ more[2] = CS!Blank /\ more[3] = D /\ more[4] = CS!Blank
        BY <1>4
    <2> HIDE DEF more
    <2>6. \A i \in 1..Len(more) : more[i].n = 0 /\ more[i].kind \in {"blank", "error", "done"}
        BY <1>4, <2>5
    <2>7. Spaced(more) /\ more # <<>> /\ more[Len(more)].kind = "blank"
        <3>1. more[2].kind = "blank" /\ more[4].kind = "blank"
            BY <1>4, <2>5
        <3>2. ASSUME NEW i \in 1..Len(more), NEW j \in 1..Len(more), j = i + 1,
                     more[i].kind # "blank"
              PROVE  more[j].kind = "blank"
            <4>1. i \in {1, 3} /\ j \in {2, 4}
                BY <2>5, <3>1, <3>2
            <4> QED
                BY <3>1, <4>1
        <3>3. Spaced(more)
            BY <3>2 DEF Spaced
        <3> QED
            BY <2>5, <3>1, <3>3, SMTT(30)
    <2>8. Warned(more) /\ \E i \in 1..Len(more) : more[i].kind = "error"
        BY <1>4, <2>5 DEF Warned
    <2> QED
        BY <1>1, <2>4, <2>5, <2>6, <2>7, <2>8, TrailerWritten
<1>6. CASE ~failed
    <2> DEFINE more == <<D, CS!Blank>>
    <2>1. feed.lines \o <<>> = feed.lines
        BY <1>2
    <2>2. feed' = [feed EXCEPT !.state = "finished", !.lines = feed.lines \o more]
        BY <1>1, <1>3, <1>6, <2>1
    <2>3. /\ more \in Seq(Frames) /\ Len(more) = 2 /\ 1..Len(more) = {1, 2}
          /\ more[1] = D /\ more[2] = CS!Blank
        BY <1>4
    <2> HIDE DEF more
    <2>4. \A i \in 1..Len(more) : more[i].n = 0 /\ more[i].kind \in {"blank", "done"}
        BY <1>4, <2>3
    <2>5. Spaced(more) /\ more # <<>> /\ more[Len(more)].kind = "blank"
        <3>1. more[2].kind = "blank"
            BY <1>4, <2>3
        <3>2. ASSUME NEW i \in 1..Len(more), NEW j \in 1..Len(more), j = i + 1
              PROVE  more[j].kind = "blank"
            <4>1. j = 2
                BY <2>3, <3>2
            <4> QED
                BY <3>1, <4>1
        <3>3. Spaced(more)
            BY <3>2 DEF Spaced
        <3> QED
            <4>1. Len(more) = 2 /\ more \in Seq(Frames)
                BY <2>3
            <4>2. more # <<>>
                BY <4>1
            <4> QED
                BY <3>1, <3>3, <4>1, <4>2
    <2> QED
        BY <1>1, <2>2, <2>3, <2>4, <2>5, TrailerWritten, ZenonT(30)
<1> QED
    BY <1>5, <1>6

\* A batch's results end with nothing, or with an error line.
LEMMA BatchEndStep ==
    ASSUME ClientAssumption, ClientInv, NEW failed \in BOOLEAN, CS!BatchEnd(failed)
    PROVE  ClientInv'
<1> DEFINE more == IF failed THEN CS!Event("error", 0) ELSE <<>>
           state == IF failed THEN "failed" ELSE "finished"
<1>1. /\ CS!Open /\ feed.surface = "batch" /\ UNCHANGED reader
      /\ feed' = [feed EXCEPT !.state = state, !.lines = feed.lines \o more]
    BY DEF CS!BatchEnd
<1>2. CS!Event("error", 0) = <<CS!Frame("error", 0)>>
    BY <1>1 DEF CS!Event
<1>3. /\ CS!Frame("error", 0) \in Frames /\ CS!Frame("error", 0).n = 0
      /\ CS!Frame("error", 0).kind = "error"
    BY DEF CS!Frame, Frames
<1>4. /\ more \in Seq(Frames) /\ state \in {"finished", "failed"}
      /\ \A i \in 1..Len(more) : more[i].n = 0 /\ more[i].kind = "error" /\ failed
      /\ failed => 1 \in 1..Len(more)
    <2> DEFINE f == CS!Frame("error", 0)
    <2> HIDE DEF f
    <2>1. CASE failed
        <3>1. more = <<f>> /\ state = "failed"
            BY <1>2, <2>1 DEF f
        <3>2. f \in Frames /\ f.n = 0 /\ f.kind = "error"
            BY <1>3 DEF f
        <3> HIDE DEF more, state
        <3> QED
            <4>1. /\ more \in Seq(Frames) /\ Len(more) = 1 /\ more[1] = f
                BY <3>1, <3>2
            <4>2. \A i \in 1..Len(more) : more[i] = f
                BY <4>1
            <4>3. 1 \in 1..Len(more)
                BY <4>1
            <4> QED
                BY <2>1, <3>1, <3>2, <4>1, <4>2, <4>3
    <2>2. CASE ~failed
        <3>1. more = <<>> /\ state = "finished"
            BY <2>2
        <3> QED
            BY <2>2, <3>1
    <2> QED
        BY <2>1, <2>2
<1>5. /\ failed <=> state = "failed"
      /\ failed => Warned(more) /\ \E i \in 1..Len(more) : more[i].kind = "error"
    BY <1>4 DEF Warned
<1> HIDE DEF more, state
<1> QED
    BY <1>1, <1>4, <1>5, TrailerWritten

\* A Responses stream ends with a terminal event, which is a frame, or with an error event.
LEMMA ResponsesEndStep ==
    ASSUME ClientAssumption, ClientInv, NEW failed \in BOOLEAN, CS!ResponsesEnd(failed)
    PROVE  ClientInv'
<1>1. /\ CS!Open /\ feed.surface = "responses" /\ UNCHANGED reader
      /\ feed' = IF failed
                 THEN [feed EXCEPT !.state = "failed", !.lines = feed.lines \o CS!Event("error", 0)]
                 ELSE [feed EXCEPT !.state = "finished", !.said = Append(feed.said, "terminal"),
                           !.lines = feed.lines \o CS!Event("terminal", Len(feed.said) + 1)]
    BY DEF CS!ResponsesEnd
<1>2. reader.state = "open" /\ feed.state = "open" /\ feed.link = "up"
    BY <1>1 DEF CS!Open
<1>3. /\ feed \in Feeds /\ feed.said \in Seq(CS!Said) /\ feed.lines \in Seq(Frames)
      /\ Len(feed.said) \in Nat /\ feed.surface \in Surfaces
    BY <1>2, WhileOpen
<1>4. CS!Blank \in Frames /\ CS!Blank.n = 0 /\ CS!Blank.kind = "blank" /\ "blank" \notin CS!Said
    BY DEF CS!Blank, CS!Frame, Frames, CS!Said
<1>5. CASE failed
    <2> DEFINE e == CS!Event("error", 0)
    <2>1. /\ e \in Seq(Frames) /\ 1 \in 1..Len(e) /\ e[1] = CS!Frame("error", 0) /\ Len(e) = 2
          /\ \A i \in 1..Len(e) : i = 1 \/ (i = 2 /\ e[i] = CS!Blank)
          /\ Spaced(e)
        BY <1>1, <1>3, EventLines
    <2> HIDE DEF e
    <2>2. feed' = [feed EXCEPT !.state = "failed", !.lines = feed.lines \o e]
        BY <1>1, <1>5 DEF e
    <2>3. CS!Frame("error", 0).n = 0 /\ CS!Frame("error", 0).kind = "error"
        BY DEF CS!Frame
    <2>4. \A i \in 1..Len(e) : e[i].n = 0 /\ e[i].kind \in {"error", "blank"}
        BY <1>4, <2>1, <2>3
    <2>5. e # <<>> /\ e[Len(e)].kind = "blank"
        <3>1. 2 \in 1..Len(e)
            BY <2>1
        <3> QED
            BY <1>4, <2>1, <3>1
    <2>6. Warned(e) /\ \E i \in 1..Len(e) : e[i].kind = "error"
        BY <2>1, <2>3, <2>4 DEF Warned
    <2>7. \A i \in 1..Len(e) :
              /\ e[i].n = 0 /\ e[i].kind \in {"blank", "error", "done"}
              /\ e[i].kind = "error" => "failed" = "failed"
              /\ e[i].kind = "done" => feed.surface = "chat"
        BY <2>4
    <2> QED
        BY <1>1, <2>1, <2>2, <2>5, <2>6, <2>7, TrailerWritten
<1>6. CASE ~failed
    <2> DEFINE n == Len(feed.said)
               said == Append(feed.said, "terminal")
               e == CS!Event("terminal", n + 1)
    <2>1. "terminal" \in CS!Said /\ "terminal" \in CS!Said \cup {"error", "done"} /\ n + 1 \in Nat
        BY <1>3 DEF CS!Said
    <2>2. /\ e \in Seq(Frames) /\ Len(e) = 2 /\ 1 \in 1..Len(e)
          /\ e[1] = CS!Frame("terminal", n + 1) /\ CS!Frame("terminal", n + 1) \in Frames
          /\ \A i \in 1..Len(e) : i = 1 \/ (i = 2 /\ e[i] = CS!Blank)
          /\ Numbers(e) = {n + 1} \ {0}
          /\ Growing(e) /\ Concluded(e) /\ Spaced(e)
        BY <1>1, <1>3, <2>1, EventLines
    <2> HIDE DEF e
    <2>3. /\ said \in Seq(CS!Said) /\ Len(said) = n + 1 /\ said[n + 1] = "terminal"
          /\ \A i \in 1..n : said[i] = feed.said[i]
        BY <1>3, <2>1
    <2>4. feed.lines \o e \in Seq(Frames)
        BY <1>3, <2>2
    <2> DEFINE lines == feed.lines \o e
    <2> HIDE DEF said, lines
    <2>5. feed' = [feed EXCEPT !.state = "finished", !.said = said, !.lines = lines]
        BY <1>1, <1>6 DEF lines, said, e
    <2>6. lines \in Seq(Frames)
        BY <2>4 DEF lines
    <2>7. /\ feed' \in Feeds /\ feed'.surface = feed.surface /\ feed'.lines = lines
          /\ feed'.link = feed.link /\ feed'.lost = feed.lost /\ feed'.said = said
          /\ feed'.state = "finished"
        BY <1>3, <2>3, <2>5, <2>6 DEF Feeds
    <2>8. CS!Frame("terminal", n + 1).kind = "terminal" /\ CS!Frame("terminal", n + 1).n = n + 1
        BY DEF CS!Frame
    <2>9. Genuine(feed', CS!Frame("terminal", n + 1)) /\ Genuine(feed', CS!Blank)
        <3>1. n + 1 \in 1..Len(said)
            BY <1>3, <2>3
        <3> QED
            BY <1>1, <1>4, <2>1, <2>2, <2>3, <2>7, <2>8, <3>1 DEF Genuine
    <2>10. \A i \in 1..Len(e) : Genuine(feed', e[i])
        BY <2>2, <2>9
    <2>11. Numbers(e) = n + 1 .. Len(feed'.said) /\ Len(feed'.said) >= n
        BY <1>3, <2>2, <2>3, <2>7
    <2>12. e # <<>> /\ e[Len(e)].kind = "blank"
        <3>1. 2 \in 1..Len(e)
            BY <2>2
        <3> QED
            BY <1>4, <2>2, <3>1
    <2>13. feed'.lines = feed.lines \o e /\ feed'.state # "failed"
        BY <2>7 DEF lines
    <2> QED
        BY <1>1, <1>2, <2>2, <2>3, <2>7, <2>10, <2>11, <2>12, <2>13, LinesWritten
<1> QED
    BY <1>5, <1>6

\* The connection goes, and the last of the lines with it.
LEMMA LoseStep ==
    ASSUME ClientAssumption, ClientInv, NEW how \in {"broken", "closed"}, CS!Lose(how)
    PROVE  ClientInv'
<1> DEFINE lines == feed.lines
<1>1. PICK kept \in 0..Len(lines) :
          feed' = [feed EXCEPT !.link = how, !.lines = SubSeq(lines, 1, kept),
                       !.lost = {lines[i].n : i \in kept + 1 .. Len(lines)} \ {0}]
    BY DEF CS!Lose
<1>2. reader.state = "open" /\ feed.link = "up" /\ UNCHANGED reader
    BY DEF CS!Lose
<1>3. /\ feed \in Feeds /\ reader \in Readers /\ Written /\ Waiting /\ Reading /\ Alarms
      /\ CS!NoFalseAlarm /\ lines \in Seq(Frames) /\ Len(feed.said) \in Nat /\ feed.lost = {}
    BY <1>2, WhileOpen DEF Written
<1> DEFINE part == SubSeq(lines, 1, kept)
           lost == {lines[i].n : i \in kept + 1 .. Len(lines)} \ {0}
<1>4. Len(lines) \in Nat /\ kept \in Nat /\ kept <= Len(lines)
    BY <1>3
<1>5. /\ part \in Seq(Frames) /\ Len(part) = kept
      /\ \A i \in 1..Len(part) : part[i] = lines[i]
    BY <1>3, <1>4
<1> HIDE DEF part
<1>6. \A i \in 1..Len(part) : i \in 1..Len(lines) /\ part[i] = lines[i]
    BY <1>4, <1>5
<1>7. /\ Growing(lines) => Growing(part)
      /\ Concluded(lines) => Concluded(part)
      /\ Spaced(lines) => Spaced(part)
      /\ Numbers(part) \subseteq Numbers(lines)
    <2>1. 0 \in Nat /\ 0 + Len(part) <= Len(lines) /\ \A i \in 1..Len(part) : part[i] = lines[i + 0]
        BY <1>4, <1>5
    <2> QED
        BY <1>3, <1>5, <2>1, CutLines
<1>8. ASSUME NEW i \in 1..Len(lines)
      PROVE  Genuine(feed, lines[i]) /\ lines[i].n \in Nat /\ lines[i].n \in 0..Len(feed.said)
    <2>1. Genuine(feed, lines[i])
        BY <1>3 DEF Written
    <2> QED
        BY <1>3, <2>1 DEF Genuine
<1>9. lost \subseteq 1..Len(feed.said) /\ lost \subseteq Numbers(lines)
    <2> SUFFICES ASSUME NEW i \in kept + 1 .. Len(lines), lines[i].n # 0
                 PROVE  lines[i].n \in 1..Len(feed.said) /\ lines[i].n \in Numbers(lines)
        OBVIOUS
    <2>1. i \in 1..Len(lines)
        BY <1>4
    <2> QED
        BY <1>3, <1>8, <2>1 DEF Numbers
<1>10. Numbers(lines) = Numbers(part) \cup lost
    <2>1. ASSUME NEW m \in Numbers(lines)
          PROVE  m \in Numbers(part) \cup lost
        <3>1. PICK i \in 1..Len(lines) : lines[i].n = m /\ m # 0
            BY <2>1 DEF Numbers
        <3>2. CASE i <= kept
            <4>1. i \in 1..Len(part) /\ part[i] = lines[i]
                BY <1>4, <1>5, <3>2
            <4> QED
                BY <3>1, <4>1 DEF Numbers
        <3>3. CASE ~(i <= kept)
            <4>1. i \in kept + 1 .. Len(lines)
                BY <1>4, <3>3
            <4> QED
                BY <3>1, <4>1
        <3> QED
            BY <3>2, <3>3
    <2>2. lost \subseteq Numbers(lines) /\ Numbers(part) \subseteq Numbers(lines)
        BY <1>7, <1>9
    <2> HIDE DEF lost, lines
    <2>3. \A m \in Numbers(lines) : m \in Numbers(part) \cup lost
        BY <2>1
    <2> QED
        BY <2>2, <2>3
<1>11. \A m \in Numbers(part), gone \in lost : m < gone
    <2> SUFFICES ASSUME NEW m \in Numbers(part), NEW gone \in lost
                 PROVE  m < gone
        OBVIOUS
    <2>1. PICK i \in 1..Len(part) : part[i].n = m /\ m # 0
        BY DEF Numbers
    <2>2. PICK j \in kept + 1 .. Len(lines) : lines[j].n = gone /\ gone # 0
        OBVIOUS
    <2>3. i \in 1..Len(lines) /\ j \in 1..Len(lines) /\ i < j /\ lines[i].n = m
        BY <1>4, <1>5, <1>6, <2>1
    <2>4. Growing(lines)
        BY <1>3 DEF Written
    <2> QED
        BY <2>1, <2>2, <2>3, <2>4 DEF Growing
<1>12. lost \in SUBSET Nat
    <2> HIDE DEF lost
    <2> QED
        BY <1>3, <1>9
<1> HIDE DEF lost
<1>13. feed' = [feed EXCEPT !.link = how, !.lines = part, !.lost = lost]
    BY <1>1 DEF part, lost
<1>14. /\ feed' \in Feeds /\ feed'.surface = feed.surface /\ feed'.said = feed.said
       /\ feed'.state = feed.state /\ feed'.lines = part /\ feed'.link = how /\ feed'.lost = lost
    BY <1>3, <1>5, <1>12, <1>13 DEF Feeds
<1>15. \A f : Genuine(feed, f) => Genuine(feed', f)
    BY <1>14 DEF Genuine
<1>16. Written'
    <2>1. \A i \in 1..Len(part) : Genuine(feed', part[i])
        BY <1>6, <1>8, <1>15
    <2>2. /\ Growing(part) /\ Concluded(part)
          /\ feed.surface # "batch" => Spaced(part)
        <3>1. Growing(lines) /\ Concluded(lines) /\ (feed.surface # "batch" => Spaced(lines))
            BY <1>3 DEF Written
        <3> HIDE DEF lines
        <3> QED
            BY <1>7, <3>1
    <2>3. feed'.link # "up" /\ feed'.lines = part /\ feed'.lost = lost
        BY <1>14
    <2> QED
        BY <1>11, <1>14, <2>1, <2>2, <2>3 DEF Written
<1>17. Waiting'
    <2> SUFFICES ASSUME reader.pending # None
                 PROVE  /\ Genuine(feed', reader.pending)
                        /\ reader.pending.kind \notin {"blank", "done"}
                        /\ reader.sdk \in CS!AtBlank /\ feed.surface # "batch"
                        /\ \A m \in Numbers(part) \cup lost : reader.pending.n < m
                        /\ reader.pending.kind = "terminal" => Numbers(part) = {}
                        /\ part # <<>> => part[1].kind = "blank"
        BY <1>2, <1>14 DEF Waiting
    <2>1. part # <<>> => part[1] = lines[1] /\ lines # <<>>
        <3>1. part # <<>> => 1 \in 1..Len(part)
            BY <1>5
        <3> QED
            BY <1>4, <1>5, <1>6, <3>1
    <2> QED
        BY <1>3, <1>10, <1>15, <2>1 DEF Waiting
<1>18. Reading'
    <2>1. CS!Meant' = CS!Meant /\ Held' = Held
        BY <1>2, <1>14 DEF CS!Meant, Held
    <2>2. (Numbers(feed.lines) \cup Held \cup feed.lost)' = Numbers(lines) \cup Held \cup feed.lost
        BY <1>3, <1>10, <1>14, <2>1
    <2> QED
        BY <1>2, <1>3, <2>1, <2>2 DEF Reading
<1>19. Alarms'
    <2>1. Warned(lines) => Warned(part)
        <3> SUFFICES ASSUME Warned(lines), NEW j \in 1..Len(part), part[j].kind = "done"
                     PROVE  \E i \in 1..Len(part) : i < j /\ part[i].kind = "error"
            BY DEF Warned
        <3>1. j \in 1..Len(lines) /\ lines[j].kind = "done"
            BY <1>6
        <3>2. PICK i \in 1..Len(lines) : i < j /\ lines[i].kind = "error"
            BY <3>1 DEF Warned
        <3>3. i \in 1..Len(part)
            BY <1>4, <1>5, <3>2
        <3> QED
            BY <1>6, <3>2, <3>3
    <2> QED
        BY <1>2, <1>3, <1>14, <2>1 DEF Alarms, CS!Mute
<1>20. CS!InOrder'
    BY <1>2, <1>14 DEF ClientInv, CS!InOrder, CS!Heard, CS!Meant
<1>21. CS!EndMeansWhole' /\ CS!NoFalseAlarm'
    BY <1>2, <1>3, <1>14 DEF CS!EndMeansWhole, CS!NoFalseAlarm
<1>22. ClientTyped'
    BY <1>2, <1>3, <1>9, <1>14 DEF ClientTyped, lost
<1> QED
    BY <1>16, <1>17, <1>18, <1>19, <1>20, <1>21, <1>22 DEF ClientInv, ClientWorks

-----------------------------------------------------------------------------
(* The SDK. *)

\* A line with an event is of a kind of its surface.
LEMMA EventKind ==
    ASSUME ClientAssumption, feed.surface \in Surfaces, NEW e, Genuine(feed, e), e.kind # "blank"
    PROVE  e.kind \in Kinds(feed.surface) /\ e \in Frames
<1>1. feed.surface \in {"chat", "responses", "batch"}
    BY DEF ClientAssumption
<1>2. e \in Frames /\ e.kind \in {"item", "large", "other", "terminal", "error", "done"}
    BY DEF Genuine, Frames, CS!Said
<1>3. /\ e.kind \in {"other", "terminal"} => feed.surface = "responses"
      /\ e.kind = "done" => feed.surface = "chat"
    BY DEF Genuine
<1> QED
    BY <1>1, <1>2, <1>3 DEF Kinds

\* An event moves from what is to come to what was got, or was not meant.
LEMMA EventMet ==
    ASSUME feed \in Feeds, NEW e, Genuine(feed, e), e.kind # "blank",
           NEW r \in Readers, r.got = reader.got, r.sdk = reader.sdk,
           NEW rest \in SUBSET Nat, \A m \in rest : e.n < m,
           Progress(CS!Meant, reader.got, ({e.n} \ {0}) \cup rest),
           NEW after, Handled(r, e, after)
    PROVE  Progress(CS!Meant, after.got, rest)
<1>1. CS!Meant \in SUBSET Nat /\ 0 \notin CS!Meant /\ reader.got \in Seq(Nat) /\ Len(feed.said) \in Nat
    BY DEF CS!Meant, Readers, Feeds
<1>2. CASE e.kind \in CS!Said
    <2>1. e.n \in 1..Len(feed.said) /\ feed.said[e.n] = e.kind
        BY <1>2 DEF Genuine
    <2>2. e.n \in Nat /\ e.n # 0 /\ {e.n} \ {0} = {e.n}
        BY <1>1, <2>1
    <2>3. Progress(CS!Meant, reader.got, {e.n} \cup rest)
        BY <2>2
    <2>4. /\ e.n \in CS!Meant => Progress(CS!Meant, Append(reader.got, e.n), rest)
          /\ e.n \notin CS!Meant => Progress(CS!Meant, reader.got, rest)
        BY <1>1, <2>2, <2>3, ProgressFrame
    <2>5. e.n \in CS!Meant <=> (e.kind # "other" \/ reader.sdk \in {"rust", "zig"})
        BY <2>1 DEF CS!Meant
    <2>6. after.got = IF e.kind = "other" /\ r.sdk \notin {"rust", "zig"} THEN r.got
                      ELSE Append(r.got, e.n)
        BY <1>2 DEF Handled
    <2>7. CASE e.n \in CS!Meant
        <3>1. after.got = Append(reader.got, e.n)
            BY <2>5, <2>6, <2>7
        <3> QED
            BY <2>4, <2>7, <3>1
    <2>8. CASE e.n \notin CS!Meant
        <3>1. after.got = reader.got
            BY <2>5, <2>6, <2>8
        <3> QED
            BY <2>4, <2>8, <3>1
    <2> QED
        BY <2>7, <2>8
<1>3. CASE e.kind \notin CS!Said
    <2>1. e.n = 0 /\ e.kind \in {"error", "done"}
        BY <1>3 DEF Genuine, Frames
    <2>2. ({e.n} \ {0}) \cup rest = rest
        BY <2>1
    <2>3. Progress(CS!Meant, reader.got, rest)
        BY <2>2
    <2>4. after.got \in {reader.got, Append(reader.got, 0)}
        BY <2>1 DEF Handled
    <2>5. Progress(CS!Meant, Append(reader.got, 0), rest)
        BY <1>1, <2>3, ProgressNothing
    <2> QED
        BY <2>3, <2>4, <2>5
<1> QED
    BY <1>2, <1>3

\* Order and wholeness of what was got, after a step.
LEMMA OrderPrimed ==
    (\A rest : Progress(CS!Meant, reader.got, rest) /\ reader.got \in Seq(Nat) =>
        /\ CS!InOrder
        /\ rest = feed.lost /\ feed.lost \subseteq Nat => CS!Heard = CS!Meant \ feed.lost)'
BY ProgressOrder, PTL

LEMMA OrderAfter ==
    ASSUME NEW left, Progress(CS!Meant', reader'.got, left), reader' \in Readers, feed' \in Feeds
    PROVE  /\ CS!InOrder'
           /\ left = feed'.lost => CS!Heard' = CS!Meant' \ feed'.lost
<1>1. reader'.got \in Seq(Nat) /\ feed'.lost \subseteq Nat
    BY DEF Readers, Feeds
<1> QED
    BY <1>1, OrderPrimed

\* A line is taken.
LEMMA LineTaken ==
    ASSUME ClientAssumption, ClientInv, reader.state = "open", feed.lines # <<>>,
           feed' = [feed EXCEPT !.lines = Tail(@)]
    PROVE  LET f == Head(feed.lines)
               t == Tail(feed.lines)
           IN /\ feed' \in Feeds /\ feed'.surface = feed.surface /\ feed'.said = feed.said
              /\ feed'.state = feed.state /\ feed'.lines = t /\ feed'.link = feed.link
              /\ feed'.lost = feed.lost /\ feed'.lost \subseteq 1..Len(feed'.said)
              /\ Written' /\ Genuine(feed, f) /\ f \in Frames /\ f = feed.lines[1]
              /\ \A x : Genuine(feed, x) => Genuine(feed', x)
              /\ Numbers(feed.lines) = ({f.n} \cup Numbers(t)) \ {0}
              /\ Numbers(t) \cup feed.lost \in SUBSET Nat
              /\ \A m \in Numbers(t) \cup feed.lost : f.n < m
              /\ f.kind \in {"done", "terminal"} => Numbers(t) = {}
              /\ feed.surface # "batch" /\ f.kind # "blank" =>
                    /\ t # <<>> => t[1].kind = "blank"
                    /\ t = <<>> => feed.link # "up"
              /\ Warned(feed.lines) =>
                    /\ f.kind # "done"
                    /\ f.kind # "error" => Warned(t)
              /\ \A i \in 1..Len(feed.lines) :
                    \/ i = 1 /\ feed.lines[i] = f
                    \/ i - 1 \in 1..Len(t) /\ feed.lines[i] = t[i - 1]
<1> DEFINE lines == feed.lines
           f == Head(lines)
           t == Tail(lines)
<1>1. /\ feed \in Feeds /\ feed.lost \subseteq 1..Len(feed.said) /\ Written
      /\ lines \in Seq(Frames) /\ Len(feed.said) \in Nat /\ feed.lost \subseteq Nat
    BY WhileOpen
<1>2. lines # <<>>
    OBVIOUS
<1>3. /\ f = lines[1] /\ f \in Frames /\ t \in Seq(Frames) /\ 1 \in 1..Len(lines)
      /\ Len(t) = Len(lines) - 1 /\ Len(lines) \in Nat
      /\ \A i \in 1..Len(t) : i + 1 \in 1..Len(lines) /\ t[i] = lines[i + 1]
      /\ Numbers(lines) = ({f.n} \cup Numbers(t)) \ {0}
      /\ Growing(lines) => Growing(t)
      /\ Concluded(lines) => Concluded(t)
      /\ Spaced(lines) => Spaced(t)
    <2> HIDE DEF lines
    <2> QED
        BY <1>1, <1>2, FirstLine
<1> HIDE DEF f, t
<1>4. feed' = [feed EXCEPT !.lines = t]
    BY DEF t, lines
<1>5. /\ feed' \in Feeds /\ feed'.surface = feed.surface /\ feed'.said = feed.said
      /\ feed'.state = feed.state /\ feed'.lines = t /\ feed'.link = feed.link
      /\ feed'.lost = feed.lost
    BY <1>1, <1>3, <1>4 DEF Feeds
<1>6. \A x : Genuine(feed, x) => Genuine(feed', x)
    BY <1>5 DEF Genuine
<1>7. \A i \in 1..Len(lines) : Genuine(feed, lines[i]) /\ lines[i].n \in Nat
    <2>1. \A i \in 1..Len(lines) : Genuine(feed, lines[i])
        BY <1>1 DEF Written
    <2> QED
        BY <2>1 DEF Genuine, Frames
<1>8. Genuine(feed, f) /\ f.n \in Nat
    BY <1>3, <1>7
<1>9. /\ Growing(lines) /\ Concluded(lines) /\ (feed.surface # "batch" => Spaced(lines))
      /\ (feed.link = "up" => feed.lost = {})
      /\ (feed.link = "up" /\ feed.surface # "batch" /\ lines # <<>> =>
             lines[Len(lines)].kind = "blank")
      /\ \A n \in Numbers(lines), lost \in feed.lost : n < lost
    BY <1>1 DEF Written
<1>10. \A i \in 1..Len(lines) : \/ i = 1 /\ lines[i] = f
                                \/ i - 1 \in 1..Len(t) /\ lines[i] = t[i - 1]
    <2> HIDE DEF lines
    <2> SUFFICES ASSUME NEW i \in 1..Len(lines), i # 1
                 PROVE  i - 1 \in 1..Len(t) /\ lines[i] = t[i - 1]
        BY <1>3
    <2>1. i - 1 \in 1..Len(t) /\ (i - 1) + 1 = i
        BY <1>3
    <2> QED
        BY <1>3, <2>1
<1>11. Numbers(t) \subseteq Numbers(lines) /\ Numbers(t) \subseteq Nat
    <2>1. \A n \in Numbers(t) : n # 0 /\ \E i \in 1..Len(t) : t[i].n = n
        BY DEF Numbers
    <2>2. \A i \in 1..Len(t) : t[i].n \in Nat
        BY <1>3, <1>7
    <2> QED
        BY <1>3, <2>1, <2>2
<1>12. ASSUME NEW m \in Numbers(t) \cup feed.lost
       PROVE  f.n < m
    <2>1. CASE m \in Numbers(t)
        <3>1. PICK i \in 1..Len(t) : t[i].n = m /\ m # 0
            BY <2>1 DEF Numbers
        <3>2. i + 1 \in 1..Len(lines) /\ lines[i + 1].n = m /\ 1 < i + 1
            BY <1>3, <3>1
        <3>3. CASE f.n = 0
            BY <1>11, <2>1, <3>1, <3>3
        <3>4. CASE f.n # 0
            BY <1>3, <1>9, <3>1, <3>2, <3>4 DEF Growing
        <3> QED
            BY <3>3, <3>4
    <2>2. CASE m \in feed.lost
        <3>1. m \in Nat /\ m > 0
            BY <1>1, <2>2
        <3>2. CASE f.n = 0
            BY <3>1, <3>2
        <3>3. CASE f.n # 0
            <4>1. f.n \in Numbers(lines)
                BY <1>3, <3>3
            <4> QED
                BY <1>9, <2>2, <4>1
        <3> QED
            BY <3>2, <3>3
    <2> QED
        BY <2>1, <2>2
<1>13. f.kind \in {"done", "terminal"} => Numbers(t) = {}
    <2> SUFFICES ASSUME f.kind \in {"done", "terminal"}, NEW m \in Numbers(t)
                 PROVE  FALSE
        OBVIOUS
    <2>1. PICK i \in 1..Len(t) : t[i].n = m /\ m # 0
        BY DEF Numbers
    <2>2. i + 1 \in 1..Len(lines) /\ lines[i + 1].n = m /\ 1 < i + 1
        BY <1>3, <2>1
    <2> QED
        BY <1>3, <1>9, <2>1, <2>2 DEF Concluded
<1>14. ASSUME feed.surface # "batch", f.kind # "blank"
       PROVE  /\ t # <<>> => t[1].kind = "blank"
              /\ t = <<>> => feed.link # "up"
    <2>1. ASSUME t # <<>>
          PROVE  t[1].kind = "blank"
        <3>1. 1 \in 1..Len(t)
            BY <1>3, <2>1
        <3>2. 2 \in 1..Len(lines) /\ t[1] = lines[2]
            BY <1>3, <3>1
        <3> QED
            BY <1>3, <1>9, <1>14, <3>2 DEF Spaced
    <2>2. ASSUME t = <<>>
          PROVE  feed.link # "up"
        <3>1. Len(lines) = 1
            BY <1>3, <2>2
        <3> QED
            BY <1>2, <1>3, <1>9, <1>14, <3>1
    <2> QED
        BY <2>1, <2>2
<1>15. ASSUME Warned(lines)
       PROVE  f.kind # "done" /\ (f.kind # "error" => Warned(t))
    <2>1. f.kind # "done"
        <3> SUFFICES ASSUME f.kind = "done"
                     PROVE  FALSE
            OBVIOUS
        <3>1. PICK i \in 1..Len(lines) : i < 1
            BY <1>3, <1>15 DEF Warned
        <3> QED
            BY <1>3, <3>1
    <2>2. ASSUME f.kind # "error", NEW j \in 1..Len(t), t[j].kind = "done"
          PROVE  \E i \in 1..Len(t) : i < j /\ t[i].kind = "error"
        <3>1. j + 1 \in 1..Len(lines) /\ lines[j + 1].kind = "done"
            BY <1>3, <2>2
        <3>2. PICK i \in 1..Len(lines) : i < j + 1 /\ lines[i].kind = "error"
            BY <1>15, <3>1 DEF Warned
        <3>3. i # 1
            BY <1>3, <2>2, <3>2
        <3>4. i - 1 \in 1..Len(t) /\ t[i - 1].kind = "error"
            BY <1>10, <3>2, <3>3
        <3>5. i - 1 < j
            BY <1>3, <3>2
        <3> QED
            BY <3>4, <3>5
    <2> QED
        BY <2>1, <2>2 DEF Warned
<1>16. Written'
    <2>1. \A i \in 1..Len(t) : Genuine(feed', t[i])
        BY <1>3, <1>6, <1>7
    <2>2. Growing(t) /\ Concluded(t) /\ (feed.surface # "batch" => Spaced(t))
        BY <1>3, <1>9
    <2>3. feed.link = "up" /\ feed.surface # "batch" /\ t # <<>> => t[Len(t)].kind = "blank"
        <3> SUFFICES ASSUME feed.link = "up", feed.surface # "batch", t # <<>>
                     PROVE  t[Len(t)].kind = "blank"
            OBVIOUS
        <3>1. Len(t) \in 1..Len(t)
            BY <1>3
        <3>2. t[Len(t)] = lines[Len(t) + 1] /\ Len(t) + 1 = Len(lines)
            BY <1>3, <3>1
        <3> QED
            BY <1>2, <1>9, <3>2
    <2>4. \A n \in Numbers(t), lost \in feed.lost : n < lost
        BY <1>9, <1>11
    <2> QED
        BY <1>5, <1>9, <2>1, <2>2, <2>3, <2>4 DEF Written
<1> QED
    BY <1>1, <1>3, <1>5, <1>6, <1>8, <1>10, <1>11, <1>12, <1>13, <1>14, <1>15, <1>16 DEF f, t

\* An event is met: what follows of what was got and told. Where the iterator ends without an error,
\* nothing is left.
LEMMA EventHandled ==
    ASSUME ClientAssumption, ClientInv, reader.state = "open",
           feed' \in Feeds, feed'.surface = feed.surface, feed'.said = feed.said,
           feed'.state = feed.state, feed'.link = feed.link, feed'.lost = feed.lost,
           NEW e, Genuine(feed, e), e.kind # "blank",
           NEW r \in Readers, r.got = reader.got, r.sdk = reader.sdk, r.told = reader.told,
           NEW left \in SUBSET Nat, \A m \in left : e.n < m,
           e.kind \in {"done", "terminal"} => left = feed.lost,
           Progress(CS!Meant, reader.got, ({e.n} \ {0}) \cup left),
           Handled(r, e, reader'),
           reader'.state = "ended" /\ ~reader'.told /\ e.kind = "done" => feed.state # "failed"
    PROVE  /\ reader' \in Readers /\ reader'.pending = r.pending /\ reader'.sdk = reader.sdk
           /\ Progress(CS!Meant', reader'.got, left) /\ CS!InOrder' /\ CS!NoFalseAlarm'
           /\ r.state = "open" => CS!EndMeansWhole'
           /\ ~reader'.told => ~reader.told /\ (e.kind = "error" => CS!Mute)
<1>1. /\ feed \in Feeds /\ CS!NoFalseAlarm /\ reader.told \in BOOLEAN
    BY WhileOpen
<1>2. /\ reader' \in Readers /\ reader'.pending = r.pending /\ reader'.sdk = reader.sdk
    BY DEF Handled
<1>3. CS!Meant' = CS!Meant
    BY <1>2 DEF CS!Meant
<1>4. Progress(CS!Meant', reader'.got, left)
    BY <1>1, <1>3, EventMet
<1>5. /\ CS!InOrder'
      /\ left = feed'.lost => CS!Heard' = CS!Meant' \ feed'.lost
    BY <1>2, <1>4, OrderAfter
<1>6. e.kind \in CS!Said \cup {"error", "done"}
    BY DEF Genuine, Frames
<1>7. /\ reader'.told \in BOOLEAN
      /\ e.kind # "error" => reader'.told = reader.told
      /\ e.kind = "error" =>
             \/ reader'.told
             \/ reader'.told = reader.told /\ feed.surface = "chat" /\ reader.sdk \in CS!AtBlank
    <2>1. reader'.told \in BOOLEAN
        BY <1>2 DEF Readers
    <2> QED
        BY <1>6, <2>1 DEF Handled
<1>8. CS!NoFalseAlarm'
    <2> SUFFICES ASSUME reader'.told
                 PROVE  \/ feed.state = "failed" \/ feed.link = "broken"
                        \/ /\ reader.sdk \in CS!Bounded
                           /\ \E i \in 1..Len(feed.said) : feed.said[i] = "large"
        BY <1>2 DEF CS!NoFalseAlarm
    <2>1. CASE e.kind = "error"
        BY <2>1 DEF Genuine
    <2>2. CASE e.kind # "error"
        BY <1>1, <1>7, <2>2 DEF CS!NoFalseAlarm
    <2> QED
        BY <2>1, <2>2
<1>9. ASSUME r.state = "open"
      PROVE  CS!EndMeansWhole'
    <2> SUFFICES ASSUME reader'.state = "ended", ~reader'.told
                 PROVE  /\ CS!Heard' = CS!Meant' \ feed'.lost
                        /\ feed.state = "finished"
        BY DEF CS!EndMeansWhole
    <2>1. e.kind # "error"
        BY DEF Handled
    <2>2. e.kind \in {"done", "terminal"}
        <3>1. e.kind \in CS!Said /\ e.kind # "terminal" => reader'.state = "open"
            BY <1>9 DEF Handled
        <3> QED
            BY <1>6, <2>1, <3>1
    <2>3. feed.state \in {"open", "finished", "failed"}
        BY <1>1 DEF Feeds
    <2>4. feed.state = "finished"
        BY <2>2, <2>3 DEF Genuine
    <2> QED
        BY <1>5, <2>2, <2>4
<1>10. ~reader'.told => ~reader.told /\ (e.kind = "error" => CS!Mute)
    BY <1>1, <1>7 DEF CS!Mute
<1> QED
    BY <1>2, <1>4, <1>5, <1>8, <1>9, <1>10

\* The SDK reads a line.
LEMMA ReadStep ==
    ASSUME ClientAssumption, ClientInv, CS!Read
    PROVE  ClientInv'
<1> DEFINE f == Head(feed.lines)
           t == Tail(feed.lines)
           rest == Numbers(t) \cup feed.lost
<1>1. /\ reader.state = "open" /\ feed.lines # <<>> /\ reader' = CS!ReadLine(reader, f)
      /\ feed' = [feed EXCEPT !.lines = Tail(@)]
    BY DEF CS!Read
<1>2. /\ feed \in Feeds /\ reader \in Readers /\ Written /\ Waiting /\ Reading /\ Alarms
      /\ CS!NoFalseAlarm /\ feed.surface \in Surfaces /\ CS!InOrder
    BY <1>1, WhileOpen DEF ClientInv
<1>3. /\ feed' \in Feeds /\ feed'.surface = feed.surface /\ feed'.said = feed.said
      /\ feed'.state = feed.state /\ feed'.lines = t /\ feed'.link = feed.link
      /\ feed'.lost = feed.lost /\ feed'.lost \subseteq 1..Len(feed'.said)
      /\ Written' /\ Genuine(feed, f) /\ f \in Frames /\ f = feed.lines[1]
      /\ \A x : Genuine(feed, x) => Genuine(feed', x)
      /\ Numbers(feed.lines) = ({f.n} \cup Numbers(t)) \ {0}
      /\ rest \in SUBSET Nat
      /\ \A m \in rest : f.n < m
      /\ f.kind \in {"done", "terminal"} => Numbers(t) = {}
      /\ feed.surface # "batch" /\ f.kind # "blank" =>
            /\ t # <<>> => t[1].kind = "blank"
            /\ t = <<>> => feed.link # "up"
      /\ Warned(feed.lines) =>
            /\ f.kind # "done"
            /\ f.kind # "error" => Warned(t)
      /\ \A i \in 1..Len(feed.lines) :
            \/ i = 1 /\ feed.lines[i] = f
            \/ i - 1 \in 1..Len(t) /\ feed.lines[i] = t[i - 1]
    BY <1>1, LineTaken
<1> HIDE DEF f, t
<1>4. None \notin Frames /\ (reader.pending # None => f.kind = "blank")
    BY <1>1, <1>2, <1>3 DEF Waiting, ClientAssumption
<1>5. 0 \notin Numbers(t) /\ 0 \notin feed.lost
    BY <1>3 DEF Numbers
<1>6. Progress(CS!Meant, reader.got, Numbers(feed.lines) \cup Held \cup feed.lost)
    BY <1>2 DEF Reading
\* Of a failure that was not told, the news is among the lines left, unless this was it.
<1>7. ASSUME feed.state = "failed", ~CS!Mute, ~reader.told, f.kind # "error"
      PROVE  /\ Warned(t)
             /\ feed.link = "up" =>
                   \/ \E i \in 1..Len(t) : t[i].kind = "error"
                   \/ reader.pending # None /\ reader.pending.kind = "error"
    <2>1. /\ Warned(feed.lines)
          /\ feed.link = "up" =>
                \/ \E i \in 1..Len(feed.lines) : feed.lines[i].kind = "error"
                \/ reader.pending # None /\ reader.pending.kind = "error"
        BY <1>2, <1>7 DEF Alarms
    <2>2. ASSUME NEW i \in 1..Len(feed.lines), feed.lines[i].kind = "error"
          PROVE  \E j \in 1..Len(t) : t[j].kind = "error"
        BY <1>3, <1>7, <2>2
    <2> QED
        BY <1>3, <1>7, <2>1, <2>2
<1>8. CASE f.kind = "large" /\ reader.sdk \in CS!Bounded
    <2>1. reader' = CS!Raise(reader)
        BY <1>1, <1>8 DEF CS!ReadLine
    <2>2. /\ reader' \in Readers /\ reader'.sdk = reader.sdk /\ reader'.got = reader.got
          /\ reader'.told = TRUE /\ reader'.state = "ended"
        BY <1>2, <2>1, RaiseStep
    <2>3. f.n \in 1..Len(feed.said) /\ feed.said[f.n] = "large"
        BY <1>3, <1>8 DEF Genuine, CS!Said
    <2>4. CS!NoFalseAlarm'
        BY <1>3, <1>8, <2>2, <2>3 DEF CS!NoFalseAlarm
    <2>5. CS!InOrder'
        <3>1. CS!Heard' = CS!Heard /\ CS!Meant' = CS!Meant
            BY <1>3, <2>2 DEF CS!Heard, CS!Meant
        <3> QED
            BY <1>2, <2>2, <3>1 DEF CS!InOrder
    <2>6. CS!EndMeansWhole' /\ ClientTyped' /\ ClientWorks'
        BY <1>3, <2>2 DEF CS!EndMeansWhole, ClientTyped, ClientWorks
    <2> QED
        BY <2>4, <2>5, <2>6 DEF ClientInv
\* The line leaves what was got and told alone: a blank one, or one that is kept.
<1>9. CASE reader' = reader /\ reader.pending = None /\ f.kind = "blank"
    <2>1. Waiting'
        BY <1>9 DEF Waiting
    <2>2. f.n = 0
        BY <1>3, <1>9 DEF Genuine, CS!Said
    <2>3. CS!Meant' = CS!Meant /\ Held' = {} /\ Held = {}
        BY <1>3, <1>9 DEF CS!Meant, Held
    <2>4. (Numbers(feed.lines) \cup Held \cup feed.lost)' = Numbers(feed.lines) \cup Held \cup feed.lost
        BY <1>3, <1>5, <2>2, <2>3
    <2>5. Reading'
        BY <1>6, <1>9, <2>3, <2>4 DEF Reading
    <2>6. Alarms'
        BY <1>3, <1>7, <1>9 DEF Alarms, CS!Mute
    <2>7. CS!NoFalseAlarm' /\ CS!InOrder'
        <3>1. CS!Heard' = CS!Heard /\ CS!Meant' = CS!Meant
            BY <1>3, <1>9 DEF CS!Heard, CS!Meant
        <3> QED
            BY <1>2, <1>3, <1>9, <3>1 DEF CS!NoFalseAlarm, CS!InOrder
    <2>8. CS!EndMeansWhole' /\ ClientTyped'
        BY <1>1, <1>2, <1>3, <1>9 DEF CS!EndMeansWhole, ClientTyped
    <2> QED
        BY <1>3, <2>1, <2>5, <2>6, <2>7, <2>8 DEF ClientInv, ClientWorks
<1>10. CASE /\ reader' = [reader EXCEPT !.pending = f] /\ f.kind \notin {"blank", "done"}
            /\ reader.sdk \in CS!AtBlank /\ feed.surface # "batch"
    <2>1. /\ reader' \in Readers /\ reader'.sdk = reader.sdk /\ reader'.got = reader.got
          /\ reader'.told = reader.told /\ reader'.state = "open" /\ reader'.pending = f
          /\ f # None /\ reader.pending = None
        BY <1>1, <1>2, <1>3, <1>4, <1>10 DEF Readers
    <2>2. Waiting'
        BY <1>3, <1>10, <2>1 DEF Waiting
    <2>3. CS!Meant' = CS!Meant /\ Held' = {f.n} \ {0} /\ Held = {}
        BY <1>3, <2>1 DEF CS!Meant, Held
    <2>4. (Numbers(feed.lines) \cup Held \cup feed.lost)' = Numbers(feed.lines) \cup Held \cup feed.lost
        BY <1>3, <1>5, <2>3
    <2>5. Reading'
        BY <1>6, <2>1, <2>3, <2>4 DEF Reading
    <2>6. Alarms'
        <3> SUFFICES ASSUME feed.state = "failed", ~CS!Mute, ~reader.told
                     PROVE  /\ Warned(t)
                            /\ feed.link = "up" =>
                                  \/ \E i \in 1..Len(t) : t[i].kind = "error"
                                  \/ f.kind = "error"
            BY <1>3, <2>1 DEF Alarms, CS!Mute
        <3>1. CASE f.kind = "error"
            <4>1. feed.surface # "chat"
                BY <1>10 DEF CS!Mute
            <4>2. \A i \in 1..Len(t) : t[i].kind # "done"
                BY <1>3, <4>1 DEF Written, Genuine
            <4> QED
                BY <3>1, <4>2 DEF Warned
        <3>2. CASE f.kind # "error"
            BY <1>7, <2>1, <3>2
        <3> QED
            BY <3>1, <3>2
    <2>7. CS!NoFalseAlarm' /\ CS!InOrder'
        <3>1. CS!Heard' = CS!Heard /\ CS!Meant' = CS!Meant
            BY <1>3, <2>1 DEF CS!Heard, CS!Meant
        <3> QED
            BY <1>2, <1>3, <2>1, <3>1 DEF CS!NoFalseAlarm, CS!InOrder
    <2>8. CS!EndMeansWhole' /\ ClientTyped'
        BY <1>3, <2>1 DEF CS!EndMeansWhole, ClientTyped
    <2> QED
        BY <1>3, <2>2, <2>5, <2>6, <2>7, <2>8 DEF ClientInv, ClientWorks
\* The sentinel ends an iterator that waits for blank lines.
<1>11. CASE /\ reader' = CS!Stop(reader) /\ f.kind = "done"
            /\ reader.sdk \in CS!AtBlank
    <2>1. /\ reader' \in Readers /\ reader'.sdk = reader.sdk /\ reader'.got = reader.got
          /\ reader'.told = reader.told /\ reader'.state = "ended"
        BY <1>2, <1>11, StopStep
    <2>2. f.n = 0 /\ feed.surface = "chat" /\ feed.state # "open"
        BY <1>3, <1>11 DEF Genuine, CS!Said
    <2>3. Held = {} /\ CS!Meant' = CS!Meant
        BY <1>3, <1>4, <1>11, <2>1 DEF Held, CS!Meant
    <2>4. Numbers(feed.lines) \cup Held \cup feed.lost = feed'.lost
        BY <1>3, <1>11, <2>2, <2>3
    <2>5. Progress(CS!Meant', reader'.got, feed'.lost)
        BY <1>6, <2>1, <2>3, <2>4
    <2>6. CS!InOrder' /\ CS!Heard' = CS!Meant' \ feed'.lost
        BY <1>3, <2>1, <2>5, OrderAfter
    <2>7. feed.state \in {"finished", "failed"}
        BY <1>2, <2>2 DEF Feeds
    <2>8. CS!EndMeansWhole' /\ CS!NoFalseAlarm'
        BY <1>2, <1>3, <1>11, <2>1, <2>2, <2>6, <2>7
        DEF CS!EndMeansWhole, CS!NoFalseAlarm, CS!Mute
    <2>9. ClientTyped' /\ ClientWorks'
        BY <1>3, <2>1 DEF ClientTyped, ClientWorks
    <2> QED
        BY <2>6, <2>8, <2>9 DEF ClientInv
\* An event is handled as it comes.
<1>12. CASE /\ reader' = CS!Handle(reader, f) /\ f.kind # "blank"
            /\ feed.surface = "batch" \/ reader.sdk \notin CS!AtBlank
    <2>1. f.kind \in Kinds(feed.surface) /\ (f.kind = "done" => reader.sdk \notin CS!AtBlank)
        <3>1. f.kind \in Kinds(feed.surface)
            BY <1>2, <1>3, <1>12, EventKind
        <3>2. f.kind = "done" => feed.surface = "chat"
            BY <1>3 DEF Genuine
        <3> QED
            BY <1>12, <3>1, <3>2
    <2>2. Handled(reader, f, reader')
        BY <1>1, <1>2, <1>3, <1>12, <2>1, HandleStep
    <2>3. reader.pending = None /\ Held = {}
        BY <1>4, <1>12 DEF Held
    <2>4. ({f.n} \ {0}) \cup rest = Numbers(feed.lines) \cup Held \cup feed.lost
        BY <1>3, <1>5, <2>3
    <2>5. Progress(CS!Meant, reader.got, ({f.n} \ {0}) \cup rest)
        BY <1>6, <2>4
    <2>6. f.kind \in {"done", "terminal"} => rest = feed.lost
        BY <1>3
    <2>7. reader'.state = "ended" /\ ~reader'.told /\ f.kind = "done" => feed.state # "failed"
        <3> SUFFICES ASSUME ~reader'.told, f.kind = "done", feed.state = "failed"
                     PROVE  FALSE
            OBVIOUS
        <3>1. ~reader.told
            BY <2>2 DEF Handled
        <3>2. ~CS!Mute
            BY <2>1 DEF CS!Mute
        <3> QED
            BY <1>2, <1>3, <3>1, <3>2 DEF Alarms
    <2> HIDE DEF rest
    <2>8. /\ reader' \in Readers /\ reader'.pending = reader.pending /\ reader'.sdk = reader.sdk
          /\ Progress(CS!Meant', reader'.got, rest) /\ CS!InOrder' /\ CS!NoFalseAlarm'
          /\ CS!EndMeansWhole'
          /\ ~reader'.told => ~reader.told /\ (f.kind = "error" => CS!Mute)
        <3>1. /\ feed' \in Feeds /\ feed'.surface = feed.surface /\ feed'.said = feed.said
              /\ feed'.state = feed.state /\ feed'.link = feed.link /\ feed'.lost = feed.lost
              /\ Genuine(feed, f) /\ rest \in SUBSET Nat /\ \A m \in rest : f.n < m
            BY <1>3
        <3>2. /\ reader.state = "open" /\ reader \in Readers /\ f.kind # "blank"
              /\ reader.got = reader.got /\ reader.sdk = reader.sdk /\ reader.told = reader.told
            BY <1>1, <1>2, <1>12
        <3> QED
            BY <2>2, <2>5, <2>6, <2>7, <3>1, <3>2, EventHandled
    <2>9. Waiting'
        BY <2>3, <2>8 DEF Waiting
    <2>10. Reading'
        <3>1. (Numbers(feed.lines) \cup Held \cup feed.lost)' = rest
            BY <1>3, <2>3, <2>8 DEF Held, rest
        <3> QED
            BY <2>8, <3>1 DEF Reading
    <2>11. Alarms'
        <3> SUFFICES ASSUME feed.state = "failed", ~CS!Mute, ~reader'.told
                     PROVE  /\ Warned(t)
                            /\ feed.link = "up" => \E i \in 1..Len(t) : t[i].kind = "error"
            BY <1>3, <2>8 DEF Alarms, CS!Mute
        <3> QED
            BY <1>7, <2>3, <2>8
    <2>12. ClientTyped'
        BY <1>3, <2>8 DEF ClientTyped
    <2> QED
        BY <1>3, <2>8, <2>9, <2>10, <2>11, <2>12 DEF ClientInv, ClientWorks
\* The event that waited is handled at its blank line.
<1>13. CASE /\ reader' = CS!Handle([reader EXCEPT !.pending = None], reader.pending)
            /\ reader.pending # None
    <2> DEFINE e == reader.pending
               r == [reader EXCEPT !.pending = None]
    <2>1. /\ Genuine(feed, e) /\ e.kind \notin {"blank", "done"} /\ f.kind = "blank"
          /\ \A n \in Numbers(feed.lines) \cup feed.lost : e.n < n
          /\ e.kind = "terminal" => Numbers(feed.lines) = {}
        BY <1>2, <1>4, <1>13 DEF Waiting
    <2>2. /\ r \in Readers /\ r.got = reader.got /\ r.sdk = reader.sdk /\ r.told = reader.told
          /\ r.state = "open" /\ r.pending = None
        BY <1>1, <1>2 DEF Readers
    <2> HIDE DEF r
    <2>3. e.kind \in Kinds(feed.surface) /\ e \in Frames
        BY <1>2, <2>1, EventKind
    <2>4. Handled(r, e, reader')
        BY <1>2, <1>13, <2>1, <2>2, <2>3, HandleStep DEF r
    <2>5. f.n = 0
        BY <1>3, <2>1 DEF Genuine, CS!Said
    <2>6. Numbers(feed.lines) = Numbers(t) /\ Held = {e.n} \ {0}
        BY <1>3, <1>5, <1>13, <2>5 DEF Held
    <2>7. ({e.n} \ {0}) \cup rest = Numbers(feed.lines) \cup Held \cup feed.lost
        BY <2>6
    <2>8. Progress(CS!Meant, reader.got, ({e.n} \ {0}) \cup rest)
        BY <1>6, <2>7
    <2>9. (\A m \in rest : e.n < m) /\ (e.kind \in {"done", "terminal"} => rest = feed.lost)
        BY <2>1, <2>6
    <2> HIDE DEF rest
    <2>10. e.kind # "blank" /\ e.kind # "done"
        BY <2>1
    <2> HIDE DEF e
    <2>11. /\ reader' \in Readers /\ reader'.pending = r.pending /\ reader'.sdk = reader.sdk
           /\ Progress(CS!Meant', reader'.got, rest) /\ CS!InOrder' /\ CS!NoFalseAlarm'
           /\ CS!EndMeansWhole'
           /\ ~reader'.told => ~reader.told /\ (e.kind = "error" => CS!Mute)
        BY <1>1, <1>3, <2>1, <2>2, <2>4, <2>8, <2>9, <2>10, EventHandled
    <2>12. Waiting'
        BY <2>2, <2>11 DEF Waiting
    <2>13. Reading'
        <3>1. (Numbers(feed.lines) \cup Held \cup feed.lost)' = rest
            BY <1>3, <2>2, <2>11 DEF Held, rest
        <3> QED
            BY <2>11, <3>1 DEF Reading
    <2>14. Alarms'
        <3> SUFFICES ASSUME feed.state = "failed", ~CS!Mute, ~reader'.told
                     PROVE  /\ Warned(t)
                            /\ feed.link = "up" => \E i \in 1..Len(t) : t[i].kind = "error"
            BY <1>3, <2>2, <2>11 DEF Alarms, CS!Mute
        <3> QED
            BY <1>7, <2>1, <2>11 DEF e
    <2>15. ClientTyped'
        BY <1>3, <2>11 DEF ClientTyped
    <2> QED
        BY <1>3, <2>11, <2>12, <2>13, <2>14, <2>15 DEF ClientInv, ClientWorks
<1>14. CASE ~(f.kind = "large" /\ reader.sdk \in CS!Bounded)
    <2>1. CASE feed.surface # "batch" /\ reader.sdk \in CS!AtBlank
        <3>1. reader' = CS!Keep(reader, f)
            BY <1>1, <1>14, <2>1 DEF CS!ReadLine
        <3>2. CASE f.kind = "done"
            <4>1. reader' = CS!Stop(reader)
                BY <3>1, <3>2 DEF CS!Keep
            <4> QED
                BY <1>11, <2>1, <3>2, <4>1
        <3>3. CASE f.kind = "blank"
            <4>1. reader' = IF reader.pending = None THEN reader
                            ELSE CS!Handle([reader EXCEPT !.pending = None], reader.pending)
                BY <3>1, <3>3 DEF CS!Keep
            <4> QED
                BY <1>9, <1>13, <3>3, <4>1
        <3>4. CASE f.kind \notin {"blank", "done"}
            <4>1. reader' = [reader EXCEPT !.pending = f]
                BY <3>1, <3>4 DEF CS!Keep
            <4> QED
                BY <1>10, <2>1, <3>4, <4>1
        <3> QED
            BY <3>2, <3>3, <3>4
    <2>2. CASE ~(feed.surface # "batch" /\ reader.sdk \in CS!AtBlank)
        <3>1. reader.pending = None
            BY <1>2, <2>2 DEF Waiting
        <3>2. CASE f.kind = "blank"
            <4>1. reader' = reader
                BY <1>1, <1>14, <2>2, <3>2 DEF CS!ReadLine
            <4> QED
                BY <1>9, <3>1, <3>2, <4>1
        <3>3. CASE f.kind # "blank"
            <4>1. reader' = CS!Handle(reader, f)
                BY <1>1, <1>14, <2>2, <3>3 DEF CS!ReadLine
            <4> QED
                BY <1>12, <2>2, <3>3, <4>1
        <3> QED
            BY <3>2, <3>3
    <2> QED
        BY <2>1, <2>2
<1> QED
    BY <1>8, <1>14

\* The SDK comes to the end of the stream.
LEMMA ReadEndStep ==
    ASSUME ClientAssumption, ClientInv, CS!ReadEnd
    PROVE  ClientInv'
<1>1. /\ reader.state = "open" /\ feed.lines = <<>> /\ UNCHANGED feed
      /\ feed.state # "open" \/ feed.link # "up"
      /\ reader' = IF feed.link = "broken" THEN CS!Raise(reader)
                   ELSE IF reader.pending = None THEN CS!Stop(reader)
                   ELSE CS!Stop(CS!Handle([reader EXCEPT !.pending = None], reader.pending))
    BY DEF CS!ReadEnd
<1>2. /\ feed \in Feeds /\ reader \in Readers /\ Written /\ Waiting /\ Reading /\ Alarms
      /\ CS!NoFalseAlarm /\ feed.surface \in Surfaces /\ CS!InOrder /\ feed.lost \in SUBSET Nat
      /\ feed.lost \subseteq 1..Len(feed.said) /\ reader.told \in BOOLEAN
    BY <1>1, WhileOpen DEF ClientInv
<1>3. Numbers(feed.lines) = {} /\ 1..Len(feed.lines) = {}
    BY <1>1 DEF Numbers
<1>4. feed.link \in {"up", "broken", "closed"} /\ feed.state \in {"open", "finished", "failed"}
    BY <1>2 DEF Feeds
<1>5. Progress(CS!Meant, reader.got, Held \cup feed.lost)
    BY <1>2, <1>3 DEF Reading
<1>6. CASE feed.link = "broken"
    <2>1. reader' = CS!Raise(reader)
        BY <1>1, <1>6
    <2>2. /\ reader' \in Readers /\ reader'.sdk = reader.sdk /\ reader'.got = reader.got
          /\ reader'.told = TRUE /\ reader'.state = "ended"
        BY <1>2, <2>1, RaiseStep
    <2>3. feed' = feed /\ reader'.got = reader.got /\ reader'.sdk = reader.sdk
        BY <1>1, <2>2
    <2>4. CS!Heard' = CS!Heard /\ CS!Meant' = CS!Meant
        BY <2>3 DEF CS!Heard, CS!Meant
    <2>5. CS!InOrder'
        BY <1>2, <2>3, <2>4 DEF CS!InOrder
    <2> QED
        BY <1>1, <1>2, <1>6, <2>2, <2>5
        DEF ClientInv, ClientTyped, ClientWorks, CS!EndMeansWhole, CS!NoFalseAlarm
<1>7. CASE feed.link # "broken" /\ reader.pending = None
    <2>1. reader' = CS!Stop(reader)
        BY <1>1, <1>7
    <2>2. /\ reader' \in Readers /\ reader'.sdk = reader.sdk /\ reader'.got = reader.got
          /\ reader'.told = reader.told /\ reader'.state = "ended"
        BY <1>2, <2>1, StopStep
    <2>3. CS!Meant' = CS!Meant /\ Held \cup feed.lost = feed'.lost
        BY <1>1, <1>7, <2>2 DEF CS!Meant, Held
    <2>4. Progress(CS!Meant', reader'.got, feed'.lost) /\ feed' \in Feeds
        BY <1>1, <1>2, <1>5, <2>2, <2>3
    <2>5. CS!InOrder' /\ CS!Heard' = CS!Meant' \ feed'.lost
        BY <2>2, <2>4, OrderAfter
    <2>6. ~reader.told =>
              \/ feed.state = "finished" \/ feed.link = "closed"
              \/ feed.state = "failed" /\ CS!Mute
        <3> SUFFICES ASSUME ~reader.told, feed.state # "finished", feed.link = "up"
                     PROVE  feed.state = "failed" /\ CS!Mute
            BY <1>4, <1>7
        <3>1. feed.state = "failed"
            BY <1>1, <1>4
        <3> QED
            BY <1>2, <1>3, <1>7, <3>1 DEF Alarms
    <2>7. CS!EndMeansWhole'
        BY <1>1, <2>2, <2>5, <2>6 DEF CS!EndMeansWhole, CS!Mute
    <2>8. CS!NoFalseAlarm' /\ ClientTyped' /\ ClientWorks'
        BY <1>1, <1>2, <2>2 DEF CS!NoFalseAlarm, ClientTyped, ClientWorks
    <2> QED
        BY <2>5, <2>7, <2>8 DEF ClientInv
<1>8. CASE feed.link # "broken" /\ reader.pending # None
    <2> DEFINE e == reader.pending
               r == [reader EXCEPT !.pending = None]
               after == CS!Handle(r, e)
    <2>1. /\ Genuine(feed, e) /\ e.kind \notin {"blank", "done"} /\ feed.link = "closed"
          /\ \A n \in Numbers(feed.lines) \cup feed.lost : e.n < n
        BY <1>1, <1>2, <1>4, <1>8 DEF Waiting
    <2>2. /\ r \in Readers /\ r.got = reader.got /\ r.sdk = reader.sdk /\ r.told = reader.told
          /\ r.state = "open" /\ r.pending = None
        BY <1>1, <1>2 DEF Readers
    <2>3. reader' = CS!Stop(after)
        BY <1>1, <1>8
    <2> HIDE DEF r
    <2>4. e.kind \in Kinds(feed.surface) /\ e \in Frames
        BY <1>2, <2>1, EventKind
    <2>5. Handled(r, e, after)
        BY <1>2, <2>1, <2>2, <2>4, HandleStep
    <2>6. Held = {e.n} \ {0}
        BY <1>8 DEF Held
    <2>7. Progress(CS!Meant, reader.got, ({e.n} \ {0}) \cup feed.lost)
        BY <1>5, <2>6
    <2> HIDE DEF e, after
    <2>8. e.kind # "blank" /\ \A n \in feed.lost : e.n < n
        BY <2>1
    <2>9. Progress(CS!Meant, after.got, feed.lost)
        BY <1>2, <2>1, <2>2, <2>5, <2>7, <2>8, EventMet
    <2>10. after \in Readers /\ after.sdk = reader.sdk
        BY <2>2, <2>5 DEF Handled
    <2>11. /\ reader' \in Readers /\ reader'.sdk = reader.sdk /\ reader'.got = after.got
           /\ reader'.told = after.told /\ reader'.state = "ended"
        BY <2>3, <2>10, StopStep
    <2>12. CS!Meant' = CS!Meant
        BY <1>1, <2>11 DEF CS!Meant
    <2>13. Progress(CS!Meant', reader'.got, feed'.lost) /\ feed' \in Feeds
        BY <1>1, <1>2, <2>9, <2>11, <2>12
    <2>14. CS!InOrder' /\ CS!Heard' = CS!Meant' \ feed'.lost
        BY <2>11, <2>13, OrderAfter
    <2>15. CS!EndMeansWhole'
        BY <1>1, <2>1, <2>14 DEF CS!EndMeansWhole
    <2>16. CS!NoFalseAlarm'
        <3> SUFFICES ASSUME after.told
                     PROVE  \/ feed.state = "failed" \/ feed.link = "broken"
                            \/ /\ reader.sdk \in CS!Bounded
                               /\ \E i \in 1..Len(feed.said) : feed.said[i] = "large"
            BY <1>1, <2>11 DEF CS!NoFalseAlarm
        <3>1. CASE e.kind = "error"
            BY <2>1, <3>1 DEF Genuine
        <3>2. CASE e.kind # "error"
            <4>1. e.kind \in CS!Said
                BY <2>1, <3>2 DEF Genuine, Frames
            <4>2. reader.told
                BY <2>2, <2>5, <4>1 DEF Handled
            <4> QED
                BY <1>2, <4>2 DEF CS!NoFalseAlarm
        <3> QED
            BY <3>1, <3>2
    <2>17. ClientTyped' /\ ClientWorks'
        BY <1>1, <1>2, <2>11 DEF ClientTyped, ClientWorks
    <2> QED
        BY <2>14, <2>15, <2>16, <2>17 DEF ClientInv
<1> QED
    BY <1>6, <1>7, <1>8

\* Nothing has been said.
LEMMA ClientInit ==
    ASSUME ClientAssumption, CS!Init
    PROVE  ClientInv
<1>1. PICK surface \in Surfaces :
          feed = [surface |-> surface, said |-> <<>>, lines |-> <<>>,
                  state |-> "open", link |-> "up", lost |-> {}]
    BY DEF CS!Init
<1>2. PICK sdk \in Sdks :
          reader = [sdk |-> sdk, pending |-> None, got |-> <<>>, told |-> FALSE, state |-> "open"]
    BY DEF CS!Init
<1>3. /\ feed.surface = surface /\ feed.said = <<>> /\ feed.lines = <<>> /\ feed.state = "open"
      /\ feed.link = "up" /\ feed.lost = {} /\ reader.pending = None /\ reader.got = <<>>
      /\ reader.told = FALSE /\ reader.state = "open"
    BY <1>1, <1>2
<1>4. feed \in Feeds /\ reader \in Readers
    BY <1>1, <1>2 DEF Feeds, Readers
<1>5. 1..Len(feed.said) = {} /\ 1..Len(feed.lines) = {} /\ 1..Len(reader.got) = {}
    BY <1>3
<1>6. ClientTyped
    BY <1>3, <1>4 DEF ClientTyped
<1>7. CS!Meant = {} /\ Numbers(feed.lines) = {} /\ Held = {}
    BY <1>3, <1>5 DEF CS!Meant, Numbers, Held
<1>8. Written
    BY <1>3, <1>5, <1>7 DEF Written, Growing, Concluded, Spaced
<1>9. Reading
    BY <1>5, <1>7 DEF Reading, Progress
<1>10. Waiting /\ Alarms
    BY <1>3 DEF Waiting, Alarms
<1>11. CS!InOrder
    <2>1. reader.got \in Seq(Nat) /\ Progress(CS!Meant, reader.got, {})
        BY <1>3, <1>5, <1>7 DEF Progress
    <2> QED
        BY <2>1, ProgressOrder
<1>12. CS!EndMeansWhole /\ CS!NoFalseAlarm
    BY <1>3 DEF CS!EndMeansWhole, CS!NoFalseAlarm
<1> QED
    BY <1>6, <1>8, <1>9, <1>10, <1>11, <1>12 DEF ClientInv, ClientWorks

\* Every step preserves the invariant.
LEMMA ClientStep ==
    ASSUME ClientAssumption, ClientInv, [CS!Next]_CS!vars
    PROVE  ClientInv'
<1>1. CASE \E kind \in {"item", "large", "other"} : CS!Say(kind)
    BY <1>1, SayStep
<1>2. CASE \E failed \in BOOLEAN : CS!ChatEnd(failed) \/ CS!ResponsesEnd(failed) \/ CS!BatchEnd(failed)
    BY <1>2, ChatEndStep, ResponsesEndStep, BatchEndStep
<1>3. CASE \E how \in {"broken", "closed"} : CS!Lose(how)
    BY <1>3, LoseStep
<1>4. CASE CS!Read
    BY <1>4, ReadStep
<1>5. CASE CS!ReadEnd
    BY <1>5, ReadEndStep
<1>6. CASE UNCHANGED CS!vars
    <2>1. UNCHANGED feed /\ UNCHANGED reader
        BY <1>6 DEF CS!vars
    <2>2. ClientTyped' /\ (ClientWorks <=> ClientWorks')
        BY <2>1
        DEF ClientInv, ClientTyped, ClientWorks, Written, Waiting, Reading, Alarms, Held,
            CS!Meant,
            CS!Mute, Genuine
    <2>3. CS!InOrder' /\ CS!EndMeansWhole' /\ CS!NoFalseAlarm'
        BY <2>1
        DEF ClientInv, CS!InOrder, CS!EndMeansWhole, CS!NoFalseAlarm, CS!Heard, CS!Meant, CS!Mute
    <2> QED
        BY <2>2, <2>3 DEF ClientInv
<1> QED
    BY <1>1, <1>2, <1>3, <1>4, <1>5, <1>6 DEF CS!Next

\* What the records and lines of both sides are made of is what the type invariant says.
LEMMA ClientShape ==
    ASSUME ClientInv
    PROVE  CS!TypeOK
<1>1. feed \in Feeds /\ reader \in Readers /\ feed.lost \subseteq 1..Len(feed.said)
    BY DEF ClientInv, ClientTyped
<1>2. /\ feed.surface \in Surfaces /\ feed.said \in Seq(CS!Said)
      /\ feed.state \in {"open", "finished", "failed"} /\ feed.link \in {"up", "broken", "closed"}
      /\ reader.sdk \in Sdks /\ reader.state \in {"open", "ended"} /\ reader.told \in BOOLEAN
      /\ reader.got \in Seq(Nat)
    BY <1>1 DEF Feeds, Readers
<1>3. ASSUME NEW i \in 1..Len(reader.got)
      PROVE  reader.got[i] \in 0..Len(feed.said)
    <2>1. i \in DOMAIN reader.got /\ reader.got[i] \in Nat /\ Len(feed.said) \in Nat
        BY <1>2
    <2>2. CASE reader.got[i] = 0
        BY <2>1, <2>2
    <2>3. CASE reader.got[i] # 0
        <3>1. reader.got[i] \in CS!Heard
            BY <2>1, <2>3 DEF CS!Heard
        <3>2. reader.got[i] \in CS!Meant
            BY <3>1 DEF ClientInv, CS!InOrder
        <3> QED
            BY <2>1, <3>2 DEF CS!Meant
    <2> QED
        BY <2>2, <2>3
<1>4. \A i \in 1..Len(feed.said) : feed.said[i] \in CS!Said
    BY <1>2
<1> QED
    BY <1>1, <1>2, <1>3, <1>4 DEF CS!TypeOK

LEMMA ClientKept ==
    ASSUME ClientAssumption
    PROVE  CS!Spec => []ClientInv
<1>1. CS!Init => ClientInv
    BY ClientInit
<1>2. ClientInv /\ [CS!Next]_CS!vars => ClientInv'
    BY ClientStep
<1> QED
    BY <1>1, <1>2, PTL DEF CS!Spec

\* Both sides keep their types: a caller is given no frame that was not said.
THEOREM ClientTypeOK ==
    ASSUME ClientAssumption
    PROVE  CS!Spec => []CS!TypeOK
BY ClientKept, ClientShape, PTL

\* A caller gets the frames of the node, each once, in order and without a gap, whatever the SDK, the
\* surface and the moment at which the connection goes.
THEOREM ClientInOrder ==
    ASSUME ClientAssumption
    PROVE  CS!Spec => []CS!InOrder
<1>1. ClientInv => CS!InOrder
    BY DEF ClientInv
<1> QED
    BY <1>1, ClientKept, PTL

\* A caller who met no error had all that arrived, and the node had finished.
THEOREM ClientEndMeansWhole ==
    ASSUME ClientAssumption
    PROVE  CS!Spec => []CS!EndMeansWhole
<1>1. ClientInv => CS!EndMeansWhole
    BY DEF ClientInv
<1> QED
    BY <1>1, ClientKept, PTL

\* A caller who met an error met a failure: of the node, of the connection, or a line too long.
THEOREM ClientNoFalseAlarm ==
    ASSUME ClientAssumption
    PROVE  CS!Spec => []CS!NoFalseAlarm
<1>1. ClientInv => CS!NoFalseAlarm
    BY DEF ClientInv
<1> QED
    BY <1>1, ClientKept, PTL

-----------------------------------------------------------------------------
(***************************************************************************)
(* Where a stream comes in: LineBuffer for every limit and for bodies of   *)
(* any number of lines, of any length, cut anywhere.  What is buffered and *)
(* what is on the wire together are the tail of the body, so that where it *)
(* was cut does not matter: the invariant is about that tail and what was  *)
(* handed on.                                                              *)
(***************************************************************************)
CONSTANTS Framings, MAX_SSE_LINE_BYTES, MaxSize, MaxLines
VARIABLES framing, body, wire, buf, payloads, end

LB == INSTANCE LineBuffer WITH lines <- body

\* What the proofs assume of the constants: None is no way to end.
LineAssumption ==
    /\ Framings \subseteq {"sse", "ndjson"}
    /\ MAX_SSE_LINE_BYTES \in Nat /\ MaxSize \in Nat /\ MaxLines \in Nat
    /\ None \notin {"done", "closed", "error"}

\* Lines as they are written, their cells, and payloads.
BodyLines == [kind : {"data", "comment", "done"}, size : Nat \ {0}]
Cells == [line : Nat, at : Nat, of : Nat]
Payloads == [line : Nat, size : Nat]

\* The cells nobody has read: those buffered, then those on the wire.
Came == buf \o wire

\* Each is a cell of a line of the body, the rest of its line comes after it, and after that
\* later lines only.
FromBody(lines, cells) ==
    \A i \in 1..Len(cells) :
        /\ cells[i].line \in 1..Len(lines) /\ cells[i].of = lines[cells[i].line].size
        /\ cells[i].at \in 1..cells[i].of
Followed(cells) ==
    \A i \in 1..Len(cells) : \A d \in 0..(cells[i].of - cells[i].at) :
        /\ i + d \in 1..Len(cells)
        /\ cells[i + d].line = cells[i].line /\ cells[i + d].of = cells[i].of
        /\ cells[i + d].at = cells[i].at + d
Rising(cells) ==
    \A i, j \in 1..Len(cells) :
        j > i + (cells[i].of - cells[i].at) => cells[i].line < cells[j].line
Untold(lines, cells) == FromBody(lines, cells) /\ Followed(cells) /\ Rising(cells)

\* A line is still there from its first cell on.
Starts(cells, k) == \E i \in 1..Len(cells) : cells[i].line = k /\ cells[i].at = 1

Given(out) == {out[i].line : i \in 1..Len(out)}

\* What was handed on is whole data lines in order, before all that is left and before [DONE].
HandedOn(lines, cells, out) ==
    /\ \A i, j \in 1..Len(out) : i < j => out[i].line < out[j].line
    /\ \A i \in 1..Len(out) :
          /\ out[i].line \in 1..Len(lines) /\ lines[out[i].line].kind = "data"
          /\ out[i].size = lines[out[i].line].size
    /\ \A x \in Given(out) : \A i \in 1..Len(cells) : x < cells[i].line
    /\ \A x \in Given(out) : \A d \in 1..Len(lines) : lines[d].kind = "done" => x < d

\* Before [DONE], a line within the limit was handed on or is still there whole; after it, those
\* before it were handed on.
NoneLost(lines, cells, out, within) ==
    \A k \in within : lines[k].kind # "comment" => k \in Given(out) \/ Starts(cells, k)
AllTold(lines, out, within) ==
    \E d \in 1..Len(lines) :
        /\ lines[d].kind = "done"
        /\ \A k \in within : k < d /\ lines[k].kind = "data" => k \in Given(out)

LineTyped ==
    /\ framing \in Framings /\ end \in {None, "done", "closed", "error"}
    /\ body \in Seq(BodyLines) /\ wire \in Seq(Cells) /\ buf \in Seq(Cells)
    /\ payloads \in Seq(Payloads)
    /\ \A k \in 1..Len(body) :
          /\ body[k].kind = "done" => body[k].size = 1
          /\ framing = "ndjson" => body[k].kind = "data"

LineInv ==
    /\ LineTyped
    /\ Untold(body, Came)
    /\ HandedOn(body, Came, payloads)
    /\ end # "done" => NoneLost(body, Came, payloads, LB!Within)
    /\ end = "done" => AllTold(body, payloads, LB!Within)

-----------------------------------------------------------------------------
(* Cells.                                                                  *)

LEMMA CellTyped ==
    ASSUME NEW cells \in Seq(Cells), NEW i \in 1..Len(cells)
    PROVE  /\ cells[i] \in Cells
           /\ cells[i].line \in Nat /\ cells[i].at \in Nat /\ cells[i].of \in Nat
<1>1. cells[i] \in Cells
    OBVIOUS
<1> QED
    BY <1>1 DEF Cells

\* The rest of a sequence of cells.
LEMMA RestOfCells ==
    ASSUME NEW cells \in Seq(Cells), NEW n \in 0..Len(cells)
    PROVE  LET rest == SubSeq(cells, n + 1, Len(cells))
           IN /\ rest \in Seq(Cells) /\ Len(rest) = Len(cells) - n
              /\ \A i \in 1..Len(rest) : rest[i] = cells[n + i]
<1>1. n + 1 \in 1..(Len(cells) + 1) /\ Len(cells) \in Nat
    OBVIOUS
<1> QED
    BY <1>1, SubSeqProperties

\* Two runs of cells, one after the other.
LEMMA JoinedCells ==
    ASSUME NEW front \in Seq(Cells), NEW back \in Seq(Cells)
    PROVE  /\ front \o back \in Seq(Cells) /\ Len(front \o back) = Len(front) + Len(back)
           /\ Len(front) \in Nat /\ Len(back) \in Nat
           /\ \A i \in 1..Len(front) : (front \o back)[i] = front[i]
           /\ \A i \in 1..Len(back) : (front \o back)[Len(front) + i] = back[i]
<1>1. /\ front \o back \in Seq(Cells) /\ Len(front \o back) = Len(front) + Len(back)
      /\ \A i \in 1..(Len(front) + Len(back)) :
            (front \o back)[i] = IF i <= Len(front) THEN front[i] ELSE back[i - Len(front)]
    BY ConcatProperties
<1>2. Len(front) \in Nat /\ Len(back) \in Nat
    OBVIOUS
<1>3. ASSUME NEW i \in 1..Len(back)
      PROVE  /\ Len(front) + i \in 1..(Len(front) + Len(back)) /\ ~(Len(front) + i <= Len(front))
             /\ (Len(front) + i) - Len(front) = i
    BY <1>2
<1> QED
    BY <1>1, <1>2, <1>3

\* Taking cells from the front is taking them from the whole.
LEMMA TakenFromFront ==
    ASSUME NEW front \in Seq(Cells), NEW back \in Seq(Cells), NEW n \in 0..Len(front)
    PROVE  /\ n \in 0..Len(front \o back)
           /\ SubSeq(front, n + 1, Len(front)) \o back
              = SubSeq(front \o back, n + 1, Len(front \o back))
<1> DEFINE cut == SubSeq(front, n + 1, Len(front))
           whole == front \o back
           rest == SubSeq(whole, n + 1, Len(whole))
<1>1. /\ whole \in Seq(Cells) /\ Len(whole) = Len(front) + Len(back)
      /\ Len(front) \in Nat /\ Len(back) \in Nat
      /\ \A i \in 1..Len(front) : whole[i] = front[i]
      /\ \A i \in 1..Len(back) : whole[Len(front) + i] = back[i]
    BY JoinedCells
<1>2. cut \in Seq(Cells) /\ Len(cut) = Len(front) - n /\ \A i \in 1..Len(cut) : cut[i] = front[n + i]
    BY RestOfCells
<1>3. n \in 0..Len(whole)
    BY <1>1
<1>4. rest \in Seq(Cells) /\ Len(rest) = Len(whole) - n /\ \A i \in 1..Len(rest) : rest[i] = whole[n + i]
    <2> HIDE DEF whole
    <2> QED
        BY <1>1, <1>3, RestOfCells
<1>5. /\ cut \o back \in Seq(Cells) /\ Len(cut \o back) = Len(cut) + Len(back)
      /\ Len(cut) \in Nat
      /\ \A i \in 1..Len(cut) : (cut \o back)[i] = cut[i]
      /\ \A i \in 1..Len(back) : (cut \o back)[Len(cut) + i] = back[i]
    <2> HIDE DEF cut
    <2> QED
        BY <1>2, JoinedCells
<1> HIDE DEF cut, whole, rest
<1>6. Len(cut \o back) = Len(rest)
    BY <1>1, <1>2, <1>4, <1>5
<1>7. ASSUME NEW i \in 1..Len(rest)
      PROVE  (cut \o back)[i] = rest[i]
    <2>1. rest[i] = whole[n + i]
        BY <1>4
    <2>2. CASE i <= Len(cut)
        <3>1. i \in 1..Len(cut) /\ n + i \in 1..Len(front)
            BY <1>1, <1>2, <1>5, <2>2
        <3> QED
            BY <1>1, <1>2, <1>5, <2>1, <3>1
    <2>3. CASE i > Len(cut)
        <3> DEFINE j == i - Len(cut)
        <3>1. j \in 1..Len(back) /\ i = Len(cut) + j /\ n + i = Len(front) + j
            BY <1>1, <1>2, <1>4, <1>5, <2>3
        <3> QED
            BY <1>1, <1>5, <2>1, <3>1
    <2>4. i <= Len(cut) \/ i > Len(cut)
        BY <1>5
    <2> QED
        BY <2>2, <2>3, <2>4
<1>8. cut \o back = rest
    BY <1>4, <1>5, <1>6, <1>7, SeqEqual
<1> QED
    BY <1>3, <1>8 DEF cut, whole, rest

\* Where a delivery cuts what is on the wire makes no difference to what is left to read.
LEMMA DeliveredCells ==
    ASSUME NEW front \in Seq(Cells), NEW back \in Seq(Cells), NEW n \in 1..Len(back)
    PROVE  /\ front \o SubSeq(back, 1, n) \in Seq(Cells)
           /\ SubSeq(back, n + 1, Len(back)) \in Seq(Cells)
           /\ (front \o SubSeq(back, 1, n)) \o SubSeq(back, n + 1, Len(back)) = front \o back
<1> DEFINE left == SubSeq(back, 1, n)
           right == SubSeq(back, n + 1, Len(back))
<1>1. left \in Seq(Cells) /\ Len(left) = n /\ \A i \in 1..n : left[i] = back[i]
    <2>1. 1 \in 1..(Len(back) + 1) /\ n \in 0..Len(back) /\ n >= 0
        OBVIOUS
    <2> QED
        BY <2>1, SubSeqProperties
<1>2. right \in Seq(Cells) /\ Len(right) = Len(back) - n
      /\ \A i \in 1..Len(right) : right[i] = back[n + i]
    BY RestOfCells
<1>3. Len(back) \in Nat
    OBVIOUS
<1> HIDE DEF left, right
<1>4. left \o right = back
    <2>1. /\ left \o right \in Seq(Cells) /\ Len(left \o right) = Len(left) + Len(right)
          /\ Len(left) \in Nat /\ Len(right) \in Nat
          /\ \A i \in 1..Len(left) : (left \o right)[i] = left[i]
          /\ \A i \in 1..Len(right) : (left \o right)[Len(left) + i] = right[i]
        BY <1>1, <1>2, JoinedCells
    <2>2. Len(left \o right) = Len(back)
        BY <1>1, <1>2, <1>3, <2>1
    <2>3. ASSUME NEW i \in 1..Len(back)
          PROVE  (left \o right)[i] = back[i]
        <3>1. CASE i <= n
            BY <1>1, <2>1, <3>1
        <3>2. CASE i > n
            <4>1. i - n \in 1..Len(right) /\ i = n + (i - n) /\ Len(left) = n
                BY <1>1, <1>2, <1>3, <3>2
            <4>2. (left \o right)[n + (i - n)] = right[i - n]
                BY <2>1, <4>1
            <4>3. right[i - n] = back[n + (i - n)]
                BY <1>2, <4>1
            <4> QED
                BY <4>1, <4>2, <4>3
        <3>3. i <= n \/ i > n
            BY <1>3
        <3> QED
            BY <3>1, <3>2, <3>3
    <2> QED
        BY <2>1, <2>2, <2>3, SeqEqual
<1>5. (front \o left) \o right = front \o (left \o right)
    <2>1. left \in Seq(Cells) /\ right \in Seq(Cells)
        BY <1>1, <1>2
    <2> QED
        BY <2>1, ConcatAssociative, SMTT(30)
<1>6. front \o left \in Seq(Cells)
    BY <1>1, JoinedCells
<1> QED
    BY <1>2, <1>4, <1>5, <1>6 DEF left, right

\* What is left of the body after some cells is still its tail.
LEMMA RestUntold ==
    ASSUME NEW lines, NEW cells \in Seq(Cells), NEW n \in 0..Len(cells), Untold(lines, cells)
    PROVE  Untold(lines, SubSeq(cells, n + 1, Len(cells)))
<1> DEFINE rest == SubSeq(cells, n + 1, Len(cells))
<1>1. rest \in Seq(Cells) /\ Len(rest) = Len(cells) - n /\ \A i \in 1..Len(rest) : rest[i] = cells[n + i]
    BY RestOfCells
<1> HIDE DEF rest
<1>2. Len(cells) \in Nat /\ Len(rest) \in Nat
    BY <1>1
<1>3. ASSUME NEW i \in 1..Len(rest)
      PROVE  n + i \in 1..Len(cells) /\ rest[i] = cells[n + i]
    BY <1>1, <1>2
<1>4. FromBody(lines, rest)
    BY <1>3 DEF Untold, FromBody
<1>5. ASSUME NEW i \in 1..Len(rest)
      PROVE  rest[i].of \in Nat /\ rest[i].at \in Nat
    BY <1>1, CellTyped
<1>6. Followed(rest)
    <2> SUFFICES ASSUME NEW i \in 1..Len(rest), NEW d \in 0..(rest[i].of - rest[i].at)
                 PROVE  /\ i + d \in 1..Len(rest)
                        /\ rest[i + d].line = rest[i].line /\ rest[i + d].of = rest[i].of
                        /\ rest[i + d].at = rest[i].at + d
        BY DEF Followed
    <2>1. n + i \in 1..Len(cells) /\ rest[i] = cells[n + i]
        BY <1>3
    <2>2. /\ (n + i) + d \in 1..Len(cells)
          /\ cells[(n + i) + d].line = cells[n + i].line /\ cells[(n + i) + d].of = cells[n + i].of
          /\ cells[(n + i) + d].at = cells[n + i].at + d
        BY <2>1 DEF Untold, Followed
    <2>3. i + d \in 1..Len(rest) /\ (n + i) + d = n + (i + d)
        <3>1. Len(rest) = Len(cells) - n /\ (n + i) + d \in 1..Len(cells)
            BY <1>1, <2>2
        <3>2. d \in Nat
            <4>1. rest[i].of \in Nat /\ rest[i].at \in Nat
                BY <1>5
            <4> QED
                BY <4>1
        <3> QED
            BY <1>2, <3>1, <3>2
    <2>4. rest[i + d] = cells[n + (i + d)]
        BY <1>1, <2>3
    <2> QED
        BY <2>1, <2>2, <2>3, <2>4
<1>7. Rising(rest)
    <2> SUFFICES ASSUME NEW i \in 1..Len(rest), NEW j \in 1..Len(rest),
                        j > i + (rest[i].of - rest[i].at)
                 PROVE  rest[i].line < rest[j].line
        BY DEF Rising
    <2>1. /\ n + i \in 1..Len(cells) /\ rest[i] = cells[n + i]
          /\ n + j \in 1..Len(cells) /\ rest[j] = cells[n + j]
        BY <1>3
    <2>2. n + j > (n + i) + (cells[n + i].of - cells[n + i].at)
        <3>1. /\ cells[n + i].of \in Nat /\ cells[n + i].at \in Nat
            BY <1>5, <2>1
        <3> QED
            BY <2>1, <3>1, SMTT(30)
    <2> QED
        BY <2>1, <2>2 DEF Untold, Rising
<1> QED
    BY <1>4, <1>6, <1>7 DEF Untold, rest

\* Cells of one line follow each other; those of another are of a later line.
LEMMA InLine ==
    ASSUME NEW lines, NEW cells \in Seq(Cells), Untold(lines, cells),
           NEW i \in 1..Len(cells), NEW j \in 1..Len(cells), i <= j
    PROVE  \/ /\ j <= i + (cells[i].of - cells[i].at)
              /\ cells[j].line = cells[i].line /\ cells[j].at = cells[i].at + (j - i)
           \/ /\ j > i + (cells[i].of - cells[i].at)
              /\ cells[i].line < cells[j].line
<1>1. /\ cells[i].of \in Nat /\ cells[i].at \in Nat /\ Len(cells) \in Nat
      /\ cells[i].line \in Nat /\ cells[j].line \in Nat
    BY CellTyped
<1>2. CASE j <= i + (cells[i].of - cells[i].at)
    <2>1. j - i \in 0..(cells[i].of - cells[i].at) /\ i + (j - i) = j
        BY <1>1, <1>2, SMTT(30)
    <2>2. /\ cells[i + (j - i)].line = cells[i].line
          /\ cells[i + (j - i)].at = cells[i].at + (j - i)
        BY <2>1 DEF Untold, Followed
    <2> QED
        BY <1>2, <2>1, <2>2
<1>3. CASE j > i + (cells[i].of - cells[i].at)
    BY <1>3 DEF Untold, Rising
<1> QED
    BY <1>1, <1>2, <1>3

\* A line that is still there whole begins before its other cells: the first cell left is of it
\* only as its first.
LEMMA StartFirst ==
    ASSUME NEW lines, NEW cells \in Seq(Cells), Untold(lines, cells),
           NEW i \in 1..Len(cells), cells[i].line = cells[1].line, cells[i].at = 1
    PROVE  i = 1
<1>1. 1 \in 1..Len(cells) /\ 1 <= i
    OBVIOUS
<1>2. cells[1].at \in 1..cells[1].of /\ cells[1].of \in Nat /\ cells[1].line \in Nat
    BY <1>1, CellTyped DEF Untold, FromBody
<1>3. \/ cells[i].at = cells[1].at + (i - 1)
      \/ cells[1].line < cells[i].line
    BY <1>1, InLine
<1> QED
    BY <1>2, <1>3

\* The lines left are not before the first cell's.
LEMMA NotBefore ==
    ASSUME NEW lines, NEW cells \in Seq(Cells), Untold(lines, cells), NEW i \in 1..Len(cells)
    PROVE  cells[1].line <= cells[i].line
<1>1. 1 \in 1..Len(cells) /\ 1 <= i
    OBVIOUS
<1>2. cells[1].line \in Nat /\ cells[i].line \in Nat
    BY <1>1, CellTyped
<1>3. cells[i].line = cells[1].line \/ cells[1].line < cells[i].line
    BY <1>1, InLine
<1> QED
    BY <1>2, <1>3

\* The first newline is where the first cell's line ends.
LEMMA FirstNewline ==
    ASSUME NEW lines, NEW cells \in Seq(Cells), Untold(lines, cells), NEW nl \in 1..Len(cells),
           LB!Newline(cells[nl]), \A k \in 1..nl - 1 : ~LB!Newline(cells[k])
    PROVE  nl = 1 + (cells[1].of - cells[1].at)
<1> DEFINE m == 1 + (cells[1].of - cells[1].at)
<1>1. 1 \in 1..Len(cells) /\ 1 <= nl /\ Len(cells) \in Nat
    OBVIOUS
<1>2. cells[1].at \in 1..cells[1].of /\ cells[1].of \in Nat /\ cells[1].line \in Nat
    BY <1>1, CellTyped DEF Untold, FromBody
<1>3. m \in 1..Len(cells) /\ cells[m].at = cells[m].of
    <2>1. cells[1].of - cells[1].at \in 0..(cells[1].of - cells[1].at)
        BY <1>2
    <2>2. /\ 1 + (cells[1].of - cells[1].at) \in 1..Len(cells)
          /\ cells[1 + (cells[1].of - cells[1].at)].of = cells[1].of
          /\ cells[1 + (cells[1].of - cells[1].at)].at = cells[1].at + (cells[1].of - cells[1].at)
        BY <1>1, <2>1 DEF Untold, Followed
    <2> QED
        BY <1>2, <2>2
<1>4. nl <= m
    <2>1. CASE m < nl
        <3>1. m \in 1..nl - 1
            BY <1>1, <1>3, <2>1
        <3>2. ~LB!Newline(cells[m])
            BY <3>1
        <3> QED
            BY <1>3, <3>2 DEF LB!Newline
    <2> QED
        BY <1>1, <1>3, <2>1
<1>5. nl - 1 \in 0..(cells[1].of - cells[1].at) /\ 1 + (nl - 1) = nl
    BY <1>1, <1>2, <1>4
<1>6. cells[1 + (nl - 1)].of = cells[1].of /\ cells[1 + (nl - 1)].at = cells[1].at + (nl - 1)
    BY <1>1, <1>5 DEF Untold, Followed
<1>7. cells[nl].at = cells[nl].of
    BY DEF LB!Newline
<1> QED
    BY <1>2, <1>5, <1>6, <1>7

\* With no newline in front, the cells there are all of one line, which is not over.
LEMMA OnePending ==
    ASSUME NEW lines, NEW cells \in Seq(Cells), Untold(lines, cells), NEW n \in 0..Len(cells),
           \A k \in 1..n : ~LB!Newline(cells[k]), NEW i \in 1..n
    PROVE  i + (cells[i].of - cells[i].at) > n /\ i + (cells[i].of - cells[i].at) <= Len(cells)
<1> DEFINE m == i + (cells[i].of - cells[i].at)
<1>1. i \in 1..Len(cells) /\ Len(cells) \in Nat
    OBVIOUS
<1>2. cells[i].at \in 1..cells[i].of /\ cells[i].of \in Nat
    BY <1>1, CellTyped DEF Untold, FromBody
<1>3. m \in 1..Len(cells) /\ cells[m].at = cells[m].of
    <2>1. cells[i].of - cells[i].at \in 0..(cells[i].of - cells[i].at)
        BY <1>2
    <2>2. /\ i + (cells[i].of - cells[i].at) \in 1..Len(cells)
          /\ cells[i + (cells[i].of - cells[i].at)].of = cells[i].of
          /\ cells[i + (cells[i].of - cells[i].at)].at = cells[i].at + (cells[i].of - cells[i].at)
        BY <1>1, <2>1 DEF Untold, Followed
    <2> QED
        BY <1>2, <2>2
<1>4. ~(m <= n)
    <2> SUFFICES ASSUME m <= n
                 PROVE  FALSE
        OBVIOUS
    <2>1. m \in 1..n
        BY <1>3
    <2> QED
        BY <1>3, <2>1 DEF LB!Newline
<1> QED
    BY <1>1, <1>3, <1>4

-----------------------------------------------------------------------------
(* Every step keeps the invariant.                                         *)

\* The cells left to read, by where they are.
LEMMA CameCells ==
    ASSUME LineTyped
    PROVE  /\ Came \in Seq(Cells) /\ Len(Came) = Len(buf) + Len(wire)
           /\ Len(buf) \in Nat /\ Len(wire) \in Nat
           /\ \A i \in 1..Len(buf) : Came[i] = buf[i]
           /\ \A i \in 1..Len(wire) : Came[Len(buf) + i] = wire[i]
BY JoinedCells DEF LineTyped, Came

LEMMA LineInit ==
    ASSUME LineAssumption, LB!Init
    PROVE  LineInv
<1>1. framing \in Framings /\ body = <<>> /\ wire = <<>> /\ buf = <<>> /\ payloads = <<>> /\ end = None
    BY DEF LB!Init
<1>2. Len(body) = 0 /\ Len(wire) = 0 /\ Len(buf) = 0 /\ Len(payloads) = 0
    BY <1>1
<1>3. LineTyped
    BY <1>1, <1>2 DEF LineTyped
<1>4. Len(Came) = 0
    BY <1>2, <1>3, CameCells
<1>5. Untold(body, Came)
    BY <1>4 DEF Untold, FromBody, Followed, Rising
<1>6. Given(payloads) = {} /\ LB!Within = {}
    BY <1>2 DEF Given, LB!Within
<1>7. HandedOn(body, Came, payloads)
    BY <1>2, <1>6 DEF HandedOn
<1>8. NoneLost(body, Came, payloads, LB!Within)
    BY <1>6 DEF NoneLost
<1>9. end # "done"
    BY <1>1 DEF LineAssumption
<1> QED
    BY <1>3, <1>5, <1>7, <1>8, <1>9 DEF LineInv

\* A line is written behind all the others.
LEMMA WriteStep ==
    ASSUME LineAssumption, LineInv, LB!Write
    PROVE  LineInv'
<1> PICK kind \in IF framing = "sse" THEN {"data", "comment", "done"} ELSE {"data"},
         size \in 1..MaxSize :
            /\ kind = "done" => size = 1
            /\ body' = Append(body, [kind |-> kind, size |-> size])
            /\ wire' = wire \o [k \in 1..size |-> [line |-> Len(body) + 1, at |-> k, of |-> size]]
    BY DEF LB!Write
<1> DEFINE new == Len(body) + 1
           cells == [k \in 1..size |-> [line |-> Len(body) + 1, at |-> k, of |-> size]]
<1>1. UNCHANGED <<framing, buf, payloads, end>>
    BY DEF LB!Write
<1>2. LineTyped /\ Untold(body, Came) /\ HandedOn(body, Came, payloads)
    BY DEF LineInv
<1>3. /\ kind \in {"data", "comment", "done"} /\ (framing = "ndjson" => kind = "data")
      /\ size \in Nat \ {0} /\ [kind |-> kind, size |-> size] \in BodyLines
    BY DEF LineAssumption, BodyLines
<1>4. /\ body \in Seq(BodyLines) /\ Len(body) \in Nat /\ new \in Nat
      /\ body' \in Seq(BodyLines) /\ Len(body') = new
      /\ \A k \in 1..Len(body) : body'[k] = body[k]
      /\ body'[new] = [kind |-> kind, size |-> size]
    <2>1. body \in Seq(BodyLines) /\ Len(body) \in Nat
        BY <1>2 DEF LineTyped
    <2> QED
        BY <1>3, <2>1, AppendProperties
<1>5. /\ cells \in Seq(Cells) /\ Len(cells) = size
      /\ \A k \in 1..size : cells[k] = [line |-> new, at |-> k, of |-> size]
    <2>1. \A k \in 1..size : [line |-> Len(body) + 1, at |-> k, of |-> size] \in Cells
        BY <1>3, <1>4 DEF Cells
    <2> QED
        BY <1>3, <2>1
<1>6. wire' = wire \o cells
    OBVIOUS
<1> HIDE DEF new, cells
<1>7. wire \in Seq(Cells) /\ buf \in Seq(Cells)
    BY <1>2 DEF LineTyped
<1>8. wire' \in Seq(Cells) /\ Came' = Came \o cells
    <2>1. cells \in Seq(Cells)
        BY <1>5
    <2>2. wire \o cells \in Seq(Cells)
        BY <1>7, <2>1, JoinedCells
    <2>3. (buf \o wire) \o cells = buf \o (wire \o cells)
        BY <1>7, <2>1, ConcatAssociative, SMTT(30)
    <2>4. Came' = buf' \o wire' /\ buf' = buf
        BY <1>1 DEF Came
    <2> QED
        BY <1>6, <2>2, <2>3, <2>4 DEF Came
<1>9. LineTyped'
    <2>1. ASSUME NEW k \in 1..Len(body')
          PROVE  /\ body'[k].kind = "done" => body'[k].size = 1
                 /\ framing = "ndjson" => body'[k].kind = "data"
        <3>1. CASE k = new
            BY <1>3, <1>4, <3>1
        <3>2. CASE k # new
            <4>1. k \in 1..Len(body)
                BY <1>4, <3>2 DEF new
            <4> QED
                BY <1>2, <1>4, <4>1 DEF LineTyped
        <3> QED
            BY <3>1, <3>2
    <2> QED
        BY <1>1, <1>2, <1>4, <1>8, <2>1 DEF LineTyped
<1>10. /\ Came \in Seq(Cells) /\ Len(Came) \in Nat
       /\ Came' \in Seq(Cells) /\ Len(Came') = Len(Came) + size
       /\ \A i \in 1..Len(Came) : Came'[i] = Came[i]
       /\ \A i \in 1..size : Came'[Len(Came) + i] = [line |-> new, at |-> i, of |-> size]
    <2>1. Came \in Seq(Cells)
        BY <1>2, CameCells
    <2> QED
        BY <1>5, <1>8, <2>1, JoinedCells
<1>11. ASSUME NEW i \in 1..Len(Came')
       PROVE  \/ i \in 1..Len(Came) /\ Came'[i] = Came[i]
              \/ /\ i - Len(Came) \in 1..size
                 /\ Came'[i] = [line |-> new, at |-> i - Len(Came), of |-> size]
    <2>1. CASE i <= Len(Came)
        BY <1>10, <2>1
    <2>2. CASE i > Len(Came)
        <3>1. i - Len(Came) \in 1..size /\ Len(Came) + (i - Len(Came)) = i
            BY <1>3, <1>10, <2>2
        <3>2. Came'[Len(Came) + (i - Len(Came))] = [line |-> new, at |-> i - Len(Came), of |-> size]
            BY <1>10, <3>1
        <3> QED
            BY <3>1, <3>2
    <2>3. i <= Len(Came) \/ i > Len(Came)
        BY <1>3, <1>10
    <2> QED
        BY <2>1, <2>2, <2>3
<1>12. ASSUME NEW i \in 1..Len(Came)
       PROVE  /\ Came[i].line \in 1..Len(body) /\ Came[i].line < new
              /\ Came[i].at \in 1..Came[i].of /\ Came[i].of = body[Came[i].line].size
              /\ Came[i].line \in Nat /\ Came[i].at \in Nat /\ Came[i].of \in Nat
    <2>1. /\ Came[i].line \in 1..Len(body) /\ Came[i].at \in 1..Came[i].of
          /\ Came[i].of = body[Came[i].line].size
        BY <1>2 DEF Untold, FromBody
    <2>2. Came[i].line \in Nat /\ Came[i].at \in Nat /\ Came[i].of \in Nat
        BY <1>10, CellTyped
    <2> QED
        BY <1>4, <2>1, <2>2 DEF new
<1>13. FromBody(body', Came')
    <2> SUFFICES ASSUME NEW i \in 1..Len(Came')
                 PROVE  /\ Came'[i].line \in 1..Len(body') /\ Came'[i].of = body'[Came'[i].line].size
                        /\ Came'[i].at \in 1..Came'[i].of
        BY DEF FromBody
    <2>1. CASE i \in 1..Len(Came) /\ Came'[i] = Came[i]
        <3>1. Came[i].line \in 1..Len(body')
            BY <1>4, <1>12, <2>1 DEF new
        <3>2. body'[Came[i].line] = body[Came[i].line]
            BY <1>4, <1>12, <2>1
        <3> QED
            BY <1>12, <2>1, <3>1, <3>2
    <2>2. CASE /\ i - Len(Came) \in 1..size
               /\ Came'[i] = [line |-> new, at |-> i - Len(Came), of |-> size]
        <3>1. new \in 1..Len(body')
            BY <1>4 DEF new
        <3> QED
            BY <1>4, <2>2, <3>1
    <2> QED
        BY <1>11, <2>1, <2>2
<1>14. Followed(Came')
    <2> SUFFICES ASSUME NEW i \in 1..Len(Came'), NEW d \in 0..(Came'[i].of - Came'[i].at)
                 PROVE  /\ i + d \in 1..Len(Came')
                        /\ Came'[i + d].line = Came'[i].line /\ Came'[i + d].of = Came'[i].of
                        /\ Came'[i + d].at = Came'[i].at + d
        BY DEF Followed
    <2>1. CASE i \in 1..Len(Came) /\ Came'[i] = Came[i]
        <3>1. /\ i + d \in 1..Len(Came)
              /\ Came[i + d].line = Came[i].line /\ Came[i + d].of = Came[i].of
              /\ Came[i + d].at = Came[i].at + d
            BY <1>2, <2>1 DEF Untold, Followed
        <3>2. i + d \in 1..Len(Came') /\ Came'[i + d] = Came[i + d]
            BY <1>3, <1>10, <3>1
        <3> QED
            BY <2>1, <3>1, <3>2
    <2>2. CASE /\ i - Len(Came) \in 1..size
               /\ Came'[i] = [line |-> new, at |-> i - Len(Came), of |-> size]
        <3> DEFINE e == i - Len(Came)
        <3>1. e \in 1..size /\ e + d \in 1..size /\ i + d = Len(Came) + (e + d)
            <4>1. Came'[i].of = size /\ Came'[i].at = e
                BY <2>2
            <4>2. d \in 0..(size - e)
                BY <4>1
            <4> QED
                BY <1>3, <1>10, <2>2, <4>2
        <3>2. Came'[i + d] = [line |-> new, at |-> e + d, of |-> size]
            BY <1>10, <3>1
        <3>3. i + d \in 1..Len(Came')
            BY <1>3, <1>10, <3>1
        <3> QED
            BY <2>2, <3>2, <3>3
    <2> QED
        BY <1>11, <2>1, <2>2
<1>15. Rising(Came')
    <2> SUFFICES ASSUME NEW i \in 1..Len(Came'), NEW j \in 1..Len(Came'),
                        j > i + (Came'[i].of - Came'[i].at)
                 PROVE  Came'[i].line < Came'[j].line
        BY DEF Rising
    <2>1. CASE i \in 1..Len(Came) /\ Came'[i] = Came[i]
        <3>1. CASE j \in 1..Len(Came) /\ Came'[j] = Came[j]
            BY <1>2, <2>1, <3>1 DEF Untold, Rising
        <3>2. CASE Came'[j] = [line |-> new, at |-> j - Len(Came), of |-> size]
            BY <1>12, <2>1, <3>2
        <3> QED
            BY <1>11, <3>1, <3>2
    <2>2. CASE /\ i - Len(Came) \in 1..size
               /\ Came'[i] = [line |-> new, at |-> i - Len(Came), of |-> size]
        <3>1. Came'[i].of = size /\ Came'[i].at = i - Len(Came)
            BY <2>2
        <3>2. j > i + (size - (i - Len(Came)))
            BY <3>1
        <3>3. j <= Len(Came) + size
            BY <1>10
        <3> QED
            BY <1>3, <1>10, <3>2, <3>3
    <2> QED
        BY <1>11, <2>1, <2>2
<1>16. Given(payloads') = Given(payloads)
    BY <1>1 DEF Given
<1>17. ASSUME NEW x \in Given(payloads)
       PROVE  x \in 1..Len(body) /\ x < new
    <2>1. x \in 1..Len(body)
        BY <1>2 DEF Given, HandedOn
    <2> QED
        BY <1>4, <2>1 DEF new
<1>18. HandedOn(body', Came', payloads')
    <2>1. \A i, j \in 1..Len(payloads') : i < j => payloads'[i].line < payloads'[j].line
        BY <1>1, <1>2 DEF HandedOn
    <2>2. ASSUME NEW i \in 1..Len(payloads')
          PROVE  /\ payloads'[i].line \in 1..Len(body') /\ body'[payloads'[i].line].kind = "data"
                 /\ payloads'[i].size = body'[payloads'[i].line].size
        <3>1. /\ payloads[i].line \in 1..Len(body) /\ body[payloads[i].line].kind = "data"
              /\ payloads[i].size = body[payloads[i].line].size
            BY <1>1, <1>2 DEF HandedOn
        <3>2. payloads[i].line \in 1..Len(body')
            BY <1>4, <3>1 DEF new
        <3> QED
            BY <1>1, <1>4, <3>1, <3>2
    <2>3. ASSUME NEW x \in Given(payloads'), NEW i \in 1..Len(Came')
          PROVE  x < Came'[i].line
        <3>1. CASE i \in 1..Len(Came) /\ Came'[i] = Came[i]
            BY <1>2, <1>16, <3>1 DEF HandedOn
        <3>2. CASE Came'[i] = [line |-> new, at |-> i - Len(Came), of |-> size]
            BY <1>16, <1>17, <3>2
        <3> QED
            BY <1>11, <3>1, <3>2
    <2>4. ASSUME NEW x \in Given(payloads'), NEW d \in 1..Len(body'), body'[d].kind = "done"
          PROVE  x < d
        <3>1. CASE d = new
            BY <1>16, <1>17, <3>1
        <3>2. CASE d # new
            <4>1. d \in 1..Len(body)
                BY <1>4, <3>2 DEF new
            <4> QED
                BY <1>2, <1>4, <1>16, <2>4, <4>1 DEF HandedOn
        <3> QED
            BY <3>1, <3>2
    <2> QED
        BY <2>1, <2>2, <2>3, <2>4 DEF HandedOn
<1>19. ASSUME NEW k \in LB!Within'
       PROVE  k \in 1..Len(body') /\ (k # new => k \in LB!Within /\ k \in 1..Len(body))
    <2>1. k \in 1..Len(body') /\ (framing = "ndjson" \/ body'[k].size <= MAX_SSE_LINE_BYTES + 1)
        BY <1>1 DEF LB!Within
    <2>2. CASE k # new
        <3>1. k \in 1..Len(body)
            BY <1>4, <2>1, <2>2 DEF new
        <3> QED
            BY <1>4, <2>1, <3>1 DEF LB!Within
    <2> QED
        BY <2>1, <2>2
<1>20. ASSUME end' # "done"
       PROVE  NoneLost(body', Came', payloads', LB!Within')
    <2>1. NoneLost(body, Came, payloads, LB!Within)
        BY <1>1, <1>20 DEF LineInv
    <2> SUFFICES ASSUME NEW k \in LB!Within', body'[k].kind # "comment"
                 PROVE  k \in Given(payloads') \/ Starts(Came', k)
        BY DEF NoneLost
    <2>2. CASE k = new
        <3>1. 1 \in 1..size /\ Len(Came) + 1 \in 1..Len(Came')
            BY <1>3, <1>10
        <3>2. Came'[Len(Came) + 1] = [line |-> new, at |-> 1, of |-> size]
            BY <1>10, <3>1
        <3> QED
            BY <2>2, <3>1, <3>2 DEF Starts
    <2>3. CASE k # new
        <3>1. k \in LB!Within /\ body'[k] = body[k]
            BY <1>4, <1>19, <2>3
        <3>2. k \in Given(payloads) \/ Starts(Came, k)
            BY <2>1, <3>1 DEF NoneLost
        <3>3. Starts(Came, k) => Starts(Came', k)
            <4>1. \A i \in 1..Len(Came) : i \in 1..Len(Came')
                BY <1>3, <1>10
            <4> QED
                BY <1>10, <4>1 DEF Starts
        <3> QED
            BY <1>16, <3>2, <3>3
    <2> QED
        BY <2>2, <2>3
<1>21. ASSUME end' = "done"
       PROVE  AllTold(body', payloads', LB!Within')
    <2>1. AllTold(body, payloads, LB!Within)
        BY <1>1, <1>21 DEF LineInv
    <2>2. PICK d \in 1..Len(body) :
              /\ body[d].kind = "done"
              /\ \A k \in LB!Within : k < d /\ body[k].kind = "data" => k \in Given(payloads)
        BY <2>1 DEF AllTold
    <2>3. d \in 1..Len(body') /\ body'[d].kind = "done" /\ d < new
        BY <1>4, <2>2 DEF new
    <2>4. ASSUME NEW k \in LB!Within', k < d, body'[k].kind = "data"
          PROVE  k \in Given(payloads')
        <3>1. k # new
            BY <1>4, <2>3, <2>4
        <3> QED
            BY <1>4, <1>16, <1>19, <2>2, <2>4, <3>1
    <2> QED
        BY <2>3, <2>4 DEF AllTold
<1>22. Untold(body', Came')
    BY <1>13, <1>14, <1>15 DEF Untold
<1> QED
    BY <1>9, <1>18, <1>20, <1>21, <1>22 DEF LineInv

\* A piece arrives: what is left to read is the same.
LEMMA DeliverStep ==
    ASSUME LineInv, LB!Deliver
    PROVE  LineInv'
<1> PICK n \in 1..Len(wire) :
        wire' = SubSeq(wire, n + 1, Len(wire)) /\ buf' = buf \o SubSeq(wire, 1, n)
    BY DEF LB!Deliver
<1>1. UNCHANGED <<framing, body, payloads, end>>
    BY DEF LB!Deliver
<1>2. LineTyped
    BY DEF LineInv
<1>3. wire \in Seq(Cells) /\ buf \in Seq(Cells)
    BY <1>2 DEF LineTyped
<1>4. buf' \in Seq(Cells) /\ wire' \in Seq(Cells) /\ Came' = Came
    <2>1. /\ buf \o SubSeq(wire, 1, n) \in Seq(Cells)
          /\ SubSeq(wire, n + 1, Len(wire)) \in Seq(Cells)
          /\ (buf \o SubSeq(wire, 1, n)) \o SubSeq(wire, n + 1, Len(wire)) = buf \o wire
        BY <1>3, DeliveredCells
    <2> QED
        BY <2>1 DEF Came
<1>5. LineTyped'
    BY <1>1, <1>2, <1>4 DEF LineTyped
<1>6. LB!Within' = LB!Within
    BY <1>1 DEF LB!Within
<1>7. Untold(body', Came') /\ HandedOn(body', Came', payloads')
    BY <1>1, <1>4 DEF LineInv
<1>8. /\ end' # "done" => NoneLost(body', Came', payloads', LB!Within')
      /\ end' = "done" => AllTold(body', payloads', LB!Within')
    BY <1>1, <1>4, <1>6 DEF LineInv
<1> QED
    BY <1>5, <1>7, <1>8 DEF LineInv

\* What was handed on is still before what is left when cells are taken from the front.
LEMMA HandedBeforeRest ==
    ASSUME NEW lines, NEW out, NEW cells \in Seq(Cells), NEW n \in 0..Len(cells),
           HandedOn(lines, cells, out)
    PROVE  HandedOn(lines, SubSeq(cells, n + 1, Len(cells)), out)
<1> DEFINE rest == SubSeq(cells, n + 1, Len(cells))
<1>1. rest \in Seq(Cells) /\ Len(rest) = Len(cells) - n /\ \A i \in 1..Len(rest) : rest[i] = cells[n + i]
    BY RestOfCells
<1> HIDE DEF rest
<1>2. ASSUME NEW i \in 1..Len(rest)
      PROVE  n + i \in 1..Len(cells) /\ rest[i] = cells[n + i]
    BY <1>1
<1> QED
    BY <1>2 DEF HandedOn, rest

\* A line of which no cell is among those taken is still there.
LEMMA StartsInRest ==
    ASSUME NEW cells \in Seq(Cells), NEW n \in 0..Len(cells), NEW i \in 1..Len(cells), i > n,
           cells[i].at = 1
    PROVE  Starts(SubSeq(cells, n + 1, Len(cells)), cells[i].line)
<1> DEFINE rest == SubSeq(cells, n + 1, Len(cells))
<1>1. rest \in Seq(Cells) /\ Len(rest) = Len(cells) - n /\ \A k \in 1..Len(rest) : rest[k] = cells[n + k]
    BY RestOfCells
<1> HIDE DEF rest
<1>2. i - n \in 1..Len(rest) /\ n + (i - n) = i
    BY <1>1
<1>3. rest[i - n] = cells[n + (i - n)]
    BY <1>1, <1>2
<1> QED
    BY <1>2, <1>3 DEF Starts, rest

\* What a step that takes n cells from the front of the buffer leaves.
LEMMA TakenRest ==
    ASSUME LineInv, NEW n \in 0..Len(buf), buf' = SubSeq(buf, n + 1, Len(buf)), wire' = wire,
           UNCHANGED <<framing, body>>
    PROVE  /\ n \in 0..Len(Came) /\ Came' = SubSeq(Came, n + 1, Len(Came))
           /\ buf' \in Seq(Cells) /\ LB!Within' = LB!Within
           /\ Untold(body', Came') /\ HandedOn(body', Came', payloads)
<1>1. LineTyped /\ Untold(body, Came) /\ HandedOn(body, Came, payloads)
    BY DEF LineInv
<1>2. wire \in Seq(Cells) /\ buf \in Seq(Cells) /\ Came \in Seq(Cells)
    BY <1>1, CameCells DEF LineTyped
<1>3. n \in 0..Len(Came) /\ Came' = SubSeq(Came, n + 1, Len(Came))
    <2>1. /\ n \in 0..Len(buf \o wire)
          /\ SubSeq(buf, n + 1, Len(buf)) \o wire
             = SubSeq(buf \o wire, n + 1, Len(buf \o wire))
        BY <1>2, TakenFromFront
    <2> QED
        BY <2>1 DEF Came
<1>4. buf' \in Seq(Cells)
    BY <1>2, RestOfCells
<1>5. Untold(body, SubSeq(Came, n + 1, Len(Came)))
    BY <1>1, <1>2, <1>3, RestUntold
<1>6. HandedOn(body, SubSeq(Came, n + 1, Len(Came)), payloads)
    BY <1>1, <1>2, <1>3, HandedBeforeRest
<1>7. LB!Within' = LB!Within
    BY DEF LB!Within
<1> QED
    BY <1>3, <1>4, <1>5, <1>6, <1>7

\* The first line of what is left: all of its cells that are there come first.
LEMMA FirstLineLeft ==
    ASSUME LineAssumption, LineInv, end # "done", NEW nl \in 1..Len(buf),
           LB!Newline(buf[nl]), \A k \in 1..nl - 1 : ~LB!Newline(buf[k])
    PROVE  LET l == buf[1].line
           IN /\ l \in 1..Len(body) /\ buf[1] = Came[1] /\ nl \in 1..Len(Came)
              /\ \A x \in Given(payloads) : x < l
              /\ \A i \in 1..Len(Came) : i <= nl => Came[i].line = l
              /\ \A i \in 1..Len(Came) : i > nl => l < Came[i].line
              /\ Starts(Came, l) => buf[1].at = 1
              /\ buf[1].at = 1 => nl = body[l].size
              /\ \A k \in 1..Len(body) : Starts(Came, k) => l <= k
<1>1. LineTyped /\ Untold(body, Came) /\ HandedOn(body, Came, payloads)
    BY DEF LineInv
<1>2. /\ Came \in Seq(Cells) /\ Len(Came) = Len(buf) + Len(wire)
      /\ Len(buf) \in Nat /\ Len(wire) \in Nat
      /\ \A i \in 1..Len(buf) : Came[i] = buf[i]
    BY <1>1, CameCells
<1>3. /\ 1 \in 1..Len(buf) /\ 1 \in 1..Len(Came) /\ 1 <= nl /\ nl \in 1..Len(Came)
      /\ buf[1] = Came[1] /\ LB!Newline(Came[nl]) /\ \A k \in 1..nl - 1 : ~LB!Newline(Came[k])
    <2>1. 1 \in 1..Len(buf) /\ 1 \in 1..Len(Came) /\ 1 <= nl /\ nl \in 1..Len(Came)
        BY <1>2
    <2>2. \A k \in 1..nl - 1 : k \in 1..Len(buf)
        BY <1>2
    <2> QED
        BY <1>2, <2>1, <2>2
<1>4. nl = 1 + (Came[1].of - Came[1].at)
    BY <1>1, <1>2, <1>3, FirstNewline
<1>5. /\ Came[1].line \in 1..Len(body) /\ Came[1].at \in 1..Came[1].of
      /\ Came[1].of = body[Came[1].line].size
      /\ Came[1].line \in Nat /\ Came[1].at \in Nat /\ Came[1].of \in Nat
    BY <1>1, <1>2, <1>3, CellTyped DEF Untold, FromBody
<1>6. ASSUME NEW i \in 1..Len(Came)
      PROVE  /\ i <= nl => Came[i].line = Came[1].line
             /\ i > nl => Came[1].line < Came[i].line
             /\ Came[1].line <= Came[i].line
    <2>1. 1 <= i
        OBVIOUS
    <2>2. \/ i <= 1 + (Came[1].of - Came[1].at) /\ Came[i].line = Came[1].line
          \/ i > 1 + (Came[1].of - Came[1].at) /\ Came[1].line < Came[i].line
        BY <1>1, <1>2, <1>3, <2>1, InLine
    <2>3. Came[i].line \in Nat
        BY <1>2, CellTyped
    <2> QED
        BY <1>4, <1>5, <2>2, <2>3
<1>7. Starts(Came, Came[1].line) => Came[1].at = 1
    <2> SUFFICES ASSUME NEW i \in 1..Len(Came), Came[i].line = Came[1].line, Came[i].at = 1
                 PROVE  Came[1].at = 1
        BY DEF Starts
    <2>1. i = 1
        BY <1>1, <1>2, StartFirst
    <2> QED
        BY <2>1
<1>8. Came[1].at = 1 => nl = body[Came[1].line].size
    BY <1>4, <1>5
<1>9. \A x \in Given(payloads) : x < Came[1].line
    BY <1>1, <1>3 DEF HandedOn
<1>10. \A k \in 1..Len(body) : Starts(Came, k) => Came[1].line <= k
    BY <1>6 DEF Starts
<1> QED
    BY <1>3, <1>5, <1>6, <1>7, <1>8, <1>9, <1>10

\* A data line that comes after those handed on, before what is left and before [DONE].
MayFollow(lines, cells, out, l) ==
    /\ l \in 1..Len(lines) /\ lines[l].kind = "data"
    /\ \A x \in Given(out) : x < l
    /\ \A i \in 1..Len(cells) : l < cells[i].line
    /\ \A d \in 1..Len(lines) : lines[d].kind = "done" => l < d

\* It may be one more payload.
LEMMA OneMore ==
    ASSUME NEW cells, NEW out \in Seq(Payloads), NEW l, MayFollow(body, cells, out, l),
           body \in Seq(BodyLines), HandedOn(body, cells, out)
    PROVE  LET more == Append(out, [line |-> l, size |-> body[l].size])
           IN /\ more \in Seq(Payloads) /\ HandedOn(body, cells, more)
              /\ Given(more) = Given(out) \cup {l}
<1> USE DEF MayFollow
<1> DEFINE payload == [line |-> l, size |-> body[l].size]
           more == Append(out, payload)
<1>1. payload \in Payloads /\ payload.line = l /\ payload.size = body[l].size
    <2>1. body[l] \in BodyLines
        OBVIOUS
    <2> QED
        BY <2>1 DEF BodyLines, Payloads
<1> HIDE DEF payload
<1>2. /\ more \in Seq(Payloads) /\ Len(more) = Len(out) + 1 /\ Len(out) \in Nat
      /\ \A i \in 1..Len(out) : more[i] = out[i]
      /\ more[Len(out) + 1] = payload
    BY <1>1, AppendProperties
<1> HIDE DEF more
<1>3. ASSUME NEW i \in 1..Len(more)
      PROVE  \/ i \in 1..Len(out) /\ more[i] = out[i] /\ out[i].line \in Given(out)
             \/ i = Len(out) + 1 /\ more[i] = payload
    <2>1. i \in 1..Len(out) \/ i = Len(out) + 1
        BY <1>2
    <2> QED
        BY <1>2, <2>1 DEF Given
<1>4. Given(more) = Given(out) \cup {l}
    <2>1. \A x \in Given(more) : x \in Given(out) \cup {l}
        BY <1>1, <1>3 DEF Given
    <2>2. \A x \in Given(out) : x \in Given(more)
        <3>1. \A i \in 1..Len(out) : i \in 1..Len(more)
            BY <1>2
        <3> QED
            BY <1>2, <3>1 DEF Given
    <2>3. l \in Given(more)
        <3>1. Len(out) + 1 \in 1..Len(more)
            BY <1>2
        <3> QED
            BY <1>1, <1>2, <3>1 DEF Given
    <2> QED
        BY <2>1, <2>2, <2>3
<1>5. ASSUME NEW i \in 1..Len(more), NEW j \in 1..Len(more), i < j
      PROVE  more[i].line < more[j].line
    <2>1. i \in 1..Len(out) /\ more[i] = out[i] /\ out[i].line \in Given(out)
        <3>1. i # Len(out) + 1
            BY <1>2, <1>5
        <3> QED
            BY <1>3, <3>1
    <2>2. CASE j \in 1..Len(out) /\ more[j] = out[j]
        BY <1>5, <2>1, <2>2 DEF HandedOn
    <2>3. CASE more[j] = payload
        BY <1>1, <2>1, <2>3
    <2> QED
        BY <1>3, <2>2, <2>3
<1>6. ASSUME NEW i \in 1..Len(more)
      PROVE  /\ more[i].line \in 1..Len(body) /\ body[more[i].line].kind = "data"
             /\ more[i].size = body[more[i].line].size
    <2>1. CASE i \in 1..Len(out) /\ more[i] = out[i]
        BY <2>1 DEF HandedOn
    <2>2. CASE more[i] = payload
        BY <1>1, <2>2
    <2> QED
        BY <1>3, <2>1, <2>2
<1>7. HandedOn(body, cells, more)
    <2>1. \A x \in Given(more) : \A i \in 1..Len(cells) : x < cells[i].line
        BY <1>4 DEF HandedOn
    <2>2. \A x \in Given(more) : \A d \in 1..Len(body) : body[d].kind = "done" => x < d
        BY <1>4 DEF HandedOn
    <2> QED
        BY <1>5, <1>6, <2>1, <2>2 DEF HandedOn
<1> QED
    BY <1>2, <1>4, <1>7 DEF more, payload

\* The first line is taken: if it is whole and a payload it is handed on, or it is [DONE], and no
\* other line loses a cell.
LEMMA TakeLineStep ==
    ASSUME LineAssumption, LineInv, LB!TakeLine
    PROVE  LineInv'
<1> PICK nl \in 1..Len(buf) :
       /\ LB!Newline(buf[nl]) /\ \A k \in 1..nl - 1 : ~LB!Newline(buf[k])
       /\ buf' = SubSeq(buf, nl + 1, Len(buf))
       /\ IF LB!IsPayload(buf[1]) THEN LB!HandOn([line |-> buf[1].line, size |-> nl])
          ELSE UNCHANGED <<payloads, end>>
    BY DEF LB!TakeLine
<1> DEFINE l == buf[1].line
<1>1. end = None /\ end # "done" /\ UNCHANGED <<framing, body, wire>>
    BY DEF LB!TakeLine, LineAssumption
<1>2. /\ LineTyped /\ Untold(body, Came) /\ HandedOn(body, Came, payloads)
      /\ NoneLost(body, Came, payloads, LB!Within)
    BY <1>1 DEF LineInv
<1>3. /\ l \in 1..Len(body) /\ buf[1] = Came[1] /\ nl \in 1..Len(Came)
      /\ \A x \in Given(payloads) : x < l
      /\ \A i \in 1..Len(Came) : i <= nl => Came[i].line = l
      /\ \A i \in 1..Len(Came) : i > nl => l < Came[i].line
      /\ Starts(Came, l) => buf[1].at = 1
      /\ buf[1].at = 1 => nl = body[l].size
      /\ \A k \in 1..Len(body) : Starts(Came, k) => l <= k
    BY <1>1, FirstLineLeft
<1> HIDE DEF l
<1>4. /\ body \in Seq(BodyLines) /\ payloads \in Seq(Payloads) /\ Came \in Seq(Cells)
      /\ framing \in Framings /\ wire \in Seq(Cells)
      /\ \A k \in 1..Len(body) :
            /\ body[k].kind = "done" => body[k].size = 1
            /\ framing = "ndjson" => body[k].kind = "data"
    BY <1>2, CameCells DEF LineTyped
<1>5. body[l].kind \in {"data", "comment", "done"} /\ framing \in {"sse", "ndjson"}
    <2>1. body[l] \in BodyLines
        BY <1>3, <1>4
    <2> QED
        BY <1>4, <2>1 DEF BodyLines, LineAssumption
<1>6. /\ Came' = SubSeq(Came, nl + 1, Len(Came))
      /\ buf' \in Seq(Cells) /\ LB!Within' = LB!Within
      /\ Untold(body', Came') /\ HandedOn(body', Came', payloads)
    <2>1. nl \in 0..Len(buf)
        OBVIOUS
    <2> QED
        BY <1>1, <2>1, TakenRest
<1>7. \A i \in 1..Len(Came') : l < Came'[i].line
    <2>1. Len(Came) \in Nat /\ nl \in 0..Len(Came)
        BY <1>3, <1>4
    <2>2. Len(Came') = Len(Came) - nl /\ \A i \in 1..Len(Came') : Came'[i] = Came[nl + i]
        BY <1>4, <1>6, <2>1, RestOfCells
    <2>3. \A i \in 1..Len(Came') : nl + i \in 1..Len(Came) /\ nl + i > nl
        BY <2>1, <2>2
    <2> QED
        BY <1>3, <2>2, <2>3
<1>8. ASSUME NEW k, k # l, Starts(Came, k)
      PROVE  Starts(Came', k)
    <2>1. PICK i \in 1..Len(Came) : Came[i].line = k /\ Came[i].at = 1
        BY <1>8 DEF Starts
    <2>2. i > nl
        <3>1. ~(i <= nl)
            BY <1>3, <1>8, <2>1
        <3> QED
            BY <1>3, <3>1
    <2>3. nl \in 0..Len(Came)
        BY <1>3
    <2> QED
        BY <1>4, <1>6, <2>1, <2>2, <2>3, StartsInRest
\* A line that begins as a payload is whole, or one that was handed on before.
<1>9. ASSUME LB!IsPayload(buf[1])
      PROVE  buf[1].at = 1 /\ body[l].kind # "comment"
    <2>1. CASE framing = "ndjson"
        <3>1. l \in LB!Within /\ body[l].kind = "data"
            BY <1>3, <1>4, <2>1 DEF LB!Within
        <3>2. l \notin Given(payloads)
            BY <1>3
        <3> QED
            BY <1>2, <1>3, <3>1, <3>2 DEF NoneLost
    <2>2. CASE framing # "ndjson"
        BY <1>9, <2>2 DEF LB!IsPayload, LB!DataField, l
    <2> QED
        BY <2>1, <2>2
<1>10. ASSUME ~LB!IsPayload(buf[1]), body[l].kind # "comment"
       PROVE  ~Starts(Came, l)
    BY <1>3, <1>10 DEF LB!IsPayload, LB!DataField, l
<1>11. CASE ~LB!IsPayload(buf[1])
    <2>1. UNCHANGED <<payloads, end>>
        BY <1>11
    <2>2. NoneLost(body, Came', payloads, LB!Within)
        <3> SUFFICES ASSUME NEW k \in LB!Within, body[k].kind # "comment"
                     PROVE  k \in Given(payloads) \/ Starts(Came', k)
            BY DEF NoneLost
        <3>1. k \in Given(payloads) \/ Starts(Came, k)
            BY <1>2 DEF NoneLost
        <3> QED
            BY <1>8, <1>10, <1>11, <3>1
    <2>3. LineTyped'
        BY <1>1, <1>2, <1>6, <2>1 DEF LineTyped
    <2> QED
        BY <1>1, <1>6, <2>1, <2>2, <2>3 DEF LineInv
<1>12. CASE LB!IsPayload(buf[1]) /\ body[l].kind = "done"
    <2>1. end' = "done" /\ payloads' = payloads
        BY <1>12 DEF LB!HandOn, l
    <2>2. AllTold(body, payloads, LB!Within)
        <3>1. ASSUME NEW k \in LB!Within, k < l, body[k].kind = "data"
              PROVE  k \in Given(payloads)
            <4>1. k \in Given(payloads) \/ Starts(Came, k)
                BY <1>2, <3>1 DEF NoneLost
            <4>2. k \in 1..Len(body)
                BY DEF LB!Within
            <4>3. ~(l <= k)
                BY <1>3, <3>1, <4>2
            <4> QED
                BY <1>3, <4>1, <4>2, <4>3
        <3> QED
            BY <1>3, <1>12, <3>1 DEF AllTold
    <2>3. LineTyped'
        BY <1>1, <1>2, <1>6, <2>1 DEF LineTyped
    <2> QED
        BY <1>1, <1>6, <2>1, <2>2, <2>3 DEF LineInv
<1>13. CASE LB!IsPayload(buf[1]) /\ body[l].kind # "done"
    <2>1. end' = end /\ payloads' = Append(payloads, [line |-> l, size |-> body[l].size])
        <3>1. nl = body[l].size
            BY <1>3, <1>9, <1>13
        <3>2. end' = end /\ payloads' = Append(payloads, [line |-> l, size |-> nl])
            BY <1>13 DEF LB!HandOn, l
        <3> QED
            BY <3>1, <3>2
    <2>2. body[l].kind = "data"
        BY <1>5, <1>9, <1>13
    <2>3. ASSUME NEW d \in 1..Len(body), body[d].kind = "done"
          PROVE  l < d
        <3>1. d \in LB!Within
            <4>1. body[d].size <= MAX_SSE_LINE_BYTES + 1
                BY <1>4, <2>3 DEF LineAssumption
            <4> QED
                BY <4>1 DEF LB!Within
        <3>2. d \notin Given(payloads)
            <4>1. ~(d < d)
                OBVIOUS
            <4> QED
                BY <1>2, <2>3, <4>1 DEF HandedOn
        <3>3. l <= d /\ l # d
            BY <1>2, <1>3, <2>2, <2>3, <3>1, <3>2 DEF NoneLost
        <3> QED
            BY <1>3, <3>3
    <2>4. HandedOn(body, Came', payloads)
        BY <1>1, <1>6
    <2>5. /\ payloads' \in Seq(Payloads) /\ HandedOn(body, Came', payloads')
          /\ Given(payloads') = Given(payloads) \cup {l}
        <3> DEFINE rest == SubSeq(Came, nl + 1, Len(Came))
        <3>1. HandedOn(body, rest, payloads) /\ Came' = rest
            BY <1>6, <2>4
        <3>2. MayFollow(body, rest, payloads, l)
            BY <1>3, <1>6, <1>7, <2>2, <2>3 DEF MayFollow
        <3>3. payloads \in Seq(Payloads) /\ body \in Seq(BodyLines)
            BY <1>4
        <3> HIDE DEF rest
        <3>4. LET more == Append(payloads, [line |-> l, size |-> body[l].size])
              IN /\ more \in Seq(Payloads) /\ HandedOn(body, rest, more)
                 /\ Given(more) = Given(payloads) \cup {l}
            BY <3>1, <3>2, <3>3, OneMore
        <3> QED
            BY <2>1, <3>1, <3>4
    <2>6. NoneLost(body, Came', payloads', LB!Within)
        <3> SUFFICES ASSUME NEW k \in LB!Within, body[k].kind # "comment"
                     PROVE  k \in Given(payloads') \/ Starts(Came', k)
            BY DEF NoneLost
        <3>1. k \in Given(payloads) \/ Starts(Came, k)
            BY <1>2 DEF NoneLost
        <3> QED
            BY <1>8, <2>5, <3>1
    <2>7. LineTyped'
        BY <1>1, <1>2, <1>6, <2>1, <2>5 DEF LineTyped
    <2> QED
        BY <1>1, <1>6, <2>1, <2>5, <2>6, <2>7 DEF LineInv
<1> QED
    BY <1>11, <1>12, <1>13

\* Of an over-long line nothing is kept that a line within the limit has.
LEMMA ClearStep ==
    ASSUME LineAssumption, LineInv, LB!Clear
    PROVE  LineInv'
<1>1. /\ end = None /\ end # "done" /\ LB!Drained /\ framing = "sse"
      /\ Len(buf) > MAX_SSE_LINE_BYTES /\ buf' = <<>>
      /\ UNCHANGED <<framing, body, wire, payloads, end>>
    BY DEF LB!Clear, LB!OverLong, LineAssumption
<1>2. /\ LineTyped /\ Untold(body, Came)
      /\ NoneLost(body, Came, payloads, LB!Within)
    BY <1>1 DEF LineInv
<1>3. /\ Came \in Seq(Cells) /\ Len(Came) = Len(buf) + Len(wire)
      /\ Len(buf) \in Nat /\ Len(wire) \in Nat
      /\ \A i \in 1..Len(buf) : Came[i] = buf[i]
    BY <1>2, CameCells
<1>4. buf \in Seq(Cells) /\ buf' = SubSeq(buf, Len(buf) + 1, Len(buf))
    <2>1. buf \in Seq(Cells)
        BY <1>2 DEF LineTyped
    <2>2. Len(buf) \in 0..Len(buf)
        BY <1>3
    <2>3. /\ SubSeq(buf, Len(buf) + 1, Len(buf)) \in Seq(Cells)
          /\ Len(SubSeq(buf, Len(buf) + 1, Len(buf))) = Len(buf) - Len(buf)
        BY <2>1, <2>2, RestOfCells
    <2>4. Len(SubSeq(buf, Len(buf) + 1, Len(buf))) = 0
        BY <1>3, <2>3
    <2> QED
        BY <1>1, <2>1, <2>3, <2>4, EmptySeq
<1>5. /\ Len(buf) \in 0..Len(Came) /\ Came' = SubSeq(Came, Len(buf) + 1, Len(Came))
      /\ buf' \in Seq(Cells) /\ LB!Within' = LB!Within
      /\ Untold(body', Came') /\ HandedOn(body', Came', payloads)
    <2>1. Len(buf) \in 0..Len(buf)
        BY <1>3
    <2> QED
        BY <1>1, <1>4, <2>1, TakenRest
<1>6. NoneLost(body, Came', payloads, LB!Within)
    <2> SUFFICES ASSUME NEW k \in LB!Within, body[k].kind # "comment", NEW i \in 1..Len(Came),
                        Came[i].line = k, Came[i].at = 1
                 PROVE  Starts(Came', k)
        BY <1>2 DEF NoneLost, Starts
    <2>1. i > Len(buf)
        <3> SUFFICES ASSUME i <= Len(buf)
                     PROVE  FALSE
            BY <1>3
        <3>1. i \in 1..Len(buf) /\ 1 \in 1..Len(buf) /\ 1 \in 1..Len(Came) /\ Len(buf) \in 0..Len(Came)
            BY <1>3
        <3>2. \A j \in 1..Len(buf) : ~LB!Newline(Came[j])
            BY <1>1, <1>3 DEF LB!Drained
        <3>3. 1 + (Came[1].of - Came[1].at) > Len(buf)
            BY <1>2, <1>3, <3>1, <3>2, OnePending
        <3>4. Came[i].line = Came[1].line
            <4>1. \/ i <= 1 + (Came[1].of - Came[1].at) /\ Came[i].line = Came[1].line
                  \/ i > 1 + (Came[1].of - Came[1].at)
                <5>1. 1 <= i
                    OBVIOUS
                <5> QED
                    BY <1>2, <1>3, <3>1, <5>1, InLine
            <4>2. Came[1].of \in Nat /\ Came[1].at \in Nat
                BY <1>3, <3>1, CellTyped
            <4> QED
                BY <1>3, <3>1, <3>3, <4>1, <4>2
        <3>5. i = 1
            BY <1>2, <1>3, <3>4, StartFirst
        <3>6. Came[1].of = body[k].size /\ Came[1].at = 1
            BY <1>2, <3>1, <3>5 DEF Untold, FromBody
        <3>7. body[k].size <= MAX_SSE_LINE_BYTES + 1 /\ MAX_SSE_LINE_BYTES \in Nat
            BY <1>1 DEF LB!Within, LineAssumption
        <3>8. Came[1].of \in Nat
            BY <1>3, <3>1, CellTyped
        <3> QED
            BY <1>1, <1>3, <3>3, <3>6, <3>7, <3>8
    <2> QED
        BY <1>3, <1>5, <2>1, StartsInRest
<1>7. LineTyped'
    BY <1>1, <1>2, <1>5 DEF LineTyped
<1> QED
    BY <1>1, <1>5, <1>6, <1>7 DEF LineInv

\* The end of the body, or a failure, changes nothing of what there is to read.
LEMMA BodyEndStep ==
    ASSUME LineAssumption, LineInv, LB!Close \/ LB!TransportFails
    PROVE  LineInv'
<1>1. /\ end = None /\ end' \in {"closed", "error"}
      /\ UNCHANGED <<framing, body, wire, buf, payloads>>
    BY DEF LB!Close, LB!TransportFails, LB!Polls
<1>2. end # "done" /\ end' # "done"
    BY <1>1 DEF LineAssumption
<1>3. Came' = Came /\ LB!Within' = LB!Within
    BY <1>1 DEF Came, LB!Within
<1>4. LineTyped'
    BY <1>1 DEF LineInv, LineTyped
<1> QED
    BY <1>1, <1>2, <1>3, <1>4 DEF LineInv

LEMMA LineStep ==
    ASSUME LineAssumption, LineInv, [LB!Next]_LB!vars
    PROVE  LineInv'
<1>1. CASE UNCHANGED LB!vars
    <2>1. UNCHANGED <<framing, body, wire, buf, payloads, end>>
        BY <1>1 DEF LB!vars
    <2>2. Came' = Came /\ LB!Within' = LB!Within
        BY <2>1 DEF Came, LB!Within
    <2>3. LineTyped'
        BY <2>1 DEF LineInv, LineTyped
    <2> QED
        BY <2>1, <2>2, <2>3 DEF LineInv
<1> QED
    BY <1>1, WriteStep, DeliverStep, TakeLineStep, ClearStep, BodyEndStep DEF LB!Next

LEMMA LineKept ==
    ASSUME LineAssumption
    PROVE  LB!Spec => []LineInv
<1>1. LB!Init => LineInv
    BY LineInit
<1>2. LineInv /\ [LB!Next]_LB!vars => LineInv'
    BY LineStep
<1> QED
    BY <1>1, <1>2, PTL DEF LB!Spec

\* The buffer holds cells of the body, and payloads are lines of it.
THEOREM LineTypeOK ==
    ASSUME LineAssumption
    PROVE  LB!Spec => []LB!TypeOK
<1>1. LineInv => LB!TypeOK
    <2> SUFFICES ASSUME LineInv
                 PROVE  LB!TypeOK
        OBVIOUS
    <2>1. LineTyped /\ Untold(body, Came) /\ HandedOn(body, Came, payloads)
        BY DEF LineInv
    <2>2. ASSUME NEW k \in 1..Len(buf)
          PROVE  buf[k].line \in 1..Len(body) /\ buf[k].at \in 1..buf[k].of
        <3>1. k \in 1..Len(Came) /\ Came[k] = buf[k]
            BY <2>1, CameCells
        <3> QED
            BY <2>1, <3>1 DEF Untold, FromBody
    <2>3. \A k \in 1..Len(payloads) : payloads[k].line \in 1..Len(body)
        BY <2>1 DEF HandedOn
    <2> QED
        BY <2>1, <2>2, <2>3 DEF LineTyped, LB!TypeOK
<1> QED
    BY <1>1, LineKept, PTL

\* Wherever the body is cut: the payloads are data lines in order, each whole and once, none after
\* [DONE], and of the lines within the limit none is missing, whatever came between.
THEOREM EveryLineHandedOn ==
    ASSUME LineAssumption
    PROVE  LB!Spec => []LB!EveryLine
<1>1. LineInv => LB!EveryLine
    <2> SUFFICES ASSUME LineInv
                 PROVE  LB!EveryLine
        OBVIOUS
    <2>1. /\ LineTyped /\ Untold(body, Came) /\ HandedOn(body, Came, payloads)
          /\ end # "done" => NoneLost(body, Came, payloads, LB!Within)
          /\ end = "done" => AllTold(body, payloads, LB!Within)
        BY DEF LineInv
    <2>2. /\ Came \in Seq(Cells) /\ Len(Came) = Len(buf) + Len(wire)
          /\ Len(buf) \in Nat /\ Len(wire) \in Nat
          /\ \A i \in 1..Len(buf) : Came[i] = buf[i]
          /\ \A i \in 1..Len(wire) : Came[Len(buf) + i] = wire[i]
        BY <2>1, CameCells
    <2>3. Given(payloads) = {payloads[k].line : k \in 1..Len(payloads)}
        BY DEF Given
    <2>4. wire # <<>> => /\ Len(wire) > 0 /\ 1 \in 1..Len(wire)
                         /\ Len(buf) + 1 \in 1..Len(Came) /\ Came[Len(buf) + 1] = wire[1]
        <3>1. wire \in Seq(Cells)
            BY <2>1 DEF LineTyped
        <3>2. wire # <<>> => Len(wire) # 0
            BY <3>1, EmptySeq
        <3>3. wire # <<>> => Len(wire) > 0 /\ 1 \in 1..Len(wire) /\ Len(buf) + 1 \in 1..Len(Came)
            BY <2>2, <3>2
        <3> QED
            BY <2>2, <3>3
    <2>5. ASSUME NEW x \in Given(payloads)
          PROVE  x \in LB!Expected
        <3>1. x \in 1..Len(body) /\ body[x].kind = "data"
            BY <2>1 DEF HandedOn, Given
        <3>2. wire = <<>> \/ x < wire[1].line
            BY <2>1, <2>4 DEF HandedOn
        <3>3. \A j \in 1..Len(body) : body[j].kind = "done" => x < j
            BY <2>1 DEF HandedOn
        <3> QED
            BY <3>1, <3>2, <3>3 DEF LB!Expected
    <2>6. ASSUME LB!Drained \/ end = "done", NEW k \in LB!Expected \cap LB!Within
          PROVE  k \in Given(payloads)
        <3>1. /\ k \in 1..Len(body) /\ body[k].kind = "data"
              /\ wire = <<>> \/ k < wire[1].line
              /\ \A j \in 1..Len(body) : body[j].kind = "done" => k < j
            BY DEF LB!Expected
        <3>2. CASE end = "done"
            BY <2>1, <3>1, <3>2 DEF AllTold
        <3>3. CASE end # "done"
            <4>1. LB!Drained
                BY <2>6, <3>3
            <4> SUFFICES ASSUME NEW i \in 1..Len(Came), Came[i].line = k
                         PROVE  FALSE
                BY <2>1, <3>1, <3>3 DEF NoneLost, Starts
            <4> DEFINE n == Len(buf)
            <4>2. CASE i <= n
                <5>1. i \in 1..n /\ n \in 0..Len(Came)
                    BY <2>2, <4>2
                <5>2. \A j \in 1..n : ~LB!Newline(Came[j])
                    BY <2>2, <4>1 DEF LB!Drained
                <5>3. /\ i + (Came[i].of - Came[i].at) > n
                      /\ i + (Came[i].of - Came[i].at) <= Len(Came)
                    BY <2>1, <2>2, <5>1, <5>2, OnePending
                <5>4. Came[i].of \in Nat /\ Came[i].at \in Nat
                    BY <2>2, CellTyped
                <5>5. /\ n + 1 <= i + (Came[i].of - Came[i].at) /\ n + 1 \in 1..Len(Came)
                      /\ i <= n + 1 /\ Len(wire) # 0
                    BY <2>2, <5>1, <5>3, <5>4
                <5>6. Came[n + 1].line = k
                    <6>1. \/ Came[n + 1].line = Came[i].line
                          \/ n + 1 > i + (Came[i].of - Came[i].at)
                        BY <2>1, <2>2, <5>5, InLine
                    <6> QED
                        BY <2>2, <5>1, <5>4, <5>5, <6>1
                <5>7. wire # <<>>
                    BY <5>5
                <5> QED
                    BY <2>4, <3>1, <5>6, <5>7
            <4>3. CASE i > n
                <5>1. wire # <<>>
                    BY <2>2, <4>3
                <5>2. n + 1 \in 1..Len(Came) /\ n + 1 <= i
                    BY <2>2, <2>4, <4>3, <5>1
                <5>3. Came[n + 1].line <= Came[i].line
                    <6>1. \/ Came[i].line = Came[n + 1].line
                          \/ Came[n + 1].line < Came[i].line
                        BY <2>1, <2>2, <5>2, InLine
                    <6>2. Came[i].line \in Nat /\ Came[n + 1].line \in Nat
                        BY <2>2, <5>2, CellTyped
                    <6> QED
                        BY <6>1, <6>2
                <5>4. Came[i].line \in Nat /\ Came[n + 1].line \in Nat
                    BY <2>2, <5>2, CellTyped
                <5> QED
                    BY <2>4, <3>1, <5>1, <5>3, <5>4
            <4>4. i <= n \/ i > n
                BY <2>2
            <4> QED
                BY <4>2, <4>3, <4>4
        <3> QED
            BY <3>2, <3>3
    <2>7. /\ \A i, j \in 1..Len(payloads) : i < j => payloads[i].line < payloads[j].line
          /\ \A i \in 1..Len(payloads) : payloads[i].size = body[payloads[i].line].size
        BY <2>1 DEF HandedOn
    <2> QED
        BY <2>3, <2>5, <2>6, <2>7 DEF LB!EveryLine
<1> QED
    BY <1>1, LineKept, PTL
=============================================================================
