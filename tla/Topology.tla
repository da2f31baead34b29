------------------------------ MODULE Topology ------------------------------
(***************************************************************************)
(* The swappable topology of crates/llmleaf-core/src/engine.rs, the router *)
(* of route.rs and the limiters that ratelimit.rs carries across a swap.   *)
(* The single topology refresher diffs a pulled layer against the current  *)
(* snapshot, clears the cooldowns of removed and changed providers one by  *)
(* one, and then replaces the snapshot.  Requests hold the snapshot they   *)
(* arrived with until their stream ends, and share the health table and    *)
(* the limiter entries with everybody.  A listing of the models served     *)
(* (server.rs) keeps the model ids and namespaces it began with, and reads *)
(* targets and, one after the other, catalogs from what is current then.   *)
(***************************************************************************)
EXTENDS TopologyPolicy

CONSTANTS
    Requests,    \* request slots that may be in flight together
    MaxSwaps,    \* bound: snapshots installed
    MaxListings, \* bound: listings of models in progress together
    Catalog,     \* the models an upstream enumerates, by its endpoint
    NoCall       \* a free request slot

-----------------------------------------------------------------------------
(* Snapshots *)

VARIABLES
    topology,   \* RwLock<Arc<Topology>>
    health,     \* HealthTable: "none", "down", or "past" for an expired cooldown
    refresher,  \* the topology refresher: the snapshot it is about to install
    calls,      \* one request or listing per slot, with its snapshot
    pulled,     \* history: the last layer installed
    limited     \* history: the swap at which a provider's limits last changed

vars == <<topology, health, refresher, calls, pulled, limited>>

Instances == [kind : Kinds, built : Nat]
Entries == [limit : Limits, born : Nat]

Snapshots == [providers : [Names -> Providers \cup {Absent}],
              order : Seq(Names),
              routes : [Models -> Routes \cup {Absent}],
              registry : [Names -> Instances \cup {Absent}],
              rate : [Names -> Entries \cup {Absent}],
              swap : Nat]

Calls == [pc : {"walk", "open", "stream"}, snap : Snapshots, chain : Seq(Targets), at : Nat]

Listings == [pc : {"list", "ask"}, snap : Snapshots, ask : SUBSET Names,
             routes : [Models -> Seq(Targets) \cup {Absent}],
             catalogs : [Names -> (SUBSET Seq(Segments)) \cup {Absent}]]

ASSUME SlotAssumption ==
    Absent \notin Instances \cup Entries \cup Pulls /\ NoCall \notin Calls \cup Listings

ASSUME CatalogAssumption ==
    /\ Catalog \in [Endpoints -> SUBSET (Seq(Segments) \ {<<>>})]
    /\ \A endpoint \in Endpoints : Absent # Catalog[endpoint] /\ <<Blank>> \notin Catalog[endpoint]

TypeOK ==
    /\ topology \in Snapshots
    /\ health \in [Names -> {"none", "down", "past"}]
    /\ refresher \in [pc : {"idle", "clearing"}, next : Snapshots, clear : SUBSET Names,
                      pull : Pulls \cup {Absent}]
    /\ calls \in [Requests -> Calls \cup Listings \cup {NoCall}]
    /\ pulled \in Pulls \cup {Absent}
    /\ limited \in [Names -> Nat]

\* A fresh limiter entry; an unlimited provider has none.
Fresh(cfg, swap) ==
    IF cfg = Absent \/ cfg.limits = Unlimited THEN Absent
    ELSE [limit |-> cfg.limits, born |-> swap]

BaseOrder == [i \in DOMAIN BaseProviders |-> BaseProviders[i].name]

BaseTopology ==
    [providers |-> [name \in Names |-> BaseProvider(name)],
     order |-> BaseOrder,
     routes |-> [model \in Models |-> BaseRoute(model)],
     registry |-> [name \in Names |->
         IF BaseProvider(name) = Absent THEN Absent
         ELSE [kind |-> BaseProvider(name).kind, built |-> 0]],
     rate |-> [name \in Names |-> Fresh(BaseProvider(name), 0)],
     swap |-> 0]

Init ==
    /\ topology = BaseTopology
    /\ health = [name \in Names |-> "none"]
    /\ refresher = [pc |-> "idle", next |-> BaseTopology, clear |-> {}, pull |-> Absent]
    /\ calls = [r \in Requests |-> NoCall]
    /\ pulled = Absent
    /\ limited = [name \in Names |-> 0]

-----------------------------------------------------------------------------
(* The refresher: Engine::install_topology *)

\* Mutant: an instance is kept whatever became of its kind.
ReusedByName(prev, cfg) == prev.providers[cfg.name] # Absent

\* An instance is dialect logic, so it is reused while the kind stays.
Reused(prev, cfg) ==
    prev.providers[cfg.name] # Absent /\ prev.providers[cfg.name].kind = cfg.kind

Registry(prev, providers, swap) == [name \in Names |->
    CASE providers[name] = Absent -> Absent
      [] providers[name] # Absent /\ Reused(prev, providers[name]) -> prev.registry[name]
      [] OTHER -> [kind |-> providers[name].kind, built |-> swap]]

\* Mutant: any change of a provider makes a fresh entry.
CarriedIfIdentical(prev, providers, name) == prev.providers[name] = providers[name]

\* The limiter entry is carried over while the limits stay.
Carried(prev, providers, name) ==
    /\ prev.providers[name] # Absent
    /\ providers[name] # Absent
    /\ prev.providers[name].limits = providers[name].limits

Rate(prev, providers, swap) == [name \in Names |->
    IF Carried(prev, providers, name) THEN prev.rate[name]
    ELSE Fresh(providers[name], swap)]

\* The dynamic providers follow the base in the order of a hash map.
Orders(providers) ==
    LET dynamic == {name \in Names \ base_names : providers[name] # Absent} IN
    {BaseOrder \o f : f \in {g \in [1..Cardinality(dynamic) -> dynamic] :
        \A i, j \in DOMAIN g : g[i] = g[j] => i = j}}

\* Mutant: every provider of the previous snapshot is cleared.
AllCleared(prev, providers) == {name \in Names : prev.providers[name] # Absent}

\* Removed and changed providers lose their cooldown.
Cleared(prev, providers) ==
    {name \in Names : prev.providers[name] # Absent /\ providers[name] # prev.providers[name]}

\* One pull: filter, diff, and unless nothing changed prepare the next snapshot.
Pull(pull) ==
    LET providers == MergedProviders(pull)
        routes == MergedRoutes(pull)
        swap == topology.swap + 1 IN
    /\ refresher.pc = "idle" /\ topology.swap < MaxSwaps
    /\ <<providers, routes>> # <<topology.providers, topology.routes>>
    /\ \E order \in Orders(providers) :
          refresher' = [pc |-> "clearing", clear |-> Cleared(topology, providers), pull |-> pull,
              next |-> [providers |-> providers, order |-> order, routes |-> routes,
                        registry |-> Registry(topology, providers, swap),
                        rate |-> Rate(topology, providers, swap), swap |-> swap]]
    /\ UNCHANGED <<topology, health, calls, pulled, limited>>

\* health.clear of one removed or changed provider.
ClearHealth(name) ==
    /\ refresher.pc = "clearing" /\ name \in refresher.clear
    /\ health' = [health EXCEPT ![name] = "none"]
    /\ refresher' = [refresher EXCEPT !.clear = @ \ {name}]
    /\ UNCHANGED <<topology, calls, pulled, limited>>

LimitsOf(providers, name) == IF providers[name] = Absent THEN Absent ELSE providers[name].limits

\* The write lock: the prepared snapshot replaces the current one.
Swap ==
    /\ refresher.pc = "clearing" /\ refresher.clear = {}
    /\ topology' = refresher.next
    /\ pulled' = refresher.pull
    /\ limited' = [name \in Names |->
          IF LimitsOf(topology.providers, name) = LimitsOf(refresher.next.providers, name)
          THEN limited[name] ELSE refresher.next.swap]
    /\ refresher' = [refresher EXCEPT !.pc = "idle", !.next = BaseTopology, !.pull = Absent]
    /\ UNCHANGED <<health, calls>>

-----------------------------------------------------------------------------
(* A request, on the snapshot it arrived with.  Which target of a chain it
   admits and when it retries is Dispatch's subject; here it walks once. *)

Arrive(r, model) ==
    /\ calls[r] = NoCall
    /\ resolve(topology, model) # Absent
    /\ calls' = [calls EXCEPT ![r] = [pc |-> "walk", snap |-> topology,
                                      chain |-> resolve(topology, model), at |-> 1]]
    /\ UNCHANGED <<topology, health, refresher, pulled, limited>>

At(r, pc) == calls[r] # NoCall /\ calls[r].pc = pc

Provider(call) == call.chain[call.at].provider

\* The provider and the limiter entry under whose permit a call runs.
Open(call) == call # NoCall /\ call.pc \in {"open", "stream"}

Holders(name, entry) ==
    {r \in Requests : /\ Open(calls[r]) /\ Provider(calls[r]) = name
                      /\ calls[r].snap.rate[name] = entry}

Walking(r) == At(r, "walk") /\ calls[r].at \in DOMAIN calls[r].chain
Exhausted(r) == At(r, "walk") /\ calls[r].at \notin DOMAIN calls[r].chain

\* A cooled-down, unregistered or saturated target is passed over.
SkipTarget(r) ==
    /\ Walking(r)
    /\ calls' = [calls EXCEPT ![r].at = @ + 1]
    /\ UNCHANGED <<topology, health, refresher, pulled, limited>>

\* The second pass, or the next walk after a wait for capacity.
WalkAgain(r) ==
    /\ Exhausted(r)
    /\ calls' = [calls EXCEPT ![r].at = 1]
    /\ UNCHANGED <<topology, health, refresher, pulled, limited>>

\* An instance of the snapshot is called under a permit of the snapshot's limiter.
Admit(r) ==
    /\ Walking(r)
    /\ LET name == Provider(calls[r])
           entry == calls[r].snap.rate[name] IN
       /\ calls[r].snap.registry[name] # Absent
       /\ entry # Absent => Cardinality(Holders(name, entry)) < entry.limit
    /\ calls' = [calls EXCEPT ![r].pc = "open"]
    /\ UNCHANGED <<topology, health, refresher, pulled, limited>>

\* The provider refuses: the permit is freed and, unless it merely lacks the
\* modality, its cooldown starts; the walk goes on.
Fail(r) ==
    /\ At(r, "open")
    /\ \/ health' = [health EXCEPT ![Provider(calls[r])] = "down"]
       \/ UNCHANGED health
    /\ calls' = [calls EXCEPT ![r].pc = "walk", ![r].at = @ + 1]
    /\ UNCHANGED <<topology, refresher, pulled, limited>>

\* The provider answers: its cooldown ends; the stream keeps the permit.
Answer(r) ==
    /\ At(r, "open")
    /\ health' = [health EXCEPT ![Provider(calls[r])] = "none"]
    /\ calls' = [calls EXCEPT ![r].pc = "stream"]
    /\ UNCHANGED <<topology, refresher, pulled, limited>>

\* The stream ends, the chain is exhausted, or the client hangs up while the
\* provider is asked: permit and snapshot are let go.
Finish(r) ==
    /\ Open(calls[r]) \/ Exhausted(r)
    /\ calls' = [calls EXCEPT ![r] = NoCall]
    /\ UNCHANGED <<topology, health, refresher, pulled, limited>>

-----------------------------------------------------------------------------
(* GET /v1/models *)

Listing(r) == calls[r] # NoCall /\ calls[r].pc \in {"list", "ask"}

\* The snapshot that says what is listed.
ListModels(r) ==
    /\ calls[r] = NoCall /\ Cardinality({o \in Requests : Listing(o)}) < MaxListings
    /\ calls' = [calls EXCEPT ![r] = [pc |-> "list", snap |-> topology, ask |-> {},
                                      routes |-> [model \in Models |-> Absent],
                                      catalogs |-> [name \in Names |-> Absent]]]
    /\ UNCHANGED <<topology, health, refresher, pulled, limited>>

\* The providers whose catalogs are wanted: those with a namespace, and the primary target of
\* every route.
Involved(snap, routes) ==
    {name \in Names : snap.providers[name] # Absent /\ snap.providers[name].prefix # NoPrefix}
        \cup {routes[model][1].provider :
                 model \in {m \in Models : routes[m] # Absent /\ routes[m] # <<>>}}

\* engine.resolve_targets: the routes lead where the snapshot current by then resolves them, and
\* one that it no longer resolves is dropped.
ListRoutes(r) ==
    /\ At(r, "list")
    /\ LET snap == calls[r].snap
           routes == [model \in Models |-> IF snap.routes[model] = Absent THEN Absent
                                           ELSE resolve(topology, model)]
       IN calls' = [calls EXCEPT ![r].pc = "ask", ![r].routes = routes,
                                 ![r].ask = Involved(snap, routes)]
    /\ UNCHANGED <<topology, health, refresher, pulled, limited>>

\* provider_models asks the instance of the snapshot current by then; one that is gone, cannot
\* enumerate or fails leaves a gap.
AskCatalog(r, name) ==
    /\ At(r, "ask") /\ name \in calls[r].ask
    /\ \E answer \in {Absent} \cup (IF topology.registry[name] = Absent THEN {}
                                  ELSE {Catalog[topology.providers[name].endpoint]}) :
          calls' = [calls EXCEPT ![r].ask = @ \ {name}, ![r].catalogs[name] = answer]
    /\ UNCHANGED <<topology, health, refresher, pulled, limited>>

Listed(r) == At(r, "ask") /\ calls[r].ask = {}

AnswerListing(r) ==
    /\ Listed(r)
    /\ calls' = [calls EXCEPT ![r] = NoCall]
    /\ UNCHANGED <<topology, health, refresher, pulled, limited>>

\* The namespaces of a snapshot in which a catalog has the model of this id, as places in the order.
Offers(listing, id) ==
    {i \in Claims(listing.snap.providers, listing.snap.order, id) :
        LET name == listing.snap.order[i]
        IN /\ listing.catalogs[name] # Absent
           /\ strip_namespace(id, listing.snap.providers[name].prefix) \in listing.catalogs[name]}

\* Mutant: a namespace that comes later replaces the entry of an earlier one.
LastOffer(listing, id) ==
    CHOOSE i \in Offers(listing, id) : \A j \in Offers(listing, id) : j <= i

\* Of the offers the longest namespace is inserted first, and stays.
FirstOffer(listing, id) ==
    LET length(i) == Len(listing.snap.providers[listing.snap.order[i]].prefix) IN
    CHOOSE i \in Offers(listing, id) : \A j \in Offers(listing, id) :
        length(j) < length(i) \/ (length(j) = length(i) /\ i <= j)

\* A listed model and where it is said to lead: a route to its chain, any other to the upstream
\* model of one provider.
Entry(listing, id) ==
    IF listing.routes[id] # Absent THEN listing.routes[id]
    ELSE IF Offers(listing, id) = {} THEN Absent
    ELSE LET name == listing.snap.order[FirstOffer(listing, id)] IN
         <<[provider |-> name,
            model |-> strip_namespace(id, listing.snap.providers[name].prefix)]>>

-----------------------------------------------------------------------------
\* A cooldown expires: the entry stays in the table.
Expire(name) ==
    /\ health[name] = "down"
    /\ health' = [health EXCEPT ![name] = "past"]
    /\ UNCHANGED <<topology, refresher, calls, pulled, limited>>

Refresh == (\E pull \in Pulls : Pull(pull)) \/ (\E name \in Names : ClearHealth(name)) \/ Swap

Serve(r) ==
    \/ \E model \in Models : Arrive(r, model)
    \/ SkipTarget(r) \/ WalkAgain(r) \/ Admit(r) \/ Fail(r) \/ Answer(r) \/ Finish(r)

List(r) ==
    \/ ListModels(r) \/ ListRoutes(r) \/ AnswerListing(r)
    \/ \E name \in Names : AskCatalog(r, name)

Next == Refresh \/ (\E r \in Requests : Serve(r) \/ List(r)) \/ (\E name \in Names : Expire(name))

Spec == Init /\ [][Next]_vars

-----------------------------------------------------------------------------
(* Properties *)

\* engine.rs install_topology, ratelimit.rs reconciled: the streams open on a provider under its
\* present limits, whatever snapshots they hold, are no more than the configured number: all
\* snapshots taken since the limits last changed draw their permits from one limiter entry, so
\* that a swap which leaves the limits alone opens no second budget.
LimitHolds ==
    \A name \in Names :
        LET since == {r \in Requests : calls[r] # NoCall /\ calls[r].snap.swap >= limited[name]}
            limit == LimitsOf(topology.providers, name)
        IN /\ \A r \in since : calls[r].snap.rate[name] = topology.rate[name]
           /\ limit \in Limits =>
                 /\ topology.rate[name] # Absent /\ topology.rate[name].limit = limit
                 /\ Cardinality({r \in since : Open(calls[r]) /\ Provider(calls[r]) = name}) <= limit

\* engine.rs install_topology: "untouched providers keep their live instances, rate
\* buckets, and cooldowns": a refresher step disturbs only what it was told to change.
UntouchedKept ==
    [][/\ \A name \in Names : topology'.providers[name] = topology.providers[name] =>
             /\ topology'.registry[name] = topology.registry[name]
             /\ topology'.rate[name] = topology.rate[name]
       /\ refresher' # refresher => \A name \in Names : health'[name] # health[name] =>
             refresher.next.providers[name] # topology.providers[name]]_vars

\* server.rs list_models: "routes and prefixes agree even if a pulled topology swap lands
\* mid-request", and no catalog that fails hides a route: whatever is listed was served when the
\* listing began, a route that has lasted is listed, and a namespaced model leads where a request
\* for it would have been sent, unless the namespace that takes the request did not list it itself.
ListedAsServed ==
    \A r \in Requests : Listed(r) =>
        LET listing == calls[r]
            snap == listing.snap
            owned(id) == /\ Claims(snap.providers, snap.order, id) # {}
                         /\ Claimant(snap.providers, snap.order, id) \in Offers(listing, id)
        IN \A id \in Models :
              /\ Entry(listing, id) # Absent => resolve(snap, id) # Absent
              /\ snap.routes[id] = Absent /\ owned(id) => Entry(listing, id) = resolve(snap, id)
              /\ snap.routes[id] # Absent /\ topology.swap = snap.swap =>
                    Entry(listing, id) = resolve(snap, id)

\* What a pull promises: the live snapshot is the file base extended by the last
\* pull, whatever was installed before.  No trace of earlier layers is left in the
\* routes, the kinds of the instances or the limits in force.
Visible(snap) ==
    [providers |-> snap.providers, routes |-> snap.routes,
     kinds |-> [name \in Names |->
         IF snap.registry[name] = Absent THEN Absent ELSE snap.registry[name].kind],
     limits |-> [name \in Names |->
         IF snap.rate[name] = Absent THEN Absent ELSE snap.rate[name].limit]]

Layer == INSTANCE TopologyLayer WITH view <- Visible(topology)

ImplementsLayer == Layer!Spec
=============================================================================
