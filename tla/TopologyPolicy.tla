--------------------------- MODULE TopologyPolicy ---------------------------
(***************************************************************************)
(* The pure part of a topology install and of routing: which entries of a  *)
(* pulled layer survive beside the file base (engine.rs), and how a model  *)
(* resolves to a chain of targets (route.rs).                              *)
(***************************************************************************)
EXTENDS Integers, Sequences, FiniteSets

CONSTANTS
    Names,          \* provider names
    Kinds,          \* provider kinds
    Buildable,      \* kinds the factory can build
    Segments,       \* path segments of model ids
    Prefixes,       \* namespaces: sequences of path segments
    Models,         \* logical models: sequences of path segments
    Limits,         \* concurrency limits of providers
    Endpoints,      \* all the rest of a provider's configuration
    BaseProviders,  \* [[providers]] of the config file
    BaseRoutes,     \* [[routes]] of the config file
    Pulls,          \* what the topology endpoint may answer
    Absent,         \* no provider, route, instance or limiter entry of that name
    NoPrefix,       \* a provider without a namespace
    Unlimited,      \* a provider without limits
    Blank           \* the empty path segment

Providers == [name : Names, kind : Kinds, prefix : Prefixes \cup {NoPrefix},
              limits : Limits \cup {Unlimited}, endpoint : Endpoints]
Targets == [provider : Names, model : Seq(Segments)]
Routes == [model : Models, targets : Seq(Targets)]

ASSUME DomainAssumption ==
    /\ Prefixes \subseteq Seq(Segments) /\ NoPrefix \notin Prefixes
    /\ Models \subseteq Seq(Segments) /\ Blank \in Segments
    /\ Limits \subseteq Nat /\ Unlimited \notin Limits

ASSUME BaseAssumption ==
    /\ BaseProviders \in Seq(Providers) /\ BaseRoutes \in Seq(Routes)
    /\ \A i, j \in DOMAIN BaseProviders :
          BaseProviders[i].name = BaseProviders[j].name => i = j
    /\ \A i \in DOMAIN BaseProviders : BaseProviders[i].kind \in Buildable

ASSUME PullsAssumption ==
    \A pull \in Pulls : pull.providers \in Seq(Providers) /\ pull.routes \in Seq(Routes)

ASSUME AbsentAssumption ==
    Absent \notin Providers \cup Routes \cup Seq(Segments) \cup Seq(Targets) \cup Limits

-----------------------------------------------------------------------------
(* The layer a pull amounts to, and the router *)

First(seq, P(_)) ==
    IF \E i \in DOMAIN seq : P(seq[i])
    THEN seq[CHOOSE i \in DOMAIN seq : P(seq[i]) /\ \A j \in 1..(i - 1) : ~P(seq[j])]
    ELSE Absent

base_names == {BaseProviders[i].name : i \in DOMAIN BaseProviders}
base_models == {BaseRoutes[i].model : i \in DOMAIN BaseRoutes}

BaseProvider(name) == First(BaseProviders, LAMBDA p : p.name = name)
BaseRoute(model) == First(BaseRoutes, LAMBDA r : r.model = model)

\* The pulled entry that is installed: a base name is shadowed, an unknown kind is
\* skipped, and of the others the first of a name wins.
PulledProvider(pull, name) ==
    IF name \in base_names THEN Absent
    ELSE First(pull.providers, LAMBDA p : p.name = name /\ p.kind \in Buildable)

PulledRoute(pull, model) ==
    IF model \in base_models THEN Absent
    ELSE First(pull.routes, LAMBDA r : r.model = model)

MergedProviders(pull) == [name \in Names |->
    IF name \in base_names THEN BaseProvider(name) ELSE PulledProvider(pull, name)]

MergedRoutes(pull) == [model \in Models |->
    IF model \in base_models THEN BaseRoute(model) ELSE PulledRoute(pull, model)]

\* A segment-wise view of strip_namespace: the prefix is whole leading segments and
\* the rest is not the empty string.
strip_namespace(model, prefix) ==
    IF /\ Len(prefix) < Len(model)
       /\ SubSeq(model, 1, Len(prefix)) = prefix
       /\ SubSeq(model, Len(prefix) + 1, Len(model)) # <<Blank>>
    THEN SubSeq(model, Len(prefix) + 1, Len(model))
    ELSE Absent

\* The longest matching namespace; among equals the earlier provider (stable sort).
Claims(providers, order, model) ==
    {i \in DOMAIN order :
        /\ providers[order[i]].prefix # NoPrefix
        /\ strip_namespace(model, providers[order[i]].prefix) # Absent}

Claimant(providers, order, model) ==
    LET length(i) == Len(providers[order[i]].prefix) IN
    CHOOSE i \in Claims(providers, order, model) :
        \A j \in Claims(providers, order, model) :
            length(j) < length(i) \/ (length(j) = length(i) /\ i <= j)

\* An explicit route is a chain; a namespace is a direct address.
resolve(topology, model) ==
    IF topology.routes[model] # Absent THEN topology.routes[model].targets
    ELSE IF Claims(topology.providers, topology.order, model) = {} THEN Absent
    ELSE LET i == Claimant(topology.providers, topology.order, model)
             name == topology.order[i] IN
         <<[provider |-> name,
            model |-> strip_namespace(model, topology.providers[name].prefix)]>>

=============================================================================
