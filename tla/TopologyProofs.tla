--------------------------- MODULE TopologyProofs ---------------------------
(***************************************************************************)
(* Proofs about Topology for every file base, every pull and every number  *)
(* of requests: type correctness, that a swap leaves alone what it was not *)
(* told to change, that the limits of a provider hold across swaps, that   *)
(* the live snapshot is the file base under the last pull alone, and that  *)
(* a listing agrees with what is served.                                   *)
(***************************************************************************)
EXTENDS Topology, FiniteSetTheorems, SequenceTheorems, WellFoundedInduction, TLAPS

-----------------------------------------------------------------------------
(* The operators of the policy *)

\* Numbers have a least element; the prefixes of the naturals, ordered by inclusion, are well
\* founded.
LEMMA LeastNumber ==
    ASSUME NEW I \in SUBSET Nat, I # {}
    PROVE  \E i \in I : \A j \in I : i <= j
<1> DEFINE T == {1..i : i \in I}
           R == StrictSubsetOrdering(Nat)
<1>1. T \subseteq FiniteSubsetsOf(Nat)
    <2> SUFFICES ASSUME NEW i \in I
                 PROVE  1..i \in SUBSET Nat /\ IsFiniteSet(1..i)
        BY DEF FiniteSubsetsOf
    <2> QED
        BY FS_Interval
<1>2. IsWellFoundedOn(R, FiniteSubsetsOf(Nat))
    BY FS_StrictSubsetOrderingWellFounded
<1>3. T # {}
    OBVIOUS
<1>4. \E x \in T : \A y \in T : <<y, x>> \notin R
    <2> HIDE DEF T, R
    <2> QED
        BY <1>1, <1>2, <1>3, WFMin
<1>5. PICK i \in I : \A j \in I : <<1..j, 1..i>> \notin R
    BY <1>4
<1>6. ASSUME NEW j \in I, j < i
      PROVE  FALSE
    <2>1. /\ 1..j \subseteq 1..i /\ i \in 1..i /\ i \notin 1..j
          /\ 1..j \in SUBSET Nat /\ 1..i \in SUBSET Nat
        BY <1>6
    <2> QED
        BY <1>5, <2>1, Zenon DEF StrictSubsetOrdering
<1> QED
    BY <1>5, <1>6

\* Of the entries of a list that qualify there is a first.
LEMMA FirstIndex ==
    ASSUME NEW S, NEW seq \in Seq(S), NEW I \in SUBSET DOMAIN seq, I # {}
    PROVE  \E i \in I : \A j \in 1..(i - 1) : j \notin I
<1>1. I \in SUBSET Nat
    OBVIOUS
<1>2. PICK i \in I : \A j \in I : i <= j
    BY <1>1, LeastNumber
<1> QED
    BY <1>1, <1>2

\* A provider of the file base is one of its entries, under its own name.
LEMMA BaseProviderType ==
    ASSUME NEW name
    PROVE  /\ BaseProvider(name) \in Providers \cup {Absent}
           /\ BaseProvider(name) # Absent <=> name \in base_names
           /\ BaseProvider(name) # Absent => BaseProvider(name).name = name
<1> DEFINE P(i) == BaseProviders[i].name = name
           I == {i \in DOMAIN BaseProviders : P(i)}
<1>1. BaseProviders \in Seq(Providers)
    BY BaseAssumption
<1>2. CASE I = {}
    BY <1>2 DEF BaseProvider, First, base_names
<1>3. CASE I # {}
    <2>1. \E i \in I : \A j \in 1..(i - 1) : j \notin I
        BY <1>1, <1>3, FirstIndex
    <2> DEFINE k == CHOOSE i \in DOMAIN BaseProviders :
                       P(i) /\ \A j \in 1..(i - 1) : ~P(j)
    <2>2. \E i \in DOMAIN BaseProviders : P(i) /\ \A j \in 1..(i - 1) : ~P(j)
        <3>1. PICK i \in I : \A j \in 1..(i - 1) : j \notin I
            BY <2>1
        <3>2. \A j \in 1..(i - 1) : j \in DOMAIN BaseProviders
            BY <1>1, <3>1
        <3> QED
            BY <3>1, <3>2
    <2>3. k \in DOMAIN BaseProviders /\ P(k)
        BY <2>2
    <2>4. BaseProvider(name) = BaseProviders[k]
        BY <1>3 DEF BaseProvider, First
    <2> HIDE DEF k
    <2> QED
        BY <1>1, <2>3, <2>4, AbsentAssumption DEF base_names
<1> QED
    BY <1>2, <1>3

\* So is a route of the file base.
LEMMA BaseRouteType ==
    ASSUME NEW model
    PROVE  BaseRoute(model) \in Routes \cup {Absent}
<1> DEFINE P(i) == BaseRoutes[i].model = model
           I == {i \in DOMAIN BaseRoutes : P(i)}
<1>1. BaseRoutes \in Seq(Routes)
    BY BaseAssumption
<1>2. CASE I = {}
    BY <1>2 DEF BaseRoute, First
<1>3. CASE I # {}
    <2>1. \E i \in I : \A j \in 1..(i - 1) : j \notin I
        BY <1>1, <1>3, FirstIndex
    <2> DEFINE k == CHOOSE i \in DOMAIN BaseRoutes :
                       P(i) /\ \A j \in 1..(i - 1) : ~P(j)
    <2>2. \E i \in DOMAIN BaseRoutes : P(i) /\ \A j \in 1..(i - 1) : ~P(j)
        <3>1. PICK i \in I : \A j \in 1..(i - 1) : j \notin I
            BY <2>1
        <3>2. \A j \in 1..(i - 1) : j \in DOMAIN BaseRoutes
            BY <1>1, <3>1
        <3> QED
            BY <3>1, <3>2
    <2>3. k \in DOMAIN BaseRoutes /\ P(k)
        BY <2>2
    <2>4. BaseRoute(model) = BaseRoutes[k]
        BY <1>3 DEF BaseRoute, First
    <2> HIDE DEF k
    <2> QED
        BY <1>1, <2>3, <2>4
<1> QED
    BY <1>2, <1>3

\* The installed provider of a pull is one of its entries.
LEMMA PulledProviderType ==
    ASSUME NEW pull \in Pulls, NEW name
    PROVE  \/ PulledProvider(pull, name) = Absent
           \/ /\ PulledProvider(pull, name) \in Providers
              /\ \E i \in DOMAIN pull.providers :
                    PulledProvider(pull, name) = pull.providers[i] /\ pull.providers[i].name = name
<1> DEFINE P(i) == pull.providers[i].name = name /\ pull.providers[i].kind \in Buildable
           I == {i \in DOMAIN pull.providers : P(i)}
<1>1. pull.providers \in Seq(Providers)
    BY PullsAssumption
<1>2. CASE name \in base_names \/ I = {}
    BY <1>2 DEF PulledProvider, First
<1>3. CASE name \notin base_names /\ I # {}
    <2>1. \E i \in I : \A j \in 1..(i - 1) : j \notin I
        BY <1>1, <1>3, FirstIndex
    <2> DEFINE k == CHOOSE i \in DOMAIN pull.providers :
                       P(i) /\ \A j \in 1..(i - 1) : ~P(j)
    <2>2. \E i \in DOMAIN pull.providers : P(i) /\ \A j \in 1..(i - 1) : ~P(j)
        <3>1. PICK i \in I : \A j \in 1..(i - 1) : j \notin I
            BY <2>1
        <3>2. \A j \in 1..(i - 1) : j \in DOMAIN pull.providers
            BY <1>1, <3>1
        <3> QED
            BY <3>1, <3>2
    <2>3. k \in DOMAIN pull.providers /\ P(k)
        BY <2>2
    <2>4. PulledProvider(pull, name) = pull.providers[k]
        BY <1>3 DEF PulledProvider, First
    <2> HIDE DEF k
    <2> QED
        BY <1>1, <2>3, <2>4
<1> QED
    BY <1>2, <1>3

\* And the installed route of a pull.
LEMMA PulledRouteType ==
    ASSUME NEW pull \in Pulls, NEW model
    PROVE  PulledRoute(pull, model) \in Routes \cup {Absent}
<1> DEFINE P(i) == pull.routes[i].model = model
           I == {i \in DOMAIN pull.routes : P(i)}
<1>1. pull.routes \in Seq(Routes)
    BY PullsAssumption
<1>2. CASE model \in base_models \/ I = {}
    BY <1>2 DEF PulledRoute, First
<1>3. CASE model \notin base_models /\ I # {}
    <2>1. \E i \in I : \A j \in 1..(i - 1) : j \notin I
        BY <1>1, <1>3, FirstIndex
    <2> DEFINE k == CHOOSE i \in DOMAIN pull.routes :
                       P(i) /\ \A j \in 1..(i - 1) : ~P(j)
    <2>2. \E i \in DOMAIN pull.routes : P(i) /\ \A j \in 1..(i - 1) : ~P(j)
        <3>1. PICK i \in I : \A j \in 1..(i - 1) : j \notin I
            BY <2>1
        <3>2. \A j \in 1..(i - 1) : j \in DOMAIN pull.routes
            BY <1>1, <3>1
        <3> QED
            BY <3>1, <3>2
    <2>3. k \in DOMAIN pull.routes /\ P(k)
        BY <2>2
    <2>4. PulledRoute(pull, model) = pull.routes[k]
        BY <1>3 DEF PulledRoute, First
    <2> HIDE DEF k
    <2> QED
        BY <1>1, <2>3, <2>4
<1> QED
    BY <1>2, <1>3

\* The layer that a pull amounts to.
LEMMA MergedType ==
    ASSUME NEW pull \in Pulls
    PROVE  /\ MergedProviders(pull) \in [Names -> Providers \cup {Absent}]
           /\ MergedRoutes(pull) \in [Models -> Routes \cup {Absent}]
BY BaseProviderType, BaseRouteType, PulledProviderType, PulledRouteType
DEF MergedProviders, MergedRoutes

\* An installed provider is under its own name.
LEMMA MergedNames ==
    ASSUME NEW pull \in Pulls, NEW name \in Names, MergedProviders(pull)[name] # Absent
    PROVE  MergedProviders(pull)[name].name = name
BY BaseProviderType, PulledProviderType DEF MergedProviders

\* The order of the file base names its providers.
LEMMA BaseOrderType ==
    /\ BaseOrder \in Seq(Names)
    /\ \A i \in DOMAIN BaseOrder :
          BaseOrder[i] \in base_names /\ BaseProvider(BaseOrder[i]) # Absent
<1>1. BaseProviders \in Seq(Providers) /\ DOMAIN BaseProviders = 1..Len(BaseProviders)
    BY BaseAssumption
<1>2. \A i \in 1..Len(BaseProviders) : BaseProviders[i] \in Providers
    BY <1>1, ElementOfSeq
<1>3. \A i \in 1..Len(BaseProviders) : BaseProviders[i].name \in Names
    BY <1>2 DEF Providers
<1>4. \A i \in DOMAIN BaseOrder : BaseOrder[i] \in base_names
    BY DEF BaseOrder, base_names
<1> QED
    BY <1>1, <1>3, <1>4, IsASeq, BaseProviderType DEF BaseOrder

\* Finitely many providers follow the file base; an order names those that there are.
LEMMA OrdersType ==
    ASSUME NEW pull \in Pulls, NEW order \in Orders(MergedProviders(pull))
    PROVE  /\ order \in Seq(Names)
           /\ \A i \in DOMAIN order : MergedProviders(pull)[order[i]] # Absent
<1> DEFINE providers == MergedProviders(pull)
           dynamic == {name \in Names \ base_names : providers[name] # Absent}
           seq == pull.providers
           named == {seq[i].name : i \in 1..Len(seq)}
<1>1. seq \in Seq(Providers) /\ Len(seq) \in Nat /\ DOMAIN seq = 1..Len(seq)
    BY PullsAssumption
<1>2. IsFiniteSet(named)
    <2> DEFINE f == [i \in 1..Len(seq) |-> seq[i].name]
    <2>1. f \in Surjection(1..Len(seq), named)
        BY DEF Surjection
    <2>2. IsFiniteSet(1..Len(seq))
        BY <1>1, FS_Interval
    <2> HIDE DEF f
    <2> QED
        BY <2>1, <2>2, FS_Surjection
<1>3. dynamic \subseteq named
    BY <1>1, PulledProviderType DEF MergedProviders
<1>4. Cardinality(dynamic) \in Nat
    <2> HIDE DEF dynamic, named
    <2> QED
        BY <1>2, <1>3, FS_Subset, FS_CardinalityType
<1>5. PICK g \in [1..Cardinality(dynamic) -> dynamic] : order = BaseOrder \o g
    BY DEF Orders
<1>6. g \in Seq(Names) /\ \A i \in DOMAIN g : providers[g[i]] # Absent
    <2>1. g \in Seq(dynamic)
        BY <1>4, SeqDef
    <2> QED
        BY <2>1
<1>7. \A i \in DOMAIN BaseOrder : providers[BaseOrder[i]] # Absent
    BY BaseOrderType DEF MergedProviders
<1>8. order \in Seq(Names)
    BY <1>5, <1>6, BaseOrderType
<1>9. ASSUME NEW i \in DOMAIN order
      PROVE  providers[order[i]] # Absent
    <2> HIDE DEF providers, dynamic
    <2>1. Len(BaseOrder) \in Nat /\ Len(g) \in Nat /\ DOMAIN g = 1..Len(g)
        BY <1>6, BaseOrderType
    <2>2. CASE i \in 1..Len(BaseOrder)
        <3>1. order[i] = BaseOrder[i] /\ i \in DOMAIN BaseOrder
            BY <1>5, <1>6, <2>2, BaseOrderType, ConcatProperties
        <3> QED
            BY <1>7, <3>1
    <2>3. CASE i \notin 1..Len(BaseOrder)
        <3>1. i \in 1..(Len(BaseOrder) + Len(g))
            BY <1>5, <1>6, <1>8, BaseOrderType, ConcatProperties
        <3>2. order[i] = g[i - Len(BaseOrder)] /\ i - Len(BaseOrder) \in 1..Len(g)
            BY <1>5, <1>6, <2>1, <2>3, <3>1, BaseOrderType, ConcatProperties
        <3> QED
            BY <1>6, <2>1, <3>2
    <2> QED
        BY <2>2, <2>3
<1> QED
    BY <1>8, <1>9

\* What is left of a model id under a namespace is shorter.
LEMMA StripType ==
    ASSUME NEW model \in Seq(Segments), NEW prefix \in Seq(Segments)
    PROVE  \/ strip_namespace(model, prefix) = Absent
           \/ /\ strip_namespace(model, prefix) \in Seq(Segments)
              /\ strip_namespace(model, prefix) # Absent
              /\ Len(prefix) < Len(model)
BY AbsentAssumption DEF strip_namespace

\* Of places in a list, each with a bounded length, one is the longest and of those the first.
LEMMA LongestFirst ==
    ASSUME NEW I \in SUBSET Nat, I # {}, NEW bound \in Nat, NEW length \in [I -> Nat],
           \A i \in I : length[i] <= bound
    PROVE  \E i \in I : \A j \in I : length[j] < length[i] \/ (length[j] = length[i] /\ i <= j)
<1> DEFINE Gaps == {bound - length[i] : i \in I}
<1>1. Gaps \in SUBSET Nat /\ Gaps # {}
    <2>1. \A i \in I : bound - length[i] \in Nat
        OBVIOUS
    <2> QED
        BY <2>1
<1>2. PICK gap \in Gaps : \A g \in Gaps : gap <= g
    <2> HIDE DEF Gaps
    <2> QED
        BY <1>1, LeastNumber
<1>3. PICK k \in I : gap = bound - length[k]
    BY <1>2
<1>4. \A j \in I : length[j] <= length[k]
    BY <1>2, <1>3
<1> DEFINE J == {i \in I : length[i] = length[k]}
<1>5. J \in SUBSET Nat /\ J # {}
    OBVIOUS
<1>6. PICK i \in J : \A j \in J : i <= j
    <2> HIDE DEF J
    <2> QED
        BY <1>5, LeastNumber
<1> QED
    BY <1>4, <1>6

\* What every snapshot is: its order has the providers it names, each provider has an instance of
\* its kind, and a limiter entry exactly when it has limits.
Whole(snap) ==
    /\ \A i \in DOMAIN snap.order : snap.providers[snap.order[i]] # Absent
    /\ \A name \in Names :
          /\ snap.registry[name] = Absent <=> snap.providers[name] = Absent
          /\ snap.registry[name] # Absent => snap.registry[name].kind = snap.providers[name].kind
          /\ snap.rate[name] = Absent <=> LimitsOf(snap.providers, name) \notin Limits
          /\ snap.rate[name] # Absent => snap.rate[name].limit = LimitsOf(snap.providers, name)

\* The namespaces that claim a model: places in the order, with a prefix that leaves some of it.
LEMMA ClaimsType ==
    ASSUME NEW snap \in Snapshots, Whole(snap), NEW model \in Models,
           NEW i \in Claims(snap.providers, snap.order, model)
    PROVE  /\ i \in Nat /\ snap.order[i] \in Names
           /\ snap.providers[snap.order[i]] \in Providers
           /\ snap.providers[snap.order[i]].prefix \in Seq(Segments)
           /\ Len(snap.providers[snap.order[i]].prefix) \in 0..Len(model)
           /\ strip_namespace(model, snap.providers[snap.order[i]].prefix) \in Seq(Segments)
<1> DEFINE name == snap.order[i]
           prefix == snap.providers[name].prefix
<1>1. /\ snap.order \in Seq(Names) /\ snap.providers \in [Names -> Providers \cup {Absent}]
      /\ model \in Seq(Segments)
    BY DomainAssumption DEF Snapshots
<1>2. i \in DOMAIN snap.order /\ prefix # NoPrefix /\ strip_namespace(model, prefix) # Absent
    BY DEF Claims
<1>3. i \in Nat /\ name \in Names
    BY <1>1, <1>2
<1>4. snap.providers[name] \in Providers
    BY <1>1, <1>2, <1>3 DEF Whole
<1>5. prefix \in Seq(Segments)
    BY <1>2, <1>4, DomainAssumption DEF Providers
<1>6. Len(prefix) < Len(model) /\ strip_namespace(model, prefix) \in Seq(Segments)
    BY <1>1, <1>2, <1>5, StripType
<1> QED
    BY <1>1, <1>3, <1>4, <1>5, <1>6

\* One of any namespaces that claim a model is the longest, and the first of the longest.
LEMMA ClaimantExists ==
    ASSUME NEW snap \in Snapshots, Whole(snap), NEW model \in Models,
           NEW I \in SUBSET Claims(snap.providers, snap.order, model), I # {}
    PROVE  \E i \in I : \A j \in I :
              \/ Len(snap.providers[snap.order[j]].prefix)
                     < Len(snap.providers[snap.order[i]].prefix)
              \/ /\ Len(snap.providers[snap.order[j]].prefix)
                        = Len(snap.providers[snap.order[i]].prefix)
                 /\ i <= j
<1> DEFINE length == [i \in I |-> Len(snap.providers[snap.order[i]].prefix)]
<1>1. I \in SUBSET Nat /\ Len(model) \in Nat
    BY ClaimsType, DomainAssumption
<1>2. length \in [I -> Nat] /\ \A i \in I : length[i] <= Len(model)
    <2>1. ASSUME NEW i \in I
          PROVE  length[i] \in 0..Len(model)
        <3>1. Len(snap.providers[snap.order[i]].prefix) \in 0..Len(model)
            BY ClaimsType
        <3> QED
            BY <3>1
    <2> HIDE DEF length
    <2>2. \A i \in I : length[i] \in Nat /\ length[i] <= Len(model)
        BY <1>1, <2>1
    <2> QED
        BY <2>2 DEF length
<1>3. \E i \in I : \A j \in I : length[j] < length[i] \/ (length[j] = length[i] /\ i <= j)
    <2> HIDE DEF length
    <2> QED
        BY <1>1, <1>2, LongestFirst
<1> QED
    BY <1>3

\* So the claimant is one of them, and no claim is better.
LEMMA ClaimantType ==
    ASSUME NEW snap \in Snapshots, Whole(snap), NEW model \in Models,
           Claims(snap.providers, snap.order, model) # {}
    PROVE  LET claims == Claims(snap.providers, snap.order, model)
               i == Claimant(snap.providers, snap.order, model)
               length(k) == Len(snap.providers[snap.order[k]].prefix)
           IN /\ i \in claims
              /\ \A j \in claims : length(j) < length(i) \/ (length(j) = length(i) /\ i <= j)
BY ClaimantExists DEF Claimant

\* A model resolves to a chain of targets or to nothing; to a chain when it has a route or a claim.
LEMMA ResolveType ==
    ASSUME NEW snap \in Snapshots, Whole(snap), NEW model \in Models
    PROVE  /\ resolve(snap, model) \in Seq(Targets) \cup {Absent}
           /\ resolve(snap, model) = Absent <=>
                 /\ snap.routes[model] = Absent
                 /\ Claims(snap.providers, snap.order, model) = {}
<1> DEFINE i == Claimant(snap.providers, snap.order, model)
           claims == Claims(snap.providers, snap.order, model)
           name == snap.order[i]
           target == [provider |-> name,
                      model |-> strip_namespace(model, snap.providers[name].prefix)]
<1>1. CASE snap.routes[model] # Absent
    <2>1. snap.routes[model] \in Routes
        BY <1>1 DEF Snapshots
    <2>2. snap.routes[model].targets \in Seq(Targets)
        BY <2>1 DEF Routes
    <2> QED
        BY <1>1, <2>2, AbsentAssumption DEF resolve
<1>2. CASE snap.routes[model] = Absent /\ claims = {}
    BY <1>2 DEF resolve
<1>3. CASE snap.routes[model] = Absent /\ claims # {}
    <2>1. i \in claims
        BY <1>3, ClaimantType
    <2>2. target \in Targets
        BY <2>1, ClaimsType DEF Targets
    <2>3. <<target>> \in Seq(Targets)
        BY <2>2
    <2>4. resolve(snap, model) = <<target>>
        BY <1>3 DEF resolve
    <2> QED
        BY <1>3, <2>3, <2>4, AbsentAssumption
<1> QED
    BY <1>1, <1>2, <1>3

-----------------------------------------------------------------------------
(* Snapshots *)

\* A fresh limiter entry is one of the configured number of permits.
LEMMA FreshType ==
    ASSUME NEW cfg \in Providers \cup {Absent}, NEW swap \in Nat
    PROVE  /\ Fresh(cfg, swap) \in Entries \cup {Absent}
           /\ cfg = Absent \/ cfg.limits \notin Limits => Fresh(cfg, swap) = Absent
           /\ cfg # Absent /\ cfg.limits \in Limits =>
                 Fresh(cfg, swap) # Absent /\ Fresh(cfg, swap).limit = cfg.limits
BY DomainAssumption, SlotAssumption DEF Fresh, Entries, Providers

\* A snapshot prepared on a whole one is whole; what it does not change it keeps.
LEMMA PreparedWhole ==
    ASSUME NEW prev \in Snapshots, Whole(prev), NEW pull \in Pulls,
           NEW order \in Orders(MergedProviders(pull)), NEW swap \in Nat, NEW next,
           next = [providers |-> MergedProviders(pull), order |-> order,
                   routes |-> MergedRoutes(pull),
                   registry |-> Registry(prev, MergedProviders(pull), swap),
                   rate |-> Rate(prev, MergedProviders(pull), swap), swap |-> swap]
    PROVE  next \in Snapshots /\ Whole(next)
<1> DEFINE providers == MergedProviders(pull)
           registry == Registry(prev, providers, swap)
           rate == Rate(prev, providers, swap)
<1>1. /\ providers \in [Names -> Providers \cup {Absent}]
      /\ MergedRoutes(pull) \in [Models -> Routes \cup {Absent}]
    BY MergedType
<1>2. order \in Seq(Names)
    BY OrdersType
<1>3. ASSUME NEW name \in Names
      PROVE  /\ registry[name] \in Instances \cup {Absent}
             /\ registry[name] = Absent <=> providers[name] = Absent
             /\ registry[name] # Absent => registry[name].kind = providers[name].kind
    <2>0. prev.registry[name] \in Instances \cup {Absent}
        BY DEF Snapshots
    <2>1. CASE providers[name] = Absent
        BY <2>1 DEF Registry
    <2>2. CASE providers[name] # Absent /\ Reused(prev, providers[name])
        <3>1. providers[name] \in Providers /\ providers[name].name = name
            BY <1>1, <2>2, MergedNames
        <3>2. registry[name] = prev.registry[name]
            BY <2>2 DEF Registry
        <3>3. prev.providers[name] # Absent /\ prev.providers[name].kind = providers[name].kind
            BY <2>2, <3>1 DEF Reused
        <3> QED
            BY <2>0, <2>2, <3>2, <3>3 DEF Whole
    <2>3. CASE providers[name] # Absent /\ ~Reused(prev, providers[name])
        <3>1. registry[name] = [kind |-> providers[name].kind, built |-> swap]
            BY <2>3 DEF Registry
        <3>2. providers[name].kind \in Kinds
            BY <1>1, <2>3 DEF Providers
        <3>3. registry[name] \in Instances
            BY <3>1, <3>2 DEF Instances
        <3> QED
            BY <2>3, <3>1, <3>3, SlotAssumption
    <2> QED
        BY <2>1, <2>2, <2>3
<1>4. ASSUME NEW name \in Names
      PROVE  /\ rate[name] \in Entries \cup {Absent}
             /\ rate[name] = Absent <=> LimitsOf(providers, name) \notin Limits
             /\ rate[name] # Absent => rate[name].limit = LimitsOf(providers, name)
    <2>0. providers[name] \in Providers \cup {Absent} /\ prev.rate[name] \in Entries \cup {Absent}
        BY <1>1 DEF Snapshots
    <2>1. CASE Carried(prev, providers, name)
        <3>1. rate[name] = prev.rate[name]
            BY <2>1 DEF Rate
        <3>2. LimitsOf(providers, name) = LimitsOf(prev.providers, name)
            BY <2>1 DEF Carried, LimitsOf
        <3> QED
            BY <2>0, <3>1, <3>2 DEF Whole
    <2>2. CASE ~Carried(prev, providers, name)
        <3>1. rate[name] = Fresh(providers[name], swap)
            BY <2>2 DEF Rate
        <3> QED
            BY <2>0, <3>1, FreshType, AbsentAssumption DEF LimitsOf
    <2> QED
        BY <2>1, <2>2
<1>5. \A i \in DOMAIN order : providers[order[i]] # Absent
    <2> SUFFICES ASSUME NEW i \in DOMAIN order
                 PROVE  providers[order[i]] # Absent
        OBVIOUS
    <2> QED
        BY OrdersType
<1> HIDE DEF providers, registry, rate
<1>6. registry \in [Names -> Instances \cup {Absent}] /\ rate \in [Names -> Entries \cup {Absent}]
    BY <1>3, <1>4 DEF registry, rate, Registry, Rate
<1>7. next = [providers |-> providers, order |-> order, routes |-> MergedRoutes(pull),
              registry |-> registry, rate |-> rate, swap |-> swap]
    BY DEF providers, registry, rate
<1>8. next \in Snapshots
    BY <1>1, <1>2, <1>6, <1>7 DEF Snapshots
<1>9. Whole(next)
    BY <1>3, <1>4, <1>5, <1>7 DEF Whole
<1> QED
    BY <1>8, <1>9

\* The file base is a whole snapshot.
LEMMA BaseWhole == BaseTopology \in Snapshots /\ Whole(BaseTopology)
<1> DEFINE providers == BaseTopology.providers
<1>1. \A name \in Names : providers[name] = BaseProvider(name)
    BY DEF BaseTopology
<1>2. providers \in [Names -> Providers \cup {Absent}]
    BY BaseProviderType DEF BaseTopology
<1>3. BaseTopology.routes \in [Models -> Routes \cup {Absent}]
    BY BaseRouteType DEF BaseTopology
<1>4. ASSUME NEW name \in Names
      PROVE  /\ BaseTopology.registry[name] \in Instances \cup {Absent}
             /\ BaseTopology.registry[name] = Absent <=> providers[name] = Absent
             /\ BaseTopology.registry[name] # Absent =>
                   BaseTopology.registry[name].kind = providers[name].kind
    <2>1. providers[name] # Absent => providers[name].kind \in Kinds
        BY <1>2 DEF Providers
    <2>2. BaseTopology.registry[name] =
              IF providers[name] = Absent THEN Absent
              ELSE [kind |-> providers[name].kind, built |-> 0]
        BY DEF BaseTopology
    <2> QED
        BY <2>1, <2>2, SlotAssumption DEF Instances
<1>5. ASSUME NEW name \in Names
      PROVE  /\ BaseTopology.rate[name] \in Entries \cup {Absent}
             /\ BaseTopology.rate[name] = Absent <=> LimitsOf(providers, name) \notin Limits
             /\ BaseTopology.rate[name] # Absent =>
                   BaseTopology.rate[name].limit = LimitsOf(providers, name)
    <2>1. BaseTopology.rate[name] = Fresh(providers[name], 0)
        BY DEF BaseTopology
    <2>2. providers[name] \in Providers \cup {Absent}
        BY <1>2
    <2> QED
        BY <2>1, <2>2, FreshType, AbsentAssumption DEF LimitsOf
<1>6. BaseOrder \in Seq(Names) /\ \A i \in DOMAIN BaseOrder : providers[BaseOrder[i]] # Absent
    BY <1>1, BaseOrderType
<1>7. Whole(BaseTopology)
    <2>1. BaseTopology.order = BaseOrder
        BY DEF BaseTopology
    <2> HIDE DEF providers
    <2> QED
        BY <1>4, <1>5, <1>6, <2>1 DEF Whole, providers
<1>8. BaseTopology.registry \in [Names -> Instances \cup {Absent}]
    BY <1>4 DEF BaseTopology
<1>9. BaseTopology.rate \in [Names -> Entries \cup {Absent}]
    BY <1>5 DEF BaseTopology
<1> QED
    BY <1>2, <1>3, <1>6, <1>7, <1>8, <1>9 DEF BaseTopology, Snapshots

-----------------------------------------------------------------------------
(* Type correctness, and what the refresher and the requests hold *)

\* The snapshot that a pull prepares on another.
Successor(prev, pull, order) ==
    LET providers == MergedProviders(pull) IN
    [providers |-> providers, order |-> order, routes |-> MergedRoutes(pull),
     registry |-> Registry(prev, providers, prev.swap + 1),
     rate |-> Rate(prev, providers, prev.swap + 1), swap |-> prev.swap + 1]

\* The refresher, which alone replaces snapshots, is about to install the successor of the current
\* one, and has only removed and changed providers to clear.
Preparing ==
    refresher.pc = "clearing" =>
        /\ refresher.pull \in Pulls
        /\ \E order \in Orders(MergedProviders(refresher.pull)) :
              refresher.next = Successor(topology, refresher.pull, order)
        /\ refresher.clear \subseteq Cleared(topology, refresher.next.providers)

\* A request or listing holds the current snapshot or an earlier one.
Holding ==
    \A r \in Requests : calls[r] # NoCall =>
        /\ calls[r].snap \in Snapshots /\ Whole(calls[r].snap)
        /\ calls[r].snap.swap <= topology.swap
        /\ calls[r].snap.swap = topology.swap => calls[r].snap = topology

SnapshotInv == Whole(topology) /\ Preparing /\ Holding

\* A step of a request or of a listing concerns its own slot.
CallStep(r) == Serve(r) \/ List(r)

\* A slot in one of these stages is a request, and in one of those a listing.
LEMMA Stages ==
    ASSUME NEW c \in Calls \cup Listings \cup {NoCall}, c # NoCall
    PROVE  /\ c \in Calls <=> c.pc \in {"walk", "open", "stream"}
           /\ c \in Listings <=> c.pc \in {"list", "ask"}
BY DEF Calls, Listings

\* A request that walks, is open or streams goes on in another of these stages, on its snapshot.
LEMMA RequestMoves ==
    ASSUME calls \in [Requests -> Calls \cup Listings \cup {NoCall}], NEW r \in Requests,
           calls[r] # NoCall, calls[r].pc \in {"walk", "open", "stream"},
           \/ calls' = [calls EXCEPT ![r].at = @ + 1]
           \/ calls' = [calls EXCEPT ![r].at = 1]
           \/ calls' = [calls EXCEPT ![r].pc = "open"]
           \/ calls' = [calls EXCEPT ![r].pc = "stream"]
           \/ calls' = [calls EXCEPT ![r].pc = "walk", ![r].at = @ + 1]
    PROVE  /\ calls'[r] \in Calls /\ calls'[r].snap = calls[r].snap
           /\ \A q \in Requests \ {r} : calls'[q] = calls[q]
           /\ DOMAIN calls' = Requests /\ calls' = [q \in Requests |-> calls'[q]]
<1>1. calls[r] \in Calls
    BY Stages
<1> QED
    BY <1>1 DEF Calls

\* What a step of a request or a listing leaves in its slot, and elsewhere.
LEMMA CallStepFacts ==
    ASSUME TypeOK, SnapshotInv, NEW r \in Requests, CallStep(r)
    PROVE  /\ calls' \in [Requests -> Calls \cup Listings \cup {NoCall}]
           /\ \/ calls'[r] = NoCall
              \/ calls[r] = NoCall /\ calls'[r].snap = topology
              \/ calls[r] # NoCall /\ calls'[r].snap = calls[r].snap
           /\ \A q \in Requests \ {r} : calls'[q] = calls[q]
           /\ UNCHANGED <<topology, refresher, pulled, limited>>
           /\ health' \in [Names -> {"none", "down", "past"}]
<1>0. /\ calls \in [Requests -> Calls \cup Listings \cup {NoCall}]
      /\ health \in [Names -> {"none", "down", "past"}]
      /\ topology \in Snapshots /\ Whole(topology)
    BY DEF TypeOK, SnapshotInv
<1> DEFINE Goal ==
        /\ calls' \in [Requests -> Calls \cup Listings \cup {NoCall}]
        /\ \/ calls'[r] = NoCall
           \/ calls[r] = NoCall /\ calls'[r].snap = topology
           \/ calls[r] # NoCall /\ calls'[r].snap = calls[r].snap
        /\ \A q \in Requests \ {r} : calls'[q] = calls[q]
<1>a. ASSUME calls'[r] \in Calls, calls[r] # NoCall, calls'[r].snap = calls[r].snap,
             \A q \in Requests \ {r} : calls'[q] = calls[q],
             calls' = [q \in Requests |-> calls'[q]]
      PROVE  Goal
    BY <1>0, <1>a
<1>b. ASSUME calls' = [calls EXCEPT ![r] = NoCall]
      PROVE  Goal
    BY <1>0, <1>b
<1> HIDE DEF Goal
<1>1. ASSUME NEW model \in Models, Arrive(r, model)
      PROVE  Goal
    <2>1. resolve(topology, model) \in Seq(Targets)
        BY <1>0, <1>1, ResolveType DEF Arrive
    <2>2. [pc |-> "walk", snap |-> topology, chain |-> resolve(topology, model), at |-> 1] \in Calls
        BY <1>0, <2>1 DEF Calls
    <2> QED
        BY <1>0, <1>1, <2>2 DEF Arrive, Goal
<1>2. ASSUME SkipTarget(r) \/ WalkAgain(r) \/ Admit(r) \/ Fail(r) \/ Answer(r)
      PROVE  Goal
    <2>1. calls[r] # NoCall /\ calls[r].pc \in {"walk", "open"}
        BY <1>2 DEF SkipTarget, WalkAgain, Admit, Fail, Answer, Walking, Exhausted, At
    <2>2. \/ calls' = [calls EXCEPT ![r].at = @ + 1]
          \/ calls' = [calls EXCEPT ![r].at = 1]
          \/ calls' = [calls EXCEPT ![r].pc = "open"]
          \/ calls' = [calls EXCEPT ![r].pc = "stream"]
          \/ calls' = [calls EXCEPT ![r].pc = "walk", ![r].at = @ + 1]
        BY <1>2 DEF SkipTarget, WalkAgain, Admit, Fail, Answer
    <2>3. /\ calls'[r] \in Calls /\ calls'[r].snap = calls[r].snap
          /\ \A q \in Requests \ {r} : calls'[q] = calls[q]
          /\ calls' = [q \in Requests |-> calls'[q]]
        BY <1>0, <2>1, <2>2, RequestMoves
    <2> QED
        BY <1>a, <2>1, <2>3
<1>3. ASSUME Finish(r) \/ AnswerListing(r)
      PROVE  Goal
    <2>1. calls' = [calls EXCEPT ![r] = NoCall]
        BY <1>3 DEF Finish, AnswerListing
    <2> QED
        BY <1>b, <2>1
<1>4. ASSUME ListModels(r)
      PROVE  Goal
    <2>1. [pc |-> "list", snap |-> topology, ask |-> {}, routes |-> [model \in Models |-> Absent],
           catalogs |-> [name \in Names |-> Absent]] \in Listings
        <3>1. [model \in Models |-> Absent] \in [Models -> Seq(Targets) \cup {Absent}]
            OBVIOUS
        <3>2. [name \in Names |-> Absent] \in [Names -> (SUBSET Seq(Segments)) \cup {Absent}]
            OBVIOUS
        <3> QED
            BY <1>0, <3>1, <3>2 DEF Listings
    <2> QED
        BY <1>0, <1>4, <2>1 DEF ListModels, Goal
<1>5. ASSUME ListRoutes(r)
      PROVE  Goal
    <2> DEFINE routes == [model \in Models |->
                              IF calls[r].snap.routes[model] = Absent THEN Absent
                              ELSE resolve(topology, model)]
    <2>1. calls[r] \in Listings /\ calls[r] # NoCall
        BY <1>0, <1>5, Stages DEF ListRoutes, At
    <2>2. routes \in [Models -> Seq(Targets) \cup {Absent}]
        BY <1>0, ResolveType
    <2>3. Involved(calls[r].snap, routes) \subseteq Names
        <3> SUFFICES ASSUME NEW model \in Models, routes[model] # Absent, routes[model] # <<>>
                     PROVE  routes[model][1].provider \in Names
            BY DEF Involved
        <3> HIDE DEF routes
        <3>1. routes[model] \in Seq(Targets)
            BY <2>2
        <3>2. routes[model][1] \in Targets
            BY <3>1
        <3> QED
            BY <3>2 DEF Targets
    <2>4. calls' = [calls EXCEPT ![r].pc = "ask", ![r].routes = routes,
                                 ![r].ask = Involved(calls[r].snap, routes)]
        BY <1>5 DEF ListRoutes
    <2> HIDE DEF routes
    <2>5. calls'[r] \in Listings /\ calls'[r].snap = calls[r].snap
        BY <1>0, <2>1, <2>2, <2>3, <2>4 DEF Listings
    <2>6. \A q \in Requests \ {r} : calls'[q] = calls[q]
        BY <1>0, <2>4
    <2>7. calls' \in [Requests -> Calls \cup Listings \cup {NoCall}]
        BY <1>0, <2>4, <2>5
    <2> QED
        BY <2>1, <2>5, <2>6, <2>7 DEF Goal
<1>6. ASSUME NEW name \in Names, AskCatalog(r, name)
      PROVE  Goal
    <2>1. calls[r] \in Listings /\ calls[r] # NoCall
        BY <1>0, <1>6, Stages DEF AskCatalog, At
    <2>2. PICK answer : /\ answer # Absent => /\ topology.registry[name] # Absent
                                              /\ answer = Catalog[topology.providers[name].endpoint]
                        /\ calls' = [calls EXCEPT ![r].ask = @ \ {name},
                                                  ![r].catalogs[name] = answer]
        BY <1>6 DEF AskCatalog
    <2>3. answer \in (SUBSET Seq(Segments)) \cup {Absent}
        <3>1. CASE answer # Absent
            <4>1. topology.providers[name] \in Providers
                BY <1>0, <2>2, <3>1 DEF Whole, Snapshots
            <4>2. topology.providers[name].endpoint \in Endpoints
                BY <4>1 DEF Providers
            <4>3. \A e \in Endpoints : Catalog[e] \in SUBSET Seq(Segments)
                BY CatalogAssumption
            <4> QED
                BY <2>2, <3>1, <4>2, <4>3
        <3> QED
            BY <3>1
    <2>4. /\ calls'[r].ask = calls[r].ask \ {name} /\ calls'[r].snap = calls[r].snap
          /\ calls'[r].pc = calls[r].pc /\ calls'[r].routes = calls[r].routes
          /\ calls'[r].catalogs = [calls[r].catalogs EXCEPT ![name] = answer]
        BY <1>0, <2>1, <2>2 DEF Listings
    <2>5. calls'[r] \in Listings
        BY <1>0, <2>1, <2>2, <2>3 DEF Listings
    <2> QED
        BY <1>0, <2>1, <2>2, <2>4, <2>5 DEF Goal
<1>7. Goal
    BY <1>1, <1>2, <1>3, <1>4, <1>5, <1>6 DEF CallStep, Serve, List
<1>8. UNCHANGED <<topology, refresher, pulled, limited>>
    BY DEF CallStep, Serve, List, Arrive, SkipTarget, WalkAgain, Admit, Fail, Answer, Finish,
           ListModels, ListRoutes, AnswerListing, AskCatalog
<1>9. health' \in [Names -> {"none", "down", "past"}]
    BY <1>0 DEF CallStep, Serve, List, Arrive, SkipTarget, WalkAgain, Admit, Fail, Answer, Finish,
           ListModels, ListRoutes, AnswerListing, AskCatalog
<1> QED
    BY <1>7, <1>8, <1>9 DEF Goal

\* Initially the file base is installed and nobody holds a snapshot.
LEMMA SnapshotInit == Init => TypeOK /\ SnapshotInv
<1> SUFFICES ASSUME Init
             PROVE  TypeOK /\ SnapshotInv
    OBVIOUS
<1>1. BaseTopology \in Snapshots /\ Whole(BaseTopology)
    BY BaseWhole
<1>2. TypeOK
    BY <1>1 DEF Init, TypeOK
<1>3. SnapshotInv
    BY <1>1 DEF Init, SnapshotInv, Preparing, Holding
<1> QED
    BY <1>2, <1>3

\* What a pull makes the refresher prepare.
LEMMA PullFacts ==
    ASSUME TypeOK, SnapshotInv, NEW pull \in Pulls, Pull(pull)
    PROVE  /\ refresher'.pc = "clearing" /\ refresher'.pull = pull
           /\ \E order \in Orders(MergedProviders(pull)) :
                 refresher'.next = Successor(topology, pull, order)
           /\ refresher'.next \in Snapshots /\ Whole(refresher'.next)
           /\ refresher'.clear = Cleared(topology, refresher'.next.providers)
           /\ refresher' \in [pc : {"idle", "clearing"}, next : Snapshots, clear : SUBSET Names,
                              pull : Pulls \cup {Absent}]
           /\ UNCHANGED <<topology, health, calls, pulled, limited>>
<1>1. PICK order \in Orders(MergedProviders(pull)) :
          refresher' = [pc |-> "clearing", clear |-> Cleared(topology, MergedProviders(pull)),
                        pull |-> pull, next |-> Successor(topology, pull, order)]
    BY DEF Pull, Successor
<1>2. topology \in Snapshots /\ Whole(topology) /\ topology.swap + 1 \in Nat
    BY DEF TypeOK, SnapshotInv, Snapshots
<1>3. Successor(topology, pull, order) \in Snapshots /\ Whole(Successor(topology, pull, order))
    BY <1>2, PreparedWhole DEF Successor
<1>4. Successor(topology, pull, order).providers = MergedProviders(pull)
    BY DEF Successor
<1>5. Cleared(topology, MergedProviders(pull)) \in SUBSET Names
    BY DEF Cleared
<1> QED
    BY <1>1, <1>3, <1>4, <1>5 DEF Pull

\* What a swap installs.
LEMMA SwapFacts ==
    ASSUME TypeOK, SnapshotInv, Swap
    PROVE  /\ refresher.pull \in Pulls
           /\ \E order \in Orders(MergedProviders(refresher.pull)) :
                 topology' = Successor(topology, refresher.pull, order)
           /\ topology' \in Snapshots /\ Whole(topology')
           /\ topology' = refresher.next /\ topology'.swap = topology.swap + 1
           /\ refresher' \in [pc : {"idle", "clearing"}, next : Snapshots, clear : SUBSET Names,
                              pull : Pulls \cup {Absent}]
           /\ refresher'.pc = "idle" /\ pulled' = refresher.pull
           /\ \A name \in Names :
                 limited'[name] =
                     IF LimitsOf(topology.providers, name) = LimitsOf(topology'.providers, name)
                     THEN limited[name] ELSE topology'.swap
           /\ limited' \in [Names -> Nat]
           /\ UNCHANGED <<health, calls>>
<1>1. /\ refresher.pull \in Pulls /\ topology' = refresher.next
      /\ refresher.next \in Snapshots
    BY DEF TypeOK, SnapshotInv, Preparing, Swap
<1>2. PICK order \in Orders(MergedProviders(refresher.pull)) :
          refresher.next = Successor(topology, refresher.pull, order)
    BY DEF SnapshotInv, Preparing, Swap
<1>3. topology \in Snapshots /\ Whole(topology) /\ topology.swap \in Nat
    BY DEF TypeOK, SnapshotInv, Snapshots
<1>4. Whole(Successor(topology, refresher.pull, order))
    BY <1>1, <1>3, PreparedWhole DEF Successor
<1>5. refresher.next.swap = topology.swap + 1
    BY <1>2 DEF Successor
<1>6. /\ refresher' \in [pc : {"idle", "clearing"}, next : Snapshots, clear : SUBSET Names,
                         pull : Pulls \cup {Absent}]
      /\ refresher'.pc = "idle"
    BY BaseWhole DEF Swap, TypeOK
<1>7. limited' \in [Names -> Nat]
    BY <1>3, <1>5 DEF Swap, TypeOK
<1> QED
    BY <1>1, <1>2, <1>4, <1>5, <1>6, <1>7 DEF Swap

\* What is held stays held when the current snapshot does.
LEMMA HoldingStays ==
    ASSUME TypeOK, SnapshotInv, NEW r \in Requests, CallStep(r)
    PROVE  Holding'
<1> SUFFICES ASSUME NEW q \in Requests, calls'[q] # NoCall
             PROVE  /\ calls'[q].snap \in Snapshots /\ Whole(calls'[q].snap)
                    /\ calls'[q].snap.swap <= topology'.swap
                    /\ calls'[q].snap.swap = topology'.swap => calls'[q].snap = topology'
    BY DEF Holding, Whole, LimitsOf
<1>1. topology' = topology /\ topology \in Snapshots /\ Whole(topology) /\ topology.swap \in Nat
    BY CallStepFacts DEF TypeOK, SnapshotInv, Snapshots
<1>2. calls'[q].snap = topology \/ (calls[q] # NoCall /\ calls'[q].snap = calls[q].snap)
    BY CallStepFacts
<1> QED
    BY <1>1, <1>2 DEF SnapshotInv, Holding

\* The inductive step of both.
LEMMA SnapshotStep == TypeOK /\ SnapshotInv /\ [Next]_vars => TypeOK' /\ SnapshotInv'
<1> SUFFICES ASSUME TypeOK, SnapshotInv, [Next]_vars
             PROVE  TypeOK' /\ SnapshotInv'
    OBVIOUS
<1>0. topology \in Snapshots /\ Whole(topology) /\ topology.swap \in Nat
    BY DEF TypeOK, SnapshotInv, Snapshots
<1>a. ASSUME topology' = topology
      PROVE  Whole(topology)'
    BY <1>0, <1>a
<1>1. ASSUME NEW pull \in Pulls, Pull(pull)
      PROVE  TypeOK' /\ SnapshotInv'
    <2>1. TypeOK'
        BY <1>1, PullFacts DEF TypeOK
    <2>2. Preparing'
        BY <1>1, PullFacts DEF Preparing, Cleared, Orders
    <2>3. Holding'
        BY <1>1, PullFacts DEF SnapshotInv, Holding, Whole, LimitsOf
    <2> QED
        BY <1>1, <1>a, <2>1, <2>2, <2>3, PullFacts DEF SnapshotInv
<1>2. ASSUME NEW name \in Names, ClearHealth(name)
      PROVE  TypeOK' /\ SnapshotInv'
    <2>1. /\ refresher'.pc = refresher.pc /\ refresher'.next = refresher.next
          /\ refresher'.pull = refresher.pull /\ refresher'.clear \subseteq refresher.clear
          /\ refresher' \in [pc : {"idle", "clearing"}, next : Snapshots, clear : SUBSET Names,
                             pull : Pulls \cup {Absent}]
          /\ UNCHANGED <<topology, calls, pulled, limited>>
          /\ health' \in [Names -> {"none", "down", "past"}]
        BY <1>2 DEF ClearHealth, TypeOK
    <2>2. TypeOK'
        BY <2>1 DEF TypeOK
    <2>3. Preparing'
        BY <2>1 DEF SnapshotInv, Preparing
    <2>4. Holding'
        BY <2>1 DEF SnapshotInv, Holding
    <2> QED
        BY <1>a, <2>1, <2>2, <2>3, <2>4 DEF SnapshotInv
<1>3. CASE Swap
    <2>1. TypeOK'
        BY <1>3, SwapFacts DEF TypeOK
    <2>2. Preparing'
        BY <1>3, SwapFacts DEF Preparing
    <2>3. ASSUME NEW q \in Requests, calls'[q] # NoCall
          PROVE  /\ calls'[q].snap \in Snapshots /\ Whole(calls'[q].snap)
                 /\ calls'[q].snap.swap <= topology'.swap
                 /\ calls'[q].snap.swap = topology'.swap => calls'[q].snap = topology'
        <3>1. calls'[q] = calls[q] /\ topology'.swap = topology.swap + 1
            BY <1>3, SwapFacts
        <3>2. /\ calls[q].snap \in Snapshots /\ Whole(calls[q].snap)
              /\ calls[q].snap.swap <= topology.swap
            BY <2>3, <3>1 DEF SnapshotInv, Holding
        <3>3. calls[q].snap.swap \in Nat
            BY <3>2 DEF Snapshots
        <3> QED
            BY <1>0, <3>1, <3>2, <3>3
    <2>4. Holding'
        BY <2>3 DEF Holding, Whole, LimitsOf
    <2>5. Whole(topology)'
        BY <1>3, SwapFacts DEF Whole, LimitsOf
    <2> QED
        BY <2>1, <2>2, <2>4, <2>5 DEF SnapshotInv
<1>4. ASSUME NEW r \in Requests, CallStep(r)
      PROVE  TypeOK' /\ SnapshotInv'
    <2>1. TypeOK'
        BY <1>4, CallStepFacts DEF TypeOK
    <2>2. Preparing'
        BY <1>4, CallStepFacts DEF SnapshotInv, Preparing
    <2> QED
        BY <1>4, <1>a, <2>1, <2>2, CallStepFacts, HoldingStays DEF SnapshotInv
<1>5. ASSUME NEW name \in Names, Expire(name)
      PROVE  TypeOK' /\ SnapshotInv'
    BY <1>5 DEF Expire, TypeOK, SnapshotInv, Preparing, Holding
<1>6. CASE UNCHANGED vars
    BY <1>6 DEF vars, TypeOK, SnapshotInv, Preparing, Holding
<1> QED
    BY <1>1, <1>2, <1>3, <1>4, <1>5, <1>6 DEF Next, Refresh, CallStep

\* Every state of the topology is well typed.
THEOREM TypeCorrect == Spec => []TypeOK
BY SnapshotInit, SnapshotStep, PTL DEF Spec

\* Every snapshot that is installed, prepared or held is whole, and the only later snapshot is the
\* one in preparation.
THEOREM SnapshotsAreWhole == Spec => []SnapshotInv
BY SnapshotInit, SnapshotStep, PTL DEF Spec

-----------------------------------------------------------------------------
(* What a swap leaves alone *)

\* A successor keeps the limiter entry of a provider whose limits stay, and the instance too of one
\* that stays as it is.
LEMMA SuccessorKeeps ==
    ASSUME NEW prev \in Snapshots, Whole(prev), NEW pull \in Pulls,
           NEW order \in Orders(MergedProviders(pull)), NEW next,
           next = Successor(prev, pull, order), NEW name \in Names
    PROVE  /\ LimitsOf(next.providers, name) = LimitsOf(prev.providers, name) =>
                 next.rate[name] = prev.rate[name]
           /\ next.providers[name] = prev.providers[name] =>
                 next.registry[name] = prev.registry[name]
<1>0. prev.swap + 1 \in Nat
    BY DEF Snapshots
<1>1. next \in Snapshots /\ Whole(next)
    BY <1>0, PreparedWhole DEF Successor
<1>2. /\ next.providers = MergedProviders(pull)
      /\ next.registry = Registry(prev, next.providers, prev.swap + 1)
      /\ next.rate = Rate(prev, next.providers, prev.swap + 1)
    BY DEF Successor
<1>3. ASSUME LimitsOf(next.providers, name) = LimitsOf(prev.providers, name)
      PROVE  next.rate[name] = prev.rate[name]
    <2>1. CASE LimitsOf(prev.providers, name) \notin Limits
        BY <1>1, <1>3, <2>1 DEF Whole
    <2>2. CASE LimitsOf(prev.providers, name) \in Limits
        <3>1. prev.providers[name] # Absent /\ next.providers[name] # Absent
            BY <1>3, <2>2, AbsentAssumption DEF LimitsOf
        <3>2. Carried(prev, next.providers, name)
            BY <1>3, <3>1 DEF Carried, LimitsOf
        <3> QED
            BY <1>2, <3>2 DEF Rate
    <2> QED
        BY <2>1, <2>2
<1>4. ASSUME next.providers[name] = prev.providers[name]
      PROVE  next.registry[name] = prev.registry[name]
    <2>1. CASE prev.providers[name] = Absent
        BY <1>1, <1>4, <2>1 DEF Whole
    <2>2. CASE prev.providers[name] # Absent
        <3>1. Reused(prev, next.providers[name])
            BY <1>2, <1>4, <2>2, MergedNames DEF Reused
        <3> QED
            BY <1>2, <1>4, <2>2, <3>1 DEF Registry
    <2> QED
        BY <2>1, <2>2
<1> QED
    BY <1>3, <1>4

\* "untouched providers keep their live instances, rate buckets, and cooldowns"
\* (engine.rs install_topology): whatever is pulled, a swap keeps the instance and the limiter entry
\* of every provider that stays as it is, and the refresher clears no other cooldown than that of a
\* provider it removes or changes.
THEOREM UntouchedIsKept == Spec => UntouchedKept
<1> DEFINE Kept ==
        /\ \A name \in Names : topology'.providers[name] = topology.providers[name] =>
              /\ topology'.registry[name] = topology.registry[name]
              /\ topology'.rate[name] = topology.rate[name]
        /\ refresher' # refresher => \A name \in Names : health'[name] # health[name] =>
              refresher.next.providers[name] # topology.providers[name]
<1>1. TypeOK /\ SnapshotInv /\ [Next]_vars => [Kept]_vars
    <2> SUFFICES ASSUME TypeOK, SnapshotInv, Next
                 PROVE  Kept
        OBVIOUS
    <2>1. ASSUME NEW pull \in Pulls, Pull(pull)
          PROVE  Kept
        BY <2>1 DEF Pull
    <2>2. ASSUME NEW name \in Names, ClearHealth(name)
          PROVE  Kept
        <3>1. refresher.next.providers[name] # topology.providers[name]
            BY <2>2 DEF ClearHealth, SnapshotInv, Preparing, Cleared
        <3>2. topology' = topology /\ \A other \in Names \ {name} : health'[other] = health[other]
            BY <2>2 DEF ClearHealth, TypeOK
        <3> QED
            BY <3>1, <3>2
    <2>3. CASE Swap
        <3>1. PICK order \in Orders(MergedProviders(refresher.pull)) :
                  topology' = Successor(topology, refresher.pull, order)
            BY <2>3, SwapFacts
        <3>2. /\ topology \in Snapshots /\ Whole(topology)
              /\ refresher.pull \in Pulls /\ health' = health
            BY <2>3, SwapFacts DEF TypeOK, SnapshotInv
        <3>3. ASSUME NEW name \in Names, topology'.providers[name] = topology.providers[name]
              PROVE  /\ topology'.registry[name] = topology.registry[name]
                     /\ topology'.rate[name] = topology.rate[name]
            BY <3>1, <3>2, <3>3, SuccessorKeeps DEF LimitsOf
        <3> QED
            BY <3>2, <3>3
    <2>4. ASSUME NEW r \in Requests, CallStep(r)
          PROVE  Kept
        BY <2>4, CallStepFacts
    <2>5. ASSUME NEW name \in Names, Expire(name)
          PROVE  Kept
        BY <2>5 DEF Expire
    <2> QED
        BY <2>1, <2>2, <2>3, <2>4, <2>5 DEF Next, Refresh, CallStep
<1> QED
    BY <1>1, SnapshotInit, SnapshotStep, PTL DEF Spec, UntouchedKept

-----------------------------------------------------------------------------
(* The limits of a provider across swaps *)

\* Whoever arrived since the limits of a provider last changed draws on its present entry.
Sharing ==
    \A name \in Names :
        /\ limited[name] <= topology.swap
        /\ \A r \in Requests : calls[r] # NoCall /\ calls[r].snap.swap >= limited[name] =>
              calls[r].snap.rate[name] = topology.rate[name]

\* No limiter entry, live or forgotten, has more permits out than it was made with.
Permits ==
    \A name \in Names, entry \in Entries :
        /\ IsFiniteSet(Holders(name, entry))
        /\ Cardinality(Holders(name, entry)) <= entry.limit

\* Entries stay shared.
LEMMA SharingStep == TypeOK /\ SnapshotInv /\ Sharing /\ [Next]_vars => Sharing'
<1> SUFFICES ASSUME TypeOK, SnapshotInv, Sharing, [Next]_vars
             PROVE  Sharing'
    OBVIOUS
<1>0. /\ topology \in Snapshots /\ Whole(topology) /\ topology.swap \in Nat
      /\ limited \in [Names -> Nat]
    BY DEF TypeOK, SnapshotInv, Snapshots
<1>1. ASSUME UNCHANGED <<topology, calls, limited>>
      PROVE  Sharing'
    BY <1>1 DEF Sharing
<1>2. CASE Swap
    <2>1. PICK order \in Orders(MergedProviders(refresher.pull)) :
              topology' = Successor(topology, refresher.pull, order)
        BY <1>2, SwapFacts
    <2>2. SUFFICES ASSUME NEW name \in Names
                   PROVE  /\ limited'[name] <= topology'.swap
                          /\ \A r \in Requests :
                                calls'[r] # NoCall /\ calls'[r].snap.swap >= limited'[name] =>
                                    calls'[r].snap.rate[name] = topology'.rate[name]
        BY DEF Sharing
    <2>3. calls' = calls /\ topology'.swap = topology.swap + 1 /\ refresher.pull \in Pulls
        BY <1>2, SwapFacts
    <2>4. CASE LimitsOf(topology.providers, name) = LimitsOf(topology'.providers, name)
        <3>1. limited'[name] = limited[name]
            BY <1>2, <2>4, SwapFacts
        <3>2. topology'.rate[name] = topology.rate[name]
            BY <1>0, <2>1, <2>3, <2>4, SuccessorKeeps
        <3> QED
            BY <1>0, <2>3, <3>1, <3>2 DEF Sharing
    <2>5. CASE LimitsOf(topology.providers, name) # LimitsOf(topology'.providers, name)
        <3>1. limited'[name] = topology'.swap
            BY <1>2, <2>5, SwapFacts
        <3>2. ASSUME NEW r \in Requests, calls[r] # NoCall
              PROVE  ~(calls[r].snap.swap >= topology'.swap)
            <4>1. calls[r].snap.swap \in Nat /\ calls[r].snap.swap <= topology.swap
                BY <3>2 DEF SnapshotInv, Holding, Snapshots
            <4> QED
                BY <1>0, <2>3, <4>1
        <3> QED
            BY <1>0, <2>3, <3>1, <3>2
    <2> QED
        BY <2>4, <2>5
<1>3. ASSUME NEW r \in Requests, CallStep(r)
      PROVE  Sharing'
    <2>1. /\ UNCHANGED <<topology, limited>>
          /\ \A q \in Requests : calls'[q] # NoCall =>
                \/ calls'[q].snap = topology
                \/ calls[q] # NoCall /\ calls'[q].snap = calls[q].snap
        BY <1>3, CallStepFacts
    <2> QED
        BY <2>1 DEF Sharing
<1> QED
    BY <1>1, <1>2, <1>3 DEF Next, Refresh, Pull, ClearHealth, Expire, vars, CallStep

\* Permits go out one by one, each under the guard of its entry.
LEMMA PermitsStep == TypeOK /\ Permits /\ [Next]_vars => Permits'
<1> SUFFICES ASSUME TypeOK, Permits, [Next]_vars,
                    NEW name \in Names, NEW entry \in Entries
             PROVE  /\ IsFiniteSet(Holders(name, entry)')
                    /\ Cardinality(Holders(name, entry)') <= entry.limit
    BY DEF Permits
<1>0. /\ IsFiniteSet(Holders(name, entry)) /\ Cardinality(Holders(name, entry)) \in Nat
      /\ Cardinality(Holders(name, entry)) <= entry.limit /\ entry.limit \in Nat
      /\ calls \in [Requests -> Calls \cup Listings \cup {NoCall}]
    BY FS_CardinalityType, DomainAssumption DEF Permits, TypeOK, Entries
<1>a. ASSUME Holders(name, entry)' \subseteq Holders(name, entry)
      PROVE  /\ IsFiniteSet(Holders(name, entry)')
             /\ Cardinality(Holders(name, entry)') <= entry.limit
    <2> DEFINE H == Holders(name, entry)
               G == Holders(name, entry)'
    <2>1. IsFiniteSet(H) /\ G \in SUBSET H
        BY <1>0, <1>a
    <2> HIDE DEF H, G
    <2>2. IsFiniteSet(G) /\ Cardinality(G) <= Cardinality(H)
        BY <2>1, FS_Subset
    <2>3. Cardinality(G) \in Nat
        BY <2>2, FS_CardinalityType
    <2> QED
        BY <1>0, <2>2, <2>3 DEF H, G
<1>1. ASSUME UNCHANGED calls
      PROVE  Holders(name, entry)' \subseteq Holders(name, entry)
    BY <1>1 DEF Holders, Open, Provider
<1>2. ASSUME NEW r \in Requests, \A q \in Requests \ {r} : calls'[q] = calls[q],
             \/ ~Open(calls'[r])
             \/ /\ Open(calls[r]) /\ calls'[r].chain = calls[r].chain
                /\ calls'[r].at = calls[r].at /\ calls'[r].snap = calls[r].snap
      PROVE  Holders(name, entry)' \subseteq Holders(name, entry)
    BY <1>2 DEF Holders, Provider
<1>3. ASSUME NEW r \in Requests,
             \/ \E model \in Models : Arrive(r, model)
             \/ SkipTarget(r) \/ WalkAgain(r) \/ Fail(r) \/ Answer(r) \/ Finish(r) \/ List(r)
      PROVE  Holders(name, entry)' \subseteq Holders(name, entry)
    <2>1. calls'[r] = NoCall \/ calls'[r].pc \in {"walk", "list", "ask"} => ~Open(calls'[r])
        BY DEF Open
    <2>2. ASSUME NEW model \in Models, Arrive(r, model)
          PROVE  calls'[r].pc = "walk" /\ \A q \in Requests \ {r} : calls'[q] = calls[q]
        BY <1>0, <2>2 DEF Arrive
    <2>3. ASSUME SkipTarget(r) \/ WalkAgain(r) \/ Fail(r)
          PROVE  calls'[r].pc = "walk" /\ \A q \in Requests \ {r} : calls'[q] = calls[q]
        <3>1. calls[r] \in Calls
            BY <1>0, <2>3, Stages DEF SkipTarget, WalkAgain, Fail, Walking, Exhausted, At
        <3> QED
            BY <1>0, <2>3, <3>1 DEF SkipTarget, WalkAgain, Fail, Walking, Exhausted, At, Calls
    <2>4. ASSUME Answer(r)
          PROVE  /\ Open(calls[r]) /\ calls'[r].chain = calls[r].chain
                 /\ calls'[r].at = calls[r].at /\ calls'[r].snap = calls[r].snap
                 /\ \A q \in Requests \ {r} : calls'[q] = calls[q]
        <3>1. calls[r] \in Calls
            BY <1>0, <2>4, Stages DEF Answer, At
        <3> QED
            BY <1>0, <2>4, <3>1 DEF Answer, At, Calls, Open
    <2>5. ASSUME Finish(r) \/ AnswerListing(r)
          PROVE  calls'[r] = NoCall /\ \A q \in Requests \ {r} : calls'[q] = calls[q]
        BY <1>0, <2>5 DEF Finish, AnswerListing
    <2>6. ASSUME ListModels(r)
          PROVE  calls'[r].pc = "list" /\ \A q \in Requests \ {r} : calls'[q] = calls[q]
        BY <1>0, <2>6 DEF ListModels
    <2>7. ASSUME ListRoutes(r) \/ \E n \in Names : AskCatalog(r, n)
          PROVE  calls'[r].pc = "ask" /\ \A q \in Requests \ {r} : calls'[q] = calls[q]
        <3>1. calls[r] \in Listings
            BY <1>0, <2>7, Stages DEF ListRoutes, AskCatalog, At
        <3>2. ASSUME ListRoutes(r)
              PROVE  calls'[r].pc = "ask" /\ \A q \in Requests \ {r} : calls'[q] = calls[q]
            BY <1>0, <3>1, <3>2 DEF ListRoutes, Listings
        <3>3. ASSUME NEW n \in Names, AskCatalog(r, n)
              PROVE  calls'[r].pc = "ask" /\ \A q \in Requests \ {r} : calls'[q] = calls[q]
            <4>1. PICK answer :
                      calls' = [calls EXCEPT ![r].ask = @ \ {n}, ![r].catalogs[n] = answer]
                BY <3>3 DEF AskCatalog
            <4> QED
                BY <1>0, <3>1, <3>3, <4>1 DEF AskCatalog, At, Listings
        <3> QED
            BY <2>7, <3>2, <3>3
    <2> QED
        BY <1>2, <1>3, <2>1, <2>2, <2>3, <2>4, <2>5, <2>6, <2>7 DEF List
<1>4. ASSUME NEW r \in Requests, Admit(r)
      PROVE  /\ IsFiniteSet(Holders(name, entry)')
             /\ Cardinality(Holders(name, entry)') <= entry.limit
    <2>1. calls[r] \in Calls /\ calls[r] # NoCall /\ calls[r].pc = "walk"
        BY <1>0, <1>4, Stages DEF Admit, Walking, At
    <2>2. /\ calls'[r].pc = "open" /\ calls'[r].chain = calls[r].chain
          /\ calls'[r].at = calls[r].at /\ calls'[r].snap = calls[r].snap
          /\ \A q \in Requests \ {r} : calls'[q] = calls[q]
        BY <1>0, <1>4, <2>1 DEF Admit, Calls
    <2>3. CASE Provider(calls[r]) = name /\ calls[r].snap.rate[name] = entry
        <3>1. entry # Absent
            BY SlotAssumption
        <3>2. Cardinality(Holders(name, entry)) < entry.limit
            BY <1>4, <2>3, <3>1 DEF Admit
        <3>3. Holders(name, entry)' \subseteq Holders(name, entry) \cup {r}
            BY <2>2 DEF Holders, Provider
        <3> DEFINE H == Holders(name, entry)
                   G == Holders(name, entry)'
        <3>4. IsFiniteSet(H) /\ Cardinality(H) \in Nat /\ Cardinality(H) < entry.limit
              /\ G \in SUBSET (H \cup {r})
            BY <1>0, <3>2, <3>3
        <3> HIDE DEF H, G
        <3>5. IsFiniteSet(H \cup {r}) /\ Cardinality(H \cup {r}) <= Cardinality(H) + 1
              /\ Cardinality(H \cup {r}) \in Nat
            <4>1. /\ IsFiniteSet(H \cup {r})
                  /\ Cardinality(H \cup {r}) =
                        IF r \in H THEN Cardinality(H) ELSE Cardinality(H) + 1
                BY <3>4, FS_AddElement
            <4> QED
                BY <3>4, <4>1
        <3>6. IsFiniteSet(G) /\ Cardinality(G) <= Cardinality(H \cup {r}) /\ Cardinality(G) \in Nat
            BY <3>4, <3>5, FS_Subset, FS_CardinalityType
        <3> QED
            BY <1>0, <3>4, <3>5, <3>6 DEF H, G
    <2>4. CASE ~(Provider(calls[r]) = name /\ calls[r].snap.rate[name] = entry)
        <3>1. Holders(name, entry)' \subseteq Holders(name, entry)
            BY <2>2, <2>4 DEF Holders, Provider
        <3> QED
            BY <1>a, <3>1
    <2> QED
        BY <2>3, <2>4
<1>5. \/ UNCHANGED calls
      \/ \E r \in Requests : Admit(r)
      \/ \E r \in Requests : \/ \E model \in Models : Arrive(r, model)
                             \/ SkipTarget(r) \/ WalkAgain(r) \/ Fail(r) \/ Answer(r) \/ Finish(r)
                             \/ List(r)
    BY DEF Next, Refresh, Pull, ClearHealth, Swap, Serve, Expire, vars
<1> QED
    BY <1>a, <1>1, <1>3, <1>4, <1>5

\* The streams open on a provider under its present limits are no more than the configured number,
\* whatever snapshots they hold and however many swaps left the limits alone
\* (engine.rs install_topology, ratelimit.rs reconciled).
THEOREM LimitsHoldAcrossSwaps == Spec => []LimitHolds
<1>1. Init => Sharing /\ Permits
    <2> SUFFICES ASSUME Init
                 PROVE  Sharing /\ Permits
        OBVIOUS
    <2>1. Sharing
        BY DEF Init, Sharing, BaseTopology
    <2>2. \A name \in Names, entry \in Entries : Holders(name, entry) = {}
        BY DEF Init, Holders, Open
    <2>3. \A entry \in Entries : entry.limit \in Nat
        BY DomainAssumption DEF Entries
    <2> QED
        BY <2>1, <2>2, <2>3, FS_EmptySet DEF Permits
<1>2. TypeOK /\ SnapshotInv /\ Sharing /\ Permits => LimitHolds
    <2> SUFFICES ASSUME TypeOK, SnapshotInv, Sharing, Permits, NEW name \in Names
                 PROVE  LET since == {r \in Requests : /\ calls[r] # NoCall
                                                       /\ calls[r].snap.swap >= limited[name]}
                            limit == LimitsOf(topology.providers, name)
                        IN /\ \A r \in since : calls[r].snap.rate[name] = topology.rate[name]
                           /\ limit \in Limits =>
                                 /\ topology.rate[name] # Absent
                                 /\ topology.rate[name].limit = limit
                                 /\ Cardinality({r \in since : Open(calls[r])
                                                     /\ Provider(calls[r]) = name}) <= limit
        BY DEF LimitHolds
    <2> DEFINE since == {r \in Requests : calls[r] # NoCall /\ calls[r].snap.swap >= limited[name]}
               limit == LimitsOf(topology.providers, name)
               open == {r \in since : Open(calls[r]) /\ Provider(calls[r]) = name}
               entry == topology.rate[name]
    <2>1. \A r \in since : calls[r].snap.rate[name] = entry
        BY DEF Sharing
    <2>2. ASSUME limit \in Limits
          PROVE  entry # Absent /\ entry.limit = limit /\ Cardinality(open) <= limit
        <3>1. entry # Absent /\ entry.limit = limit
            BY <2>2 DEF SnapshotInv, Whole
        <3>2. entry \in Entries
            BY <3>1 DEF TypeOK, Snapshots
        <3>3. IsFiniteSet(Holders(name, entry)) /\ Cardinality(Holders(name, entry)) <= limit
            BY <3>1, <3>2 DEF Permits
        <3>4. open \subseteq Holders(name, entry)
            BY <2>1 DEF Holders
        <3> HIDE DEF open, entry, limit
        <3>5. /\ Cardinality(open) <= Cardinality(Holders(name, entry)) /\ IsFiniteSet(open)
              /\ Cardinality(Holders(name, entry)) \in Nat
            BY <3>3, <3>4, FS_Subset, FS_CardinalityType
        <3>6. Cardinality(open) \in Nat /\ limit \in Nat
            BY <2>2, <3>5, FS_CardinalityType, DomainAssumption
        <3> QED
            BY <3>1, <3>3, <3>5, <3>6
    <2> QED
        BY <2>1, <2>2
<1> QED
    BY <1>1, <1>2, SnapshotInit, SnapshotStep, SharingStep, PermitsStep, PTL DEF Spec

-----------------------------------------------------------------------------
(* The live snapshot implements the layer *)

\* What can be told of a whole snapshot is told by its providers and routes.
LEMMA WholeVisible ==
    ASSUME NEW snap \in Snapshots, Whole(snap)
    PROVE  Visible(snap) = Layer!ViewOf(snap.providers, snap.routes)
<1>1. ASSUME NEW name \in Names
      PROVE  /\ (IF snap.registry[name] = Absent THEN Absent ELSE snap.registry[name].kind)
                    = IF snap.providers[name] = Absent THEN Absent ELSE snap.providers[name].kind
             /\ (IF snap.rate[name] = Absent THEN Absent ELSE snap.rate[name].limit)
                    = IF snap.providers[name] = Absent \/ snap.providers[name].limits = Unlimited
                      THEN Absent ELSE snap.providers[name].limits
    <2>1. snap.providers[name] \in Providers \cup {Absent}
        BY DEF Snapshots
    <2> QED
        BY <2>1, AbsentAssumption, DomainAssumption DEF Whole, LimitsOf, Providers
<1> QED
    BY <1>1 DEF Visible, Layer!ViewOf

\* What can be told of the successor of a snapshot is told by the pull alone.
LEMMA SuccessorVisible ==
    ASSUME NEW prev \in Snapshots, Whole(prev), NEW pull \in Pulls,
           NEW order \in Orders(MergedProviders(pull))
    PROVE  Visible(Successor(prev, pull, order))
               = Layer!ViewOf(Layer!MergedProviders(pull), Layer!MergedRoutes(pull))
<1> DEFINE next == Successor(prev, pull, order)
<1>0. prev.swap + 1 \in Nat
    BY DEF Snapshots
<1>1. next \in Snapshots /\ Whole(next)
    BY <1>0, PreparedWhole DEF Successor
<1>2. next.providers = Layer!MergedProviders(pull) /\ next.routes = Layer!MergedRoutes(pull)
    BY DEF Successor, MergedProviders, MergedRoutes, Layer!MergedProviders, Layer!MergedRoutes,
           PulledProvider, PulledRoute, Layer!PulledProvider, Layer!PulledRoute,
           BaseProvider, BaseRoute, Layer!BaseProvider, Layer!BaseRoute,
           base_names, base_models, Layer!base_names, Layer!base_models, First, Layer!First
<1> HIDE DEF next
<1> QED
    BY <1>1, <1>2, WholeVisible DEF next

\* The topology implements its layer: whatever was installed before, a request can tell no more of
\* the current snapshot than the file base and the last pull say.
THEOREM TopologyImplementsLayer == Spec => ImplementsLayer
<1>1. Init => Layer!Init
    <2> SUFFICES ASSUME Init
                 PROVE  Visible(topology) =
                            Layer!ViewOf([name \in Names |-> Layer!BaseProvider(name)],
                                         [model \in Models |-> Layer!BaseRoute(model)])
        BY DEF Layer!Init
    <2>1. topology = BaseTopology
        BY DEF Init
    <2>2. /\ BaseTopology.providers = [name \in Names |-> Layer!BaseProvider(name)]
          /\ BaseTopology.routes = [model \in Models |-> Layer!BaseRoute(model)]
        BY DEF BaseTopology, BaseProvider, BaseRoute, Layer!BaseProvider, Layer!BaseRoute,
               First, Layer!First
    <2> QED
        BY <2>1, <2>2, BaseWhole, WholeVisible
<1>2. TypeOK /\ SnapshotInv /\ [Next]_vars => [Layer!Next]_(Visible(topology))
    <2> SUFFICES ASSUME TypeOK, SnapshotInv, [Next]_vars
                 PROVE  Layer!Next \/ Visible(topology)' = Visible(topology)
        OBVIOUS
    <2>1. ASSUME Swap, Visible(topology)' # Visible(topology)
          PROVE  Layer!Next
        <3>1. PICK order \in Orders(MergedProviders(refresher.pull)) :
                  topology' = Successor(topology, refresher.pull, order)
            BY <2>1, SwapFacts
        <3>2. topology \in Snapshots /\ Whole(topology) /\ refresher.pull \in Pulls
            BY <2>1, SwapFacts DEF TypeOK, SnapshotInv
        <3>3. Visible(topology') =
                  Layer!ViewOf(Layer!MergedProviders(refresher.pull),
                               Layer!MergedRoutes(refresher.pull))
            BY <3>1, <3>2, SuccessorVisible
        <3>4. Visible(topology)' = Visible(topology')
            BY DEF Visible
        <3>5. Layer!Install(refresher.pull)
            BY <3>3, <3>4 DEF Layer!Install
        <3> QED
            BY <2>1, <3>2, <3>5 DEF Layer!Next
    <2>2. ASSUME topology' = topology
          PROVE  Visible(topology)' = Visible(topology)
        BY <2>2 DEF Visible
    <2>3. Swap \/ topology' = topology
        <3>1. ASSUME NEW r \in Requests, CallStep(r)
              PROVE  topology' = topology
            BY <3>1, CallStepFacts
        <3> QED
            BY <3>1 DEF Next, Refresh, Pull, ClearHealth, Expire, vars, CallStep
    <2> QED
        BY <2>1, <2>2, <2>3
<1> QED
    BY <1>1, <1>2, SnapshotInit, SnapshotStep, PTL DEF Spec, ImplementsLayer, Layer!Spec

-----------------------------------------------------------------------------
(* A listing agrees with what is served *)

\* The routes of a listing that asks for catalogs: those of the snapshot it began with, and while
\* that is current they lead where it resolves them.
Agreeing ==
    \A r \in Requests : At(r, "ask") => \A id \in Models :
        /\ calls[r].routes[id] # Absent => calls[r].snap.routes[id] # Absent
        /\ calls[r].snap.routes[id] # Absent /\ topology.swap = calls[r].snap.swap =>
              calls[r].routes[id] = resolve(calls[r].snap, id)

\* Listings keep agreeing: only the swap makes a snapshot current, and it is a later one.
LEMMA AgreeingStep == TypeOK /\ SnapshotInv /\ Agreeing /\ [Next]_vars => Agreeing'
<1> SUFFICES ASSUME TypeOK, SnapshotInv, Agreeing, [Next]_vars,
                    NEW q \in Requests, calls'[q] # NoCall, calls'[q].pc = "ask", NEW id \in Models
             PROVE  /\ calls'[q].routes[id] # Absent => calls'[q].snap.routes[id] # Absent
                    /\ calls'[q].snap.routes[id] # Absent /\ topology'.swap = calls'[q].snap.swap =>
                          calls'[q].routes[id] = resolve(calls'[q].snap, id)
    BY DEF Agreeing, At, resolve, Claims, Claimant
<1>0. calls \in [Requests -> Calls \cup Listings \cup {NoCall}] /\ topology.swap \in Nat
    BY DEF TypeOK, Snapshots
<1>1. ASSUME UNCHANGED <<calls, topology>>
      PROVE  /\ calls'[q].routes[id] # Absent => calls'[q].snap.routes[id] # Absent
             /\ calls'[q].snap.routes[id] # Absent /\ topology'.swap = calls'[q].snap.swap =>
                   calls'[q].routes[id] = resolve(calls'[q].snap, id)
    BY <1>1 DEF Agreeing, At
<1>2. CASE Swap
    <2>1. calls' = calls /\ topology'.swap = topology.swap + 1
        BY <1>2, SwapFacts
    <2>2. calls[q].snap.swap <= topology.swap /\ calls[q].snap.swap \in Nat
        BY <2>1 DEF SnapshotInv, Holding, Snapshots
    <2> QED
        BY <1>0, <2>1, <2>2 DEF Agreeing, At
<1>3. ASSUME NEW r \in Requests, CallStep(r)
      PROVE  /\ calls'[q].routes[id] # Absent => calls'[q].snap.routes[id] # Absent
             /\ calls'[q].snap.routes[id] # Absent /\ topology'.swap = calls'[q].snap.swap =>
                   calls'[q].routes[id] = resolve(calls'[q].snap, id)
    <2>1. topology' = topology /\ \A o \in Requests \ {r} : calls'[o] = calls[o]
        BY <1>3, CallStepFacts
    <2>2. CASE q # r
        BY <2>1, <2>2 DEF Agreeing, At
    <2>3. CASE q = r /\ ListRoutes(r)
        <3>1. calls[r] \in Listings /\ calls[r] # NoCall
            BY <1>0, <2>3, Stages DEF ListRoutes, At
        <3>2. /\ calls'[r].snap = calls[r].snap
              /\ calls'[r].routes[id] = IF calls[r].snap.routes[id] = Absent THEN Absent
                                        ELSE resolve(topology, id)
            BY <1>0, <2>3, <3>1 DEF ListRoutes, Listings
        <3>3. calls[r].snap.swap = topology.swap => calls[r].snap = topology
            BY <3>1 DEF SnapshotInv, Holding
        <3> QED
            BY <2>1, <2>3, <3>2, <3>3
    <2>4. ASSUME q = r, NEW name \in Names, AskCatalog(r, name)
          PROVE  /\ At(r, "ask") /\ calls'[r].snap = calls[r].snap
                 /\ calls'[r].routes = calls[r].routes
        <3>1. calls[r] \in Listings /\ calls[r] # NoCall
            BY <1>0, <2>4, Stages DEF AskCatalog, At
        <3>2. PICK answer :
                  calls' = [calls EXCEPT ![r].ask = @ \ {name}, ![r].catalogs[name] = answer]
            BY <2>4 DEF AskCatalog
        <3> QED
            BY <1>0, <2>4, <3>1, <3>2 DEF Listings, AskCatalog
    <2>5. CASE q = r /\ Serve(r)
        <3>1. ASSUME NEW model \in Models, Arrive(r, model)
              PROVE  FALSE
            BY <1>0, <2>5, <3>1 DEF Arrive
        <3>2. ASSUME Finish(r)
              PROVE  FALSE
            BY <1>0, <2>5, <3>2 DEF Finish
        <3>3. ASSUME SkipTarget(r) \/ WalkAgain(r) \/ Admit(r) \/ Fail(r) \/ Answer(r)
              PROVE  FALSE
            <4>1. calls[r] # NoCall /\ calls[r].pc \in {"walk", "open"}
                BY <3>3 DEF SkipTarget, WalkAgain, Admit, Fail, Answer, Walking, Exhausted, At
            <4>2. \/ calls' = [calls EXCEPT ![r].at = @ + 1]
                  \/ calls' = [calls EXCEPT ![r].at = 1]
                  \/ calls' = [calls EXCEPT ![r].pc = "open"]
                  \/ calls' = [calls EXCEPT ![r].pc = "stream"]
                  \/ calls' = [calls EXCEPT ![r].pc = "walk", ![r].at = @ + 1]
                BY <3>3 DEF SkipTarget, WalkAgain, Admit, Fail, Answer
            <4>3. calls'[r] \in Calls
                BY <1>0, <4>1, <4>2, RequestMoves
            <4> QED
                BY <2>5, <4>3 DEF Calls
        <3> QED
            BY <2>5, <3>1, <3>2, <3>3 DEF Serve
    <2>6. CASE q = r /\ (ListModels(r) \/ AnswerListing(r))
        BY <1>0, <2>6 DEF ListModels, AnswerListing
    <2> QED
        BY <1>3, <2>1, <2>2, <2>3, <2>4, <2>5, <2>6 DEF CallStep, List, Agreeing
<1> QED
    BY <1>1, <1>2, <1>3 DEF Next, Refresh, Pull, ClearHealth, Expire, vars, CallStep

\* "routes and prefixes agree even if a pulled topology swap lands mid-request" (server.rs
\* list_models): whatever is listed was served when the listing began, a route that has lasted is
\* listed where it leads, and a namespaced model where a request for it would have been sent.
THEOREM ListingsAgree == Spec => []ListedAsServed
<1>1. Init => Agreeing
    BY DEF Init, Agreeing, At
<1>2. TypeOK /\ SnapshotInv /\ Agreeing => ListedAsServed
    <2> SUFFICES ASSUME TypeOK, SnapshotInv, Agreeing, NEW r \in Requests, Listed(r),
                        NEW id \in Models
                 PROVE  LET listing == calls[r]
                            snap == listing.snap
                            owned == /\ Claims(snap.providers, snap.order, id) # {}
                                     /\ Claimant(snap.providers, snap.order, id)
                                            \in Offers(listing, id)
                        IN /\ Entry(listing, id) # Absent => resolve(snap, id) # Absent
                           /\ snap.routes[id] = Absent /\ owned =>
                                 Entry(listing, id) = resolve(snap, id)
                           /\ snap.routes[id] # Absent /\ topology.swap = snap.swap =>
                                 Entry(listing, id) = resolve(snap, id)
        BY DEF ListedAsServed
    <2> DEFINE listing == calls[r]
               snap == listing.snap
               claims == Claims(snap.providers, snap.order, id)
               offers == Offers(listing, id)
               best == Claimant(snap.providers, snap.order, id)
               first == FirstOffer(listing, id)
    <2>1. snap \in Snapshots /\ Whole(snap)
        BY DEF Listed, At, SnapshotInv, Holding
    <2>2. /\ listing.routes[id] # Absent => snap.routes[id] # Absent
          /\ snap.routes[id] # Absent /\ topology.swap = snap.swap =>
                listing.routes[id] = resolve(snap, id)
        BY DEF Listed, Agreeing
    <2>3. offers \subseteq claims
        BY DEF Offers
    <2>4. /\ resolve(snap, id) = Absent <=> snap.routes[id] = Absent /\ claims = {}
        BY <2>1, ResolveType
    <2>5. Entry(listing, id) # Absent => resolve(snap, id) # Absent
        BY <2>2, <2>3, <2>4 DEF Entry
    <2>6. ASSUME snap.routes[id] = Absent, claims # {}, best \in offers
          PROVE  Entry(listing, id) = resolve(snap, id)
        <3> DEFINE length(k) == Len(snap.providers[snap.order[k]].prefix)
                   Best(S, i) ==
                       /\ i \in S
                       /\ \A j \in S : length(j) < length(i) \/ (length(j) = length(i) /\ i <= j)
        <3>1. Best(claims, best)
            <4>1. PICK s \in Snapshots : s = snap /\ Whole(s)
                BY <2>1
            <4>2. Claims(s.providers, s.order, id) # {}
                BY <2>6, <4>1
            <4>3. LET best_of == Claimant(s.providers, s.order, id)
                      len(k) == Len(s.providers[s.order[k]].prefix)
                  IN /\ best_of \in Claims(s.providers, s.order, id)
                     /\ \A j \in Claims(s.providers, s.order, id) :
                            len(j) < len(best_of) \/ (len(j) = len(best_of) /\ best_of <= j)
                BY <4>1, <4>2, ClaimantType
            <4> QED
                BY <4>1, <4>3
        <3>2. Best(offers, best)
            BY <2>3, <2>6, <3>1
        <3>3. Best(offers, first)
            <4>1. \E i \in offers : Best(offers, i)
                BY <2>6, <3>2
            <4>2. first = CHOOSE i \in offers : \A j \in offers :
                              length(j) < length(i) \/ (length(j) = length(i) /\ i <= j)
                BY DEF FirstOffer
            <4> HIDE DEF offers, first, length
            <4> QED
                BY <4>1, <4>2
        <3>4. first = best
            <4>1. ASSUME NEW i \in offers
                  PROVE  i \in Nat /\ length(i) \in Nat
                <5>1. i \in claims
                    BY <2>3
                <5>2. length(i) \in 0..Len(id) /\ i \in Nat
                    BY <2>1, <5>1, ClaimsType
                <5> QED
                    BY <5>2
            <4>2. first \in offers /\ best \in offers
                BY <2>6, <3>3
            <4>3. /\ first \in Nat /\ length(first) \in Nat
                  /\ best \in Nat /\ length(best) \in Nat
                BY <4>1, <4>2
            <4>4. /\ length(best) < length(first) \/ (length(best) = length(first) /\ first <= best)
                  /\ length(first) < length(best) \/ (length(first) = length(best) /\ best <= first)
                BY <3>2, <3>3, <4>2
            <4> HIDE DEF length, first, best
            <4> QED
                BY <4>3, <4>4
        <3>5. listing.routes[id] = Absent
            BY <2>2, <2>6
        <3> QED
            BY <2>6, <3>4, <3>5 DEF Entry, resolve
    <2>7. ASSUME snap.routes[id] # Absent, topology.swap = snap.swap
          PROVE  Entry(listing, id) = resolve(snap, id)
        BY <2>2, <2>4, <2>7 DEF Entry
    <2> QED
        BY <2>5, <2>6, <2>7
<1> QED
    BY <1>1, <1>2, SnapshotInit, SnapshotStep, AgreeingStep, PTL DEF Spec
=============================================================================
