----------------------------- MODULE MCTopology -----------------------------
(* Small control planes for Topology: a file provider, and pulls that add,  *)
(* change, re-kind, repeat, shadow and drop two others.                     *)
EXTENDS Topology, TLC

CONSTANTS base, a, b, chat, dialect, foreign, oai, gpt, mini, e1, e2, r1, r2

P(name, kind, prefix, limits, endpoint) ==
    [name |-> name, kind |-> kind, prefix |-> prefix, limits |-> limits, endpoint |-> endpoint]
To(name, model) == [provider |-> name, model |-> model]
Route(model, targets) == [model |-> model, targets |-> targets]

MCModels == {<<gpt>>, <<oai, gpt>>, <<oai, mini, gpt>>, <<oai, Blank>>}
MCPrefixes == {<<oai>>, <<oai, mini>>}

MCBaseProviders == <<P(base, chat, <<oai>>, 1, e1)>>
MCBaseRoutes == <<Route(<<gpt>>, <<To(base, <<gpt>>), To(a, <<gpt>>)>>)>>

Layer1 == [providers |-> <<P(a, foreign, NoPrefix, 1, e1), P(a, chat, NoPrefix, 1, e1)>>,
           routes |-> <<>>]
\* a moves to another endpoint with the same limits; b nests its namespace in the base's.
Layer2 == [providers |-> <<P(a, chat, NoPrefix, 1, e2), P(b, chat, <<oai, mini>>, Unlimited, e2),
                           P(base, dialect, <<oai>>, 1, e2)>>,
           routes |-> <<Route(<<gpt>>, <<To(b, <<mini>>)>>)>>]
\* b without a, in another dialect under other limits, twice; it shares the base's namespace,
\* and a route takes over a model in it.
Layer3 == [providers |-> <<P(b, dialect, <<oai>>, 2, e2), P(b, chat, NoPrefix, 1, e1)>>,
           routes |-> <<Route(<<oai, mini, gpt>>, <<To(b, <<gpt>>)>>),
                        Route(<<oai, mini, gpt>>, <<To(a, <<gpt>>)>>)>>]

MCPulls == {Layer1, Layer2, Layer3}
\* A model of the base's upstream lies in the namespace of b.
MCCatalog == [e \in {e1, e2} |-> IF e = e1 THEN {<<gpt>>, <<mini, gpt>>} ELSE {<<gpt>>}]

MCTargetModels == {<<gpt>>, <<oai, gpt>>, <<oai, mini, gpt>>}

Slots == Permutations({r1, r2})
=============================================================================
