---------------------------- MODULE MCBatchJobs ----------------------------
(***************************************************************************)
(* Two signing nodes and one without a secret; two keys, one of which may  *)
(* use one model only; two providers.                                      *)
(***************************************************************************)
EXTENDS BatchJobs, TLC

CONSTANTS signer1, signer2, plain, alice, bob, x, y, z, p, q, secret

MCSecret == signer1 :> secret @@ signer2 :> secret @@ plain :> None
MCMayUse == alice :> {x, y} @@ bob :> {x}

To(provider, model) == <<[provider |-> provider, model |-> model]>>

\* The models at two providers, or both at one that knows y as z.
Apart == [registry |-> {p, q}, routes |-> x :> To(p, None) @@ y :> To(q, None)]
Together == [registry |-> {q}, routes |-> x :> To(q, None) @@ y :> To(q, z)]
MCTopologies == {Apart, Together}

Line(id, model) == [custom_id |-> id, model |-> model]
Signers == Permutations({signer1, signer2})
MCSpecs == {<<Line(1, x)>>, <<Line(1, x), Line(2, y)>>}
=============================================================================
