--------------------------- MODULE MCOAuthVerifier ---------------------------
(* Two tokens of two keys, one with a kid and a wide role, one without.    *)
EXTENDS OAuthVerifier, TLC

CONSTANTS t1, t2, k1, k2, m1, m2, staff, guest

MCSignedBy == (t1 :> k1) @@ (t2 :> k2)
MCHeader == (t1 :> k1) @@ (t2 :> NoKid)
MCRolesOf == (t1 :> {staff, guest}) @@ (t2 :> {guest})
MCRoleModels == (staff :> {m1}) @@ (guest :> {m2})
MCExpiry == (t1 :> 0) @@ (t2 :> 2)
MCPair == {{k2}, {k1, k2}}
RequestSymmetry == Permutations(Requests)
=============================================================================
