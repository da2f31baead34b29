----------------------------- MODULE MCKeyStore -----------------------------
(* Small control planes for KeyStore: rosters that re-salt, rotate, drop,   *)
(* re-add and rename two keys, and overlays that block, suspend and narrow. *)
EXTENDS KeyStore, TLC

CONSTANTS alice, bob, bad, m1, m2, p1, p2, h1, h1b, h2, hb, ta, taNew, tb, junk,
          r1, r2

MCVerifies == {<<p1, h1>>, <<p1, h1b>>, <<p2, h2>>, <<p1, hb>>}

MCCredential == [t \in Tokens |->
    CASE t = ta -> [id |-> alice, password |-> p1]
      [] t = taNew -> [id |-> alice, password |-> p2]
      [] t = tb -> [id |-> bob, password |-> p1]
      [] t = junk -> Malformed]

Alice(hash, name, list) ==
    [id |-> alice, pw_hash |-> hash, name |-> name, allowed_models |-> list]
Bob(name, list) == [id |-> bob, pw_hash |-> hb, name |-> name, allowed_models |-> list]
Bad == [id |-> bad, pw_hash |-> h1, name |-> NoName, allowed_models |-> NoList]

MCSeed == <<Alice(h1, NoName, {{m1}}), Bob(NoName, {{m1}})>>

\* Alice is re-salted; refused, as bob claims her display id first; claimed twice, under bob's
\* name and rotated under her own, beside him and an id with control bytes.
MCRosters == {
    <<Alice(h1b, NoName, {{m1}})>>,
    <<Bob(alice, NoList), Alice(h1, NoName, {{m1}})>>,
    <<Alice(h1, bob, {{m1}}), Alice(h2, NoName, {{}}), Bob(NoName, NoList), Bad>>}

Blocked == [default_verdict EXCEPT !.blocked = TRUE]
Narrowed(list) == [default_verdict EXCEPT !.suspended_until = 1, !.allowed_models = list]

MCOverlays == {[id \in {alice, bob, bad} |-> IF id = bob THEN Blocked ELSE Narrowed({{m2}})]}

Slots == Permutations({r1, r2})
=============================================================================
