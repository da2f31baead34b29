---------------------------- MODULE OAuthVerifier ----------------------------
(***************************************************************************)
(* The OAuth2 resource server (llmleaf-core/src/oauth.rs): access tokens   *)
(* are proven against a swappable key set, confirmed by introspection when *)
(* that is configured, and cached; requests do so at the same time while   *)
(* keys rotate, tokens are revoked and the clock runs.                     *)
(***************************************************************************)
EXTENDS Integers, FiniteSets

CONSTANTS
    Requests,       \* request slots
    Tokens,         \* access tokens the issuer has minted
    Kids,           \* key ids, one signing key each
    NoKid,          \* a token header or a JWK without kid
    Models,         \* logical models
    NoModel,        \* the identity-only check asks for no model
    Roles,          \* roles of the identity provider
    SignedBy,       \* the signing key of each token
    Header,         \* the kid its header carries: that key, or NoKid
    RolesOf,        \* the roles it carries
    Expiry,         \* its exp
    RoleModels,     \* [oauth].role_models, "*" being Models
    Inline,         \* kids of the inline JWKS
    Rosters,        \* key sets the issuer may publish
    Introspection,  \* whether [oauth].introspection is configured: the cases considered
    Ttl,            \* its cache_ttl_secs
    Leeway,         \* clock leeway of the JWT library
    MaxVerified,    \* entries the cache holds
    EvictBatch,     \* entries evicted when it is full
    MaxTime,        \* bound: the clock
    NoEntry,        \* a token that is not cached
    Never           \* a token that has not been revoked

VARIABLES
    clock,          \* seconds
    jwks,           \* the installed key set
    verified,       \* the cache of proven tokens
    revoked,        \* when the identity provider revoked each token
    req,            \* one request per slot
    introspected    \* whether this verifier was built with introspection

vars == <<clock, jwks, verified, revoked, req, introspected>>

Times == 0..MaxTime
Entries == [allowed : SUBSET Models, exp : Nat, ok_until : Nat]
Steps == {"lookup", "verify", "asked", "active", "inactive",
          "admitted", "unknown", "not_allowed", "unverified"}
Calls == [pc : Steps, token : Tokens, model : Models \cup {NoModel}, now : Times]

ASSUME OAuthAssumption ==
    /\ SignedBy \in [Tokens -> Kids \cup {NoKid}]
    /\ \A t \in Tokens : Header[t] \in {SignedBy[t], NoKid}
    /\ RolesOf \in [Tokens -> SUBSET Roles]
    /\ RoleModels \in [Roles -> SUBSET Models]
    /\ Expiry \in [Tokens -> Nat]
    /\ Inline \in SUBSET (Kids \cup {NoKid}) /\ Rosters \subseteq SUBSET (Kids \cup {NoKid})
    /\ {Ttl, Leeway} \subseteq Nat
    /\ Introspection \subseteq BOOLEAN
    /\ EvictBatch \in Nat \ {0} /\ MaxVerified \in Nat /\ EvictBatch <= MaxVerified
    /\ MaxTime \in Nat

ASSUME NoEntryAssumption == NoEntry \notin Entries \cup Calls

TypeOK ==
    /\ clock \in Times
    /\ jwks \in SUBSET (Kids \cup {NoKid})
    /\ verified \in [Tokens -> Entries \cup {NoEntry}]
    /\ revoked \in [Tokens -> Times \cup {Never}]
    /\ req \in [Requests -> Calls \cup {NoEntry}]
    /\ introspected \in Introspection

Init ==
    /\ clock = 0
    /\ jwks = Inline
    /\ verified = [t \in Tokens |-> NoEntry]
    /\ revoked = [t \in Tokens |-> Never]
    /\ req = [r \in Requests |-> NoEntry]
    /\ introspected \in Introspection

-----------------------------------------------------------------------------
(* What the verifier reads off a token.                                    *)

\* The union of the model sets of every role the token carries.
AllowedModels(t) == UNION {RoleModels[role] : role \in RolesOf[t]}

Permits(allowed, model) == model = NoModel \/ model \in allowed

\* The key that checks token t under a key set: its kid, or else the only key there is.
KeyFor(t, keys) ==
    IF Header[t] \in keys THEN {Header[t]}
    ELSE IF Cardinality(keys) = 1 THEN keys ELSE {}

\* decode(): the signature matches and exp has not passed, with the library's leeway.
Decodes(t, keys) ==
    /\ KeyFor(t, keys) = {SignedBy[t]}
    /\ clock <= Expiry[t] + Leeway

\* The warm path trusts the entry.
Fresh(entry, now) ==
    /\ now < entry.exp
    /\ ~introspected \/ now < entry.ok_until

\* Mutant: the trust window starts when the answer is processed.
OkUntilLate(now) == IF introspected THEN clock + Ttl ELSE 0
\* An active answer is trusted from the time the request came in.
OkUntil(now) == IF introspected THEN now + Ttl ELSE 0

Cached == {t \in Tokens : verified[t] # NoEntry}

\* Mutant: the cache is only full once it is over its limit.
VictimsLate ==
    IF Cardinality(Cached) <= MaxVerified THEN {{}}
    ELSE {v \in SUBSET Cached : Cardinality(v) = EvictBatch}
\* The sets of entries an insertion may evict, in whatever order the map yields them.
Victims ==
    IF Cardinality(Cached) < MaxVerified THEN {{}}
    ELSE {v \in SUBSET Cached : Cardinality(v) = EvictBatch}

-----------------------------------------------------------------------------
(* A request: authorize_inner, up to its locks and its await.              *)

Goto(r, pc) == req' = [req EXCEPT ![r].pc = pc]

Verdict(r, allowed) ==
    Goto(r, IF Permits(allowed, req[r].model) THEN "admitted" ELSE "not_allowed")

\* The caller reads the clock before it calls authorize or authorize_identity.
Present(r, t, model) ==
    /\ req[r] = NoEntry
    /\ req' = [req EXCEPT ![r] = [pc |-> "lookup", token |-> t, model |-> model, now |-> clock]]
    /\ UNCHANGED <<clock, jwks, verified, revoked>>

\* Mutant: a cached token is good for every model.
LookupAnyModel(r) ==
    /\ req[r] # NoEntry /\ req[r].pc = "lookup"
    /\ LET entry == verified[req[r].token]
       IN IF entry # NoEntry /\ Fresh(entry, req[r].now) THEN Goto(r, "admitted")
          ELSE Goto(r, "verify")
    /\ UNCHANGED <<clock, jwks, verified, revoked>>
Lookup(r) ==
    /\ req[r] # NoEntry /\ req[r].pc = "lookup"
    /\ LET entry == verified[req[r].token]
       IN IF entry # NoEntry /\ Fresh(entry, req[r].now) THEN Verdict(r, entry.allowed)
          ELSE Goto(r, "verify")
    /\ UNCHANGED <<clock, jwks, verified, revoked>>

Insert(r) ==
    LET t == req[r].token
    IN \E victims \in Victims :
           verified' = [u \in Tokens |->
               CASE u = t -> [allowed |-> AllowedModels(t), exp |-> Expiry[t],
                              ok_until |-> OkUntil(req[r].now)]
                 [] u # t /\ u \in victims -> NoEntry
                 [] OTHER -> verified[u]]

\* The cold path against the key set of the moment.
Verify(r) ==
    /\ req[r] # NoEntry /\ req[r].pc = "verify"
    /\ LET t == req[r].token
       IN \/ /\ ~Decodes(t, jwks)
             /\ Goto(r, "unverified")
             /\ UNCHANGED verified
          \/ /\ Decodes(t, jwks) /\ introspected
             /\ Goto(r, "asked")
             /\ UNCHANGED verified
          \/ /\ Decodes(t, jwks) /\ ~introspected
             /\ Insert(r)
             /\ Verdict(r, AllowedModels(t))
    /\ UNCHANGED <<clock, jwks, revoked>>

\* The identity provider handles the introspection request.
Introspect(r) ==
    /\ req[r] # NoEntry /\ req[r].pc = "asked"
    /\ Goto(r, IF revoked[req[r].token] = Never THEN "active" ELSE "inactive")
    /\ UNCHANGED <<clock, jwks, verified, revoked>>

\* Its answer is back.
Answer(r) ==
    /\ req[r] # NoEntry
    /\ \/ /\ req[r].pc = "active"
          /\ Insert(r)
          /\ Verdict(r, AllowedModels(req[r].token))
       \/ /\ req[r].pc = "inactive"
          /\ Goto(r, "unknown")
          /\ UNCHANGED verified
    /\ UNCHANGED <<clock, jwks, revoked>>

\* Introspection times out, fails, or was never wired: the request is refused.
IntrospectionFails(r) ==
    /\ req[r] # NoEntry /\ req[r].pc \in {"asked", "active", "inactive"}
    /\ Goto(r, "unknown")
    /\ UNCHANGED <<clock, jwks, verified, revoked>>

Leave(r) ==
    /\ req[r] # NoEntry
    /\ req[r].pc \in {"admitted", "unknown", "not_allowed", "unverified"}
    /\ req' = [req EXCEPT ![r] = NoEntry]
    /\ UNCHANGED <<clock, jwks, verified, revoked>>

-----------------------------------------------------------------------------
\* A pull replaces the key set as a whole; one that fails leaves it alone.
InstallJwks(keys) ==
    /\ jwks' = keys
    /\ UNCHANGED <<clock, verified, revoked, req>>

Revoke(t) ==
    /\ revoked[t] = Never
    /\ revoked' = [revoked EXCEPT ![t] = clock]
    /\ UNCHANGED <<clock, jwks, verified, req>>

Tick ==
    /\ clock < MaxTime
    /\ clock' = clock + 1
    /\ UNCHANGED <<jwks, verified, revoked, req>>

Next ==
    /\ \/ \E r \in Requests :
              \/ \E t \in Tokens, model \in Models \cup {NoModel} : Present(r, t, model)
              \/ Lookup(r) \/ Verify(r) \/ Introspect(r) \/ Answer(r)
              \/ IntrospectionFails(r) \/ Leave(r)
       \/ \E keys \in Rosters : InstallJwks(keys)
       \/ \E t \in Tokens : Revoke(t)
       \/ Tick
    /\ UNCHANGED introspected

Spec == Init /\ [][Next]_vars

-----------------------------------------------------------------------------
(* Properties.                                                             *)

Admitted(r) == req[r] # NoEntry /\ req[r].pc = "admitted"

\* With introspection, a revoked token opens nothing to a request that comes in cache_ttl_secs
\* after the revocation, however long introspections of other requests took to return.
TrustWindow ==
    \A r \in Requests : Admitted(r) /\ introspected =>
        LET at == revoked[req[r].token]
        IN at # Never => req[r].now <= at \/ req[r].now < at + Ttl

\* A token opens what its roles grant, whether the answer is cached or not, and nothing to a request
\* that comes in when it has expired beyond the library's leeway.
Granted ==
    \A r \in Requests : Admitted(r) =>
        /\ Permits(AllowedModels(req[r].token), req[r].model)
        /\ req[r].now <= Expiry[req[r].token] + Leeway

\* The cache never outgrows MAX_VERIFIED ("Keep the cache strictly bounded").
CacheBounded == Cardinality(Cached) <= MaxVerified
=============================================================================
