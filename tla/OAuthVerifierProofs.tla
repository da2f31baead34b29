------------------------ MODULE OAuthVerifierProofs -------------------------
(***************************************************************************)
(* Proofs about OAuthVerifier for every issuer, token, key set and number  *)
(* of requests: type correctness, that a revoked token and an expired one  *)
(* open nothing after their time, that roles are the limit of what a token *)
(* opens, and that the cache stays bounded.                                *)
(***************************************************************************)
EXTENDS OAuthVerifier, FiniteSetTheorems, TLAPS

-----------------------------------------------------------------------------
(* Type correctness *)

\* The roles of a token amount to a set of models.
LEMMA AllowedModelsType == \A t \in Tokens : AllowedModels(t) \in SUBSET Models
BY OAuthAssumption DEF AllowedModels

\* A step of one request to another stage keeps the requests typed.
LEMMA GotoFacts ==
    ASSUME req \in [Requests -> Calls \cup {NoEntry}], NEW r \in Requests, req[r] # NoEntry,
           NEW pc \in Steps, Goto(r, pc)
    PROVE  /\ req' \in [Requests -> Calls \cup {NoEntry}]
           /\ req'[r] \in Calls /\ req'[r] # NoEntry
           /\ req'[r].pc = pc /\ req'[r].token = req[r].token
           /\ req'[r].model = req[r].model /\ req'[r].now = req[r].now
           /\ \A q \in Requests : q # r => req'[q] = req[q]
BY NoEntryAssumption DEF Goto, Calls

\* The answer to a request is one of two stages.
LEMMA VerdictGoes ==
    ASSUME NEW r \in Requests, NEW allowed, Verdict(r, allowed)
    PROVE  \/ Goto(r, "admitted") /\ Permits(allowed, req[r].model)
           \/ Goto(r, "not_allowed")
BY DEF Verdict

\* What an insertion leaves in the cache.
LEMMA InsertFacts ==
    ASSUME TypeOK, NEW r \in Requests, req[r] # NoEntry, Insert(r)
    PROVE  /\ verified' \in [Tokens -> Entries \cup {NoEntry}]
           /\ \A u \in Tokens :
                 \/ verified'[u] \in {verified[u], NoEntry}
                 \/ /\ u = req[r].token
                    /\ verified'[u] = [allowed |-> AllowedModels(u), exp |-> Expiry[u],
                                       ok_until |-> OkUntil(req[r].now)]
<1> DEFINE t == req[r].token
           entry == [allowed |-> AllowedModels(t), exp |-> Expiry[t], ok_until |-> OkUntil(req[r].now)]
<1>1. t \in Tokens /\ req[r].now \in Nat
    BY DEF TypeOK, Calls, Times
<1>2. OkUntil(req[r].now) \in Nat
    BY <1>1, OAuthAssumption DEF OkUntil
<1>3. entry \in Entries
    BY <1>1, <1>2, AllowedModelsType, OAuthAssumption DEF Entries
<1>4. PICK victims \in Victims :
          verified' = [u \in Tokens |-> CASE u = t -> entry
                                          [] u # t /\ u \in victims -> NoEntry
                                          [] OTHER -> verified[u]]
    BY DEF Insert
<1> HIDE DEF entry
<1>5. \A u \in Tokens : verified'[u] \in {verified[u], NoEntry} \/ (u = t /\ verified'[u] = entry)
    BY <1>4
<1>6. verified \in [Tokens -> Entries \cup {NoEntry}]
    BY DEF TypeOK
<1>7. verified' \in [Tokens -> Entries \cup {NoEntry}]
    BY <1>3, <1>4, <1>5, <1>6
<1> QED
    BY <1>5, <1>7 DEF entry

\* Where a request can go in one step: it stays, is let go, or moves on under its own clock reading.
LEMMA RequestType ==
    ASSUME TypeOK, [Next]_vars
    PROVE  req' \in [Requests -> Calls \cup {NoEntry}]
<1>0. req \in [Requests -> Calls \cup {NoEntry}] /\ clock \in Times
    BY DEF TypeOK
<1>1. ASSUME NEW r \in Requests, NEW t \in Tokens, NEW model \in Models \cup {NoModel},
             Present(r, t, model)
      PROVE  req' \in [Requests -> Calls \cup {NoEntry}]
    BY <1>0, <1>1 DEF Present, Calls, Steps
<1>2. ASSUME NEW r \in Requests, Leave(r)
      PROVE  req' \in [Requests -> Calls \cup {NoEntry}]
    BY <1>0, <1>2 DEF Leave
<1>3. ASSUME NEW r \in Requests, req[r] # NoEntry, \E pc \in Steps : Goto(r, pc)
      PROVE  req' \in [Requests -> Calls \cup {NoEntry}]
    BY <1>0, <1>3, GotoFacts
<1>4. ASSUME NEW r \in Requests,
             Lookup(r) \/ Verify(r) \/ Introspect(r) \/ Answer(r) \/ IntrospectionFails(r)
      PROVE  req[r] # NoEntry /\ \E pc \in Steps : Goto(r, pc)
    BY <1>4, VerdictGoes DEF Lookup, Verify, Introspect, Answer, IntrospectionFails, Steps
<1>5. ASSUME req' = req
      PROVE  req' \in [Requests -> Calls \cup {NoEntry}]
    BY <1>0, <1>5
<1> QED
    BY <1>1, <1>2, <1>3, <1>4, <1>5 DEF Next, InstallJwks, Revoke, Tick, vars

\* The inductive step of type correctness.
LEMMA TypeStep == TypeOK /\ [Next]_vars => TypeOK'
<1> SUFFICES ASSUME TypeOK, [Next]_vars
             PROVE  TypeOK'
    OBVIOUS
<1>0. req' \in [Requests -> Calls \cup {NoEntry}]
    BY RequestType
<1>1. ASSUME NEW r \in Requests, req[r] # NoEntry, Insert(r),
             UNCHANGED <<clock, jwks, revoked, introspected>>
      PROVE  TypeOK'
    BY <1>0, <1>1, InsertFacts DEF TypeOK
<1>2. ASSUME UNCHANGED <<clock, jwks, verified, revoked, introspected>>
      PROVE  TypeOK'
    BY <1>0, <1>2 DEF TypeOK
<1>3. ASSUME NEW keys \in Rosters, InstallJwks(keys), UNCHANGED introspected
      PROVE  TypeOK'
    BY <1>3, OAuthAssumption DEF InstallJwks, TypeOK
<1>4. ASSUME NEW t \in Tokens, Revoke(t), UNCHANGED introspected
      PROVE  TypeOK'
    BY <1>4 DEF Revoke, TypeOK
<1>5. ASSUME Tick, UNCHANGED introspected
      PROVE  TypeOK'
    BY <1>5, OAuthAssumption DEF Tick, TypeOK, Times
<1> QED
    BY <1>1, <1>2, <1>3, <1>4, <1>5
    DEF Next, vars, Present, Lookup, Verify, Introspect, Answer, IntrospectionFails, Leave

\* Initially the cache is empty and the inline keys are installed.
LEMMA TypeInit == Init => TypeOK
BY OAuthAssumption DEF Init, TypeOK, Times

\* Every state of the verifier is well typed.
THEOREM TypeCorrect == Spec => []TypeOK
BY TypeInit, TypeStep, PTL DEF Spec

-----------------------------------------------------------------------------
(* What a token may still open *)

\* The provider knows of no revocation before this time.
Since(t) == IF revoked[t] = Never THEN clock ELSE revoked[t]

\* A cached answer is what the token grants, and trusted for no longer than the time to live after
\* the last moment at which the provider still vouched for the token.
EntrySound(t) ==
    verified[t] # NoEntry =>
        /\ verified[t].allowed = AllowedModels(t)
        /\ verified[t].exp = Expiry[t]
        /\ introspected => verified[t].ok_until <= Since(t) + Ttl

\* What is known of a request at each stage: it came in before now; while the provider is asked its
\* token had not expired; a token the provider calls active had not been revoked when the request
\* came in; and what is admitted was granted in time.
RequestSound(r) ==
    req[r] # NoEntry =>
        LET t == req[r].token IN
        /\ req[r].now <= clock
        /\ req[r].pc \in {"asked", "active"} => req[r].now <= Expiry[t] + Leeway
        /\ req[r].pc = "active" => req[r].now <= Since(t)
        /\ req[r].pc = "admitted" =>
              /\ Permits(AllowedModels(t), req[r].model)
              /\ req[r].now <= Expiry[t] + Leeway
              /\ introspected => req[r].now <= Since(t) \/ req[r].now < Since(t) + Ttl

\* The inductive invariant behind the trust window and the grants.
Vouched ==
    /\ \A t \in Tokens : revoked[t] # Never => revoked[t] <= clock
    /\ \A t \in Tokens : EntrySound(t)
    /\ \A r \in Requests : RequestSound(r)

\* Time passes and tokens are revoked; the last moment a token was vouched for never moves back.
LEMMA SinceGrows ==
    ASSUME TypeOK, Vouched,
           \/ Tick
           \/ \E t \in Tokens : Revoke(t)
           \/ clock' = clock /\ revoked' = revoked
    PROVE  /\ clock \in Nat /\ clock' \in Nat /\ clock <= clock'
           /\ \A t \in Tokens : /\ Since(t) \in Nat /\ Since(t)' \in Nat /\ Since(t) <= Since(t)'
                                /\ revoked'[t] # Never => revoked'[t] <= clock'
<1>1. clock \in Nat /\ \A t \in Tokens : revoked[t] \in Nat \cup {Never}
    BY OAuthAssumption DEF TypeOK, Times
<1>2. CASE Tick
    BY <1>1, <1>2 DEF Tick, Since, Vouched
<1>3. CASE \E t \in Tokens : Revoke(t)
    <2>1. PICK t \in Tokens : Revoke(t)
        BY <1>3
    <2>2. clock' = clock /\ revoked[t] = Never /\ revoked' = [revoked EXCEPT ![t] = clock]
        BY <2>1 DEF Revoke
    <2> QED
        BY <1>1, <2>2 DEF TypeOK, Since, Vouched
<1>4. CASE clock' = clock /\ revoked' = revoked
    BY <1>1, <1>4 DEF Since, Vouched
<1> QED
    BY <1>2, <1>3, <1>4

\* So what is known of entries and requests that a step leaves alone stays known.
LEMMA SoundStays ==
    ASSUME TypeOK, Vouched, introspected' = introspected,
           \/ Tick
           \/ \E t \in Tokens : Revoke(t)
           \/ clock' = clock /\ revoked' = revoked
    PROVE  /\ \A t \in Tokens : verified'[t] = verified[t] => EntrySound(t)'
           /\ \A r \in Requests : req'[r] = req[r] => RequestSound(r)'
<1>1. /\ clock \in Nat /\ clock' \in Nat /\ clock <= clock'
      /\ \A t \in Tokens : Since(t) \in Nat /\ Since(t)' \in Nat /\ Since(t) <= Since(t)'
    BY SinceGrows
<1>2. ASSUME NEW t \in Tokens, verified'[t] = verified[t]
      PROVE  EntrySound(t)'
    <2>1. verified[t] # NoEntry => verified[t].ok_until \in Nat
        BY DEF TypeOK, Entries
    <2> QED
        BY <1>1, <1>2, <2>1, OAuthAssumption DEF Vouched, EntrySound
<1>3. ASSUME NEW r \in Requests, req'[r] = req[r]
      PROVE  RequestSound(r)'
    <2>1. req[r] # NoEntry => req[r].token \in Tokens /\ req[r].now \in Nat
        BY DEF TypeOK, Calls, Times
    <2> QED
        BY <1>1, <1>3, <2>1, OAuthAssumption DEF Vouched, RequestSound
<1> QED
    BY <1>2, <1>3

\* An insertion for a request whose token the provider vouched for, or need not be asked about.
LEMMA InsertSound ==
    ASSUME TypeOK, Vouched, NEW r \in Requests, req[r] # NoEntry, Insert(r),
           UNCHANGED <<clock, revoked, introspected>>,
           introspected => req[r].pc = "active"
    PROVE  \A u \in Tokens : EntrySound(u)'
<1>1. SUFFICES ASSUME NEW u \in Tokens
               PROVE  EntrySound(u)'
    OBVIOUS
<1>2. \A t \in Tokens : Since(t)' = Since(t)
    BY DEF Since
<1>3. CASE verified'[u] \in {verified[u], NoEntry}
    BY <1>2, <1>3 DEF Vouched, EntrySound
<1>4. CASE /\ u = req[r].token
           /\ verified'[u] = [allowed |-> AllowedModels(u), exp |-> Expiry[u],
                              ok_until |-> OkUntil(req[r].now)]
    <2>1. introspected => OkUntil(req[r].now) = req[r].now + Ttl /\ req[r].now <= Since(u)
        BY <1>4 DEF OkUntil, Vouched, RequestSound
    <2>2. req[r].now \in Nat /\ Since(u) \in Nat
        BY OAuthAssumption DEF TypeOK, Calls, Times, Since
    <2>3. introspected => OkUntil(req[r].now) <= Since(u) + Ttl
        BY <2>1, <2>2, OAuthAssumption
    <2> QED
        BY <1>2, <1>4, <2>3 DEF EntrySound
<1> QED
    BY <1>3, <1>4, InsertFacts

\* Each step of a request keeps what is known of it, and of the others.
LEMMA RequestStepSound ==
    ASSUME TypeOK, Vouched, NEW r \in Requests, UNCHANGED <<clock, revoked, introspected>>,
           \/ Lookup(r) \/ Verify(r) \/ Introspect(r) \/ Answer(r) \/ IntrospectionFails(r)
    PROVE  \A q \in Requests : RequestSound(q)'
<1>0. req \in [Requests -> Calls \cup {NoEntry}] /\ req[r] # NoEntry
    BY DEF TypeOK, Lookup, Verify, Introspect, Answer, IntrospectionFails
<1>1. /\ req[r] \in Calls /\ req[r].token \in Tokens /\ req[r].now \in Nat /\ clock \in Nat
      /\ revoked[req[r].token] \in Nat \cup {Never}
      /\ Expiry[req[r].token] \in Nat /\ Leeway \in Nat /\ Ttl \in Nat
    BY <1>0, OAuthAssumption DEF TypeOK, Calls, Times
<1>b. Since(req[r].token) \in Nat /\ \A t : Since(t)' = Since(t)
    BY <1>1 DEF Since
<1>2. RequestSound(r) /\ EntrySound(req[r].token)
    BY <1>1 DEF Vouched
\* Moving on to a stage whose knowledge is there keeps every request sound.
<1>a. ASSUME NEW pc \in Steps, Goto(r, pc),
             pc \in {"asked", "active"} => req[r].now <= Expiry[req[r].token] + Leeway,
             pc = "active" => req[r].now <= Since(req[r].token),
             pc = "admitted" =>
                 /\ Permits(AllowedModels(req[r].token), req[r].model)
                 /\ req[r].now <= Expiry[req[r].token] + Leeway
                 /\ introspected => \/ req[r].now <= Since(req[r].token)
                                    \/ req[r].now < Since(req[r].token) + Ttl
      PROVE  \A q \in Requests : RequestSound(q)'
    <2>1. /\ req'[r] # NoEntry /\ req'[r].pc = pc /\ req'[r].token = req[r].token
          /\ req'[r].model = req[r].model /\ req'[r].now = req[r].now
          /\ \A q \in Requests : q # r => req'[q] = req[q]
        BY <1>0, <1>a, GotoFacts
    <2>2. RequestSound(r)'
        <3>1. PICK t \in Tokens : t = req[r].token
            BY <1>1
        <3>2. req[r].now <= clock /\ clock' = clock /\ introspected' = introspected
            BY <1>0, <1>2 DEF RequestSound
        <3>3. Since(t)' = Since(t) /\ Since(req[r].token)' = Since(t)
            BY <2>1, <3>1 DEF Since
        <3>4. AllowedModels(req'[r].token) = AllowedModels(t)
            BY <2>1, <3>1
        <3>5. pc = "active" => req'[r].now <= Since(req[r].token)'
            BY <1>a, <2>1, <3>1, <3>3
        <3>6. pc = "admitted" =>
                  /\ Permits(AllowedModels(req'[r].token), req'[r].model)
                  /\ introspected => \/ req'[r].now <= Since(req[r].token)'
                                     \/ req'[r].now < Since(req[r].token)' + Ttl
            BY <1>a, <2>1, <3>1, <3>3, <3>4
        <3>7. pc \in {"asked", "active", "admitted"} => req'[r].now <= Expiry[req'[r].token] + Leeway
            BY <1>a, <2>1
        <3> QED
            BY <2>1, <3>2, <3>5, <3>6, <3>7 DEF RequestSound, Since, AllowedModels
    <2> QED
        BY <2>1, <2>2, SoundStays
<1>3. CASE Lookup(r)
    <2> DEFINE entry == verified[req[r].token]
    <2>1. CASE Goto(r, "verify") \/ Goto(r, "not_allowed")
        BY <1>a, <2>1 DEF Steps
    <2>2. CASE entry # NoEntry /\ Fresh(entry, req[r].now) /\ Verdict(r, entry.allowed)
        <3>1. entry.allowed = AllowedModels(req[r].token) /\ req[r].now < Expiry[req[r].token]
            BY <1>2, <2>2 DEF EntrySound, Fresh
        <3>2. introspected => req[r].now < Since(req[r].token) + Ttl
            <4>1. entry.ok_until \in Nat
                BY <1>1, <2>2 DEF TypeOK, Entries
            <4> QED
                BY <1>1, <1>2, <2>2, <1>b, <4>1 DEF EntrySound, Fresh
        <3>3. req[r].now <= Expiry[req[r].token] + Leeway
            BY <1>1, <3>1
        <3> QED
            BY <1>a, <2>2, <3>1, <3>2, <3>3, VerdictGoes DEF Steps
    <2> QED
        BY <1>3, <2>1, <2>2 DEF Lookup
<1>4. CASE Verify(r)
    <2>1. CASE Goto(r, "unverified")
        BY <1>a, <2>1 DEF Steps
    <2>2. CASE Decodes(req[r].token, jwks)
        <3>1. req[r].now <= Expiry[req[r].token] + Leeway
            <4>1. clock <= Expiry[req[r].token] + Leeway /\ req[r].now <= clock
                BY <1>0, <1>2, <2>2 DEF Decodes, RequestSound
            <4> QED
                BY <1>1, <4>1
        <3> QED
            BY <1>a, <1>4, <2>2, <3>1, VerdictGoes DEF Verify, Steps
    <2> QED
        BY <1>4, <2>1, <2>2 DEF Verify
<1>5. CASE Introspect(r)
    <2>1. req[r].pc = "asked" /\ req[r].now <= clock
        BY <1>2, <1>5 DEF Introspect, RequestSound
    <2>2. revoked[req[r].token] = Never => req[r].now <= Since(req[r].token)
        BY <2>1 DEF Since
    <2> QED
        BY <1>a, <1>2, <1>5, <2>1, <2>2 DEF Introspect, RequestSound, Steps
<1>6. CASE Answer(r)
    BY <1>a, <1>2, <1>6, VerdictGoes DEF Answer, RequestSound, Steps
<1>7. CASE IntrospectionFails(r)
    BY <1>a, <1>7 DEF IntrospectionFails, Steps
<1> QED
    BY <1>3, <1>4, <1>5, <1>6, <1>7

\* The inductive step.
LEMMA VouchedStep == TypeOK /\ Vouched /\ [Next]_vars => Vouched'
<1> SUFFICES ASSUME TypeOK, Vouched, [Next]_vars
             PROVE  Vouched'
    OBVIOUS
<1>1. ASSUME NEW r \in Requests, NEW t \in Tokens, NEW model \in Models \cup {NoModel},
             Present(r, t, model), UNCHANGED introspected
      PROVE  Vouched'
    <2>1. /\ req'[r] = [pc |-> "lookup", token |-> t, model |-> model, now |-> clock]
          /\ \A q \in Requests : q # r => req'[q] = req[q]
          /\ UNCHANGED <<clock, verified, revoked>>
        BY <1>1 DEF Present, TypeOK
    <2>2. RequestSound(r)'
        BY <2>1, OAuthAssumption DEF RequestSound, TypeOK, Times
    <2> QED
        BY <1>1, <2>1, <2>2, SoundStays DEF Vouched
<1>2. ASSUME NEW r \in Requests, UNCHANGED introspected,
             Lookup(r) \/ Verify(r) \/ Introspect(r) \/ Answer(r) \/ IntrospectionFails(r)
      PROVE  Vouched'
    <2>1. UNCHANGED <<clock, revoked>>
        BY <1>2 DEF Lookup, Verify, Introspect, Answer, IntrospectionFails
    <2>2. \A q \in Requests : RequestSound(q)'
        BY <1>2, <2>1, RequestStepSound
    <2>3. \A t \in Tokens : EntrySound(t)'
        <3>1. CASE verified' = verified
            BY <1>2, <2>1, <3>1, SoundStays
        <3>2. CASE verified' # verified
            <4>1. req[r] # NoEntry /\ Insert(r) /\ (introspected => req[r].pc = "active")
                BY <1>2, <3>2 DEF Lookup, Verify, Introspect, Answer, IntrospectionFails
            <4> QED
                BY <1>2, <2>1, <4>1, InsertSound
        <3> QED
            BY <3>1, <3>2
    <2> QED
        BY <2>1, <2>2, <2>3 DEF Vouched
<1>3. ASSUME NEW r \in Requests, Leave(r), UNCHANGED introspected
      PROVE  Vouched'
    <2>1. /\ req'[r] = NoEntry
          /\ \A q \in Requests : q # r => req'[q] = req[q]
          /\ UNCHANGED <<clock, verified, revoked>>
        BY <1>3 DEF Leave, TypeOK
    <2>2. RequestSound(r)'
        BY <2>1 DEF RequestSound
    <2> QED
        BY <1>3, <2>1, <2>2, SoundStays DEF Vouched
<1>4. ASSUME UNCHANGED <<verified, req, introspected>>,
             \/ Tick \/ \E t \in Tokens : Revoke(t)
             \/ clock' = clock /\ revoked' = revoked
      PROVE  Vouched'
    BY <1>4, SinceGrows, SoundStays DEF Vouched
<1> QED
    BY <1>1, <1>2, <1>3, <1>4 DEF Next, vars, InstallJwks, Tick, Revoke

\* Initially there is nothing to vouch for.
LEMMA VouchedInit == Init => Vouched
BY DEF Init, Vouched, EntrySound, RequestSound

\* For every time to live and however introspections, lookups, revocations and the clock interleave:
\* with introspection a revoked token opens nothing once the trust window after it is over.
THEOREM TrustWindowHolds == Spec => []TrustWindow
<1>1. TypeOK /\ Vouched => TrustWindow
    BY DEF TypeOK, Vouched, RequestSound, TrustWindow, Admitted, Since, Calls
<1> QED
    BY <1>1, TypeInit, TypeStep, VouchedInit, VouchedStep, PTL DEF Spec

\* For every token, role and cache: what is admitted was granted by a role of the token, before it
\* expired, whether the answer came from the cache or not.
THEOREM OnlyGranted == Spec => []Granted
<1>1. Vouched => Granted
    BY DEF Vouched, RequestSound, Granted, Admitted
<1> QED
    BY <1>1, TypeInit, TypeStep, VouchedInit, VouchedStep, PTL DEF Spec

-----------------------------------------------------------------------------
(* The bound of the cache *)

\* One entry more than before, unless as many were evicted.
LEMMA InsertBounded ==
    ASSUME TypeOK, NEW r \in Requests, req[r] # NoEntry, Insert(r),
           IsFiniteSet(Cached), CacheBounded
    PROVE  IsFiniteSet(Cached') /\ CacheBounded'
<1> DEFINE t == req[r].token
<1>1. PICK victims \in Victims :
          verified' = [u \in Tokens |->
              CASE u = t -> [allowed |-> AllowedModels(t), exp |-> Expiry[t],
                             ok_until |-> OkUntil(req[r].now)]
                [] u # t /\ u \in victims -> NoEntry
                [] OTHER -> verified[u]]
    BY DEF Insert
<1>2. Cached' \subseteq (Cached \ victims) \cup {t}
    BY <1>1 DEF Cached
<1>3. Cardinality(Cached) \in Nat /\ MaxVerified \in Nat
    BY FS_CardinalityType, OAuthAssumption
<1>4. CASE Cardinality(Cached) < MaxVerified
    <2>1. IsFiniteSet(Cached \cup {t}) /\ Cardinality(Cached \cup {t}) <= Cardinality(Cached) + 1
        BY <1>3, FS_AddElement, SMTT(30)
    <2>2. Cached' \in SUBSET (Cached \cup {t})
        BY <1>2
    <2>3. /\ IsFiniteSet(Cached') /\ Cardinality(Cached') <= Cardinality(Cached \cup {t})
          /\ Cardinality(Cached') \in Nat /\ Cardinality(Cached \cup {t}) \in Nat
        BY <2>1, <2>2, FS_Subset, FS_CardinalityType
    <2> QED
        BY <1>3, <1>4, <2>1, <2>3 DEF CacheBounded
<1>5. CASE ~(Cardinality(Cached) < MaxVerified)
    <2>1. victims \in SUBSET Cached /\ Cardinality(victims) = EvictBatch
        BY <1>5 DEF Victims
    <2>2. PICK v : v \in victims
        BY <2>1, FS_EmptySet, OAuthAssumption
    <2>3. /\ IsFiniteSet(Cached \ {v}) /\ Cardinality(Cached \ {v}) = Cardinality(Cached) - 1
        BY <2>1, <2>2, FS_RemoveElement
    <2>a. /\ IsFiniteSet((Cached \ {v}) \cup {t})
          /\ Cardinality((Cached \ {v}) \cup {t}) \in
                {Cardinality(Cached \ {v}), Cardinality(Cached \ {v}) + 1}
        BY <2>3, FS_AddElement
    <2>4. /\ IsFiniteSet((Cached \ {v}) \cup {t})
          /\ Cardinality((Cached \ {v}) \cup {t}) <= Cardinality(Cached)
        BY <1>3, <2>3, <2>a
    <2>5. Cached' \in SUBSET ((Cached \ {v}) \cup {t})
        BY <1>2, <2>2
    <2>6. /\ IsFiniteSet(Cached') /\ Cardinality(Cached') <= Cardinality((Cached \ {v}) \cup {t})
          /\ Cardinality(Cached') \in Nat /\ Cardinality((Cached \ {v}) \cup {t}) \in Nat
        BY <2>4, <2>5, FS_Subset, FS_CardinalityType
    <2> QED
        BY <1>3, <2>4, <2>6 DEF CacheBounded
<1> QED
    BY <1>4, <1>5

\* For every limit and batch of evictions, and whichever entries are evicted: the cache never
\* holds more tokens than its limit.
THEOREM CacheStaysBounded == Spec => []CacheBounded
<1>1. Init => IsFiniteSet(Cached) /\ CacheBounded
    <2> SUFFICES ASSUME Init
                 PROVE  IsFiniteSet(Cached) /\ CacheBounded
        OBVIOUS
    <2>1. Cached = {}
        BY DEF Init, Cached
    <2>2. IsFiniteSet({}) /\ Cardinality({}) = 0
        BY FS_EmptySet
    <2>3. 0 <= MaxVerified
        BY OAuthAssumption
    <2> QED
        BY <2>1, <2>2, <2>3 DEF CacheBounded
<1>2. TypeOK /\ IsFiniteSet(Cached) /\ CacheBounded /\ [Next]_vars =>
          IsFiniteSet(Cached)' /\ CacheBounded'
    <2> SUFFICES ASSUME TypeOK, IsFiniteSet(Cached), CacheBounded, [Next]_vars
                 PROVE  IsFiniteSet(Cached') /\ CacheBounded'
        OBVIOUS
    <2>1. ASSUME verified' = verified
          PROVE  IsFiniteSet(Cached') /\ CacheBounded'
        BY <2>1 DEF Cached, CacheBounded
    <2>2. ASSUME verified' # verified
          PROVE  \E r \in Requests : req[r] # NoEntry /\ Insert(r)
        BY <2>2 DEF Next, vars, Present, Lookup, Verify, Introspect, Answer, IntrospectionFails,
                    Leave, InstallJwks, Revoke, Tick
    <2> QED
        BY <2>1, <2>2, InsertBounded
<1> QED
    BY <1>1, <1>2, TypeInit, TypeStep, PTL DEF Spec
=============================================================================
