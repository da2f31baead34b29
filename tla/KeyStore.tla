------------------------------ MODULE KeyStore ------------------------------
(***************************************************************************)
(* The virtual key store of crates/llmleaf-core/src/keys.rs: a snapshot of *)
(* all keys that the pull refreshers replace wholesale, a cache of tokens  *)
(* whose password has been proven, and request threads that clone the      *)
(* snapshot, look into the cache and, on a miss, run the slow password     *)
(* hash against their clone before they write the cache.  No lock spans    *)
(* those three steps, so installs fall between any two of them.            *)
(***************************************************************************)
EXTENDS KeyPolicy

CONSTANTS
    Seed,       \* the [[keys]] of the config file, validated
    Rosters,    \* what the identity endpoint may answer
    Overlays,   \* what the limits endpoint may answer
    Requests,   \* request slots that may be in flight together
    MaxGen,     \* bound: identity installs
    MaxTime,    \* bound: the clock
    NoEntry,    \* a token that is not in the cache
    NoCall      \* a free request slot

VARIABLES
    snapshot,   \* RwLock<Arc<KeySnapshot>>
    verified,   \* the cache: token -> VerifiedEntry
    clock,      \* unix seconds
    calls       \* one authorization per request slot

vars == <<snapshot, verified, clock, calls>>

VerifiedEntries == [id : Labels, identity_gen : Nat, pw_hash : Hashes]

Pending == Refused("pending")

Calls == [pc : {"lookup", "cold", "answered", "listed"}, token : Tokens,
          model : Models \cup {NoModel}, now : Nat, snap : Snapshots,
          outcome : Outcomes \cup {Pending}, shown : SUBSET Models]

ASSUME SeedAssumption == Seed \in Seq(Identities) /\ validate_keys(Seed)

ASSUME PullAssumption ==
    /\ Rosters \subseteq Seq(Identities)
    /\ \A overlay \in Overlays :
          /\ DOMAIN overlay \subseteq Labels
          /\ \A id \in DOMAIN overlay : overlay[id] \in Verdicts

ASSUME SlotAssumption == NoEntry \notin VerifiedEntries /\ NoCall \notin Calls

TypeOK ==
    /\ snapshot \in Snapshots
    /\ verified \in [Tokens -> VerifiedEntries \cup {NoEntry}]
    /\ clock \in Nat
    /\ calls \in [Requests -> Calls \cup {NoCall}]

Init ==
    /\ snapshot = [keys |-> from_config(Seed), identity_gen |-> 0]
    /\ verified = [t \in Tokens |-> NoEntry]
    /\ clock = 0
    /\ calls = [r \in Requests |-> NoCall]

At(r, pc) == calls[r] # NoCall /\ calls[r].pc = pc

-----------------------------------------------------------------------------
(* A request thread inside authorize_inner *)

\* The handler reads the clock and the store clones the snapshot.
Arrive(r, token, model) ==
    /\ calls[r] = NoCall
    /\ calls' = [calls EXCEPT ![r] =
          [pc |-> "lookup", token |-> token, model |-> model, now |-> clock,
           snap |-> snapshot, outcome |-> Pending, shown |-> {}]]
    /\ UNCHANGED <<snapshot, verified, clock>>

\* Mutants: a cached token is trusted while its key exists; or once its generation
\* has passed.
TrustedWhileKeyExists(entry, snap) == snap.keys[entry.id] # Absent
TrustedOnceProven(entry, snap) ==
    /\ snap.keys[entry.id] # Absent
    /\ entry.identity_gen <= snap.identity_gen

\* A cached token is trusted when the identity layer is the one it was proven
\* against, or the key's hash is still byte-identical.
Trusted(entry, snap) ==
    /\ snap.keys[entry.id] # Absent
    /\ \/ entry.identity_gen = snap.identity_gen
       \/ entry.pw_hash = snap.keys[entry.id].pw_hash

\* The call's entry is in the cache and still speaks for the call's snapshot.
CacheHit(call) == verified[call.token] # NoEntry /\ Trusted(verified[call.token], call.snap)

\* Warm path: no KDF, only the verdict of the cloned snapshot.
WarmHit(r) ==
    /\ At(r, "lookup")
    /\ CacheHit(calls[r])
    /\ LET call == calls[r]
           id == verified[call.token].id IN
       calls' = [calls EXCEPT ![r].pc = "answered",
                              ![r].outcome = enforce(call.snap.keys[id], id, call.model, call.now)]
    /\ UNCHANGED <<snapshot, verified, clock>>

WarmMiss(r) ==
    /\ At(r, "lookup")
    /\ ~CacheHit(calls[r])
    /\ calls' = [calls EXCEPT ![r].pc = "cold"]
    /\ UNCHANGED <<snapshot, verified, clock>>

\* The credential is genuine for the cloned snapshot.
Genuine(call) ==
    LET cred == Credential[call.token] IN
    /\ cred # Malformed
    /\ call.snap.keys[cred.id] # Absent
    /\ verify(cred.password, call.snap.keys[cred.id].pw_hash)

\* Cold path, refused: garbled token, unknown id and wrong password are one answer
\* and leave no trace in the cache.
ColdReject(r) ==
    /\ At(r, "cold")
    /\ ~Genuine(calls[r])
    /\ calls' = [calls EXCEPT ![r].pc = "answered", ![r].outcome = Refused("unknown")]
    /\ UNCHANGED <<snapshot, verified, clock>>

\* Cold path, proven: the verdict is taken from the clone and the token is cached,
\* whatever the verdict says and whatever was installed meanwhile.
ColdAccept(r) ==
    /\ At(r, "cold")
    /\ Genuine(calls[r])
    /\ LET call == calls[r]
           id == Credential[call.token].id
           state == call.snap.keys[id] IN
       /\ calls' = [calls EXCEPT ![r].pc = "answered",
                                 ![r].outcome = enforce(state, id, call.model, call.now)]
       /\ verified' = [verified EXCEPT ![call.token] =
             [id |-> id, identity_gen |-> call.snap.identity_gen, pw_hash |-> state.pw_hash]]
    /\ UNCHANGED <<snapshot, clock>>

\* GET /v1/models: an admitted identity-only call scopes the listing by display id
\* against the snapshot that is current by then.
ListModels(r) ==
    /\ At(r, "answered")
    /\ calls[r].model = NoModel
    /\ calls[r].outcome.kind = "ok"
    /\ calls' = [calls EXCEPT ![r].pc = "listed",
                              ![r].shown = model_scope(snapshot, calls[r].outcome.who)]
    /\ UNCHANGED <<snapshot, verified, clock>>

Leave(r) ==
    /\ At(r, "answered") \/ At(r, "listed")
    /\ calls' = [calls EXCEPT ![r] = NoCall]
    /\ UNCHANGED <<snapshot, verified, clock>>

-----------------------------------------------------------------------------
(* The pull refreshers; a failed pull installs nothing *)

\* Mutant: a key that vanished leaves a hole in the cache instead of no entry.
install_identities_hole(roster) ==
    LET keys == RosterKeys(snapshot.keys, roster) IN
    /\ snapshot.identity_gen < MaxGen
    /\ snapshot' = [keys |-> keys, identity_gen |-> snapshot.identity_gen + 1]
    /\ verified' = [t \in Tokens |->
          IF verified[t] # NoEntry /\ keys[verified[t].id] = Absent
          THEN [verified[t] EXCEPT !.pw_hash = Absent] ELSE verified[t]]
    /\ UNCHANGED <<clock, calls>>

\* Replace the identity layer, bump the generation, forget the tokens of keys that
\* vanished.  A rotated key's old token stays, to be caught by the hash compare.
install_identities(roster) ==
    LET keys == RosterKeys(snapshot.keys, roster) IN
    /\ snapshot.identity_gen < MaxGen
    /\ snapshot' = [keys |-> keys, identity_gen |-> snapshot.identity_gen + 1]
    /\ verified' = [t \in Tokens |->
          IF verified[t] # NoEntry /\ keys[verified[t].id] = Absent THEN NoEntry ELSE verified[t]]
    /\ UNCHANGED <<clock, calls>>

install_verdicts(overlay) ==
    /\ snapshot' = [snapshot EXCEPT !.keys = WithVerdicts(snapshot.keys, overlay)]
    /\ UNCHANGED <<verified, clock, calls>>

Tick ==
    /\ clock < MaxTime
    /\ clock' = clock + 1
    /\ UNCHANGED <<snapshot, verified, calls>>

Next ==
    \/ \E r \in Requests, token \in Tokens, model \in Models \cup {NoModel} :
          Arrive(r, token, model)
    \/ \E r \in Requests : \/ WarmHit(r) \/ WarmMiss(r) \/ ColdReject(r) \/ ColdAccept(r)
                           \/ ListModels(r) \/ Leave(r)
    \/ \E roster \in Rosters : install_identities(roster)
    \/ \E overlay \in Overlays : install_verdicts(overlay)
    \/ Tick

Spec == Init /\ [][Next]_vars

-----------------------------------------------------------------------------
(* Properties *)

\* The snapshots somebody may still decide on: the current one and the clones.
LiveSnapshots == {snapshot} \cup {calls[r].snap : r \in {q \in Requests : calls[q] # NoCall}}

\* Nothing that is live is from a generation that has not been installed yet.
GenerationsBounded ==
    /\ \A s \in LiveSnapshots : s.identity_gen <= snapshot.identity_gen
    /\ \A t \in Tokens : verified[t] # NoEntry =>
          verified[t].identity_gen <= snapshot.identity_gen

\* One generation is one set of password hashes, also across the clones that
\* requests hold: a verdict install keeps the generation because it keeps the hashes.
GenerationFixesHashes ==
    \A s1, s2 \in LiveSnapshots : s1.identity_gen = s2.identity_gen =>
        \A id \in Labels : s1.keys[id] # Absent =>
            s2.keys[id] # Absent /\ s1.keys[id].pw_hash = s2.keys[id].pw_hash

\* A cached token was proven: its password verifies against the hash stored with it,
\* and where its generation is still some request's generation that hash is the key's.
CacheSound ==
    \A t \in Tokens : verified[t] # NoEntry =>
        /\ Credential[t] # Malformed
        /\ verified[t].id = Credential[t].id
        /\ verify(Credential[t].password, verified[t].pw_hash)
        /\ \A s \in LiveSnapshots :
              s.identity_gen = verified[t].identity_gen =>
                  /\ s.keys[verified[t].id] # Absent
                  /\ s.keys[verified[t].id].pw_hash = verified[t].pw_hash

\* The generation tag is a sound shortcut for the hash compare of the warm path, for
\* every snapshot still in use and however late a request wrote its entry: the
\* inductive invariant behind CacheTransparent.
CacheInv == GenerationsBounded /\ GenerationFixesHashes /\ CacheSound

\* authorize_inner, with its cache, answers what checking the password against the
\* request's own snapshot would have answered: a rotated or revoked password is never
\* admitted by a cached proof, and a valid one never refused.
CacheTransparent ==
    \A r \in Requests : (At(r, "answered") \/ At(r, "listed")) =>
        calls[r].outcome = Decide(calls[r].snap, calls[r].token, calls[r].model, calls[r].now)

\* Two keys of one snapshot never share a display id: events, model scoping and batch
\* ownership address a key by it.
DisplayIdsUnique ==
    \A id1, id2 \in Labels :
        /\ snapshot.keys[id1] # Absent
        /\ snapshot.keys[id2] # Absent
        /\ display_id(snapshot.keys[id1].name, id1) = display_id(snapshot.keys[id2].name, id2)
        => id1 = id2

\* The listing's scope, found by display id, permits exactly the models the request
\* path would let that key call.
ScopeAgreesWithEnforce ==
    \A id \in Labels : snapshot.keys[id] # Absent =>
        model_scope(snapshot, display_id(snapshot.keys[id].name, id)) =
            {m \in Models : ModelPermitted(snapshot.keys[id], m)}

\* An identity pull never lifts a restriction the limits pull laid on a key it keeps:
\* only a verdict install moves the verdict of a key that stays.
VerdictsSurviveIdentityPull ==
    [][snapshot'.identity_gen # snapshot.identity_gen =>
          \A id \in Labels :
              snapshot.keys[id] # Absent /\ snapshot'.keys[id] # Absent =>
                  snapshot'.keys[id].verdict = snapshot.keys[id].verdict]_vars

\* What a cacheless store would know of a call: the two steps of the lookup are one.
GateCall(call) ==
    IF call = NoCall THEN [pc |-> "idle"]
    ELSE IF call.pc \in {"lookup", "cold"}
    THEN [pc |-> "deciding", token |-> call.token, model |-> call.model,
          now |-> call.now, snap |-> call.snap]
    ELSE [pc |-> "answered", model |-> call.model, snap |-> call.snap, outcome |-> call.outcome]

Gate == INSTANCE KeyGate WITH calls <- [r \in Requests |-> GateCall(calls[r])]

\* The store with its cache implements the store without one: every behaviour of
\* authorize_inner and the installs, seen without the cache, is one of KeyGate.
ImplementsGate == Gate!Spec

\* A listing shows only models that its key may call, by the snapshot that admitted it
\* or by the one it is listed from.
ListingWithinGrant ==
    [][\A r \in Requests : At(r, "answered") /\ At(r, "listed")' =>
          LET id == Credential[calls[r].token].id IN
          \A m \in calls'[r].shown :
              \E s \in {calls[r].snap, snapshot} :
                  s.keys[id] # Absent /\ ModelPermitted(s.keys[id], m)]_vars
=============================================================================
