--------------------------- MODULE KeyStoreProofs ---------------------------
(***************************************************************************)
(* Proofs about KeyStore for every roster, overlay, token and number of    *)
(* requests: type correctness, the soundness of the verification cache,    *)
(* that display ids stay unique and a pull keeps verdicts, and that the    *)
(* store implements one without a cache.                                   *)
(***************************************************************************)
EXTENDS KeyStore, TLAPS

-----------------------------------------------------------------------------
(* What the pure functions return *)

\* enforce answers with an outcome, never with the pending marker.
LEMMA EnforceType ==
    ASSUME NEW state \in KeyStates, NEW id \in Labels, NEW model, NEW now
    PROVE  enforce(state, id, model, now) \in Outcomes
BY DEF enforce, Refused, Outcomes, display_id, KeyStates

\* A roster installed over well-formed keys gives well-formed keys.
LEMMA RosterKeysType ==
    ASSUME NEW prev \in [Labels -> KeyStates \cup {Absent}], NEW roster \in Seq(Identities)
    PROVE  RosterKeys(prev, roster) \in [Labels -> KeyStates \cup {Absent}]
<1>1. SUFFICES ASSUME NEW id \in Labels, LastWith(roster, id) # {}
               PROVE  RosterKeys(prev, roster)[id] \in KeyStates
    BY DEF RosterKeys
<1> DEFINE entry == roster[CHOOSE i \in LastWith(roster, id) : TRUE]
<1>2. entry \in Identities
    BY <1>1 DEF LastWith, Kept
<1>3. allow_list(entry.allowed_models) \in AllowLists
    BY <1>2 DEF allow_list, Identities, AllowLists
<1>4. default_verdict \in Verdicts
    BY DEF default_verdict, Verdicts, AllowLists
<1>5. prev[id] # Absent => prev[id].verdict \in Verdicts
    BY DEF KeyStates
<1> QED
    BY <1>1, <1>2, <1>3, <1>4, <1>5 DEF RosterKeys, KeyStates, Identities

\* An overlay leaves the set of keys and their hashes alone and gives typed verdicts.
LEMMA WithVerdictsType ==
    ASSUME NEW keys \in [Labels -> KeyStates \cup {Absent}], NEW overlay \in Overlays
    PROVE  /\ WithVerdicts(keys, overlay) \in [Labels -> KeyStates \cup {Absent}]
           /\ \A id \in Labels :
                 /\ WithVerdicts(keys, overlay)[id] = Absent <=> keys[id] = Absent
                 /\ keys[id] # Absent =>
                       /\ WithVerdicts(keys, overlay)[id].pw_hash = keys[id].pw_hash
                       /\ WithVerdicts(keys, overlay)[id].name = keys[id].name
<1>1. default_verdict \in Verdicts
    BY DEF default_verdict, Verdicts, AllowLists
<1>2. ASSUME NEW id \in Labels, keys[id] # Absent
      PROVE  /\ WithVerdicts(keys, overlay)[id] \in KeyStates
             /\ WithVerdicts(keys, overlay)[id] # Absent
             /\ WithVerdicts(keys, overlay)[id].pw_hash = keys[id].pw_hash
             /\ WithVerdicts(keys, overlay)[id].name = keys[id].name
    BY <1>1, <1>2, PullAssumption, AbsentAssumption DEF WithVerdicts, KeyStates
<1>3. ASSUME NEW id \in Labels, keys[id] = Absent
      PROVE  WithVerdicts(keys, overlay)[id] = Absent
    BY <1>3 DEF WithVerdicts
<1> QED
    BY <1>2, <1>3 DEF WithVerdicts

\* A listing scope is a set of models.
LEMMA ScopeType ==
    ASSUME NEW snap, NEW who
    PROVE  model_scope(snap, who) \in SUBSET Models
BY DEF model_scope

-----------------------------------------------------------------------------
(* Type correctness *)

\* Every state of the store is well typed.
THEOREM TypeCorrect == Spec => []TypeOK
<1>1. Init => TypeOK
    BY RosterKeysType, SeedAssumption DEF Init, TypeOK, from_config, Snapshots
<1>2. TypeOK /\ [Next]_vars => TypeOK'
    <2> SUFFICES ASSUME TypeOK, [Next]_vars
                 PROVE  TypeOK'
        OBVIOUS
    <2> USE DEF TypeOK
    <2>1. ASSUME NEW r \in Requests, NEW token \in Tokens, NEW model \in Models \cup {NoModel},
                 Arrive(r, token, model)
          PROVE  TypeOK'
        BY <2>1 DEF Arrive, Calls
    <2>2. ASSUME NEW r \in Requests, WarmHit(r)
          PROVE  TypeOK'
        <3>1. /\ calls[r] \in Calls
              /\ verified[calls[r].token] \in VerifiedEntries
            BY <2>2 DEF WarmHit, At, CacheHit, Calls
        <3>2. calls[r].snap.keys[verified[calls[r].token].id] \in KeyStates
            BY <2>2, <3>1 DEF WarmHit, CacheHit, Trusted, Calls, Snapshots, VerifiedEntries
        <3> QED
            BY <2>2, <3>1, <3>2, EnforceType DEF WarmHit, Calls, VerifiedEntries
    <2>3. ASSUME NEW r \in Requests, WarmMiss(r)
          PROVE  TypeOK'
        BY <2>3 DEF WarmMiss, At, Calls
    <2>4. ASSUME NEW r \in Requests, ColdReject(r)
          PROVE  TypeOK'
        BY <2>4, ZenonT(30) DEF ColdReject, At, Calls, Outcomes, Refused
    <2>5. ASSUME NEW r \in Requests, ColdAccept(r)
          PROVE  TypeOK'
        <3> DEFINE call == calls[r]
                   id == Credential[call.token].id
                   state == call.snap.keys[id]
        <3>1. /\ call \in Calls
              /\ id \in Labels
            BY <2>5, CredentialAssumption DEF ColdAccept, At, Genuine, Calls
        <3>2. state \in KeyStates
            BY <2>5, <3>1, ZenonT(30) DEF ColdAccept, Genuine, Calls, Snapshots
        <3>3. enforce(state, id, call.model, call.now) \in Outcomes
            BY <3>1, <3>2, EnforceType
        <3>4. calls' \in [Requests -> Calls \cup {NoCall}]
            BY <2>5, <3>1, <3>3 DEF ColdAccept, Calls
        <3>5. verified' \in [Tokens -> VerifiedEntries \cup {NoEntry}]
            BY <2>5, <3>1, <3>2 DEF ColdAccept, VerifiedEntries, KeyStates, Calls, Snapshots
        <3> QED
            BY <2>5, <3>4, <3>5 DEF ColdAccept
    <2>6. ASSUME NEW r \in Requests, ListModels(r)
          PROVE  TypeOK'
        <3>1. model_scope(snapshot, calls[r].outcome.who) \in SUBSET Models
            BY ScopeType
        <3>2. calls[r] \in Calls
            BY <2>6 DEF ListModels, At
        <3>3. calls' \in [Requests -> Calls \cup {NoCall}]
            BY <2>6, <3>1, <3>2 DEF ListModels, Calls
        <3> QED
            BY <2>6, <3>3 DEF ListModels
    <2>7. ASSUME NEW r \in Requests, Leave(r)
          PROVE  TypeOK'
        BY <2>7 DEF Leave
    <2>8. ASSUME NEW roster \in Rosters, install_identities(roster)
          PROVE  TypeOK'
        <3>1. RosterKeys(snapshot.keys, roster) \in [Labels -> KeyStates \cup {Absent}]
            BY RosterKeysType, PullAssumption DEF Snapshots
        <3> QED
            BY <2>8, <3>1 DEF install_identities, Snapshots
    <2>9. ASSUME NEW overlay \in Overlays, install_verdicts(overlay)
          PROVE  TypeOK'
        BY <2>9, WithVerdictsType DEF install_verdicts, Snapshots
    <2>10. CASE Tick
        BY <2>10 DEF Tick
    <2>11. CASE UNCHANGED vars
        BY <2>11 DEF vars
    <2> QED
        BY <2>1, <2>2, <2>3, <2>4, <2>5, <2>6, <2>7, <2>8, <2>9, <2>10, <2>11 DEF Next
<1> QED
    BY <1>1, <1>2, PTL DEF Spec

-----------------------------------------------------------------------------
(* The verification cache *)

\* A request step brings no snapshot to life that was not live before.
LEMMA RequestsKeepSnapshots ==
    ASSUME TypeOK, NEW r \in Requests, snapshot' = snapshot,
           \/ \E token \in Tokens, model \in Models \cup {NoModel} : Arrive(r, token, model)
           \/ WarmHit(r) \/ WarmMiss(r) \/ ColdReject(r) \/ ColdAccept(r)
           \/ ListModels(r) \/ Leave(r)
    PROVE  LiveSnapshots' \subseteq LiveSnapshots
<1>1. SUFFICES ASSUME NEW q \in Requests, calls'[q] # NoCall
               PROVE  calls'[q].snap \in LiveSnapshots
    BY DEF LiveSnapshots
<1>2. CASE q # r
    <2>1. calls'[q] = calls[q]
        BY <1>2 DEF TypeOK, Arrive, WarmHit, WarmMiss, ColdReject, ColdAccept, ListModels, Leave
    <2> QED
        BY <1>1, <2>1 DEF LiveSnapshots
<1>3. CASE q = r
    <2>1. CASE \E token \in Tokens, model \in Models \cup {NoModel} : Arrive(r, token, model)
        BY <1>3, <2>1 DEF TypeOK, Arrive, LiveSnapshots
    <2>2. CASE Leave(r)
        BY <1>1, <1>3, <2>2 DEF TypeOK, Leave
    <2>3. CASE WarmHit(r) \/ WarmMiss(r) \/ ColdReject(r) \/ ColdAccept(r) \/ ListModels(r)
        <3>1. calls[r] \in Calls /\ calls[r] # NoCall
            BY <2>3 DEF TypeOK, At, WarmHit, WarmMiss, ColdReject, ColdAccept, ListModels
        <3>2. calls'[r].snap = calls[r].snap
            BY <2>3, <3>1 DEF TypeOK, Calls, WarmHit, WarmMiss, ColdReject, ColdAccept, ListModels
        <3> QED
            BY <1>3, <3>1, <3>2 DEF LiveSnapshots
    <2> QED
        BY <2>1, <2>2, <2>3
<1> QED
    BY <1>2, <1>3

\* An install adds at most the snapshot it installs.
LEMMA InstallsAddOneSnapshot ==
    ASSUME calls' = calls
    PROVE  LiveSnapshots' \subseteq LiveSnapshots \cup {snapshot'}
BY DEF LiveSnapshots

\* Live snapshots are snapshots.
LEMMA LiveSnapshotsType ==
    ASSUME TypeOK
    PROVE  LiveSnapshots \subseteq Snapshots /\ snapshot \in LiveSnapshots
BY DEF TypeOK, LiveSnapshots, Calls

\* Where only the set of live snapshots shrinks, the cache invariant is kept.
LEMMA CacheInvMonotone ==
    ASSUME CacheInv, LiveSnapshots' \subseteq LiveSnapshots,
           snapshot' = snapshot, verified' = verified
    PROVE  CacheInv'
<1>1. GenerationsBounded'
    BY DEF CacheInv, GenerationsBounded
<1>2. GenerationFixesHashes'
    BY DEF CacheInv, GenerationFixesHashes
<1>3. CacheSound'
    BY DEF CacheInv, CacheSound
<1> QED
    BY <1>1, <1>2, <1>3 DEF CacheInv

\* A proven token keeps the cache sound, whatever was installed during its KDF.
LEMMA ColdAcceptCacheInv ==
    ASSUME TypeOK, CacheInv, NEW r \in Requests, ColdAccept(r)
    PROVE  CacheInv'
<1> DEFINE call == calls[r]
           id == Credential[call.token].id
           state == call.snap.keys[id]
<1>1. LiveSnapshots' \subseteq LiveSnapshots /\ snapshot' = snapshot
    BY RequestsKeepSnapshots DEF ColdAccept
<1>2. /\ call \in Calls
      /\ call.snap \in LiveSnapshots
      /\ call.snap \in Snapshots
    BY DEF TypeOK, ColdAccept, At, LiveSnapshots, Calls
<1>3. /\ Credential[call.token] # Malformed
      /\ state # Absent
      /\ verify(Credential[call.token].password, state.pw_hash)
    BY DEF ColdAccept, Genuine
<1>4. id \in Labels
    BY <1>2, <1>3, CredentialAssumption DEF Calls
<1>5. ASSUME NEW t \in Tokens, t # call.token
      PROVE  verified'[t] = verified[t]
    BY <1>5 DEF ColdAccept, TypeOK
<1>6. verified'[call.token] = [id |-> id, identity_gen |-> call.snap.identity_gen,
                               pw_hash |-> state.pw_hash]
    BY <1>2 DEF ColdAccept, TypeOK, Calls
<1>7. GenerationsBounded'
    BY <1>1, <1>2, <1>5, <1>6 DEF CacheInv, GenerationsBounded
<1>8. GenerationFixesHashes'
    BY <1>1 DEF CacheInv, GenerationFixesHashes
<1>9. ASSUME NEW s \in LiveSnapshots, s.identity_gen = call.snap.identity_gen
      PROVE  s.keys[id] # Absent /\ s.keys[id].pw_hash = state.pw_hash
    BY <1>2, <1>3, <1>4, <1>9 DEF CacheInv, GenerationFixesHashes
<1>10. ASSUME NEW t \in Tokens, verified'[t] # NoEntry
       PROVE  /\ Credential[t] # Malformed
              /\ verified'[t].id = Credential[t].id
              /\ verify(Credential[t].password, verified'[t].pw_hash)
              /\ \A s \in LiveSnapshots' :
                    s.identity_gen = verified'[t].identity_gen =>
                        /\ s.keys[verified'[t].id] # Absent
                        /\ s.keys[verified'[t].id].pw_hash = verified'[t].pw_hash
    <2>1. CASE t = call.token
        <3>1. /\ verified'[t].id = id
              /\ verified'[t].identity_gen = call.snap.identity_gen
              /\ verified'[t].pw_hash = state.pw_hash
            BY <1>6, <2>1
        <3>2. ASSUME NEW s \in LiveSnapshots', s.identity_gen = verified'[t].identity_gen
              PROVE  /\ s.keys[verified'[t].id] # Absent
                     /\ s.keys[verified'[t].id].pw_hash = verified'[t].pw_hash
            BY <1>1, <1>9, <3>1, <3>2
        <3> QED
            BY <1>3, <2>1, <3>1, <3>2
    <2>2. CASE t # call.token
        BY <1>1, <1>5, <1>10, <2>2 DEF CacheInv, CacheSound
    <2> QED
        BY <2>1, <2>2
<1>11. CacheSound'
    BY <1>10 DEF CacheSound
<1> QED
    BY <1>7, <1>8, <1>11 DEF CacheInv

\* A new identity layer gets a generation nothing live carries yet.
LEMMA InstallIdentitiesCacheInv ==
    ASSUME TypeOK, CacheInv, NEW roster \in Rosters, install_identities(roster)
    PROVE  CacheInv'
<1>1. LiveSnapshots' \subseteq LiveSnapshots \cup {snapshot'}
    BY InstallsAddOneSnapshot DEF install_identities
<1>2. snapshot'.identity_gen = snapshot.identity_gen + 1
    BY DEF install_identities
<1>3. LiveSnapshots \subseteq Snapshots
    BY LiveSnapshotsType
<1>4. snapshot.identity_gen \in Nat /\ \A s \in LiveSnapshots : s.identity_gen \in Nat
    BY <1>3 DEF TypeOK, Snapshots
<1>5. \A s \in LiveSnapshots : s.identity_gen <= snapshot.identity_gen
    BY DEF CacheInv, GenerationsBounded
<1>6. ASSUME NEW t \in Tokens, verified'[t] # NoEntry
      PROVE  /\ verified'[t] = verified[t]
             /\ verified[t] # NoEntry
             /\ verified[t].identity_gen \in Nat
             /\ verified[t].identity_gen <= snapshot.identity_gen
    <2>1. verified'[t] = verified[t]
        BY <1>6 DEF install_identities
    <2> QED
        BY <1>6, <2>1 DEF TypeOK, VerifiedEntries, CacheInv, GenerationsBounded
<1>7. GenerationsBounded'
    BY <1>1, <1>2, <1>4, <1>5, <1>6 DEF GenerationsBounded
<1>8. GenerationFixesHashes'
    <2>1. SUFFICES ASSUME NEW s1 \in LiveSnapshots \cup {snapshot'},
                          NEW s2 \in LiveSnapshots \cup {snapshot'},
                          s1.identity_gen = s2.identity_gen,
                          NEW id \in Labels, s1.keys[id] # Absent
                   PROVE  s2.keys[id] # Absent /\ s1.keys[id].pw_hash = s2.keys[id].pw_hash
        BY <1>1 DEF GenerationFixesHashes
    <2>2. \/ s1 = snapshot' /\ s2 = snapshot'
          \/ s1 \in LiveSnapshots /\ s2 \in LiveSnapshots
        BY <1>2, <1>4, <1>5, <2>1
    <2> QED
        BY <2>1, <2>2 DEF CacheInv, GenerationFixesHashes
<1>9. CacheSound'
    <2>1. ASSUME NEW t \in Tokens, verified'[t] # NoEntry,
                 NEW s \in LiveSnapshots', s.identity_gen = verified'[t].identity_gen
          PROVE  s \in LiveSnapshots
        BY <1>1, <1>2, <1>4, <1>6, <2>1
    <2> QED
        BY <1>6, <2>1 DEF CacheSound, CacheInv
<1> QED
    BY <1>7, <1>8, <1>9 DEF CacheInv

\* A verdict overlay keeps the generation because it keeps every hash.
LEMMA InstallVerdictsCacheInv ==
    ASSUME TypeOK, CacheInv, NEW overlay \in Overlays, install_verdicts(overlay)
    PROVE  CacheInv'
<1>1. LiveSnapshots' \subseteq LiveSnapshots \cup {snapshot'}
    BY InstallsAddOneSnapshot DEF install_verdicts
<1>2. /\ snapshot'.identity_gen = snapshot.identity_gen
      /\ snapshot'.keys = WithVerdicts(snapshot.keys, overlay)
      /\ verified' = verified
    BY DEF install_verdicts, TypeOK, Snapshots
<1>3. snapshot.keys \in [Labels -> KeyStates \cup {Absent}]
    BY DEF TypeOK, Snapshots
<1>4. \A id \in Labels :
         /\ snapshot'.keys[id] = Absent <=> snapshot.keys[id] = Absent
         /\ snapshot.keys[id] # Absent =>
               snapshot'.keys[id].pw_hash = snapshot.keys[id].pw_hash
    BY <1>2, <1>3, WithVerdictsType
<1>5. snapshot \in LiveSnapshots
    BY LiveSnapshotsType
<1>6. ASSUME NEW s \in LiveSnapshots'
      PROVE  \E old \in LiveSnapshots :
                /\ old.identity_gen = s.identity_gen
                /\ \A id \in Labels :
                      /\ s.keys[id] = Absent <=> old.keys[id] = Absent
                      /\ s.keys[id] # Absent => s.keys[id].pw_hash = old.keys[id].pw_hash
    <2>1. CASE s \in LiveSnapshots
        BY <2>1
    <2>2. CASE s = snapshot'
        BY <1>2, <1>4, <1>5, <2>2
    <2> QED
        BY <1>1, <2>1, <2>2
<1>7. GenerationsBounded'
    BY <1>1, <1>2, <1>5 DEF CacheInv, GenerationsBounded
<1>8. GenerationFixesHashes'
    <2>1. SUFFICES ASSUME NEW s1 \in LiveSnapshots', NEW s2 \in LiveSnapshots',
                          s1.identity_gen = s2.identity_gen,
                          NEW id \in Labels, s1.keys[id] # Absent
                   PROVE  s2.keys[id] # Absent /\ s1.keys[id].pw_hash = s2.keys[id].pw_hash
        BY DEF GenerationFixesHashes
    <2>2. PICK o1 \in LiveSnapshots :
             /\ o1.identity_gen = s1.identity_gen
             /\ o1.keys[id] # Absent
             /\ s1.keys[id].pw_hash = o1.keys[id].pw_hash
        BY <1>6, <2>1
    <2>3. PICK o2 \in LiveSnapshots :
             /\ o2.identity_gen = s2.identity_gen
             /\ s2.keys[id] = Absent <=> o2.keys[id] = Absent
             /\ s2.keys[id] # Absent => s2.keys[id].pw_hash = o2.keys[id].pw_hash
        BY <1>6
    <2>4. o2.keys[id] # Absent /\ o1.keys[id].pw_hash = o2.keys[id].pw_hash
        BY <2>1, <2>2, <2>3 DEF CacheInv, GenerationFixesHashes
    <2> QED
        BY <2>2, <2>3, <2>4
<1>9. CacheSound'
    <2>1. SUFFICES ASSUME NEW t \in Tokens, verified[t] # NoEntry, NEW s \in LiveSnapshots',
                          s.identity_gen = verified[t].identity_gen
                   PROVE  /\ s.keys[verified[t].id] # Absent
                          /\ s.keys[verified[t].id].pw_hash = verified[t].pw_hash
        BY <1>2 DEF CacheInv, CacheSound
    <2>2. verified[t].id \in Labels
        BY <2>1 DEF TypeOK, VerifiedEntries
    <2>3. PICK old \in LiveSnapshots :
             /\ old.identity_gen = s.identity_gen
             /\ s.keys[verified[t].id] = Absent <=> old.keys[verified[t].id] = Absent
             /\ s.keys[verified[t].id] # Absent =>
                   s.keys[verified[t].id].pw_hash = old.keys[verified[t].id].pw_hash
        BY <1>6, <2>2
    <2> QED
        BY <2>1, <2>3 DEF CacheInv, CacheSound
<1> QED
    BY <1>7, <1>8, <1>9 DEF CacheInv

\* The generation tag stays a sound shortcut in every reachable state.
THEOREM CacheIsSound == Spec => []CacheInv
<1>1. Init => CacheInv
    <2> SUFFICES ASSUME Init
                 PROVE  CacheInv
        OBVIOUS
    <2>1. LiveSnapshots = {snapshot} /\ snapshot.identity_gen = 0
        BY DEF Init, LiveSnapshots
    <2>2. \A t \in Tokens : verified[t] = NoEntry
        BY DEF Init
    <2> QED
        BY <2>1, <2>2 DEF CacheInv, GenerationsBounded, GenerationFixesHashes, CacheSound
<1>2. TypeOK /\ CacheInv /\ [Next]_vars => CacheInv'
    <2> SUFFICES ASSUME TypeOK, CacheInv, [Next]_vars
                 PROVE  CacheInv'
        OBVIOUS
    <2>1. ASSUME NEW r \in Requests,
                 \/ \E token \in Tokens, model \in Models \cup {NoModel} : Arrive(r, token, model)
                 \/ WarmHit(r) \/ WarmMiss(r) \/ ColdReject(r) \/ ListModels(r) \/ Leave(r)
          PROVE  CacheInv'
        <3>1. snapshot' = snapshot /\ verified' = verified
            BY <2>1 DEF Arrive, WarmHit, WarmMiss, ColdReject, ListModels, Leave
        <3>2. LiveSnapshots' \subseteq LiveSnapshots
            BY <2>1, <3>1, RequestsKeepSnapshots
        <3> QED
            BY <3>1, <3>2, CacheInvMonotone
    <2>2. ASSUME NEW r \in Requests, ColdAccept(r)
          PROVE  CacheInv'
        BY <2>2, ColdAcceptCacheInv
    <2>3. ASSUME NEW roster \in Rosters, install_identities(roster)
          PROVE  CacheInv'
        BY <2>3, InstallIdentitiesCacheInv
    <2>4. ASSUME NEW overlay \in Overlays, install_verdicts(overlay)
          PROVE  CacheInv'
        BY <2>4, InstallVerdictsCacheInv
    <2>5. CASE Tick \/ UNCHANGED vars
        <3>1. snapshot' = snapshot /\ verified' = verified /\ calls' = calls
            BY <2>5 DEF Tick, vars
        <3>2. LiveSnapshots' \subseteq LiveSnapshots
            BY <3>1 DEF LiveSnapshots
        <3> QED
            BY <3>1, <3>2, CacheInvMonotone
    <2> QED
        BY <2>1, <2>2, <2>3, <2>4, <2>5 DEF Next
<1> QED
    BY <1>1, <1>2, TypeCorrect, PTL DEF Spec

\* A genuine credential is judged by the verdict, any other is unknown.
LEMMA DecideByGenuine ==
    ASSUME NEW call
    PROVE  Decide(call.snap, call.token, call.model, call.now) =
              IF Genuine(call)
              THEN LET id == Credential[call.token].id IN
                   enforce(call.snap.keys[id], id, call.model, call.now)
              ELSE Refused("unknown")
BY DEF Decide, Genuine

\* An answer is an outcome.
LEMMA DecideType ==
    ASSUME NEW snap \in Snapshots, NEW token \in Tokens, NEW model, NEW now
    PROVE  Decide(snap, token, model, now) \in Outcomes
<1>1. CASE Credential[token] = Malformed
    BY <1>1 DEF Decide, Refused, Outcomes
<1>2. CASE Credential[token] # Malformed
    <2>1. Credential[token].id \in Labels
        BY <1>2, CredentialAssumption
    <2>2. snap.keys[Credential[token].id] \in KeyStates \cup {Absent}
        BY <2>1 DEF Snapshots
    <2> QED
        BY <2>1, <2>2, EnforceType DEF Decide, Refused, Outcomes
<1> QED
    BY <1>1, <1>2

\* What the warm path trusts is genuine: the cached proof speaks for the hash that the
\* request's own snapshot holds.
LEMMA TrustedIsGenuine ==
    ASSUME TypeOK, CacheInv, NEW r \in Requests, calls[r] # NoCall, CacheHit(calls[r])
    PROVE  /\ Genuine(calls[r])
           /\ verified[calls[r].token].id = Credential[calls[r].token].id
<1> DEFINE call == calls[r]
           entry == verified[call.token]
<1>1. /\ call.token \in Tokens
      /\ call.snap \in LiveSnapshots
      /\ entry # NoEntry
      /\ Trusted(entry, call.snap)
    BY DEF TypeOK, Calls, LiveSnapshots, CacheHit
<1>2. /\ Credential[call.token] # Malformed
      /\ entry.id = Credential[call.token].id
      /\ verify(Credential[call.token].password, entry.pw_hash)
    BY <1>1 DEF CacheInv, CacheSound
<1>3. call.snap.keys[entry.id] # Absent
    BY <1>1 DEF Trusted
<1>4. call.snap.keys[entry.id].pw_hash = entry.pw_hash
    BY <1>1 DEF Trusted, CacheInv, CacheSound
<1> QED
    BY <1>2, <1>3, <1>4 DEF Genuine

\* The cache never changes an answer: every answered call got what the password check
\* against its own snapshot would have said.
THEOREM CacheIsTransparent == Spec => []CacheTransparent
<1> DEFINE Right(r) == (At(r, "answered") \/ At(r, "listed")) =>
               calls[r].outcome = Decide(calls[r].snap, calls[r].token, calls[r].model, calls[r].now)
<1>1. Init => CacheTransparent
    BY DEF Init, CacheTransparent, At
<1>2. TypeOK /\ CacheInv /\ CacheTransparent /\ [Next]_vars => CacheTransparent'
    <2> SUFFICES ASSUME TypeOK, CacheInv, CacheTransparent, [Next]_vars
                 PROVE  CacheTransparent'
        OBVIOUS
    <2>1. ASSUME NEW q \in Requests, calls'[q] = calls[q]
          PROVE  Right(q)'
        BY <2>1 DEF CacheTransparent, At
    <2>3. ASSUME NEW r \in Requests, NEW token \in Tokens, NEW model \in Models \cup {NoModel},
                 Arrive(r, token, model)
          PROVE  CacheTransparent'
        <3>1. calls'[r].pc = "lookup" /\ \A q \in Requests : q # r => calls'[q] = calls[q]
            BY <2>3 DEF Arrive, TypeOK
        <3> QED
            BY <2>1, <3>1 DEF CacheTransparent, At
    <2>4. ASSUME NEW r \in Requests, WarmHit(r)
          PROVE  CacheTransparent'
        <3> DEFINE id == Credential[calls[r].token].id
        <3>1. Genuine(calls[r]) /\ verified[calls[r].token].id = id
            BY <2>4, TrustedIsGenuine DEF WarmHit, At
        <3>2. calls[r] \in Calls
            BY <2>4 DEF WarmHit, At, TypeOK
        <3>3. calls'[r] = [calls[r] EXCEPT !.pc = "answered",
                  !.outcome = enforce(calls[r].snap.keys[id], id, calls[r].model, calls[r].now)]
            BY <2>4, <3>1 DEF WarmHit, TypeOK
        <3>4. calls'[r].outcome =
                  Decide(calls'[r].snap, calls'[r].token, calls'[r].model, calls'[r].now)
            BY <3>1, <3>2, <3>3, DecideByGenuine DEF Calls
        <3>5. \A q \in Requests : q # r => calls'[q] = calls[q]
            BY <2>4 DEF WarmHit, TypeOK
        <3> QED
            BY <2>1, <3>4, <3>5 DEF CacheTransparent
    <2>5. ASSUME NEW r \in Requests, WarmMiss(r)
          PROVE  CacheTransparent'
        <3>1. calls'[r].pc = "cold" /\ \A q \in Requests : q # r => calls'[q] = calls[q]
            BY <2>5 DEF WarmMiss, At, TypeOK, Calls
        <3> QED
            BY <2>1, <3>1 DEF CacheTransparent, At
    <2>6. ASSUME NEW r \in Requests, ColdReject(r)
          PROVE  CacheTransparent'
        <3>1. calls[r] \in Calls /\ ~Genuine(calls[r])
            BY <2>6 DEF ColdReject, At, TypeOK
        <3>2. calls'[r] = [calls[r] EXCEPT !.pc = "answered", !.outcome = Refused("unknown")]
            BY <2>6 DEF ColdReject, TypeOK
        <3>3. calls'[r].outcome =
                  Decide(calls'[r].snap, calls'[r].token, calls'[r].model, calls'[r].now)
            BY <3>1, <3>2, DecideByGenuine DEF Calls
        <3>4. \A q \in Requests : q # r => calls'[q] = calls[q]
            BY <2>6 DEF ColdReject, TypeOK
        <3> QED
            BY <2>1, <3>3, <3>4 DEF CacheTransparent
    <2>7. ASSUME NEW r \in Requests, ColdAccept(r)
          PROVE  CacheTransparent'
        <3> DEFINE id == Credential[calls[r].token].id
        <3>1. calls[r] \in Calls /\ Genuine(calls[r])
            BY <2>7 DEF ColdAccept, At, TypeOK
        <3>2. calls'[r] = [calls[r] EXCEPT !.pc = "answered",
                  !.outcome = enforce(calls[r].snap.keys[id], id, calls[r].model, calls[r].now)]
            BY <2>7 DEF ColdAccept, TypeOK
        <3>3. calls'[r].outcome =
                  Decide(calls'[r].snap, calls'[r].token, calls'[r].model, calls'[r].now)
            BY <3>1, <3>2, DecideByGenuine DEF Calls
        <3>4. \A q \in Requests : q # r => calls'[q] = calls[q]
            BY <2>7 DEF ColdAccept, TypeOK
        <3> QED
            BY <2>1, <3>3, <3>4 DEF CacheTransparent
    <2>8. ASSUME NEW r \in Requests, ListModels(r)
          PROVE  CacheTransparent'
        <3>1. calls[r] \in Calls /\ At(r, "answered")
            BY <2>8 DEF ListModels, At, TypeOK
        <3>2. calls'[r] = [calls[r] EXCEPT !.pc = "listed",
                              !.shown = model_scope(snapshot, calls[r].outcome.who)]
            BY <2>8 DEF ListModels, TypeOK
        <3>3. calls'[r].outcome =
                  Decide(calls'[r].snap, calls'[r].token, calls'[r].model, calls'[r].now)
            BY <3>1, <3>2 DEF Calls, CacheTransparent
        <3>4. \A q \in Requests : q # r => calls'[q] = calls[q]
            BY <2>8 DEF ListModels, TypeOK
        <3> QED
            BY <2>1, <3>3, <3>4 DEF CacheTransparent
    <2>9. ASSUME NEW r \in Requests, Leave(r)
          PROVE  CacheTransparent'
        <3>1. calls'[r] = NoCall /\ \A q \in Requests : q # r => calls'[q] = calls[q]
            BY <2>9 DEF Leave, TypeOK
        <3> QED
            BY <2>1, <3>1 DEF CacheTransparent, At
    <2>10. ASSUME calls' = calls
           PROVE  CacheTransparent'
        BY <2>1, <2>10 DEF CacheTransparent
    <2> QED
        BY <2>3, <2>4, <2>5, <2>6, <2>7, <2>8, <2>9, <2>10
        DEF Next, install_identities, install_verdicts, Tick, vars
<1> QED
    BY <1>1, <1>2, TypeCorrect, CacheIsSound, PTL DEF Spec

-----------------------------------------------------------------------------
(* Display ids *)

\* No two keys of a set of keys are shown under one display id.
UniqueDisplays(keys) ==
    \A id1, id2 \in Labels :
        /\ keys[id1] # Absent
        /\ keys[id2] # Absent
        /\ display_id(keys[id1].name, id1) = display_id(keys[id2].name, id2)
        => id1 = id2

\* Whatever the identity endpoint sends, the keys installed from it have unique
\* display ids: the first entry to claim one wins.
LEMMA RosterDisplaysUnique ==
    ASSUME NEW prev, NEW roster \in Seq(Identities)
    PROVE  UniqueDisplays(RosterKeys(prev, roster))
<1> DEFINE keys == RosterKeys(prev, roster)
           at(id) == CHOOSE i \in LastWith(roster, id) : TRUE
<1>1. ASSUME NEW id \in Labels, keys[id] # Absent
      PROVE  /\ at(id) \in Kept(roster)
             /\ roster[at(id)].id = id
             /\ keys[id].name = roster[at(id)].name
    <2>1. LastWith(roster, id) # {}
        BY <1>1 DEF RosterKeys
    <2>2. at(id) \in LastWith(roster, id)
        BY <2>1
    <2> QED
        BY <2>1, <2>2 DEF RosterKeys, LastWith
<1>2. ASSUME NEW i \in Kept(roster), NEW j \in Kept(roster),
             EntryDisplay(roster[i]) = EntryDisplay(roster[j])
      PROVE  i = j
    <2>1. i \in Nat \ {0} /\ j \in Nat \ {0}
        BY DEF Kept
    <2>2. ~(i < j)
        BY <1>2, <2>1 DEF Kept
    <2>3. ~(j < i)
        BY <1>2, <2>1 DEF Kept
    <2> QED
        BY <2>1, <2>2, <2>3
<1>3. SUFFICES ASSUME NEW id1 \in Labels, NEW id2 \in Labels,
                      keys[id1] # Absent, keys[id2] # Absent,
                      display_id(keys[id1].name, id1) = display_id(keys[id2].name, id2)
               PROVE  id1 = id2
    BY DEF UniqueDisplays
<1>4. /\ at(id1) \in Kept(roster) /\ roster[at(id1)].id = id1
      /\ keys[id1].name = roster[at(id1)].name
    BY <1>1, <1>3
<1>5. /\ at(id2) \in Kept(roster) /\ roster[at(id2)].id = id2
      /\ keys[id2].name = roster[at(id2)].name
    BY <1>1, <1>3
<1>6. EntryDisplay(roster[at(id1)]) = EntryDisplay(roster[at(id2)])
    BY <1>3, <1>4, <1>5 DEF EntryDisplay
<1> QED
    BY <1>2, <1>4, <1>5, <1>6

\* Display ids are unique in every snapshot the store ever serves from.
THEOREM DisplayIdsStayUnique == Spec => []DisplayIdsUnique
<1>1. Init => DisplayIdsUnique
    BY RosterDisplaysUnique, SeedAssumption
    DEF Init, from_config, DisplayIdsUnique, UniqueDisplays
<1>2. TypeOK /\ DisplayIdsUnique /\ [Next]_vars => DisplayIdsUnique'
    <2> SUFFICES ASSUME TypeOK, DisplayIdsUnique, [Next]_vars
                 PROVE  DisplayIdsUnique'
        OBVIOUS
    <2>1. ASSUME NEW roster \in Rosters, install_identities(roster)
          PROVE  DisplayIdsUnique'
        <3>1. UniqueDisplays(RosterKeys(snapshot.keys, roster))
            BY RosterDisplaysUnique, PullAssumption
        <3>2. snapshot'.keys = RosterKeys(snapshot.keys, roster)
            BY <2>1 DEF install_identities
        <3> QED
            BY <3>1, <3>2 DEF DisplayIdsUnique, UniqueDisplays
    <2>2. ASSUME NEW overlay \in Overlays, install_verdicts(overlay)
          PROVE  DisplayIdsUnique'
        <3>1. snapshot'.keys = WithVerdicts(snapshot.keys, overlay)
            BY <2>2 DEF install_verdicts, TypeOK, Snapshots
        <3>2. \A id \in Labels :
                 /\ snapshot'.keys[id] = Absent <=> snapshot.keys[id] = Absent
                 /\ snapshot.keys[id] # Absent => snapshot'.keys[id].name = snapshot.keys[id].name
            BY <3>1, WithVerdictsType DEF TypeOK, Snapshots
        <3> QED
            BY <3>2 DEF DisplayIdsUnique
    <2>3. ASSUME snapshot' = snapshot
          PROVE  DisplayIdsUnique'
        BY <2>3 DEF DisplayIdsUnique
    <2> QED
        BY <2>1, <2>2, <2>3
        DEF Next, Arrive, WarmHit, WarmMiss, ColdReject, ColdAccept, ListModels, Leave, Tick, vars
<1> QED
    BY <1>1, <1>2, TypeCorrect, PTL DEF Spec

\* The scope a listing finds by display id is that key's own permission set.
THEOREM ScopeIsEnforcement == Spec => []ScopeAgreesWithEnforce
<1>1. DisplayIdsUnique => ScopeAgreesWithEnforce
    <2> SUFFICES ASSUME DisplayIdsUnique, NEW id \in Labels, snapshot.keys[id] # Absent
                 PROVE  model_scope(snapshot, display_id(snapshot.keys[id].name, id)) =
                            {m \in Models : ModelPermitted(snapshot.keys[id], m)}
        BY DEF ScopeAgreesWithEnforce
    <2> DEFINE who == display_id(snapshot.keys[id].name, id)
    <2>1. ScopeHolders(snapshot, who) = {id}
        BY DEF ScopeHolders, DisplayIdsUnique
    <2> QED
        BY <2>1 DEF model_scope
<1> QED
    BY <1>1, DisplayIdsStayUnique, PTL

-----------------------------------------------------------------------------
(* Refinement: the store with its cache implements the store without one *)

\* Both specifications compute with the same pure functions.
LEMMA SameDecide ==
    ASSUME NEW snap, NEW token, NEW model, NEW now
    PROVE  Gate!Decide(snap, token, model, now) = Decide(snap, token, model, now)
BY DEF Decide, enforce, verify, Refused, Suspended, ModelPermitted, LayerPermits, allow_set_permits, display_id,
       Gate!Decide, Gate!enforce, Gate!verify, Gate!Refused, Gate!Suspended, Gate!ModelPermitted, Gate!LayerPermits, Gate!allow_set_permits, Gate!display_id

LEMMA SameRosterKeys ==
    ASSUME NEW prev, NEW roster
    PROVE  Gate!RosterKeys(prev, roster) = RosterKeys(prev, roster)
BY DEF RosterKeys, LastWith, Kept, EntryDisplay, display_id, has_control_bytes, allow_list, default_verdict,
       Gate!RosterKeys, Gate!LastWith, Gate!Kept, Gate!EntryDisplay, Gate!display_id, Gate!has_control_bytes, Gate!allow_list, Gate!default_verdict

LEMMA SameWithVerdicts ==
    ASSUME NEW keys, NEW overlay
    PROVE  Gate!WithVerdicts(keys, overlay) = WithVerdicts(keys, overlay)
BY DEF WithVerdicts, default_verdict,
       Gate!WithVerdicts, Gate!default_verdict

\* A step of one call is a step of one abstract call.
LEMMA OneCallMoves ==
    ASSUME NEW r \in Requests, NEW call, calls \in [Requests -> Calls \cup {NoCall}],
           calls' = [calls EXCEPT ![r] = call]
    PROVE  [q \in Requests |-> GateCall(calls[q])]' =
              [[q \in Requests |-> GateCall(calls[q])] EXCEPT ![r] = GateCall(call)]
OBVIOUS

\* The answer of one call is the abstract answer, taken from the call's own snapshot.
LEMMA AnswerImplementsGate ==
    ASSUME TypeOK, NEW r \in Requests, NEW outcome,
           calls[r] # NoCall, calls[r].pc \in {"lookup", "cold"},
           calls' = [calls EXCEPT ![r] = [calls[r] EXCEPT !.pc = "answered", !.outcome = outcome]],
           outcome = Decide(calls[r].snap, calls[r].token, calls[r].model, calls[r].now),
           UNCHANGED <<snapshot, clock>>
    PROVE  Gate!Answer(r)
<1> DEFINE call == calls[r]
           next == [call EXCEPT !.pc = "answered", !.outcome = outcome]
<1>1. call \in Calls
    BY DEF TypeOK
<1>2. GateCall(call) = [pc |-> "deciding", token |-> call.token, model |-> call.model,
                        now |-> call.now, snap |-> call.snap]
    BY DEF GateCall
<1>3. next \in [pc : {"answered"}, token : Tokens, model : Models \cup {NoModel}, now : Nat,
                snap : Snapshots, outcome : {outcome}, shown : SUBSET Models]
    BY <1>1 DEF Calls
<1>4. next # NoCall
    <2>1. outcome \in Outcomes
        BY <1>1, DecideType DEF Calls
    <2> QED
        BY <1>3, <2>1, SlotAssumption DEF Calls
<1>5. GateCall(next) = [pc |-> "answered", model |-> call.model, snap |-> call.snap,
                        outcome |-> outcome]
    BY <1>1, <1>3, <1>4 DEF GateCall, Calls
<1>6. [q \in Requests |-> GateCall(calls[q])]' =
          [[q \in Requests |-> GateCall(calls[q])] EXCEPT ![r] = GateCall(next)]
    BY OneCallMoves DEF TypeOK
<1>7. LET abs == [q \in Requests |-> GateCall(calls[q])][r] IN
      /\ abs.pc = "deciding" /\ abs.token = call.token /\ abs.model = call.model
      /\ abs.now = call.now /\ abs.snap = call.snap
    BY <1>2
<1>8. outcome = Gate!Decide(call.snap, call.token, call.model, call.now)
    BY SameDecide
<1>9. LET abs == [q \in Requests |-> GateCall(calls[q])][r] IN
      GateCall(next) = [pc |-> "answered", model |-> abs.model, snap |-> abs.snap,
                        outcome |-> Gate!Decide(abs.snap, abs.token, abs.model, abs.now)]
    BY <1>5, <1>7, <1>8
<1> HIDE DEF next
<1> QED
    BY <1>6, <1>7, <1>9 DEF Gate!Answer

\* Every behaviour of the store is one of the cacheless store.
THEOREM StoreImplementsGate == Spec => ImplementsGate
<1>1. Init => Gate!Init
    BY SameRosterKeys DEF Init, Gate!Init, GateCall, Gate!IdleCall, from_config, Gate!from_config
<1>2. TypeOK /\ CacheInv /\ [Next]_vars => [Gate!Next]_(Gate!gateVars)
    <2> SUFFICES ASSUME TypeOK, CacheInv, [Next]_vars
                 PROVE  [Gate!Next]_(Gate!gateVars)
        OBVIOUS
    <2>1. ASSUME NEW r \in Requests, NEW token \in Tokens, NEW model \in Models \cup {NoModel},
                 Arrive(r, token, model)
          PROVE  Gate!Next
        <3> DEFINE call == [pc |-> "lookup", token |-> token, model |-> model, now |-> clock,
                            snap |-> snapshot, outcome |-> Pending, shown |-> {}]
        <3>1. call # NoCall
            BY SlotAssumption DEF TypeOK, Calls
        <3>2. GateCall(call) = [pc |-> "deciding", token |-> token, model |-> model,
                                now |-> clock, snap |-> snapshot]
            BY <3>1 DEF GateCall
        <3>3. [q \in Requests |-> GateCall(calls[q])]' =
                  [[q \in Requests |-> GateCall(calls[q])] EXCEPT ![r] = GateCall(call)]
            BY <2>1, OneCallMoves DEF TypeOK, Arrive
        <3>4. Gate!Arrive(r)
            BY <2>1, <3>2, <3>3 DEF Gate!Arrive, Arrive, GateCall
        <3> QED
            BY <3>4 DEF Gate!Next
    <2>2. ASSUME NEW r \in Requests, WarmHit(r)
          PROVE  Gate!Next
        <3> DEFINE id == verified[calls[r].token].id
                   outcome == enforce(calls[r].snap.keys[id], id, calls[r].model, calls[r].now)
        <3>1. Genuine(calls[r]) /\ id = Credential[calls[r].token].id
            BY <2>2, TrustedIsGenuine DEF WarmHit, At
        <3>2. outcome = Decide(calls[r].snap, calls[r].token, calls[r].model, calls[r].now)
            BY <3>1, DecideByGenuine
        <3>3. calls' = [calls EXCEPT ![r] = [calls[r] EXCEPT !.pc = "answered", !.outcome = outcome]]
            BY <2>2 DEF WarmHit, TypeOK
        <3>4. Gate!Answer(r)
            BY <2>2, <3>2, <3>3, AnswerImplementsGate DEF WarmHit, At
        <3> QED
            BY <3>4 DEF Gate!Next
    <2>3. ASSUME NEW r \in Requests, WarmMiss(r)
          PROVE  UNCHANGED Gate!gateVars
        <3> DEFINE next == [calls[r] EXCEPT !.pc = "cold"]
        <3>1. calls[r] \in Calls /\ calls[r].pc = "lookup" /\ calls[r] # NoCall
            BY <2>3 DEF WarmMiss, At, TypeOK
        <3>2. next \in Calls
            BY <3>1 DEF Calls
        <3>3. GateCall(next) = GateCall(calls[r])
            BY <3>1, <3>2, SlotAssumption DEF GateCall, Calls
        <3>4. [q \in Requests |-> GateCall(calls[q])]' =
                  [[q \in Requests |-> GateCall(calls[q])] EXCEPT ![r] = GateCall(next)]
            BY <2>3, OneCallMoves DEF TypeOK, WarmMiss
        <3> QED
            BY <2>3, <3>3, <3>4 DEF Gate!gateVars, WarmMiss
    <2>4. ASSUME NEW r \in Requests, ColdReject(r)
          PROVE  Gate!Next
        <3>1. Refused("unknown") = Decide(calls[r].snap, calls[r].token, calls[r].model, calls[r].now)
            BY <2>4, DecideByGenuine DEF ColdReject
        <3>2. calls' = [calls EXCEPT ![r] =
                  [calls[r] EXCEPT !.pc = "answered", !.outcome = Refused("unknown")]]
            BY <2>4 DEF ColdReject, TypeOK
        <3>3. Gate!Answer(r)
            BY <2>4, <3>1, <3>2, AnswerImplementsGate DEF ColdReject, At
        <3> QED
            BY <3>3 DEF Gate!Next
    <2>5. ASSUME NEW r \in Requests, ColdAccept(r)
          PROVE  Gate!Next
        <3> DEFINE id == Credential[calls[r].token].id
                   outcome == enforce(calls[r].snap.keys[id], id, calls[r].model, calls[r].now)
        <3>1. outcome = Decide(calls[r].snap, calls[r].token, calls[r].model, calls[r].now)
            BY <2>5, DecideByGenuine DEF ColdAccept
        <3>2. calls' = [calls EXCEPT ![r] = [calls[r] EXCEPT !.pc = "answered", !.outcome = outcome]]
            BY <2>5 DEF ColdAccept, TypeOK
        <3>3. Gate!Answer(r)
            BY <2>5, <3>1, <3>2, AnswerImplementsGate DEF ColdAccept, At
        <3> QED
            BY <3>3 DEF Gate!Next
    <2>6. ASSUME NEW r \in Requests, ListModels(r)
          PROVE  UNCHANGED Gate!gateVars
        <3> DEFINE shown == model_scope(snapshot, calls[r].outcome.who)
                   next == [calls[r] EXCEPT !.pc = "listed", !.shown = shown]
        <3>1. calls[r] \in Calls /\ calls[r].pc = "answered" /\ calls[r] # NoCall
            BY <2>6 DEF ListModels, At, TypeOK
        <3>2. shown \in SUBSET Models
            BY ScopeType
        <3>3. next \in Calls
            BY <3>1, <3>2 DEF Calls
        <3>4. GateCall(next) = GateCall(calls[r])
            BY <3>1, <3>3, SlotAssumption DEF GateCall, Calls
        <3>5. [q \in Requests |-> GateCall(calls[q])]' =
                  [[q \in Requests |-> GateCall(calls[q])] EXCEPT ![r] = GateCall(next)]
            BY <2>6, OneCallMoves DEF TypeOK, ListModels
        <3> QED
            BY <2>6, <3>4, <3>5 DEF Gate!gateVars, ListModels
    <2>7. ASSUME NEW r \in Requests, Leave(r)
          PROVE  Gate!Next
        <3>1. calls[r] # NoCall /\ calls[r].pc \in {"answered", "listed"}
            BY <2>7 DEF Leave, At
        <3>2. [q \in Requests |-> GateCall(calls[q])]' =
                  [[q \in Requests |-> GateCall(calls[q])] EXCEPT ![r] = GateCall(NoCall)]
            BY <2>7, OneCallMoves DEF TypeOK, Leave
        <3>3. Gate!Leave(r)
            BY <2>7, <3>1, <3>2 DEF Gate!Leave, Gate!IdleCall, GateCall, Leave
        <3> QED
            BY <3>3 DEF Gate!Next
    <2>8. ASSUME NEW roster \in Rosters, install_identities(roster)
          PROVE  Gate!Next
        BY <2>8, SameRosterKeys DEF install_identities, Gate!Next, Gate!InstallIdentities
    <2>9. ASSUME NEW overlay \in Overlays, install_verdicts(overlay)
          PROVE  Gate!Next
        BY <2>9, SameWithVerdicts DEF install_verdicts, Gate!Next, Gate!InstallVerdicts
    <2>10. CASE Tick
        BY <2>10 DEF Tick, Gate!Next, Gate!Tick
    <2>11. CASE UNCHANGED vars
        BY <2>11 DEF vars, Gate!gateVars
    <2> QED
        BY <2>1, <2>2, <2>3, <2>4, <2>5, <2>6, <2>7, <2>8, <2>9, <2>10, <2>11 DEF Next
<1> QED
    BY <1>1, <1>2, TypeCorrect, CacheIsSound, PTL DEF Spec, ImplementsGate, Gate!Spec

-----------------------------------------------------------------------------
(* Verdicts across pulls *)

\* For every roster and overlay: a step that changes the generation is an identity pull, and it
\* carries the verdict of every key it keeps.
THEOREM VerdictsAreKept == Spec => VerdictsSurviveIdentityPull
<1> DEFINE VerdictsCarried ==
        snapshot'.identity_gen # snapshot.identity_gen =>
            \A id \in Labels :
                snapshot.keys[id] # Absent /\ snapshot'.keys[id] # Absent =>
                    snapshot'.keys[id].verdict = snapshot.keys[id].verdict
<1>1. TypeOK /\ [Next]_vars => [VerdictsCarried]_vars
    <2> SUFFICES ASSUME TypeOK, Next,
                        snapshot'.identity_gen # snapshot.identity_gen,
                        NEW id \in Labels, snapshot.keys[id] # Absent, snapshot'.keys[id] # Absent
                 PROVE  snapshot'.keys[id].verdict = snapshot.keys[id].verdict
        OBVIOUS
    <2>1. ASSUME NEW roster \in Rosters, install_identities(roster)
          PROVE  snapshot'.keys[id].verdict = snapshot.keys[id].verdict
        <3>1. snapshot'.keys = RosterKeys(snapshot.keys, roster)
            BY <2>1 DEF install_identities
        <3> QED
            BY <3>1 DEF RosterKeys
    <2>2. ASSUME NEW overlay \in Overlays, install_verdicts(overlay)
          PROVE  FALSE
        BY <2>2 DEF install_verdicts, TypeOK, Snapshots
    <2>3. ASSUME snapshot' = snapshot
          PROVE  FALSE
        BY <2>3
    <2> QED
        BY <2>1, <2>2, <2>3
        DEF Next, Arrive, WarmHit, WarmMiss, ColdReject, ColdAccept, ListModels, Leave, Tick
<1> QED
    BY <1>1, TypeCorrect, PTL DEF Spec, VerdictsSurviveIdentityPull
=============================================================================
