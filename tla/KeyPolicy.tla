----------------------------- MODULE KeyPolicy -----------------------------
(***************************************************************************)
(* The data of llmleaf's virtual keys and the pure functions the key store *)
(* (crates/llmleaf-core/src/keys.rs) computes over it: how a roster becomes *)
(* the identity layer, how a verdict overlay is laid over it, and what a   *)
(* presented credential is worth against one snapshot.                     *)
(*                                                                         *)
(* Strings are abstracted to what the code tells apart.  A label is a key  *)
(* id or a friendly name.  A token is an opaque bearer string; Credential  *)
(* says what it decodes to, so several tokens may carry one credential     *)
(* (padded and unpadded base64).  A pattern of an allow-list is the set of *)
(* models it matches: an exact entry is a singleton, a bare "*" is Models. *)
(***************************************************************************)
EXTENDS Naturals, Sequences

CONSTANTS
    Labels,        \* strings used as key ids and as friendly names
    CtrlLabels,    \* the labels that hold an ASCII control byte
    Models,        \* logical model names
    Passwords,     \* plaintext passwords
    Hashes,        \* crypt(3) strings
    Verifies,      \* the pairs <<password, hash>> that pwhash accepts
    Tokens,        \* bearer strings
    Credential,    \* Credential[t]: the [id, password] t decodes to, or Malformed
    Malformed,     \* not base64, too long, or no colon
    Absent,        \* no such key in a snapshot
    NoName,        \* Option::None for a friendly name
    NoList,        \* Option::None for an allow-list
    NoModel,       \* the surface carries no model
    NoTime         \* Option::None for suspended_until

ASSUME LabelAssumption == CtrlLabels \subseteq Labels

ASSUME CredentialAssumption ==
    Credential \in [Tokens -> [id : Labels, password : Passwords] \cup {Malformed}]

ASSUME SentinelAssumption ==
    /\ Malformed \notin [id : Labels, password : Passwords]
    /\ NoName \notin Labels
    /\ NoModel \notin Models
    /\ NoTime \notin Nat
    /\ \A list \in SUBSET (SUBSET Models) : list # NoList

-----------------------------------------------------------------------------
(* Types *)

AllowLists == {NoList} \cup SUBSET (SUBSET Models)

Verdicts == [blocked : BOOLEAN, suspended_until : Nat \cup {NoTime},
             allowed_models : AllowLists]

KeyStates == [name : Labels \cup {NoName}, pw_hash : Hashes,
              config_allowed : AllowLists, verdict : Verdicts]

\* One entry of an identity pull.
Identities == [id : Labels, pw_hash : Hashes, name : Labels \cup {NoName},
               allowed_models : AllowLists]

ASSUME AbsentAssumption == Absent \notin KeyStates

\* An immutable view of all keys: what the hot path clones.
Snapshots == [keys : [Labels -> KeyStates \cup {Absent}], identity_gen : Nat]

\* What an authorization answers: the display id, or why not.
Outcomes == [kind : {"ok", "unknown", "blocked", "suspended", "model_not_allowed"},
             who : Labels \cup {NoName}]

Refused(why) == [kind |-> why, who |-> NoName]

default_verdict == [blocked |-> FALSE, suspended_until |-> NoTime,
                    allowed_models |-> NoList]

-----------------------------------------------------------------------------
(* Enforcement against one snapshot *)

verify(password, pw_hash) == <<password, pw_hash>> \in Verifies

display_id(name, id) == IF name = NoName THEN id ELSE name

\* A configured list with a bare "*" is no restriction at all.
allow_list(models) == IF models # NoList /\ Models \in models THEN NoList ELSE models

allow_set_permits(set, model) == \E pattern \in set : model \in pattern

\* A layer that is absent permits everything.
LayerPermits(list, model) == list = NoList \/ allow_set_permits(list, model)

Suspended(verdict, now) == verdict.suspended_until # NoTime /\ now < verdict.suspended_until

\* Both layers, the config base and the verdict overlay, must permit the model.
ModelPermitted(state, model) ==
    /\ LayerPermits(state.config_allowed, model)
    /\ LayerPermits(state.verdict.allowed_models, model)

\* blocked, then suspended, then the config allow-list, then the verdict's.
enforce(state, id, model, now) ==
    IF state.verdict.blocked THEN Refused("blocked")
    ELSE IF Suspended(state.verdict, now) THEN Refused("suspended")
    ELSE IF model # NoModel /\ ~ModelPermitted(state, model) THEN Refused("model_not_allowed")
    ELSE [kind |-> "ok", who |-> display_id(state.name, id)]

\* The answer a store that ran the KDF on every request would give.
Decide(snap, token, model, now) ==
    LET cred == Credential[token] IN
    IF \/ cred = Malformed
       \/ snap.keys[cred.id] = Absent
       \/ ~verify(cred.password, snap.keys[cred.id].pw_hash)
    THEN Refused("unknown")
    ELSE enforce(snap.keys[cred.id], cred.id, model, now)

(* The scope a listing applies to the key shown as `who'. *)

ScopeHolders(snap, who) ==
    {id \in Labels : /\ snap.keys[id] # Absent
                     /\ display_id(snap.keys[id].name, id) = who}

\* The models the scope permits; an unknown display id has no scope, which the
\* listing reads as unrestricted.
model_scope(snap, who) ==
    IF ScopeHolders(snap, who) = {} THEN Models
    ELSE LET state == snap.keys[CHOOSE id \in ScopeHolders(snap, who) : TRUE] IN
         {m \in Models : ModelPermitted(state, m)}

-----------------------------------------------------------------------------
(* Installing what a pull brought *)

has_control_bytes(entry) ==
    entry.id \in CtrlLabels \/ entry.name \in CtrlLabels

\* Mutant: duplicates are looked for among the ids alone.
EntryDisplayById(entry) == entry.id

EntryDisplay(entry) == display_id(entry.name, entry.id)

\* Mutant: no duplicate check.
KeptWithDuplicates(roster) == {i \in DOMAIN roster : ~has_control_bytes(roster[i])}

\* The entries that survive the integrity rules: no control bytes, and the first
\* one to claim a display id.
Kept(roster) ==
    {i \in DOMAIN roster :
        /\ ~has_control_bytes(roster[i])
        /\ \A j \in 1 .. (i - 1) :
              has_control_bytes(roster[j]) \/ EntryDisplay(roster[j]) # EntryDisplay(roster[i])}

\* Of the survivors with one id, the last overwrites the others in the map.
LastWith(roster, id) ==
    {i \in Kept(roster) :
        /\ roster[i].id = id
        /\ \A j \in Kept(roster) : roster[j].id = id => j <= i}

\* Mutant: the new layer starts without verdicts.
RosterKeysReset(prev, roster) ==
    [id \in Labels |->
        IF LastWith(roster, id) = {} THEN Absent
        ELSE LET entry == roster[CHOOSE i \in LastWith(roster, id) : TRUE] IN
             [name |-> entry.name,
              pw_hash |-> entry.pw_hash,
              config_allowed |-> allow_list(entry.allowed_models),
              verdict |-> default_verdict]]

\* The identity layer of a roster over the previous keys: a surviving key keeps
\* its verdict, a new one starts with none.
RosterKeys(prev, roster) ==
    [id \in Labels |->
        IF LastWith(roster, id) = {} THEN Absent
        ELSE LET entry == roster[CHOOSE i \in LastWith(roster, id) : TRUE] IN
             [name |-> entry.name,
              pw_hash |-> entry.pw_hash,
              config_allowed |-> allow_list(entry.allowed_models),
              verdict |-> IF prev[id] = Absent THEN default_verdict ELSE prev[id].verdict]]

\* A verdict overlay replaces every key's verdict; a key it does not name gets
\* the default, a name that is no key is dropped.
WithVerdicts(keys, overlay) ==
    [id \in Labels |->
        IF keys[id] = Absent THEN Absent
        ELSE [keys[id] EXCEPT !.verdict =
                IF id \in DOMAIN overlay THEN overlay[id] ELSE default_verdict]]

(* The config base *)

\* What the load-time check demands of [[keys]]; a file that fails it is refused.
validate_keys(keys) ==
    /\ \A i \in DOMAIN keys : ~has_control_bytes(keys[i])
    /\ \A i, j \in DOMAIN keys :
          i # j => keys[i].id # keys[j].id /\ EntryDisplay(keys[i]) # EntryDisplay(keys[j])

\* A validated key list has no duplicate to drop, so loading it is installing it
\* over no keys at all.  A key whose env: hash is unset is left out of the list.
from_config(keys) == RosterKeys([id \in Labels |-> Absent], keys)
=============================================================================
