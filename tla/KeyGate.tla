------------------------------ MODULE KeyGate ------------------------------
(***************************************************************************)
(* What the key store promises: a store without a verification cache.      *)
(* Every request takes the snapshot that is current when it starts, runs   *)
(* the password check against that snapshot and is judged by its verdict.  *)
(* KeyStore adds the cache of proven tokens and is shown to implement this *)
(* specification: the cache changes the cost of an answer, never the       *)
(* answer.                                                                 *)
(***************************************************************************)
EXTENDS KeyPolicy

CONSTANTS
    Seed,       \* the [[keys]] of the config file
    Rosters,    \* what the identity endpoint may answer
    Overlays,   \* what the limits endpoint may answer
    Requests,   \* request slots that may be in flight together
    MaxGen,     \* bound: identity installs
    MaxTime     \* bound: the clock

VARIABLES
    snapshot,   \* the snapshot new requests clone
    clock,      \* unix seconds
    calls       \* one record per request slot

gateVars == <<snapshot, clock, calls>>

IdleCall == [pc |-> "idle"]

Init ==
    /\ snapshot = [keys |-> from_config(Seed), identity_gen |-> 0]
    /\ clock = 0
    /\ calls = [r \in Requests |-> IdleCall]

\* A request arrives and is bound to the snapshot of that moment.
Arrive(r) ==
    /\ calls[r].pc = "idle"
    /\ UNCHANGED <<snapshot, clock>>
    /\ \E token \in Tokens, model \in Models \cup {NoModel} :
          calls' = [calls EXCEPT ![r] = [pc |-> "deciding", token |-> token, model |-> model,
                                         now |-> clock, snap |-> snapshot]]

\* It is answered from that snapshot alone.
Answer(r) ==
    /\ calls[r].pc = "deciding"
    /\ calls' = [calls EXCEPT ![r] =
          [pc |-> "answered", model |-> calls[r].model, snap |-> calls[r].snap,
           outcome |-> Decide(calls[r].snap, calls[r].token, calls[r].model, calls[r].now)]]
    /\ UNCHANGED <<snapshot, clock>>

Leave(r) ==
    /\ calls[r].pc = "answered"
    /\ calls' = [calls EXCEPT ![r] = IdleCall]
    /\ UNCHANGED <<snapshot, clock>>

InstallIdentities(roster) ==
    /\ snapshot.identity_gen < MaxGen
    /\ snapshot' = [keys |-> RosterKeys(snapshot.keys, roster),
                    identity_gen |-> snapshot.identity_gen + 1]
    /\ UNCHANGED <<clock, calls>>

InstallVerdicts(overlay) ==
    /\ snapshot' = [snapshot EXCEPT !.keys = WithVerdicts(snapshot.keys, overlay)]
    /\ UNCHANGED <<clock, calls>>

Tick ==
    /\ clock < MaxTime
    /\ clock' = clock + 1
    /\ UNCHANGED <<snapshot, calls>>

Next ==
    \/ \E r \in Requests : Arrive(r) \/ Answer(r) \/ Leave(r)
    \/ \E roster \in Rosters : InstallIdentities(roster)
    \/ \E overlay \in Overlays : InstallVerdicts(overlay)
    \/ Tick

Spec == Init /\ [][Next]_gateVars
=============================================================================
