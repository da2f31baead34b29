--------------------------- MODULE LoginThrottle ----------------------------
(***************************************************************************)
(* The operator logins of the web control plane (llmleaf-web: auth/mod.rs  *)
(* login and oidc_login) behind the failed-attempt throttle of their       *)
(* client address (auth/throttle.rs). Handlers run concurrently: between   *)
(* an attempt's check and its outcome any others may pass. Time is kept as *)
(* the age of each window, no older than WINDOW.                           *)
(***************************************************************************)
EXTENDS Integers, FiniteSets

CONSTANTS
    Addresses,      \* client addresses
    Attempts,       \* the attempts that may be in flight at once
    MAX_FAILURES,
    WINDOW,         \* in ticks
    MaxEntries,     \* entries the map holds before elapsed windows are dropped
    MaxRecent,      \* bound: failures remembered for an address
    None

VARIABLES
    entries,        \* address -> None, or [failures, age] of its window
    attempts,       \* attempt -> None, or the address it was let through for
    recent          \* history: address -> failures since its last success, as [age, nth]

vars == <<entries, attempts, recent>>

Elapsed(e) == e.age >= WINDOW

-----------------------------------------------------------------------------
(* throttle.rs.                                                            *)

\* Mutant: a count that has reached the limit locks out whenever it was reached.
LockedForGood(e) == e # None /\ e.failures >= MAX_FAILURES
Locked(e) == e # None /\ e.failures >= MAX_FAILURES /\ ~Elapsed(e)

\* One more failure, in the current window or in a new one.
Count(e) ==
    IF e = None \/ Elapsed(e) THEN [failures |-> 1, age |-> 0]
    ELSE [e EXCEPT !.failures = @ + 1]

\* Mutant: a full map is emptied.
RetainNone(all) == [ip \in Addresses |-> None]
\* Only entries whose window has elapsed are dropped.
Retain(all) == [ip \in Addresses |-> IF all[ip] # None /\ Elapsed(all[ip]) THEN None ELSE all[ip]]

Held(all) == Cardinality({ip \in Addresses : all[ip] # None})

\* The failures of an address since the last tick.
Fresh(ip) == {f \in recent[ip] : f.age = 0}

RecordFailure(ip) ==
    LET counted == [entries EXCEPT ![ip] = Count(@)]
    IN /\ entries' = IF Held(counted) > MaxEntries THEN Retain(counted) ELSE counted
       /\ recent' = [recent EXCEPT ![ip] = @ \cup {[age |-> 0, nth |-> Cardinality(Fresh(ip))]}]

Reset(ip) ==
    /\ entries' = [entries EXCEPT ![ip] = None]
    /\ recent' = [recent EXCEPT ![ip] = {}]

-----------------------------------------------------------------------------

Init ==
    /\ entries = [ip \in Addresses |-> None]
    /\ attempts = [a \in Attempts |-> None]
    /\ recent = [ip \in Addresses |-> {}]

\* check: the attempt goes on, or is refused at once.
Check(a, ip) ==
    /\ attempts[a] = None
    /\ attempts' = IF Locked(entries[ip]) THEN attempts ELSE [attempts EXCEPT ![a] = ip]
    /\ UNCHANGED <<entries, recent>>

\* login: a wrong password; oidc_login: begin_login failed.
Fail(a) ==
    /\ attempts[a] # None /\ Cardinality(recent[attempts[a]]) < MaxRecent
    /\ RecordFailure(attempts[a])
    /\ attempts' = [attempts EXCEPT ![a] = None]

\* login: the right password, whatever happens to its session.
Succeed(a) ==
    /\ attempts[a] # None
    /\ Reset(attempts[a])
    /\ attempts' = [attempts EXCEPT ![a] = None]

\* oidc_login: the browser is sent to the identity provider, or the client goes away.
Leave(a) ==
    /\ attempts[a] # None
    /\ attempts' = [attempts EXCEPT ![a] = None]
    /\ UNCHANGED <<entries, recent>>

Older(e) == IF e = None \/ Elapsed(e) THEN e ELSE [e EXCEPT !.age = @ + 1]

Aged(failures) ==
    {[f EXCEPT !.age = @ + 1] : f \in {g \in failures : g.age + 1 < WINDOW}}

Tick ==
    /\ entries' = [ip \in Addresses |-> Older(entries[ip])]
    /\ recent' = [ip \in Addresses |-> Aged(recent[ip])]
    /\ UNCHANGED attempts

\* The state is the process's own.
Restart ==
    /\ entries' = [ip \in Addresses |-> None]
    /\ attempts' = [a \in Attempts |-> None]
    /\ recent' = [ip \in Addresses |-> {}]

Next ==
    \/ \E a \in Attempts, ip \in Addresses : Check(a, ip)
    \/ \E a \in Attempts : Fail(a) \/ Succeed(a) \/ Leave(a)
    \/ Tick \/ Restart

Spec == Init /\ [][Next]_vars

-----------------------------------------------------------------------------
(* Properties.                                                             *)

\* A window's count never passes the budget by more than the attempts that were let
\* through before it was spent: nothing is checked and counted as one step.
Window == [failures : 1..(MAX_FAILURES + Cardinality(Attempts) - 1), age : 0..WINDOW]
BudgetHolds ==
    /\ entries \in [Addresses -> {None} \cup Window]
    /\ attempts \in [Attempts -> {None} \cup Addresses]

\* An entry counts every failure of its window and none of an earlier one: the failures
\* since its first, unless they were cleared by a success.
CountsItsWindow ==
    \A ip \in Addresses :
        entries[ip] # None /\ ~Elapsed(entries[ip]) =>
            entries[ip].failures = Cardinality({f \in recent[ip] : f.age <= entries[ip].age})

\* A lockout ends only when its window has elapsed, by a success from that address, or
\* with the process; failures of other addresses never lift it.
LockoutStands ==
    \A ip \in Addresses :
        Locked(entries[ip]) /\ ~Locked(entries'[ip]) =>
           \/ Elapsed(Older(entries[ip])) /\ entries'[ip] = Older(entries[ip])
           \/ \E a \in Attempts : attempts[a] = ip /\ Succeed(a)
           \/ Restart
=============================================================================
