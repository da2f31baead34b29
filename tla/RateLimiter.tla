---------------------------- MODULE RateLimiter ----------------------------
(***************************************************************************)
(* Node-local admission to one provider, crates/llmleaf-core/src/          *)
(* ratelimit.rs.  A provider has a global scope and one per model; a scope *)
(* may limit concurrency (a semaphore), requests per minute and tokens per *)
(* minute (token buckets refilled lazily).  try_admit is not atomic: each  *)
(* dimension of each scope has its own lock or atomic, taken in turn, with *)
(* the clock value the caller read when its walk of the chain began.       *)
(* Providers share nothing in this module, so one stands for all.          *)
(***************************************************************************)
EXTENDS TokenBucket, FiniteSets, FiniteSetsExt

CONSTANTS
    Models,         \* the provider's models
    Global,         \* the provider-wide scope
    MaxConcurrent,  \* scope -> permits
    Rpm,            \* scope -> requests per minute
    Tpm,            \* scope -> tokens per minute
    Costs,          \* token counts a response may report
    Requests,       \* request slots that may be in flight together
    MaxTime,        \* bound: the clock
    NoWindow        \* no observation window is open

VARIABLES
    available,  \* scope -> free permits of its semaphore
    rpm,        \* scope -> BucketState of the requests/min bucket
    tpm,        \* scope -> BucketState of the tokens/min bucket
    clock,      \* the monotonic clock
    calls,      \* one admission, then its guard, per request slot
    taken,      \* history: scope -> request tokens taken and not refunded
    window      \* history: an arbitrary moment from which to count

vars == <<available, rpm, tpm, clock, calls, taken, window>>

Scopes == {Global} \cup Models

ASSUME ScopeAssumption == Global \notin Models /\ Models # {} /\ IsFiniteSet(Models)
ASSUME RequestAssumption == IsFiniteSet(Requests)
ASSUME CostAssumption == Costs \subseteq Nat
ASSUME LimitAssumption ==
    /\ MaxConcurrent \in [Scopes -> Limits]
    /\ Rpm \in [Scopes -> Limits]
    /\ Tpm \in [Scopes -> Limits]

\* A slot's life: idle, the three stages of try_admit at one scope after the other,
\* the undo of the global take, the guard held, and a usage report being debited.
Calls == [pc : {"idle", "permit", "floor", "take", "refund", "admitted", "debit", "reported"},
          at : Scopes, model : Models, now : Nat, cost : Nat,
          held : SUBSET Scopes, took : SUBSET Scopes]

Windows == [since : Nat, base : [Scopes -> Int]]
ASSUME WindowAssumption == NoWindow \notin Windows

TypeOK ==
    /\ available \in [Scopes -> Nat]
    /\ rpm \in [Scopes -> Buckets]
    /\ tpm \in [Scopes -> Buckets]
    /\ clock \in Nat
    /\ calls \in [Requests -> Calls]
    /\ taken \in [Scopes -> Int]
    /\ window \in {NoWindow} \cup Windows

Idle(m) == [pc |-> "idle", at |-> Global, model |-> m, now |-> 0, cost |-> 0,
            held |-> {}, took |-> {}]
Parked == Idle(CHOOSE m \in Models : TRUE)

Init ==
    /\ available = [s \in Scopes |-> IF MaxConcurrent[s] = NoLimit THEN 0 ELSE MaxConcurrent[s]]
    /\ rpm = [s \in Scopes |-> per_minute(Rpm[s])]
    /\ tpm = [s \in Scopes |-> per_minute(Tpm[s])]
    /\ clock = 0
    /\ calls = [r \in Requests |-> Parked]
    /\ taken = [s \in Scopes |-> 0]
    /\ window = NoWindow

-----------------------------------------------------------------------------
(* try_admit, one lock at a time *)

\* After the global scope comes the model's; after both, the next stage.
Advance(call) ==
    IF call.at = Global THEN [call EXCEPT !.at = call.model]
    ELSE [call EXCEPT !.at = Global,
                      !.pc = CASE call.pc = "permit" -> "floor"
                               [] call.pc = "floor" -> "take"
                               [] call.pc = "take" -> "admitted"
                               [] call.pc = "debit" -> "reported"]

\* Every permit the call holds goes back.
Released(r) ==
    [s \in Scopes |-> IF s \in calls[r].held /\ MaxConcurrent[s] # NoLimit
                      THEN available[s] + 1 ELSE available[s]]

\* Dropping the guard, or the permits of a refused admission.
Drop(r) ==
    /\ available' = Released(r)
    /\ calls' = [calls EXCEPT ![r] = Parked]

Enter(r, m) ==
    /\ calls[r].pc = "idle"
    /\ calls' = [calls EXCEPT ![r] = [Idle(m) EXCEPT !.pc = "permit", !.now = clock]]
    /\ UNCHANGED <<available, rpm, tpm, clock, taken, window>>

\* Mutant: the free permits are not looked at.
AcquirePermitBlindly(r) ==
    LET call == calls[r] IN
    /\ call.pc = "permit"
    /\ available' = IF MaxConcurrent[call.at] = NoLimit THEN available
                    ELSE [available EXCEPT ![call.at] = available[call.at] - 1]
    /\ calls' = [calls EXCEPT ![r] = [Advance(call) EXCEPT !.held = call.held \cup {call.at}]]
    /\ UNCHANGED <<rpm, tpm, clock, taken, window>>

AcquirePermit(r) ==
    LET call == calls[r] IN
    /\ call.pc = "permit"
    /\ MaxConcurrent[call.at] # NoLimit => available[call.at] > 0
    /\ available' = IF MaxConcurrent[call.at] = NoLimit THEN available
                    ELSE [available EXCEPT ![call.at] = available[call.at] - 1]
    /\ calls' = [calls EXCEPT ![r] = [Advance(call) EXCEPT !.held = call.held \cup {call.at}]]
    /\ UNCHANGED <<rpm, tpm, clock, taken, window>>

PermitsExhausted(r) ==
    LET call == calls[r] IN
    /\ call.pc = "permit"
    /\ MaxConcurrent[call.at] # NoLimit
    /\ available[call.at] = 0
    /\ Drop(r)
    /\ UNCHANGED <<rpm, tpm, clock, taken, window>>

\* has_capacity: the tokens/min bucket is topped up and read, never taken from.
FloorHolds(r) ==
    LET call == calls[r]
        topped == refill(tpm[call.at], Tpm[call.at], call.now) IN
    /\ call.pc = "floor"
    /\ Tpm[call.at] # NoLimit => topped.tokens > 0
    /\ tpm' = IF Tpm[call.at] = NoLimit THEN tpm ELSE [tpm EXCEPT ![call.at] = topped]
    /\ calls' = [calls EXCEPT ![r] = Advance(call)]
    /\ UNCHANGED <<available, rpm, clock, taken, window>>

\* Mutant: the early return keeps the permits.
FloorExhaustedLeaks(r) ==
    LET call == calls[r]
        topped == refill(tpm[call.at], Tpm[call.at], call.now) IN
    /\ call.pc = "floor"
    /\ Tpm[call.at] # NoLimit
    /\ topped.tokens <= 0
    /\ tpm' = [tpm EXCEPT ![call.at] = topped]
    /\ calls' = [calls EXCEPT ![r] = Parked]
    /\ UNCHANGED <<available, rpm, clock, taken, window>>

FloorExhausted(r) ==
    LET call == calls[r]
        topped == refill(tpm[call.at], Tpm[call.at], call.now) IN
    /\ call.pc = "floor"
    /\ Tpm[call.at] # NoLimit
    /\ topped.tokens <= 0
    /\ tpm' = [tpm EXCEPT ![call.at] = topped]
    /\ Drop(r)
    /\ UNCHANGED <<rpm, clock, taken, window>>

\* try_take(1) of the requests/min bucket; an undeclared one is passed over.
Take(r) ==
    LET call == calls[r]
        topped == refill(rpm[call.at], Rpm[call.at], call.now) IN
    /\ call.pc = "take"
    /\ IF Rpm[call.at] = NoLimit
       THEN /\ calls' = [calls EXCEPT ![r] = Advance(call)]
            /\ UNCHANGED <<rpm, taken>>
       ELSE /\ topped.tokens >= Minute
            /\ rpm' = [rpm EXCEPT ![call.at] = Minus(topped, 1)]
            /\ taken' = [taken EXCEPT ![call.at] = taken[call.at] + 1]
            /\ calls' = [calls EXCEPT ![r] =
                  [Advance(call) EXCEPT !.took = call.took \cup {call.at}]]
    /\ UNCHANGED <<available, tpm, clock, window>>

\* Mutant: a refused model take does not give the global token back.
TakeRefusedKeepsGlobal(r) ==
    LET call == calls[r]
        topped == refill(rpm[call.at], Rpm[call.at], call.now) IN
    /\ call.pc = "take"
    /\ Rpm[call.at] # NoLimit
    /\ topped.tokens < Minute
    /\ rpm' = [rpm EXCEPT ![call.at] = topped]
    /\ Drop(r)
    /\ UNCHANGED <<tpm, clock, taken, window>>

\* Refused: at the model's scope a global token that was taken is owed back first.
TakeRefused(r) ==
    LET call == calls[r]
        topped == refill(rpm[call.at], Rpm[call.at], call.now) IN
    /\ call.pc = "take"
    /\ Rpm[call.at] # NoLimit
    /\ topped.tokens < Minute
    /\ rpm' = [rpm EXCEPT ![call.at] = topped]
    /\ IF Global \in call.took
       THEN calls' = [calls EXCEPT ![r] = [call EXCEPT !.pc = "refund"]] /\ UNCHANGED available
       ELSE Drop(r)
    /\ UNCHANGED <<tpm, clock, taken, window>>

Refund(r) ==
    /\ calls[r].pc = "refund"
    /\ rpm' = [rpm EXCEPT ![Global] = refund(rpm[Global], Rpm[Global], calls[r].now)]
    /\ taken' = [taken EXCEPT ![Global] = taken[Global] - 1]
    /\ Drop(r)
    /\ UNCHANGED <<tpm, clock, window>>

-----------------------------------------------------------------------------
(* The admitted request *)

\* Usage seen on the stream: debit_tokens with a fresh clock reading.
ReportUsage(r, cost) ==
    /\ calls[r].pc = "admitted"
    /\ calls' = [calls EXCEPT ![r].pc = "debit", ![r].at = Global,
                              ![r].now = clock, ![r].cost = cost]
    /\ UNCHANGED <<available, rpm, tpm, clock, taken, window>>

debit_tokens(r) ==
    LET call == calls[r]
        topped == refill(tpm[call.at], Tpm[call.at], call.now) IN
    /\ call.pc = "debit"
    /\ tpm' = IF Tpm[call.at] = NoLimit THEN tpm
              ELSE [tpm EXCEPT ![call.at] = Minus(topped, call.cost)]
    /\ calls' = [calls EXCEPT ![r] = Advance(call)]
    /\ UNCHANGED <<available, rpm, clock, taken, window>>

\* The stream ends, fails or is dropped by its consumer: the guard goes with it.
Finish(r) ==
    /\ calls[r].pc \in {"admitted", "reported"}
    /\ Drop(r)
    /\ UNCHANGED <<rpm, tpm, clock, taken, window>>

Tick ==
    /\ clock < MaxTime
    /\ clock' = clock + 1
    /\ UNCHANGED <<available, rpm, tpm, calls, taken, window>>

\* The clock readings that admissions under way may still present to a bucket.
PendingReadings ==
    {calls[r].now : r \in {q \in Requests : calls[q].pc \in {"permit", "floor", "take", "refund"}}}

\* History only: an observer starts counting, at any moment, and remembers the oldest
\* reading still in use.
OpenWindow ==
    /\ window = NoWindow
    /\ \E since \in PendingReadings \cup {clock} :
          /\ \A reading \in PendingReadings : since <= reading
          /\ window' = [since |-> since, base |-> taken]
    /\ UNCHANGED <<available, rpm, tpm, clock, calls, taken>>

Next ==
    \/ \E r \in Requests, m \in Models : Enter(r, m)
    \/ \E r \in Requests : \/ AcquirePermit(r) \/ PermitsExhausted(r)
                           \/ FloorHolds(r) \/ FloorExhausted(r)
                           \/ Take(r) \/ TakeRefused(r) \/ Refund(r)
                           \/ debit_tokens(r) \/ Finish(r)
    \/ \E r \in Requests, cost \in Costs : ReportUsage(r, cost)
    \/ Tick
    \/ OpenWindow

Spec == Init /\ [][Next]_vars

-----------------------------------------------------------------------------
(* Properties *)

Holders(s) == {r \in Requests : s \in calls[r].held}

\* Permits are neither lost nor forged: what is free and what calls hold is the
\* configured concurrency, through every early return and however guards are dropped.
PermitsConserved ==
    \A s \in Scopes : MaxConcurrent[s] # NoLimit =>
        available[s] + Cardinality(Holders(s)) = MaxConcurrent[s]

\* In any window of time a scope hands out at most its burst plus what accrues over the
\* window, reckoned from the oldest clock reading a walk still carried when it opened.
BurstBound ==
    window # NoWindow =>
        \A s \in Scopes : Rpm[s] # NoLimit =>
            (taken[s] - window.base[s]) * Minute <= Rpm[s] * (Minute + (clock - window.since))

\* A rejected admission leaves no request token consumed: where every scope limits
\* requests, the global bucket has given out exactly the tokens the models' buckets
\* gave, and those of calls that are between the two.
RejectionReturnsTokens ==
    (\A s \in Scopes : Rpm[s] # NoLimit) =>
        taken[Global] = MapThenSumSet(LAMBDA m : taken[m], Models) +
            Cardinality({r \in Requests :
                calls[r].pc \in {"take", "refund"} /\ Global \in calls[r].took})
=============================================================================
