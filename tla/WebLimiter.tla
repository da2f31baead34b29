----------------------------- MODULE WebLimiter -----------------------------
(***************************************************************************)
(* Key rows of the web control plane (llmleaf-web/src/db/keys.rs), the     *)
(* usage events it stores (db/usage.rs) and the background limiter         *)
(* (limiter.rs) that turns usage into suspensions.  Operators edit the     *)
(* same rows through the server functions (app/server.rs) between any two  *)
(* statements of a limiter pass; no transaction spans a pass.              *)
(***************************************************************************)
EXTENDS Integers, FiniteSets

CONSTANTS
    Ids,            \* key ids
    Named,          \* the ids whose keys are created with a name
    Name,           \* their name; an event carries the name if there is one
    NoName,         \* a key without a name
    Narrowings,     \* model narrowings an operator may set; {} for none
    Spans,          \* lengths of operator suspensions
    Day,            \* DAY_SECS
    CostWindow,     \* COST_WINDOW_SECS
    Retention,      \* EVENT_RETENTION_SECS
    CostCap,        \* monthly_cost_cap, 0 for none
    RequestCap,     \* daily_request_cap, 0 for none
    MaxTime,        \* bound: the clock
    MaxEvents,      \* bound: events ingested
    MaxEdits,       \* bound: operator actions
    MaxErrors,      \* bound: passes that a database error cuts short
    NoRow,          \* no key of that id
    NoTime,         \* SQL NULL for suspended_until
    NoSource        \* SQL NULL for verdict_source

VARIABLES
    rows,           \* table keys
    events,         \* table events: request_started and usage rows
    clock,          \* now_secs()
    pass,           \* the limiter pass under way
    edits,          \* operator actions so far
    errors,         \* passes cut short so far
    operator_until  \* history: the suspension the operator has last set and not lifted

vars == <<rows, events, clock, pass, edits, errors, operator_until>>

Labels == Ids \cup {Name}
Sources == {"manual", "limiter", NoSource}
Times == Nat \cup {NoTime}
Rows == [name : {Name, NoName}, blocked : BOOLEAN, suspended_until : Times,
         verdict_models : Narrowings, verdict_source : Sources]
Events == [n : Nat, ts : Nat, key : Labels, owner : Ids, kind : {"request_started", "usage"}]
Passes == [pc : {"idle", "extend", "weigh", "write"}, now : Nat, scope : SUBSET Labels,
           key : Labels \cup {NoName}, until : Times]

TypeOK ==
    /\ rows \in [Ids -> Rows \cup {NoRow}]
    /\ events \subseteq Events
    /\ clock \in Nat /\ edits \in Nat /\ errors \in Nat
    /\ pass \in Passes
    /\ operator_until \in [Ids -> Times]

Idle == [pc |-> "idle", now |-> 0, scope |-> {}, key |-> NoName, until |-> NoTime]

Init ==
    /\ rows = [id \in Ids |-> NoRow]
    /\ events = {}
    /\ clock = 0 /\ edits = 0 /\ errors = 0
    /\ pass = Idle
    /\ operator_until = [id \in Ids |-> NoTime]

-----------------------------------------------------------------------------
(* Operators: the server functions.  An UPDATE of a missing id changes nothing. *)

Edit(id, row, until) ==
    /\ edits < MaxEdits
    /\ edits' = edits + 1
    /\ rows' = [rows EXCEPT ![id] = row]
    /\ operator_until' = [operator_until EXCEPT ![id] = until]
    /\ UNCHANGED <<events, clock, pass, errors>>

create(id) ==
    /\ rows[id] = NoRow
    /\ Edit(id, [name |-> IF id \in Named THEN Name ELSE NoName, blocked |-> FALSE, suspended_until |-> NoTime,
                 verdict_models |-> {}, verdict_source |-> NoSource], NoTime)

delete(id) == rows[id] # NoRow /\ Edit(id, NoRow, NoTime)

\* The whole overlay at once; all-clear values also clear the source.
set_verdict(id, blocked, until, models) ==
    /\ rows[id] # NoRow
    /\ LET cleared == ~blocked /\ until = NoTime /\ models = {} IN
       Edit(id, [rows[id] EXCEPT !.blocked = blocked, !.suspended_until = until,
                                 !.verdict_models = models,
                                 !.verdict_source = IF cleared THEN NoSource ELSE "manual"], until)

set_blocked(id, blocked) ==
    /\ rows[id] # NoRow
    /\ Edit(id, [rows[id] EXCEPT !.blocked = blocked, !.verdict_source = "manual"],
            operator_until[id])

set_suspended(id, until) ==
    /\ rows[id] # NoRow
    /\ Edit(id, [rows[id] EXCEPT !.suspended_until = until, !.verdict_source = "manual"], until)

set_narrow(id, models) ==
    /\ rows[id] # NoRow
    /\ Edit(id, [rows[id] EXCEPT !.verdict_models = models, !.verdict_source = "manual"],
            operator_until[id])

-----------------------------------------------------------------------------
(* Usage: what the core pushes *)

\* The core labels events with the key's name, and with its id if there is none.
Label(id) == IF rows[id].name = NoName THEN id ELSE rows[id].name

\* ingest: one transaction per pushed batch; the core stamped the event some time ago.
ingest(id, kind, ts) ==
    /\ rows[id] # NoRow
    /\ Cardinality(events) < MaxEvents
    /\ events' = events \cup {[n |-> Cardinality(events), ts |-> ts, key |-> Label(id),
                               owner |-> id, kind |-> kind]}
    /\ UNCHANGED <<rows, clock, pass, edits, errors, operator_until>>

\* since_secs_ago saturates.
Since(now, secs) == IF now > secs THEN now - secs ELSE 0

Window(kind, label, since) ==
    Cardinality({e \in events : e.kind = kind /\ e.key = label /\ e.ts >= since})

-----------------------------------------------------------------------------
(* The limiter *)

\* Housekeeping, then the keys with recent activity.
Begin ==
    /\ pass.pc = "idle"
    /\ events' = {e \in events : e.ts >= Since(clock, Retention)}
    /\ pass' = [pass EXCEPT !.pc = "extend", !.now = clock,
          !.scope = {e.key : e \in {x \in events' : x.ts >= Since(clock, CostWindow)}}]
    /\ UNCHANGED <<rows, clock, edits, errors, operator_until>>

limiter_suspended_ids ==
    {id \in Ids : rows[id] # NoRow /\ rows[id].verdict_source = "limiter"
                                   /\ rows[id].suspended_until # NoTime}

\* A second query adds the keys the limiter has suspended.
Extend ==
    /\ pass.pc = "extend"
    /\ pass' = [pass EXCEPT !.pc = "weigh", !.scope = @ \cup limiter_suspended_ids]
    /\ UNCHANGED <<rows, events, clock, edits, errors, operator_until>>

Midnight(now) == ((now \div Day) + 1) * Day

TooDear(label, now) ==
    CostCap > 0 /\ Window("usage", label, Since(now, CostWindow)) >= CostCap
TooMany(label, now) ==
    RequestCap > 0 /\ Window("request_started", label, Since(now, Day)) >= RequestCap

\* suspend_until: the later of the two, or none.
Sentence(label, now) ==
    LET untils == (IF TooDear(label, now) THEN {now + Day} ELSE {})
                      \cup (IF TooMany(label, now) THEN {Midnight(now)} ELSE {}) IN
    IF untils = {} THEN NoTime ELSE CHOOSE u \in untils : \A v \in untils : v <= u

\* The two window queries of the next key.
Weigh(label) ==
    /\ pass.pc = "weigh" /\ label \in pass.scope
    /\ pass' = [pass EXCEPT !.pc = "write", !.key = label, !.scope = @ \ {label},
                            !.until = Sentence(label, pass.now)]
    /\ UNCHANGED <<rows, events, clock, edits, errors, operator_until>>

Written(id, row) ==
    /\ rows' = IF id \in Ids THEN [rows EXCEPT ![id] = row] ELSE rows
    /\ pass' = [pass EXCEPT !.pc = "weigh", !.key = NoName, !.until = NoTime]
    /\ UNCHANGED <<events, clock, edits, errors, operator_until>>

Row(label) == IF label \in Ids THEN rows[label] ELSE NoRow

\* WHERE suspended_until IS NULL OR suspended_until < ?
Extends(row, until) ==
    row # NoRow /\ (row.suspended_until = NoTime \/ row.suspended_until < until)

limiter_suspend ==
    /\ pass.pc = "write" /\ pass.until # NoTime
    /\ LET row == Row(pass.key) IN
       Written(pass.key, IF Extends(row, pass.until)
                         THEN [row EXCEPT !.suspended_until = pass.until,
                                          !.verdict_source = "limiter"]
                         ELSE row)

\* WHERE verdict_source = 'limiter'
LimiterOwned(row) == row # NoRow /\ row.verdict_source = "limiter"

limiter_clear ==
    /\ pass.pc = "write" /\ pass.until = NoTime
    /\ LET row == Row(pass.key) IN
       Written(pass.key, IF LimiterOwned(row)
                         THEN [row EXCEPT !.suspended_until = NoTime,
                                          !.verdict_source = NoSource]
                         ELSE row)

Done ==
    /\ pass.pc = "weigh" /\ pass.scope = {}
    /\ pass' = Idle
    /\ UNCHANGED <<rows, events, clock, edits, errors, operator_until>>

\* A query fails: the rest of the pass is dropped until the next tick.
Abort ==
    /\ pass.pc # "idle" /\ errors < MaxErrors
    /\ errors' = errors + 1
    /\ pass' = Idle
    /\ UNCHANGED <<rows, events, clock, edits, operator_until>>

Tick ==
    /\ clock < MaxTime
    /\ clock' = clock + 1
    /\ UNCHANGED <<rows, events, pass, edits, errors, operator_until>>

Limiter ==
    \/ Begin \/ Extend \/ Done \/ limiter_suspend \/ limiter_clear
    \/ \E label \in Labels : Weigh(label)

Operator(id) ==
    \/ create(id) \/ delete(id)
    \/ \E blocked \in BOOLEAN : set_blocked(id, blocked)
    \/ \E until \in {NoTime} \cup {clock + s : s \in Spans} :
          \/ set_suspended(id, until)
          \/ \E blocked \in BOOLEAN, models \in Narrowings : set_verdict(id, blocked, until, models)
    \/ \E models \in Narrowings : set_narrow(id, models)

Ingest(id) ==
    \E kind \in {"request_started", "usage"}, ts \in {clock, Since(clock, 1)} : ingest(id, kind, ts)

Next == Limiter \/ Abort \/ Tick \/ \E id \in Ids : Operator(id) \/ Ingest(id)

Spec == Init /\ [][Next]_vars

\* The loop's interval timer fires and its queries return; time passes.
FairSpec == Spec /\ WF_vars(Limiter) /\ WF_vars(Tick)

-----------------------------------------------------------------------------
(* Properties *)

\* db/keys.rs limiter_suspend, limiter_clear: a suspension an operator has set beyond
\* anything the limiter could ask for stands until the operator lifts it, whatever
\* passes run before, between and after the edits.
LongSuspensionsStand ==
    \A id \in Ids :
        operator_until[id] # NoTime /\ operator_until[id] > MaxTime + Day
            => rows[id].suspended_until = operator_until[id]

OverCap(label) == TooDear(label, clock) \/ TooMany(label, clock)

\* limiter.rs: "once the key falls back under the cap a later pass lifts the limiter-set
\* suspension", also when the key has gone quiet and left no event behind.
Lifted(id) == id \in limiter_suspended_ids => OverCap(id)

\* limiter.rs: a key that stays over a cap does not stay unsuspended: an expired
\* suspension, a lifted one and a failed pass are all made good by a later pass.
\* Keys are known by their ids here; a named one is not found by its label.
Capped(id) ==
    id \notin Named /\ rows[id] # NoRow /\ OverCap(id)
        => rows[id].suspended_until # NoTime /\ rows[id].suspended_until > clock

\* limiter.rs:9-10: "The limiter only ever touches suspensions it set
\* (verdict_source='limiter'), never an operator's."
OperatorSuspensionsStand ==
    \A id \in Ids :
        operator_until[id] # NoTime /\ operator_until[id] > clock
            => rows[id].suspended_until # NoTime
               /\ rows[id].suspended_until >= operator_until[id]
=============================================================================
