------------------------------- MODULE Website --------------------------------
(***************************************************************************)
(* The three stateful parts of the web control plane (llmleaf-web) side by *)
(* side: the usage limiter with the key rows it writes, the throttle of    *)
(* operator logins and the operator sessions.  They share no state, so it  *)
(* is enough to follow one at a time: part says which, and the variables   *)
(* of the others stay idle.                                                *)
(***************************************************************************)
EXTENDS Integers, FiniteSets

CONSTANTS
    Ids, Named, Name, NoName, Narrowings, Spans,            \* keys
    Day, CostWindow, Retention, CostCap, RequestCap,        \* limiter
    MaxTime, MaxEvents, MaxEdits, MaxErrors,
    NoRow, NoTime, NoSource,
    Addresses, Attempts, MAX_FAILURES, WINDOW, MaxEntries, MaxRecent,   \* throttle
    Tokens, Flows, Callbacks, SessionTtl, FlowMaxAge, New,     \* sessions
    None

VARIABLES
    part,                                                   \* the one followed
    rows, events, clock, pass, edits, errors, operator_until,
    entries, attempts, recent,
    sessions, flows, callbacks, refused, readmitted, logins

Limits == INSTANCE WebLimiter
Throttle == INSTANCE LoginThrottle
Sessions == INSTANCE WebSessions

ASSUME WebsiteAssumption ==
    /\ {Day, CostWindow, Retention} \subseteq Nat \ {0} /\ CostWindow <= Retention
    /\ {CostCap, RequestCap} \subseteq Nat /\ CostCap + RequestCap > 0
    /\ Named \subseteq Ids /\ {} \in Narrowings
    /\ MAX_FAILURES \in Nat \ {0} /\ WINDOW \in Nat \ {0} /\ MaxEntries \in Nat
    /\ IsFiniteSet(Attempts) /\ MaxRecent \in Nat
    /\ SessionTtl \in Nat \ {0} /\ FlowMaxAge \in Nat
    /\ Spans \subseteq Nat /\ {MaxTime, MaxEvents, MaxEdits, MaxErrors} \subseteq Nat

\* What stands for an absent value is none of the values.
ASSUME NullAssumption ==
    /\ None \notin Addresses \cup Flows \cup [failures : Nat, age : Nat]
    /\ New # None /\ {New, None} \cap Nat = {}
    /\ {New, None} \cap [flow : Flows \cup {None}, left : Nat] = {}
    /\ NoRow \notin Limits!Rows /\ NoTime \notin Nat

-----------------------------------------------------------------------------

limits == <<rows, events, clock, pass, edits, errors, operator_until>>
throttle == <<entries, attempts, recent>>
logged == <<sessions, flows, callbacks, refused, readmitted, logins>>

IdleLimits ==
    /\ rows = "idle" /\ events = "idle" /\ clock = "idle" /\ pass = "idle"
    /\ edits = "idle" /\ errors = "idle" /\ operator_until = "idle"
IdleThrottle == entries = "idle" /\ attempts = "idle" /\ recent = "idle"
IdleSessions ==
    /\ sessions = "idle" /\ flows = "idle" /\ callbacks = "idle"
    /\ refused = "idle" /\ readmitted = "idle" /\ logins = "idle"

Init ==
    \/ part = "limits" /\ Limits!Init /\ IdleThrottle /\ IdleSessions
    \/ part = "throttle" /\ Throttle!Init /\ IdleLimits /\ IdleSessions
    \/ part = "sessions" /\ Sessions!Init /\ IdleLimits /\ IdleThrottle

OfLimits(action) == part = "limits" /\ action /\ UNCHANGED <<part, throttle, logged>>
OfThrottle(action) == part = "throttle" /\ action /\ UNCHANGED <<part, limits, logged>>
OfSessions(action) == part = "sessions" /\ action /\ UNCHANGED <<part, limits, throttle>>

LimitsStep == OfLimits(Limits!Next)
ThrottleStep == OfThrottle(Throttle!Next)
SessionsStep == OfSessions(Sessions!Next)

Next == LimitsStep \/ ThrottleStep \/ SessionsStep

vars == <<part, limits, throttle, logged>>

Spec == Init /\ [][Next]_vars

\* Time passes, the limiter's interval timer fires and its queries return, and its sweep prunes.
FairSpec ==
    /\ Spec
    /\ WF_vars(OfLimits(Limits!Limiter)) /\ WF_vars(OfLimits(Limits!Tick))
    /\ WF_vars(OfThrottle(Throttle!Tick))
    /\ WF_vars(OfSessions(Sessions!Tick)) /\ WF_vars(OfSessions(Sessions!Prune))

-----------------------------------------------------------------------------
(* Properties.                                                             *)

Of(name, property) == part = name => property

\* Every count is the count of what it stands for: the window of an address, the suspensions of
\* a key, the sessions of a login, what a token let in had been refused for.
Consistent ==
    /\ Of("limits", Limits!TypeOK /\ Limits!LongSuspensionsStand)
    /\ Of("throttle", Throttle!BudgetHolds /\ Throttle!CountsItsWindow)
    /\ Of("sessions", Sessions!OneLoginPerFlow /\ Sessions!EndedStaysEnded)

\* A lockout and a session end by what may end them and by nothing else.
StandsUntilEnded ==
    [][/\ Of("throttle", Throttle!LockoutStands)
       /\ Of("sessions", Sessions!NobodyElseEnds)]_vars

LockedOut(ip) == part = "throttle" /\ Throttle!Locked(entries[ip])
FlowKept(f) == part = "sessions" /\ Sessions!Live(flows[f])
SessionKept(t) == part = "sessions" /\ Sessions!Live(sessions[t])

\* What is refused is not refused for ever, and what is to be refused is: the limiter lifts its
\* suspensions and renews them, a lockout ends, abandoned logins and old sessions are swept.
RefusalsEnd ==
    /\ \A id \in Ids : []<>Of("limits", Limits!Lifted(id)) /\ []<>Of("limits", Limits!Capped(id))
    /\ \A ip \in Addresses : []<>~LockedOut(ip)
    /\ \A f \in Flows : []<>~FlowKept(f)
    /\ \A t \in Tokens : []<>~SessionKept(t)
=============================================================================
