---------------------------- MODULE WebSessions -----------------------------
(***************************************************************************)
(* Operator sessions and pending OIDC logins of the web control plane, in  *)
(* its database (llmleaf-web: db/session.rs), and the handlers that use    *)
(* them (auth/mod.rs, auth/oidc.rs): password login, the two legs of an    *)
(* OIDC login, the route gate, logout and the hourly pruning. An OIDC      *)
(* callback takes its flow, then waits for the identity provider, and the  *)
(* process may restart between.                                            *)
(***************************************************************************)
EXTENDS Naturals, FiniteSets

CONSTANTS
    Tokens,         \* session tokens, each drawn once
    Flows,          \* states of OIDC logins, each drawn once
    Callbacks,      \* callbacks that may be in progress at once
    SessionTtl,     \* in ticks
    FlowMaxAge,
    New, None

VARIABLES
    sessions,       \* token -> New while never drawn, None, or [flow, left]
    flows,          \* state -> New while never drawn, None, or its age
    callbacks,      \* callback -> None, or the flow it took
    refused,        \* history: token -> why it was refused, or that its logout deleted the row
    readmitted,     \* history: for what a token had been refused that was let in later
    logins          \* history: sessions opened by each flow

vars == <<sessions, flows, callbacks, refused, readmitted, logins>>

Live(x) == x \notin {None, New}

Init ==
    /\ sessions = [t \in Tokens |-> New]
    /\ flows = [f \in Flows |-> New]
    /\ callbacks = [c \in Callbacks |-> None]
    /\ refused = [t \in Tokens |-> {}] /\ readmitted = {}
    /\ logins = [f \in Flows |-> 0]

-----------------------------------------------------------------------------
(* db/session.rs. A failed DELETE is ignored by every caller.              *)

CreateSession(token, flow) ==
    /\ sessions[token] = New
    /\ sessions' = [sessions EXCEPT ![token] = [flow |-> flow, left |-> SessionTtl]]

DeleteSession(token, done) ==
    sessions' = IF done THEN [sessions EXCEPT ![token] = None] ELSE sessions

Valid(token) == Live(sessions[token]) /\ sessions[token].left > 0

Expired(s) == s.left = 0

Abandoned(age) == age > FlowMaxAge

-----------------------------------------------------------------------------
(* Handlers.                                                               *)

\* login, after the password was right.
PasswordLogin ==
    /\ \E token \in Tokens : CreateSession(token, None)
    /\ UNCHANGED <<flows, callbacks, refused, readmitted, logins>>

\* begin_login: the flow is stored and the browser sent away.
BeginLogin(f) ==
    /\ flows[f] = New /\ flows' = [flows EXCEPT ![f] = 0]
    /\ UNCHANGED <<sessions, callbacks, refused, readmitted, logins>>

\* Mutant: the flow is read, and stays.
TakeCopy(f) == flows' = flows
Take(f) == flows' = [flows EXCEPT ![f] = None]

\* complete_login: a callback takes the flow of its state; the same callback may come
\* again, and finds nothing.
TakeFlow(c, f) ==
    /\ callbacks[c] = None /\ Live(flows[f])
    /\ Take(f)
    /\ callbacks' = [callbacks EXCEPT ![c] = f]
    /\ UNCHANGED <<sessions, refused, readmitted, logins>>

\* The code is exchanged and the token verified, then the session created.
CompleteLogin(c) ==
    /\ callbacks[c] # None
    /\ \E token \in Tokens : CreateSession(token, callbacks[c])
    /\ logins' = [logins EXCEPT ![callbacks[c]] = @ + 1]
    /\ callbacks' = [callbacks EXCEPT ![c] = None]
    /\ UNCHANGED <<flows, refused, readmitted>>

\* The provider, a claim, the allow-list or the database refuses; the flow is gone.
FailLogin(c) ==
    /\ callbacks[c] # None
    /\ callbacks' = [callbacks EXCEPT ![c] = None]
    /\ UNCHANGED <<sessions, flows, refused, readmitted, logins>>

\* The gate, require_session and the terminal ask lookup_session for the cookie's row: it is
\* valid, or absent or expired and then deleted, or the SELECT fails, which refuses as well.
LetIn(token) ==
    /\ Valid(token)
    /\ readmitted' = readmitted \cup refused[token]
    /\ UNCHANGED <<sessions, refused>>

TurnAway(token) ==
    /\ ~Valid(token)
    /\ refused' = [refused EXCEPT ![token] = @ \cup {"ended"}]
    /\ IF Live(sessions[token]) THEN \E done \in BOOLEAN : DeleteSession(token, done)
       ELSE UNCHANGED sessions
    /\ UNCHANGED readmitted

LookupFails(token) ==
    /\ refused' = [refused EXCEPT ![token] = @ \cup {"unread"}]
    /\ UNCHANGED <<sessions, readmitted>>

Gate(token) ==
    /\ sessions[token] # New
    /\ LetIn(token) \/ TurnAway(token) \/ LookupFails(token)
    /\ UNCHANGED <<flows, callbacks, logins>>

\* logout: the cookie is cleared whatever becomes of the row.
Logout(token) ==
    /\ sessions[token] # New
    /\ \E done \in BOOLEAN :
          /\ DeleteSession(token, done)
          /\ refused' = IF done THEN [refused EXCEPT ![token] = @ \cup {"ended"}] ELSE refused
    /\ UNCHANGED <<flows, callbacks, readmitted, logins>>

\* prune_sessions and prune_oidc_flows, of the limiter's sweep.
Prune ==
    /\ sessions' = [t \in Tokens |-> IF Live(sessions[t]) /\ Expired(sessions[t]) THEN None
                                     ELSE sessions[t]]
    /\ flows' = [f \in Flows |-> IF Live(flows[f]) /\ Abandoned(flows[f]) THEN None ELSE flows[f]]
    /\ UNCHANGED <<callbacks, refused, readmitted, logins>>

Tick ==
    /\ sessions' = [t \in Tokens |-> IF Live(sessions[t]) /\ sessions[t].left > 0
                                     THEN [sessions[t] EXCEPT !.left = @ - 1] ELSE sessions[t]]
    /\ flows' = [f \in Flows |-> IF Live(flows[f]) /\ flows[f] <= FlowMaxAge THEN flows[f] + 1
                                 ELSE flows[f]]
    /\ UNCHANGED <<callbacks, refused, readmitted, logins>>

\* The process restarts; the rows stay.
Restart ==
    /\ callbacks' = [c \in Callbacks |-> None]
    /\ UNCHANGED <<sessions, flows, refused, readmitted, logins>>

Next ==
    \/ PasswordLogin
    \/ \E f \in Flows : BeginLogin(f) \/ \E c \in Callbacks : TakeFlow(c, f)
    \/ \E c \in Callbacks : CompleteLogin(c) \/ FailLogin(c)
    \/ \E token \in Tokens : Gate(token) \/ Logout(token)
    \/ Prune \/ Tick \/ Restart

Spec == Init /\ [][Next]_vars

-----------------------------------------------------------------------------
(* Properties.                                                             *)

\* However often and however late its callback comes, and whatever restarts between, a
\* flow opens at most one session.
OneLoginPerFlow ==
    /\ \A t \in Tokens : Live(sessions[t]) =>
          sessions[t].left \in 0..SessionTtl /\ sessions[t].flow \in Flows \cup {None}
    /\ \A f \in Flows : Live(flows[f]) => flows[f] \in 0..(FlowMaxAge + 1)
    /\ callbacks \in [Callbacks -> Flows \cup {None}]
    /\ \A f \in Flows : logins[f] + Cardinality({c \in Callbacks : callbacks[c] = f}) <= 1

\* A token whose row was found expired or gone, or was deleted by its logout, is never let in
\* again: what a request is refused for and a later one is not is a lookup that failed.
EndedStaysEnded == readmitted \subseteq {"unread"}

\* A session in use ends by its own logout, at its hour, and nothing else.
NobodyElseEnds == \A t \in Tokens : Valid(t) /\ ~Live(sessions'[t]) => Logout(t)
=============================================================================
