------------------------------ MODULE NodeLife ------------------------------
(***************************************************************************)
(* One node from start to exit (llmleaf/src/main.rs, run): the outbound    *)
(* control tasks that llmleaf-control starts before the listener opens,    *)
(* the event ring they tap, the usage reporter that pushes its events to a *)
(* sink, and the drain that ends them all.                                 *)
(***************************************************************************)
EXTENDS Integers, FiniteSets, Sequences, SequencesExt

CONSTANTS
    Configured,     \* the control tasks the configuration asks for
    Capacity,       \* events the broadcast ring retains
    BatchMax,       \* batch_max
    MaxEvents,      \* bound: events emitted
    MaxOpen         \* bound: requests in flight at once

VARIABLES
    boot,           \* the step of run() that is next, "up" once serving
    at,             \* where each refresher stands
    tried,          \* refreshers that have finished a pull
    cancelled,      \* the shared CancellationToken
    listener,       \* the data-plane listener
    open,           \* requests in flight
    emitted,        \* events put on the bus, numbered from 1
    cursor,         \* the last event the reporter's receiver has passed
    lagged,         \* events the receiver has skipped
    reporter,       \* where the usage reporter stands
    batch,          \* events in the reporter's hand
    arrived,        \* the sink has stored the batch being posted
    adrift,         \* batches given up on that may still reach the sink
    lost,           \* events of batches that never will
    sink            \* events in the order the sink stored them

ringVars == <<open, emitted>>
sinkVars == <<arrived, adrift, lost, sink>>
reportVars == <<cursor, lagged, reporter, batch, sinkVars>>
vars == <<boot, at, tried, cancelled, listener, ringVars, reportVars>>

Refreshers == {"topology", "identity", "limits", "jwks"}
Primed == {"identity", "jwks"}
Waiting == {"asking", "asking_last"}
Reading == {"reading", "reading_last"}
Places == {"unspawned", "idle", "ended"} \cup Waiting \cup Reading

ASSUME NodeAssumption ==
    /\ Configured \subseteq Refreshers \cup {"usage"}
    /\ {Capacity, BatchMax, MaxEvents, MaxOpen} \subseteq Nat \ {0}

TypeOK ==
    /\ boot \in Refreshers \cup {"usage", "listen", "up", "exited"}
    /\ at \in [Refreshers -> Places]
    /\ tried \subseteq Configured
    /\ cancelled \in BOOLEAN
    /\ listener \in {"closed", "open", "draining", "done"}
    /\ open \in 0..MaxOpen
    /\ emitted \in 0..MaxEvents
    /\ cursor \in 0..emitted
    /\ lagged \subseteq 1..emitted
    /\ reporter \in {"unspawned", "idle", "posting", "posting_last", "ended"}
    /\ batch \in BoundedSeq(1..emitted, BatchMax)
    /\ arrived \in BOOLEAN
    /\ adrift \subseteq BoundedSeq(1..emitted, BatchMax)
    /\ lost \subseteq 1..emitted
    /\ sink \in Seq(1..emitted)

Init ==
    /\ boot = "topology"
    /\ at = [t \in Refreshers |-> "unspawned"]
    /\ tried = {}
    /\ cancelled = FALSE
    /\ listener = "closed"
    /\ open = 0 /\ emitted = 0
    /\ cursor = 0 /\ lagged = {}
    /\ reporter = "unspawned"
    /\ batch = <<>>
    /\ arrived = FALSE /\ adrift = {} /\ lost = {} /\ sink = <<>>

-----------------------------------------------------------------------------
(* Start: run() and llmleaf_control::start, one step at a time.            *)

\* The order of run().
Following(step) ==
    CASE step = "topology" -> "identity"
      [] step = "identity" -> "limits"
      [] step = "limits"   -> "usage"
      [] step = "usage"    -> "jwks"
      [] step = "jwks"     -> "listen"

\* The first GET of a pull: JWKS endpoints are discovered from the issuer first.
FirstGet(t) == IF t = "jwks" THEN "asking" ELSE "asking_last"

SkipStep ==
    /\ boot \in Refreshers \cup {"usage"}
    /\ boot \notin Configured
    /\ boot' = Following(boot)
    /\ UNCHANGED <<at, tried, cancelled, listener, ringVars, reportVars>>

\* Mutant: the refresher is spawned and left to pull in the background.
LaunchUnprimed(t) ==
    /\ at[t] = "unspawned"
    /\ at' = [at EXCEPT ![t] = "idle"]
    /\ boot' = Following(boot)
\* A primed refresher makes its first pull before it is spawned.
Launch(t) ==
    /\ at[t] = "unspawned"
    /\ at' = [at EXCEPT ![t] = IF t \in Primed THEN FirstGet(t) ELSE "idle"]
    /\ boot' = IF t \in Primed THEN boot ELSE Following(boot)

StartRefresher ==
    /\ boot \in Refreshers \cap Configured
    /\ Launch(boot)
    /\ UNCHANGED <<tried, cancelled, listener, ringVars, reportVars>>

\* Subscribing starts at the tail of the ring.
StartReporter ==
    /\ boot = "usage" /\ boot \in Configured
    /\ cursor' = emitted
    /\ reporter' = "idle"
    /\ boot' = Following(boot)
    /\ UNCHANGED <<at, tried, cancelled, listener, ringVars, lagged, batch, sinkVars>>

Listen ==
    /\ boot = "listen"
    /\ boot' = "up"
    /\ listener' = "open"
    /\ UNCHANGED <<at, tried, cancelled, ringVars, reportVars>>

\* serve_with_state returns the error and run() cancels the tasks.
BindFails ==
    /\ boot = "listen"
    /\ boot' = "up"
    /\ listener' = "done"
    /\ cancelled' = TRUE
    /\ UNCHANGED <<at, tried, ringVars, reportVars>>

-----------------------------------------------------------------------------
(* The refreshers.                                                         *)

Tick(t) ==
    /\ at[t] = "idle"
    /\ at' = [at EXCEPT ![t] = FirstGet(t)]
    /\ UNCHANGED <<boot, tried, cancelled, listener, ringVars, reportVars>>

StopRefresher(t) ==
    /\ at[t] = "idle" /\ cancelled
    /\ at' = [at EXCEPT ![t] = "ended"]
    /\ UNCHANGED <<boot, tried, cancelled, listener, ringVars, reportVars>>

\* A pull is over, with a new snapshot or with the last good one kept.
PullOver(t) ==
    /\ tried' = tried \cup {t}
    /\ at' = [at EXCEPT ![t] = "idle"]
    /\ boot' = IF boot = t THEN Following(t) ELSE boot

\* The head of the response arrived in time and says success.
Answered(t) ==
    /\ at[t] \in Waiting
    /\ at' = [at EXCEPT ![t] = IF at[t] = "asking" THEN "reading" ELSE "reading_last"]
    /\ UNCHANGED <<boot, tried, cancelled, listener, ringVars, reportVars>>

\* The head is late, an error, or not a success.
Unanswered(t) ==
    /\ at[t] \in Waiting
    /\ PullOver(t)
    /\ UNCHANGED <<cancelled, listener, ringVars, reportVars>>

\* The whole body is there and parses: the next GET, or the snapshot is installed.
BodyRead(t) ==
    \/ /\ at[t] = "reading"
       /\ at' = [at EXCEPT ![t] = "asking_last"]
       /\ UNCHANGED <<boot, tried, cancelled, listener, ringVars, reportVars>>
    \/ /\ at[t] = "reading_last"
       /\ PullOver(t)
       /\ UNCHANGED <<cancelled, listener, ringVars, reportVars>>

\* The connection breaks, or the body does not parse.
BodyFails(t) ==
    /\ at[t] \in Reading
    /\ PullOver(t)
    /\ UNCHANGED <<cancelled, listener, ringVars, reportVars>>

-----------------------------------------------------------------------------
(* Requests put events on the bus; only their number matters here.         *)

Admit ==
    /\ listener = "open"
    /\ open < MaxOpen
    /\ emitted + open + 1 < MaxEvents
    /\ open' = open + 1
    /\ emitted' = emitted + 1
    /\ UNCHANGED <<boot, at, tried, cancelled, listener, reportVars>>

Finish ==
    /\ open > 0
    /\ open' = open - 1
    /\ emitted' = emitted + 1
    /\ UNCHANGED <<boot, at, tried, cancelled, listener, reportVars>>

\* A client that hangs up leaves no terminal event.
HangUp ==
    /\ open > 0
    /\ open' = open - 1
    /\ UNCHANGED <<boot, at, tried, cancelled, listener, emitted, reportVars>>

-----------------------------------------------------------------------------
(* The usage reporter: each iteration of its loop takes one ready arm.     *)

\* send_batch posts what there is; without events the arm is already over.
Send(events, last) ==
    /\ batch' = events
    /\ arrived' = FALSE
    /\ reporter' = IF events = <<>> THEN (IF last THEN "ended" ELSE "idle")
                   ELSE (IF last THEN "posting_last" ELSE "posting")

\* Mutant: the event that finds the batch full is left out of it.
PushFull ==
    /\ reporter = "idle"
    /\ cursor < emitted
    /\ emitted - cursor <= Capacity
    /\ cursor' = cursor + 1
    /\ IF Len(batch) + 1 >= BatchMax THEN Send(batch, FALSE)
       ELSE batch' = Append(batch, cursor + 1) /\ UNCHANGED <<reporter, arrived>>
    /\ UNCHANGED <<boot, at, tried, cancelled, listener, ringVars, lagged, adrift, lost, sink>>

Push ==
    /\ reporter = "idle"
    /\ cursor < emitted
    /\ emitted - cursor <= Capacity
    /\ cursor' = cursor + 1
    /\ LET b == Append(batch, cursor + 1)
       IN IF Len(b) >= BatchMax THEN Send(b, FALSE)
          ELSE batch' = b /\ UNCHANGED <<reporter, arrived>>
    /\ UNCHANGED <<boot, at, tried, cancelled, listener, ringVars, lagged, adrift, lost, sink>>

\* RecvError::Lagged: the receiver goes on at the oldest event still retained.
Lag ==
    /\ reporter = "idle"
    /\ emitted - cursor > Capacity
    /\ cursor' = emitted - Capacity
    /\ lagged' = lagged \cup (cursor + 1 .. emitted - Capacity)
    /\ UNCHANGED <<boot, at, tried, cancelled, listener, ringVars, reporter, batch, sinkVars>>

\* Mutant: the interval is polled but does not send.
FlushNothing ==
    /\ reporter = "idle" /\ batch # <<>>
    /\ UNCHANGED vars
Flush ==
    /\ reporter = "idle" /\ batch # <<>>
    /\ Send(batch, FALSE)
    /\ UNCHANGED <<boot, at, tried, cancelled, listener, ringVars, cursor, lagged, adrift, lost, sink>>

\* The bus is closed once the state and the topology refresher's engine are dropped.
Closed ==
    /\ listener = "done" /\ cursor = emitted
    /\ at["topology"] \in {"unspawned", "ended"}

\* Mutant: the break is missing.
LastSendOn ==
    /\ reporter = "idle"
    /\ cancelled \/ Closed
    /\ Send(batch, FALSE)
    /\ UNCHANGED <<boot, at, tried, cancelled, listener, ringVars, cursor, lagged, adrift, lost, sink>>
LastSend ==
    /\ reporter = "idle"
    /\ cancelled \/ Closed
    /\ Send(batch, TRUE)
    /\ UNCHANGED <<boot, at, tried, cancelled, listener, ringVars, cursor, lagged, adrift, lost, sink>>

Posting == reporter \in {"posting", "posting_last"}

SinkStores ==
    /\ Posting /\ ~arrived
    /\ arrived' = TRUE
    /\ sink' = sink \o batch
    /\ UNCHANGED <<boot, at, tried, cancelled, listener, ringVars, cursor, lagged, reporter, batch, adrift, lost>>

\* Whatever became of the POST, the batch is cleared and the loop goes on or breaks.
Cleared ==
    /\ batch' = <<>>
    /\ arrived' = FALSE
    /\ reporter' = IF reporter = "posting_last" THEN "ended" ELSE "idle"

Acknowledged ==
    /\ Posting /\ arrived
    /\ Cleared
    /\ UNCHANGED <<boot, at, tried, cancelled, listener, ringVars, cursor, lagged, adrift, lost, sink>>

\* A late answer or an error, which the sink may send after it stored the batch.
GivenUp ==
    /\ Posting
    /\ Cleared
    /\ adrift' = IF arrived THEN adrift ELSE adrift \cup {batch}
    /\ UNCHANGED <<boot, at, tried, cancelled, listener, ringVars, cursor, lagged, lost, sink>>

\* A request the reporter has given up on is stored after all, or never.
StoredLate(b) ==
    /\ adrift' = adrift \ {b}
    /\ sink' = sink \o b
    /\ UNCHANGED <<boot, at, tried, cancelled, listener, ringVars, cursor, lagged, reporter, batch, arrived, lost>>

NeverStored(b) ==
    /\ adrift' = adrift \ {b}
    /\ lost' = lost \cup ToSet(b)
    /\ UNCHANGED <<boot, at, tried, cancelled, listener, ringVars, cursor, lagged, reporter, batch, arrived, sink>>

-----------------------------------------------------------------------------
(* The end.                                                                *)

Signal ==
    /\ listener = "open"
    /\ listener' = "draining"
    /\ cancelled' = TRUE
    /\ UNCHANGED <<boot, at, tried, ringVars, reportVars>>

Drained ==
    /\ listener = "draining" /\ open = 0
    /\ listener' = "done"
    /\ UNCHANGED <<boot, at, tried, cancelled, ringVars, reportVars>>

\* ControlHandles::join and the OAuth handles.
Join ==
    /\ boot = "up" /\ listener = "done"
    /\ \A t \in Refreshers : at[t] \in {"unspawned", "ended"}
    /\ reporter \in {"unspawned", "ended"}
    /\ boot' = "exited"
    /\ UNCHANGED <<at, tried, cancelled, listener, ringVars, reportVars>>

Exited == boot = "exited" /\ UNCHANGED vars

-----------------------------------------------------------------------------
Start == SkipStep \/ StartRefresher \/ StartReporter \/ Listen \/ BindFails
Refresh(t) ==
    Tick(t) \/ StopRefresher(t) \/ Answered(t) \/ Unanswered(t) \/ BodyRead(t) \/ BodyFails(t)
Requests == Admit \/ Finish \/ HangUp
Report == Push \/ Lag \/ Flush \/ LastSend \/ SinkStores \/ Acknowledged \/ GivenUp
Drift == \E b \in adrift : StoredLate(b) \/ NeverStored(b)

Next ==
    \/ Start
    \/ \E t \in Refreshers : Refresh(t)
    \/ Requests
    \/ Report
    \/ Drift
    \/ Signal \/ Drained \/ Join \/ Exited

Spec == Init /\ [][Next]_vars

\* What the code itself ensures: run() and its tasks are polled, timers fire, and tokio::select!
\* takes a ready arm at random, so an arm that is ready again and again is taken.
FairSpec ==
    /\ Spec
    /\ WF_vars(Start) /\ WF_vars(Drained) /\ WF_vars(Join)
    /\ \A t \in Refreshers : SF_vars(StopRefresher(t)) /\ WF_vars(Unanswered(t))
    /\ SF_vars(LastSend) /\ SF_vars(Flush) /\ WF_vars(GivenUp)

\* Beside it, peers that finish the bodies they began and requests that end.
PromptSpec ==
    /\ FairSpec
    /\ WF_vars(Finish \/ HangUp)
    /\ \A t \in Refreshers : WF_vars(BodyRead(t))

-----------------------------------------------------------------------------
(* Properties.                                                             *)

\* The listener is never open before identity and signing keys have been asked for
\* (control/src/lib.rs: "the listener never opens on an empty identity cache").
PrimedBeforeListening ==
    listener # "closed" => Primed \cap Configured \subseteq tried

\* Where event e is, as the reporter and its sink see it.
Whereabouts(e) ==
    {w \in {"ring", "lagged", "hand", "sink", "adrift", "lost"} :
        CASE w = "ring"   -> e > cursor
          [] w = "lagged" -> e \in lagged
          [] w = "hand"   -> e \in ToSet(batch) /\ ~arrived
          [] w = "sink"   -> e \in ToSet(sink)
          [] w = "adrift" -> \E b \in adrift : e \in ToSet(b)
          [] w = "lost"   -> e \in lost}

\* Every event of every request is in exactly one place: none is missed because the reporter
\* subscribed late, none is forgotten, none is both given up and sent again, and the sink stores
\* none twice (docs/external-control-plane.md: "There is no retry"). A reporter that ended has
\* handed over all it took from the bus.
Accounted ==
    /\ reporter # "unspawned" => \A e \in 1..emitted : Cardinality(Whereabouts(e)) = 1
    /\ IsInjective(sink)
    /\ reporter = "ended" => batch = <<>>

\* Events in the reporter's hand are sent before long, also when no more follow.
BatchLeaves == []<>(batch = <<>>)

\* After the signal, which is never taken back, run() returns, with peers that answer.
ShutdownCompletes == []<>(cancelled => boot = "exited")
=============================================================================
