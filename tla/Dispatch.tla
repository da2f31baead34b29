------------------------------ MODULE Dispatch ------------------------------
(***************************************************************************)
(* Engine::dispatch of crates/llmleaf-core/src/engine.rs and the tail of   *)
(* every request: the walk of the fallback chain under node-local health   *)
(* and rate limits, the bounded wait, the provider call, the instrumented  *)
(* stream and the events it emits.  Requests interleave at every lock and  *)
(* every await, and a client may hang up at every await.  A provider has   *)
(* one limit scope here (concurrency and tokens/min); RateLimiter has the  *)
(* other dimensions.                                                       *)
(***************************************************************************)
EXTENDS TokenBucket, FiniteSets, Sequences

CONSTANTS
    Providers,      \* names a chain may mention
    Registered,     \* those the registry has an instance for
    Chains,         \* resolved, non-empty fallback chains
    MaxConcurrent,  \* provider -> permits
    Tpm,            \* provider -> tokens per minute
    Costs,          \* token counts a response may report
    Cooldown,       \* fallback_cooldown_secs
    MaxWait,        \* rate_limit_max_wait_ms, in ticks
    Poll,           \* CONCURRENCY_POLL, in ticks
    Requests,       \* requests, each of which arrives once
    MaxUsage,       \* bound: usage chunks of one stream
    MaxTime,        \* bound: the clock, unless somebody sleeps
    NoWait,         \* no target was rate limited in this walk
    NoProvider      \* no permit is held

VARIABLES
    health,     \* provider -> the second its cooldown ends; 0 is no entry
    available,  \* provider -> free permits
    tpm,        \* provider -> BucketState
    clock,
    calls,      \* one request per element of Requests
    events      \* request -> the events emitted for it, in order

vars == <<health, available, tpm, clock, calls, events>>

ASSUME RequestAssumption == IsFiniteSet(Requests)
ASSUME ChainAssumption == Chains \subseteq Seq(Providers) \ {<<>>} /\ Registered \subseteq Providers
ASSUME CostAssumption == Costs \subseteq Nat
ASSUME LimitAssumption ==
    /\ MaxConcurrent \in [Providers -> Limits]
    /\ Tpm \in [Providers -> Limits]
ASSUME TimeAssumption == Cooldown \in Nat /\ MaxWait \in Nat /\ Poll \in Nat \ {0} /\ MaxTime \in Nat
ASSUME SentinelAssumption == NoWait \notin Nat /\ NoProvider \notin Providers

Waits == Nat \cup {NoWait}

\* The modalities by their tails: chat and speech stream; embed, rerank, decisions and
\* transcribe answer at once; voices does so without usage and is not screened.
Kinds == {"stream", "batch", "voices"}

EventKinds == {"Started", "Health", "Routed", "Usage", "Completed", "Failed"}

\* honor: the pass; i: the target under consideration; err: last_err is Some;
\* tried: history of this walk, the targets attempted as <<honor, i>>.
Calls == [pc : {"idle", "screening", "walk", "floor", "attempt", "nap", "stream", "batch", "voices", "done"},
          kind : Kinds, chain : Seq(Providers), now : Nat,
          walkNow : Nat, honor : BOOLEAN, i : Nat, err : BOOLEAN, wait : Waits,
          budget : Nat, wakeAt : Nat, guard : Providers \cup {NoProvider},
          tried : SUBSET (BOOLEAN \X Nat),
          outcome : {"none", "blocked", "served", "failed", "limited", "dropped"}]

TypeOK ==
    /\ health \in [Providers -> Nat]
    /\ available \in [Providers -> Nat]
    /\ tpm \in [Providers -> Buckets]
    /\ clock \in Nat
    /\ calls \in [Requests -> Calls]
    /\ events \in [Requests -> Seq(EventKinds)]

NewCall == [pc |-> "idle", kind |-> "stream", chain |-> <<>>, now |-> 0, walkNow |-> 0,
            honor |-> TRUE, i |-> 1, err |-> FALSE, wait |-> NoWait, budget |-> MaxWait,
            wakeAt |-> 0, guard |-> NoProvider, tried |-> {}, outcome |-> "none"]

Init ==
    /\ health = [p \in Providers |-> 0]
    /\ available = [p \in Providers |-> IF MaxConcurrent[p] = NoLimit THEN 0 ELSE MaxConcurrent[p]]
    /\ tpm = [p \in Providers |-> per_minute(Tpm[p])]
    /\ clock = 0
    /\ calls = [r \in Requests |-> NewCall]
    /\ events = [r \in Requests |-> <<>>]

-----------------------------------------------------------------------------
(* Node-local health, route.rs *)

is_down(p, now) == now < health[p]
penalize(p, now) == health' = [health EXCEPT ![p] = now + Cooldown]
clear(p) == health' = [health EXCEPT ![p] = 0]

-----------------------------------------------------------------------------
(* Common parts of the steps of a request *)

Emit(r, kind) == events' = [events EXCEPT ![r] = Append(events[r], kind)]

\* Dropping the guard gives its permit back.
FreeGuard(r) ==
    LET p == calls[r].guard IN
    available' = IF p = NoProvider THEN available
                 ELSE IF MaxConcurrent[p] = NoLimit THEN available
                 ELSE [available EXCEPT ![p] = available[p] + 1]

Update(r, call) == calls' = [calls EXCEPT ![r] = call]

\* The start of a walk: a fresh clock reading for the buckets, nothing tried yet.
Walk(call) == [call EXCEPT !.pc = "walk", !.walkNow = clock, !.honor = TRUE, !.i = 1,
                           !.err = FALSE, !.wait = NoWait, !.tried = {}]

\* On to the next target of the pass.
Skip(call) == [call EXCEPT !.pc = "walk", !.i = call.i + 1, !.guard = NoProvider]

Sooner(wait, w) == IF wait = NoWait THEN w ELSE IF w < wait THEN w ELSE wait

Ended(call, outcome) == [call EXCEPT !.pc = "done", !.guard = NoProvider, !.outcome = outcome]

\* The walk of r has a target before it.
Facing(r) == calls[r].pc = "walk" /\ calls[r].i <= Len(calls[r].chain)
Target(r) == calls[r].chain[calls[r].i]
Skipped(r) == calls[r].honor /\ is_down(Target(r), calls[r].now)

-----------------------------------------------------------------------------
(* Arrival *)

\* The handler reads the wall clock and the engine hands the request to the interceptor.
Arrive(r, chain, kind) ==
    /\ calls[r].pc = "idle"
    /\ Update(r, [NewCall EXCEPT !.pc = "screening", !.kind = kind, !.chain = chain, !.now = clock])
    /\ UNCHANGED <<health, available, tpm, clock, events>>

\* screen_request blocks: no event is emitted for such a request.
Block(r) ==
    /\ calls[r].pc = "screening"
    /\ calls[r].kind # "voices"
    /\ Update(r, Ended(calls[r], "blocked"))
    /\ UNCHANGED <<health, available, tpm, clock, events>>

Start(r) ==
    /\ calls[r].pc = "screening"
    /\ Update(r, Walk(calls[r]))
    /\ Emit(r, "Started")
    /\ UNCHANGED <<health, available, tpm, clock>>

-----------------------------------------------------------------------------
(* The walk *)

SkipCooled(r) ==
    /\ Facing(r)
    /\ Skipped(r)
    /\ Update(r, Skip(calls[r]))
    /\ UNCHANGED <<health, available, tpm, clock, events>>

\* No instance in the registry counts as the walk's error.
SkipUnregistered(r) ==
    /\ Facing(r)
    /\ ~Skipped(r)
    /\ Target(r) \notin Registered
    /\ Update(r, [Skip(calls[r]) EXCEPT !.err = TRUE])
    /\ UNCHANGED <<health, available, tpm, clock, events>>

\* Mutant: the free permits are not looked at.
AcquirePermitBlindly(r) ==
    LET p == Target(r) IN
    /\ Facing(r)
    /\ ~Skipped(r)
    /\ p \in Registered
    /\ available' = IF MaxConcurrent[p] = NoLimit THEN available
                    ELSE [available EXCEPT ![p] = available[p] - 1]
    /\ Update(r, [calls[r] EXCEPT !.pc = "floor", !.guard = p])
    /\ UNCHANGED <<health, tpm, clock, events>>

\* The semaphore of the target, held until the guard drops.
AcquirePermit(r) ==
    LET p == Target(r) IN
    /\ Facing(r)
    /\ ~Skipped(r)
    /\ p \in Registered
    /\ MaxConcurrent[p] # NoLimit => available[p] > 0
    /\ available' = IF MaxConcurrent[p] = NoLimit THEN available
                    ELSE [available EXCEPT ![p] = available[p] - 1]
    /\ Update(r, [calls[r] EXCEPT !.pc = "floor", !.guard = p])
    /\ UNCHANGED <<health, tpm, clock, events>>

PermitsExhausted(r) ==
    LET p == Target(r) IN
    /\ Facing(r)
    /\ ~Skipped(r)
    /\ p \in Registered
    /\ MaxConcurrent[p] # NoLimit
    /\ available[p] = 0
    /\ Update(r, [Skip(calls[r]) EXCEPT !.wait = Sooner(calls[r].wait, Poll)])
    /\ UNCHANGED <<health, available, tpm, clock, events>>

Topped(r) == refill(tpm[Target(r)], Tpm[Target(r)], calls[r].walkNow)

FloorHolds(r) ==
    LET call == calls[r]
        p == Target(r) IN
    /\ call.pc = "floor"
    /\ Tpm[p] # NoLimit => Topped(r).tokens > 0
    /\ tpm' = IF Tpm[p] = NoLimit THEN tpm ELSE [tpm EXCEPT ![p] = Topped(r)]
    /\ Update(r, [call EXCEPT !.pc = "attempt", !.tried = call.tried \cup {<<call.honor, call.i>>}])
    /\ UNCHANGED <<health, available, clock, events>>

\* wait_for: ticks until the debt is paid; the code's added epsilon rounds to nothing,
\* so an exactly empty bucket asks for no wait at all.  A limit of 0 never recovers.
wait_for(deficit, limit) ==
    IF limit = 0 THEN MaxWait + 1 ELSE (deficit + limit - 1) \div limit

FloorExhausted(r) ==
    LET call == calls[r]
        p == Target(r) IN
    /\ call.pc = "floor"
    /\ Tpm[p] # NoLimit
    /\ Topped(r).tokens <= 0
    /\ tpm' = [tpm EXCEPT ![p] = Topped(r)]
    /\ FreeGuard(r)
    /\ Update(r, [Skip(call) EXCEPT
                     !.wait = Sooner(call.wait, wait_for(-Topped(r).tokens, Tpm[p]))])
    /\ UNCHANGED <<health, clock, events>>

\* The provider answers: the penalty is cleared and the guard goes to the response.
OpOk(r) ==
    /\ calls[r].pc = "attempt"
    /\ clear(Target(r))
    /\ Update(r, [calls[r] EXCEPT !.pc = calls[r].kind])
    /\ Emit(r, "Routed")
    /\ UNCHANGED <<available, tpm, clock>>

OpUnsupported(r) ==
    /\ calls[r].pc = "attempt"
    /\ FreeGuard(r)
    /\ Update(r, [Skip(calls[r]) EXCEPT !.err = TRUE])
    /\ UNCHANGED <<health, tpm, clock, events>>

\* The penalty runs from the second the request arrived in.
OpFailed(r) ==
    /\ calls[r].pc = "attempt"
    /\ FreeGuard(r)
    /\ penalize(Target(r), calls[r].now)
    /\ Update(r, [Skip(calls[r]) EXCEPT !.err = TRUE])
    /\ Emit(r, "Health")
    /\ UNCHANGED <<tpm, clock>>

Exhausted(r) == calls[r].pc = "walk" /\ calls[r].i > Len(calls[r].chain)

\* Mutants: the second pass starts over while nothing was attempted; or follows
\* whatever happened in the first.
FailOpenForever(r) ==
    /\ Exhausted(r)
    /\ ~calls[r].err
    /\ Update(r, [calls[r] EXCEPT !.honor = FALSE, !.i = 1])
    /\ UNCHANGED <<health, available, tpm, clock, events>>
FailOpenAlways(r) ==
    /\ Exhausted(r)
    /\ calls[r].honor
    /\ Update(r, [calls[r] EXCEPT !.honor = FALSE, !.i = 1])
    /\ UNCHANGED <<health, available, tpm, clock, events>>

\* The pass that honors cooldowns met no error: walk again, ignoring them.
FailOpen(r) ==
    /\ Exhausted(r)
    /\ calls[r].honor
    /\ ~calls[r].err
    /\ Update(r, [calls[r] EXCEPT !.honor = FALSE, !.i = 1])
    /\ UNCHANGED <<health, available, tpm, clock, events>>

\* Both passes are over and only rate limits stood in the way.
Saturated(r) == Exhausted(r) /\ ~calls[r].honor /\ ~calls[r].err /\ calls[r].wait # NoWait

Nap(r) == Sooner(calls[r].wait, calls[r].budget)

Sleep(r) ==
    /\ Saturated(r)
    /\ Nap(r) > 0
    /\ Update(r, [calls[r] EXCEPT !.pc = "nap", !.wakeAt = clock + Nap(r),
                                  !.budget = calls[r].budget - Nap(r)])
    /\ UNCHANGED <<health, available, tpm, clock, events>>

\* A sleep lasts longer than asked for, if only by a moment.
Wake(r) ==
    /\ calls[r].pc = "nap"
    /\ clock > calls[r].wakeAt
    /\ Update(r, Walk(calls[r]))
    /\ UNCHANGED <<health, available, tpm, clock, events>>

RateLimited(r) ==
    /\ Saturated(r)
    /\ Nap(r) = 0
    /\ Update(r, Ended(calls[r], "limited"))
    /\ Emit(r, "Failed")
    /\ UNCHANGED <<health, available, tpm, clock>>

AllTargetsFailed(r) ==
    /\ Exhausted(r)
    /\ calls[r].err \/ (~calls[r].honor /\ calls[r].wait = NoWait)
    /\ Update(r, Ended(calls[r], "failed"))
    /\ Emit(r, "Failed")
    /\ UNCHANGED <<health, available, tpm, clock>>

-----------------------------------------------------------------------------
(* The response *)

\* debit_tokens with a fresh clock reading.
Debit(r, cost) ==
    LET p == calls[r].guard IN
    tpm' = IF Tpm[p] = NoLimit THEN tpm
           ELSE [tpm EXCEPT ![p] = Minus(refill(tpm[p], Tpm[p], clock), cost)]

UsagesOf(r) == Len(SelectSeq(events[r], LAMBDA e : e = "Usage"))

UsageChunk(r, cost) ==
    /\ calls[r].pc = "stream"
    /\ UsagesOf(r) < MaxUsage
    /\ Debit(r, cost)
    /\ Emit(r, "Usage")
    /\ UNCHANGED <<health, available, clock, calls>>

\* Mutant: the generator goes on after it has yielded the error.
StreamErrorGoesOn(r) ==
    /\ calls[r].pc = "stream"
    /\ \A n \in 1 .. Len(events[r]) : events[r][n] # "Failed"
    /\ Emit(r, "Failed")
    /\ UNCHANGED <<health, available, tpm, clock, calls>>

StreamError(r) ==
    /\ calls[r].pc = "stream"
    /\ FreeGuard(r)
    /\ Update(r, Ended(calls[r], "failed"))
    /\ Emit(r, "Failed")
    /\ UNCHANGED <<health, tpm, clock>>

StreamEnd(r) ==
    /\ calls[r].pc = "stream"
    /\ FreeGuard(r)
    /\ Update(r, Ended(calls[r], "served"))
    /\ Emit(r, "Completed")
    /\ UNCHANGED <<health, tpm, clock>>

\* A batch modality debits, reports and completes without another await.
BatchTail(r, cost) ==
    /\ calls[r].pc = "batch"
    /\ Debit(r, cost)
    /\ FreeGuard(r)
    /\ Update(r, Ended(calls[r], "served"))
    /\ events' = [events EXCEPT ![r] = events[r] \o <<"Usage", "Completed">>]
    /\ UNCHANGED <<health, clock>>

\* A listing of voices consumes no tokens and reports none.
VoicesTail(r) ==
    /\ calls[r].pc = "voices"
    /\ FreeGuard(r)
    /\ Update(r, Ended(calls[r], "served"))
    /\ Emit(r, "Completed")
    /\ UNCHANGED <<health, tpm, clock>>

\* Mutant: a hang-up while the provider is being called loses the permit.
DisconnectLeaks(r) ==
    /\ calls[r].pc \in {"screening", "attempt", "nap", "stream"}
    /\ IF calls[r].pc = "attempt" THEN UNCHANGED available ELSE FreeGuard(r)
    /\ Update(r, Ended(calls[r], "dropped"))
    /\ UNCHANGED <<health, tpm, clock, events>>

\* The client hangs up: the future or the stream is dropped at its await, and the
\* guard with it.  Nothing is emitted.
Disconnect(r) ==
    /\ calls[r].pc \in {"screening", "attempt", "nap", "stream"}
    /\ FreeGuard(r)
    /\ Update(r, Ended(calls[r], "dropped"))
    /\ UNCHANGED <<health, tpm, clock, events>>

Tick ==
    /\ clock < MaxTime \/ \E r \in Requests : calls[r].pc = "nap" /\ clock <= calls[r].wakeAt
    /\ clock' = clock + 1
    /\ UNCHANGED <<health, available, tpm, calls, events>>

\* What the engine does for a request by itself once it has arrived; the interceptor
\* answers within its own timeout.
EngineStep(r) ==
    \/ Block(r) \/ Start(r)
    \/ SkipCooled(r) \/ SkipUnregistered(r) \/ AcquirePermit(r) \/ PermitsExhausted(r)
    \/ FloorHolds(r) \/ FloorExhausted(r)
    \/ FailOpen(r) \/ Sleep(r) \/ Wake(r) \/ RateLimited(r) \/ AllTargetsFailed(r)
    \/ VoicesTail(r)
    \/ \E cost \in Costs : BatchTail(r, cost)

\* What happens only when the upstream that was called is heard of.
UpstreamStep(r) ==
    \/ OpOk(r) \/ OpUnsupported(r) \/ OpFailed(r)
    \/ StreamError(r) \/ StreamEnd(r)
    \/ \E cost \in Costs : UsageChunk(r, cost)

Next ==
    \/ \E r \in Requests, chain \in Chains, kind \in Kinds : Arrive(r, chain, kind)
    \/ \E r \in Requests : EngineStep(r) \/ UpstreamStep(r)
    \/ \E r \in Requests : Disconnect(r)
    \/ Tick

Spec == Init /\ [][Next]_vars

\* The runtime polls every task that can go on, and time passes.  Nothing is assumed of
\* the upstream: the HTTP client sets no timeout.
FairSpec == Spec /\ (\A r \in Requests : WF_vars(EngineStep(r))) /\ WF_vars(Tick)

-----------------------------------------------------------------------------
(* Properties *)

Holders(p) == {r \in Requests : calls[r].guard = p}

\* A provider's permits are those that are free and those in the guards of requests
\* under way: no fall-through, error, end of stream or hang-up loses one.
GuardsConserved ==
    \A p \in Providers : MaxConcurrent[p] # NoLimit =>
        available[p] + Cardinality(Holders(p)) = MaxConcurrent[p]

Terminal == {"Completed", "Failed"}

\* A request's events tell one story: Started first, degraded-health reports before
\* Routed, usage only after it, at most one terminal event and nothing after it; and a
\* request that was not dropped or blocked has its terminal event when it is done.
EventsWellFormed ==
    \A r \in Requests :
        LET log == events[r] IN
        /\ \A n \in 1 .. Len(log) :
              /\ log[n] = "Started" <=> n = 1
              /\ log[n] = "Health" => \A k \in 1 .. n : log[k] # "Routed"
              /\ log[n] \in {"Usage", "Completed"} => \E k \in 1 .. n : log[k] = "Routed"
              /\ log[n] = "Routed" => \A k \in 1 .. (n - 1) : log[k] # "Routed"
              /\ log[n] \in Terminal => n = Len(log) /\ calls[r].pc = "done"
        /\ calls[r].outcome \in {"served", "failed", "limited"} =>
              log # <<>> /\ log[Len(log)] \in Terminal

\* One walk asks no target twice, and asks a target that is cooling down only when the
\* pass that honors cooldowns asked nobody.
AttemptDiscipline ==
    [][\A r \in Requests :
          calls[r].pc # "attempt" /\ calls'[r].pc = "attempt" =>
              /\ \A pass \in BOOLEAN : <<pass, calls[r].i>> \notin calls[r].tried
              /\ ~calls[r].honor => \A n \in 1 .. Len(calls[r].chain) : <<TRUE, n>> \notin calls[r].tried]_vars

\* The bounded wait ends: every request that starts its walk is answered or dropped,
\* however saturated and contended its providers are, unless an upstream that was called
\* stays silent for ever. No step leads from the walk to idle or screening: in the end it
\* is done, or for ever with the upstream it has called.
Terminates ==
    \A r \in Requests :
        <>[](calls[r].pc \in {"idle", "screening", "attempt", "stream", "done"})
=============================================================================
