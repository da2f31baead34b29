------------------------- MODULE RateLimiterProofs -------------------------
(***************************************************************************)
(* Proofs about RateLimiter for every set of models, limits and requests:  *)
(* permits are conserved, in every window the requests/min buckets give    *)
(* out no more than their burst and what accrues, and a refused call has   *)
(* given back what it took.                                                *)
(***************************************************************************)
EXTENDS RateLimiter, FiniteSetTheorems, WellFoundedInduction, TLAPS

-----------------------------------------------------------------------------
(* Token buckets. *)

\* Multiplication by a limit distributes over a sum of two spans of time.
LEMMA Distribute ==
    ASSUME NEW k \in Int, NEW x \in Int, NEW y \in Int
    PROVE  k * (x + y) = k * x + k * y
OBVIOUS

\* A capacity is a natural number of units.
LEMMA CapacityType ==
    ASSUME NEW limit \in Nat
    PROVE  limit * Minute \in Nat
BY MinuteAssumption

\* What topping up does to a bucket that is not above its capacity: the level stays
\* there, does not fall, and rises by no more than the time passed accrues.
LEMMA RefillFacts ==
    ASSUME NEW b \in Buckets, NEW limit \in Nat, NEW now \in Nat,
           b.tokens <= limit * Minute
    PROVE  LET t == refill(b, limit, now) IN
           /\ t \in Buckets
           /\ t.last = IF now > b.last THEN now ELSE b.last
           /\ b.tokens <= t.tokens
           /\ t.tokens <= limit * Minute
           /\ t.tokens <= b.tokens + limit * (t.last - b.last)
<1> DEFINE gain == (now - b.last) * limit
<1>1. b.tokens \in Int /\ b.last \in Nat
    BY DEF Buckets
<1>2. limit * Minute \in Nat
    BY CapacityType
<1>3. CASE now > b.last
    <2>1. gain \in Nat /\ gain = limit * (now - b.last)
        BY <1>1, <1>3
    <2> HIDE DEF gain
    <2>2. refill(b, limit, now) =
              [tokens |-> IF b.tokens + gain > limit * Minute THEN limit * Minute
                          ELSE b.tokens + gain,
               last |-> now]
        BY <1>3 DEF refill, gain
    <2> QED
        BY <1>1, <1>2, <1>3, <2>1, <2>2 DEF Buckets
<1>4. CASE ~(now > b.last)
    <2>1. refill(b, limit, now) = b
        BY <1>4 DEF refill
    <2>2. limit * (b.last - b.last) = 0
        BY <1>1
    <2> QED
        BY <1>1, <1>4, <2>1, <2>2
<1> QED
    BY <1>3, <1>4

\* Topping up a declared bucket gives a bucket, whatever its level.
LEMMA RefillType ==
    ASSUME NEW b \in Buckets, NEW limit \in Nat, NEW now \in Nat
    PROVE  refill(b, limit, now) \in Buckets
<1>1. (now - b.last) * limit \in Int /\ limit * Minute \in Int
    BY MinuteAssumption DEF Buckets
<1> QED
    BY <1>1 DEF refill, Buckets

\* A debit or take gives a bucket.
LEMMA MinusType ==
    ASSUME NEW b \in Buckets, NEW n \in Nat
    PROVE  /\ Minus(b, n) \in Buckets
           /\ Minus(b, n).last = b.last
           /\ Minus(b, n).tokens = b.tokens - n * Minute
<1>1. n * Minute \in Int
    BY MinuteAssumption
<1> QED
    BY <1>1 DEF Minus, Buckets

\* A refund gives a bucket, at most one token above its topped-up level.
LEMMA RefundFacts ==
    ASSUME NEW b \in Buckets, NEW limit \in Nat, NEW now \in Nat
    PROVE  LET t == refill(b, limit, now)
               f == refund(b, limit, now) IN
           /\ f \in Buckets
           /\ f.last = t.last
           /\ f.tokens <= limit * Minute
           /\ f.tokens <= t.tokens + Minute
           /\ f.tokens = t.tokens + Minute \/ f.tokens = limit * Minute
<1> DEFINE t == refill(b, limit, now)
<1>1. t \in Buckets
    BY RefillType
<1>2. limit * Minute \in Nat /\ Minute \in Nat
    BY CapacityType, MinuteAssumption
<1>3. refund(b, limit, now) =
          [t EXCEPT !.tokens = IF t.tokens + Minute > limit * Minute THEN limit * Minute
                               ELSE t.tokens + Minute]
    BY DEF refund
<1> HIDE DEF t
<1>4. t.tokens \in Int /\ t.last \in Nat
    BY <1>1 DEF Buckets
<1> QED
    BY <1>1, <1>2, <1>3, <1>4 DEF Buckets, t

-----------------------------------------------------------------------------
(* Type correctness and the shape of a call *)

\* What a call holds at each stage: nothing when idle, the global permit alone before
\* the model's, tokens only of declared buckets, and a refund only of what was taken.
CallShape(c) ==
    /\ c.pc = "idle" => c.held = {}
    /\ c.pc = "permit" => \/ c.at = Global /\ c.held = {}
                          \/ c.at = c.model /\ c.held = {Global}
    /\ \A s \in c.took : Rpm[s] # NoLimit
    /\ c.pc = "refund" => Global \in c.took

ShapeInv == TypeOK /\ \A r \in Requests : CallShape(calls[r])

\* The resting call is well formed.
LEMMA ParkedFacts == Parked \in Calls /\ CallShape(Parked) /\ Parked.held = {} /\ Parked.pc = "idle"
                     /\ Parked.now = 0
<1>1. (CHOOSE m \in Models : TRUE) \in Models
    BY ScopeAssumption
<1> QED
    BY <1>1 DEF Parked, Idle, Calls, CallShape, Scopes

\* One lock on: the stage moves, nothing that is held or taken does.
LEMMA AdvanceFacts ==
    ASSUME NEW c \in Calls, CallShape(c), c.pc \in {"permit", "floor", "take", "debit"}
    PROVE  /\ Advance(c) \in Calls
           /\ Advance(c).held = c.held
           /\ Advance(c).took = c.took
           /\ Advance(c).now = c.now
           /\ Advance(c).model = c.model
           /\ Advance(c).pc \notin {"idle", "refund"}
           /\ Advance(c).pc = "permit" => c.at = Global /\ c.pc = "permit" /\ Advance(c).at = c.model
           /\ Advance(c).pc \in {"permit", "floor", "take"} => c.pc \in {"permit", "floor", "take"}
BY DEF Advance, Calls, Scopes

\* A well-formed update of one call keeps the calls well formed.
LEMMA CallUpdate ==
    ASSUME calls \in [Requests -> Calls], \A q \in Requests : CallShape(calls[q]),
           NEW r \in Requests, NEW c \in Calls, CallShape(c),
           calls' = [calls EXCEPT ![r] = c]
    PROVE  /\ calls' \in [Requests -> Calls]
           /\ (\A q \in Requests : CallShape(calls[q]))'
           /\ calls'[r] = c
           /\ \A q \in Requests : q # r => calls'[q] = calls[q]
<1>1. calls' \in [Requests -> Calls] /\ calls'[r] = c /\ \A q \in Requests : q # r => calls'[q] = calls[q]
    OBVIOUS
<1>2. ASSUME NEW q \in Requests
      PROVE  CallShape(calls'[q])
    <2>1. CASE q = r
        BY <1>1, <2>1
    <2>2. CASE q # r
        BY <1>1, <2>2
    <2> QED
        BY <2>1, <2>2
<1> QED
    BY <1>1, <1>2 DEF CallShape

\* Dropping what a call holds.
LEMMA DropFacts ==
    ASSUME ShapeInv, NEW r \in Requests, Drop(r)
    PROVE  /\ available' \in [Scopes -> Nat]
           /\ calls' \in [Requests -> Calls]
           /\ (\A q \in Requests : CallShape(calls[q]))'
<1>1. available' \in [Scopes -> Nat]
    BY DEF Drop, Released, ShapeInv, TypeOK
<1> QED
    BY <1>1, ParkedFacts, CallUpdate DEF Drop, ShapeInv, TypeOK

\* The inductive step of type correctness.
LEMMA ShapeStep == ShapeInv /\ [Next]_vars => ShapeInv'
<1> SUFFICES ASSUME ShapeInv, [Next]_vars
             PROVE  ShapeInv'
    OBVIOUS
<1> USE DEF ShapeInv
<1>a. /\ TypeOK
      /\ \A q \in Requests : CallShape(calls[q])
      /\ calls \in [Requests -> Calls]
    BY DEF TypeOK
<1>b. /\ \A s \in Scopes : Rpm[s] # NoLimit => Rpm[s] \in Nat
      /\ \A s \in Scopes : Tpm[s] # NoLimit => Tpm[s] \in Nat
      /\ Global \in Scopes
    BY LimitAssumption DEF Limits, Scopes
<1>c. \A r \in Requests : calls[r].at \in Scopes /\ calls[r].now \in Nat /\ calls[r].cost \in Nat
    BY <1>a DEF Calls
<1>1. ASSUME NEW r \in Requests, NEW m \in Models, Enter(r, m)
      PROVE  ShapeInv'
    <2> DEFINE c == [Idle(m) EXCEPT !.pc = "permit", !.now = clock]
    <2>1. c \in Calls /\ CallShape(c)
        BY <1>a DEF Idle, Calls, CallShape, Scopes, TypeOK
    <2>2. calls' = [calls EXCEPT ![r] = c]
        BY <1>1 DEF Enter
    <2> HIDE DEF c
    <2> QED
        BY <1>1, <1>a, <2>1, <2>2, CallUpdate DEF Enter, TypeOK
<1>2. ASSUME NEW r \in Requests, AcquirePermit(r)
      PROVE  ShapeInv'
    <2> DEFINE call == calls[r]
               c == [Advance(call) EXCEPT !.held = call.held \cup {call.at}]
    <2>1. call \in Calls /\ CallShape(call) /\ call.pc = "permit"
        BY <1>2, <1>a DEF AcquirePermit
    <2>2. Advance(call) \in Calls
        BY <2>1, AdvanceFacts
    <2>3. c \in Calls /\ CallShape(c)
        <3>1. c \in Calls
            BY <2>1, <2>2 DEF Calls
        <3>2. c.pc = Advance(call).pc /\ c.at = Advance(call).at /\ c.took = Advance(call).took
              /\ c.model = Advance(call).model /\ c.held = call.held \cup {call.at}
            BY <2>2 DEF Calls
        <3> QED
            BY <2>1, <3>1, <3>2, AdvanceFacts, ScopeAssumption DEF CallShape, Calls
    <2>4. calls' = [calls EXCEPT ![r] = c]
        BY <1>2 DEF AcquirePermit
    <2>5. available' \in [Scopes -> Nat]
        BY <1>2, <1>a, <1>c, LimitAssumption DEF AcquirePermit, TypeOK, Limits
    <2> HIDE DEF c
    <2> QED
        BY <1>2, <1>a, <2>3, <2>4, <2>5, CallUpdate DEF AcquirePermit, TypeOK
<1>3. ASSUME NEW r \in Requests, PermitsExhausted(r)
      PROVE  ShapeInv'
    BY <1>3, <1>a, DropFacts DEF PermitsExhausted, TypeOK
<1>4. ASSUME NEW r \in Requests, FloorHolds(r)
      PROVE  ShapeInv'
    <2> DEFINE call == calls[r]
               c == Advance(call)
    <2>1. call \in Calls /\ CallShape(call) /\ call.pc = "floor"
        BY <1>4, <1>a DEF FloorHolds
    <2>2. c \in Calls /\ CallShape(c)
        BY <2>1, AdvanceFacts DEF CallShape
    <2>3. calls' = [calls EXCEPT ![r] = c]
        BY <1>4 DEF FloorHolds
    <2>4. tpm' \in [Scopes -> Buckets]
        BY <1>4, <1>a, <1>b, <1>c, RefillType DEF FloorHolds, TypeOK
    <2> HIDE DEF c
    <2> QED
        BY <1>4, <1>a, <2>2, <2>3, <2>4, CallUpdate DEF FloorHolds, TypeOK
<1>5. ASSUME NEW r \in Requests, FloorExhausted(r)
      PROVE  ShapeInv'
    <2>1. tpm' \in [Scopes -> Buckets]
        BY <1>5, <1>a, <1>b, <1>c, RefillType DEF FloorExhausted, TypeOK
    <2>2. Drop(r)
        BY <1>5 DEF FloorExhausted
    <2> QED
        BY <1>5, <1>a, <2>1, <2>2, DropFacts DEF FloorExhausted, TypeOK
<1>6. ASSUME NEW r \in Requests, Take(r)
      PROVE  ShapeInv'
    <2> DEFINE call == calls[r]
    <2>1. call \in Calls /\ CallShape(call) /\ call.pc = "take"
        BY <1>6, <1>a DEF Take
    <2>2. Advance(call) \in Calls /\ CallShape(Advance(call))
        BY <2>1, AdvanceFacts DEF CallShape
    <2>3. CASE Rpm[call.at] = NoLimit
        <3>1. calls' = [calls EXCEPT ![r] = Advance(call)]
            BY <1>6, <2>3 DEF Take
        <3> QED
            BY <1>6, <1>a, <2>2, <2>3, <3>1, CallUpdate DEF Take, TypeOK
    <2>4. CASE Rpm[call.at] # NoLimit
        <3> DEFINE c == [Advance(call) EXCEPT !.took = call.took \cup {call.at}]
        <3>1. c \in Calls /\ CallShape(c)
            <4>1. c \in Calls
                BY <2>1, <2>2 DEF Calls
            <4>2. c.pc = Advance(call).pc /\ c.at = Advance(call).at
                  /\ c.model = Advance(call).model /\ c.held = Advance(call).held
                  /\ c.took = call.took \cup {call.at}
                BY <2>2 DEF Calls
            <4> QED
                BY <2>1, <2>2, <2>4, <4>1, <4>2, AdvanceFacts DEF CallShape
        <3>2. calls' = [calls EXCEPT ![r] = c]
            BY <1>6, <2>4 DEF Take
        <3>3. rpm' \in [Scopes -> Buckets]
            <4> DEFINE topped == refill(rpm[call.at], Rpm[call.at], call.now)
            <4>1. topped \in Buckets
                BY <1>a, <1>b, <1>c, <2>4, RefillType DEF TypeOK
            <4>2. rpm' = [rpm EXCEPT ![call.at] = Minus(topped, 1)]
                BY <1>6, <2>4 DEF Take
            <4> HIDE DEF topped
            <4>3. Minus(topped, 1) \in Buckets
                BY <4>1, MinusType
            <4> QED
                BY <1>a, <4>2, <4>3 DEF TypeOK
        <3>4. taken' \in [Scopes -> Int]
            BY <1>6, <1>a, <1>c, <2>4 DEF Take, TypeOK
        <3> HIDE DEF c
        <3> QED
            BY <1>6, <1>a, <2>4, <3>1, <3>2, <3>3, <3>4, CallUpdate DEF Take, TypeOK
    <2> QED
        BY <2>3, <2>4
<1>7. ASSUME NEW r \in Requests, TakeRefused(r)
      PROVE  ShapeInv'
    <2> DEFINE call == calls[r]
    <2>1. rpm' \in [Scopes -> Buckets]
        BY <1>7, <1>a, <1>b, <1>c, RefillType DEF TakeRefused, TypeOK
    <2>2. CASE Global \in call.took
        <3> DEFINE c == [call EXCEPT !.pc = "refund"]
        <3>1. c \in Calls /\ CallShape(c)
            BY <1>a, <2>2 DEF Calls, CallShape
        <3>2. calls' = [calls EXCEPT ![r] = c] /\ available' = available
            BY <1>7, <2>2 DEF TakeRefused
        <3> HIDE DEF c
        <3> QED
            BY <1>7, <1>a, <2>1, <3>1, <3>2, CallUpdate DEF TakeRefused, TypeOK
    <2>3. CASE Global \notin call.took
        <3>1. Drop(r)
            BY <1>7, <2>3 DEF TakeRefused
        <3> QED
            BY <1>7, <1>a, <2>1, <3>1, DropFacts DEF TakeRefused, TypeOK
    <2> QED
        BY <2>2, <2>3
<1>8. ASSUME NEW r \in Requests, Refund(r)
      PROVE  ShapeInv'
    <2>1. Rpm[Global] \in Nat
        BY <1>8, <1>a, <1>b DEF Refund, CallShape
    <2>2. rpm' \in [Scopes -> Buckets] /\ taken' \in [Scopes -> Int]
        <3>1. refund(rpm[Global], Rpm[Global], calls[r].now) \in Buckets
            BY <1>a, <1>b, <1>c, <2>1, RefundFacts DEF TypeOK
        <3> QED
            BY <1>8, <1>a, <1>b, <3>1 DEF Refund, TypeOK
    <2>3. Drop(r)
        BY <1>8 DEF Refund
    <2> QED
        BY <1>8, <1>a, <2>2, <2>3, DropFacts DEF Refund, TypeOK
<1>9. ASSUME NEW r \in Requests, debit_tokens(r)
      PROVE  ShapeInv'
    <2> DEFINE call == calls[r]
               c == Advance(call)
    <2>1. call \in Calls /\ CallShape(call) /\ call.pc = "debit"
        BY <1>9, <1>a DEF debit_tokens
    <2>2. c \in Calls /\ CallShape(c)
        BY <2>1, AdvanceFacts DEF CallShape
    <2>3. calls' = [calls EXCEPT ![r] = c]
        BY <1>9 DEF debit_tokens
    <2>4. tpm' \in [Scopes -> Buckets]
        BY <1>9, <1>a, <1>b, <1>c, RefillType, MinusType DEF debit_tokens, TypeOK
    <2> HIDE DEF c
    <2> QED
        BY <1>9, <1>a, <2>2, <2>3, <2>4, CallUpdate DEF debit_tokens, TypeOK
<1>10. ASSUME NEW r \in Requests, Finish(r)
       PROVE  ShapeInv'
    BY <1>10, <1>a, DropFacts DEF Finish, TypeOK
<1>11. ASSUME NEW r \in Requests, NEW cost \in Costs, ReportUsage(r, cost)
       PROVE  ShapeInv'
    <2> DEFINE c == [calls[r] EXCEPT !.pc = "debit", !.at = Global, !.now = clock, !.cost = cost]
    <2>1. c \in Calls /\ CallShape(c)
        BY <1>a, <1>b, CostAssumption DEF Calls, CallShape, TypeOK
    <2>2. calls' = [calls EXCEPT ![r] = c]
        BY <1>11, <1>a DEF ReportUsage
    <2> HIDE DEF c
    <2> QED
        BY <1>11, <1>a, <2>1, <2>2, CallUpdate DEF ReportUsage, TypeOK
<1>12. CASE Tick
    BY <1>12, <1>a DEF Tick, TypeOK, CallShape
<1>13. CASE OpenWindow
    <2>1. window' \in Windows
        BY <1>13, <1>a, <1>c DEF OpenWindow, TypeOK, Windows, PendingReadings
    <2> QED
        BY <1>13, <1>a, <2>1 DEF OpenWindow, TypeOK, CallShape
<1>14. CASE UNCHANGED vars
    BY <1>14, <1>a DEF vars, TypeOK, CallShape
<1> QED
    BY <1>1, <1>2, <1>3, <1>4, <1>5, <1>6, <1>7, <1>8, <1>9, <1>10, <1>11, <1>12, <1>13, <1>14
    DEF Next

\* The initial state is well formed.
LEMMA ShapeInit == Init => ShapeInv
<1> SUFFICES ASSUME Init
             PROVE  ShapeInv
    OBVIOUS
<1>1. \A limit \in Limits : per_minute(limit) \in Buckets
    BY MinuteAssumption, CapacityType DEF per_minute, Buckets, Limits
<1>2. rpm \in [Scopes -> Buckets] /\ tpm \in [Scopes -> Buckets]
    BY <1>1, LimitAssumption DEF Init
<1>3. available \in [Scopes -> Nat]
    BY LimitAssumption DEF Init, Limits
<1>4. TypeOK
    BY <1>2, <1>3, ParkedFacts DEF Init, TypeOK
<1>5. \A r \in Requests : calls[r] = Parked
    BY DEF Init
<1> QED
    BY <1>4, <1>5, ParkedFacts DEF ShapeInv

\* Every state of the limiter is well typed.
THEOREM TypeCorrect == Spec => []TypeOK
<1>1. ShapeInv => TypeOK
    BY DEF ShapeInv
<1> QED
    BY <1>1, ShapeInit, ShapeStep, PTL DEF Spec

-----------------------------------------------------------------------------
(* Permits are conserved *)

\* Holders are a finite set.
LEMMA HoldersFinite ==
    ASSUME NEW s
    PROVE  IsFiniteSet(Holders(s)) /\ Cardinality(Holders(s)) \in Nat
<1>1. Holders(s) \in SUBSET Requests
    BY DEF Holders
<1>2. IsFiniteSet(Holders(s))
    BY <1>1, RequestAssumption, FS_Subset
<1> QED
    BY <1>2, FS_CardinalityType

\* A step that moves no permit and changes nobody's hold.
LEMMA SameHolds ==
    ASSUME PermitsConserved, available' = available,
           \A q \in Requests : calls'[q].held = calls[q].held
    PROVE  PermitsConserved'
<1>1. \A s \in Scopes : Holders(s)' = Holders(s)
    BY DEF Holders
<1> QED
    BY <1>1 DEF PermitsConserved

\* Dropping the permits of one call returns each of them.
LEMMA DropConserves ==
    ASSUME ShapeInv, PermitsConserved, NEW r \in Requests, Drop(r)
    PROVE  PermitsConserved'
<1>1. SUFFICES ASSUME NEW s \in Scopes, MaxConcurrent[s] # NoLimit
               PROVE  available'[s] + Cardinality(Holders(s)') = MaxConcurrent[s]
    BY DEF PermitsConserved
<1>2. calls' = [calls EXCEPT ![r] = Parked] /\ Parked.held = {}
    BY ParkedFacts DEF Drop
<1>3. Holders(s)' = Holders(s) \ {r}
    BY <1>2 DEF Holders, ShapeInv, TypeOK
<1>4. available[s] \in Nat /\ available[s] + Cardinality(Holders(s)) = MaxConcurrent[s]
    BY <1>1 DEF ShapeInv, TypeOK, PermitsConserved
<1>5. available'[s] = IF s \in calls[r].held THEN available[s] + 1 ELSE available[s]
    BY <1>1 DEF Drop, Released
<1>6. Cardinality(Holders(s)') = IF r \in Holders(s) THEN Cardinality(Holders(s)) - 1
                                 ELSE Cardinality(Holders(s))
    BY <1>3, HoldersFinite, FS_RemoveElement
<1>7. r \in Holders(s) <=> s \in calls[r].held
    BY DEF Holders
<1> QED
    BY <1>4, <1>5, <1>6, <1>7, HoldersFinite

\* The inductive step of permit conservation.
LEMMA PermitStep == ShapeInv /\ PermitsConserved /\ [Next]_vars => PermitsConserved'
<1> SUFFICES ASSUME ShapeInv, PermitsConserved, [Next]_vars
             PROVE  PermitsConserved'
    OBVIOUS
<1>a. /\ calls \in [Requests -> Calls]
      /\ available \in [Scopes -> Nat]
      /\ \A q \in Requests : CallShape(calls[q])
    BY DEF ShapeInv, TypeOK
<1>b. ASSUME NEW r \in Requests, NEW c, calls' = [calls EXCEPT ![r] = c],
             c.held = calls[r].held, available' = available
      PROVE  PermitsConserved'
    BY <1>a, <1>b, SameHolds
<1>1. ASSUME NEW r \in Requests, NEW m \in Models, Enter(r, m)
      PROVE  PermitsConserved'
    <2>1. [Idle(m) EXCEPT !.pc = "permit", !.now = clock].held = {}
        BY DEF Idle
    <2>2. calls[r].held = {}
        BY <1>1, <1>a DEF Enter, CallShape
    <2> QED
        BY <1>1, <1>b, <2>1, <2>2 DEF Enter
<1>2. ASSUME NEW r \in Requests, AcquirePermit(r)
      PROVE  PermitsConserved'
    <2> DEFINE call == calls[r]
               c == [Advance(call) EXCEPT !.held = call.held \cup {call.at}]
    <2>1. call \in Calls /\ CallShape(call) /\ call.pc = "permit" /\ Advance(call) \in Calls
        BY <1>2, <1>a, AdvanceFacts DEF AcquirePermit
    <2>2. c.held = call.held \cup {call.at} /\ call.at \in Scopes
        BY <2>1 DEF Calls
    <2>3. call.at \notin call.held
        BY <2>1, ScopeAssumption DEF CallShape, Calls
    <2>4. calls' = [calls EXCEPT ![r] = c]
        BY <1>2 DEF AcquirePermit
    <2> HIDE DEF c
    <2>5. SUFFICES ASSUME NEW s \in Scopes, MaxConcurrent[s] # NoLimit
                   PROVE  available'[s] + Cardinality(Holders(s)') = MaxConcurrent[s]
        BY DEF PermitsConserved
    <2>6. available[s] \in Nat /\ available[s] + Cardinality(Holders(s)) = MaxConcurrent[s]
        BY <1>a, <2>5 DEF PermitsConserved
    <2>7. CASE s = call.at
        <3>1. Holders(s)' = Holders(s) \cup {r} /\ r \notin Holders(s)
            BY <1>a, <2>2, <2>3, <2>4, <2>7 DEF Holders
        <3>2. Cardinality(Holders(s)') = Cardinality(Holders(s)) + 1
            BY <3>1, HoldersFinite, FS_AddElement
        <3>3. available[s] > 0 /\ available'[s] = available[s] - 1
            BY <1>2, <1>a, <2>5, <2>7 DEF AcquirePermit
        <3> QED
            BY <2>6, <3>2, <3>3, HoldersFinite
    <2>8. CASE s # call.at
        <3>1. Holders(s)' = Holders(s)
            BY <1>a, <2>2, <2>4, <2>8 DEF Holders
        <3>2. available'[s] = available[s]
            BY <1>2, <1>a, <2>8 DEF AcquirePermit
        <3> QED
            BY <2>6, <3>1, <3>2
    <2> QED
        BY <2>7, <2>8
<1>3. ASSUME NEW r \in Requests, PermitsExhausted(r)
      PROVE  PermitsConserved'
    BY <1>3, DropConserves DEF PermitsExhausted
<1>4. ASSUME NEW r \in Requests, FloorHolds(r)
      PROVE  PermitsConserved'
    <2>1. Advance(calls[r]).held = calls[r].held
        BY <1>4, <1>a, AdvanceFacts DEF FloorHolds
    <2> QED
        BY <1>4, <1>b, <2>1 DEF FloorHolds
<1>5. ASSUME NEW r \in Requests, FloorExhausted(r)
      PROVE  PermitsConserved'
    BY <1>5, DropConserves DEF FloorExhausted
<1>6. ASSUME NEW r \in Requests, Take(r)
      PROVE  PermitsConserved'
    <2>1. Advance(calls[r]).held = calls[r].held /\ Advance(calls[r]) \in Calls
        BY <1>6, <1>a, AdvanceFacts DEF Take
    <2>2. [Advance(calls[r]) EXCEPT !.took = calls[r].took \cup {calls[r].at}].held = calls[r].held
        BY <2>1 DEF Calls
    <2> QED
        BY <1>6, <1>b, <2>1, <2>2 DEF Take
<1>7. ASSUME NEW r \in Requests, TakeRefused(r)
      PROVE  PermitsConserved'
    <2>1. [calls[r] EXCEPT !.pc = "refund"].held = calls[r].held
        BY <1>a DEF Calls
    <2> QED
        BY <1>7, <1>b, <2>1, DropConserves DEF TakeRefused
<1>8. ASSUME NEW r \in Requests, Refund(r)
      PROVE  PermitsConserved'
    BY <1>8, DropConserves DEF Refund
<1>9. ASSUME NEW r \in Requests, debit_tokens(r)
      PROVE  PermitsConserved'
    <2>1. Advance(calls[r]).held = calls[r].held
        BY <1>9, <1>a, AdvanceFacts DEF debit_tokens
    <2> QED
        BY <1>9, <1>b, <2>1 DEF debit_tokens
<1>10. ASSUME NEW r \in Requests, Finish(r)
       PROVE  PermitsConserved'
    BY <1>10, DropConserves DEF Finish
<1>11. ASSUME NEW r \in Requests, NEW cost \in Costs, ReportUsage(r, cost)
       PROVE  PermitsConserved'
    <2> DEFINE c == [calls[r] EXCEPT !.pc = "debit", !.at = Global, !.now = clock, !.cost = cost]
    <2>1. c.held = calls[r].held
        BY <1>a DEF Calls
    <2>2. calls' = [calls EXCEPT ![r] = c] /\ available' = available
        BY <1>11, <1>a DEF ReportUsage
    <2> HIDE DEF c
    <2> QED
        BY <1>b, <2>1, <2>2
<1>12. CASE Tick \/ OpenWindow \/ UNCHANGED vars
    BY <1>12, SameHolds DEF Tick, OpenWindow, vars
<1> QED
    BY <1>1, <1>2, <1>3, <1>4, <1>5, <1>6, <1>7, <1>8, <1>9, <1>10, <1>11, <1>12 DEF Next

\* No permit is lost or forged, for every number of models, requests and permits, in
\* every early return of try_admit and every drop of a guard.
THEOREM PermitsAreConserved == Spec => []PermitsConserved
<1>1. Init => PermitsConserved
    <2> SUFFICES ASSUME Init
                 PROVE  PermitsConserved
        OBVIOUS
    <2>1. \A s : Holders(s) = {}
        BY ParkedFacts DEF Init, Holders
    <2> QED
        BY <2>1, FS_EmptySet, LimitAssumption DEF Init, PermitsConserved, Limits
<1> QED
    BY <1>1, ShapeInit, ShapeStep, PermitStep, PTL DEF Spec

-----------------------------------------------------------------------------
(* The burst bound *)

Admitting == {"permit", "floor", "take", "refund"}

\* No reading is from the future, and none that an admission still carries is older
\* than the window.
ReadingInv ==
    /\ \A r \in Requests : calls[r].now <= clock
    /\ window # NoWindow =>
          /\ window.since <= clock
          /\ \A r \in Requests : calls[r].pc \in Admitting => window.since <= calls[r].now

\* A level that lies within its capacity.
Level(b, limit) == 0 <= b.tokens /\ b.tokens <= limit * Minute

\* What is in the bucket and what left it since the window opened came from the
\* burst and from time: nothing has left a bucket not touched since.
Within(b, limit, n, since) ==
    \/ b.last < since /\ n <= 0
    \/ since <= b.last /\ b.tokens + n * Minute <= limit * (Minute + (b.last - since))

Net(s) == taken[s] - window.base[s]

BucketInv(s) ==
    /\ rpm[s].last <= clock
    /\ Level(rpm[s], Rpm[s])
    /\ window # NoWindow => Within(rpm[s], Rpm[s], Net(s), window.since)

BurstInv == ReadingInv /\ \A s \in Scopes : Rpm[s] # NoLimit => BucketInv(s)

\* The arithmetic of a top-up: a bucket within its bound stays within it, and has
\* been touched since the window opened.
LEMMA RefillWithin ==
    ASSUME NEW b \in Buckets, NEW limit \in Nat, NEW now \in Nat, NEW n \in Int, NEW since \in Nat,
           since <= now, Level(b, limit), Within(b, limit, n, since)
    PROVE  LET t == refill(b, limit, now) IN
           /\ since <= t.last
           /\ t.tokens + n * Minute <= limit * (Minute + (t.last - since))
<1> DEFINE t == refill(b, limit, now)
<1>1. /\ b.tokens \in Int /\ b.last \in Nat
      /\ limit * Minute \in Nat /\ Minute \in Nat /\ n * Minute \in Int
    BY MinuteAssumption, CapacityType DEF Buckets
<1>2. /\ t \in Buckets
      /\ t.last = IF now > b.last THEN now ELSE b.last
      /\ t.tokens <= limit * Minute
      /\ t.tokens <= b.tokens + limit * (t.last - b.last)
    BY RefillFacts DEF Level
<1>3. t.tokens \in Int /\ t.last \in Nat
    BY <1>2 DEF Buckets
<1> HIDE DEF t
<1>4. since <= t.last
    BY <1>1, <1>2, <1>3
<1>5. limit * (Minute + (t.last - since)) = limit * Minute + limit * (t.last - since)
    BY <1>1, <1>3, Distribute
<1>6. CASE b.last < since /\ n <= 0
    <2>1. n * Minute <= 0
        BY <1>1, <1>6
    <2>2. limit * (t.last - since) \in Nat
        BY <1>3, <1>4
    <2> QED
        BY <1>1, <1>2, <1>3, <1>4, <1>5, <2>1, <2>2 DEF t
<1>7. CASE since <= b.last /\ b.tokens + n * Minute <= limit * (Minute + (b.last - since))
    <2>1. limit * (Minute + (b.last - since)) + limit * (t.last - b.last)
              = limit * ((Minute + (b.last - since)) + (t.last - b.last))
        BY <1>1, <1>3, Distribute
    <2>2. (Minute + (b.last - since)) + (t.last - b.last) = Minute + (t.last - since)
        BY <1>1, <1>3
    <2>3. limit * (Minute + (b.last - since)) \in Int /\ limit * (t.last - b.last) \in Int
          /\ limit * (Minute + (t.last - since)) \in Int
        BY <1>1, <1>3
    <2> QED
        BY <1>1, <1>2, <1>3, <1>4, <1>7, <2>1, <2>2, <2>3 DEF t
<1> QED
    BY <1>6, <1>7 DEF Within, t

\* The three things that happen to a requests/min bucket: a top-up, a take of one
\* token, a refund of one.
LEMMA TouchKeepsBucket ==
    ASSUME ShapeInv, BurstInv, NEW s \in Scopes, Rpm[s] # NoLimit, NEW r \in Requests,
           calls[r].pc \in {"take", "refund"}, clock' = clock, window' = window,
           \/ /\ rpm'[s] = refill(rpm[s], Rpm[s], calls[r].now)
              /\ taken'[s] = taken[s]
           \/ /\ refill(rpm[s], Rpm[s], calls[r].now).tokens >= Minute
              /\ rpm'[s] = Minus(refill(rpm[s], Rpm[s], calls[r].now), 1)
              /\ taken'[s] = taken[s] + 1
           \/ /\ rpm'[s] = refund(rpm[s], Rpm[s], calls[r].now)
              /\ taken'[s] = taken[s] - 1
    PROVE  BucketInv(s)'
<1> DEFINE b == rpm[s]
           k == Rpm[s]
           now == calls[r].now
           t == refill(b, k, now)
<1>1. b \in Buckets /\ k \in Nat /\ now \in Nat /\ clock \in Nat /\ taken[s] \in Int
    BY LimitAssumption DEF ShapeInv, TypeOK, Calls, Limits
<1>2. Level(b, k) /\ b.last <= clock /\ now <= clock
    BY DEF BurstInv, BucketInv, ReadingInv
<1>3. /\ t \in Buckets /\ t.last <= clock /\ 0 <= t.tokens /\ t.tokens <= k * Minute
      /\ b.tokens \in Int /\ b.last \in Nat
    <2>1. b.tokens \in Int /\ b.last \in Nat
        BY <1>1 DEF Buckets
    <2>2. t \in Buckets /\ b.tokens <= t.tokens /\ t.tokens <= k * Minute
          /\ t.last = IF now > b.last THEN now ELSE b.last
        BY <1>1, <1>2, RefillFacts DEF Level
    <2>3. t.tokens \in Int
        BY <2>2 DEF Buckets
    <2> HIDE DEF t
    <2> QED
        BY <1>1, <1>2, <2>1, <2>2, <2>3 DEF Level
<1>4. t.tokens \in Int /\ t.last \in Nat /\ Minute \in Nat /\ k * Minute \in Nat
    BY <1>1, <1>3, MinuteAssumption, CapacityType DEF Buckets
<1>5. ASSUME window # NoWindow
      PROVE  /\ window.since \in Nat /\ Net(s) \in Int
             /\ window.since <= t.last
             /\ t.tokens + Net(s) * Minute <= k * (Minute + (t.last - window.since))
    <2>1. window.since \in Nat /\ Net(s) \in Int
        BY <1>1, <1>5 DEF ShapeInv, TypeOK, Windows, Net
    <2>2. window.since <= now /\ Within(b, k, Net(s), window.since)
        BY <1>5 DEF BurstInv, BucketInv, ReadingInv, Admitting
    <2> QED
        BY <1>1, <1>2, <2>1, <2>2, RefillWithin
<1>6. CASE rpm'[s] = t /\ taken'[s] = taken[s]
    <2>1. window # NoWindow => Net(s)' = Net(s)
        BY <1>6 DEF Net
    <2> HIDE DEF t
    <2>2. Level(rpm'[s], k)
        BY <1>3, <1>6 DEF Level
    <2>3. window # NoWindow => Within(rpm'[s], k, Net(s)', window.since)
        BY <1>5, <1>6, <2>1 DEF Within
    <2> QED
        BY <1>3, <1>6, <2>2, <2>3 DEF BucketInv
<1>7. CASE t.tokens >= Minute /\ rpm'[s] = Minus(t, 1) /\ taken'[s] = taken[s] + 1
    <2>1. rpm'[s].last = t.last /\ rpm'[s].tokens = t.tokens - Minute
        <3>1. 1 * Minute = Minute
            BY <1>4
        <3> HIDE DEF t
        <3>2. Minus(t, 1).last = t.last /\ Minus(t, 1).tokens = t.tokens - 1 * Minute
            BY <1>3, MinusType
        <3> QED
            BY <1>7, <3>1, <3>2
    <2>2. window # NoWindow => Net(s)' = Net(s) + 1
        BY <1>1, <1>5, <1>7 DEF Net, ShapeInv, TypeOK, Windows
    <2>3. window # NoWindow => (Net(s) + 1) * Minute = Net(s) * Minute + Minute
        BY <1>4, <1>5
    <2>4. window # NoWindow => Net(s) * Minute \in Int /\ k * (Minute + (t.last - window.since)) \in Int
        BY <1>1, <1>4, <1>5
    <2> HIDE DEF t
    <2>5. Level(rpm'[s], k)
        BY <1>3, <1>4, <1>7, <2>1 DEF Level
    <2>6. window # NoWindow => Within(rpm'[s], k, Net(s)', window.since)
        BY <1>3, <1>4, <1>5, <2>1, <2>2, <2>3, <2>4 DEF Within
    <2> QED
        BY <1>3, <2>1, <2>5, <2>6 DEF BucketInv
<1>8. CASE rpm'[s] = refund(b, k, now) /\ taken'[s] = taken[s] - 1
    <2> DEFINE f == refund(b, k, now)
    <2>1. /\ f \in Buckets /\ f.last = t.last
          /\ f.tokens <= k * Minute /\ f.tokens <= t.tokens + Minute
          /\ f.tokens = t.tokens + Minute \/ f.tokens = k * Minute
        BY <1>1, RefundFacts
    <2>2. f.tokens \in Int
        BY <2>1 DEF Buckets
    <2>3. window # NoWindow => Net(s)' = Net(s) - 1
        BY <1>1, <1>5, <1>8 DEF Net, ShapeInv, TypeOK, Windows
    <2>4. window # NoWindow => (Net(s) - 1) * Minute = Net(s) * Minute - Minute
        BY <1>4, <1>5
    <2>5. window # NoWindow => Net(s) * Minute \in Int /\ k * (Minute + (t.last - window.since)) \in Int
        BY <1>1, <1>4, <1>5
    <2> HIDE DEF t, f
    <2>6. Level(f, k)
        BY <1>3, <1>4, <2>1, <2>2 DEF Level
    <2>7. window # NoWindow => Within(f, k, Net(s)', window.since)
        BY <1>3, <1>4, <1>5, <2>1, <2>2, <2>3, <2>4, <2>5 DEF Within
    <2> QED
        BY <1>3, <1>8, <2>1, <2>6, <2>7 DEF BucketInv, f
<1> QED
    BY <1>6, <1>7, <1>8

\* A step that touches no requests/min bucket and lets no window open keeps the
\* buckets within their bounds.
LEMMA UntouchedBucket ==
    ASSUME BurstInv, NEW s \in Scopes, Rpm[s] # NoLimit, rpm'[s] = rpm[s], taken'[s] = taken[s],
           window' = window, clock' = clock
    PROVE  BucketInv(s)'
BY DEF BurstInv, BucketInv, Net

\* Readings stay honest when one call changes to one that admits with the same
\* reading, admits no longer, or reads the clock now.
LEMMA ReadingUpdate ==
    ASSUME ShapeInv, ReadingInv, NEW r \in Requests, NEW c,
           calls' = [calls EXCEPT ![r] = c], clock' = clock, window' = window,
           \/ c.now = clock
           \/ c.now = calls[r].now /\ (c.pc \in Admitting => calls[r].pc \in Admitting)
           \/ c.now = 0 /\ c.pc \notin Admitting
    PROVE  ReadingInv'
<1>1. calls \in [Requests -> Calls] /\ clock \in Nat
    BY DEF ShapeInv, TypeOK
<1>2. ASSUME NEW q \in Requests
      PROVE  /\ calls'[q].now <= clock
             /\ window # NoWindow /\ calls'[q].pc \in Admitting => window.since <= calls'[q].now
    <2>1. CASE q = r
        BY <1>1, <2>1 DEF ReadingInv
    <2>2. CASE q # r
        BY <1>1, <2>2 DEF ReadingInv
    <2> QED
        BY <2>1, <2>2
<1> QED
    BY <1>2 DEF ReadingInv

\* The inductive step of the burst bound.
LEMMA BurstStep == ShapeInv /\ BurstInv /\ [Next]_vars => BurstInv'
<1> SUFFICES ASSUME ShapeInv, BurstInv, [Next]_vars
             PROVE  BurstInv'
    OBVIOUS
<1>a. /\ calls \in [Requests -> Calls]
      /\ rpm \in [Scopes -> Buckets]
      /\ taken \in [Scopes -> Int]
      /\ \A q \in Requests : CallShape(calls[q])
      /\ ReadingInv
    BY DEF ShapeInv, TypeOK, BurstInv
\* A step of one call that leaves the requests/min buckets alone.
<1>b. ASSUME NEW r \in Requests, NEW c, calls' = [calls EXCEPT ![r] = c],
             UNCHANGED <<rpm, taken, clock, window>>,
             \/ c.now = clock
             \/ c.now = calls[r].now /\ (c.pc \in Admitting => calls[r].pc \in Admitting)
             \/ c.now = 0 /\ c.pc \notin Admitting
      PROVE  BurstInv'
    <2>1. ReadingInv'
        BY <1>a, <1>b, ReadingUpdate
    <2>2. \A s \in Scopes : Rpm[s] # NoLimit => BucketInv(s)'
        BY <1>b, UntouchedBucket
    <2> QED
        BY <2>1, <2>2 DEF BurstInv
<1>c. \A r \in Requests : Drop(r) => calls' = [calls EXCEPT ![r] = Parked]
    BY DEF Drop
<1>d. Parked.now = 0 /\ Parked.pc \notin Admitting
    BY ParkedFacts DEF Admitting
<1>1. ASSUME NEW r \in Requests, NEW m \in Models, Enter(r, m)
      PROVE  BurstInv'
    <2>1. [Idle(m) EXCEPT !.pc = "permit", !.now = clock].now = clock
        BY DEF Idle
    <2> QED
        BY <1>1, <1>b, <2>1 DEF Enter
<1>2. ASSUME NEW r \in Requests, AcquirePermit(r)
      PROVE  BurstInv'
    <2> DEFINE c == [Advance(calls[r]) EXCEPT !.held = calls[r].held \cup {calls[r].at}]
    <2>1. Advance(calls[r]) \in Calls /\ Advance(calls[r]).now = calls[r].now
          /\ calls[r].pc = "permit"
        BY <1>2, <1>a, AdvanceFacts DEF AcquirePermit
    <2>2. c.now = calls[r].now
        BY <2>1 DEF Calls
    <2>3. calls' = [calls EXCEPT ![r] = c]
        BY <1>2 DEF AcquirePermit
    <2> HIDE DEF c
    <2> QED
        BY <1>2, <1>b, <2>1, <2>2, <2>3 DEF AcquirePermit, Admitting
<1>3. ASSUME NEW r \in Requests, PermitsExhausted(r) \/ FloorExhausted(r) \/ Finish(r)
      PROVE  BurstInv'
    BY <1>3, <1>b, <1>c, <1>d DEF PermitsExhausted, FloorExhausted, Finish
<1>4. ASSUME NEW r \in Requests, FloorHolds(r) \/ debit_tokens(r)
      PROVE  BurstInv'
    <2>1. calls' = [calls EXCEPT ![r] = Advance(calls[r])] /\ UNCHANGED <<rpm, taken, clock, window>>
        BY <1>4 DEF FloorHolds, debit_tokens
    <2>2. calls[r].pc \in {"floor", "debit"}
        BY <1>4 DEF FloorHolds, debit_tokens
    <2>3. Advance(calls[r]).now = calls[r].now
          /\ (Advance(calls[r]).pc \in Admitting => calls[r].pc \in Admitting)
        BY <1>a, <2>2, AdvanceFacts DEF Admitting
    <2> QED
        BY <1>b, <2>1, <2>3
<1>5. ASSUME NEW r \in Requests, Take(r)
      PROVE  BurstInv'
    <2> DEFINE call == calls[r]
    <2>1. call \in Calls /\ call.pc = "take" /\ CallShape(call)
        BY <1>5, <1>a DEF Take
    <2>2. Advance(call) \in Calls /\ Advance(call).now = call.now
        BY <2>1, AdvanceFacts
    <2>3. CASE Rpm[call.at] = NoLimit
        BY <1>5, <1>b, <2>1, <2>2, <2>3 DEF Take, Admitting
    <2>4. CASE Rpm[call.at] # NoLimit
        <3> DEFINE c == [Advance(call) EXCEPT !.took = call.took \cup {call.at}]
        <3>1. c.now = call.now
            BY <2>2 DEF Calls
        <3>2. calls' = [calls EXCEPT ![r] = c] /\ clock' = clock /\ window' = window
            BY <1>5, <2>4 DEF Take
        <3> HIDE DEF c
        <3>3. ReadingInv'
            BY <1>a, <2>1, <3>1, <3>2, ReadingUpdate DEF Admitting
        <3>4. ASSUME NEW s \in Scopes, Rpm[s] # NoLimit
              PROVE  BucketInv(s)'
            <4>1. CASE s = call.at
                BY <1>5, <1>a, <2>1, <2>4, <3>2, <3>4, <4>1, TouchKeepsBucket DEF Take
            <4>2. CASE s # call.at
                BY <1>5, <1>a, <2>4, <3>2, <3>4, <4>2, UntouchedBucket DEF Take
            <4> QED
                BY <4>1, <4>2
        <3> QED
            BY <3>3, <3>4 DEF BurstInv
    <2> QED
        BY <2>3, <2>4
<1>6. ASSUME NEW r \in Requests, TakeRefused(r)
      PROVE  BurstInv'
    <2> DEFINE call == calls[r]
    <2>1. call \in Calls /\ call.pc = "take" /\ clock' = clock /\ window' = window /\ taken' = taken
        BY <1>6, <1>a DEF TakeRefused
    <2>2. ReadingInv'
        <3>1. CASE Global \in call.took
            <4>1. [call EXCEPT !.pc = "refund"].now = call.now
                BY <2>1 DEF Calls
            <4>2. calls' = [calls EXCEPT ![r] = [call EXCEPT !.pc = "refund"]]
                BY <1>6, <3>1 DEF TakeRefused
            <4> QED
                BY <1>a, <2>1, <4>1, <4>2, ReadingUpdate DEF Admitting
        <3>2. CASE Global \notin call.took
            <4>1. calls' = [calls EXCEPT ![r] = Parked]
                BY <1>6, <3>2, <1>c DEF TakeRefused
            <4> QED
                BY <1>a, <1>d, <2>1, <4>1, ReadingUpdate
        <3> QED
            BY <3>1, <3>2
    <2>3. ASSUME NEW s \in Scopes, Rpm[s] # NoLimit
          PROVE  BucketInv(s)'
        <3>1. CASE s = call.at
            <4>1. rpm'[s] = refill(rpm[s], Rpm[s], call.now)
                BY <1>6, <1>a, <3>1 DEF TakeRefused
            <4> QED
                BY <2>1, <2>3, <4>1, TouchKeepsBucket
        <3>2. CASE s # call.at
            BY <1>6, <1>a, <2>1, <2>3, <3>2, UntouchedBucket DEF TakeRefused
        <3> QED
            BY <3>1, <3>2
    <2> QED
        BY <2>2, <2>3 DEF BurstInv
<1>7. ASSUME NEW r \in Requests, Refund(r)
      PROVE  BurstInv'
    <2>1. calls' = [calls EXCEPT ![r] = Parked] /\ clock' = clock /\ window' = window
          /\ calls[r].pc = "refund"
        BY <1>7, <1>c DEF Refund
    <2>2. ReadingInv'
        BY <1>a, <1>d, <2>1, ReadingUpdate
    <2>3. ASSUME NEW s \in Scopes, Rpm[s] # NoLimit
          PROVE  BucketInv(s)'
        <3>1. CASE s = Global
            <4>1. rpm'[s] = refund(rpm[s], Rpm[s], calls[r].now) /\ taken'[s] = taken[s] - 1
                BY <1>7, <1>a, <2>3, <3>1 DEF Refund
            <4> QED
                BY <2>1, <2>3, <4>1, TouchKeepsBucket
        <3>2. CASE s # Global
            <4>1. rpm'[s] = rpm[s] /\ taken'[s] = taken[s]
                BY <1>7, <1>a, <3>2 DEF Refund
            <4> QED
                BY <2>1, <2>3, <4>1, UntouchedBucket
        <3> QED
            BY <3>1, <3>2
    <2> QED
        BY <2>2, <2>3 DEF BurstInv
<1>8. ASSUME NEW r \in Requests, NEW cost \in Costs, ReportUsage(r, cost)
      PROVE  BurstInv'
    <2> DEFINE c == [calls[r] EXCEPT !.pc = "debit", !.at = Global, !.now = clock, !.cost = cost]
    <2>1. c.now = clock
        BY <1>a DEF Calls
    <2>2. calls' = [calls EXCEPT ![r] = c]
        BY <1>8, <1>a DEF ReportUsage
    <2> HIDE DEF c
    <2> QED
        BY <1>8, <1>b, <2>1, <2>2 DEF ReportUsage
<1>9. CASE Tick
    <2>1. clock \in Nat /\ clock' = clock + 1 /\ calls' = calls /\ rpm' = rpm /\ taken' = taken
          /\ window' = window
        BY <1>9 DEF Tick, ShapeInv, TypeOK
    <2>2. ReadingInv'
        <3>1. \A r \in Requests : calls[r].now \in Nat
            BY <1>a DEF Calls
        <3>2. window # NoWindow => window.since \in Nat
            BY DEF ShapeInv, TypeOK, Windows
        <3> QED
            BY <1>a, <2>1, <3>1, <3>2 DEF ReadingInv
    <2>3. ASSUME NEW s \in Scopes, Rpm[s] # NoLimit
          PROVE  BucketInv(s)'
        <3>1. rpm[s].last \in Nat
            BY <1>a DEF Buckets
        <3> QED
            BY <2>1, <2>3, <3>1 DEF BurstInv, BucketInv, Net
    <2> QED
        BY <2>2, <2>3 DEF BurstInv
<1>10. CASE OpenWindow
    <2>1. PICK since \in PendingReadings \cup {clock} :
              /\ \A reading \in PendingReadings : since <= reading
              /\ window' = [since |-> since, base |-> taken]
        BY <1>10 DEF OpenWindow
    <2>2. UNCHANGED <<rpm, clock, calls, taken>> /\ clock \in Nat
        BY <1>10 DEF OpenWindow, ShapeInv, TypeOK
    <2>3. since \in Nat /\ since <= clock
        BY <1>a, <2>2 DEF PendingReadings, ReadingInv, Calls
    <2>4. window'.since = since /\ \A s \in Scopes : window'.base[s] = taken[s]
        BY <2>1
    <2>5. ReadingInv'
        <3>1. \A r \in Requests : calls[r].pc \in Admitting => calls[r].now \in PendingReadings
            BY DEF PendingReadings, Admitting
        <3> QED
            BY <1>a, <2>1, <2>2, <2>3, <2>4, <3>1 DEF ReadingInv
    <2>6. ASSUME NEW s \in Scopes, Rpm[s] # NoLimit
          PROVE  BucketInv(s)'
        <3> DEFINE b == rpm[s]
                   k == Rpm[s]
        <3>1. b.tokens \in Int /\ b.last \in Nat /\ k \in Nat /\ taken[s] \in Int
            BY <1>a, <2>6, LimitAssumption DEF Buckets, Limits
        <3>2. Net(s)' = 0
            BY <2>2, <2>4, <3>1 DEF Net
        <3>3. b.last <= clock /\ Level(b, k)
            BY <2>6 DEF BurstInv, BucketInv
        <3>4. Within(b, k, 0, since)
            <4>1. Minute \in Nat /\ k * Minute \in Nat
                BY <3>1, MinuteAssumption, CapacityType
            <4>2. CASE since <= b.last
                <5>1. k * (Minute + (b.last - since)) = k * Minute + k * (b.last - since)
                    BY <2>3, <3>1, <4>1, Distribute
                <5>2. k * (b.last - since) \in Nat
                    BY <2>3, <3>1, <4>2
                <5>3. 0 * Minute = 0
                    BY <4>1
                <5> QED
                    BY <3>1, <3>3, <4>1, <4>2, <5>1, <5>2, <5>3 DEF Within, Level
            <4>3. CASE b.last < since
                BY <4>3 DEF Within
            <4> QED
                BY <2>3, <3>1, <4>2, <4>3
        <3> QED
            BY <2>2, <2>4, <3>2, <3>3, <3>4 DEF BucketInv
    <2> QED
        BY <2>5, <2>6 DEF BurstInv
<1>11. CASE UNCHANGED vars
    BY <1>11 DEF vars, BurstInv, ReadingInv, BucketInv, Net
<1> QED
    BY <1>1, <1>2, <1>3, <1>4, <1>5, <1>6, <1>7, <1>8, <1>9, <1>10, <1>11 DEF Next

\* In every window of time, and whatever stale clock readings the admissions present,
\* a requests/min bucket gives out at most its burst and what accrues.
THEOREM BurstIsBounded == Spec => []BurstBound
<1>1. Init => BurstInv
    <2> SUFFICES ASSUME Init
                 PROVE  BurstInv
        OBVIOUS
    <2>1. ReadingInv
        BY ParkedFacts DEF Init, ReadingInv
    <2>2. ASSUME NEW s \in Scopes, Rpm[s] # NoLimit
          PROVE  BucketInv(s)
        <3>1. Rpm[s] \in Nat /\ Rpm[s] * Minute \in Nat
            BY <2>2, LimitAssumption, CapacityType DEF Limits
        <3> QED
            BY <2>2, <3>1 DEF Init, BucketInv, per_minute, Level
    <2> QED
        BY <2>1, <2>2 DEF BurstInv
<1>2. ShapeInv /\ BurstInv => BurstBound
    <2> SUFFICES ASSUME ShapeInv, BurstInv, window # NoWindow, NEW s \in Scopes, Rpm[s] # NoLimit
                 PROVE  Net(s) * Minute <= Rpm[s] * (Minute + (clock - window.since))
        BY DEF BurstBound, Net
    <2> DEFINE b == rpm[s]
               k == Rpm[s]
               n == Net(s)
               since == window.since
    <2>1. /\ b.tokens \in Int /\ b.last \in Nat /\ k \in Nat /\ n \in Int /\ since \in Nat
          /\ clock \in Nat /\ Minute \in Nat /\ n * Minute \in Int
        BY LimitAssumption, MinuteAssumption DEF ShapeInv, TypeOK, Buckets, Limits, Windows, Net
    <2>2. since <= clock /\ b.last <= clock /\ 0 <= b.tokens /\ Within(b, k, n, since)
        BY DEF BurstInv, ReadingInv, BucketInv, Level
    <2> HIDE DEF b, k, n, since
    <2>3. CASE b.last < since /\ n <= 0
        <3>1. n * Minute <= 0
            BY <2>1, <2>3
        <3>2. k * (Minute + (clock - since)) \in Nat
            BY <2>1, <2>2
        <3> QED
            BY <2>1, <3>1, <3>2 DEF k, n, since
    <2>4. CASE since <= b.last /\ b.tokens + n * Minute <= k * (Minute + (b.last - since))
        <3>1. k * ((Minute + (b.last - since)) + (clock - b.last))
                  = k * (Minute + (b.last - since)) + k * (clock - b.last)
            BY <2>1, Distribute
        <3>2. (Minute + (b.last - since)) + (clock - b.last) = Minute + (clock - since)
            BY <2>1
        <3>3. k * (clock - b.last) \in Nat /\ k * (Minute + (b.last - since)) \in Int
            BY <2>1, <2>2
        <3>4. n * Minute <= k * (Minute + (clock - since))
            BY <2>1, <2>2, <2>4, <3>1, <3>2, <3>3
        <3> QED
            BY <3>4 DEF k, n, since
    <2> QED
        BY <2>2, <2>3, <2>4 DEF Within
<1> QED
    BY <1>1, <1>2, ShapeInit, ShapeStep, BurstStep, PTL DEF Spec

-----------------------------------------------------------------------------
(* Sums over a finite set *)

\* A set of numbers that is not empty has a least one: what stands for induction below.
LEMMA LeastNumber ==
    ASSUME NEW T \in SUBSET Nat, T # {}
    PROVE  \E n \in T : \A k \in T : n <= k
<1> DEFINE R == OpToRel(<, Nat)
<1>1. \A x, y \in Nat : <<y, x>> \in R <=> y < x
    BY DEF OpToRel
<1>2. IsWellFoundedOn(R, Nat)
    BY NatLessThanWellFounded
<1> HIDE DEF R
<1>3. PICK n \in T : \A k \in T : ~(<<k, n>> \in R)
    BY <1>2, WFMin
<1>4. ASSUME NEW k \in T
      PROVE  n <= k
    <2>1. n \in Nat /\ k \in Nat /\ ~(<<k, n>> \in R)
        BY <1>3
    <2>2. ~(k < n)
        BY <1>1, <2>1
    <2> QED
        BY <2>1, <2>2
<1> QED
    BY <1>3, <1>4

\* The sum of t over S as MapThenSumSet computes it: on every subset of S, from one of
\* its members and the sum of the rest.
Sum(t, S) == MapThenSumSet(LAMBDA x : t[x], S)
Pick(s) == CHOOSE x \in s : TRUE
Sums(t, S, g) ==
    g = [s \in SUBSET S |-> IF s = {} THEN 0 ELSE t[Pick(s)] + g[s \ {Pick(s)}]]

\* The sum is the last of these.
LEMMA SumUnfold == \A t, S : Sum(t, S) = (CHOOSE g : Sums(t, S, g))[S]
BY DEF Sum, MapThenSumSet, MapThenFoldSet, Sums, Pick

\* What is picked from a set leaves a smaller one.
LEMMA PickFacts ==
    ASSUME NEW S, IsFiniteSet(S), NEW s \in SUBSET S, s # {}
    PROVE  /\ Pick(s) \in s /\ s \ {Pick(s)} \in SUBSET S
           /\ Cardinality(s) \in Nat /\ Cardinality(s) > 0
           /\ Cardinality(s \ {Pick(s)}) = Cardinality(s) - 1
<1>1. Pick(s) \in s
    BY DEF Pick
<1>2. IsFiniteSet(s) /\ IsFiniteSet(s \ {Pick(s)})
    BY <1>1, FS_Subset
<1>3. Cardinality(s \ {Pick(s)}) = Cardinality(s) - 1
    BY <1>1, <1>2, FS_RemoveElement
<1>4. Cardinality(s) \in Nat /\ Cardinality(s \ {Pick(s)}) \in Nat
    BY <1>2, FS_CardinalityType
<1> QED
    BY <1>1, <1>3, <1>4

\* A function that sums the subsets exists.
LEMMA SumsExist ==
    ASSUME NEW S, IsFiniteSet(S), NEW t, \A x \in S : t[x] \in Int
    PROVE  \E g : Sums(t, S, g)
<1> DEFINE step(g, s) == IF s = {} THEN 0 ELSE t[Pick(s)] + g[s \ {Pick(s)}]
           upto(n, g) == \A s \in SUBSET S : Cardinality(s) <= n => g[s] = step(g, s)
           stuck == {n \in Nat : ~ \E g \in [SUBSET S -> Int] : upto(n, g)}
<1>1. ASSUME NEW n \in Nat, n \in stuck, \A k \in stuck : n <= k
      PROVE  FALSE
    <2>1. CASE n = 0
        <3> DEFINE g == [s \in SUBSET S |-> 0]
        <3>1. ASSUME NEW s \in SUBSET S, Cardinality(s) <= 0
              PROVE  s = {}
            <4>1. s # {} => Cardinality(s) > 0 /\ Cardinality(s) \in Nat
                BY PickFacts
            <4> QED
                BY <3>1, <4>1
        <3>2. upto(0, g) /\ g \in [SUBSET S -> Int]
            BY <3>1
        <3> QED
            BY <1>1, <2>1, <3>2
    <2>2. CASE n # 0
        <3>1. n - 1 \in Nat /\ n - 1 \notin stuck
            <4>1. n - 1 \in Nat /\ ~(n <= n - 1)
                BY <2>2
            <4> HIDE DEF stuck
            <4> QED
                BY <1>1, <4>1
        <3>2. PICK g \in [SUBSET S -> Int] : upto(n - 1, g)
            BY <3>1
        <3> DEFINE h == [s \in SUBSET S |-> IF Cardinality(s) <= n - 1 THEN g[s] ELSE step(g, s)]
        <3>3. ASSUME NEW s \in SUBSET S
              PROVE  step(g, s) \in Int
            <4>1. CASE s = {}
                BY <4>1
            <4>2. CASE s # {}
                <5>1. Pick(s) \in S /\ s \ {Pick(s)} \in SUBSET S
                    BY <4>2, PickFacts
                <5>2. t[Pick(s)] \in Int /\ g[s \ {Pick(s)}] \in Int
                    BY <3>2, <5>1
                <5> QED
                    BY <4>2, <5>2
            <4> QED
                BY <4>1, <4>2
        <3>4. h \in [SUBSET S -> Int]
            BY <3>2, <3>3
        <3>5. ASSUME NEW s \in SUBSET S, Cardinality(s) <= n
              PROVE  h[s] = step(h, s)
            <4>1. h[s] = step(g, s)
                BY <3>2, <3>5
            <4>2. CASE s = {}
                BY <4>1, <4>2
            <4>3. CASE s # {}
                <5>1. h[s \ {Pick(s)}] = g[s \ {Pick(s)}]
                    BY <3>1, <3>5, <4>3, PickFacts
                <5> HIDE DEF h
                <5> QED
                    BY <4>1, <5>1
            <4> QED
                BY <4>2, <4>3
        <3> HIDE DEF h
        <3>6. upto(n, h)
            BY <3>5
        <3> QED
            BY <1>1, <3>4, <3>6
    <2> QED
        BY <2>1, <2>2
<1>2. stuck = {}
    <2>1. stuck \in SUBSET Nat
        OBVIOUS
    <2> HIDE DEF stuck
    <2> QED
        BY <1>1, <2>1, LeastNumber
<1>3. Cardinality(S) \in Nat /\ \A s \in SUBSET S : Cardinality(s) <= Cardinality(S)
    BY FS_CardinalityType, FS_Subset
<1>4. PICK g \in [SUBSET S -> Int] : upto(Cardinality(S), g)
    BY <1>2, <1>3
<1>5. g = [s \in SUBSET S |-> step(g, s)]
    BY <1>3, <1>4
<1> QED
    BY <1>5 DEF Sums

\* One value that changes by d changes the sums it is part of by d.
LEMMA SumsDiffer ==
    ASSUME NEW S, IsFiniteSet(S), NEW t, NEW u, NEW m \in S, NEW d \in Int,
           \A x \in S : t[x] \in Int, \A x \in S : u[x] = IF x = m THEN t[x] + d ELSE t[x],
           NEW f, Sums(t, S, f), NEW g, Sums(u, S, g)
    PROVE  \A s \in SUBSET S : f[s] \in Int /\ g[s] = IF m \in s THEN f[s] + d ELSE f[s]
<1> DEFINE good(s) == f[s] \in Int /\ g[s] = IF m \in s THEN f[s] + d ELSE f[s]
           bad == {Cardinality(s) : s \in {r \in SUBSET S : ~good(r)}}
<1>1. \A s \in SUBSET S : IsFiniteSet(s) /\ Cardinality(s) \in Nat
    BY FS_Subset, FS_CardinalityType
<1>2. ASSUME NEW n \in bad, \A k \in bad : n <= k
      PROVE  FALSE
    <2>1. PICK s \in SUBSET S : ~good(s) /\ Cardinality(s) = n
        BY <1>2
    <2>2. /\ f[s] = IF s = {} THEN 0 ELSE t[Pick(s)] + f[s \ {Pick(s)}]
          /\ g[s] = IF s = {} THEN 0 ELSE u[Pick(s)] + g[s \ {Pick(s)}]
        BY DEF Sums
    <2>3. CASE s = {}
        BY <2>1, <2>2, <2>3
    <2>4. CASE s # {}
        <3> DEFINE rest == s \ {Pick(s)}
        <3>1. Pick(s) \in s /\ rest \in SUBSET S /\ Cardinality(rest) = n - 1 /\ n \in Nat
            BY <2>1, <2>4, PickFacts
        <3>2. good(rest)
            <4>1. ~good(rest) => n - 1 \in bad
                BY <3>1
            <4> QED
                BY <1>2, <3>1, <4>1
        <3>3. t[Pick(s)] \in Int /\ u[Pick(s)] = IF Pick(s) = m THEN t[Pick(s)] + d ELSE t[Pick(s)]
            BY <3>1
        <3>4. m \in rest <=> m \in s /\ Pick(s) # m
            OBVIOUS
        <3> HIDE DEF rest
        <3>5. f[s] = t[Pick(s)] + f[rest] /\ g[s] = u[Pick(s)] + g[rest]
            BY <2>2, <2>4 DEF rest
        <3> QED
            BY <2>1, <3>1, <3>2, <3>3, <3>4, <3>5
    <2> QED
        BY <2>3, <2>4
<1>3. bad = {}
    <2>1. bad \in SUBSET Nat
        BY <1>1
    <2> HIDE DEF bad
    <2> QED
        BY <1>2, <2>1, LeastNumber
<1> QED
    BY <1>3

\* One value that changes by d changes the sum by d.
LEMMA SumUpdate ==
    ASSUME NEW S, IsFiniteSet(S), NEW t, NEW u, NEW m \in S, NEW d \in Int,
           \A x \in S : t[x] \in Int, \A x \in S : u[x] = IF x = m THEN t[x] + d ELSE t[x]
    PROVE  Sum(t, S) \in Int /\ Sum(u, S) = Sum(t, S) + d
<1>1. \A x \in S : u[x] \in Int
    OBVIOUS
<1> DEFINE f == CHOOSE h : Sums(t, S, h)
           g == CHOOSE h : Sums(u, S, h)
<1>2. Sums(t, S, f) /\ Sums(u, S, g)
    BY <1>1, SumsExist
<1>3. Sum(t, S) = f[S] /\ Sum(u, S) = g[S]
    BY SumUnfold
<1> HIDE DEF f, g
<1>4. f[S] \in Int /\ g[S] = IF m \in S THEN f[S] + d ELSE f[S]
    BY <1>2, SumsDiffer
<1> QED
    BY <1>3, <1>4

\* The sum of nothing but zeros.
LEMMA SumOfZeros ==
    ASSUME NEW S, IsFiniteSet(S), NEW t, \A x \in S : t[x] = 0
    PROVE  Sum(t, S) = 0
<1> DEFINE f == CHOOSE h : Sums(t, S, h)
           bad == {Cardinality(s) : s \in {r \in SUBSET S : f[r] # 0}}
<1>1. Sums(t, S, f)
    BY SumsExist
<1>2. Sum(t, S) = f[S]
    BY SumUnfold
<1> HIDE DEF f
<1>3. \A s \in SUBSET S : IsFiniteSet(s) /\ Cardinality(s) \in Nat
    BY FS_Subset, FS_CardinalityType
<1>4. ASSUME NEW n \in bad, \A k \in bad : n <= k
      PROVE  FALSE
    <2>1. PICK s \in SUBSET S : f[s] # 0 /\ Cardinality(s) = n
        BY <1>4
    <2>2. f[s] = IF s = {} THEN 0 ELSE t[Pick(s)] + f[s \ {Pick(s)}]
        BY <1>1 DEF Sums
    <2>3. Pick(s) \in s /\ s \ {Pick(s)} \in SUBSET S /\ Cardinality(s \ {Pick(s)}) = n - 1
          /\ n \in Nat
        BY <2>1, <2>2, PickFacts
    <2>4. f[s \ {Pick(s)}] = 0
        <3>1. f[s \ {Pick(s)}] # 0 => n - 1 \in bad
            BY <2>3
        <3> QED
            BY <1>4, <2>3, <3>1
    <2> QED
        BY <2>1, <2>2, <2>3, <2>4
<1>5. bad = {}
    <2>1. bad \in SUBSET Nat
        BY <1>3
    <2> HIDE DEF bad
    <2> QED
        BY <1>4, <2>1, LeastNumber
<1> QED
    BY <1>2, <1>5

-----------------------------------------------------------------------------
(* The refund *)

\* Values that agree on a set have the same sum over it, a number.
LEMMA SumSame ==
    ASSUME NEW S, IsFiniteSet(S), S # {}, NEW t, NEW u,
           \A x \in S : t[x] \in Int, \A x \in S : u[x] = t[x]
    PROVE  Sum(u, S) = Sum(t, S) /\ Sum(t, S) \in Int
<1>1. PICK m \in S : TRUE
    OBVIOUS
<1>2. \A x \in S : u[x] = IF x = m THEN t[x] + 0 ELSE t[x]
    OBVIOUS
<1>3. Sum(t, S) \in Int /\ Sum(u, S) = Sum(t, S) + 0
    BY <1>1, <1>2, SumUpdate
<1> QED
    BY <1>3

\* What a call has taken: nothing before it takes, nothing when it takes at the global
\* scope, and the global token, if one is asked for, by the time it takes at its model's.
TookShape(c) ==
    /\ c.pc \in {"permit", "floor"} => c.took = {}
    /\ c.pc = "take" /\ c.at = Global => c.took = {}
    /\ c.pc = "take" /\ c.at # Global /\ Rpm[Global] # NoLimit => Global \in c.took

TookInv == \A r \in Requests : TookShape(calls[r])

\* A call that holds a global token it may still have to give back.
Owes(c) == c.pc \in {"take", "refund"} /\ Global \in c.took
Owing == {r \in Requests : Owes(calls[r])}

\* The resting call has taken nothing.
LEMMA ParkedTook == TookShape(Parked) /\ ~Owes(Parked)
BY DEF Parked, Idle, TookShape, Owes

\* One more lock: what the stage reached requires of the tokens taken.
LEMMA AdvanceTook ==
    ASSUME NEW c \in Calls, TookShape(c), c.pc \in {"permit", "floor", "debit"}
    PROVE  TookShape(Advance(c)) /\ ~Owes(Advance(c)) /\ ~Owes(c)
<1>1. Advance(c).took = c.took
    BY DEF Advance, Calls
<1>2. CASE c.pc = "permit"
    <2>1. Advance(c).pc \in {"permit", "floor"}
        BY <1>2 DEF Advance, Calls
    <2> QED
        BY <1>1, <1>2, <2>1 DEF TookShape, Owes
<1>3. CASE c.pc = "floor"
    <2>1. Advance(c).pc = "floor" \/ (Advance(c).pc = "take" /\ Advance(c).at = Global)
        <3>1. CASE c.at = Global
            BY <1>3, <3>1 DEF Advance, Calls
        <3>2. CASE c.at # Global
            BY <1>3, <3>2 DEF Advance, Calls
        <3> QED
            BY <3>1, <3>2
    <2> QED
        BY <1>1, <1>3, <2>1 DEF TookShape, Owes
<1>4. CASE c.pc = "debit"
    <2>1. Advance(c).pc \in {"debit", "reported"}
        BY <1>4 DEF Advance, Calls
    <2> QED
        BY <1>4, <2>1 DEF TookShape, Owes
<1> QED
    BY <1>2, <1>3, <1>4

\* An update of one call, and who owes after it.
LEMMA OwingUpdate ==
    ASSUME calls \in [Requests -> Calls], TookInv, NEW r \in Requests, NEW c,
           TookShape(c), calls' = [calls EXCEPT ![r] = c]
    PROVE  /\ TookInv'
           /\ Owing' = IF Owes(c) THEN Owing \cup {r} ELSE Owing \ {r}
<1>1. calls'[r] = c /\ \A q \in Requests : q # r => calls'[q] = calls[q]
    OBVIOUS
<1>2. \A q \in Requests : TookShape(calls'[q])
    BY <1>1 DEF TookInv
<1>3. \A q \in Requests : q \in Owing' <=> Owes(calls'[q])
    BY DEF Owing, Owes
<1>4. \A q : q \in Owing' => q \in Requests
    BY DEF Owing
<1>5. \A q : q \in Owing <=> q \in Requests /\ Owes(calls[q])
    BY DEF Owing
<1>6. CASE Owes(c)
    BY <1>1, <1>3, <1>4, <1>5, <1>6
<1>7. CASE ~Owes(c)
    BY <1>1, <1>3, <1>4, <1>5, <1>7
<1> QED
    BY <1>2, <1>6, <1>7 DEF TookInv, TookShape

\* Those who owe are a finite set.
LEMMA OwingFinite == IsFiniteSet(Owing) /\ Cardinality(Owing) \in Nat
<1>1. Owing \in SUBSET Requests
    BY DEF Owing
<1>2. IsFiniteSet(Owing)
    BY <1>1, RequestAssumption, FS_Subset
<1> QED
    BY <1>2, FS_CardinalityType

\* The books of the refund: what the global bucket gave out is what the models' gave,
\* and what is owed.
Books == taken[Global] = Sum(taken, Models) + Cardinality(Owing)
BooksInv == TookInv /\ ((\A s \in Scopes : Rpm[s] # NoLimit) => Books)

\* A step that takes nothing and leaves those who owe as they were.
LEMMA SameBooks ==
    ASSUME BooksInv, TookInv', taken' = taken, Owing' = Owing
    PROVE  BooksInv'
BY DEF BooksInv, Books

\* A step of a call that owes nothing before or after, and takes nothing.
LEMMA QuietStep ==
    ASSUME ShapeInv, BooksInv, NEW r \in Requests, NEW c, calls' = [calls EXCEPT ![r] = c],
           ~Owes(calls[r]), TookShape(c), ~Owes(c), taken' = taken
    PROVE  BooksInv'
<1>1. calls \in [Requests -> Calls] /\ TookInv
    BY DEF ShapeInv, TypeOK, BooksInv
<1>2. TookInv' /\ Owing' = Owing \ {r}
    BY <1>1, OwingUpdate
<1>3. r \notin Owing
    BY DEF Owing
<1> QED
    BY <1>2, <1>3, SameBooks

\* What the models' buckets gave out, when only the global bucket moves.
LEMMA ModelSums ==
    ASSUME taken \in [Scopes -> Int], NEW d \in Int, taken' = [taken EXCEPT ![Global] = d]
    PROVE  Sum(taken', Models) = Sum(taken, Models) /\ Sum(taken, Models) \in Int
<1>1. \A x \in Models : taken[x] \in Int /\ taken'[x] = taken[x]
    BY ScopeAssumption DEF Scopes
<1>2. PICK u : u = taken'
    OBVIOUS
<1>3. \A x \in Models : u[x] = taken[x]
    BY <1>1, <1>2
<1>4. Sum(u, Models) = Sum(taken, Models) /\ Sum(taken, Models) \in Int
    BY <1>1, <1>3, SumSame, ScopeAssumption
<1> QED
    BY <1>2, <1>4

\* The global bucket gives one token, and the call owes it.
LEMMA GlobalTaken ==
    ASSUME ShapeInv, BooksInv, NEW r \in Requests, NEW c, calls' = [calls EXCEPT ![r] = c],
           ~Owes(calls[r]), TookShape(c), Owes(c),
           taken' = [taken EXCEPT ![Global] = taken[Global] + 1]
    PROVE  BooksInv'
<1>1. calls \in [Requests -> Calls] /\ TookInv /\ taken \in [Scopes -> Int]
    BY DEF ShapeInv, TypeOK, BooksInv
<1>2. TookInv' /\ Owing' = Owing \cup {r}
    BY <1>1, OwingUpdate
<1>3. r \notin Owing
    BY DEF Owing
<1>4. Cardinality(Owing') = Cardinality(Owing) + 1
    BY <1>2, <1>3, OwingFinite, FS_AddElement
<1>5. taken[Global] \in Int /\ taken'[Global] = taken[Global] + 1 /\ taken[Global] + 1 \in Int
    BY <1>1 DEF Scopes
<1>6. Sum(taken', Models) = Sum(taken, Models) /\ Sum(taken, Models) \in Int
    BY <1>1, <1>5, ModelSums
<1> QED
    BY <1>2, <1>4, <1>5, <1>6, OwingFinite DEF BooksInv, Books

\* The model's bucket gives its token, and what was owed is settled.
LEMMA ModelTaken ==
    ASSUME ShapeInv, BooksInv, NEW r \in Requests, NEW c, calls' = [calls EXCEPT ![r] = c],
           Owes(calls[r]), TookShape(c), ~Owes(c), NEW m \in Models,
           taken' = [taken EXCEPT ![m] = taken[m] + 1]
    PROVE  BooksInv'
<1>1. calls \in [Requests -> Calls] /\ TookInv /\ taken \in [Scopes -> Int]
    BY DEF ShapeInv, TypeOK, BooksInv
<1>2. TookInv' /\ Owing' = Owing \ {r}
    BY <1>1, OwingUpdate
<1>3. r \in Owing
    BY DEF Owing
<1>4. Cardinality(Owing') = Cardinality(Owing) - 1
    BY <1>2, <1>3, OwingFinite, FS_RemoveElement
<1>5. Sum(taken, Models) \in Int /\ Sum(taken', Models) = Sum(taken, Models) + 1
    <2>1. PICK u : u = taken'
        OBVIOUS
    <2>2. PICK d \in Int : d = 1
        OBVIOUS
    <2>3. \A x \in Models : taken[x] \in Int /\ u[x] = IF x = m THEN taken[x] + d ELSE taken[x]
        BY <1>1, <2>1, <2>2 DEF Scopes
    <2>4. Sum(taken, Models) \in Int /\ Sum(u, Models) = Sum(taken, Models) + d
        <3>1. \A x \in Models : taken[x] \in Int
            BY <2>3
        <3>2. \A x \in Models : u[x] = IF x = m THEN taken[x] + d ELSE taken[x]
            BY <2>3
        <3> QED
            BY <3>1, <3>2, SumUpdate, ScopeAssumption
    <2> QED
        BY <2>1, <2>2, <2>4
<1>6. taken[Global] \in Int /\ taken'[Global] = taken[Global]
    BY <1>1, ScopeAssumption DEF Scopes
<1> QED
    BY <1>2, <1>4, <1>5, <1>6, OwingFinite DEF BooksInv, Books

\* The global bucket takes its token back, and what was owed is settled.
LEMMA GlobalReturned ==
    ASSUME ShapeInv, BooksInv, NEW r \in Requests, NEW c, calls' = [calls EXCEPT ![r] = c],
           Owes(calls[r]), TookShape(c), ~Owes(c),
           taken' = [taken EXCEPT ![Global] = taken[Global] - 1]
    PROVE  BooksInv'
<1>1. calls \in [Requests -> Calls] /\ TookInv /\ taken \in [Scopes -> Int]
    BY DEF ShapeInv, TypeOK, BooksInv
<1>2. TookInv' /\ Owing' = Owing \ {r}
    BY <1>1, OwingUpdate
<1>3. r \in Owing
    BY DEF Owing
<1>4. Cardinality(Owing') = Cardinality(Owing) - 1
    BY <1>2, <1>3, OwingFinite, FS_RemoveElement
<1>5. taken[Global] \in Int /\ taken'[Global] = taken[Global] - 1 /\ taken[Global] - 1 \in Int
    BY <1>1 DEF Scopes
<1>6. Sum(taken', Models) = Sum(taken, Models) /\ Sum(taken, Models) \in Int
    BY <1>1, <1>5, ModelSums
<1> QED
    BY <1>2, <1>4, <1>5, <1>6, OwingFinite DEF BooksInv, Books

\* The inductive step of the books.
LEMMA BooksStep == ShapeInv /\ BooksInv /\ [Next]_vars => BooksInv'
<1> SUFFICES ASSUME ShapeInv, BooksInv, [Next]_vars
             PROVE  BooksInv'
    OBVIOUS
<1>a. /\ calls \in [Requests -> Calls]
      /\ \A q \in Requests : CallShape(calls[q])
      /\ \A q \in Requests : TookShape(calls[q])
    BY DEF ShapeInv, TypeOK, BooksInv, TookInv
<1>b. ASSUME NEW r \in Requests, Drop(r), ~Owes(calls[r]), taken' = taken
      PROVE  BooksInv'
    <2>1. calls' = [calls EXCEPT ![r] = Parked]
        BY <1>b DEF Drop
    <2> QED
        BY <1>b, <2>1, ParkedTook, QuietStep
<1>1. ASSUME NEW r \in Requests, NEW m \in Models, Enter(r, m)
      PROVE  BooksInv'
    <2> DEFINE c == [Idle(m) EXCEPT !.pc = "permit", !.now = clock]
    <2>1. TookShape(c) /\ ~Owes(c)
        BY DEF Idle, TookShape, Owes
    <2>2. ~Owes(calls[r]) /\ calls' = [calls EXCEPT ![r] = c] /\ taken' = taken
        BY <1>1 DEF Enter, Owes
    <2> HIDE DEF c
    <2> QED
        BY <2>1, <2>2, QuietStep
<1>2. ASSUME NEW r \in Requests, AcquirePermit(r)
      PROVE  BooksInv'
    <2> DEFINE call == calls[r]
               c == [Advance(call) EXCEPT !.held = call.held \cup {call.at}]
    <2>1. call \in Calls /\ TookShape(call) /\ call.pc = "permit" /\ Advance(call) \in Calls
        BY <1>2, <1>a, AdvanceFacts DEF AcquirePermit
    <2>2. TookShape(Advance(call)) /\ ~Owes(Advance(call)) /\ ~Owes(call)
        BY <2>1, AdvanceTook
    <2>3. c.pc = Advance(call).pc /\ c.at = Advance(call).at /\ c.took = Advance(call).took
        BY <2>1 DEF Calls
    <2>4. calls' = [calls EXCEPT ![r] = c] /\ taken' = taken
        BY <1>2 DEF AcquirePermit
    <2> HIDE DEF c
    <2>5. TookShape(c) /\ ~Owes(c)
        BY <2>2, <2>3 DEF TookShape, Owes
    <2> QED
        BY <2>2, <2>4, <2>5, QuietStep
<1>3. ASSUME NEW r \in Requests, PermitsExhausted(r) \/ FloorExhausted(r) \/ Finish(r)
      PROVE  BooksInv'
    <2>1. Drop(r) /\ ~Owes(calls[r]) /\ taken' = taken
        BY <1>3 DEF PermitsExhausted, FloorExhausted, Finish, Owes
    <2> QED
        BY <1>b, <2>1
<1>4. ASSUME NEW r \in Requests, FloorHolds(r) \/ debit_tokens(r)
      PROVE  BooksInv'
    <2>1. /\ calls[r] \in Calls /\ TookShape(calls[r]) /\ calls[r].pc \in {"floor", "debit"}
          /\ calls' = [calls EXCEPT ![r] = Advance(calls[r])]
          /\ taken' = taken
        BY <1>4, <1>a DEF FloorHolds, debit_tokens
    <2>2. TookShape(Advance(calls[r])) /\ ~Owes(Advance(calls[r])) /\ ~Owes(calls[r])
        BY <2>1, AdvanceTook
    <2> QED
        BY <2>1, <2>2, QuietStep
<1>5. ASSUME NEW r \in Requests, Take(r)
      PROVE  BooksInv'
    <2> DEFINE call == calls[r]
               c == [Advance(call) EXCEPT !.took = call.took \cup {call.at}]
    <2>1. call \in Calls /\ TookShape(call) /\ CallShape(call) /\ call.pc = "take"
        BY <1>5, <1>a DEF Take
    <2>2. /\ Advance(call) \in Calls /\ Advance(call).took = call.took
          /\ IF call.at = Global
             THEN Advance(call).pc = "take" /\ Advance(call).at = call.model
             ELSE Advance(call).pc = "admitted"
        BY <2>1, AdvanceFacts DEF Advance, Calls
    <2>3. call.model \in Models /\ call.model # Global /\ call.at \in Scopes
        BY <2>1, ScopeAssumption DEF Calls
    <2>4. CASE Rpm[call.at] = NoLimit
        <3>1. calls' = [calls EXCEPT ![r] = Advance(call)] /\ taken' = taken
            BY <1>5, <2>4 DEF Take
        <3>2. TookShape(Advance(call))
            BY <2>1, <2>2, <2>3, <2>4 DEF TookShape
        <3>3. TookInv'
            BY <1>a, <3>1, <3>2, OwingUpdate DEF TookInv
        <3>4. ~ \A s \in Scopes : Rpm[s] # NoLimit
            BY <2>3, <2>4
        <3> QED
            BY <3>3, <3>4 DEF BooksInv
    <2>5. CASE Rpm[call.at] # NoLimit
        <3>1. calls' = [calls EXCEPT ![r] = c]
              /\ taken' = [taken EXCEPT ![call.at] = taken[call.at] + 1]
            BY <1>5, <2>5 DEF Take
        <3>2. c.pc = Advance(call).pc /\ c.at = Advance(call).at
              /\ c.took = call.took \cup {call.at}
            BY <2>2 DEF Calls
        <3> HIDE DEF c
        <3>3. CASE call.at = Global
            <4>1. TookShape(c) /\ Owes(c) /\ ~Owes(call)
                BY <2>1, <2>2, <2>3, <3>2, <3>3 DEF TookShape, Owes
            <4> QED
                BY <3>1, <3>3, <4>1, GlobalTaken
        <3>4. CASE call.at # Global
            <4>1. TookShape(c) /\ ~Owes(c)
                BY <2>2, <3>2, <3>4 DEF TookShape, Owes
            <4>2. CASE Rpm[Global] # NoLimit
                <5>1. Owes(call) /\ call.at \in Models
                    BY <2>1, <2>3, <3>4, <4>2 DEF TookShape, Owes, Scopes
                <5> QED
                    BY <3>1, <4>1, <5>1, ModelTaken
            <4>3. CASE Rpm[Global] = NoLimit
                <5>1. TookInv'
                    BY <1>a, <3>1, <4>1, OwingUpdate DEF TookInv
                <5>2. ~ \A s \in Scopes : Rpm[s] # NoLimit
                    BY <4>3 DEF Scopes
                <5> QED
                    BY <5>1, <5>2 DEF BooksInv
            <4> QED
                BY <4>2, <4>3
        <3> QED
            BY <3>3, <3>4
    <2> QED
        BY <2>4, <2>5
<1>6. ASSUME NEW r \in Requests, TakeRefused(r)
      PROVE  BooksInv'
    <2>1. calls[r] \in Calls /\ calls[r].pc = "take" /\ taken' = taken
        BY <1>6, <1>a DEF TakeRefused
    <2>2. CASE Global \in calls[r].took
        <3> DEFINE c == [calls[r] EXCEPT !.pc = "refund"]
        <3>1. calls' = [calls EXCEPT ![r] = c]
            BY <1>6, <2>2 DEF TakeRefused
        <3>2. c.pc = "refund" /\ c.took = calls[r].took
            BY <2>1 DEF Calls
        <3> HIDE DEF c
        <3>3. TookShape(c) /\ Owes(c) /\ r \in Owing
            BY <2>1, <2>2, <3>2 DEF TookShape, Owes, Owing
        <3>4. TookInv' /\ Owing' = IF Owes(c) THEN Owing \cup {r} ELSE Owing \ {r}
            BY <1>a, <3>1, <3>3, OwingUpdate DEF TookInv
        <3>5. Owing' = Owing
            BY <3>3, <3>4
        <3> QED
            BY <2>1, <3>4, <3>5, SameBooks
    <2>3. CASE Global \notin calls[r].took
        BY <1>6, <1>b, <2>1, <2>3 DEF TakeRefused, Owes
    <2> QED
        BY <2>2, <2>3
<1>7. ASSUME NEW r \in Requests, Refund(r)
      PROVE  BooksInv'
    <2>1. Owes(calls[r])
        BY <1>7, <1>a DEF Refund, CallShape, Owes
    <2>2. /\ calls' = [calls EXCEPT ![r] = Parked]
          /\ taken' = [taken EXCEPT ![Global] = taken[Global] - 1]
        BY <1>7 DEF Refund, Drop
    <2> QED
        BY <2>1, <2>2, ParkedTook, GlobalReturned
<1>8. ASSUME NEW r \in Requests, NEW cost \in Costs, ReportUsage(r, cost)
      PROVE  BooksInv'
    <2> DEFINE c == [calls[r] EXCEPT !.pc = "debit", !.at = Global, !.now = clock, !.cost = cost]
    <2>1. calls' = [calls EXCEPT ![r] = c] /\ taken' = taken /\ ~Owes(calls[r])
        BY <1>8, <1>a DEF ReportUsage, Owes
    <2>2. c.pc = "debit"
        BY <1>a DEF Calls
    <2> HIDE DEF c
    <2>3. TookShape(c) /\ ~Owes(c)
        BY <2>2 DEF TookShape, Owes
    <2> QED
        BY <2>1, <2>3, QuietStep
<1>9. CASE Tick \/ OpenWindow \/ UNCHANGED vars
    <2>1. calls' = calls /\ taken' = taken
        BY <1>9 DEF Tick, OpenWindow, vars
    <2>2. TookInv' /\ Owing' = Owing
        BY <1>a, <2>1 DEF TookInv, TookShape, Owing, Owes
    <2> QED
        BY <2>1, <2>2, SameBooks
<1> QED
    BY <1>1, <1>2, <1>3, <1>4, <1>5, <1>6, <1>7, <1>8, <1>9 DEF Next

\* A rejected admission leaves no request token consumed, for every number of models and
\* of admissions under way: the refund of the global token comes wherever the walk of
\* try_admit was refused at the model's scope.
THEOREM RejectionCostsNothing == Spec => []RejectionReturnsTokens
<1>1. Init => BooksInv
    <2> SUFFICES ASSUME Init
                 PROVE  BooksInv
        OBVIOUS
    <2>1. TookInv /\ Owing = {}
        BY ParkedTook DEF Init, TookInv, Owing
    <2>2. \A x \in Models : taken[x] = 0
        BY DEF Init, Scopes
    <2>3. Sum(taken, Models) = 0
        BY <2>2, SumOfZeros, ScopeAssumption
    <2>4. taken[Global] = 0
        BY DEF Init, Scopes
    <2> QED
        BY <2>1, <2>3, <2>4, FS_EmptySet DEF BooksInv, Books
<1>2. BooksInv => RejectionReturnsTokens
    BY DEF BooksInv, Books, RejectionReturnsTokens, Sum, Owing, Owes
<1> QED
    BY <1>1, <1>2, ShapeInit, ShapeStep, BooksStep, PTL DEF Spec
=============================================================================
