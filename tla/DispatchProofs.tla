--------------------------- MODULE DispatchProofs ---------------------------
(***************************************************************************)
(* Proofs about Dispatch for every chain, limit and number of requests:    *)
(* type correctness, that no permit is lost, that a walk asks no target    *)
(* twice and respects cooldowns, and that the events of a request tell one *)
(* story.  A second part is about the realtime session, which goes down    *)
(* the same chain: that its frames arrive whole and in order both ways.    *)
(***************************************************************************)
EXTENDS Dispatch, SequenceTheorems, FiniteSetTheorems, WellFoundedInduction, TLAPS

-----------------------------------------------------------------------------
(* The token bucket of a provider. *)

\* A capacity is a natural number of units.
LEMMA CapacityType ==
    ASSUME NEW limit \in Nat
    PROVE  limit * Minute \in Nat
BY MinuteAssumption

\* Topping up a declared bucket gives a bucket, whatever its level.
LEMMA RefillType ==
    ASSUME NEW b \in Buckets, NEW limit \in Nat, NEW now \in Nat
    PROVE  refill(b, limit, now) \in Buckets
<1>1. (now - b.last) * limit \in Int /\ limit * Minute \in Int
    BY MinuteAssumption DEF Buckets
<1> QED
    BY <1>1 DEF refill, Buckets

\* A debit or take gives a bucket.
LEMMA MinusType ==
    ASSUME NEW b \in Buckets, NEW n \in Nat
    PROVE  /\ Minus(b, n) \in Buckets
           /\ Minus(b, n).last = b.last
           /\ Minus(b, n).tokens = b.tokens - n * Minute
<1>1. n * Minute \in Int
    BY MinuteAssumption
<1> QED
    BY <1>1 DEF Minus, Buckets

-----------------------------------------------------------------------------
(* The shape of a request *)

\* The kinds of request are also the names of the stages they end in.
USE DEF Kinds

Unguarded == {"idle", "screening", "walk", "nap", "done"}

\* What a request holds and remembers at each stage: the guard belongs to the target
\* it faces; what it tried in this walk lies behind it, in this pass, and left an error.
Shape(c) ==
    /\ c.i >= 1
    /\ c.pc \in Unguarded => c.guard = NoProvider
    /\ c.pc \in {"floor", "attempt"} => c.i <= Len(c.chain) /\ c.guard = c.chain[c.i]
    /\ c.pc \in Kinds => c.guard \in Providers
    /\ c.pc \in {"walk", "floor"} =>
          /\ \A e \in c.tried : e[1] = c.honor /\ e[2] < c.i
          /\ c.tried # {} => c.err
    /\ c.pc = "attempt" => \A e \in c.tried : e[1] = c.honor /\ e[2] <= c.i

ShapeInv == TypeOK /\ \A r \in Requests : Shape(calls[r])

\* A well-formed update of one request keeps all of them well formed.
LEMMA CallUpdate ==
    ASSUME calls \in [Requests -> Calls], \A q \in Requests : Shape(calls[q]),
           NEW r \in Requests, NEW c \in Calls, Shape(c), Update(r, c)
    PROVE  /\ calls' \in [Requests -> Calls]
           /\ (\A q \in Requests : Shape(calls[q]))'
<1>1. calls' \in [Requests -> Calls] /\ calls'[r] = c
      /\ \A q \in Requests : q # r => calls'[q] = calls[q]
    BY DEF Update
<1>2. ASSUME NEW q \in Requests
      PROVE  Shape(calls'[q])
    BY <1>1
<1> QED
    BY <1>1, <1>2 DEF Shape

\* A fresh request is well formed.
LEMMA NewCallFacts == NewCall \in Calls /\ Shape(NewCall)
<1>1. <<>> \in Seq(Providers) /\ MaxWait \in Nat
    BY TimeAssumption
<1> QED
    BY <1>1, SentinelAssumption DEF NewCall, Calls, Shape, Waits, Unguarded

\* A walk starts with nothing tried and no error.
LEMMA WalkFacts ==
    ASSUME NEW c \in Calls, Shape(c), c.guard = NoProvider, clock \in Nat
    PROVE  Walk(c) \in Calls /\ Shape(Walk(c))
<1>1. Walk(c) \in Calls
    BY DEF Walk, Calls, Waits
<1>2. /\ Walk(c).pc = "walk" /\ Walk(c).guard = NoProvider /\ Walk(c).i = 1
      /\ Walk(c).tried = {}
    BY DEF Walk, Calls
<1>3. Shape(Walk(c))
    BY <1>2 DEF Shape, Unguarded
<1> QED
    BY <1>1, <1>3

\* Skipping a target moves on and holds nothing.
LEMMA SkipFacts ==
    ASSUME NEW c \in Calls, Shape(c), c.pc \in {"walk", "floor", "attempt"}
    PROVE  /\ Skip(c) \in Calls
           /\ Skip(c).pc = "walk" /\ Skip(c).guard = NoProvider
           /\ Skip(c).i = c.i + 1 /\ Skip(c).tried = c.tried /\ Skip(c).err = c.err
           /\ Skip(c).honor = c.honor
<1>1. c.i \in Nat
    BY DEF Calls
<1>2. Skip(c) \in Calls
    <2>1. c.i + 1 \in Nat
        BY <1>1
    <2>2. \A n \in Nat : [c EXCEPT !.pc = "walk", !.i = n, !.guard = NoProvider] \in Calls
        BY DEF Calls
    <2> QED
        BY <2>1, <2>2 DEF Skip
<1>3. Skip(c).pc = "walk" /\ Skip(c).guard = NoProvider /\ Skip(c).i = c.i + 1
    BY DEF Skip, Calls
<1>4. Skip(c).tried = c.tried /\ Skip(c).err = c.err /\ Skip(c).honor = c.honor
    BY DEF Skip, Calls
<1> QED
    BY <1>2, <1>3, <1>4

\* So it is well formed where nothing was tried without leaving an error.
LEMMA SkipKeepsShape ==
    ASSUME NEW c \in Calls, Shape(c), c.pc \in {"walk", "floor"}, NEW w \in Waits
    PROVE  /\ Skip(c) \in Calls /\ Shape(Skip(c))
           /\ [Skip(c) EXCEPT !.wait = w] \in Calls /\ Shape([Skip(c) EXCEPT !.wait = w])
<1>1. \A e \in c.tried : e[2] \in Nat
    BY DEF Calls
<1>2. Skip(c) \in Calls /\ Shape(Skip(c))
    BY <1>1, SkipFacts, SMTT(30) DEF Shape, Unguarded, Calls
<1> DEFINE d == [Skip(c) EXCEPT !.wait = w]
<1>3. d \in Calls
    BY <1>2 DEF Calls
<1>4. /\ d.pc = Skip(c).pc /\ d.guard = Skip(c).guard /\ d.i = Skip(c).i /\ d.tried = Skip(c).tried
      /\ d.err = Skip(c).err /\ d.honor = Skip(c).honor /\ d.chain = Skip(c).chain
    BY <1>2 DEF Calls
<1> HIDE DEF d
<1>5. Shape(d)
    BY <1>2, <1>4 DEF Shape
<1> QED
    BY <1>2, <1>3, <1>5 DEF d

\* And where an error is recorded.
LEMMA SkipWithError ==
    ASSUME NEW c \in Calls, Shape(c), c.pc \in {"walk", "floor", "attempt"}
    PROVE  [Skip(c) EXCEPT !.err = TRUE] \in Calls /\ Shape([Skip(c) EXCEPT !.err = TRUE])
<1> DEFINE d == [Skip(c) EXCEPT !.err = TRUE]
<1>1. \A e \in c.tried : e[2] \in Nat
    BY DEF Calls
<1>a. Skip(c) \in Calls
    BY SkipFacts
<1>2. d \in Calls
    BY <1>a DEF Calls
<1>3. /\ d.pc = "walk" /\ d.guard = NoProvider /\ d.i = c.i + 1 /\ d.tried = c.tried
      /\ d.err = TRUE /\ d.honor = c.honor
    BY <1>a, SkipFacts DEF Calls
<1> HIDE DEF d
<1>4. Shape(d)
    BY <1>1, <1>3 DEF Shape, Unguarded, Calls
<1> QED
    BY <1>2, <1>4 DEF d

\* A finished request holds nothing.
LEMMA EndedFacts ==
    ASSUME NEW c \in Calls, Shape(c),
           NEW outcome \in {"blocked", "served", "failed", "limited", "dropped"}
    PROVE  /\ Ended(c, outcome) \in Calls /\ Shape(Ended(c, outcome))
           /\ Ended(c, outcome).guard = NoProvider
BY DEF Ended, Calls, Shape, Unguarded

\* An emitted event keeps the logs typed.
LEMMA EmitType ==
    ASSUME TypeOK, NEW r \in Requests, NEW kind \in EventKinds, Emit(r, kind)
    PROVE  events' \in [Requests -> Seq(EventKinds)]
BY DEF Emit, TypeOK

\* Freeing a guard keeps the permits typed.
LEMMA FreeType ==
    ASSUME TypeOK, NEW r \in Requests, FreeGuard(r)
    PROVE  available' \in [Providers -> Nat]
BY DEF FreeGuard, TypeOK, Calls

\* Waits are typed: a debt is paid off in a natural number of ticks.
LEMMA WaitType ==
    ASSUME NEW deficit \in Nat, NEW limit \in Nat
    PROVE  wait_for(deficit, limit) \in Nat
<1>1. CASE limit = 0
    BY <1>1, TimeAssumption DEF wait_for
<1>2. CASE limit # 0
    <2>1. (deficit + limit - 1) \div limit \in Nat
        BY <1>2
    <2> QED
        BY <1>2, <2>1 DEF wait_for
<1> QED
    BY <1>1, <1>2

\* The target a request faces, or is asking, is a provider of its chain.
LEMMA TargetType ==
    ASSUME ShapeInv, NEW r \in Requests, Facing(r) \/ calls[r].pc \in {"floor", "attempt"}
    PROVE  /\ Target(r) \in Providers
           /\ calls[r].i \in 1 .. Len(calls[r].chain)
<1>1. calls[r] \in Calls /\ Shape(calls[r])
    BY DEF ShapeInv, TypeOK
<1>2. calls[r].chain \in Seq(Providers) /\ calls[r].i \in Nat
    BY <1>1 DEF Calls
<1>3. calls[r].i >= 1 /\ calls[r].i <= Len(calls[r].chain)
    BY <1>1 DEF Facing, Shape
<1> QED
    BY <1>2, <1>3 DEF Target

\* Topping up the target's bucket, and debiting the guard's, gives buckets.
LEMMA ToppedType ==
    ASSUME ShapeInv, NEW r \in Requests, calls[r].pc = "floor", Tpm[Target(r)] # NoLimit
    PROVE  Topped(r) \in Buckets /\ Topped(r).tokens \in Int
<1>1. Target(r) \in Providers
    BY TargetType
<1>2. tpm[Target(r)] \in Buckets /\ Tpm[Target(r)] \in Nat /\ calls[r].walkNow \in Nat
    BY <1>1, LimitAssumption DEF ShapeInv, TypeOK, Calls, Limits
<1>3. Topped(r) \in Buckets
    BY <1>2, RefillType DEF Topped
<1> QED
    BY <1>3 DEF Buckets

\* A debit keeps the buckets typed.
LEMMA DebitType ==
    ASSUME ShapeInv, NEW r \in Requests, calls[r].guard \in Providers, NEW cost \in Nat, Debit(r, cost)
    PROVE  tpm' \in [Providers -> Buckets]
<1> DEFINE p == calls[r].guard
           t == refill(tpm[p], Tpm[p], clock)
<1>1. tpm \in [Providers -> Buckets] /\ clock \in Nat
    BY DEF ShapeInv, TypeOK
<1>2. CASE Tpm[p] = NoLimit
    BY <1>1, <1>2 DEF Debit
<1>3. CASE Tpm[p] # NoLimit
    <2>1. Tpm[p] \in Nat
        BY <1>3, LimitAssumption DEF Limits
    <2>2. t \in Buckets
        BY <1>1, <2>1, RefillType
    <2>3. tpm' = [tpm EXCEPT ![p] = Minus(t, cost)]
        BY <1>3 DEF Debit
    <2> HIDE DEF t
    <2>4. Minus(t, cost) \in Buckets
        BY <2>2, MinusType
    <2> QED
        BY <1>1, <2>3, <2>4
<1> QED
    BY <1>2, <1>3

\* The inductive step of type correctness.
LEMMA ShapeStep == ShapeInv /\ [Next]_vars => ShapeInv'
<1> SUFFICES ASSUME ShapeInv, [Next]_vars
             PROVE  ShapeInv'
    OBVIOUS
<1>a. /\ TypeOK
      /\ \A q \in Requests : Shape(calls[q])
      /\ calls \in [Requests -> Calls]
      /\ clock \in Nat
    BY DEF ShapeInv, TypeOK
<1>b. ASSUME NEW r \in Requests, NEW c \in Calls, Shape(c), Update(r, c),
             health' \in [Providers -> Nat], available' \in [Providers -> Nat],
             tpm' \in [Providers -> Buckets], clock' \in Nat,
             events' \in [Requests -> Seq(EventKinds)]
      PROVE  ShapeInv'
    BY <1>a, <1>b, CallUpdate DEF ShapeInv, TypeOK
<1>c. /\ health \in [Providers -> Nat] /\ available \in [Providers -> Nat]
      /\ tpm \in [Providers -> Buckets] /\ events \in [Requests -> Seq(EventKinds)]
    BY <1>a DEF TypeOK
<1>1. ASSUME NEW r \in Requests, NEW chain \in Chains, NEW kind \in Kinds,
             Arrive(r, chain, kind)
      PROVE  ShapeInv'
    <2> DEFINE c == [NewCall EXCEPT !.pc = "screening", !.kind = kind, !.chain = chain, !.now = clock]
    <2>1. c \in Calls
        BY <1>a, NewCallFacts, ChainAssumption DEF Calls
    <2>2. Shape(c)
        BY DEF Shape, NewCall, Unguarded
    <2> HIDE DEF c
    <2> QED
        BY <1>1, <1>a, <1>b, <1>c, <2>1, <2>2 DEF Arrive, c
<1>2. ASSUME NEW r \in Requests, Block(r)
      PROVE  ShapeInv'
    BY <1>2, <1>a, <1>b, <1>c, EndedFacts DEF Block
<1>3. ASSUME NEW r \in Requests, Start(r)
      PROVE  ShapeInv'
    <2>1. Walk(calls[r]) \in Calls /\ Shape(Walk(calls[r]))
        BY <1>3, <1>a, WalkFacts DEF Start, Shape, Unguarded
    <2>2. events' \in [Requests -> Seq(EventKinds)]
        BY <1>3, <1>a, EmitType DEF Start, EventKinds
    <2> QED
        BY <1>3, <1>a, <1>b, <1>c, <2>1, <2>2 DEF Start
<1>4. ASSUME NEW r \in Requests, SkipCooled(r)
      PROVE  ShapeInv'
    <2>1. Skip(calls[r]) \in Calls /\ Shape(Skip(calls[r]))
        BY <1>4, <1>a, SkipKeepsShape DEF SkipCooled, Facing, Waits
    <2> QED
        BY <1>4, <1>a, <1>b, <1>c, <2>1 DEF SkipCooled
<1>5. ASSUME NEW r \in Requests, SkipUnregistered(r)
      PROVE  ShapeInv'
    BY <1>5, <1>a, <1>b, <1>c, SkipWithError DEF SkipUnregistered, Facing
<1>6. ASSUME NEW r \in Requests, AcquirePermit(r)
      PROVE  ShapeInv'
    <2> DEFINE c == [calls[r] EXCEPT !.pc = "floor", !.guard = Target(r)]
    <2>1. Target(r) \in Providers /\ Facing(r) /\ calls[r].i \in 1 .. Len(calls[r].chain)
        BY <1>6, TargetType DEF AcquirePermit
    <2>2. c \in Calls
        <3>1. calls[r] \in Calls
            BY <1>a
        <3>2. \A p \in Providers : [calls[r] EXCEPT !.pc = "floor", !.guard = p] \in Calls
            BY <3>1 DEF Calls
        <3> QED
            BY <2>1, <3>2
    <2>3. /\ c.pc = "floor" /\ c.guard = Target(r) /\ c.i = calls[r].i /\ c.chain = calls[r].chain
          /\ c.tried = calls[r].tried /\ c.err = calls[r].err /\ c.honor = calls[r].honor
        BY <1>a DEF Calls
    <2> HIDE DEF c
    <2>4. Shape(c)
        BY <1>a, <2>1, <2>3 DEF Shape, Facing, Target, Unguarded
    <2>5. available' \in [Providers -> Nat]
        BY <1>6, <1>c, <2>1 DEF AcquirePermit
    <2> QED
        BY <1>6, <1>a, <1>b, <1>c, <2>2, <2>4, <2>5 DEF AcquirePermit, c
<1>7. ASSUME NEW r \in Requests, PermitsExhausted(r)
      PROVE  ShapeInv'
    <2>1. Sooner(calls[r].wait, Poll) \in Waits
        BY <1>a, TimeAssumption DEF Sooner, Waits, Calls
    <2> QED
        BY <1>7, <1>a, <1>b, <1>c, <2>1, SkipKeepsShape DEF PermitsExhausted, Facing
<1>8. ASSUME NEW r \in Requests, FloorHolds(r)
      PROVE  ShapeInv'
    <2> DEFINE call == calls[r]
               c == [call EXCEPT !.pc = "attempt", !.tried = call.tried \cup {<<call.honor, call.i>>}]
    <2>1. call \in Calls /\ Shape(call) /\ call.pc = "floor" /\ Target(r) \in Providers
        BY <1>8, <1>a, TargetType DEF FloorHolds
    <2>2. <<call.honor, call.i>> \in BOOLEAN \X Nat
        BY <2>1 DEF Calls
    <2>3. c \in Calls
        BY <2>1, <2>2 DEF Calls
    <2>4. /\ c.pc = "attempt" /\ c.guard = call.guard /\ c.i = call.i /\ c.chain = call.chain
          /\ c.tried = call.tried \cup {<<call.honor, call.i>>} /\ c.honor = call.honor
        BY <2>1 DEF Calls
    <2>5. call.i \in Nat /\ \A e \in call.tried : e[2] \in Nat
        BY <2>1 DEF Calls
    <2> HIDE DEF c
    <2>6. Shape(c)
        BY <2>1, <2>4, <2>5 DEF Shape, Unguarded
    <2>7. tpm' \in [Providers -> Buckets]
        BY <1>8, <1>c, <2>1, ToppedType DEF FloorHolds
    <2> QED
        BY <1>8, <1>a, <1>b, <1>c, <2>3, <2>6, <2>7 DEF FloorHolds, c
<1>9. ASSUME NEW r \in Requests, FloorExhausted(r)
      PROVE  ShapeInv'
    <2> DEFINE w == Sooner(calls[r].wait, wait_for(-Topped(r).tokens, Tpm[Target(r)]))
    <2>1. /\ calls[r] \in Calls /\ Shape(calls[r]) /\ calls[r].pc = "floor"
          /\ Target(r) \in Providers /\ Topped(r) \in Buckets /\ Topped(r).tokens \in Int
        BY <1>9, <1>a, TargetType, ToppedType DEF FloorExhausted
    <2>2. wait_for(-Topped(r).tokens, Tpm[Target(r)]) \in Nat
        <3>1. Tpm[Target(r)] \in Nat /\ -Topped(r).tokens \in Nat
            BY <1>9, <2>1, LimitAssumption DEF FloorExhausted, Limits
        <3> QED
            BY <3>1, WaitType
    <2>3. w \in Waits
        BY <2>1, <2>2 DEF Sooner, Waits, Calls
    <2>4. available' \in [Providers -> Nat]
        BY <1>9, <1>a, FreeType DEF FloorExhausted
    <2>5. tpm' \in [Providers -> Buckets]
        BY <1>9, <1>c, <2>1 DEF FloorExhausted
    <2>6. Update(r, [Skip(calls[r]) EXCEPT !.wait = w]) /\ UNCHANGED <<health, clock, events>>
        BY <1>9 DEF FloorExhausted
    <2> HIDE DEF w
    <2>7. [Skip(calls[r]) EXCEPT !.wait = w] \in Calls /\ Shape([Skip(calls[r]) EXCEPT !.wait = w])
        BY <2>1, <2>3, SkipKeepsShape
    <2> QED
        BY <1>a, <1>b, <1>c, <2>4, <2>5, <2>6, <2>7
<1>10. ASSUME NEW r \in Requests, OpOk(r)
       PROVE  ShapeInv'
    <2> DEFINE c == [calls[r] EXCEPT !.pc = calls[r].kind]
    <2>1. Target(r) \in Providers /\ calls[r].guard = Target(r)
        BY <1>10, <1>a, TargetType DEF OpOk, Shape, Target
    <2>2. calls[r].kind \in Kinds
        BY <1>a DEF Calls
    <2>3. c \in Calls
        <3>1. calls[r] \in Calls
            BY <1>a
        <3>2. \A kind \in Kinds : [calls[r] EXCEPT !.pc = kind] \in Calls
            BY <3>1 DEF Calls
        <3> QED
            BY <2>2, <3>2
    <2>4. c.pc = calls[r].kind /\ c.guard = calls[r].guard /\ c.i = calls[r].i
        BY <1>a DEF Calls
    <2> HIDE DEF c
    <2>5. Shape(c)
        BY <1>a, <2>1, <2>2, <2>4 DEF Shape, Unguarded
    <2>6. health' \in [Providers -> Nat]
        BY <1>10, <1>c, <2>1 DEF OpOk, clear
    <2>7. events' \in [Requests -> Seq(EventKinds)]
        BY <1>10, <1>a, EmitType DEF OpOk, EventKinds
    <2> QED
        BY <1>10, <1>a, <1>b, <1>c, <2>3, <2>5, <2>6, <2>7 DEF OpOk, c
<1>11. ASSUME NEW r \in Requests, OpUnsupported(r)
       PROVE  ShapeInv'
    <2>1. available' \in [Providers -> Nat]
        BY <1>11, <1>a, FreeType DEF OpUnsupported
    <2> QED
        BY <1>11, <1>a, <1>b, <1>c, <2>1, SkipWithError DEF OpUnsupported
<1>12. ASSUME NEW r \in Requests, OpFailed(r)
       PROVE  ShapeInv'
    <2>1. available' \in [Providers -> Nat]
        BY <1>12, <1>a, FreeType DEF OpFailed
    <2>2. Target(r) \in Providers /\ calls[r].now \in Nat
        BY <1>12, <1>a, TargetType DEF OpFailed, Calls
    <2>3. health' \in [Providers -> Nat]
        BY <1>12, <1>c, <2>2, TimeAssumption DEF OpFailed, penalize
    <2>4. events' \in [Requests -> Seq(EventKinds)]
        BY <1>12, <1>a, EmitType DEF OpFailed, EventKinds
    <2> QED
        BY <1>12, <1>a, <1>b, <1>c, <2>1, <2>3, <2>4, SkipWithError DEF OpFailed
<1>13. ASSUME NEW r \in Requests, FailOpen(r)
       PROVE  ShapeInv'
    <2> DEFINE c == [calls[r] EXCEPT !.honor = FALSE, !.i = 1]
    <2>1. calls[r] \in Calls /\ Shape(calls[r]) /\ calls[r].pc = "walk" /\ ~calls[r].err
        BY <1>13, <1>a DEF FailOpen, Exhausted
    <2>2. c \in Calls
        BY <2>1 DEF Calls
    <2>3. /\ c.pc = "walk" /\ c.guard = calls[r].guard /\ c.i = 1 /\ c.tried = calls[r].tried
        BY <2>1 DEF Calls
    <2>4. calls[r].tried = {}
        BY <2>1 DEF Shape
    <2> HIDE DEF c
    <2>5. Shape(c)
        BY <2>1, <2>3, <2>4 DEF Shape, Unguarded
    <2> QED
        BY <1>13, <1>a, <1>b, <1>c, <2>2, <2>5 DEF FailOpen, c
<1>14. ASSUME NEW r \in Requests, Sleep(r)
       PROVE  ShapeInv'
    <2> DEFINE c == [calls[r] EXCEPT !.pc = "nap", !.wakeAt = clock + Nap(r),
                                     !.budget = calls[r].budget - Nap(r)]
    <2>1. calls[r] \in Calls /\ Shape(calls[r]) /\ calls[r].pc = "walk" /\ calls[r].wait # NoWait
        BY <1>14, <1>a DEF Sleep, Saturated, Exhausted
    <2>2. calls[r].wait \in Nat /\ calls[r].budget \in Nat
        BY <2>1 DEF Calls, Waits
    <2>3. Nap(r) \in Nat /\ Nap(r) <= calls[r].budget
        BY <2>1, <2>2 DEF Nap, Sooner
    <2>4. calls[r].budget - Nap(r) \in Nat /\ clock + Nap(r) \in Nat
        BY <1>a, <2>2, <2>3
    <2>5. c \in Calls
        <3>1. \A x, y \in Nat : [calls[r] EXCEPT !.pc = "nap", !.wakeAt = x, !.budget = y] \in Calls
            BY <2>1 DEF Calls
        <3> QED
            BY <2>4, <3>1
    <2>6. c.pc = "nap" /\ c.guard = calls[r].guard /\ c.i = calls[r].i
        BY <2>1 DEF Calls
    <2> HIDE DEF c
    <2>7. Shape(c)
        BY <2>1, <2>6 DEF Shape, Unguarded
    <2> QED
        BY <1>14, <1>a, <1>b, <1>c, <2>5, <2>7 DEF Sleep, c
<1>15. ASSUME NEW r \in Requests, Wake(r)
       PROVE  ShapeInv'
    <2>1. Walk(calls[r]) \in Calls /\ Shape(Walk(calls[r]))
        BY <1>15, <1>a, WalkFacts DEF Wake, Shape, Unguarded
    <2> QED
        BY <1>15, <1>a, <1>b, <1>c, <2>1 DEF Wake
<1>16. ASSUME NEW r \in Requests, RateLimited(r) \/ AllTargetsFailed(r)
       PROVE  ShapeInv'
    <2>1. events' \in [Requests -> Seq(EventKinds)]
        BY <1>16, <1>a, EmitType DEF RateLimited, AllTargetsFailed, EventKinds
    <2> QED
        BY <1>16, <1>a, <1>b, <1>c, <2>1, EndedFacts DEF RateLimited, AllTargetsFailed
<1>17. ASSUME NEW r \in Requests, StreamError(r) \/ StreamEnd(r) \/ VoicesTail(r)
       PROVE  ShapeInv'
    <2>1. events' \in [Requests -> Seq(EventKinds)]
        BY <1>17, <1>a, EmitType DEF StreamError, StreamEnd, VoicesTail, EventKinds
    <2>2. available' \in [Providers -> Nat]
        BY <1>17, <1>a, FreeType DEF StreamError, StreamEnd, VoicesTail
    <2> QED
        BY <1>17, <1>a, <1>b, <1>c, <2>1, <2>2, EndedFacts DEF StreamError, StreamEnd, VoicesTail
<1>18. ASSUME NEW r \in Requests, NEW cost \in Costs, UsageChunk(r, cost)
       PROVE  ShapeInv'
    <2>1. events' \in [Requests -> Seq(EventKinds)]
        BY <1>18, <1>a, EmitType DEF UsageChunk, EventKinds
    <2>2. calls[r].guard \in Providers /\ cost \in Nat
        BY <1>18, <1>a, CostAssumption DEF UsageChunk, Shape
    <2>3. tpm' \in [Providers -> Buckets]
        BY <1>18, <2>2, DebitType DEF UsageChunk
    <2> QED
        BY <1>18, <1>a, <2>1, <2>3 DEF UsageChunk, ShapeInv, TypeOK, Shape
<1>19. ASSUME NEW r \in Requests, NEW cost \in Costs, BatchTail(r, cost)
       PROVE  ShapeInv'
    <2>1. events' \in [Requests -> Seq(EventKinds)]
        <3>1. <<"Usage", "Completed">> \in Seq(EventKinds)
            BY DEF EventKinds
        <3>2. events[r] \o <<"Usage", "Completed">> \in Seq(EventKinds)
            BY <1>c, <3>1
        <3> QED
            BY <1>19, <1>c, <3>2 DEF BatchTail
    <2>2. calls[r].guard \in Providers /\ cost \in Nat
        BY <1>19, <1>a, CostAssumption DEF BatchTail, Shape
    <2>3. tpm' \in [Providers -> Buckets]
        BY <1>19, <2>2, DebitType DEF BatchTail
    <2>4. available' \in [Providers -> Nat]
        BY <1>19, <1>a, FreeType DEF BatchTail
    <2> QED
        BY <1>19, <1>a, <1>b, <1>c, <2>1, <2>3, <2>4, EndedFacts DEF BatchTail
<1>20. ASSUME NEW r \in Requests, Disconnect(r)
       PROVE  ShapeInv'
    <2>1. available' \in [Providers -> Nat]
        BY <1>20, <1>a, FreeType DEF Disconnect
    <2> QED
        BY <1>20, <1>a, <1>b, <1>c, <2>1, EndedFacts DEF Disconnect
<1>21. CASE Tick
    BY <1>21, <1>a DEF Tick, ShapeInv, TypeOK, Shape
<1>22. CASE UNCHANGED vars
    BY <1>22, <1>a DEF vars, ShapeInv, TypeOK, Shape
<1> QED
    BY <1>1, <1>2, <1>3, <1>4, <1>5, <1>6, <1>7, <1>8, <1>9, <1>10, <1>11, <1>12, <1>13, <1>14,
       <1>15, <1>16, <1>17, <1>18, <1>19, <1>20, <1>21, <1>22 DEF Next, EngineStep, UpstreamStep

\* The initial state is well formed.
LEMMA ShapeInit == Init => ShapeInv
<1> SUFFICES ASSUME Init
             PROVE  ShapeInv
    OBVIOUS
<1>1. \A limit \in Limits : per_minute(limit) \in Buckets
    BY MinuteAssumption, CapacityType DEF per_minute, Buckets, Limits
<1>2. tpm \in [Providers -> Buckets] /\ available \in [Providers -> Nat]
    BY <1>1, LimitAssumption DEF Init, Limits
<1>3. events \in [Requests -> Seq(EventKinds)] /\ health \in [Providers -> Nat] /\ clock \in Nat
    BY DEF Init
<1>4. calls \in [Requests -> Calls] /\ \A r \in Requests : Shape(calls[r])
    BY NewCallFacts DEF Init
<1> QED
    BY <1>2, <1>3, <1>4 DEF ShapeInv, TypeOK

\* Every state of the dispatcher is well typed.
THEOREM TypeCorrect == Spec => []TypeOK
<1>1. ShapeInv => TypeOK
    BY DEF ShapeInv
<1> QED
    BY <1>1, ShapeInit, ShapeStep, PTL DEF Spec

-----------------------------------------------------------------------------
(* No permit is lost *)

\* Holders are a finite set.
LEMMA HoldersFinite ==
    ASSUME NEW p
    PROVE  IsFiniteSet(Holders(p)) /\ Cardinality(Holders(p)) \in Nat
<1>1. Holders(p) \in SUBSET Requests
    BY DEF Holders
<1>2. IsFiniteSet(Holders(p))
    BY <1>1, RequestAssumption, FS_Subset
<1> QED
    BY <1>2, FS_CardinalityType

\* A step that moves no permit and changes nobody's guard.
LEMMA SameGuards ==
    ASSUME GuardsConserved, available' = available,
           \A q \in Requests : calls'[q].guard = calls[q].guard
    PROVE  GuardsConserved'
<1>1. \A p \in Providers : Holders(p)' = Holders(p)
    BY DEF Holders
<1> QED
    BY <1>1 DEF GuardsConserved

\* Dropping a request's guard returns its permit, if it held one.
LEMMA FreeConserves ==
    ASSUME ShapeInv, GuardsConserved, NEW r \in Requests, FreeGuard(r),
           NEW c, c.guard = NoProvider, Update(r, c)
    PROVE  GuardsConserved'
<1>1. SUFFICES ASSUME NEW p \in Providers, MaxConcurrent[p] # NoLimit
               PROVE  available'[p] + Cardinality(Holders(p)') = MaxConcurrent[p]
    BY DEF GuardsConserved
<1>2. calls \in [Requests -> Calls] /\ available \in [Providers -> Nat]
    BY DEF ShapeInv, TypeOK
<1>3. Holders(p)' = Holders(p) \ {r}
    BY <1>2, SentinelAssumption DEF Holders, Update
<1>4. available[p] \in Nat /\ available[p] + Cardinality(Holders(p)) = MaxConcurrent[p]
    BY <1>1, <1>2 DEF GuardsConserved
<1>5. available'[p] = IF calls[r].guard = p THEN available[p] + 1 ELSE available[p]
    BY <1>1, <1>2, SentinelAssumption DEF FreeGuard
<1>6. Cardinality(Holders(p)') = IF r \in Holders(p) THEN Cardinality(Holders(p)) - 1
                                 ELSE Cardinality(Holders(p))
    BY <1>3, HoldersFinite, FS_RemoveElement
<1>7. r \in Holders(p) <=> calls[r].guard = p
    BY DEF Holders
<1> QED
    BY <1>4, <1>5, <1>6, <1>7, HoldersFinite

\* The inductive step of permit conservation.
LEMMA GuardStep == ShapeInv /\ GuardsConserved /\ [Next]_vars => GuardsConserved'
<1> SUFFICES ASSUME ShapeInv, GuardsConserved, [Next]_vars
             PROVE  GuardsConserved'
    OBVIOUS
<1>a. /\ calls \in [Requests -> Calls]
      /\ available \in [Providers -> Nat]
      /\ \A q \in Requests : Shape(calls[q])
    BY DEF ShapeInv, TypeOK
\* A step of one request that keeps its guard.
<1>b. ASSUME NEW r \in Requests, NEW c, Update(r, c), c.guard = calls[r].guard, available' = available
      PROVE  GuardsConserved'
    BY <1>a, <1>b, SameGuards DEF Update
<1>c. \A r \in Requests : calls[r].pc \in Unguarded => calls[r].guard = NoProvider
    BY <1>a DEF Shape
<1>d. \A r \in Requests : \A outcome : Ended(calls[r], outcome).guard = NoProvider
    BY <1>a DEF Ended, Calls
<1>e. \A r \in Requests : Walk(calls[r]).guard = calls[r].guard
    BY <1>a DEF Walk, Calls
<1>f. \A r \in Requests : \A w : /\ Skip(calls[r]).guard = NoProvider
                                 /\ [Skip(calls[r]) EXCEPT !.wait = w].guard = NoProvider
                                 /\ [Skip(calls[r]) EXCEPT !.err = w].guard = NoProvider
    BY <1>a DEF Skip, Calls
<1>1. ASSUME NEW r \in Requests, NEW chain \in Chains, NEW kind \in Kinds,
             Arrive(r, chain, kind)
      PROVE  GuardsConserved'
    <2>1. [NewCall EXCEPT !.pc = "screening", !.kind = kind, !.chain = chain, !.now = clock].guard
              = NoProvider
        BY DEF NewCall
    <2> QED
        BY <1>1, <1>b, <1>c, <2>1 DEF Arrive, Unguarded
<1>2. ASSUME NEW r \in Requests, Block(r) \/ RateLimited(r) \/ AllTargetsFailed(r)
      PROVE  GuardsConserved'
    <2>1. calls[r].pc \in Unguarded /\ available' = available
        BY <1>2 DEF Block, RateLimited, AllTargetsFailed, Saturated, Exhausted, Unguarded
    <2> QED
        BY <1>2, <1>b, <1>c, <1>d, <2>1 DEF Block, RateLimited, AllTargetsFailed
<1>3. ASSUME NEW r \in Requests, Start(r) \/ Wake(r)
      PROVE  GuardsConserved'
    BY <1>3, <1>b, <1>e DEF Start, Wake
<1>4. ASSUME NEW r \in Requests, SkipCooled(r) \/ SkipUnregistered(r) \/ PermitsExhausted(r)
      PROVE  GuardsConserved'
    <2>1. calls[r].guard = NoProvider /\ available' = available
        BY <1>4, <1>c DEF SkipCooled, SkipUnregistered, PermitsExhausted, Facing, Unguarded
    <2> QED
        BY <1>4, <1>b, <1>f, <2>1 DEF SkipCooled, SkipUnregistered, PermitsExhausted
<1>5. ASSUME NEW r \in Requests, AcquirePermit(r)
      PROVE  GuardsConserved'
    <2> DEFINE t == Target(r)
               c == [calls[r] EXCEPT !.pc = "floor", !.guard = t]
    <2>1. t \in Providers /\ calls[r].guard = NoProvider
        BY <1>5, <1>c, TargetType DEF AcquirePermit, Facing, Unguarded
    <2>2. c.guard = t
        BY <1>a DEF Calls
    <2>3. calls' = [calls EXCEPT ![r] = c]
        BY <1>5 DEF AcquirePermit, Update
    <2> HIDE DEF c
    <2>4. SUFFICES ASSUME NEW p \in Providers, MaxConcurrent[p] # NoLimit
                   PROVE  available'[p] + Cardinality(Holders(p)') = MaxConcurrent[p]
        BY DEF GuardsConserved
    <2>5. available[p] \in Nat /\ available[p] + Cardinality(Holders(p)) = MaxConcurrent[p]
        BY <1>a, <2>4 DEF GuardsConserved
    <2>6. CASE p = t
        <3>1. Holders(p)' = Holders(p) \cup {r} /\ r \notin Holders(p)
            BY <1>a, <2>1, <2>2, <2>3, <2>6, SentinelAssumption DEF Holders
        <3>2. Cardinality(Holders(p)') = Cardinality(Holders(p)) + 1
            BY <3>1, HoldersFinite, FS_AddElement
        <3>3. available[p] > 0 /\ available'[p] = available[p] - 1
            BY <1>5, <1>a, <2>4, <2>6 DEF AcquirePermit
        <3> QED
            BY <2>5, <3>2, <3>3, HoldersFinite
    <2>7. CASE p # t
        <3>1. Holders(p)' = Holders(p)
            BY <1>a, <2>1, <2>2, <2>3, <2>7, SentinelAssumption DEF Holders
        <3>2. available'[p] = available[p]
            BY <1>5, <1>a, <2>7 DEF AcquirePermit
        <3> QED
            BY <2>5, <3>1, <3>2
    <2> QED
        BY <2>6, <2>7
<1>6. ASSUME NEW r \in Requests, FloorHolds(r)
      PROVE  GuardsConserved'
    <2>1. [calls[r] EXCEPT !.pc = "attempt",
                           !.tried = calls[r].tried \cup {<<calls[r].honor, calls[r].i>>}].guard
              = calls[r].guard
        BY <1>a DEF Calls
    <2> QED
        BY <1>6, <1>b, <2>1 DEF FloorHolds
<1>7. ASSUME NEW r \in Requests, FloorExhausted(r) \/ OpUnsupported(r) \/ OpFailed(r)
      PROVE  GuardsConserved'
    BY <1>7, <1>f, FreeConserves DEF FloorExhausted, OpUnsupported, OpFailed
<1>8. ASSUME NEW r \in Requests, OpOk(r)
      PROVE  GuardsConserved'
    <2>1. [calls[r] EXCEPT !.pc = calls[r].kind].guard = calls[r].guard
        BY <1>a DEF Calls
    <2> QED
        BY <1>8, <1>b, <2>1 DEF OpOk
<1>9. ASSUME NEW r \in Requests, FailOpen(r)
      PROVE  GuardsConserved'
    <2>1. [calls[r] EXCEPT !.honor = FALSE, !.i = 1].guard = calls[r].guard
        BY <1>a DEF Calls
    <2> QED
        BY <1>9, <1>b, <2>1 DEF FailOpen
<1>10. ASSUME NEW r \in Requests, Sleep(r)
       PROVE  GuardsConserved'
    <2>1. [calls[r] EXCEPT !.pc = "nap", !.wakeAt = clock + Nap(r),
                           !.budget = calls[r].budget - Nap(r)].guard = calls[r].guard
        BY <1>a DEF Calls
    <2> QED
        BY <1>10, <1>b, <2>1 DEF Sleep
<1>11. ASSUME NEW r \in Requests, StreamError(r) \/ StreamEnd(r) \/ VoicesTail(r) \/ Disconnect(r)
       PROVE  GuardsConserved'
    BY <1>11, <1>d, FreeConserves DEF StreamError, StreamEnd, VoicesTail, Disconnect
<1>12. ASSUME NEW r \in Requests, NEW cost \in Costs, BatchTail(r, cost)
       PROVE  GuardsConserved'
    BY <1>12, <1>d, FreeConserves DEF BatchTail
<1>13. ASSUME NEW r \in Requests, NEW cost \in Costs, UsageChunk(r, cost)
       PROVE  GuardsConserved'
    BY <1>13, SameGuards DEF UsageChunk
<1>14. CASE Tick \/ UNCHANGED vars
    BY <1>14, SameGuards DEF Tick, vars
<1> QED
    BY <1>1, <1>2, <1>3, <1>4, <1>5, <1>6, <1>7, <1>8, <1>9, <1>10, <1>11, <1>12, <1>13, <1>14
    DEF Next, EngineStep, UpstreamStep

\* For every chain and every number of requests, no fall-through, error, end of stream
\* or hang-up loses or forges a permit.
THEOREM GuardsAreConserved == Spec => []GuardsConserved
<1>1. Init => GuardsConserved
    <2> SUFFICES ASSUME Init
                 PROVE  GuardsConserved
        OBVIOUS
    <2>1. \A p \in Providers : Holders(p) = {}
        BY SentinelAssumption DEF Init, Holders, NewCall
    <2>2. \A p \in Providers : Cardinality(Holders(p)) = 0
        BY <2>1, FS_EmptySet
    <2>3. ASSUME NEW p \in Providers, MaxConcurrent[p] # NoLimit
          PROVE  available[p] = MaxConcurrent[p] /\ MaxConcurrent[p] \in Nat
        BY <2>3, LimitAssumption DEF Init, Limits
    <2> QED
        BY <2>2, <2>3 DEF GuardsConserved
<1> QED
    BY <1>1, ShapeInit, ShapeStep, GuardStep, PTL DEF Spec

-----------------------------------------------------------------------------
(* The discipline of a walk *)

\* For every chain, however often it names a provider: one walk asks no target twice,
\* and one that is cooling down only after a pass that asked nobody.
THEOREM AttemptsAreDisciplined == Spec => AttemptDiscipline
<1> DEFINE Rule(r) ==
        calls[r].pc # "attempt" /\ calls'[r].pc = "attempt" =>
            /\ \A pass \in BOOLEAN : <<pass, calls[r].i>> \notin calls[r].tried
            /\ ~calls[r].honor => \A n \in 1 .. Len(calls[r].chain) : <<TRUE, n>> \notin calls[r].tried
<1>1. ShapeInv /\ [Next]_vars => [\A r \in Requests : Rule(r)]_vars
    <2> SUFFICES ASSUME ShapeInv, Next, NEW r \in Requests,
                        calls[r].pc # "attempt", calls'[r].pc = "attempt"
                 PROVE  /\ \A pass \in BOOLEAN : <<pass, calls[r].i>> \notin calls[r].tried
                        /\ ~calls[r].honor =>
                              \A n \in 1 .. Len(calls[r].chain) : <<TRUE, n>> \notin calls[r].tried
        OBVIOUS
    <2>1. calls \in [Requests -> Calls] /\ Shape(calls[r])
        BY DEF ShapeInv, TypeOK
    <2>2. calls[r].pc = "floor"
        <3>1. ASSUME NEW q \in Requests, NEW c, Update(q, c), c.pc # "attempt"
              PROVE  FALSE
            BY <2>1, <3>1 DEF Update
        <3>2. \A q \in Requests : \A outcome : Ended(calls[q], outcome).pc = "done"
            BY <2>1 DEF Ended, Calls
        <3>3. \A q \in Requests : \A w : /\ Skip(calls[q]).pc = "walk"
                                         /\ [Skip(calls[q]) EXCEPT !.wait = w].pc = "walk"
                                         /\ [Skip(calls[q]) EXCEPT !.err = w].pc = "walk"
            BY <2>1 DEF Skip, Calls
        <3>4. \A q \in Requests : Walk(calls[q]).pc = "walk"
            BY <2>1 DEF Walk, Calls
        <3>5. \A q \in Requests : \A p : [calls[q] EXCEPT !.pc = "floor", !.guard = p].pc = "floor"
            BY <2>1 DEF Calls
        <3>6. \A q \in Requests : [calls[q] EXCEPT !.pc = calls[q].kind].pc \in Kinds
            BY <2>1 DEF Calls
        <3>7. \A q \in Requests : calls[q].pc = "walk" =>
                  [calls[q] EXCEPT !.honor = FALSE, !.i = 1].pc = "walk"
            BY <2>1 DEF Calls
        <3>8. \A q \in Requests : \A x, y : [calls[q] EXCEPT !.pc = "nap", !.wakeAt = x, !.budget = y].pc = "nap"
            BY <2>1 DEF Calls
        <3>9. ASSUME NEW q \in Requests, FloorHolds(q)
              PROVE  calls[r].pc = "floor"
            BY <2>1, <3>9 DEF FloorHolds, Update
        <3>10. ASSUME NEW q \in Requests,
                      \/ Block(q) \/ RateLimited(q) \/ AllTargetsFailed(q)
                      \/ StreamError(q) \/ StreamEnd(q) \/ VoicesTail(q) \/ Disconnect(q)
                      \/ \E cost \in Costs : BatchTail(q, cost)
               PROVE  FALSE
            BY <3>1, <3>2, <3>10
            DEF Block, RateLimited, AllTargetsFailed, StreamError, StreamEnd, VoicesTail, Disconnect, BatchTail
        <3>11. ASSUME NEW q \in Requests,
                      \/ SkipCooled(q) \/ SkipUnregistered(q) \/ PermitsExhausted(q)
                      \/ FloorExhausted(q) \/ OpUnsupported(q) \/ OpFailed(q)
               PROVE  FALSE
            BY <3>1, <3>3, <3>11
            DEF SkipCooled, SkipUnregistered, PermitsExhausted, FloorExhausted, OpUnsupported, OpFailed
        <3>12. ASSUME NEW q \in Requests, Start(q) \/ Wake(q)
               PROVE  FALSE
            BY <3>1, <3>4, <3>12 DEF Start, Wake
        <3>13. ASSUME NEW q \in Requests, AcquirePermit(q)
               PROVE  FALSE
            BY <3>1, <3>5, <3>13 DEF AcquirePermit
        <3>14. ASSUME NEW q \in Requests, OpOk(q)
               PROVE  FALSE
            BY <3>1, <3>6, <3>14 DEF OpOk
        <3>15. ASSUME NEW q \in Requests, FailOpen(q)
               PROVE  FALSE
            BY <3>1, <3>7, <3>15 DEF FailOpen, Exhausted
        <3>16. ASSUME NEW q \in Requests, Sleep(q)
               PROVE  FALSE
            BY <3>1, <3>8, <3>16 DEF Sleep
        <3>17. ASSUME NEW q \in Requests, NEW chain \in Chains, NEW kind \in Kinds,
                      Arrive(q, chain, kind)
               PROVE  FALSE
            <4>1. [NewCall EXCEPT !.pc = "screening", !.kind = kind, !.chain = chain, !.now = clock].pc
                      = "screening"
                BY DEF NewCall
            <4> QED
                BY <3>1, <3>17, <4>1 DEF Arrive
        <3>18. ASSUME Tick \/ \E q \in Requests, cost \in Costs : UsageChunk(q, cost)
               PROVE  FALSE
            BY <3>18 DEF Tick, UsageChunk
        <3> QED
            BY <3>9, <3>10, <3>11, <3>12, <3>13, <3>14, <3>15, <3>16, <3>17, <3>18 DEF Next, EngineStep, UpstreamStep
    <2>3. /\ calls[r].i \in Nat
          /\ calls[r].honor \in BOOLEAN
          /\ \A e \in calls[r].tried : e[1] = calls[r].honor /\ e[2] < calls[r].i
        BY <2>1, <2>2 DEF Shape, Calls
    <2>4. \A pass \in BOOLEAN : <<pass, calls[r].i>> \notin calls[r].tried
        <3> SUFFICES ASSUME NEW pass \in BOOLEAN, <<pass, calls[r].i>> \in calls[r].tried
                     PROVE  FALSE
            OBVIOUS
        <3>1. <<pass, calls[r].i>>[2] < calls[r].i
            BY <2>3
        <3> QED
            BY <2>3, <3>1
    <2>5. ASSUME ~calls[r].honor, NEW n \in 1 .. Len(calls[r].chain),
                 <<TRUE, n>> \in calls[r].tried
          PROVE  FALSE
        <3>1. <<TRUE, n>>[1] = calls[r].honor
            BY <2>3, <2>5
        <3> QED
            BY <2>5, <3>1
    <2> QED
        BY <2>4, <2>5
<1> QED
    BY <1>1, ShapeInit, ShapeStep, PTL DEF Spec, AttemptDiscipline

-----------------------------------------------------------------------------
(* The story a request's events tell *)

\* A log in which every event has its place, whatever may follow.
Told(log) ==
    /\ \A n \in 1 .. Len(log) :
          /\ log[n] = "Started" <=> n = 1
          /\ log[n] = "Health" => \A k \in 1 .. n : log[k] # "Routed"
          /\ log[n] \in {"Usage", "Completed"} => \E k \in 1 .. n : log[k] = "Routed"
          /\ log[n] = "Routed" => \A k \in 1 .. (n - 1) : log[k] # "Routed"
          /\ log[n] \in Terminal => n = Len(log)

\* How far the story has come at each stage of a request.
Story(c, log) ==
    /\ Told(log)
    /\ c.pc \in {"idle", "screening"} => log = <<>>
    /\ c.pc \in {"walk", "floor", "attempt", "nap"} =>
          log # <<>> /\ \A n \in 1 .. Len(log) : log[n] \in {"Started", "Health"}
    /\ c.pc \in Kinds =>
          log # <<>> /\ \E n \in 1 .. Len(log) : log[n] = "Routed"
    /\ c.pc # "done" =>
          c.outcome = "none" /\ \A n \in 1 .. Len(log) : log[n] \notin Terminal
    /\ c.outcome \in {"served", "failed", "limited"} => log # <<>> /\ log[Len(log)] \in Terminal

StoryInv == \A r \in Requests : Story(calls[r], events[r])

\* What is appended is last, and what was before stays.
LEMMA Appended ==
    ASSUME NEW S, NEW log \in Seq(S), NEW kind \in S
    PROVE  /\ Append(log, kind) \in Seq(S) /\ Append(log, kind) # <<>>
           /\ Len(log) \in Nat /\ Len(Append(log, kind)) = Len(log) + 1
           /\ Append(log, kind)[Len(log) + 1] = kind
           /\ \A n \in 1 .. Len(log) : Append(log, kind)[n] = log[n]
<1>1. /\ Append(log, kind) \in Seq(S) /\ Len(log) \in Nat
      /\ Len(Append(log, kind)) = Len(log) + 1
      /\ Append(log, kind)[Len(log) + 1] = kind
      /\ \A n \in 1 .. Len(log) : Append(log, kind)[n] = log[n]
    OBVIOUS
<1> QED
    BY <1>1, EmptySeq

\* The next event of a log without an end: the first is Started, Routed comes once, reports of
\* degraded health before it and usage and success after it.
LEMMA Continued ==
    ASSUME NEW log \in Seq(EventKinds), Told(log), NEW kind \in EventKinds,
           \A n \in 1 .. Len(log) : log[n] \notin Terminal,
           kind = "Started" <=> log = <<>>,
           kind \in {"Health", "Routed"} => \A n \in 1 .. Len(log) : log[n] # "Routed",
           kind \in {"Usage", "Completed"} => \E n \in 1 .. Len(log) : log[n] = "Routed"
    PROVE  Told(Append(log, kind))
<1> DEFINE more == Append(log, kind)
           end == Len(log) + 1
<1>1. /\ Len(log) \in Nat /\ Len(more) = end /\ more[end] = kind
      /\ \A n \in 1 .. Len(log) : more[n] = log[n]
    OBVIOUS
<1>2. log = <<>> <=> Len(log) = 0
    BY EmptySeq
<1> HIDE DEF more
<1>3. ASSUME NEW n \in 1 .. Len(log)
      PROVE  /\ more[n] = "Started" <=> n = 1
             /\ more[n] = "Health" => \A k \in 1 .. n : more[k] # "Routed"
             /\ more[n] \in {"Usage", "Completed"} => \E k \in 1 .. n : more[k] = "Routed"
             /\ more[n] = "Routed" => \A k \in 1 .. (n - 1) : more[k] # "Routed"
             /\ more[n] \notin Terminal
    BY <1>1, <1>3 DEF Told
<1>4. /\ more[end] = "Started" <=> end = 1
      /\ more[end] = "Health" => \A k \in 1 .. end : more[k] # "Routed"
      /\ more[end] \in {"Usage", "Completed"} => \E k \in 1 .. end : more[k] = "Routed"
      /\ more[end] = "Routed" => \A k \in 1 .. (end - 1) : more[k] # "Routed"
    BY <1>1, <1>2
<1>5. \A n \in 1 .. Len(more) : n \in 1 .. Len(log) \/ n = end
    BY <1>1
<1> QED
    BY <1>1, <1>3, <1>4, <1>5 DEF Told, more

\* What each step of a request adds to its story.
LEMMA StoryStep == ShapeInv /\ StoryInv /\ [Next]_vars => StoryInv'
<1> SUFFICES ASSUME ShapeInv, StoryInv, [Next]_vars
             PROVE  StoryInv'
    OBVIOUS
<1>a. /\ calls \in [Requests -> Calls] /\ events \in [Requests -> Seq(EventKinds)]
      /\ \A q \in Requests : Story(calls[q], events[q])
    BY DEF ShapeInv, TypeOK, StoryInv
\* A step that tells nothing.
<1>b. ASSUME NEW r \in Requests, NEW c, Update(r, c), events' = events, Story(c, events[r])
      PROVE  StoryInv'
    <2>1. ASSUME NEW q \in Requests
          PROVE  Story(calls'[q], events'[q])
        BY <1>a, <1>b DEF Update
    <2> QED
        BY <2>1 DEF StoryInv, Story, Told
\* A step that emits an event.
<1>c. ASSUME NEW r \in Requests, NEW c, Update(r, c), NEW kind, Emit(r, kind),
             Story(c, Append(events[r], kind))
      PROVE  StoryInv'
    <2>1. ASSUME NEW q \in Requests
          PROVE  Story(calls'[q], events'[q])
        BY <1>a, <1>c DEF Update, Emit
    <2> QED
        BY <2>1 DEF StoryInv, Story, Told
<1>d. \A q \in Requests :
          /\ \A outcome : Ended(calls[q], outcome).pc = "done"
                          /\ Ended(calls[q], outcome).outcome = outcome
          /\ Skip(calls[q]).pc = "walk" /\ Skip(calls[q]).outcome = calls[q].outcome
          /\ \A w : /\ [Skip(calls[q]) EXCEPT !.wait = w].pc = "walk"
                    /\ [Skip(calls[q]) EXCEPT !.wait = w].outcome = calls[q].outcome
                    /\ [Skip(calls[q]) EXCEPT !.err = w].pc = "walk"
                    /\ [Skip(calls[q]) EXCEPT !.err = w].outcome = calls[q].outcome
          /\ Walk(calls[q]).pc = "walk" /\ Walk(calls[q]).outcome = calls[q].outcome
    BY <1>a DEF Ended, Skip, Walk, Calls
\* Between the first event and the answer of a provider, nothing changes.
<1>e. ASSUME NEW r \in Requests, calls[r].pc \in {"walk", "floor", "attempt", "nap"},
             NEW c, c.pc \in {"walk", "floor", "attempt", "nap"}, c.outcome = calls[r].outcome
      PROVE  Story(c, events[r])
    BY <1>a, <1>e DEF Story, Kinds
\* A request that is dropped or blocked ends where it is.
<1>f. ASSUME NEW r \in Requests, NEW c, c.pc = "done", c.outcome \in {"blocked", "dropped"}
      PROVE  Story(c, events[r])
    BY <1>a, <1>f DEF Story, Kinds
\* One that ends by itself says so last.
<1>g. ASSUME NEW r \in Requests, calls[r].pc \in {"walk", "stream", "voices"}, NEW c, c.pc = "done",
             NEW kind \in Terminal, Emit(r, kind), kind = "Completed" => calls[r].pc \in Kinds
      PROVE  Story(c, Append(events[r], kind))
    <2>1. Told(Append(events[r], kind))
        BY <1>a, <1>g, Continued DEF Story, Kinds, Terminal, EventKinds
    <2>a. events[r] \in Seq(EventKinds) /\ kind \in EventKinds
        BY <1>a DEF Terminal, EventKinds
    <2>2. /\ Append(events[r], kind) # <<>>
          /\ Append(events[r], kind)[Len(Append(events[r], kind))] = kind
        BY <2>a, Appended
    <2> QED
        BY <1>g, <2>1, <2>2 DEF Story, Kinds, Terminal
<1>1. ASSUME NEW r \in Requests, NEW chain \in Chains, NEW kind \in Kinds, Arrive(r, chain, kind)
      PROVE  StoryInv'
    <2> DEFINE c == [NewCall EXCEPT !.pc = "screening", !.kind = kind, !.chain = chain,
                                  !.now = clock]
    <2>1. c.pc = "screening" /\ c.outcome = "none"
        BY DEF NewCall
    <2>2. Update(r, c) /\ events' = events /\ calls[r].pc = "idle"
        BY <1>1 DEF Arrive
    <2> HIDE DEF c
    <2>3. Story(c, events[r])
        BY <1>a, <2>1, <2>2 DEF Story, Kinds
    <2> QED
        BY <1>b, <2>2, <2>3
<1>2. ASSUME NEW r \in Requests, Block(r) \/ Disconnect(r)
      PROVE  StoryInv'
    BY <1>2, <1>b, <1>d, <1>f DEF Block, Disconnect
<1>3. ASSUME NEW r \in Requests, Start(r)
      PROVE  StoryInv'
    <2> DEFINE log == Append(events[r], "Started")
    <2>1. events[r] = <<>> /\ calls[r].outcome = "none"
        BY <1>3, <1>a DEF Start, Story
    <2>2. Len(log) = 1 /\ log[1] = "Started" /\ log # <<>>
        BY <2>1
    <2>3. Told(log)
        BY <2>2 DEF Told, Terminal
    <2> HIDE DEF log
    <2>4. Story(Walk(calls[r]), log)
        BY <1>d, <2>1, <2>2, <2>3 DEF Story, Kinds, Terminal
    <2> QED
        BY <1>3, <1>c, <2>4 DEF Start, log
<1>4. ASSUME NEW r \in Requests,
             SkipCooled(r) \/ SkipUnregistered(r) \/ PermitsExhausted(r) \/ FloorExhausted(r)
                 \/ OpUnsupported(r) \/ Wake(r)
      PROVE  StoryInv'
    <2>1. calls[r].pc \in {"walk", "floor", "attempt", "nap"} /\ events' = events
        BY <1>4
        DEF SkipCooled, SkipUnregistered, PermitsExhausted, FloorExhausted, OpUnsupported, Wake,
            Facing
    <2>2. calls' = [calls EXCEPT ![r] = calls'[r]] /\ calls'[r].pc = "walk"
          /\ calls'[r].outcome = calls[r].outcome
        <3>1. CASE SkipCooled(r)
            BY <1>a, <3>1 DEF SkipCooled, Update, Skip, Calls
        <3>2. CASE SkipUnregistered(r)
            BY <1>a, <3>2 DEF SkipUnregistered, Update, Skip, Calls
        <3>3. CASE PermitsExhausted(r)
            BY <1>a, <3>3 DEF PermitsExhausted, Update, Skip, Calls
        <3>4. CASE FloorExhausted(r)
            BY <1>a, <3>4 DEF FloorExhausted, Update, Skip, Calls
        <3>5. CASE Wake(r)
            BY <1>a, <3>5 DEF Wake, Update, Walk, Calls
        <3>6. CASE OpUnsupported(r)
            BY <1>a, <3>6 DEF OpUnsupported, Update, Skip, Calls
        <3> QED
            BY <1>4, <3>1, <3>2, <3>3, <3>4, <3>5, <3>6
    <2> QED
        BY <1>b, <1>e, <2>1, <2>2 DEF Update
<1>5. ASSUME NEW r \in Requests, AcquirePermit(r) \/ FloorHolds(r) \/ FailOpen(r) \/ Sleep(r)
      PROVE  StoryInv'
    <2>1. calls[r].pc \in {"walk", "floor"} /\ events' = events
        BY <1>5 DEF AcquirePermit, FloorHolds, FailOpen, Sleep, Saturated, Exhausted, Facing
    <2>2. calls' = [calls EXCEPT ![r] = calls'[r]] /\ calls'[r].outcome = calls[r].outcome
          /\ calls'[r].pc \in {"walk", "floor", "attempt", "nap"}
        <3>1. CASE AcquirePermit(r)
            BY <1>a, <3>1 DEF AcquirePermit, Update, Calls
        <3>2. CASE FloorHolds(r)
            BY <1>a, <3>2 DEF FloorHolds, Update, Calls
        <3>3. CASE FailOpen(r)
            BY <1>a, <3>3 DEF FailOpen, Exhausted, Update, Calls
        <3>4. CASE Sleep(r)
            BY <1>a, <3>4 DEF Sleep, Update, Calls
        <3> QED
            BY <1>5, <3>1, <3>2, <3>3, <3>4
    <2> QED
        BY <1>b, <1>e, <2>1, <2>2 DEF Update
<1>6. ASSUME NEW r \in Requests, OpOk(r)
      PROVE  StoryInv'
    <2> DEFINE c == [calls[r] EXCEPT !.pc = calls[r].kind]
               log == Append(events[r], "Routed")
    <2>1. c.pc \in Kinds /\ c.outcome = calls[r].outcome
        BY <1>a DEF Calls
    <2>2. Told(log)
        BY <1>6, <1>a, Continued DEF OpOk, Story, EventKinds
    <2>3. /\ Len(events[r]) \in Nat /\ Len(log) = Len(events[r]) + 1 /\ log[Len(log)] = "Routed"
          /\ \A n \in 1 .. Len(events[r]) : log[n] = events[r][n]
          /\ log # <<>>
        BY <1>a, Appended DEF EventKinds
    <2>4. calls[r].pc = "attempt" /\ calls[r].outcome = "none"
        BY <1>6, <1>a DEF OpOk, Story
    <2> HIDE DEF c, log
    <2>5. \A n \in 1 .. Len(log) : log[n] \notin Terminal
        BY <1>a, <2>3, <2>4 DEF Story, Terminal
    <2>6. \E n \in 1 .. Len(log) : log[n] = "Routed"
        BY <2>3
    <2>7. Story(c, log)
        BY <2>1, <2>2, <2>3, <2>4, <2>5, <2>6 DEF Story, Kinds
    <2> QED
        BY <1>6, <1>c, <2>7 DEF OpOk, c, log
<1>7. ASSUME NEW r \in Requests, OpFailed(r)
      PROVE  StoryInv'
    <2> DEFINE c == [Skip(calls[r]) EXCEPT !.err = TRUE]
               log == Append(events[r], "Health")
    <2>1. /\ calls[r].pc = "attempt" /\ calls[r].outcome = "none" /\ events[r] # <<>>
          /\ \A n \in 1 .. Len(events[r]) : events[r][n] \in {"Started", "Health"}
        BY <1>7, <1>a DEF OpFailed, Story
    <2>2. Told(log)
        BY <1>a, <2>1, Continued DEF Story, EventKinds
    <2>3. log # <<>> /\ \A n \in 1 .. Len(log) : log[n] \in {"Started", "Health"}
        BY <1>a, <2>1
    <2>4. c.pc = "walk" /\ c.outcome = "none"
        BY <1>d, <2>1
    <2> HIDE DEF c, log
    <2>5. Story(c, log)
        BY <2>2, <2>3, <2>4 DEF Story, Kinds, Terminal
    <2> QED
        BY <1>7, <1>c, <2>5 DEF OpFailed, c, log
<1>8. ASSUME NEW r \in Requests, RateLimited(r) \/ AllTargetsFailed(r)
      PROVE  StoryInv'
    BY <1>8, <1>c, <1>d, <1>g DEF RateLimited, AllTargetsFailed, Saturated, Exhausted, Terminal
<1>9. ASSUME NEW r \in Requests, StreamError(r) \/ StreamEnd(r) \/ VoicesTail(r)
      PROVE  StoryInv'
    BY <1>9, <1>c, <1>d, <1>g DEF StreamError, StreamEnd, VoicesTail, Terminal, Kinds
<1>10. ASSUME NEW r \in Requests, NEW cost \in Costs, UsageChunk(r, cost)
       PROVE  StoryInv'
    <2> DEFINE log == Append(events[r], "Usage")
    <2>1. calls[r].pc = "stream" /\ calls' = calls /\ Emit(r, "Usage")
        BY <1>10 DEF UsageChunk
    <2>2. Told(log)
        BY <1>a, <2>1, Continued DEF Story, EventKinds, Kinds
    <2>3. /\ Len(events[r]) \in Nat /\ Len(log) = Len(events[r]) + 1 /\ log[Len(log)] = "Usage"
          /\ \A n \in 1 .. Len(events[r]) : log[n] = events[r][n]
          /\ log # <<>>
        BY <1>a, Appended DEF EventKinds
    <2> HIDE DEF log
    <2>4. Story(calls[r], log)
        <3>1. /\ calls[r].outcome = "none" /\ \E n \in 1 .. Len(events[r]) : events[r][n] = "Routed"
              /\ \A n \in 1 .. Len(events[r]) : events[r][n] \notin Terminal
            BY <1>a, <2>1 DEF Story, Kinds
        <3>2. \E n \in 1 .. Len(log) : log[n] = "Routed"
            BY <2>3, <3>1
        <3>3. \A n \in 1 .. Len(log) : log[n] \notin Terminal
            BY <2>3, <3>1 DEF Terminal
        <3> QED
            BY <2>1, <2>2, <2>3, <3>1, <3>2, <3>3 DEF Story, Kinds
    <2>5. ASSUME NEW q \in Requests
          PROVE  Story(calls'[q], events'[q])
        BY <1>a, <2>1, <2>4 DEF Emit, log
    <2> QED
        BY <2>5 DEF StoryInv, Story, Told
<1>11. ASSUME NEW r \in Requests, NEW cost \in Costs, BatchTail(r, cost)
       PROVE  StoryInv'
    <2> DEFINE used == Append(events[r], "Usage")
               log == events[r] \o <<"Usage", "Completed">>
               c == Ended(calls[r], "served")
    <2>1. calls[r].pc = "batch" /\ Update(r, c) /\ events' = [events EXCEPT ![r] = log]
        BY <1>11 DEF BatchTail
    <2>2. used \in Seq(EventKinds) /\ log = Append(used, "Completed")
        BY <1>a DEF EventKinds
    <2>3. Told(used) /\ \A n \in 1 .. Len(events[r]) : events[r][n] \notin Terminal
        BY <1>a, <2>1, Continued DEF Story, EventKinds, Kinds
    <2>4. /\ Len(events[r]) \in Nat /\ Len(used) = Len(events[r]) + 1 /\ used[Len(used)] = "Usage"
          /\ \A n \in 1 .. Len(events[r]) : used[n] = events[r][n]
          /\ used # <<>>
        BY <1>a, Appended DEF EventKinds
    <2> HIDE DEF used
    <2>5. \A n \in 1 .. Len(used) : used[n] \notin Terminal
        BY <2>3, <2>4 DEF Terminal
    <2>a. \E n \in 1 .. Len(events[r]) : events[r][n] = "Routed"
        BY <1>a, <2>1 DEF Story, Kinds
    <2>b. \E n \in 1 .. Len(used) : used[n] = "Routed"
        BY <2>4, <2>a
    <2>6. Told(log)
        BY <2>2, <2>3, <2>4, <2>5, <2>b, Continued DEF EventKinds
    <2>7. log # <<>> /\ log[Len(log)] = "Completed"
        BY <2>2
    <2>8. c.pc = "done"
        BY <1>d
    <2> HIDE DEF c, log
    <2>9. Story(c, log)
        BY <2>6, <2>7, <2>8 DEF Story, Kinds, Terminal
    <2>10. ASSUME NEW q \in Requests
           PROVE  Story(calls'[q], events'[q])
        BY <1>a, <2>1, <2>9 DEF Update
    <2> QED
        BY <2>10 DEF StoryInv, Story, Told
<1>12. CASE Tick \/ UNCHANGED vars
    BY <1>12, <1>a DEF Tick, vars, StoryInv, Story, Told
<1> QED
    BY <1>1, <1>2, <1>3, <1>4, <1>5, <1>6, <1>7, <1>8, <1>9, <1>10, <1>11, <1>12
    DEF Next, EngineStep, UpstreamStep

\* For every chain, kind of request and number of requests: however a request ends, its events tell
\* one story from Started to at most one terminal event.
THEOREM EventsAreWellFormed == Spec => []EventsWellFormed
<1>1. Init => StoryInv
    BY DEF Init, NewCall, StoryInv, Story, Told, Kinds
<1>2. ShapeInv /\ StoryInv => EventsWellFormed
    <2> SUFFICES ASSUME ShapeInv, StoryInv, NEW r \in Requests
                 PROVE  /\ \A n \in 1 .. Len(events[r]) :
                              /\ events[r][n] = "Started" <=> n = 1
                              /\ events[r][n] = "Health" =>
                                    \A k \in 1 .. n : events[r][k] # "Routed"
                              /\ events[r][n] \in {"Usage", "Completed"} =>
                                    \E k \in 1 .. n : events[r][k] = "Routed"
                              /\ events[r][n] = "Routed" =>
                                    \A k \in 1 .. (n - 1) : events[r][k] # "Routed"
                              /\ events[r][n] \in Terminal =>
                                    n = Len(events[r]) /\ calls[r].pc = "done"
                        /\ calls[r].outcome \in {"served", "failed", "limited"} =>
                              events[r] # <<>> /\ events[r][Len(events[r])] \in Terminal
        BY DEF EventsWellFormed
    <2>1. Story(calls[r], events[r])
        BY DEF StoryInv
    <2> QED
        BY <2>1 DEF Story, Told
<1> QED
    BY <1>1, <1>2, ShapeInit, ShapeStep, StoryStep, PTL DEF Spec

-----------------------------------------------------------------------------
(***************************************************************************)
(* The realtime session, which the engine places as it places a request    *)
(* and server.rs then drives: RealtimeSession for every channel capacity,  *)
(* replay limit, chain and number of frames.  Between the consumer and the *)
(* upstream a frame is in the hand of one of two tasks or in one of two    *)
(* channels; the invariant says that laid end to end these hold exactly    *)
(* what was said and not yet delivered.                                    *)
(***************************************************************************)
CONSTANTS None, Targets, Capacity, MAX_REALTIME_REPLAY_BYTES, ClientEvents, Pieces,
          MaxSaid, MaxSpoken, MaxPieces
VARIABLES client, core, peer, provider, session, turn, log

RT == INSTANCE RealtimeSession

CorePcs == {"handshake", "probe", "probe_send", "pump", "pump_send", "forward", "farewell",
            "join", "open", "bridge", "turn", "ended"}
ProviderPcs == {"none", "dial", "pump", "out", "done"}
Events == {"started", "routed", "usage", "completed", "failed"}

\* The parts of the session, without what a turn is made of.
ClientTyped(c) ==
    /\ DOMAIN c = {"said", "read", "heard", "gone"}
    /\ c.said \in Nat /\ c.read \in Nat /\ c.heard \in Seq(Nat) /\ c.gone \in BOOLEAN
CoreTyped(c) ==
    /\ DOMAIN c = {"pc", "pick", "frame", "replay", "bytes"}
    /\ c.pc \in CorePcs /\ c.replay \in Seq(Nat) /\ c.bytes \in Nat
PeerTyped(p) ==
    /\ DOMAIN p = {"inbound", "outbound"}
    /\ p.inbound \in Seq(Nat) /\ p.outbound \in Seq(Nat)
ProviderTyped(p) ==
    /\ DOMAIN p = {"pc", "frame", "wrote", "spoken", "failed"}
    /\ p.pc \in ProviderPcs /\ p.wrote \in Seq(Nat)
    /\ p.spoken \in Seq({"delta", "response_done"}) /\ p.failed \in BOOLEAN
SessionTyped(s) == DOMAIN s = DOMAIN RT!NewSession /\ s.handled \in Seq(Nat)
TurnTyped(t) == DOMAIN t = DOMAIN RT!NoTurn /\ t.open \in BOOLEAN

Typed ==
    /\ ClientTyped(client) /\ CoreTyped(core) /\ PeerTyped(peer) /\ ProviderTyped(provider)
    /\ SessionTyped(session) /\ TurnTyped(turn) /\ log \in Seq(Events)

Sends == {"probe_send", "pump_send"}
Living == provider.pc \in {"dial", "pump", "out"}
Receiving == RT!Probing \/ RT!Pumping

\* Who is there, and what is still as it was.
Roles ==
    /\ core.pc = "handshake" =>
          /\ core.pick \in RT!Picks /\ provider.pc = "none" /\ client.read = 0 /\ log = <<>>
          /\ core.replay = <<>> /\ core.bytes = 0
    /\ core.pc \in {"handshake", "probe", "probe_send", "open"} =>
          client.heard = <<>> /\ session.handled = <<>>
    /\ provider.pc = "none" =>
          /\ core.pc \in {"handshake", "open", "bridge", "turn", "ended"}
          /\ provider.wrote = <<>> /\ provider.spoken = <<>> /\ client.heard = <<>>
          /\ peer.inbound = <<>> /\ peer.outbound = <<>>
    /\ RT!Bridging => provider.pc \in {"none", "done"}
    /\ core.pc \in Sends => core.frame = client.read /\ client.read > 0
    /\ core.pc = "forward" => core.frame \in Nat
    /\ provider.pc = "out" => provider.frame \in Nat

\* A Close is the last frame of its channel, and its sender's last.
NoClose(wires) == \A k \in DOMAIN wires : wires[k] # RT!Close
CloseLast(wires) == \A k \in DOMAIN wires : wires[k] = RT!Close => k = Len(wires)

Closing ==
    /\ CloseLast(peer.inbound) /\ (core.pc \notin {"join", "ended"} => NoClose(peer.inbound))
    /\ CloseLast(peer.outbound) /\ (provider.pc # "done" => NoClose(peer.outbound))
    /\ core.pc = "forward" /\ core.frame = RT!Close => peer.outbound = <<>> /\ provider.pc = "done"

\* What the consumer said, on its way to the upstream or to the bridge.
Upward ==
    /\ RT!IsPrefix(provider.wrote, RT!Upto(client.read))
    /\ Living => provider.wrote \o RT!Frames(peer.inbound) \o RT!InHand(Sends) = RT!Upto(client.read)
    /\ RT!Probing => /\ core.bytes = client.read
                     /\ RT!Overflowed \/ core.replay = RT!Upto(client.read)
    /\ RT!Bridging => session.handled \o core.replay = RT!Upto(client.read)

Pending == IF provider.pc = "out" THEN RT!Frames(<<provider.frame>>) ELSE <<>>

\* What the upstream said, on its way to the consumer.
Downward ==
    /\ RT!IsPrefix(client.heard, RT!Upto(Len(provider.spoken)))
    /\ Receiving =>
          client.heard \o RT!Frames(RT!InHand({"forward"})) \o RT!Frames(peer.outbound) \o Pending
              = RT!Upto(Len(provider.spoken))
    /\ core.pc \in {"farewell", "join"} /\ ~client.gone /\ core.frame = None =>
          client.heard = RT!Upto(Len(provider.spoken)) /\ RT!Ended
    /\ RT!Bridging => provider.spoken = <<>>

Bounds ==
    /\ client.read <= client.said
    /\ Len(peer.inbound) <= Capacity /\ Len(peer.outbound) <= Capacity
    /\ turn.open => core.pc \in {"turn", "ended"}

RealtimeInv == Typed /\ Roles /\ Closing /\ Upward /\ Downward /\ Bounds
\* The responses among the first n frames of the upstream.
Dones(spoken, n) == Cardinality({k \in 1..n : spoken[k] = "response_done"})

Bracketing ==
    /\ core.pc # "handshake" => log # <<>> /\ Head(log) = "started" /\ RT!Count(log, "started") = 1
    /\ \A k \in DOMAIN log : log[k] \in RT!Terminal <=> k = Len(log) /\ core.pc = "ended"
    /\ core.pc = "ended" /\ client.heard # <<>> =>
          RT!Ended /\ (RT!Last(log) = "failed" <=> provider.failed)

Metering ==
    /\ Dones(provider.spoken, Len(client.heard)) <= RT!Count(log, "usage")
    /\ RT!Count(log, "usage") <= Dones(provider.spoken, Len(provider.spoken))
    /\ Receiving =>
          RT!Count(log, "usage")
              = Dones(provider.spoken, Len(client.heard) + Len(RT!Frames(RT!InHand({"forward"}))))

-----------------------------------------------------------------------------
(* Frames and what is said. *)

\* What is said is a sequence of places, and one more is one more.
LEMMA UptoGrows ==
    ASSUME NEW n \in Nat
    PROVE  /\ RT!Upto(n) \in Seq(Nat) /\ Len(RT!Upto(n)) = n
           /\ RT!Upto(n + 1) = Append(RT!Upto(n), n + 1)
           /\ RT!Upto(n + 1) = RT!Upto(n) \o <<n + 1>>
           /\ RT!Upto(0) = <<>>
           /\ \A k \in DOMAIN RT!Upto(n) : RT!Upto(n)[k] = k
<1>1. ASSUME NEW m \in Nat
      PROVE  RT!Upto(m) \in Seq(Nat) /\ Len(RT!Upto(m)) = m /\ DOMAIN RT!Upto(m) = 1..m
    BY DEF RT!Upto
<1>2. RT!Upto(n + 1) = Append(RT!Upto(n), n + 1)
    BY <1>1 DEF RT!Upto
<1>3. RT!Upto(n + 1) = RT!Upto(n) \o <<n + 1>>
    <2>1. \A s \in Seq(Nat), m \in Nat : Append(s, m) = s \o <<m>>
        BY AppendIsConcat
    <2>2. RT!Upto(n) \in Seq(Nat) /\ n + 1 \in Nat
        BY <1>1
    <2> HIDE DEF RT!Upto
    <2> QED
        BY <1>2, <2>1, <2>2
<1> QED
    BY <1>1, <1>2, <1>3 DEF RT!Upto

\* Nothing said.
LEMMA UptoZero == RT!Upto(0) = <<>>
BY DEF RT!Upto

\* A prefix stays one when more is said.
LEMMA PrefixGrows ==
    ASSUME NEW s \in Seq(Nat), NEW m \in Nat, NEW n \in Nat, m <= n, RT!IsPrefix(s, RT!Upto(m))
    PROVE  RT!IsPrefix(s, RT!Upto(n))
<1>1. Len(RT!Upto(m)) = m /\ Len(RT!Upto(n)) = n /\ RT!Upto(m) \in Seq(Nat) /\ RT!Upto(n) \in Seq(Nat)
    BY UptoGrows
<1>2. Len(s) \in Nat /\ Len(s) <= m /\ SubSeq(s, 1, Len(s)) = SubSeq(RT!Upto(m), 1, Len(s))
    BY <1>1 DEF RT!IsPrefix
<1>3. SubSeq(RT!Upto(m), 1, Len(s)) = SubSeq(RT!Upto(n), 1, Len(s))
    BY <1>1, <1>2 DEF RT!Upto
<1> QED
    BY <1>1, <1>2, <1>3 DEF RT!IsPrefix

\* What comes first is a prefix.
LEMMA FirstIsPrefix ==
    ASSUME NEW s \in Seq(Nat), NEW t \in Seq(Nat), NEW n \in Nat, s \o t = RT!Upto(n)
    PROVE  RT!IsPrefix(s, RT!Upto(n))
<1>1. Len(s \o t) = Len(s) + Len(t) /\ Len(s) \in Nat /\ Len(t) \in Nat
    BY ConcatProperties
<1>2. SubSeq(s \o t, 1, Len(s)) = SubSeq(s, 1, Len(s))
    BY <1>1
<1> QED
    BY <1>1, <1>2 DEF RT!IsPrefix

\* The frames of a channel whose Close, if it has one, is its last.
LEMMA FramesFacts ==
    ASSUME NEW s \in Seq(Nat), CloseLast(s)
    PROVE  /\ RT!Frames(s) \in Seq(Nat)
           /\ NoClose(s) => RT!Frames(s) = s
           /\ NoClose(s) =>
                 \A n \in Nat : RT!Frames(Append(s, n)) = IF n = RT!Close THEN s ELSE Append(s, n)
           /\ s # <<>> /\ Head(s) = RT!Close => s = <<RT!Close>> /\ Tail(s) = <<>> /\ RT!Frames(s) = <<>>
           /\ s # <<>> /\ Head(s) # RT!Close => RT!Frames(s) = <<Head(s)>> \o RT!Frames(Tail(s))
<1> USE DEF NoClose, CloseLast
<1>1. RT!Frames(s) \in Seq(Nat)
    BY DEF RT!Frames, RT!Front
<1>2. ASSUME NoClose(s)
      PROVE  /\ RT!Frames(s) = s
             /\ \A n \in Nat : RT!Frames(Append(s, n)) = IF n = RT!Close THEN s ELSE Append(s, n)
    <2>1. RT!Frames(s) = s
        BY <1>2 DEF RT!Frames, RT!Last
    <2>2. ASSUME NEW n \in Nat
          PROVE  RT!Frames(Append(s, n)) = IF n = RT!Close THEN s ELSE Append(s, n)
        <3> DEFINE t == Append(s, n)
        <3>1. t[Len(t)] = n /\ t # <<>> /\ SubSeq(t, 1, Len(t) - 1) = s
            OBVIOUS
        <3> HIDE DEF t
        <3>2. RT!Frames(t) = IF n = RT!Close THEN s ELSE t
            BY <3>1 DEF RT!Frames, RT!Last, RT!Front
        <3> QED
            BY <3>2 DEF t
    <2> QED
        BY <2>1, <2>2
<1>3. ASSUME s # <<>>, Head(s) = RT!Close
      PROVE  s = <<RT!Close>> /\ Tail(s) = <<>> /\ RT!Frames(s) = <<>>
    <2>1. Len(s) \in Nat \ {0} /\ Head(s) = s[1] /\ 1 \in DOMAIN s
        BY <1>3
    <2>2. Len(s) = 1 /\ s[1] = RT!Close
        BY <1>3, <2>1
    <2>3. s = <<RT!Close>>
        BY <2>2, Len(<<RT!Close>>) = 1, <<RT!Close>>[1] = RT!Close, <<RT!Close>> \in Seq(Nat),
           SeqEqual
        DEF RT!Close
    <2>4. Len(Tail(s)) = 0 /\ Tail(s) \in Seq(Nat) /\ SubSeq(s, 1, 1 - 1) = <<>>
        BY <2>1, <2>2
    <2>5. Tail(s) = <<>>
        BY <2>4, EmptySeq
    <2> QED
        BY <1>3, <2>2, <2>3, <2>4, <2>5 DEF RT!Frames, RT!Last, RT!Front
<1>4. ASSUME s # <<>>, Head(s) # RT!Close
      PROVE  RT!Frames(s) = <<Head(s)>> \o RT!Frames(Tail(s))
    <2>1. s[1] # RT!Close /\ Len(s) \in Nat \ {0} /\ Head(s) = s[1]
        BY <1>4
    <2>2. Tail(s) \in Seq(Nat) /\ Len(Tail(s)) = Len(s) - 1
          /\ \A k \in 1 .. Len(s) - 1 : Tail(s)[k] = s[k + 1]
        BY <2>1
    <2>3. CASE s[Len(s)] = RT!Close
        <3>1. Len(s) > 1 /\ Tail(s) # <<>> /\ RT!Last(Tail(s)) = RT!Close
            <4>1. Len(s) # 1 /\ Len(s) \in Nat /\ Len(s) > 1
                BY <2>1, <2>3
            <4>2. Len(Tail(s)) # 0 /\ Len(Tail(s)) \in 1 .. Len(s) - 1 /\ Len(Tail(s)) + 1 = Len(s)
                BY <2>2, <4>1
            <4>3. Tail(s)[Len(Tail(s))] = s[Len(s)]
                BY <2>2, <4>2
            <4>4. Tail(s) # <<>>
                BY <4>2, Len(<<>>) = 0
            <4> QED
                BY <2>3, <4>1, <4>3, <4>4 DEF RT!Last
        <3>2. RT!Frames(s) = SubSeq(s, 1, Len(s) - 1)
            BY <2>1, <2>3 DEF RT!Frames, RT!Last, RT!Front
        <3>3. RT!Frames(Tail(s)) = SubSeq(Tail(s), 1, Len(s) - 2)
            BY <3>1, <2>2 DEF RT!Frames, RT!Front
        <3>4. SubSeq(s, 1, Len(s) - 1) = <<s[1]>> \o SubSeq(Tail(s), 1, Len(s) - 2)
            BY <2>1, <2>2, <3>1
        <3> QED
            BY <2>1, <3>2, <3>3, <3>4
    <2>4. CASE s[Len(s)] # RT!Close
        <3>1. RT!Frames(s) = s
            BY <2>1, <2>4 DEF RT!Frames, RT!Last
        <3>2. RT!Frames(Tail(s)) = Tail(s)
            BY <2>1, <2>2, <2>4 DEF RT!Frames, RT!Last
        <3>3. s = <<s[1]>> \o Tail(s)
            BY <2>1, <2>2
        <3> QED
            BY <2>1, <3>1, <3>2, <3>3
    <2> QED
        BY <2>3, <2>4
<1> QED
    BY <1>1, <1>2, <1>3, <1>4

\* What is sent last may be a Close.
LEMMA ChannelSend ==
    ASSUME NEW s \in Seq(Nat), NEW n \in Nat, NoClose(s)
    PROVE  CloseLast(Append(s, n)) /\ (n # RT!Close => NoClose(Append(s, n)))
BY DEF NoClose, CloseLast

\* How a channel keeps its Close last.
LEMMA ChannelFacts ==
    ASSUME NEW s \in Seq(Nat)
    PROVE  /\ NoClose(<<>>)
           /\ NoClose(s) => CloseLast(s)
           /\ s # <<>> /\ CloseLast(s) => CloseLast(Tail(s))
           /\ s # <<>> /\ NoClose(s) => NoClose(Tail(s)) /\ Head(s) # RT!Close
           /\ s # <<>> /\ CloseLast(s) /\ Head(s) = RT!Close => Tail(s) = <<>>
<1> USE DEF NoClose, CloseLast
<1>1. NoClose(<<>>) /\ (NoClose(s) => CloseLast(s))
    OBVIOUS
<1>3. ASSUME s # <<>>
      PROVE  Tail(s) \in Seq(Nat) /\ Len(Tail(s)) = Len(s) - 1 /\ Head(s) = s[1]
             /\ \A k \in 1 .. Len(s) - 1 : Tail(s)[k] = s[k + 1]
    BY <1>3
<1>4. ASSUME s # <<>>, CloseLast(s)
      PROVE  CloseLast(Tail(s))
    BY <1>3, <1>4
<1>5. ASSUME s # <<>>, NoClose(s)
      PROVE  NoClose(Tail(s)) /\ Head(s) # RT!Close
    BY <1>3, <1>5
<1>6. ASSUME s # <<>>, CloseLast(s), Head(s) = RT!Close
      PROVE  Tail(s) = <<>>
    BY <1>6, FramesFacts
<1> QED
    BY <1>1, <1>4, <1>5, <1>6

\* A frame alone, and none.
LEMMA FramesOfOne ==
    /\ RT!Frames(<<>>) = <<>>
    /\ \A n \in Nat : RT!Frames(<<n>>) = IF n = RT!Close THEN <<>> ELSE <<n>>
<1>1. RT!Frames(<<>>) = <<>>
    BY DEF RT!Frames
<1>2. ASSUME NEW n \in Nat
      PROVE  RT!Frames(<<n>>) = IF n = RT!Close THEN <<>> ELSE <<n>>
    <2>1. <<n>> # <<>> /\ <<n>>[1] = n /\ Len(<<n>>) = 1 /\ SubSeq(<<n>>, 1, 1 - 1) = <<>>
        OBVIOUS
    <2> QED
        BY <2>1 DEF RT!Frames, RT!Last, RT!Front
<1> QED
    BY <1>1, <1>2

\* Sequences of numbers, joined.
LEMMA Regroup ==
    ASSUME NEW s \in Seq(Nat), NEW t \in Seq(Nat), NEW u \in Seq(Nat)
    PROVE  s \o (t \o u) = (s \o t) \o u
<1> DEFINE l == s \o (t \o u)
           r == (s \o t) \o u
<1>1. l \in Seq(Nat) /\ r \in Seq(Nat) /\ Len(l) = Len(r)
    OBVIOUS
<1>2. ASSUME NEW i \in 1..Len(l)
      PROVE  l[i] = r[i]
    BY SMTT(30)
<1> HIDE DEF l, r
<1>3. l = r
    BY <1>1, <1>2, SeqEqual
<1> QED
    BY <1>3 DEF l, r

\* Joining nothing changes nothing.
LEMMA NothingJoined ==
    ASSUME NEW a \in Seq(Nat)
    PROVE  a \o <<>> = a /\ <<>> \o a = a
BY ConcatEmptySeq

\* Sequences of numbers, joined, are one.
LEMMA Joined ==
    ASSUME NEW a \in Seq(Nat), NEW b \in Seq(Nat)
    PROVE  a \o b \in Seq(Nat)
OBVIOUS

\* What is first in one part moves to the end of the part before it.
LEMMA Handed ==
    ASSUME NEW a \in Seq(Nat), NEW n \in Nat, NEW b \in Seq(Nat)
    PROVE  a \o (<<n>> \o b) = Append(a, n) \o b
<1>1. a \o <<n>> = Append(a, n) /\ <<n>> \in Seq(Nat)
    BY AppendIsConcat
<1>2. a \o (<<n>> \o b) = (a \o <<n>>) \o b
    <2> DEFINE one == <<n>>
    <2>1. one \in Seq(Nat)
        BY <1>1
    <2> HIDE DEF one
    <2>2. a \o (one \o b) = (a \o one) \o b
        BY <2>1, Regroup
    <2> QED
        BY <2>2 DEF one
<1> QED
    BY <1>1, <1>2

\* What is in hand is put down at the end of the part before.
LEMMA PutDown ==
    ASSUME NEW a \in Seq(Nat), NEW n \in Nat, NEW b \in Seq(Nat)
    PROVE  a \o b \o <<n>> = a \o Append(b, n) \o <<>>
<1>1. b \o <<n>> = Append(b, n) /\ <<n>> \in Seq(Nat) /\ Append(b, n) \in Seq(Nat)
    BY AppendIsConcat
<1>2. a \o b \o <<n>> = a \o Append(b, n)
    <2> DEFINE one == <<n>>
    <2>1. one \in Seq(Nat) /\ b \o one = Append(b, n)
        BY <1>1
    <2> HIDE DEF one
    <2>2. a \o (b \o one) = (a \o b) \o one
        BY <2>1, Regroup
    <2>3. a \o b \o one = a \o Append(b, n)
        BY <2>1, <2>2
    <2> QED
        BY <2>3 DEF one
<1>3. a \o Append(b, n) \in Seq(Nat)
    BY <1>1, Joined
<1> QED
    BY <1>2, <1>3, NothingJoined

-----------------------------------------------------------------------------
(* What a step of the session keeps. *)

\* A client event that the bridge handles is one more, and leaves the session a session.
LEMMA HandledGrows ==
    ASSUME NEW s, DOMAIN s = DOMAIN RT!NewSession, NEW n, NEW event
    PROVE  /\ DOMAIN RT!HandleEvent(s, n, event) = DOMAIN RT!NewSession
           /\ RT!HandleEvent(s, n, event).handled = Append(s.handled, n)
BY DEF RT!HandleEvent, RT!NewSession

\* Every step keeps the parts typed.
LEMMA TypedStep ==
    ASSUME Typed, Roles, [RT!Next]_RT!vars
    PROVE  Typed'
<1> USE DEF CorePcs, ProviderPcs, RT!Close
<1>a. /\ ClientTyped(client) /\ CoreTyped(core) /\ PeerTyped(peer) /\ ProviderTyped(provider)
      /\ SessionTyped(session) /\ TurnTyped(turn) /\ log \in Seq(Events)
    BY DEF Typed
<1>b. ASSUME NEW event \in Events
      PROVE  Append(log, event) \in Seq(Events)
    BY <1>a
<1>d. ASSUME NEW frame \in Nat, RT!Sent(frame)
      PROVE  PeerTyped(peer')
    <2>1. Append(peer.inbound, frame) \in Seq(Nat)
        BY <1>a DEF PeerTyped
    <2>2. peer' = peer \/ peer' = [peer EXCEPT !.inbound = Append(peer.inbound, frame)]
        BY <1>d DEF RT!Sent
    <2> QED
        BY <1>a, <2>1, <2>2 DEF PeerTyped
<1>e. ASSUME NEW n \in Nat
      PROVE  Append(client.heard, n) \in Seq(Nat) /\ Append(core.replay, n) \in Seq(Nat)
             /\ Append(peer.outbound, n) \in Seq(Nat) /\ Append(provider.wrote, n) \in Seq(Nat)
    BY <1>a DEF ClientTyped, CoreTyped, PeerTyped, ProviderTyped
<1>f. core.replay # <<>> => Head(core.replay) \in Nat /\ Tail(core.replay) \in Seq(Nat)
    BY <1>a DEF CoreTyped
<1>g. client.read + 1 \in Nat /\ core.bytes + 1 \in Nat
    BY <1>a DEF ClientTyped, CoreTyped
<1>h. /\ core.pc \in Sends => core.frame \in Nat
      /\ core.pc = "forward" => core.frame \in Nat
      /\ provider.pc = "out" => provider.frame \in Nat
    BY <1>a DEF Roles, ClientTyped
<1>c. {"started", "routed", "usage", "completed", "failed"} = Events
    BY DEF Events

<1>1. CASE RT!Say
    <2>1. ClientTyped(client')
        BY <1>1, <1>a DEF RT!Say, ClientTyped
    <2>2. UNCHANGED <<core, peer, provider, session, turn, log>>
        BY <1>1 DEF RT!Say
    <2> QED
        BY <1>a, <2>1, <2>2 DEF Typed
<1>2. CASE RT!HangUp
    <2>1. ClientTyped(client')
        BY <1>2, <1>a DEF RT!HangUp, ClientTyped
    <2>2. UNCHANGED <<core, peer, provider, session, turn, log>>
        BY <1>2 DEF RT!HangUp
    <2> QED
        BY <1>a, <2>1, <2>2 DEF Typed
<1>3. CASE RT!Handle
    <2>1. CoreTyped(core')
        BY <1>3, <1>a DEF RT!Handle, CoreTyped
    <2>2. ProviderTyped(provider')
        BY <1>3, <1>a DEF RT!Handle, ProviderTyped
    <2>3. log' \in Seq(Events)
        <3>1. log' = <<"started", "routed">> \/ log' = <<"started">>
            BY <1>3 DEF RT!Handle
        <3>2. <<"started", "routed">> \in Seq(Events) /\ <<"started">> \in Seq(Events)
            BY <1>c
        <3> QED
            BY <3>1, <3>2
    <2>4. UNCHANGED <<client, peer, session, turn>>
        BY <1>3 DEF RT!Handle
    <2> QED
        BY <1>a, <2>1, <2>2, <2>3, <2>4 DEF Typed
<1>4. CASE RT!ProbeFrame
    <2>1. ClientTyped(client')
        BY <1>4, <1>a DEF RT!ProbeFrame, ClientTyped
    <2>2. CoreTyped(core')
        <3>1. core' = [core EXCEPT !.pc = "probe_send", !.frame = client.read + 1,
                           !.bytes = core.bytes + 1, !.replay = core'.replay]
            BY <1>4, <1>a DEF RT!ProbeFrame, CoreTyped
        <3>2. core'.replay = core.replay \/ core'.replay = Append(core.replay, client.read + 1)
            BY <1>4, <1>a DEF RT!ProbeFrame, CoreTyped
        <3>3. core'.replay \in Seq(Nat)
            BY <1>a, <1>e, <1>g, <3>2 DEF CoreTyped
        <3> QED
            BY <1>a, <1>g, <3>1, <3>3 DEF CoreTyped
    <2>3. UNCHANGED <<peer, provider, session, turn, log>>
        BY <1>4 DEF RT!ProbeFrame
    <2> QED
        BY <1>a, <2>1, <2>2, <2>3 DEF Typed
<1>5. CASE RT!ProbeSend
    <2>1. PeerTyped(peer')
        BY <1>5, <1>d, <1>h DEF RT!ProbeSend, Sends
    <2>2. CoreTyped(core')
        BY <1>5, <1>a DEF RT!ProbeSend, RT!Sent, RT!Ended, CoreTyped
    <2>3. UNCHANGED <<client, provider, session, turn, log>>
        BY <1>5 DEF RT!ProbeSend
    <2> QED
        BY <1>a, <2>1, <2>2, <2>3 DEF Typed
<1>6. CASE RT!ProbeHangUp
    <2>1. CoreTyped(core')
        BY <1>6, <1>a DEF RT!ProbeHangUp, RT!End, RT!Goto, CoreTyped
    <2>2. log' \in Seq(Events)
        BY <1>6, <1>a, <1>b, <1>c DEF RT!ProbeHangUp, RT!End, RT!Goto
    <2>3. UNCHANGED <<client, peer, provider, session, turn>>
        BY <1>6 DEF RT!ProbeHangUp
    <2> QED
        BY <1>a, <2>1, <2>2, <2>3 DEF Typed
<1>7. CASE RT!ProbeEnds
    <2>1. CoreTyped(core')
        BY <1>7, <1>a DEF RT!ProbeEnds, RT!End, RT!Goto, CoreTyped
    <2>2. log' \in Seq(Events)
        BY <1>7, <1>a, <1>b, <1>c DEF RT!ProbeEnds, RT!End, RT!Goto
    <2>3. UNCHANGED <<client, peer, provider, session, turn>>
        BY <1>7 DEF RT!ProbeEnds
    <2> QED
        BY <1>a, <2>1, <2>2, <2>3 DEF Typed
<1>8. CASE RT!Receive
    <2>1. CoreTyped(core')
        BY <1>8, <1>a DEF RT!Receive, CoreTyped
    <2>2. log' \in Seq(Events)
        BY <1>8, <1>a, <1>b, <1>c DEF RT!Receive
    <2>3. PeerTyped(peer')
        BY <1>8, <1>a DEF RT!Receive, PeerTyped
    <2>4. UNCHANGED <<client, provider, session, turn>>
        BY <1>8 DEF RT!Receive
    <2> QED
        BY <1>a, <2>1, <2>2, <2>3, <2>4 DEF Typed
<1>9. CASE RT!Forward
    <2>1. ClientTyped(client')
        <3>1. client' = client \/ client' = [client EXCEPT !.heard = Append(client.heard, core.frame)]
            BY <1>9 DEF RT!Forward
        <3>2. Append(client.heard, core.frame) \in Seq(Nat)
            BY <1>9, <1>e, <1>h DEF RT!Forward
        <3> QED
            BY <1>a, <3>1, <3>2 DEF ClientTyped
    <2>2. CoreTyped(core')
        BY <1>9, <1>a DEF RT!Forward, CoreTyped
    <2>3. UNCHANGED <<peer, provider, session, turn, log>>
        BY <1>9 DEF RT!Forward
    <2> QED
        BY <1>a, <2>1, <2>2, <2>3 DEF Typed
<1>10. CASE RT!PumpFrame
    <2>1. ClientTyped(client')
        BY <1>10, <1>a DEF RT!PumpFrame, ClientTyped
    <2>2. CoreTyped(core')
        BY <1>10, <1>a DEF RT!PumpFrame, CoreTyped
    <2>3. UNCHANGED <<peer, provider, session, turn, log>>
        BY <1>10 DEF RT!PumpFrame
    <2> QED
        BY <1>a, <2>1, <2>2, <2>3 DEF Typed
<1>11. CASE RT!PumpSend
    <2>1. PeerTyped(peer')
        BY <1>11, <1>d, <1>h DEF RT!PumpSend, Sends
    <2>2. CoreTyped(core')
        BY <1>11, <1>a DEF RT!PumpSend, RT!Sent, RT!Ended, CoreTyped
    <2>3. UNCHANGED <<client, provider, session, turn, log>>
        BY <1>11 DEF RT!PumpSend
    <2> QED
        BY <1>a, <2>1, <2>2, <2>3 DEF Typed
<1>12. CASE RT!PumpEnds
    <2>1. CoreTyped(core')
        BY <1>12, <1>a DEF RT!PumpEnds, RT!Goto, CoreTyped
    <2>2. UNCHANGED <<client, peer, provider, session, turn, log>>
        BY <1>12 DEF RT!PumpEnds
    <2> QED
        BY <1>a, <2>1, <2>2 DEF Typed
<1>13. CASE RT!Farewell
    <2>1. PeerTyped(peer')
        BY <1>13, <1>d DEF RT!Farewell
    <2>2. CoreTyped(core')
        BY <1>13, <1>a DEF RT!Farewell, RT!Sent, RT!Ended, RT!Goto, CoreTyped
    <2>3. UNCHANGED <<client, provider, session, turn, log>>
        BY <1>13 DEF RT!Farewell
    <2> QED
        BY <1>a, <2>1, <2>2, <2>3 DEF Typed
<1>14. CASE RT!Join
    <2>1. CoreTyped(core')
        BY <1>14, <1>a DEF RT!Join, RT!End, RT!Goto, CoreTyped
    <2>2. log' \in Seq(Events)
        BY <1>14, <1>a, <1>b, <1>c DEF RT!Join, RT!End, RT!Goto
    <2>3. UNCHANGED <<client, peer, provider, session, turn>>
        BY <1>14 DEF RT!Join
    <2> QED
        BY <1>a, <2>1, <2>2, <2>3 DEF Typed
<1>15. CASE RT!BridgeOpens
    <2>1. CoreTyped(core')
        BY <1>15, <1>a DEF RT!BridgeOpens, RT!SendFails, RT!End, RT!Goto, CoreTyped
    <2>2. log' \in Seq(Events)
        BY <1>15, <1>a, <1>b, <1>c DEF RT!BridgeOpens, RT!SendFails, RT!End, RT!Goto
    <2>3. UNCHANGED <<client, peer, provider, session, turn>>
        BY <1>15 DEF RT!BridgeOpens, RT!SendFails
    <2> QED
        BY <1>a, <2>1, <2>2, <2>3 DEF Typed
<1>16. CASE RT!BridgeFrame
    <2>1. ClientTyped(client')
        BY <1>16, <1>a
        DEF RT!BridgeFrame, RT!Replaying, RT!Next1, RT!Read, RT!BridgeTo, ClientTyped
    <2>2. CoreTyped(core')
        <3>1. PICK pc \in {"bridge", "turn", "ended"} : RT!BridgeTo(pc)
            BY <1>16 DEF RT!BridgeFrame
        <3>2. core'.replay \in Seq(Nat)
            BY <1>a, <1>f, <3>1 DEF RT!BridgeTo, RT!Replaying, CoreTyped
        <3>3. /\ DOMAIN core' = {"pc", "pick", "frame", "replay", "bytes"}
              /\ core'.pc = pc /\ core'.bytes = core.bytes
            BY <3>1, <1>a DEF RT!BridgeTo, CoreTyped
        <3> QED
            BY <1>a, <3>2, <3>3 DEF CoreTyped
    <2>3. SessionTyped(session')
        <3>1. PICK event \in ClientEvents : session' = RT!HandleEvent(session, RT!Next1, event)
            BY <1>16 DEF RT!BridgeFrame
        <3>2. RT!Next1 \in Nat
            BY <1>a DEF RT!Next1, RT!Replaying, ClientTyped, CoreTyped
        <3>3. DOMAIN session = DOMAIN RT!NewSession /\ session.handled \in Seq(Nat)
            BY <1>a DEF SessionTyped
        <3>4. Append(session.handled, RT!Next1) \in Seq(Nat)
            BY <3>2, <3>3
        <3> QED
            BY <3>1, <3>3, <3>4, HandledGrows DEF SessionTyped
    <2>4. TurnTyped(turn')
        BY <1>16, <1>a
        DEF RT!BridgeFrame, RT!Replaying, RT!Next1, RT!Read, RT!BridgeTo, TurnTyped, RT!NoTurn
    <2>5. log' \in Seq(Events)
        BY <1>16, <1>a, <1>b, <1>c
        DEF RT!BridgeFrame, RT!Replaying, RT!Next1, RT!Read, RT!BridgeTo
    <2>6. UNCHANGED <<peer, provider>>
        BY <1>16 DEF RT!BridgeFrame
    <2> QED
        BY <1>a, <2>1, <2>2, <2>3, <2>4, <2>5, <2>6 DEF Typed
<1>17. CASE RT!BridgeHangUp
    <2>1. CoreTyped(core')
        BY <1>17, <1>a DEF RT!BridgeHangUp, RT!End, RT!Goto, CoreTyped
    <2>2. log' \in Seq(Events)
        BY <1>17, <1>a, <1>b, <1>c DEF RT!BridgeHangUp, RT!End, RT!Goto
    <2>3. UNCHANGED <<client, peer, provider, session, turn>>
        BY <1>17 DEF RT!BridgeHangUp
    <2> QED
        BY <1>a, <2>1, <2>2, <2>3 DEF Typed
<1>18. CASE RT!TurnRefused
    <2>1. TurnTyped(turn')
        BY <1>18, <1>a DEF RT!TurnRefused, RT!Goto, TurnTyped, RT!NoTurn
    <2>2. CoreTyped(core')
        BY <1>18, <1>a DEF RT!TurnRefused, RT!Goto, CoreTyped
    <2>3. UNCHANGED <<client, peer, provider, session, log>>
        BY <1>18 DEF RT!TurnRefused
    <2> QED
        BY <1>a, <2>1, <2>2, <2>3 DEF Typed
<1>19. CASE RT!TurnChunk
    <2>1. TurnTyped(turn')
        BY <1>19, <1>a DEF RT!TurnChunk, RT!SendFails, RT!End, RT!Goto, TurnTyped, RT!NoTurn
    <2>2. CoreTyped(core')
        BY <1>19, <1>a DEF RT!TurnChunk, RT!SendFails, RT!End, RT!Goto, CoreTyped
    <2>3. log' \in Seq(Events)
        BY <1>19, <1>a, <1>b, <1>c DEF RT!TurnChunk, RT!SendFails, RT!End, RT!Goto
    <2>4. UNCHANGED <<client, peer, provider, session>>
        BY <1>19 DEF RT!TurnChunk, RT!SendFails
    <2> QED
        BY <1>a, <2>1, <2>2, <2>3, <2>4 DEF Typed
<1>20. CASE RT!TurnEnds
    <2>1. TurnTyped(turn')
        BY <1>20, <1>a DEF RT!TurnEnds, RT!SendFails, RT!End, RT!Goto, TurnTyped, RT!NoTurn
    <2>2. SessionTyped(session')
        BY <1>20, <1>a DEF RT!TurnEnds, RT!SendFails, RT!End, RT!Goto, SessionTyped, RT!NewSession
    <2>3. CoreTyped(core')
        BY <1>20, <1>a DEF RT!TurnEnds, RT!SendFails, RT!End, RT!Goto, CoreTyped
    <2>4. log' \in Seq(Events)
        BY <1>20, <1>a, <1>b, <1>c DEF RT!TurnEnds, RT!SendFails, RT!End, RT!Goto
    <2>5. UNCHANGED <<client, peer, provider>>
        BY <1>20 DEF RT!TurnEnds, RT!SendFails
    <2> QED
        BY <1>a, <2>1, <2>2, <2>3, <2>4, <2>5 DEF Typed
<1>21. CASE RT!Dial
    <2>1. ProviderTyped(provider')
        BY <1>21, <1>a DEF RT!Dial, RT!Return, ProviderTyped
    <2>2. UNCHANGED <<client, core, peer, session, turn, log>>
        BY <1>21 DEF RT!Dial
    <2> QED
        BY <1>a, <2>1, <2>2 DEF Typed
<1>22. CASE RT!TakeInbound
    <2>1. PeerTyped(peer')
        BY <1>22, <1>a DEF RT!TakeInbound, RT!Return, PeerTyped
    <2>2. ProviderTyped(provider')
        <3>1. Head(peer.inbound) \in Nat
            BY <1>22, <1>a DEF RT!TakeInbound, PeerTyped
        <3>2. \/ provider' = [provider EXCEPT !.wrote = Append(provider.wrote, Head(peer.inbound))]
              \/ RT!Return(FALSE)
            BY <1>22 DEF RT!TakeInbound
        <3>3. Append(provider.wrote, Head(peer.inbound)) \in Seq(Nat)
            BY <1>e, <3>1
        <3> QED
            BY <1>a, <3>2, <3>3 DEF ProviderTyped, RT!Return
    <2>3. UNCHANGED <<client, core, session, turn, log>>
        BY <1>22 DEF RT!TakeInbound
    <2> QED
        BY <1>a, <2>1, <2>2, <2>3 DEF Typed
<1>23. CASE RT!InboundDropped
    <2>1. ProviderTyped(provider')
        BY <1>23, <1>a DEF RT!InboundDropped, RT!Return, ProviderTyped
    <2>2. UNCHANGED <<client, core, peer, session, turn, log>>
        BY <1>23 DEF RT!InboundDropped
    <2> QED
        BY <1>a, <2>1, <2>2 DEF Typed
<1>24. CASE RT!UpstreamSpeaks
    <2>1. ProviderTyped(provider')
        BY <1>24, <1>a DEF RT!UpstreamSpeaks, ProviderTyped
    <2>2. UNCHANGED <<client, core, peer, session, turn, log>>
        BY <1>24 DEF RT!UpstreamSpeaks
    <2> QED
        BY <1>a, <2>1, <2>2 DEF Typed
<1>25. CASE RT!UpstreamCloses
    <2>1. ProviderTyped(provider')
        BY <1>25, <1>a DEF RT!UpstreamCloses, ProviderTyped
    <2>2. UNCHANGED <<client, core, peer, session, turn, log>>
        BY <1>25 DEF RT!UpstreamCloses
    <2> QED
        BY <1>a, <2>1, <2>2 DEF Typed
<1>26. CASE RT!UpstreamFails
    <2>1. ProviderTyped(provider')
        BY <1>26, <1>a DEF RT!UpstreamFails, RT!Return, ProviderTyped
    <2>2. UNCHANGED <<client, core, peer, session, turn, log>>
        BY <1>26 DEF RT!UpstreamFails
    <2> QED
        BY <1>a, <2>1, <2>2 DEF Typed
<1>27. CASE RT!PutOutbound
    <2>1. PeerTyped(peer')
        <3>1. peer' = peer \/ peer' = [peer EXCEPT !.outbound = Append(peer.outbound, provider.frame)]
            BY <1>27 DEF RT!PutOutbound
        <3>2. Append(peer.outbound, provider.frame) \in Seq(Nat)
            BY <1>27, <1>e, <1>h DEF RT!PutOutbound
        <3> QED
            BY <1>a, <3>1, <3>2 DEF PeerTyped
    <2>2. ProviderTyped(provider')
        BY <1>27, <1>a DEF RT!PutOutbound, RT!Return, ProviderTyped
    <2>3. UNCHANGED <<client, core, session, turn, log>>
        BY <1>27 DEF RT!PutOutbound
    <2> QED
        BY <1>a, <2>1, <2>2, <2>3 DEF Typed
<1>28. CASE UNCHANGED RT!vars
    BY <1>28, <1>a DEF RT!vars, Typed
<1> QED
    BY <1>1, <1>2, <1>3, <1>4, <1>5, <1>6, <1>7, <1>8, <1>9, <1>10, <1>11, <1>12, <1>13, <1>14,
       <1>15, <1>16, <1>17, <1>18, <1>19, <1>20, <1>21, <1>22, <1>23, <1>24, <1>25, <1>26, <1>27,
       <1>28
    DEF RT!Next, RT!Core, RT!Native, RT!Bridge, RT!Provider, RT!Obliging

-----------------------------------------------------------------------------
(* What each step does, field by field. *)

\* Say: one frame more.
LEMMA SayFields ==
    ASSUME Typed, RT!Say
    PROVE  /\ core.pc \notin {"handshake", "ended"}
           /\ client'.said = client.said + 1
           /\ client'.read = client.read /\ client'.heard = client.heard /\ client'.gone = client.gone
           /\ core' = core /\ peer' = peer /\ provider' = provider /\ session' = session
           /\ turn' = turn /\ log' = log
BY DEF Typed, ClientTyped, RT!Say

\* HangUp: the consumer is gone.
LEMMA HangUpFields ==
    ASSUME Typed, RT!HangUp
    PROVE  /\ core.pc \notin {"handshake", "ended"}
           /\ client'.gone = TRUE
           /\ client'.said = client.said /\ client'.read = client.read /\ client'.heard = client.heard
           /\ core' = core /\ peer' = peer /\ provider' = provider /\ session' = session
           /\ turn' = turn /\ log' = log
BY DEF Typed, ClientTyped, RT!HangUp

\* Handle: a native target is dialled, or the bridge is opened.
LEMMA HandleFields ==
    ASSUME Typed, RT!Handle
    PROVE  /\ core.pc = "handshake"
           /\ core'.pc = IF RT!RealtimeTarget(core.pick) # None THEN "probe" ELSE "open"
           /\ core'.pick = None
           /\ provider'.pc = IF RT!RealtimeTarget(core.pick) # None THEN "dial" ELSE provider.pc
           /\ log' = IF RT!RealtimeTarget(core.pick) # None THEN <<"started", "routed">> ELSE <<"started">>
           /\ core'.frame = core.frame /\ core'.replay = core.replay /\ core'.bytes = core.bytes
           /\ provider'.frame = provider.frame /\ provider'.wrote = provider.wrote /\ provider'.spoken = provider.spoken
           /\ provider'.failed = provider.failed
           /\ client' = client /\ peer' = peer /\ session' = session /\ turn' = turn
BY DEF Typed, CoreTyped, ProviderTyped, RT!Handle

\* ProbeFrame: a frame is read, kept if there is room, and in hand.
LEMMA ProbeFrameFields ==
    ASSUME Typed, RT!ProbeFrame
    PROVE  /\ core.pc = "probe" /\ client.read < client.said
           /\ client'.read = client.read + 1
           /\ core'.pc = "probe_send"
           /\ core'.frame = client.read + 1
           /\ core'.bytes = core.bytes + 1
           /\ core'.replay = IF core.bytes < MAX_REALTIME_REPLAY_BYTES THEN Append(core.replay, client.read + 1)
                                 ELSE core.replay
           /\ client'.said = client.said /\ client'.heard = client.heard /\ client'.gone = client.gone
           /\ core'.pick = core.pick
           /\ peer' = peer /\ provider' = provider /\ session' = session /\ turn' = turn
           /\ log' = log
BY DEF Typed, ClientTyped, CoreTyped, RT!ProbeFrame, RT!Unread

\* ProbeSend: the frame is handed to the provider, or dropped if that is over.
LEMMA ProbeSendFields ==
    ASSUME Typed, RT!ProbeSend
    PROVE  /\ core.pc = "probe_send"
           /\ core'.pc = "probe"
           /\ core'.frame = None
           /\ \/ provider.pc = "done" /\ peer'.inbound = peer.inbound
              \/ /\ provider.pc # "done" /\ Len(peer.inbound) < Capacity
                 /\ peer'.inbound = Append(peer.inbound, core.frame)
           /\ peer'.outbound = peer.outbound /\ core'.pick = core.pick /\ core'.replay = core.replay
           /\ core'.bytes = core.bytes
           /\ client' = client /\ provider' = provider /\ session' = session /\ turn' = turn
           /\ log' = log
BY DEF Typed, PeerTyped, CoreTyped, RT!ProbeSend, RT!Sent, RT!Ended

\* ProbeHangUp: completed without a frame.
LEMMA ProbeHangUpFields ==
    ASSUME Typed, RT!ProbeHangUp
    PROVE  /\ core.pc = "probe"
           /\ core'.pc = "ended"
           /\ log' = Append(log, "completed")
           /\ core'.pick = core.pick /\ core'.frame = core.frame /\ core'.replay = core.replay
           /\ core'.bytes = core.bytes
           /\ client' = client /\ peer' = peer /\ provider' = provider /\ session' = session
           /\ turn' = turn
BY DEF Typed, CoreTyped, RT!ProbeHangUp, RT!End, RT!Goto, RT!HungUp, RT!Unread

\* ProbeEnds: the bridge takes over, or the session ends.
LEMMA ProbeEndsFields ==
    ASSUME Typed, RT!ProbeEnds
    PROVE  /\ core.pc = "probe" /\ provider.pc = "done" /\ peer.outbound = <<>>
           /\ \/ core'.pc = "ended" /\ provider.failed /\ core.bytes > MAX_REALTIME_REPLAY_BYTES /\ log' = Append(log, "failed")
              \/ core'.pc = "ended" /\ ~provider.failed /\ log' = Append(log, "completed")
              \/ core'.pc = "open" /\ ~(core.bytes > MAX_REALTIME_REPLAY_BYTES) /\ log' = log
           /\ core'.pick = core.pick /\ core'.frame = core.frame /\ core'.replay = core.replay
           /\ core'.bytes = core.bytes
           /\ client' = client /\ peer' = peer /\ provider' = provider /\ session' = session
           /\ turn' = turn
BY DEF Typed, CoreTyped, RT!ProbeEnds, RT!End, RT!Goto, RT!Ended, RT!Overflowed

\* Receive: a wire is in hand, its usage reported and the replay let go.
LEMMA ReceiveFields ==
    ASSUME Typed, RT!Receive
    PROVE  /\ core.pc \in {"probe", "pump"} /\ peer.outbound # <<>>
           /\ core'.pc = "forward"
           /\ core'.frame = Head(peer.outbound)
           /\ core'.replay = <<>>
           /\ peer'.outbound = Tail(peer.outbound)
           /\ log' = IF Head(peer.outbound) # RT!Close /\ provider.spoken[Head(peer.outbound)] = "response_done"
                       THEN Append(log, "usage") ELSE log
           /\ core'.pick = core.pick /\ core'.bytes = core.bytes /\ peer'.inbound = peer.inbound
           /\ client' = client /\ provider' = provider /\ session' = session /\ turn' = turn
BY DEF Typed, CoreTyped, PeerTyped, RT!Receive

\* Forward: the wire is sent to the consumer, or ends the session.
LEMMA ForwardFields ==
    ASSUME Typed, RT!Forward
    PROVE  /\ core.pc = "forward"
           /\ core'.frame = None
           /\ \/ core.frame # RT!Close /\ core'.pc = "pump" /\ client'.heard = Append(client.heard, core.frame)
              \/ (core.frame = RT!Close \/ client.gone) /\ core'.pc = "farewell" /\ client'.heard = client.heard
           /\ client'.said = client.said /\ client'.read = client.read /\ client'.gone = client.gone
           /\ core'.pick = core.pick /\ core'.replay = core.replay /\ core'.bytes = core.bytes
           /\ peer' = peer /\ provider' = provider /\ session' = session /\ turn' = turn
           /\ log' = log
BY DEF Typed, ClientTyped, CoreTyped, RT!Forward

\* PumpFrame: a frame is read and in hand.
LEMMA PumpFrameFields ==
    ASSUME Typed, RT!PumpFrame
    PROVE  /\ core.pc = "pump" /\ client.read < client.said
           /\ client'.read = client.read + 1
           /\ core'.pc = "pump_send"
           /\ core'.frame = client.read + 1
           /\ client'.said = client.said /\ client'.heard = client.heard /\ client'.gone = client.gone
           /\ core'.pick = core.pick /\ core'.replay = core.replay /\ core'.bytes = core.bytes
           /\ peer' = peer /\ provider' = provider /\ session' = session /\ turn' = turn
           /\ log' = log
BY DEF Typed, ClientTyped, CoreTyped, RT!PumpFrame, RT!Unread

\* PumpSend: the frame is handed to the provider, or ends the loop.
LEMMA PumpSendFields ==
    ASSUME Typed, RT!PumpSend
    PROVE  /\ core.pc = "pump_send"
           /\ \/ /\ provider.pc = "done" /\ peer'.inbound = peer.inbound
                 /\ core'.pc = "farewell" /\ core'.frame = core.frame
              \/ /\ provider.pc # "done" /\ Len(peer.inbound) < Capacity
                 /\ peer'.inbound = Append(peer.inbound, core.frame) /\ core'.pc = "pump" /\ core'.frame = None
           /\ peer'.outbound = peer.outbound /\ core'.pick = core.pick /\ core'.replay = core.replay
           /\ core'.bytes = core.bytes
           /\ client' = client /\ provider' = provider /\ session' = session /\ turn' = turn
           /\ log' = log
BY DEF Typed, PeerTyped, CoreTyped, RT!PumpSend, RT!Sent, RT!Ended

\* PumpEnds: one side is over.
LEMMA PumpEndsFields ==
    ASSUME Typed, RT!PumpEnds
    PROVE  /\ core.pc = "pump" /\ (client.gone \/ (provider.pc = "done" /\ peer.outbound = <<>>))
           /\ core'.pc = "farewell"
           /\ core'.pick = core.pick /\ core'.frame = core.frame /\ core'.replay = core.replay
           /\ core'.bytes = core.bytes
           /\ client' = client /\ peer' = peer /\ provider' = provider /\ session' = session
           /\ turn' = turn /\ log' = log
BY DEF Typed, CoreTyped, RT!PumpEnds, RT!Goto, RT!HungUp, RT!Unread, RT!Ended

\* Farewell: a Close for a provider that lives.
LEMMA FarewellFields ==
    ASSUME Typed, RT!Farewell
    PROVE  /\ core.pc = "farewell"
           /\ core'.pc = "join"
           /\ \/ provider.pc = "done" /\ peer'.inbound = peer.inbound
              \/ /\ provider.pc # "done" /\ Len(peer.inbound) < Capacity
                 /\ peer'.inbound = Append(peer.inbound, RT!Close)
           /\ peer'.outbound = peer.outbound /\ core'.pick = core.pick /\ core'.frame = core.frame
           /\ core'.replay = core.replay /\ core'.bytes = core.bytes
           /\ client' = client /\ provider' = provider /\ session' = session /\ turn' = turn
           /\ log' = log
BY DEF Typed, PeerTyped, CoreTyped, RT!Farewell, RT!Sent, RT!Ended, RT!Goto

\* Join: the session ends as the provider did.
LEMMA JoinFields ==
    ASSUME Typed, RT!Join
    PROVE  /\ core.pc = "join" /\ provider.pc = "done"
           /\ core'.pc = "ended"
           /\ log' = Append(log, IF provider.failed THEN "failed" ELSE "completed")
           /\ core'.pick = core.pick /\ core'.frame = core.frame /\ core'.replay = core.replay
           /\ core'.bytes = core.bytes
           /\ client' = client /\ peer' = peer /\ provider' = provider /\ session' = session
           /\ turn' = turn
BY DEF Typed, CoreTyped, RT!Join, RT!End, RT!Goto, RT!Ended

\* BridgeOpens: the bridge runs, or the consumer is gone.
LEMMA BridgeOpensFields ==
    ASSUME Typed, RT!BridgeOpens
    PROVE  /\ core.pc = "open"
           /\ \/ core'.pc = "bridge" /\ log' = log
              \/ core'.pc = "ended" /\ log' = Append(log, "completed")
           /\ core'.pick = core.pick /\ core'.frame = core.frame /\ core'.replay = core.replay
           /\ core'.bytes = core.bytes
           /\ client' = client /\ peer' = peer /\ provider' = provider /\ session' = session
           /\ turn' = turn
BY DEF Typed, CoreTyped, RT!BridgeOpens, RT!SendFails, RT!End, RT!Goto

\* BridgeFrame: the next frame of the replay, then of the socket, is handled.
LEMMA BridgeFrameFields ==
    ASSUME Typed, RT!BridgeFrame
    PROVE  /\ core.pc = "bridge"
           /\ \/ /\ core.replay # <<>> /\ client'.read = client.read /\ core'.replay = Tail(core.replay)
                 /\ session'.handled = Append(session.handled, Head(core.replay))
              \/ /\ core.replay = <<>> /\ client.read < client.said /\ client'.read = client.read + 1
                 /\ core'.replay = core.replay /\ session'.handled = Append(session.handled, client.read + 1)
           /\ \/ core'.pc = "bridge" /\ turn'.open = turn.open /\ log' = log
              \/ core'.pc = "turn" /\ turn'.open = TRUE /\ log' = log
              \/ core'.pc = "ended" /\ turn'.open = turn.open /\ log' = Append(log, "completed")
           /\ client'.said = client.said /\ client'.heard = client.heard /\ client'.gone = client.gone
           /\ core'.pick = core.pick /\ core'.frame = core.frame /\ core'.bytes = core.bytes
           /\ peer' = peer /\ provider' = provider
<1>1. /\ DOMAIN core = {"pc", "pick", "frame", "replay", "bytes"} /\ DOMAIN turn = DOMAIN RT!NoTurn
      /\ DOMAIN session = DOMAIN RT!NewSession /\ DOMAIN client = {"said", "read", "heard", "gone"}
    BY DEF Typed, CoreTyped, TurnTyped, SessionTyped, ClientTyped
<1>2. PICK event \in ClientEvents : session' = RT!HandleEvent(session, RT!Next1, event)
    BY DEF RT!BridgeFrame
<1>3. PICK pc \in {"bridge", "turn", "ended"} :
          /\ RT!BridgeTo(pc)
          /\ \/ pc = "bridge" /\ UNCHANGED <<turn, log>>
             \/ pc = "turn" /\ turn'.open = TRUE /\ UNCHANGED log
             \/ pc = "ended" /\ log' = Append(log, "completed") /\ UNCHANGED turn
    BY DEF RT!BridgeFrame, RT!NoTurn
<1>4. session'.handled = Append(session.handled, RT!Next1)
    BY <1>1, <1>2, HandledGrows
<1>5. core'.pc = pc /\ UNCHANGED <<core.pick, core.frame, core.bytes, peer, provider>>
      /\ core.pc = "bridge"
    BY <1>1, <1>3 DEF RT!BridgeFrame, RT!BridgeTo
<1>6. UNCHANGED <<client.said, client.heard, client.gone>>
    BY <1>1 DEF RT!BridgeFrame, RT!Read
<1>7. \/ core'.pc = "bridge" /\ turn'.open = turn.open /\ log' = log
      \/ core'.pc = "turn" /\ turn'.open = TRUE /\ log' = log
      \/ core'.pc = "ended" /\ turn'.open = turn.open /\ log' = Append(log, "completed")
    BY <1>3, <1>5
<1>8. CASE core.replay # <<>>
    <2>1. client'.read = client.read /\ core'.replay = Tail(core.replay) /\ RT!Next1 = Head(core.replay)
        BY <1>1, <1>3, <1>8 DEF RT!BridgeFrame, RT!Read, RT!BridgeTo, RT!Next1, RT!Replaying
    <2> QED
        BY <1>4, <1>5, <1>6, <1>8, <1>7, <2>1
<1>9. CASE core.replay = <<>>
    <2>1. /\ client.read < client.said /\ client'.read = client.read + 1
          /\ core'.replay = core.replay /\ RT!Next1 = client.read + 1
        BY <1>1, <1>3, <1>9
        DEF RT!BridgeFrame, RT!Read, RT!BridgeTo, RT!Next1, RT!Replaying, RT!Unread
    <2> QED
        BY <1>4, <1>5, <1>6, <1>9, <1>7, <2>1
<1> QED
    BY <1>8, <1>9

\* BridgeHangUp: completed.
LEMMA BridgeHangUpFields ==
    ASSUME Typed, RT!BridgeHangUp
    PROVE  /\ core.pc = "bridge"
           /\ core'.pc = "ended"
           /\ log' = Append(log, "completed")
           /\ core'.pick = core.pick /\ core'.frame = core.frame /\ core'.replay = core.replay
           /\ core'.bytes = core.bytes
           /\ client' = client /\ peer' = peer /\ provider' = provider /\ session' = session
           /\ turn' = turn
BY DEF Typed, CoreTyped, RT!BridgeHangUp, RT!End, RT!Goto, RT!Replaying, RT!HungUp, RT!Unread

\* TurnRefused: the turn is over.
LEMMA TurnRefusedFields ==
    ASSUME Typed, RT!TurnRefused
    PROVE  /\ core.pc = "turn"
           /\ core'.pc = "bridge"
           /\ turn'.open = FALSE
           /\ core'.pick = core.pick /\ core'.frame = core.frame /\ core'.replay = core.replay
           /\ core'.bytes = core.bytes
           /\ client' = client /\ peer' = peer /\ provider' = provider /\ session' = session
           /\ log' = log
BY DEF Typed, TurnTyped, CoreTyped, RT!TurnRefused, RT!Goto, RT!NoTurn, RT!NewSession,
       SessionTyped

\* TurnChunk: only the turn goes on, or the consumer is gone.
LEMMA TurnChunkFields ==
    ASSUME Typed, RT!TurnChunk
    PROVE  /\ core.pc = "turn"
           /\ \/ core'.pc = "turn" /\ log' = log
              \/ core'.pc = "ended" /\ log' = Append(log, "completed")
           /\ turn'.open = turn.open /\ core'.pick = core.pick /\ core'.frame = core.frame
           /\ core'.replay = core.replay /\ core'.bytes = core.bytes
           /\ client' = client /\ peer' = peer /\ provider' = provider /\ session' = session
BY DEF Typed, TurnTyped, CoreTyped, RT!TurnChunk, RT!SendFails, RT!End, RT!Goto, RT!NoTurn,
       RT!NewSession, SessionTyped

\* TurnEnds: the turn is over, or the consumer is gone.
LEMMA TurnEndsFields ==
    ASSUME Typed, RT!TurnEnds
    PROVE  /\ core.pc = "turn"
           /\ \/ core'.pc = "bridge" /\ turn'.open = FALSE /\ log' = log
              \/ core'.pc = "ended" /\ turn'.open = turn.open /\ log' = Append(log, "completed")
           /\ session'.handled = session.handled /\ core'.pick = core.pick /\ core'.frame = core.frame
           /\ core'.replay = core.replay /\ core'.bytes = core.bytes
           /\ client' = client /\ peer' = peer /\ provider' = provider
BY DEF Typed, TurnTyped, SessionTyped, CoreTyped, RT!TurnEnds, RT!SendFails, RT!End, RT!Goto,
       RT!NoTurn, RT!NewSession

\* Dial: the upstream is there or not.
LEMMA DialFields ==
    ASSUME Typed, RT!Dial
    PROVE  /\ provider.pc = "dial"
           /\ provider'.pc \in {"pump", "done"}
           /\ provider'.frame \in {provider.frame, None}
           /\ provider'.failed \in BOOLEAN
           /\ provider'.wrote = provider.wrote /\ provider'.spoken = provider.spoken
           /\ client' = client /\ core' = core /\ peer' = peer /\ session' = session
           /\ turn' = turn /\ log' = log
BY DEF Typed, ProviderTyped, RT!Dial, RT!Return

\* TakeInbound: a frame is written upstream, or the provider ends.
LEMMA TakeInboundFields ==
    ASSUME Typed, RT!TakeInbound
    PROVE  /\ provider.pc = "pump" /\ peer.inbound # <<>>
           /\ peer'.inbound = Tail(peer.inbound)
           /\ \/ /\ Head(peer.inbound) # RT!Close /\ provider'.wrote = Append(provider.wrote, Head(peer.inbound))
                 /\ provider'.pc = provider.pc
              \/ provider'.pc = "done" /\ provider'.wrote = provider.wrote
           /\ peer'.outbound = peer.outbound /\ provider'.spoken = provider.spoken
           /\ client' = client /\ core' = core /\ session' = session /\ turn' = turn
           /\ log' = log
BY DEF Typed, PeerTyped, ProviderTyped, RT!TakeInbound, RT!Return

\* InboundDropped: the provider ends.
LEMMA InboundDroppedFields ==
    ASSUME Typed, RT!InboundDropped
    PROVE  /\ provider.pc = "pump"
           /\ provider'.pc = "done"
           /\ provider'.wrote = provider.wrote /\ provider'.spoken = provider.spoken
           /\ client' = client /\ core' = core /\ peer' = peer /\ session' = session
           /\ turn' = turn /\ log' = log
BY DEF Typed, ProviderTyped, RT!InboundDropped, RT!Return

\* UpstreamSpeaks: one frame more, in the provider's hand.
LEMMA UpstreamSpeaksFields ==
    ASSUME Typed, RT!UpstreamSpeaks
    PROVE  /\ provider.pc = "pump"
           /\ provider'.pc = "out"
           /\ provider'.frame = Len(provider.spoken) + 1
           /\ \E frame \in {"delta", "response_done"} : provider'.spoken = Append(provider.spoken, frame)
           /\ provider'.wrote = provider.wrote /\ provider'.failed = provider.failed
           /\ client' = client /\ core' = core /\ peer' = peer /\ session' = session
           /\ turn' = turn /\ log' = log
BY DEF Typed, ProviderTyped, RT!UpstreamSpeaks

\* UpstreamCloses: a Close, in the provider's hand.
LEMMA UpstreamClosesFields ==
    ASSUME Typed, RT!UpstreamCloses
    PROVE  /\ provider.pc = "pump"
           /\ provider'.pc = "out"
           /\ provider'.frame = RT!Close
           /\ provider'.wrote = provider.wrote /\ provider'.spoken = provider.spoken /\ provider'.failed = provider.failed
           /\ client' = client /\ core' = core /\ peer' = peer /\ session' = session
           /\ turn' = turn /\ log' = log
BY DEF Typed, ProviderTyped, RT!UpstreamCloses

\* UpstreamFails: the provider ends.
LEMMA UpstreamFailsFields ==
    ASSUME Typed, RT!UpstreamFails
    PROVE  /\ provider.pc = "pump"
           /\ provider'.pc = "done"
           /\ provider'.wrote = provider.wrote /\ provider'.spoken = provider.spoken
           /\ client' = client /\ core' = core /\ peer' = peer /\ session' = session
           /\ turn' = turn /\ log' = log
BY DEF Typed, ProviderTyped, RT!UpstreamFails, RT!Return

\* PutOutbound: the frame in hand is put on the channel, or the core is gone.
LEMMA PutOutboundFields ==
    ASSUME Typed, RT!PutOutbound
    PROVE  /\ provider.pc = "out"
           /\ \/ /\ Len(peer.outbound) < Capacity /\ peer'.outbound = Append(peer.outbound, provider.frame)
                 /\ provider'.pc = IF provider.frame = RT!Close THEN "done" ELSE "pump"
              \/ core.pc = "ended" /\ peer'.outbound = peer.outbound /\ provider'.pc = "done"
           /\ peer'.inbound = peer.inbound /\ provider'.wrote = provider.wrote /\ provider'.spoken = provider.spoken
           /\ client' = client /\ core' = core /\ session' = session /\ turn' = turn
           /\ log' = log
BY DEF Typed, PeerTyped, ProviderTyped, RT!PutOutbound, RT!Return, RT!Ended

\* Every step leaves each part where the others expect it.
LEMMA RolesStep ==
    ASSUME Typed, Typed', Roles, [RT!Next]_RT!vars
    PROVE  Roles'
<1>a. /\ client.read \in Nat /\ Len(provider.spoken) \in Nat
      /\ peer.outbound # <<>> => Head(peer.outbound) \in Nat
    BY SMTT(30) DEF Typed, ClientTyped, ProviderTyped, PeerTyped
<1>1. CASE RT!Say
    BY <1>1, SayFields DEF Roles, RT!Bridging, Sends, RT!Picks
<1>2. CASE RT!HangUp
    BY <1>2, HangUpFields DEF Roles, RT!Bridging, Sends, RT!Picks
<1>3. CASE RT!Handle
    BY <1>3, HandleFields, <1>a DEF Roles, RT!Bridging, Sends, RT!Picks
<1>4. CASE RT!ProbeFrame
    BY <1>4, ProbeFrameFields, <1>a DEF Roles, RT!Bridging, Sends, RT!Picks
<1>5. CASE RT!ProbeSend
    BY <1>5, ProbeSendFields DEF Roles, RT!Bridging, Sends, RT!Picks
<1>6. CASE RT!ProbeHangUp
    BY <1>6, ProbeHangUpFields DEF Roles, RT!Bridging, Sends, RT!Picks
<1>7. CASE RT!ProbeEnds
    BY <1>7, ProbeEndsFields DEF Roles, RT!Bridging, Sends, RT!Picks
<1>8. CASE RT!Receive
    BY <1>8, ReceiveFields, <1>a DEF Roles, RT!Bridging, Sends, RT!Picks
<1>9. CASE RT!Forward
    BY <1>9, ForwardFields DEF Roles, RT!Bridging, Sends, RT!Picks
<1>10. CASE RT!PumpFrame
    BY <1>10, PumpFrameFields, <1>a DEF Roles, RT!Bridging, Sends, RT!Picks
<1>11. CASE RT!PumpSend
    BY <1>11, PumpSendFields DEF Roles, RT!Bridging, Sends, RT!Picks
<1>12. CASE RT!PumpEnds
    BY <1>12, PumpEndsFields DEF Roles, RT!Bridging, Sends, RT!Picks
<1>13. CASE RT!Farewell
    BY <1>13, FarewellFields DEF Roles, RT!Bridging, Sends, RT!Picks
<1>14. CASE RT!Join
    BY <1>14, JoinFields DEF Roles, RT!Bridging, Sends, RT!Picks
<1>15. CASE RT!BridgeOpens
    BY <1>15, BridgeOpensFields DEF Roles, RT!Bridging, Sends, RT!Picks
<1>16. CASE RT!BridgeFrame
    BY <1>16, BridgeFrameFields DEF Roles, RT!Bridging, Sends, RT!Picks
<1>17. CASE RT!BridgeHangUp
    BY <1>17, BridgeHangUpFields DEF Roles, RT!Bridging, Sends, RT!Picks
<1>18. CASE RT!TurnRefused
    BY <1>18, TurnRefusedFields DEF Roles, RT!Bridging, Sends, RT!Picks
<1>19. CASE RT!TurnChunk
    BY <1>19, TurnChunkFields DEF Roles, RT!Bridging, Sends, RT!Picks
<1>20. CASE RT!TurnEnds
    BY <1>20, TurnEndsFields DEF Roles, RT!Bridging, Sends, RT!Picks
<1>21. CASE RT!Dial
    BY <1>21, DialFields DEF Roles, RT!Bridging, Sends, RT!Picks
<1>22. CASE RT!TakeInbound
    BY <1>22, TakeInboundFields DEF Roles, RT!Bridging, Sends, RT!Picks
<1>23. CASE RT!InboundDropped
    BY <1>23, InboundDroppedFields DEF Roles, RT!Bridging, Sends, RT!Picks
<1>24. CASE RT!UpstreamSpeaks
    BY <1>24, UpstreamSpeaksFields, <1>a DEF Roles, RT!Bridging, Sends, RT!Picks
<1>25. CASE RT!UpstreamCloses
    BY <1>25, UpstreamClosesFields DEF Roles, RT!Bridging, Sends, RT!Picks, RT!Close
<1>26. CASE RT!UpstreamFails
    BY <1>26, UpstreamFailsFields DEF Roles, RT!Bridging, Sends, RT!Picks
<1>27. CASE RT!PutOutbound
    BY <1>27, PutOutboundFields DEF Roles, RT!Bridging, Sends, RT!Picks
<1>28. CASE UNCHANGED RT!vars
    BY <1>28 DEF RT!vars, Roles, RT!Bridging, Sends, RT!Picks
<1> QED
    BY <1>1, <1>2, <1>3, <1>4, <1>5, <1>6, <1>7, <1>8, <1>9, <1>10, <1>11, <1>12, <1>13, <1>14,
       <1>15, <1>16, <1>17, <1>18, <1>19, <1>20, <1>21, <1>22, <1>23, <1>24, <1>25, <1>26, <1>27,
       <1>28
    DEF RT!Next, RT!Core, RT!Native, RT!Bridge, RT!Provider, RT!Obliging

\* No step reads what was not said or overfills a channel.
LEMMA BoundsStep ==
    ASSUME Capacity \in Nat, Typed, Typed', Roles, Bounds, [RT!Next]_RT!vars
    PROVE  Bounds'
<1>a. /\ client.read \in Nat /\ client.said \in Nat
      /\ peer.inbound \in Seq(Nat) /\ peer.outbound \in Seq(Nat) /\ Capacity \in Nat
    BY DEF Typed, ClientTyped, PeerTyped
<1>b. turn.open \in BOOLEAN /\ turn'.open \in BOOLEAN
    BY DEF Typed, TurnTyped
<1>d. /\ client.read <= client.said /\ Len(peer.inbound) <= Capacity /\ Len(peer.outbound) <= Capacity
      /\ turn.open => core.pc \in {"turn", "ended"}
    BY DEF Bounds
<1>c. /\ peer.inbound # <<>> => Len(Tail(peer.inbound)) = Len(peer.inbound) - 1
      /\ peer.outbound # <<>> => Len(Tail(peer.outbound)) = Len(peer.outbound) - 1
      /\ Len(peer.inbound) \in Nat /\ Len(peer.outbound) \in Nat
    BY <1>a
<1>1. CASE RT!Say
    BY <1>1, SayFields, <1>a, <1>b DEF Bounds
<1>2. CASE RT!HangUp
    BY <1>2, HangUpFields, <1>a, <1>b DEF Bounds
<1>3. CASE RT!Handle
    BY <1>3, HandleFields, <1>a, <1>b DEF Bounds
<1>4. CASE RT!ProbeFrame
    BY <1>4, ProbeFrameFields, <1>a, <1>b DEF Bounds
<1>5. CASE RT!ProbeSend
    BY <1>5, ProbeSendFields, <1>a, <1>b DEF Bounds
<1>6. CASE RT!ProbeHangUp
    BY <1>6, ProbeHangUpFields, <1>a, <1>b DEF Bounds
<1>7. CASE RT!ProbeEnds
    BY <1>7, ProbeEndsFields, <1>a, <1>b DEF Bounds
<1>8. CASE RT!Receive
    <2>1. /\ client'.read = client.read /\ client'.said = client.said
          /\ turn' = turn /\ (core'.pc = core.pc \/ core.pc \in {"probe", "pump"})
          /\ peer.outbound # <<>> /\ peer'.outbound = Tail(peer.outbound) /\ peer'.inbound = peer.inbound
        BY <1>8, ReceiveFields
    <2>2. Len(peer'.outbound) <= Capacity
        BY <1>a, <1>c, <1>d, <2>1
    <2> QED
        BY <1>d, <2>1, <2>2 DEF Bounds
<1>9. CASE RT!Forward
    BY <1>9, ForwardFields, <1>a, <1>b DEF Bounds
<1>10. CASE RT!PumpFrame
    BY <1>10, PumpFrameFields, <1>a, <1>b DEF Bounds
<1>11. CASE RT!PumpSend
    BY <1>11, PumpSendFields, <1>a, <1>b DEF Bounds
<1>12. CASE RT!PumpEnds
    BY <1>12, PumpEndsFields, <1>a, <1>b DEF Bounds
<1>13. CASE RT!Farewell
    BY <1>13, FarewellFields, <1>a, <1>b DEF Bounds
<1>14. CASE RT!Join
    BY <1>14, JoinFields, <1>a, <1>b DEF Bounds
<1>15. CASE RT!BridgeOpens
    BY <1>15, BridgeOpensFields, <1>a, <1>b DEF Bounds
<1>16. CASE RT!BridgeFrame
    <2>1. core.pc = "bridge" /\ turn.open = FALSE /\ client'.said = client.said /\ peer' = peer
        BY <1>16, BridgeFrameFields, <1>b, <1>d
    <2>2. client'.read \in {client.read, client.read + 1} /\ (client'.read # client.read => client.read < client.said)
        BY <1>16, BridgeFrameFields
    <2>3. turn'.open => core'.pc \in {"turn", "ended"}
        BY <1>16, BridgeFrameFields, <2>1
    <2> QED
        BY <1>a, <1>d, <2>1, <2>2, <2>3 DEF Bounds
<1>17. CASE RT!BridgeHangUp
    BY <1>17, BridgeHangUpFields, <1>a, <1>b DEF Bounds
<1>18. CASE RT!TurnRefused
    BY <1>18, TurnRefusedFields, <1>a, <1>b DEF Bounds
<1>19. CASE RT!TurnChunk
    BY <1>19, TurnChunkFields, <1>a, <1>b DEF Bounds
<1>20. CASE RT!TurnEnds
    BY <1>20, TurnEndsFields, <1>a, <1>b DEF Bounds
<1>21. CASE RT!Dial
    BY <1>21, DialFields, <1>a, <1>b DEF Bounds
<1>22. CASE RT!TakeInbound
    <2>1. /\ client'.read = client.read /\ client'.said = client.said
          /\ turn' = turn /\ (core'.pc = core.pc \/ core.pc \in {"probe", "pump"})
          /\ peer.inbound # <<>> /\ peer'.inbound = Tail(peer.inbound) /\ peer'.outbound = peer.outbound
        BY <1>22, TakeInboundFields
    <2>2. Len(peer'.inbound) <= Capacity
        BY <1>a, <1>c, <1>d, <2>1
    <2> QED
        BY <1>d, <2>1, <2>2 DEF Bounds
<1>23. CASE RT!InboundDropped
    BY <1>23, InboundDroppedFields, <1>a, <1>b DEF Bounds
<1>24. CASE RT!UpstreamSpeaks
    BY <1>24, UpstreamSpeaksFields, <1>a, <1>b DEF Bounds
<1>25. CASE RT!UpstreamCloses
    BY <1>25, UpstreamClosesFields, <1>a, <1>b DEF Bounds
<1>26. CASE RT!UpstreamFails
    BY <1>26, UpstreamFailsFields, <1>a, <1>b DEF Bounds
<1>27. CASE RT!PutOutbound
    BY <1>27, PutOutboundFields, <1>a, <1>b DEF Bounds
<1>28. CASE UNCHANGED RT!vars
    BY <1>28, <1>a, <1>b DEF RT!vars, Bounds
<1> QED
    BY <1>1, <1>2, <1>3, <1>4, <1>5, <1>6, <1>7, <1>8, <1>9, <1>10, <1>11, <1>12, <1>13, <1>14,
       <1>15, <1>16, <1>17, <1>18, <1>19, <1>20, <1>21, <1>22, <1>23, <1>24, <1>25, <1>26, <1>27,
       <1>28
    DEF RT!Next, RT!Core, RT!Native, RT!Bridge, RT!Provider, RT!Obliging

\* Nothing is sent after a Close.
LEMMA ClosingStep ==
    ASSUME Typed, Typed', Roles, Closing, [RT!Next]_RT!vars
    PROVE  Closing'
<1>a. client.read \in Nat
    BY DEF Typed, ClientTyped
<1>b. peer.inbound \in Seq(Nat)
    BY DEF Typed, PeerTyped
<1>c. peer.outbound \in Seq(Nat)
    BY DEF Typed, PeerTyped
<1>d. \A s \in Seq(Nat) :
          /\ NoClose(s) => CloseLast(s)
          /\ s # <<>> /\ CloseLast(s) => CloseLast(Tail(s))
          /\ s # <<>> /\ NoClose(s) => NoClose(Tail(s)) /\ Head(s) # RT!Close
          /\ s # <<>> /\ CloseLast(s) /\ Head(s) = RT!Close => Tail(s) = <<>>
    BY ChannelFacts
<1>f. ASSUME NEW n \in Nat, NoClose(peer.inbound)
      PROVE  CloseLast(Append(peer.inbound, n)) /\ (n # RT!Close => NoClose(Append(peer.inbound, n)))
    BY <1>b, <1>f, ChannelSend
<1>g. ASSUME NEW n \in Nat, NoClose(peer.outbound)
      PROVE  CloseLast(Append(peer.outbound, n)) /\ (n # RT!Close => NoClose(Append(peer.outbound, n)))
    BY <1>c, <1>g, ChannelSend
<1>e. RT!Close \in Nat /\ \A n \in Nat : n > 0 => n # RT!Close
    BY DEF RT!Close
<1>1. CASE RT!Say
    BY <1>1, SayFields, <1>a DEF Closing
<1>2. CASE RT!HangUp
    BY <1>2, HangUpFields, <1>a DEF Closing
<1>3. CASE RT!Handle
    BY <1>3, HandleFields, <1>a, Roles DEF Closing, Roles
<1>4. CASE RT!ProbeFrame
    BY <1>4, ProbeFrameFields, <1>a DEF Closing
<1>5. CASE RT!ProbeSend
    <2>1. core.frame \in Nat /\ core.frame # RT!Close
        BY <1>5, ProbeSendFields, <1>a, <1>e, Roles DEF Roles, Sends
    <2>2. NoClose(peer.inbound) /\ CloseLast(peer.inbound)
        BY <1>5, ProbeSendFields, Closing DEF Closing
    <2>3. CloseLast(Append(peer.inbound, core.frame)) /\ NoClose(Append(peer.inbound, core.frame))
        BY <1>f, <2>1, <2>2
    <2>4. CloseLast(peer'.inbound) /\ NoClose(peer'.inbound)
        BY <1>5, ProbeSendFields, <2>2, <2>3
    <2>5. peer'.outbound = peer.outbound /\ provider' = provider /\ core'.pc # "forward"
        BY <1>5, ProbeSendFields
    <2> QED
        BY Closing, <2>4, <2>5 DEF Closing
<1>6. CASE RT!ProbeHangUp
    BY <1>6, ProbeHangUpFields, <1>a DEF Closing
<1>7. CASE RT!ProbeEnds
    BY <1>7, ProbeEndsFields, <1>a DEF Closing
<1>8. CASE RT!Receive
    BY <1>8, ReceiveFields, <1>a, <1>c, <1>d DEF Closing
<1>9. CASE RT!Forward
    BY <1>9, ForwardFields, <1>a DEF Closing
<1>10. CASE RT!PumpFrame
    BY <1>10, PumpFrameFields, <1>a DEF Closing
<1>11. CASE RT!PumpSend
    <2>1. core.frame \in Nat /\ core.frame # RT!Close
        BY <1>11, PumpSendFields, <1>a, <1>e, Roles DEF Roles, Sends
    <2>2. NoClose(peer.inbound) /\ CloseLast(peer.inbound)
        BY <1>11, PumpSendFields, Closing DEF Closing
    <2>3. CloseLast(Append(peer.inbound, core.frame)) /\ NoClose(Append(peer.inbound, core.frame))
        BY <1>f, <2>1, <2>2
    <2>4. CloseLast(peer'.inbound) /\ NoClose(peer'.inbound)
        BY <1>11, PumpSendFields, <2>2, <2>3
    <2>5. peer'.outbound = peer.outbound /\ provider' = provider /\ core'.pc # "forward"
        BY <1>11, PumpSendFields
    <2> QED
        BY Closing, <2>4, <2>5 DEF Closing
<1>12. CASE RT!PumpEnds
    BY <1>12, PumpEndsFields, <1>a DEF Closing
<1>13. CASE RT!Farewell
    <2>1. RT!Close \in Nat
        BY <1>13, FarewellFields, <1>a, <1>e, Roles DEF Roles, Sends
    <2>2. NoClose(peer.inbound) /\ CloseLast(peer.inbound)
        BY <1>13, FarewellFields, Closing DEF Closing
    <2>3. CloseLast(Append(peer.inbound, RT!Close))
        BY <1>f, <2>1, <2>2
    <2>4. CloseLast(peer'.inbound) /\ core'.pc = "join"
        BY <1>13, FarewellFields, <2>2, <2>3
    <2>5. peer'.outbound = peer.outbound /\ provider' = provider /\ core'.pc # "forward"
        BY <1>13, FarewellFields
    <2> QED
        BY Closing, <2>4, <2>5 DEF Closing
<1>14. CASE RT!Join
    BY <1>14, JoinFields, <1>a DEF Closing
<1>15. CASE RT!BridgeOpens
    BY <1>15, BridgeOpensFields, <1>a DEF Closing
<1>16. CASE RT!BridgeFrame
    BY <1>16, BridgeFrameFields, <1>a DEF Closing
<1>17. CASE RT!BridgeHangUp
    BY <1>17, BridgeHangUpFields, <1>a DEF Closing
<1>18. CASE RT!TurnRefused
    BY <1>18, TurnRefusedFields, <1>a DEF Closing
<1>19. CASE RT!TurnChunk
    BY <1>19, TurnChunkFields, <1>a DEF Closing
<1>20. CASE RT!TurnEnds
    BY <1>20, TurnEndsFields, <1>a DEF Closing
<1>21. CASE RT!Dial
    BY <1>21, DialFields, <1>a DEF Closing
<1>22. CASE RT!TakeInbound
    BY <1>22, TakeInboundFields, <1>a, <1>b, <1>d DEF Closing
<1>23. CASE RT!InboundDropped
    BY <1>23, InboundDroppedFields, <1>a DEF Closing
<1>24. CASE RT!UpstreamSpeaks
    BY <1>24, UpstreamSpeaksFields, <1>a DEF Closing
<1>25. CASE RT!UpstreamCloses
    BY <1>25, UpstreamClosesFields, <1>a DEF Closing
<1>26. CASE RT!UpstreamFails
    BY <1>26, UpstreamFailsFields, <1>a DEF Closing
<1>27. CASE RT!PutOutbound
    <2>1. provider.frame \in Nat /\ NoClose(peer.outbound) /\ CloseLast(peer.outbound)
          /\ peer'.inbound = peer.inbound /\ core' = core
        BY <1>27, PutOutboundFields, Roles, Closing DEF Roles, Closing
    <2>2. core.pc = "forward" => core.frame # RT!Close
        BY <1>27, PutOutboundFields, Closing DEF Closing
    <2>3. CASE peer'.outbound = peer.outbound
        BY Closing, <2>1, <2>2, <2>3 DEF Closing
    <2>4. CASE peer'.outbound = Append(peer.outbound, provider.frame)
               /\ provider'.pc = IF provider.frame = RT!Close THEN "done" ELSE "pump"
        <3>1. CloseLast(peer'.outbound) /\ (provider'.pc # "done" => NoClose(peer'.outbound))
            BY <1>g, <2>1, <2>4
        <3> QED
            BY Closing, <2>1, <2>2, <3>1 DEF Closing
    <2> QED
        BY <1>27, PutOutboundFields, <2>3, <2>4
<1>28. CASE UNCHANGED RT!vars
    BY <1>28, <1>a DEF RT!vars, Closing
<1> QED
    BY <1>1, <1>2, <1>3, <1>4, <1>5, <1>6, <1>7, <1>8, <1>9, <1>10, <1>11, <1>12, <1>13, <1>14,
       <1>15, <1>16, <1>17, <1>18, <1>19, <1>20, <1>21, <1>22, <1>23, <1>24, <1>25, <1>26, <1>27,
       <1>28
    DEF RT!Next, RT!Core, RT!Native, RT!Bridge, RT!Provider, RT!Obliging

\* No step loses, doubles or moves a frame of the consumer.
LEMMA UpwardStep ==
    ASSUME MAX_REALTIME_REPLAY_BYTES \in Nat, Typed, Typed', Roles, Closing, Upward,
           [RT!Next]_RT!vars
    PROVE  Upward'
<1>a. /\ client.read \in Nat /\ core.bytes \in Nat /\ core.replay \in Seq(Nat)
      /\ peer.inbound \in Seq(Nat) /\ provider.wrote \in Seq(Nat)
      /\ RT!Frames(peer.inbound) \in Seq(Nat) /\ session.handled \in Seq(Nat)
      /\ MAX_REALTIME_REPLAY_BYTES \in Nat
    <2>1. /\ client.read \in Nat /\ core.bytes \in Nat /\ core.replay \in Seq(Nat)
          /\ peer.inbound \in Seq(Nat) /\ provider.wrote \in Seq(Nat) /\ session.handled \in Seq(Nat)
        BY DEF Typed, ClientTyped, CoreTyped, PeerTyped, ProviderTyped, SessionTyped
    <2> QED
        BY <2>1, Closing, FramesFacts DEF Closing
<1>b. /\ RT!IsPrefix(provider.wrote, RT!Upto(client.read))
      /\ Living => provider.wrote \o RT!Frames(peer.inbound) \o RT!InHand(Sends) = RT!Upto(client.read)
      /\ RT!Probing => /\ core.bytes = client.read
                       /\ RT!Overflowed \/ core.replay = RT!Upto(client.read)
      /\ RT!Bridging => session.handled \o core.replay = RT!Upto(client.read)
    BY DEF Upward
<1>c. session'.handled \in Seq(Nat)
    BY DEF Typed, SessionTyped
<1>d. provider'.wrote \in Seq(Nat)
    BY DEF Typed, ProviderTyped
<1>1. CASE RT!Say
    BY <1>1, SayFields, <1>b
    DEF Upward, Living, RT!InHand, Sends, RT!Probing, RT!Bridging, RT!Overflowed
<1>2. CASE RT!HangUp
    BY <1>2, HangUpFields, <1>b
    DEF Upward, Living, RT!InHand, Sends, RT!Probing, RT!Bridging, RT!Overflowed
<1>3. CASE RT!Handle
    <2>1. /\ client' = client /\ client.read = 0 /\ core'.replay = <<>> /\ core'.bytes = 0
          /\ session.handled = <<>> /\ session' = session /\ core'.pc \in {"probe", "open"}
          /\ provider.wrote = <<>> /\ provider'.wrote = <<>> /\ peer' = peer /\ peer.inbound = <<>>
        BY <1>3, HandleFields, Roles DEF Roles
    <2>2. RT!Upto(0) = <<>> /\ <<>> \o <<>> = <<>> /\ RT!Frames(<<>>) = <<>>
        BY UptoZero, FramesOfOne
    <2>3. (Living => provider.wrote \o RT!Frames(peer.inbound) \o RT!InHand(Sends) = RT!Upto(client.read))'
        BY <2>1, <2>2 DEF RT!InHand, Sends
    <2> QED
        BY <1>b, <2>1, <2>2, <2>3 DEF Upward, RT!Probing, RT!Bridging, RT!Overflowed
<1>4. CASE RT!ProbeFrame
    <2>1. client.read \in Nat /\ client'.read = client.read + 1 /\ core'.frame = client.read + 1
          /\ core.pc \notin Sends /\ core'.pc \in Sends /\ peer' = peer /\ provider' = provider
        BY <1>4, ProbeFrameFields, <1>a DEF Sends
    <2>2. RT!Upto(client'.read) = RT!Upto(client.read) \o <<client.read + 1>>
        BY <2>1, UptoGrows
    <2>3. RT!IsPrefix(provider.wrote, RT!Upto(client'.read))
        BY <1>a, <1>b, <2>1, PrefixGrows
    <2>4. ASSUME Living
          PROVE  provider.wrote \o RT!Frames(peer.inbound) \o <<client.read + 1>> = RT!Upto(client'.read)
        <3>1. provider.wrote \o RT!Frames(peer.inbound) \o <<>> = RT!Upto(client.read)
            BY <1>b, <2>1, <2>4 DEF RT!InHand
        <3>2. provider.wrote \o RT!Frames(peer.inbound) = RT!Upto(client.read)
            BY <1>a, <3>1, Joined, NothingJoined
        <3> QED
            BY <2>2, <3>2
    <2>5. (Living => provider.wrote \o RT!Frames(peer.inbound) \o RT!InHand(Sends) = RT!Upto(client.read))'
        BY <2>1, <2>4 DEF RT!InHand, Living
    <2>6. core'.bytes = client'.read /\ (core'.bytes > MAX_REALTIME_REPLAY_BYTES \/ core'.replay = RT!Upto(client'.read))
        <3>1. core.bytes = client.read /\ core'.bytes = core.bytes + 1
              /\ (core.bytes > MAX_REALTIME_REPLAY_BYTES \/ core.replay = RT!Upto(client.read))
            BY <1>4, ProbeFrameFields, <1>b DEF RT!Probing, RT!Overflowed
        <3>2. RT!Upto(client'.read) = Append(RT!Upto(client.read), client.read + 1)
            BY <2>1, UptoGrows
        <3>3. core'.replay = IF core.bytes < MAX_REALTIME_REPLAY_BYTES THEN Append(core.replay, client.read + 1)
                             ELSE core.replay
            BY <1>4, ProbeFrameFields
        <3>4. CASE core.bytes < MAX_REALTIME_REPLAY_BYTES
            BY <1>a, <2>1, <3>1, <3>2, <3>3, <3>4
        <3>5. CASE ~(core.bytes < MAX_REALTIME_REPLAY_BYTES)
            BY <1>a, <2>1, <3>1, <3>5
        <3> QED
            BY <3>4, <3>5
    <2>7. core'.pc = "probe_send"
        BY <1>4, ProbeFrameFields
    <2> QED
        BY <2>1, <2>3, <2>5, <2>6, <2>7 DEF Upward, RT!Probing, RT!Bridging, RT!Overflowed
<1>5. CASE RT!ProbeSend
    <2>1. core.pc \in Sends /\ core'.pc \notin Sends /\ core'.pc \in {"probe", "pump", "farewell"}
          /\ client' = client /\ provider' = provider
          /\ core'.bytes = core.bytes /\ core'.replay = core.replay /\ (core'.pc = "probe" => core.pc = "probe_send")
        BY <1>5, ProbeSendFields DEF Sends
    <2>2. ASSUME Living
          PROVE  provider.wrote \o RT!Frames(peer'.inbound) \o <<>> = RT!Upto(client.read)
        <3>1. core.frame \in Nat /\ core.frame # RT!Close /\ NoClose(peer.inbound) /\ CloseLast(peer.inbound)
            BY <2>1, <1>a, Roles, Closing DEF Roles, Sends, Closing, RT!Close
        <3>2. peer'.inbound = Append(peer.inbound, core.frame)
            BY <1>5, ProbeSendFields, <2>2 DEF Living
        <3>3. /\ RT!Frames(peer.inbound) = peer.inbound
              /\ RT!Frames(peer'.inbound) = Append(peer.inbound, core.frame)
            <4>1. CloseLast(Append(peer.inbound, core.frame)) /\ NoClose(Append(peer.inbound, core.frame))
                BY <1>a, <3>1, ChannelSend
            <4>2. Append(peer.inbound, core.frame) \in Seq(Nat)
                BY <1>a, <3>1
            <4> QED
                BY <1>a, <3>1, <3>2, <4>1, <4>2, FramesFacts
        <3>4. provider.wrote \o peer.inbound \o <<core.frame>> = RT!Upto(client.read)
            BY <1>b, <2>1, <2>2, <3>3 DEF RT!InHand
        <3>5. provider.wrote \o peer.inbound \o <<core.frame>>
                  = provider.wrote \o Append(peer.inbound, core.frame) \o <<>>
            BY <1>a, <3>1, PutDown
        <3> QED
            BY <3>3, <3>4, <3>5
    <2>3. (Living => provider.wrote \o RT!Frames(peer.inbound) \o RT!InHand(Sends) = RT!Upto(client.read))'
        BY <2>1, <2>2 DEF RT!InHand, Living
    <2>4. RT!IsPrefix(provider.wrote, RT!Upto(client.read))'
        BY <1>b, <2>1
    <2>5. core'.pc = "probe" => core'.bytes = client'.read
              /\ (core'.bytes > MAX_REALTIME_REPLAY_BYTES \/ core'.replay = RT!Upto(client'.read))
        BY <1>b, <2>1 DEF RT!Probing, RT!Overflowed
    <2> QED
        BY <2>1, <2>3, <2>4, <2>5 DEF Upward, RT!Probing, RT!Bridging, RT!Overflowed, Sends
<1>6. CASE RT!ProbeHangUp
    BY <1>6, ProbeHangUpFields, <1>b
    DEF Upward, Living, RT!InHand, Sends, RT!Probing, RT!Bridging, RT!Overflowed
<1>7. CASE RT!ProbeEnds
    <2>1. /\ core.pc = "probe" /\ core'.pc \in {"open", "ended"} /\ provider.pc = "done"
          /\ core'.replay = core.replay /\ session' = session /\ client' = client /\ provider' = provider
          /\ core'.pc = "open" => ~(core.bytes > MAX_REALTIME_REPLAY_BYTES)
        BY <1>7, ProbeEndsFields
    <2>2. session.handled = <<>>
        BY <2>1, Roles DEF Roles
    <2>3. core'.pc = "open" => session'.handled \o core'.replay = RT!Upto(client'.read)
        BY <1>a, <1>b, <2>1, <2>2, NothingJoined DEF RT!Probing, RT!Overflowed
    <2> QED
        BY <1>b, <2>1, <2>3 DEF Upward, Living, RT!Probing, RT!Bridging
<1>8. CASE RT!Receive
    BY <1>8, ReceiveFields, <1>b
    DEF Upward, Living, RT!InHand, Sends, RT!Probing, RT!Bridging, RT!Overflowed
<1>9. CASE RT!Forward
    BY <1>9, ForwardFields, <1>b
    DEF Upward, Living, RT!InHand, Sends, RT!Probing, RT!Bridging, RT!Overflowed
<1>10. CASE RT!PumpFrame
    <2>1. client.read \in Nat /\ client'.read = client.read + 1 /\ core'.frame = client.read + 1
          /\ core.pc \notin Sends /\ core'.pc \in Sends /\ peer' = peer /\ provider' = provider
        BY <1>10, PumpFrameFields, <1>a DEF Sends
    <2>2. RT!Upto(client'.read) = RT!Upto(client.read) \o <<client.read + 1>>
        BY <2>1, UptoGrows
    <2>3. RT!IsPrefix(provider.wrote, RT!Upto(client'.read))
        BY <1>a, <1>b, <2>1, PrefixGrows
    <2>4. ASSUME Living
          PROVE  provider.wrote \o RT!Frames(peer.inbound) \o <<client.read + 1>> = RT!Upto(client'.read)
        <3>1. provider.wrote \o RT!Frames(peer.inbound) \o <<>> = RT!Upto(client.read)
            BY <1>b, <2>1, <2>4 DEF RT!InHand
        <3>2. provider.wrote \o RT!Frames(peer.inbound) = RT!Upto(client.read)
            BY <1>a, <3>1, Joined, NothingJoined
        <3> QED
            BY <2>2, <3>2
    <2>5. (Living => provider.wrote \o RT!Frames(peer.inbound) \o RT!InHand(Sends) = RT!Upto(client.read))'
        BY <2>1, <2>4 DEF RT!InHand, Living
    <2>6. core'.pc = "pump_send"
        BY <1>10, PumpFrameFields
    <2> QED
        BY <2>1, <2>3, <2>5, <2>6 DEF Upward, RT!Probing, RT!Bridging
<1>11. CASE RT!PumpSend
    <2>1. core.pc \in Sends /\ core'.pc \notin Sends /\ core'.pc \in {"probe", "pump", "farewell"}
          /\ client' = client /\ provider' = provider
          /\ core'.bytes = core.bytes /\ core'.replay = core.replay /\ (core'.pc = "probe" => core.pc = "probe_send")
        BY <1>11, PumpSendFields DEF Sends
    <2>2. ASSUME Living
          PROVE  provider.wrote \o RT!Frames(peer'.inbound) \o <<>> = RT!Upto(client.read)
        <3>1. core.frame \in Nat /\ core.frame # RT!Close /\ NoClose(peer.inbound) /\ CloseLast(peer.inbound)
            BY <2>1, <1>a, Roles, Closing DEF Roles, Sends, Closing, RT!Close
        <3>2. peer'.inbound = Append(peer.inbound, core.frame)
            BY <1>11, PumpSendFields, <2>2 DEF Living
        <3>3. /\ RT!Frames(peer.inbound) = peer.inbound
              /\ RT!Frames(peer'.inbound) = Append(peer.inbound, core.frame)
            <4>1. CloseLast(Append(peer.inbound, core.frame)) /\ NoClose(Append(peer.inbound, core.frame))
                BY <1>a, <3>1, ChannelSend
            <4>2. Append(peer.inbound, core.frame) \in Seq(Nat)
                BY <1>a, <3>1
            <4> QED
                BY <1>a, <3>1, <3>2, <4>1, <4>2, FramesFacts
        <3>4. provider.wrote \o peer.inbound \o <<core.frame>> = RT!Upto(client.read)
            BY <1>b, <2>1, <2>2, <3>3 DEF RT!InHand
        <3>5. provider.wrote \o peer.inbound \o <<core.frame>>
                  = provider.wrote \o Append(peer.inbound, core.frame) \o <<>>
            BY <1>a, <3>1, PutDown
        <3> QED
            BY <3>3, <3>4, <3>5
    <2>3. (Living => provider.wrote \o RT!Frames(peer.inbound) \o RT!InHand(Sends) = RT!Upto(client.read))'
        BY <2>1, <2>2 DEF RT!InHand, Living
    <2>4. RT!IsPrefix(provider.wrote, RT!Upto(client.read))'
        BY <1>b, <2>1
    <2>5. core'.pc = "probe" => core'.bytes = client'.read
              /\ (core'.bytes > MAX_REALTIME_REPLAY_BYTES \/ core'.replay = RT!Upto(client'.read))
        BY <1>b, <2>1 DEF RT!Probing, RT!Overflowed
    <2> QED
        BY <2>1, <2>3, <2>4, <2>5 DEF Upward, RT!Probing, RT!Bridging, RT!Overflowed, Sends
<1>12. CASE RT!PumpEnds
    BY <1>12, PumpEndsFields, <1>b
    DEF Upward, Living, RT!InHand, Sends, RT!Probing, RT!Bridging, RT!Overflowed
<1>13. CASE RT!Farewell
    <2>1. /\ core.pc = "farewell" /\ core'.pc = "join" /\ client' = client /\ provider' = provider
        BY <1>13, FarewellFields
    <2>2. ASSUME Living
          PROVE  RT!Frames(peer'.inbound) = RT!Frames(peer.inbound)
        <3>1. peer'.inbound = Append(peer.inbound, RT!Close)
            BY <1>13, FarewellFields, <2>2 DEF Living
        <3>2. NoClose(peer.inbound) /\ CloseLast(peer.inbound) /\ RT!Close \in Nat
            BY <2>1, Closing DEF Closing, RT!Close
        <3> QED
            BY <1>a, <3>1, <3>2, FramesFacts
    <2>3. (Living => provider.wrote \o RT!Frames(peer.inbound) \o RT!InHand(Sends) = RT!Upto(client.read))'
        BY <1>b, <2>1, <2>2 DEF RT!InHand, Living, Sends
    <2> QED
        BY <1>b, <2>1, <2>3 DEF Upward, RT!Probing, RT!Bridging
<1>14. CASE RT!Join
    BY <1>14, JoinFields, <1>b
    DEF Upward, Living, RT!InHand, Sends, RT!Probing, RT!Bridging, RT!Overflowed
<1>15. CASE RT!BridgeOpens
    BY <1>15, BridgeOpensFields, <1>b
    DEF Upward, Living, RT!InHand, Sends, RT!Probing, RT!Bridging, RT!Overflowed
<1>16. CASE RT!BridgeFrame
    <2>1. /\ core.pc = "bridge" /\ provider' = provider /\ provider.pc \in {"none", "done"}
          /\ core'.pc \in {"bridge", "turn", "ended"}
        BY <1>16, BridgeFrameFields, Roles DEF Roles, RT!Bridging
    <2>2. session.handled \o core.replay = RT!Upto(client.read)
        BY <1>b, <2>1 DEF RT!Bridging
    <2>3. CASE /\ core.replay # <<>> /\ client'.read = client.read /\ core'.replay = Tail(core.replay)
               /\ session'.handled = Append(session.handled, Head(core.replay))
        <3>1. Head(core.replay) \in Nat /\ Tail(core.replay) \in Seq(Nat)
              /\ core.replay = <<Head(core.replay)>> \o Tail(core.replay)
            BY <1>a, <2>3
        <3>2. session.handled \o (<<Head(core.replay)>> \o Tail(core.replay))
                  = Append(session.handled, Head(core.replay)) \o Tail(core.replay)
            BY <1>a, <3>1, Handed
        <3>3. session'.handled \o core'.replay = RT!Upto(client'.read)
            BY <2>2, <2>3, <3>1, <3>2
        <3> QED
            BY <1>b, <2>1, <2>3, <3>3 DEF Upward, Living, RT!Probing
    <2>4. CASE /\ core.replay = <<>> /\ client'.read = client.read + 1 /\ core'.replay = core.replay
               /\ session'.handled = Append(session.handled, client.read + 1)
        <3>1. session.handled = RT!Upto(client.read)
            BY <1>a, <2>2, <2>4, NothingJoined
        <3>2. session'.handled = RT!Upto(client'.read)
            BY <1>a, <2>4, <3>1, UptoGrows
        <3>3. session'.handled \o core'.replay = RT!Upto(client'.read)
            BY <1>a, <1>c, <2>4, <3>2, NothingJoined
        <3>4. RT!IsPrefix(provider.wrote, RT!Upto(client'.read))
            BY <1>a, <1>b, <2>4, PrefixGrows
        <3> QED
            BY <1>b, <2>1, <3>3, <3>4 DEF Upward, Living, RT!Probing
    <2> QED
        BY <1>16, BridgeFrameFields, <2>3, <2>4
<1>17. CASE RT!BridgeHangUp
    BY <1>17, BridgeHangUpFields, <1>b
    DEF Upward, Living, RT!InHand, Sends, RT!Probing, RT!Bridging, RT!Overflowed
<1>18. CASE RT!TurnRefused
    BY <1>18, TurnRefusedFields, <1>b
    DEF Upward, Living, RT!InHand, Sends, RT!Probing, RT!Bridging, RT!Overflowed
<1>19. CASE RT!TurnChunk
    BY <1>19, TurnChunkFields, <1>b
    DEF Upward, Living, RT!InHand, Sends, RT!Probing, RT!Bridging, RT!Overflowed
<1>20. CASE RT!TurnEnds
    BY <1>20, TurnEndsFields, <1>b
    DEF Upward, Living, RT!InHand, Sends, RT!Probing, RT!Bridging, RT!Overflowed
<1>21. CASE RT!Dial
    BY <1>21, DialFields, <1>b
    DEF Upward, Living, RT!InHand, Sends, RT!Probing, RT!Bridging, RT!Overflowed
<1>22. CASE RT!TakeInbound
    <2>1. /\ client' = client /\ core' = core /\ session' = session
          /\ provider.pc = "pump" /\ peer.inbound # <<>> /\ peer'.inbound = Tail(peer.inbound)
        BY <1>22, TakeInboundFields
    <2>2. CASE provider'.pc = "done" /\ provider'.wrote = provider.wrote
        BY <1>b, <2>1, <2>2 DEF Upward, Living, RT!Probing, RT!Bridging, RT!Overflowed
    <2>3. CASE Head(peer.inbound) # RT!Close /\ provider'.wrote = Append(provider.wrote, Head(peer.inbound))
               /\ provider'.pc = provider.pc
        <3>1. RT!Frames(peer.inbound) = <<Head(peer.inbound)>> \o RT!Frames(peer'.inbound)
              /\ CloseLast(peer'.inbound)
            BY <1>a, <2>1, <2>3, Closing, FramesFacts, ChannelFacts DEF Closing
        <3>2. Head(peer.inbound) \in Nat /\ peer'.inbound \in Seq(Nat)
            BY <1>a, <2>1
        <3>3. RT!Frames(peer'.inbound) \in Seq(Nat)
            BY <3>1, <3>2, FramesFacts
        <3>4. RT!InHand(Sends) \in Seq(Nat)
            BY <1>a, Roles DEF Roles, RT!InHand, Sends
        <3>5. provider.wrote \o RT!Frames(peer.inbound) \o RT!InHand(Sends) = RT!Upto(client.read)
            BY <1>b, <2>1 DEF Living
        <3>6. provider.wrote \o RT!Frames(peer.inbound) = provider'.wrote \o RT!Frames(peer'.inbound)
            <4>1. provider.wrote \o (<<Head(peer.inbound)>> \o RT!Frames(peer'.inbound))
                      = Append(provider.wrote, Head(peer.inbound)) \o RT!Frames(peer'.inbound)
                BY <1>a, <3>2, <3>3, Handed
            <4> QED
                BY <2>3, <3>1, <4>1
        <3>7. provider'.wrote \in Seq(Nat) /\ RT!Frames(peer'.inbound) \o RT!InHand(Sends) \in Seq(Nat)
              /\ provider'.wrote \o (RT!Frames(peer'.inbound) \o RT!InHand(Sends)) = RT!Upto(client.read)
            <4>1. provider'.wrote \o (RT!Frames(peer'.inbound) \o RT!InHand(Sends))
                      = (provider'.wrote \o RT!Frames(peer'.inbound)) \o RT!InHand(Sends)
                BY <1>d, <3>3, <3>4, Regroup
            <4> QED
                BY <1>d, <3>3, <3>4, <3>5, <3>6, <4>1, Joined
        <3>8. RT!IsPrefix(provider'.wrote, RT!Upto(client.read))
            BY <1>a, <3>7, FirstIsPrefix
        <3>9. RT!InHand(Sends)' = RT!InHand(Sends)
            BY <2>1 DEF RT!InHand
        <3> QED
            BY <1>b, <2>1, <3>5, <3>6, <3>8, <3>9
            DEF Upward, Living, RT!Probing, RT!Bridging, RT!Overflowed
    <2> QED
        BY <1>22, TakeInboundFields, <2>2, <2>3
<1>23. CASE RT!InboundDropped
    BY <1>23, InboundDroppedFields, <1>b
    DEF Upward, Living, RT!InHand, Sends, RT!Probing, RT!Bridging, RT!Overflowed
<1>24. CASE RT!UpstreamSpeaks
    BY <1>24, UpstreamSpeaksFields, <1>b
    DEF Upward, Living, RT!InHand, Sends, RT!Probing, RT!Bridging, RT!Overflowed
<1>25. CASE RT!UpstreamCloses
    BY <1>25, UpstreamClosesFields, <1>b
    DEF Upward, Living, RT!InHand, Sends, RT!Probing, RT!Bridging, RT!Overflowed
<1>26. CASE RT!UpstreamFails
    BY <1>26, UpstreamFailsFields, <1>b
    DEF Upward, Living, RT!InHand, Sends, RT!Probing, RT!Bridging, RT!Overflowed
<1>27. CASE RT!PutOutbound
    BY <1>27, PutOutboundFields, <1>b
    DEF Upward, Living, RT!InHand, Sends, RT!Probing, RT!Bridging, RT!Overflowed
<1>28. CASE UNCHANGED RT!vars
    BY <1>28, <1>b
    DEF RT!vars, Upward, Living, RT!InHand, Sends, RT!Probing, RT!Bridging, RT!Overflowed
<1> QED
    BY <1>1, <1>2, <1>3, <1>4, <1>5, <1>6, <1>7, <1>8, <1>9, <1>10, <1>11, <1>12, <1>13, <1>14,
       <1>15, <1>16, <1>17, <1>18, <1>19, <1>20, <1>21, <1>22, <1>23, <1>24, <1>25, <1>26, <1>27,
       <1>28
    DEF RT!Next, RT!Core, RT!Native, RT!Bridge, RT!Provider, RT!Obliging

\* No step loses, doubles or moves a frame of the upstream.
LEMMA DownwardStep ==
    ASSUME None \notin Nat, Typed, Typed', Roles, Closing, Downward, [RT!Next]_RT!vars
    PROVE  Downward'
<1>a. /\ client.heard \in Seq(Nat) /\ peer.outbound \in Seq(Nat) /\ Len(provider.spoken) \in Nat
      /\ RT!Frames(peer.outbound) \in Seq(Nat) /\ CloseLast(peer.outbound)
    <2>1. /\ client.heard \in Seq(Nat) /\ peer.outbound \in Seq(Nat) /\ Len(provider.spoken) \in Nat
        BY DEF Typed, ClientTyped, PeerTyped, ProviderTyped
    <2> QED
        BY <2>1, Closing, FramesFacts DEF Closing
<1>b. /\ RT!IsPrefix(client.heard, RT!Upto(Len(provider.spoken)))
      /\ Receiving =>
            client.heard \o RT!Frames(RT!InHand({"forward"})) \o RT!Frames(peer.outbound) \o Pending
                = RT!Upto(Len(provider.spoken))
      /\ core.pc \in {"farewell", "join"} /\ ~client.gone /\ core.frame = None =>
            client.heard = RT!Upto(Len(provider.spoken)) /\ RT!Ended
      /\ RT!Bridging => provider.spoken = <<>>
    BY DEF Downward
<1>c. RT!Frames(RT!InHand({"forward"})) \in Seq(Nat) /\ Pending \in Seq(Nat)
    <2>1. RT!Frames(<<>>) \in Seq(Nat)
        BY <<>> \in Seq(Nat), FramesOfOne
    <2>2. ASSUME NEW n \in Nat
          PROVE  RT!Frames(<<n>>) \in Seq(Nat)
        <3>1. <<n>> \in Seq(Nat) /\ <<>> \in Seq(Nat)
            OBVIOUS
        <3> QED
            BY <3>1, FramesOfOne
    <2> QED
        BY <2>1, <2>2, Roles DEF Roles, RT!InHand, Pending
<1>d. RT!Frames(<<>>) = <<>>
    BY FramesOfOne
<1>1. CASE RT!Say
    BY <1>1, SayFields, <1>b, <1>d
    DEF Downward, Receiving, Pending, RT!InHand, RT!Probing, RT!Pumping, RT!Bridging, RT!Ended
<1>2. CASE RT!HangUp
    BY <1>2, HangUpFields, <1>b, <1>d
    DEF Downward, Receiving, Pending, RT!InHand, RT!Probing, RT!Pumping, RT!Bridging, RT!Ended
<1>3. CASE RT!Handle
    <2>1. /\ provider.pc = "none" /\ provider'.pc \in {"none", "dial"} /\ client' = client
          /\ provider'.spoken = provider.spoken /\ peer' = peer /\ core'.pc \in {"probe", "open"}
          /\ provider.spoken = <<>> /\ client.heard = <<>> /\ peer.outbound = <<>>
        BY <1>3, HandleFields, Roles DEF Roles
    <2>2. RT!Upto(0) = <<>> /\ <<>> \o <<>> = <<>> /\ Len(<<>>) = 0
        BY UptoZero
    <2>3. (client.heard \o RT!Frames(RT!InHand({"forward"})) \o RT!Frames(peer.outbound) \o Pending
               = RT!Upto(Len(provider.spoken)))'
        BY <1>d, <2>1, <2>2 DEF RT!InHand, Pending
    <2> QED
        BY <1>b, <2>1, <2>3 DEF Downward, RT!Bridging
<1>4. CASE RT!ProbeFrame
    BY <1>4, ProbeFrameFields, <1>b, <1>d
    DEF Downward, Receiving, Pending, RT!InHand, RT!Probing, RT!Pumping, RT!Bridging, RT!Ended
<1>5. CASE RT!ProbeSend
    BY <1>5, ProbeSendFields, <1>b, <1>d
    DEF Downward, Receiving, Pending, RT!InHand, RT!Probing, RT!Pumping, RT!Bridging, RT!Ended
<1>6. CASE RT!ProbeHangUp
    BY <1>6, ProbeHangUpFields, <1>b, <1>d
    DEF Downward, Receiving, Pending, RT!InHand, RT!Probing, RT!Pumping, RT!Bridging, RT!Ended
<1>7. CASE RT!ProbeEnds
    <2>1. /\ core.pc = "probe" /\ core'.pc \in {"open", "ended"} /\ provider.pc = "done"
          /\ peer.outbound = <<>> /\ client' = client /\ provider' = provider
        BY <1>7, ProbeEndsFields
    <2>2. client.heard = <<>>
        BY <2>1, Roles DEF Roles
    <2>3. <<>> \o <<>> \o <<>> \o <<>> = RT!Upto(Len(provider.spoken))
        BY <1>b, <1>d, <2>1, <2>2 DEF Receiving, RT!Probing, RT!InHand, Pending
    <2>4. Len(RT!Upto(Len(provider.spoken))) = Len(provider.spoken)
        BY <1>a, UptoGrows
    <2>5. Len(provider.spoken) = 0 /\ provider.spoken \in Seq({"delta", "response_done"})
        <3>1. <<>> \o <<>> \o <<>> \o <<>> = <<>>
            OBVIOUS
        <3> QED
            BY <2>3, <2>4, <3>1 DEF Typed, ProviderTyped
    <2>6. provider.spoken = <<>>
        BY <2>5, EmptySeq
    <2> QED
        BY <1>b, <2>1, <2>6 DEF Downward, Receiving, RT!Probing, RT!Pumping
<1>8. CASE RT!Receive
    <2>1. /\ core.pc \in {"probe", "pump"} /\ peer.outbound # <<>> /\ core'.pc = "forward"
          /\ core'.frame = Head(peer.outbound) /\ peer'.outbound = Tail(peer.outbound)
          /\ client' = client /\ provider' = provider
        BY <1>8, ReceiveFields
    <2>2. client.heard \o <<>> \o RT!Frames(peer.outbound) \o Pending = RT!Upto(Len(provider.spoken))
        BY <1>b, <1>d, <2>1 DEF Receiving, RT!Probing, RT!Pumping, RT!InHand
    <2>3. client.heard \o RT!Frames(<<Head(peer.outbound)>>) \o RT!Frames(Tail(peer.outbound))
              = client.heard \o <<>> \o RT!Frames(peer.outbound)
        <3>1. Head(peer.outbound) \in Nat /\ Tail(peer.outbound) \in Seq(Nat)
            BY <1>a, <2>1
        <3>2. CASE Head(peer.outbound) = RT!Close
            <4>1. Tail(peer.outbound) = <<>> /\ RT!Frames(peer.outbound) = <<>>
                BY <1>a, <2>1, <3>2, FramesFacts
            <4>2. RT!Frames(<<Head(peer.outbound)>>) = <<>>
                BY <3>1, <3>2, FramesOfOne
            <4> QED
                BY <1>d, <4>1, <4>2
        <3>3. CASE Head(peer.outbound) # RT!Close
            <4>1. RT!Frames(peer.outbound) = <<Head(peer.outbound)>> \o RT!Frames(Tail(peer.outbound))
                BY <1>a, <2>1, <3>3, FramesFacts
            <4>2. RT!Frames(<<Head(peer.outbound)>>) = <<Head(peer.outbound)>>
                BY <3>1, <3>3, FramesOfOne
            <4>3. RT!Frames(Tail(peer.outbound)) \in Seq(Nat)
                BY <1>a, <2>1, <3>1, ChannelFacts, FramesFacts
            <4>4. client.heard \o (<<Head(peer.outbound)>> \o RT!Frames(Tail(peer.outbound)))
                      = Append(client.heard, Head(peer.outbound)) \o RT!Frames(Tail(peer.outbound))
                BY <1>a, <3>1, <4>3, Handed
            <4>5. client.heard \o <<Head(peer.outbound)>> = Append(client.heard, Head(peer.outbound))
                  /\ client.heard \o <<>> = client.heard
                BY <1>a, <3>1, AppendIsConcat, NothingJoined
            <4> QED
                BY <4>1, <4>2, <4>4, <4>5
        <3> QED
            BY <3>2, <3>3
    <2>4. (client.heard \o RT!Frames(RT!InHand({"forward"})) \o RT!Frames(peer.outbound) \o Pending
               = RT!Upto(Len(provider.spoken)))'
        BY <2>1, <2>2, <2>3 DEF RT!InHand, Pending
    <2> QED
        BY <1>b, <2>1, <2>4 DEF Downward, RT!Bridging
<1>9. CASE RT!Forward
    <2>1. /\ core.pc = "forward" /\ core'.frame = None /\ provider' = provider /\ peer' = peer
          /\ client'.gone = client.gone
        BY <1>9, ForwardFields
    <2>2. core.frame \in Nat
        BY <2>1, Roles DEF Roles
    <2>3. client.heard \o RT!Frames(<<core.frame>>) \o RT!Frames(peer.outbound) \o Pending
              = RT!Upto(Len(provider.spoken))
        BY <1>b, <2>1 DEF Receiving, RT!Pumping, RT!InHand
    <2>4. CASE core.frame # RT!Close /\ core'.pc = "pump" /\ client'.heard = Append(client.heard, core.frame)
        <3>1. client.heard \o RT!Frames(<<core.frame>>) = client'.heard /\ client'.heard \in Seq(Nat)
              /\ client'.heard \o <<>> = client'.heard
            <4>1. RT!Frames(<<core.frame>>) = <<core.frame>>
                BY <2>2, <2>4, FramesOfOne
            <4>2. client.heard \o <<core.frame>> = Append(client.heard, core.frame)
                BY <1>a, <2>2, AppendIsConcat
            <4>3. client'.heard \in Seq(Nat)
                BY <1>a, <2>2, <2>4
            <4> QED
                BY <2>4, <4>1, <4>2, <4>3, NothingJoined
        <3>2. client'.heard \o RT!Frames(peer.outbound) \o Pending = RT!Upto(Len(provider.spoken))
            BY <2>3, <3>1
        <3>3. (client.heard \o RT!Frames(RT!InHand({"forward"})) \o RT!Frames(peer.outbound) \o Pending
                   = RT!Upto(Len(provider.spoken)))'
            BY <1>d, <2>1, <2>4, <3>1, <3>2 DEF RT!InHand, Pending
        <3>4. client'.heard \o (RT!Frames(peer.outbound) \o Pending) = RT!Upto(Len(provider.spoken))
              /\ RT!Frames(peer.outbound) \o Pending \in Seq(Nat)
            BY <1>a, <1>c, <3>1, <3>2, Regroup, Joined, ZenonT(30)
        <3>5. RT!IsPrefix(client'.heard, RT!Upto(Len(provider.spoken)))
            BY <1>a, <3>1, <3>4, FirstIsPrefix
        <3> QED
            BY <2>1, <2>4, <3>3, <3>5 DEF Downward, RT!Bridging
    <2>5. CASE core.frame = RT!Close /\ core'.pc = "farewell" /\ client'.heard = client.heard
        <3>1. peer.outbound = <<>> /\ provider.pc = "done"
            BY <2>1, <2>5, Closing DEF Closing
        <3>2. RT!Frames(<<core.frame>>) = <<>> /\ Pending = <<>>
            BY <2>2, <2>5, <3>1, FramesOfOne DEF Pending
        <3>3. client.heard = RT!Upto(Len(provider.spoken))
            BY <1>a, <1>d, <2>3, <3>1, <3>2, NothingJoined
        <3> QED
            BY <1>b, <2>1, <2>5, <3>1, <3>3
            DEF Downward, Receiving, RT!Probing, RT!Pumping, RT!Bridging, RT!Ended
    <2>6. CASE client.gone /\ core'.pc = "farewell" /\ client'.heard = client.heard
        BY <1>b, <2>1, <2>6 DEF Downward, Receiving, RT!Probing, RT!Pumping, RT!Bridging, RT!Ended
    <2> QED
        BY <1>9, ForwardFields, <2>4, <2>5, <2>6
<1>10. CASE RT!PumpFrame
    BY <1>10, PumpFrameFields, <1>b, <1>d
    DEF Downward, Receiving, Pending, RT!InHand, RT!Probing, RT!Pumping, RT!Bridging, RT!Ended
<1>11. CASE RT!PumpSend
    BY <1>11, PumpSendFields, <1>b, <1>d, <1>b, Roles, Typed
    DEF Downward, Receiving, Pending, RT!InHand, RT!Probing, RT!Pumping, RT!Bridging, RT!Ended,
        Roles, Sends, Typed, ClientTyped
<1>12. CASE RT!PumpEnds
    <2>1. /\ core.pc = "pump" /\ core'.pc = "farewell" /\ core'.frame = core.frame
          /\ client' = client /\ provider' = provider
          /\ client.gone \/ (provider.pc = "done" /\ peer.outbound = <<>>)
        BY <1>12, PumpEndsFields
    <2>2. ASSUME ~client.gone
          PROVE  client.heard = RT!Upto(Len(provider.spoken)) /\ provider.pc = "done"
        <3>1. provider.pc = "done" /\ peer.outbound = <<>>
            BY <2>1, <2>2
        <3>2. client.heard \o <<>> \o <<>> \o <<>> = RT!Upto(Len(provider.spoken))
            BY <1>b, <1>d, <2>1, <3>1 DEF Receiving, RT!Pumping, RT!InHand, Pending
        <3> QED
            BY <1>a, <3>1, <3>2, NothingJoined
    <2> QED
        BY <1>b, <2>1, <2>2 DEF Downward, Receiving, RT!Probing, RT!Pumping, RT!Bridging, RT!Ended
<1>13. CASE RT!Farewell
    BY <1>13, FarewellFields, <1>b, <1>d
    DEF Downward, Receiving, Pending, RT!InHand, RT!Probing, RT!Pumping, RT!Bridging, RT!Ended
<1>14. CASE RT!Join
    BY <1>14, JoinFields, <1>b, <1>d
    DEF Downward, Receiving, Pending, RT!InHand, RT!Probing, RT!Pumping, RT!Bridging, RT!Ended
<1>15. CASE RT!BridgeOpens
    BY <1>15, BridgeOpensFields, <1>b, <1>d
    DEF Downward, Receiving, Pending, RT!InHand, RT!Probing, RT!Pumping, RT!Bridging, RT!Ended
<1>16. CASE RT!BridgeFrame
    BY <1>16, BridgeFrameFields, <1>b, <1>d
    DEF Downward, Receiving, Pending, RT!InHand, RT!Probing, RT!Pumping, RT!Bridging, RT!Ended
<1>17. CASE RT!BridgeHangUp
    BY <1>17, BridgeHangUpFields, <1>b, <1>d
    DEF Downward, Receiving, Pending, RT!InHand, RT!Probing, RT!Pumping, RT!Bridging, RT!Ended
<1>18. CASE RT!TurnRefused
    BY <1>18, TurnRefusedFields, <1>b, <1>d
    DEF Downward, Receiving, Pending, RT!InHand, RT!Probing, RT!Pumping, RT!Bridging, RT!Ended
<1>19. CASE RT!TurnChunk
    BY <1>19, TurnChunkFields, <1>b, <1>d
    DEF Downward, Receiving, Pending, RT!InHand, RT!Probing, RT!Pumping, RT!Bridging, RT!Ended
<1>20. CASE RT!TurnEnds
    BY <1>20, TurnEndsFields, <1>b, <1>d
    DEF Downward, Receiving, Pending, RT!InHand, RT!Probing, RT!Pumping, RT!Bridging, RT!Ended
<1>21. CASE RT!Dial
    BY <1>21, DialFields, <1>b, <1>d
    DEF Downward, Receiving, Pending, RT!InHand, RT!Probing, RT!Pumping, RT!Bridging, RT!Ended
<1>22. CASE RT!TakeInbound
    BY <1>22, TakeInboundFields, <1>b, <1>d
    DEF Downward, Receiving, Pending, RT!InHand, RT!Probing, RT!Pumping, RT!Bridging, RT!Ended
<1>23. CASE RT!InboundDropped
    BY <1>23, InboundDroppedFields, <1>b, <1>d
    DEF Downward, Receiving, Pending, RT!InHand, RT!Probing, RT!Pumping, RT!Bridging, RT!Ended
<1>24. CASE RT!UpstreamSpeaks
    <2>1. /\ provider.pc = "pump" /\ provider'.pc = "out" /\ provider'.frame = Len(provider.spoken) + 1
          /\ client' = client /\ core' = core /\ peer' = peer
        BY <1>24, UpstreamSpeaksFields
    <2>2. Len(provider'.spoken) = Len(provider.spoken) + 1
        BY <1>24, UpstreamSpeaksFields DEF Typed, ProviderTyped
    <2>3. RT!IsPrefix(client.heard, RT!Upto(Len(provider'.spoken)))
        BY <1>a, <1>b, <2>2, PrefixGrows, SMTT(30)
    <2>4. RT!Upto(Len(provider'.spoken)) = RT!Upto(Len(provider.spoken)) \o <<Len(provider.spoken) + 1>>
        BY <1>a, <2>2, UptoGrows
    <2>5. RT!Frames(<<Len(provider.spoken) + 1>>) = <<Len(provider.spoken) + 1>>
        <3>1. Len(provider.spoken) + 1 \in Nat /\ Len(provider.spoken) + 1 # RT!Close
            BY <1>a DEF RT!Close
        <3> QED
            BY <3>1, FramesOfOne
    <2>6. ASSUME Receiving
          PROVE  (client.heard \o RT!Frames(RT!InHand({"forward"})) \o RT!Frames(peer.outbound) \o Pending
                      = RT!Upto(Len(provider.spoken)))'
        <3>1. client.heard \o RT!Frames(RT!InHand({"forward"})) \o RT!Frames(peer.outbound) \o <<>>
                  = RT!Upto(Len(provider.spoken))
            BY <1>b, <2>1, <2>6 DEF Pending
        <3>2. client.heard \o RT!Frames(RT!InHand({"forward"})) \o RT!Frames(peer.outbound) \in Seq(Nat)
            BY <1>a, <1>c, Joined
        <3>3. client.heard \o RT!Frames(RT!InHand({"forward"})) \o RT!Frames(peer.outbound)
                  = RT!Upto(Len(provider.spoken))
            BY <3>1, <3>2, NothingJoined
        <3>4. Pending' = <<Len(provider.spoken) + 1>> /\ RT!InHand({"forward"})' = RT!InHand({"forward"})
            BY <2>1, <2>5 DEF Pending, RT!InHand
        <3> QED
            BY <2>1, <2>4, <3>3, <3>4
    <2>7. ~RT!Bridging /\ ~RT!Ended
        BY <2>1, Roles DEF Roles, RT!Ended
    <2> QED
        BY <1>b, <2>1, <2>3, <2>6, <2>7
        DEF Downward, Receiving, RT!Probing, RT!Pumping, RT!Bridging
<1>25. CASE RT!UpstreamCloses
    BY <1>25, UpstreamClosesFields, <1>b, <1>d, FramesOfOne
    DEF Downward, Receiving, Pending, RT!InHand, RT!Probing, RT!Pumping, RT!Bridging, RT!Ended,
        RT!Close
<1>26. CASE RT!UpstreamFails
    BY <1>26, UpstreamFailsFields, <1>b, <1>d
    DEF Downward, Receiving, Pending, RT!InHand, RT!Probing, RT!Pumping, RT!Bridging, RT!Ended
<1>27. CASE RT!PutOutbound
    <2>1. /\ provider.pc = "out" /\ client' = client /\ core' = core
          /\ provider'.spoken = provider.spoken
        BY <1>27, PutOutboundFields
    <2>2. provider.frame \in Nat /\ NoClose(peer.outbound)
        BY <2>1, Roles, Closing DEF Roles, Closing
    <2>3. ASSUME Receiving
          PROVE  (client.heard \o RT!Frames(RT!InHand({"forward"})) \o RT!Frames(peer.outbound) \o Pending
                      = RT!Upto(Len(provider.spoken)))'
        <3>1. /\ peer'.outbound = Append(peer.outbound, provider.frame)
              /\ provider'.pc = IF provider.frame = RT!Close THEN "done" ELSE "pump"
            BY <1>27, PutOutboundFields, <2>3 DEF Receiving, RT!Probing, RT!Pumping
        <3>2. RT!Frames(peer.outbound) = peer.outbound
            BY <1>a, <2>2, FramesFacts
        <3>3. Pending' = <<>> /\ RT!InHand({"forward"})' = RT!InHand({"forward"})
            BY <2>1, <3>1 DEF Pending, RT!InHand
        <3> DEFINE x == client.heard \o RT!Frames(RT!InHand({"forward"}))
        <3>4. x \in Seq(Nat)
            BY <1>a, <1>c, Joined
        <3>5. x \o peer.outbound \o RT!Frames(<<provider.frame>>) = RT!Upto(Len(provider.spoken))
            BY <1>b, <2>1, <2>3, <3>2 DEF Pending
        <3>6. x \o RT!Frames(peer'.outbound) \o <<>> = RT!Upto(Len(provider.spoken))
            <4> HIDE DEF x
            <4>1. CASE provider.frame = RT!Close
                <5>1. RT!Frames(<<provider.frame>>) = <<>>
                    BY <2>2, <4>1, FramesOfOne
                <5>2. RT!Frames(peer'.outbound) = peer.outbound
                    BY <1>a, <2>2, <3>1, <4>1, FramesFacts
                <5> QED
                    BY <3>5, <5>1, <5>2
            <4>2. CASE provider.frame # RT!Close
                <5>1. RT!Frames(<<provider.frame>>) = <<provider.frame>>
                    BY <2>2, <4>2, FramesOfOne
                <5>2. RT!Frames(peer'.outbound) = Append(peer.outbound, provider.frame)
                    BY <1>a, <2>2, <3>1, <4>2, FramesFacts
                <5>3. x \o peer.outbound \o <<provider.frame>>
                          = x \o Append(peer.outbound, provider.frame) \o <<>>
                    BY <1>a, <2>2, <3>4, PutDown
                <5> QED
                    BY <3>5, <5>1, <5>2, <5>3
            <4> QED
                BY <4>1, <4>2
        <3> QED
            BY <2>1, <3>3, <3>6
    <2>4. ~RT!Bridging /\ ~RT!Ended
        BY <2>1, Roles DEF Roles, RT!Ended
    <2> QED
        BY <1>b, <2>1, <2>3, <2>4 DEF Downward, Receiving, RT!Probing, RT!Pumping, RT!Bridging
<1>28. CASE UNCHANGED RT!vars
    BY <1>28, <1>b, <1>d
    DEF RT!vars, Downward, Receiving, Pending, RT!InHand, RT!Probing, RT!Pumping, RT!Bridging,
        RT!Ended
<1> QED
    BY <1>1, <1>2, <1>3, <1>4, <1>5, <1>6, <1>7, <1>8, <1>9, <1>10, <1>11, <1>12, <1>13, <1>14,
       <1>15, <1>16, <1>17, <1>18, <1>19, <1>20, <1>21, <1>22, <1>23, <1>24, <1>25, <1>26, <1>27,
       <1>28
    DEF RT!Next, RT!Core, RT!Native, RT!Bridge, RT!Provider, RT!Obliging

-----------------------------------------------------------------------------
(* The events of a session. *)

\* Cardinality, in the session's module and here.
LEMMA SameCardinality ==
    ASSUME NEW S
    PROVE  RT!Cardinality(S) = Cardinality(S)
BY DEF RT!Cardinality, Cardinality

\* How often an element occurs.
LEMMA CountIs ==
    ASSUME NEW s, NEW x
    PROVE  RT!Count(s, x) = Cardinality({k \in DOMAIN s : s[k] = x})
BY SameCardinality DEF RT!Count

\* One element more counts for itself.
LEMMA CountAppend ==
    ASSUME NEW S, NEW s \in Seq(S), NEW e \in S, NEW x
    PROVE  /\ RT!Count(s, x) \in Nat
           /\ RT!Count(Append(s, e), x) = IF e = x THEN RT!Count(s, x) + 1 ELSE RT!Count(s, x)
<1> DEFINE here == {k \in DOMAIN s : s[k] = x}
           there == {k \in DOMAIN Append(s, e) : Append(s, e)[k] = x}
           n == Len(s)
<1>1. n \in Nat /\ DOMAIN s = 1..n /\ IsFiniteSet(1..n)
    BY FS_Interval
<1>2. IsFiniteSet(here) /\ Cardinality(here) \in Nat /\ n + 1 \notin here
    BY <1>1, FS_Subset, FS_CardinalityType
<1>3. there = IF e = x THEN here \cup {n + 1} ELSE here
    <2>1. DOMAIN Append(s, e) = 1 .. n + 1 /\ Append(s, e)[n + 1] = e
          /\ \A k \in 1..n : Append(s, e)[k] = s[k]
        OBVIOUS
    <2> QED
        BY <1>1, <2>1
<1> HIDE DEF here, there, n
<1>4. Cardinality(here \cup {n + 1}) = Cardinality(here) + 1
    BY <1>2, FS_AddElement
<1>5. RT!Count(s, x) = Cardinality(here) /\ RT!Count(Append(s, e), x) = Cardinality(there)
    BY CountIs DEF here, there
<1> QED
    BY <1>2, <1>3, <1>4, <1>5

\* A log goes on with a usage, or ends.
LEMMA LogGrows ==
    ASSUME log \in Seq(Events), log # <<>>, NEW e \in Events, \A k \in DOMAIN log : log[k] \notin RT!Terminal
    PROVE  /\ Append(log, e) # <<>> /\ Head(Append(log, e)) = Head(log) /\ RT!Last(Append(log, e)) = e
           /\ \A k \in DOMAIN Append(log, e) :
                 Append(log, e)[k] \in RT!Terminal <=> k = Len(Append(log, e)) /\ e \in RT!Terminal
           /\ \A x : RT!Count(Append(log, e), x) = IF e = x THEN RT!Count(log, x) + 1 ELSE RT!Count(log, x)
<1>1. /\ Append(log, e) # <<>> /\ Head(Append(log, e)) = Head(log) /\ RT!Last(Append(log, e)) = e
    BY DEF RT!Last
<1>2. ASSUME NEW k \in DOMAIN Append(log, e)
      PROVE  Append(log, e)[k] \in RT!Terminal <=> k = Len(Append(log, e)) /\ e \in RT!Terminal
    BY <1>2
<1>3. ASSUME NEW x
      PROVE  RT!Count(Append(log, e), x) = IF e = x THEN RT!Count(log, x) + 1 ELSE RT!Count(log, x)
    BY CountAppend
<1> QED
    BY <1>1, <1>2, <1>3

\* The log is opened once and closed once, by the step that ends the session.
LEMMA BracketingStep ==
    ASSUME Typed, Typed', Roles, Downward, Bracketing, [RT!Next]_RT!vars
    PROVE  Bracketing'
<1>a. log \in Seq(Events) /\ {"started", "routed", "usage", "completed", "failed"} = Events
    BY DEF Typed, Events
<1>b. /\ core.pc # "handshake" => log # <<>> /\ Head(log) = "started" /\ RT!Count(log, "started") = 1
      /\ \A k \in DOMAIN log : log[k] \in RT!Terminal <=> k = Len(log) /\ core.pc = "ended"
      /\ core.pc = "ended" /\ client.heard # <<>> =>
            RT!Ended /\ (RT!Last(log) = "failed" <=> provider.failed)
    BY DEF Bracketing
<1>c. ASSUME core.pc \notin {"handshake", "ended"}, NEW e \in {"completed", "failed"},
             core'.pc = "ended", log' = Append(log, e),
             client'.heard # <<>> => provider'.pc = "done" /\ (e = "failed" <=> provider'.failed)
      PROVE  Bracketing'
    <2>1. \A k \in DOMAIN log : log[k] \notin RT!Terminal
        BY <1>b, <1>c
    <2>2. e \in Events /\ e \in RT!Terminal /\ e # "started"
        BY <1>a DEF RT!Terminal
    <2>3. /\ log' # <<>> /\ Head(log') = Head(log) /\ RT!Last(log') = e
          /\ \A k \in DOMAIN log' : log'[k] \in RT!Terminal <=> k = Len(log')
          /\ RT!Count(log', "started") = RT!Count(log, "started")
        BY <1>a, <1>b, <1>c, <2>1, <2>2, LogGrows
    <2> QED
        BY <1>b, <1>c, <2>3 DEF Bracketing, RT!Ended
<1>d. ASSUME core.pc \notin {"handshake", "ended"}, core'.pc \notin {"handshake", "ended"}, log' = log
      PROVE  Bracketing'
    BY <1>b, <1>d DEF Bracketing
<1>e. RT!Bridging => client.heard = <<>>
    <2>1. RT!Upto(0) = <<>> /\ Len(<<>>) = 0 /\ client.heard \in Seq(Nat)
        BY UptoZero DEF Typed, ClientTyped
    <2>2. RT!Bridging => provider.spoken = <<>> /\ RT!IsPrefix(client.heard, RT!Upto(Len(provider.spoken)))
        BY DEF Downward
    <2> QED
        BY <2>1, <2>2 DEF RT!IsPrefix
<1>1. CASE RT!Say
    BY <1>1, SayFields, <1>b DEF Bracketing, RT!Ended
<1>2. CASE RT!HangUp
    BY <1>2, HangUpFields, <1>b DEF Bracketing, RT!Ended
<1>3. CASE RT!Handle
    <2>1. core.pc = "handshake" /\ core'.pc \in {"probe", "open"}
        BY <1>3, HandleFields
    <2>2. log' = <<"started">> \/ log' = <<"started", "routed">>
        BY <1>3, HandleFields
    <2>3. RT!Count(<<"started">>, "started") = 1 /\ RT!Count(<<"started", "routed">>, "started") = 1
        <3>1. {k \in DOMAIN <<"started">> : <<"started">>[k] = "started"} = {1}
              /\ {k \in DOMAIN <<"started", "routed">> : <<"started", "routed">>[k] = "started"} = {1}
            OBVIOUS
        <3> QED
            BY <3>1, FS_Singleton, CountIs
    <2>4. /\ log' # <<>> /\ Head(log') = "started"
          /\ \A k \in DOMAIN log' : log'[k] \in {"started", "routed"}
        BY <2>2
    <2> QED
        BY <2>1, <2>2, <2>3, <2>4 DEF Bracketing, RT!Terminal
<1>4. CASE RT!ProbeFrame
    BY <1>4, ProbeFrameFields, <1>b, <1>d DEF Bracketing, RT!Ended
<1>5. CASE RT!ProbeSend
    BY <1>5, ProbeSendFields, <1>b, <1>d DEF Bracketing, RT!Ended
<1>6. CASE RT!ProbeHangUp
    BY <1>6, ProbeHangUpFields, <1>b, <1>c, Roles DEF Bracketing, RT!Ended, Roles
<1>7. CASE RT!ProbeEnds
    <2>1. core.pc = "probe" /\ client.heard = <<>> /\ client' = client
        BY <1>7, ProbeEndsFields, Roles DEF Roles
    <2>2. \/ core'.pc = "ended" /\ log' = Append(log, "failed")
          \/ core'.pc = "ended" /\ log' = Append(log, "completed")
          \/ core'.pc = "open" /\ log' = log
        BY <1>7, ProbeEndsFields
    <2> QED
        BY <1>c, <1>d, <2>1, <2>2
<1>8. CASE RT!Receive
    <2>1. core.pc \in {"probe", "pump"} /\ core'.pc = "forward"
          /\ (log' = log \/ log' = Append(log, "usage"))
        BY <1>8, ReceiveFields
    <2>2. CASE log' = Append(log, "usage")
        <3>1. \A k \in DOMAIN log : log[k] \notin RT!Terminal
            BY <1>b, <2>1
        <3>2. "usage" \in Events /\ "usage" \notin RT!Terminal /\ "usage" # "started"
            BY <1>a DEF RT!Terminal
        <3>3. /\ log' # <<>> /\ Head(log') = Head(log)
              /\ \A k \in DOMAIN log' : log'[k] \notin RT!Terminal
              /\ RT!Count(log', "started") = RT!Count(log, "started")
            BY <1>a, <1>b, <2>1, <2>2, <3>1, <3>2, LogGrows
        <3> QED
            BY <1>b, <2>1, <3>3 DEF Bracketing
    <2> QED
        BY <1>d, <2>1, <2>2
<1>9. CASE RT!Forward
    BY <1>9, ForwardFields, <1>b, <1>d DEF Bracketing, RT!Ended
<1>10. CASE RT!PumpFrame
    BY <1>10, PumpFrameFields, <1>b, <1>d DEF Bracketing, RT!Ended
<1>11. CASE RT!PumpSend
    BY <1>11, PumpSendFields, <1>b, <1>d DEF Bracketing, RT!Ended
<1>12. CASE RT!PumpEnds
    BY <1>12, PumpEndsFields, <1>b, <1>d DEF Bracketing, RT!Ended
<1>13. CASE RT!Farewell
    BY <1>13, FarewellFields, <1>b, <1>d DEF Bracketing, RT!Ended
<1>14. CASE RT!Join
    <2>1. core.pc = "join" /\ core'.pc = "ended" /\ provider.pc = "done" /\ provider' = provider
          /\ log' = Append(log, IF provider.failed THEN "failed" ELSE "completed")
        BY <1>14, JoinFields
    <2> QED
        BY <1>c, <2>1
<1>15. CASE RT!BridgeOpens
    <2>1. core.pc = "open" /\ client'.heard = client.heard /\ client.heard = <<>>
        BY <1>15, BridgeOpensFields, <1>e DEF RT!Bridging
    <2>2. \/ core'.pc = "ended" /\ log' = Append(log, "completed")
          \/ core'.pc \in {"bridge", "turn"} /\ log' = log
        BY <1>15, BridgeOpensFields
    <2> QED
        BY <1>c, <1>d, <2>1, <2>2
<1>16. CASE RT!BridgeFrame
    <2>1. core.pc = "bridge" /\ client'.heard = client.heard /\ client.heard = <<>>
        BY <1>16, BridgeFrameFields, <1>e DEF RT!Bridging
    <2>2. \/ core'.pc = "ended" /\ log' = Append(log, "completed")
          \/ core'.pc \in {"bridge", "turn"} /\ log' = log
        BY <1>16, BridgeFrameFields
    <2> QED
        BY <1>c, <1>d, <2>1, <2>2
<1>17. CASE RT!BridgeHangUp
    <2>1. core.pc = "bridge" /\ client'.heard = client.heard /\ client.heard = <<>>
        BY <1>17, BridgeHangUpFields, <1>e DEF RT!Bridging
    <2>2. \/ core'.pc = "ended" /\ log' = Append(log, "completed")
          \/ core'.pc \in {"bridge", "turn"} /\ log' = log
        BY <1>17, BridgeHangUpFields
    <2> QED
        BY <1>c, <1>d, <2>1, <2>2
<1>18. CASE RT!TurnRefused
    BY <1>18, TurnRefusedFields, <1>b, <1>d DEF Bracketing, RT!Ended
<1>19. CASE RT!TurnChunk
    <2>1. core.pc = "turn" /\ client'.heard = client.heard /\ client.heard = <<>>
        BY <1>19, TurnChunkFields, <1>e DEF RT!Bridging
    <2>2. \/ core'.pc = "ended" /\ log' = Append(log, "completed")
          \/ core'.pc \in {"bridge", "turn"} /\ log' = log
        BY <1>19, TurnChunkFields
    <2> QED
        BY <1>c, <1>d, <2>1, <2>2
<1>20. CASE RT!TurnEnds
    <2>1. core.pc = "turn" /\ client'.heard = client.heard /\ client.heard = <<>>
        BY <1>20, TurnEndsFields, <1>e DEF RT!Bridging
    <2>2. \/ core'.pc = "ended" /\ log' = Append(log, "completed")
          \/ core'.pc \in {"bridge", "turn"} /\ log' = log
        BY <1>20, TurnEndsFields
    <2> QED
        BY <1>c, <1>d, <2>1, <2>2
<1>21. CASE RT!Dial
    BY <1>21, DialFields, <1>b DEF Bracketing, RT!Ended
<1>22. CASE RT!TakeInbound
    BY <1>22, TakeInboundFields, <1>b DEF Bracketing, RT!Ended
<1>23. CASE RT!InboundDropped
    BY <1>23, InboundDroppedFields, <1>b DEF Bracketing, RT!Ended
<1>24. CASE RT!UpstreamSpeaks
    BY <1>24, UpstreamSpeaksFields, <1>b DEF Bracketing, RT!Ended
<1>25. CASE RT!UpstreamCloses
    BY <1>25, UpstreamClosesFields, <1>b DEF Bracketing, RT!Ended
<1>26. CASE RT!UpstreamFails
    BY <1>26, UpstreamFailsFields, <1>b DEF Bracketing, RT!Ended
<1>27. CASE RT!PutOutbound
    BY <1>27, PutOutboundFields, <1>b DEF Bracketing, RT!Ended
<1>28. CASE UNCHANGED RT!vars
    BY <1>28, <1>b DEF RT!vars, Bracketing, RT!Ended
<1> QED
    BY <1>1, <1>2, <1>3, <1>4, <1>5, <1>6, <1>7, <1>8, <1>9, <1>10, <1>11, <1>12, <1>13, <1>14,
       <1>15, <1>16, <1>17, <1>18, <1>19, <1>20, <1>21, <1>22, <1>23, <1>24, <1>25, <1>26, <1>27,
       <1>28
    DEF RT!Next, RT!Core, RT!Native, RT!Bridge, RT!Provider, RT!Obliging

\* The responses among the first frames: one more frame counts for itself.
LEMMA DonesFacts ==
    ASSUME NEW s, NEW n \in Nat
    PROVE  /\ Dones(s, n) \in Nat
           /\ Dones(s, n + 1) = IF s[n + 1] = "response_done" THEN Dones(s, n) + 1 ELSE Dones(s, n)
           /\ Dones(s, 0) = 0
<1> DEFINE here == {k \in 1..n : s[k] = "response_done"}
           there == {k \in 1 .. n + 1 : s[k] = "response_done"}
<1>1. IsFiniteSet(1..n)
    BY FS_Interval
<1>2. IsFiniteSet(here) /\ Cardinality(here) \in Nat /\ n + 1 \notin here
    BY <1>1, FS_Subset, FS_CardinalityType
<1>3. there = IF s[n + 1] = "response_done" THEN here \cup {n + 1} ELSE here
    OBVIOUS
<1>4. {k \in 1..0 : s[k] = "response_done"} = {}
    OBVIOUS
<1>5. Dones(s, n) = Cardinality(here) /\ Dones(s, n + 1) = Cardinality(there) /\ Dones(s, 0) = 0
    BY <1>4, FS_EmptySet DEF Dones
<1> HIDE DEF here, there
<1>6. Cardinality(here \cup {n + 1}) = Cardinality(here) + 1
    BY <1>2, FS_AddElement
<1> QED
    BY <1>2, <1>3, <1>5, <1>6

\* More frames hold no fewer responses.
LEMMA DonesMonotone ==
    ASSUME NEW s, NEW m \in Nat, NEW n \in Nat, m <= n
    PROVE  Dones(s, m) <= Dones(s, n)
<1> DEFINE few == {k \in 1..m : s[k] = "response_done"}
           many == {k \in 1..n : s[k] = "response_done"}
<1>1. IsFiniteSet(1..n)
    BY FS_Interval
<1>2. IsFiniteSet(many) /\ few \subseteq many
    BY <1>1, FS_Subset
<1> QED
    BY <1>2, FS_Subset DEF Dones

\* What is said later does not change what was said.
LEMMA DonesKept ==
    ASSUME NEW S, NEW s \in Seq(S), NEW e \in S, NEW n \in Nat, n <= Len(s)
    PROVE  Dones(Append(s, e), n) = Dones(s, n)
<1>1. \A k \in 1..n : Append(s, e)[k] = s[k]
    OBVIOUS
<1>2. {k \in 1..n : Append(s, e)[k] = "response_done"} = {k \in 1..n : s[k] = "response_done"}
    BY <1>1
<1> QED
    BY <1>2 DEF Dones

\* The frames of one in hand.
LEMMA OneFramed ==
    ASSUME NEW n \in Nat
    PROVE  RT!Frames(<<n>>) \in Seq(Nat) /\ RT!Frames(<<>>) \in Seq(Nat) /\ <<>> \in Seq(Nat)
<1>1. <<n>> \in Seq(Nat) /\ <<>> \in Seq(Nat)
    OBVIOUS
<1>2. RT!Frames(<<n>>) = <<>> \/ RT!Frames(<<n>>) = <<n>>
    BY FramesOfOne
<1>3. RT!Frames(<<>>) = <<>>
    BY FramesOfOne
<1> QED
    BY <1>1, <1>2, <1>3

\* In a prefix of what is said every frame is at its place.
LEMMA PrefixPlaces ==
    ASSUME NEW s \in Seq(Nat), NEW n \in Nat, RT!IsPrefix(s, RT!Upto(n))
    PROVE  Len(s) <= n /\ \A k \in 1..Len(s) : s[k] = k
<1>1. Len(RT!Upto(n)) = n /\ RT!Upto(n) \in Seq(Nat) /\ \A k \in 1..n : RT!Upto(n)[k] = k
    BY UptoGrows DEF RT!Upto
<1>2. Len(s) \in Nat /\ Len(s) <= n /\ SubSeq(s, 1, Len(s)) = SubSeq(RT!Upto(n), 1, Len(s))
    BY <1>1 DEF RT!IsPrefix
<1>3. \A k \in 1..Len(s) : SubSeq(s, 1, Len(s))[k] = s[k]
    OBVIOUS
<1>4. \A k \in 1..Len(s) : SubSeq(RT!Upto(n), 1, Len(s))[k] = RT!Upto(n)[k]
    BY <1>1, <1>2
<1> QED
    BY <1>1, <1>2, <1>3, <1>4

\* A usage is reported with every response that is taken from the channel, before it is sent on.
LEMMA MeteringStep ==
    ASSUME Typed, Typed', Roles, Closing, Downward, Downward', Metering, [RT!Next]_RT!vars
    PROVE  Metering'
<1>a. /\ log \in Seq(Events) /\ client.heard \in Seq(Nat) /\ Len(client.heard) \in Nat
      /\ provider.spoken \in Seq({"delta", "response_done"}) /\ Len(provider.spoken) \in Nat
    BY DEF Typed, ClientTyped, ProviderTyped
<1>b. /\ Dones(provider.spoken, Len(client.heard)) <= RT!Count(log, "usage")
      /\ RT!Count(log, "usage") <= Dones(provider.spoken, Len(provider.spoken))
      /\ Receiving => RT!Count(log, "usage")
             = Dones(provider.spoken, Len(client.heard) + Len(RT!Frames(RT!InHand({"forward"}))))
    BY DEF Metering
<1>c. RT!Frames(<<>>) = <<>> /\ Len(<<>>) = 0 /\ RT!Count(log, "usage") \in Nat
    <2>1. "usage" \in Events
        BY DEF Events
    <2> QED
        BY <1>a, <2>1, FramesOfOne, CountAppend
<1>s. ASSUME client'.heard = client.heard, provider'.spoken = provider.spoken,
             log' = log \/ log' = Append(log, "completed") \/ log' = Append(log, "failed"),
             Receiving' => Receiving /\ RT!InHand({"forward"})' = RT!InHand({"forward"})
      PROVE  Metering'
    <2>1. RT!Count(log', "usage") = RT!Count(log, "usage")
        <3>1. "completed" \in Events /\ "failed" \in Events /\ "completed" # "usage" /\ "failed" # "usage"
            BY DEF Events
        <3>2. RT!Count(Append(log, "completed"), "usage") = RT!Count(log, "usage")
            BY <1>a, <3>1, CountAppend
        <3>3. RT!Count(Append(log, "failed"), "usage") = RT!Count(log, "usage")
            BY <1>a, <3>1, CountAppend
        <3> QED
            BY <1>s, <3>2, <3>3
    <2> QED
        BY <1>b, <1>s, <2>1 DEF Metering
<1>1. CASE RT!Say
    BY <1>1, SayFields, <1>s DEF Receiving, RT!Probing, RT!Pumping, RT!InHand
<1>2. CASE RT!HangUp
    BY <1>2, HangUpFields, <1>s DEF Receiving, RT!Probing, RT!Pumping, RT!InHand
<1>3. CASE RT!Handle
    <2>1. core.pc = "handshake" /\ core'.pc \in {"probe", "open"} /\ client' = client
          /\ provider'.spoken = provider.spoken
        BY <1>3, HandleFields
    <2>2. client.heard = <<>> /\ provider.spoken = <<>>
        BY <2>1, Roles DEF Roles
    <2>3. log' = <<"started">> \/ log' = <<"started", "routed">>
        BY <1>3, HandleFields
    <2>4. RT!Count(log', "usage") = 0
        <3>1. {k \in DOMAIN log' : log'[k] = "usage"} = {}
            BY <2>3
        <3> QED
            BY <3>1, FS_EmptySet, CountIs
    <2>5. RT!InHand({"forward"})' = <<>>
        BY <2>1 DEF RT!InHand
    <2>6. Dones(provider.spoken, 0) = 0
        BY DonesFacts
    <2> QED
        BY <1>c, <2>1, <2>2, <2>4, <2>5, <2>6 DEF Metering
<1>4. CASE RT!ProbeFrame
    BY <1>4, ProbeFrameFields, <1>s DEF Receiving, RT!Probing, RT!Pumping, RT!InHand
<1>5. CASE RT!ProbeSend
    BY <1>5, ProbeSendFields, <1>s DEF Receiving, RT!Probing, RT!Pumping, RT!InHand
<1>6. CASE RT!ProbeHangUp
    BY <1>6, ProbeHangUpFields, <1>s DEF Receiving, RT!Probing, RT!Pumping, RT!InHand
<1>7. CASE RT!ProbeEnds
    BY <1>7, ProbeEndsFields, <1>s DEF Receiving, RT!Probing, RT!Pumping, RT!InHand
<1>8. CASE RT!Receive
    <2> DEFINE wire == Head(peer.outbound)
               n == Len(client.heard)
    <2>1. /\ core.pc \in {"probe", "pump"} /\ peer.outbound # <<>> /\ core'.pc = "forward"
          /\ core'.frame = wire /\ client' = client /\ provider' = provider
          /\ log' = IF wire # RT!Close /\ provider.spoken[wire] = "response_done"
                    THEN Append(log, "usage") ELSE log
        BY <1>8, ReceiveFields
    <2>2. wire \in Nat /\ peer'.outbound \in Seq(Nat)
        <3>1. peer.outbound \in Seq(Nat) /\ peer'.outbound \in Seq(Nat)
            BY DEF Typed, PeerTyped
        <3> QED
            BY <2>1, <3>1
    <2>3. RT!Count(log, "usage") = Dones(provider.spoken, n + 0)
        BY <1>b, <1>c, <2>1 DEF Receiving, RT!Probing, RT!Pumping, RT!InHand
    <2>4. RT!InHand({"forward"})' = <<wire>> /\ Receiving'
        BY <2>1 DEF RT!InHand, Receiving, RT!Pumping
    <2> HIDE DEF wire
    <2>5. CASE wire = RT!Close
        <3>1. RT!Frames(<<wire>>) = <<>> /\ log' = log
            BY <2>1, <2>2, <2>5, FramesOfOne
        <3> QED
            BY <1>b, <1>c, <2>1, <2>3, <2>4, <3>1 DEF Metering
    <2>6. CASE wire # RT!Close
        <3>1. RT!Frames(<<wire>>) = <<wire>> /\ Len(<<wire>>) = 1
            BY <2>2, <2>6, FramesOfOne
        <3>2. RT!Frames(peer'.outbound) \in Seq(Nat) /\ Pending' \in Seq(Nat)
            <4>1. provider'.pc = "out" => provider'.frame \in Nat
                BY <2>1, Roles DEF Roles
            <4>2. Pending' \in Seq(Nat)
                BY <4>1, OneFramed DEF Pending
            <4>3. CloseLast(peer'.outbound)
                BY <1>8, ReceiveFields, <2>1, Typed, Closing, ChannelFacts
                DEF Closing, Typed, PeerTyped
            <4> QED
                BY <2>2, <4>2, <4>3, FramesFacts
        <3>3. client.heard \o <<wire>> \o RT!Frames(peer'.outbound) \o Pending' = RT!Upto(Len(provider.spoken))
            BY <2>1, <2>4, <3>1 DEF Downward
        <3>4. client.heard \o <<wire>> = Append(client.heard, wire) /\ Append(client.heard, wire) \in Seq(Nat)
            BY <1>a, <2>2, AppendIsConcat
        <3> DEFINE told == Append(client.heard, wire)
        <3>5. Len(told) = n + 1 /\ told[n + 1] = wire
            BY <1>a, <2>2
        <3> HIDE DEF told
        <3>6. told \o (RT!Frames(peer'.outbound) \o Pending') = RT!Upto(Len(provider.spoken))
              /\ RT!Frames(peer'.outbound) \o Pending' \in Seq(Nat) /\ told \in Seq(Nat)
            <4>1. told \in Seq(Nat) /\ told \o RT!Frames(peer'.outbound) \o Pending' = RT!Upto(Len(provider.spoken))
                BY <3>3, <3>4 DEF told
            <4> QED
                BY <3>2, <4>1, Regroup, Joined
        <3>7. RT!IsPrefix(told, RT!Upto(Len(provider.spoken)))
            BY <1>a, <3>6, FirstIsPrefix
        <3>8. n + 1 <= Len(provider.spoken) /\ wire = n + 1
            BY <1>a, <3>5, <3>6, <3>7, PrefixPlaces, SMTT(30)
        <3>9. /\ Dones(provider.spoken, n) \in Nat
              /\ Dones(provider.spoken, n + 1) = IF provider.spoken[n + 1] = "response_done"
                                                 THEN Dones(provider.spoken, n) + 1 ELSE Dones(provider.spoken, n)
              /\ Dones(provider.spoken, n + 1) <= Dones(provider.spoken, Len(provider.spoken))
            <4>1. /\ Dones(provider.spoken, n) \in Nat
                  /\ Dones(provider.spoken, n + 1) = IF provider.spoken[n + 1] = "response_done"
                                                     THEN Dones(provider.spoken, n) + 1 ELSE Dones(provider.spoken, n)
                BY <1>a, DonesFacts
            <4>2. n + 1 \in Nat
                BY <1>a
            <4>3. Dones(provider.spoken, n + 1) <= Dones(provider.spoken, Len(provider.spoken))
                BY <1>a, <3>8, <4>2, DonesMonotone
            <4> QED
                BY <4>1, <4>3
        <3>10. RT!Count(log', "usage") = Dones(provider.spoken, n + 1)
            <4>1. "usage" \in Events
                BY DEF Events
            <4>2. RT!Count(Append(log, "usage"), "usage") = RT!Count(log, "usage") + 1
                BY <1>a, <4>1, CountAppend
            <4> QED
                BY <1>a, <2>1, <2>3, <2>6, <3>8, <3>9, <4>2
        <3>11. Dones(provider.spoken, n) <= Dones(provider.spoken, n + 1)
            BY <1>a, n + 1 \in Nat, n <= n + 1, DonesMonotone
        <3> QED
            BY <2>1, <2>4, <3>1, <3>9, <3>10, <3>11 DEF Metering
    <2> QED
        BY <2>5, <2>6
<1>9. CASE RT!Forward
    <2>1. /\ core.pc = "forward" /\ provider' = provider /\ log' = log
          /\ core'.pc \in {"pump", "farewell"}
        BY <1>9, ForwardFields
    <2>2. core.frame \in Nat
        BY <2>1, Roles DEF Roles
    <2>3. RT!Count(log, "usage") = Dones(provider.spoken, Len(client.heard) + Len(RT!Frames(<<core.frame>>)))
        BY <1>b, <2>1 DEF Receiving, RT!Pumping, RT!InHand
    <2>4. CASE core'.pc = "farewell" /\ client'.heard = client.heard
        BY <1>s, <2>1, <2>4 DEF Receiving, RT!Probing, RT!Pumping
    <2>5. CASE core.frame # RT!Close /\ core'.pc = "pump" /\ client'.heard = Append(client.heard, core.frame)
        <3>1. Len(client'.heard) = Len(client.heard) + 1
            BY <1>a, <2>2, <2>5
        <3>2. RT!Frames(<<core.frame>>) = <<core.frame>> /\ Len(<<core.frame>>) = 1
            BY <2>2, <2>5, FramesOfOne
        <3>3. Len(client'.heard) + 0 = Len(client'.heard)
            BY <1>a, <3>1
        <3>4. RT!Count(log, "usage") = Dones(provider.spoken, Len(client'.heard))
            BY <2>3, <3>1, <3>2
        <3>5. RT!InHand({"forward"})' = <<>>
            BY <2>5 DEF RT!InHand
        <3> QED
            BY <1>b, <1>c, <2>1, <3>3, <3>4, <3>5 DEF Metering
    <2> QED
        BY <1>9, ForwardFields, <2>4, <2>5
<1>10. CASE RT!PumpFrame
    BY <1>10, PumpFrameFields, <1>s DEF Receiving, RT!Probing, RT!Pumping, RT!InHand
<1>11. CASE RT!PumpSend
    BY <1>11, PumpSendFields, <1>s DEF Receiving, RT!Probing, RT!Pumping, RT!InHand
<1>12. CASE RT!PumpEnds
    BY <1>12, PumpEndsFields, <1>s DEF Receiving, RT!Probing, RT!Pumping, RT!InHand
<1>13. CASE RT!Farewell
    BY <1>13, FarewellFields, <1>s DEF Receiving, RT!Probing, RT!Pumping, RT!InHand
<1>14. CASE RT!Join
    BY <1>14, JoinFields, <1>s DEF Receiving, RT!Probing, RT!Pumping, RT!InHand
<1>15. CASE RT!BridgeOpens
    BY <1>15, BridgeOpensFields, <1>s DEF Receiving, RT!Probing, RT!Pumping, RT!InHand
<1>16. CASE RT!BridgeFrame
    BY <1>16, BridgeFrameFields, <1>s DEF Receiving, RT!Probing, RT!Pumping, RT!InHand
<1>17. CASE RT!BridgeHangUp
    BY <1>17, BridgeHangUpFields, <1>s DEF Receiving, RT!Probing, RT!Pumping, RT!InHand
<1>18. CASE RT!TurnRefused
    BY <1>18, TurnRefusedFields, <1>s DEF Receiving, RT!Probing, RT!Pumping, RT!InHand
<1>19. CASE RT!TurnChunk
    BY <1>19, TurnChunkFields, <1>s DEF Receiving, RT!Probing, RT!Pumping, RT!InHand
<1>20. CASE RT!TurnEnds
    BY <1>20, TurnEndsFields, <1>s DEF Receiving, RT!Probing, RT!Pumping, RT!InHand
<1>21. CASE RT!Dial
    BY <1>21, DialFields, <1>s DEF Receiving, RT!Probing, RT!Pumping, RT!InHand
<1>22. CASE RT!TakeInbound
    BY <1>22, TakeInboundFields, <1>s DEF Receiving, RT!Probing, RT!Pumping, RT!InHand
<1>23. CASE RT!InboundDropped
    BY <1>23, InboundDroppedFields, <1>s DEF Receiving, RT!Probing, RT!Pumping, RT!InHand
<1>24. CASE RT!UpstreamSpeaks
    <2> DEFINE n == Len(provider.spoken)
               hand == Len(client.heard) + Len(RT!Frames(RT!InHand({"forward"})))
    <2>1. /\ client' = client /\ core' = core /\ peer' = peer /\ log' = log
        BY <1>24, UpstreamSpeaksFields
    <2>2. PICK frame \in {"delta", "response_done"} : provider'.spoken = Append(provider.spoken, frame)
        BY <1>24, UpstreamSpeaksFields
    <2>k. ASSUME NEW m \in Nat, m <= n
          PROVE  Dones(provider'.spoken, m) = Dones(provider.spoken, m)
        <3> DEFINE said == provider.spoken
                   S == {"delta", "response_done"}
        <3>1. said \in Seq(S) /\ frame \in S /\ m <= Len(said)
            BY <1>a, <2>k
        <3> HIDE DEF said, S
        <3>2. Dones(Append(said, frame), m) = Dones(said, m)
            BY <3>1, DonesKept
        <3> QED
            BY <2>2, <3>2 DEF said
    <2>3. Len(provider'.spoken) = n + 1 /\ Dones(provider'.spoken, n) = Dones(provider.spoken, n)
        BY <1>a, <2>2, <2>k
    <2>4. Dones(provider'.spoken, n) <= Dones(provider'.spoken, n + 1)
          /\ Dones(provider'.spoken, n) \in Nat /\ Dones(provider'.spoken, n + 1) \in Nat
        <3>1. n + 1 \in Nat /\ n <= n + 1
            BY <1>a
        <3>2. Dones(provider'.spoken, n) <= Dones(provider'.spoken, n + 1)
            BY <1>a, <3>1, DonesMonotone
        <3> QED
            BY <1>a, <3>1, <3>2, DonesFacts
    <2>5. Dones(provider'.spoken, Len(client.heard)) = Dones(provider.spoken, Len(client.heard))
        <3>1. Len(client.heard) <= n
            BY <1>a, Downward, PrefixPlaces DEF Downward
        <3> QED
            BY <1>a, <2>k, <3>1
    <2>6. ASSUME Receiving
          PROVE  Dones(provider'.spoken, hand) = Dones(provider.spoken, hand)
        <3>1. /\ RT!Frames(RT!InHand({"forward"})) \in Seq(Nat) /\ RT!Frames(peer.outbound) \in Seq(Nat)
              /\ Pending \in Seq(Nat)
            <4>1. core.pc = "forward" => core.frame \in Nat
                BY Roles DEF Roles
            <4>2. RT!Frames(RT!InHand({"forward"})) \in Seq(Nat)
                BY <1>c, <4>1, OneFramed DEF RT!InHand
            <4>3. provider.pc = "out" => provider.frame \in Nat
                BY Roles DEF Roles
            <4>4. Pending \in Seq(Nat)
                BY <4>3, OneFramed DEF Pending
            <4> QED
                BY <4>2, <4>4, Typed, Closing, FramesFacts DEF Typed, PeerTyped, Closing
        <3> DEFINE f == RT!Frames(RT!InHand({"forward"}))
                   o == RT!Frames(peer.outbound)
                   p == Pending
        <3>2. client.heard \o f \o o \o p = RT!Upto(n)
            BY <2>6 DEF Downward
        <3> HIDE DEF f, o, p, n
        <3>3. Len(client.heard \o f \o o \o p) = Len(client.heard) + Len(f) + Len(o) + Len(p)
              /\ Len(f) \in Nat /\ Len(o) \in Nat /\ Len(p) \in Nat
            BY <1>a, <3>1 DEF f, o, p
        <3>4. Len(RT!Upto(n)) = n /\ n \in Nat
            BY <1>a, UptoGrows DEF n
        <3>5. hand <= n /\ hand \in Nat
            BY <1>a, <3>2, <3>3, <3>4 DEF f
        <3> QED
            BY <2>k, <3>5
    <2>7. RT!InHand({"forward"})' = RT!InHand({"forward"}) /\ (Receiving' => Receiving)
        BY <2>1 DEF RT!InHand, Receiving, RT!Probing, RT!Pumping
    <2> QED
        BY <1>b, <1>c, <2>1, <2>3, <2>4, <2>5, <2>6, <2>7 DEF Metering
<1>25. CASE RT!UpstreamCloses
    BY <1>25, UpstreamClosesFields, <1>s DEF Receiving, RT!Probing, RT!Pumping, RT!InHand
<1>26. CASE RT!UpstreamFails
    BY <1>26, UpstreamFailsFields, <1>s DEF Receiving, RT!Probing, RT!Pumping, RT!InHand
<1>27. CASE RT!PutOutbound
    BY <1>27, PutOutboundFields, <1>s DEF Receiving, RT!Probing, RT!Pumping, RT!InHand
<1>28. CASE UNCHANGED RT!vars
    BY <1>28, <1>s DEF RT!vars, Receiving, RT!Probing, RT!Pumping, RT!InHand
<1> QED
    BY <1>1, <1>2, <1>3, <1>4, <1>5, <1>6, <1>7, <1>8, <1>9, <1>10, <1>11, <1>12, <1>13, <1>14,
       <1>15, <1>16, <1>17, <1>18, <1>19, <1>20, <1>21, <1>22, <1>23, <1>24, <1>25, <1>26, <1>27,
       <1>28
    DEF RT!Next, RT!Core, RT!Native, RT!Bridge, RT!Provider, RT!Obliging

-----------------------------------------------------------------------------
(* Which target serves a session. *)

\* The first of some places in a chain is one of them.
LEMMA LeastPlace ==
    ASSUME NEW T \in SUBSET Nat, T # {}
    PROVE  RT!Min(T) \in T
<1> DEFINE R == OpToRel(<, Nat)
<1>1. \A x, y \in Nat : <<y, x>> \in R <=> y < x
    BY DEF OpToRel
<1>2. IsWellFoundedOn(R, Nat)
    BY NatLessThanWellFounded
<1> HIDE DEF R
<1>3. PICK n \in T : \A k \in T : ~(<<k, n>> \in R)
    BY <1>2, WFMin
<1>4. ASSUME NEW k \in T
      PROVE  n =< k
    <2>1. n \in Nat /\ k \in Nat /\ ~(<<k, n>> \in R)
        BY <1>3
    <2>2. ~(k < n)
        BY <1>1, <2>1
    <2> QED
        BY <2>1, <2>2
<1> QED
    BY <1>3, <1>4 DEF RT!Min

\* A chain has every target somewhere.
LEMMA ChainWhole ==
    ASSUME IsFiniteSet(Targets), NEW chain \in RT!SetToSeqs(Targets)
    PROVE  /\ DOMAIN chain \subseteq Nat
           /\ \A k \in DOMAIN chain : chain[k] \in Targets
           /\ \A t \in Targets : \E k \in DOMAIN chain : chain[k] = t
<1> DEFINE n == Cardinality(Targets)
<1>1. n \in Nat
    BY FS_CardinalityType
<1>2. chain \in [1..n -> Targets] /\ \A i, j \in 1..n : i # j => chain[i] # chain[j]
    BY SameCardinality DEF RT!SetToSeqs
<1>3. chain \in Injection(1..n, Targets)
    BY <1>2 DEF Injection, IsInjective
<1>4. Cardinality(1..n) = n
    <2>1. 1 \in Int /\ n \in Int
        BY <1>1
    <2> HIDE DEF n
    <2>2. Cardinality(1..n) = IF 1 > n THEN 0 ELSE n - 1 + 1
        BY <2>1, FS_Interval
    <2> QED
        BY <1>1, <2>2
<1>5. chain \in Surjection(1..n, Targets)
    <2> HIDE DEF n
    <2>1. Cardinality(1..n) = Cardinality(Targets)
        BY <1>4 DEF n
    <2> QED
        BY <1>3, <2>1, FS_Injection
<1>6. \A t \in Targets : \E k \in 1..n : chain[k] = t
    BY <1>5 DEF Surjection
<1> QED
    BY <1>1, <1>2, <1>6

\* engine.rs realtime_target, for every chain and every set of capable targets.
LEMMA TargetChosen ==
    ASSUME IsFiniteSet(Targets), None \notin Targets, NEW pick \in RT!Picks
    PROVE  LET able == pick.registered \cap pick.capable
               target == RT!RealtimeTarget(pick)
           IN /\ target = None <=> able = {}
              /\ target # None => target \in able
              /\ target \in pick.down => able \subseteq pick.down
<1> DEFINE able == pick.registered \cap pick.capable
           ready == RT!Eligible(pick, TRUE)
           all == RT!Eligible(pick, FALSE)
           eligible == IF ready # {} THEN ready ELSE all
<1>1. pick.chain \in RT!SetToSeqs(Targets) /\ pick.registered \subseteq Targets /\ able \subseteq Targets
      /\ pick.down \subseteq Targets
    BY DEF RT!Picks
<1>2. /\ DOMAIN pick.chain \subseteq Nat
      /\ \A k \in DOMAIN pick.chain : pick.chain[k] \in Targets
      /\ \A t \in Targets : \E k \in DOMAIN pick.chain : pick.chain[k] = t
    BY <1>1, ChainWhole
<1>3. ready = {k \in DOMAIN pick.chain : pick.chain[k] \in able \ pick.down}
      /\ all = {k \in DOMAIN pick.chain : pick.chain[k] \in able}
    BY DEF RT!Eligible
<1>4. RT!RealtimeTarget(pick) = IF eligible = {} THEN None ELSE pick.chain[RT!Min(eligible)]
    BY DEF RT!RealtimeTarget
<1> HIDE DEF able, ready, all
<1>5. eligible \subseteq DOMAIN pick.chain /\ eligible \in SUBSET Nat
    BY <1>2, <1>3
<1> HIDE DEF eligible
<1>6. eligible # {} => RT!Min(eligible) \in eligible
    BY <1>5, LeastPlace
<1>7. eligible = {} <=> able = {}
    BY <1>1, <1>2, <1>3 DEF eligible
<1>8. \A k \in eligible : pick.chain[k] \in able /\ pick.chain[k] # None
    BY <1>1, <1>3 DEF eligible
<1>9. ASSUME eligible # {}, pick.chain[RT!Min(eligible)] \in pick.down
      PROVE  able \subseteq pick.down
    BY <1>1, <1>2, <1>3, <1>6, <1>9, ZenonT(30) DEF eligible
<1>10. None \notin pick.down
    BY <1>1
<1> QED
    BY <1>4, <1>6, <1>7, <1>8, <1>9, <1>10 DEF able

-----------------------------------------------------------------------------
(* The inductive invariant, and what it says. *)

\* What the proofs assume of the constants.
SessionAssumption ==
    /\ Capacity \in Nat /\ MAX_REALTIME_REPLAY_BYTES \in Nat
    /\ None \notin Nat /\ IsFiniteSet(Targets) /\ None \notin Targets

SessionInv == Typed /\ Roles /\ Closing /\ Upward /\ Downward /\ Bounds /\ Bracketing /\ Metering

\* A session starts with nothing said, nothing kept and nothing on the bus.
LEMMA SessionStarts ==
    ASSUME SessionAssumption, RT!Init
    PROVE  SessionInv
<1>1. /\ client.said = 0 /\ client.read = 0 /\ client.heard = <<>> /\ client.gone = FALSE
      /\ DOMAIN client = {"said", "read", "heard", "gone"}
    BY DEF RT!Init
<1>2. /\ core.pc = "handshake" /\ core.pick \in RT!Picks /\ core.frame = None /\ core.replay = <<>>
      /\ core.bytes = 0 /\ DOMAIN core = {"pc", "pick", "frame", "replay", "bytes"}
    BY DEF RT!Init
<1>3. peer.inbound = <<>> /\ peer.outbound = <<>> /\ DOMAIN peer = {"inbound", "outbound"}
    BY DEF RT!Init
<1>4. /\ provider.pc = "none" /\ provider.wrote = <<>> /\ provider.spoken = <<>>
      /\ provider.failed = FALSE
      /\ DOMAIN provider = {"pc", "frame", "wrote", "spoken", "failed"}
    BY DEF RT!Init
<1>5. session = RT!NewSession /\ session.handled = <<>> /\ turn = RT!NoTurn /\ turn.open = FALSE /\ log = <<>>
    BY DEF RT!Init, RT!NewSession, RT!NoTurn
<1>6. <<>> \in Seq(Nat) /\ <<>> \in Seq({"delta", "response_done"}) /\ <<>> \in Seq(Events)
      /\ Len(<<>>) = 0 /\ DOMAIN <<>> = {} /\ 0 \in Nat
    OBVIOUS
<1>7. Typed
    BY <1>1, <1>2, <1>3, <1>4, <1>5, <1>6
    DEF Typed, ClientTyped, CoreTyped, PeerTyped, ProviderTyped, SessionTyped, TurnTyped, CorePcs,
        ProviderPcs
<1>8. Roles
    BY <1>1, <1>2, <1>3, <1>4, <1>5 DEF Roles, RT!Bridging, Sends
<1>9. Closing
    BY <1>2, <1>3, <1>6 DEF Closing, CloseLast, NoClose
<1>10. RT!IsPrefix(<<>>, RT!Upto(0))
    BY UptoZero, <1>6 DEF RT!IsPrefix
<1>11. Upward
    BY <1>1, <1>2, <1>4, <1>10 DEF Upward, Living, RT!Probing, RT!Bridging
<1>12. Downward
    BY <1>1, <1>2, <1>4, <1>6, <1>10 DEF Downward, Receiving, RT!Probing, RT!Pumping, RT!Bridging
<1>13. Bounds
    BY <1>1, <1>3, <1>5, <1>6 DEF Bounds, SessionAssumption
<1>14. Bracketing
    BY <1>2, <1>5, <1>6 DEF Bracketing
<1>15. Metering
    <2>1. RT!Count(<<>>, "usage") = 0
        <3>1. {k \in DOMAIN <<>> : <<>>[k] = "usage"} = {}
            BY <1>6
        <3> QED
            BY <3>1, FS_EmptySet, CountIs
    <2>2. Dones(<<>>, 0) = 0
        BY DonesFacts
    <2> QED
        BY <1>1, <1>2, <1>4, <1>5, <1>6, <2>1, <2>2
        DEF Metering, Receiving, RT!Probing, RT!Pumping
<1> QED
    BY <1>7, <1>8, <1>9, <1>11, <1>12, <1>13, <1>14, <1>15 DEF SessionInv

\* Every step of the consumer, the core and the provider keeps it.
LEMMA SessionSteps ==
    ASSUME SessionAssumption, SessionInv, [RT!Next]_RT!vars
    PROVE  SessionInv'
<1>1. Typed /\ Roles /\ Closing /\ Upward /\ Downward /\ Bounds /\ Bracketing /\ Metering
    BY DEF SessionInv
<1>2. Typed'
    BY <1>1, TypedStep
<1>3. Roles'
    BY <1>1, <1>2, RolesStep DEF SessionAssumption
<1>4. Closing'
    BY <1>1, <1>2, <1>3, ClosingStep DEF SessionAssumption
<1>5. Upward'
    BY <1>1, <1>2, <1>3, <1>4, UpwardStep DEF SessionAssumption
<1>6. Downward'
    BY <1>1, <1>2, <1>3, <1>4, DownwardStep DEF SessionAssumption
<1>7. Bounds'
    BY <1>1, <1>2, <1>3, BoundsStep DEF SessionAssumption
<1>8. Bracketing'
    BY <1>1, <1>2, BracketingStep
<1>9. Metering'
    BY <1>1, <1>2, <1>6, MeteringStep
<1> QED
    BY <1>2, <1>3, <1>4, <1>5, <1>6, <1>7, <1>8, <1>9 DEF SessionInv

\* The invariant holds throughout a session.
LEMMA SessionKept ==
    ASSUME SessionAssumption
    PROVE  RT!Spec => []SessionInv
<1>1. RT!Init => SessionInv
    BY SessionStarts
<1>2. SessionInv /\ [RT!Next]_RT!vars => SessionInv'
    BY SessionSteps
<1> QED
    BY <1>1, <1>2, PTL DEF RT!Spec

\* Type correctness of the session: no more is read than was said, and the channels stay within
\* their slots.
THEOREM SessionTypeOK ==
    ASSUME SessionAssumption
    PROVE  RT!Spec => []RT!TypeOK
<1>1. SessionInv => RT!TypeOK
    BY DEF SessionInv, Typed, ClientTyped, CoreTyped, ProviderTyped, CorePcs, ProviderPcs, Bounds,
           RT!TypeOK
<1> QED
    BY <1>1, SessionKept, PTL

\* engine.rs realtime_target: for every chain and every set of capable targets a session is
\* served natively whenever some target can, and by one that is cooling down only if they all are.
THEOREM SessionFailsOpen ==
    ASSUME SessionAssumption
    PROVE  RT!Spec => []RT!FailsOpen
<1>1. SessionInv => RT!FailsOpen
    <2> SUFFICES ASSUME SessionInv, core.pc = "handshake"
                 PROVE  RT!FailsOpen
        BY DEF RT!FailsOpen
    <2>1. core.pick \in RT!Picks
        BY DEF SessionInv, Roles
    <2> QED
        BY <2>1, TargetChosen DEF RT!FailsOpen, SessionAssumption
<1> QED
    BY <1>1, SessionKept, PTL

\* server.rs run_native_realtime: for every capacity and every replay limit no frame of the
\* consumer is lost, doubled or moved on its way to the upstream or to the bridge.
THEOREM SessionHeardWhole ==
    ASSUME SessionAssumption
    PROVE  RT!Spec => []RT!HeardWhole
<1>1. SessionInv => RT!HeardWhole
    <2> SUFFICES ASSUME SessionInv
                 PROVE  RT!HeardWhole
        OBVIOUS
    <2>1. Typed /\ Roles /\ Upward
        BY DEF SessionInv
    <2>2. (RT!Probing \/ RT!Pumping) /\ ~RT!Ended => Living
        BY <2>1
        DEF Typed, ProviderTyped, ProviderPcs, Roles, RT!Probing, RT!Pumping, RT!Ended, Living
    <2> QED
        BY <2>1, <2>2 DEF Upward, RT!HeardWhole, Sends
<1> QED
    BY <1>1, SessionKept, PTL

\* realtime_ws.rs run_realtime_session, server.rs forward_native_wire: the consumer is sent what
\* the upstream said, in order and to the end, unless it leaves or the end is seen in vain.
THEOREM SessionToldWhole ==
    ASSUME SessionAssumption
    PROVE  RT!Spec => []RT!ToldWhole
<1>1. SessionInv => RT!ToldWhole
    BY DEF SessionInv, Downward, RT!ToldWhole, Receiving, Pending
<1> QED
    BY <1>1, SessionKept, PTL

\* A session is bracketed once on the event bus, whoever serves it; one that broke after its
\* first frame is not reported as completed, and every response.done sent has its usage.
THEOREM SessionBracketed ==
    ASSUME SessionAssumption
    PROVE  RT!Spec => []RT!Bracketed
<1>1. SessionInv => RT!Bracketed
    <2> SUFFICES ASSUME SessionInv
                 PROVE  RT!Bracketed
        OBVIOUS
    <2>1. Typed /\ Downward /\ Bracketing /\ Metering
        BY DEF SessionInv
    <2>2. /\ client.heard \in Seq(Nat) /\ Len(client.heard) \in Nat /\ Len(provider.spoken) \in Nat
          /\ DOMAIN client.heard = 1..Len(client.heard) /\ DOMAIN provider.spoken = 1..Len(provider.spoken)
        BY <2>1 DEF Typed, ClientTyped, ProviderTyped
    <2>3. Len(client.heard) <= Len(provider.spoken) /\ \A k \in 1..Len(client.heard) : client.heard[k] = k
        BY <2>1, <2>2, PrefixPlaces DEF Downward
    <2> DEFINE told == [k \in DOMAIN client.heard |-> provider.spoken[client.heard[k]]]
    <2>4. DOMAIN told = 1..Len(client.heard)
          /\ \A k \in 1..Len(client.heard) : told[k] = provider.spoken[k]
        BY <2>2, <2>3
    <2> HIDE DEF told
    <2>5. RT!Count(told, "response_done") = Dones(provider.spoken, Len(client.heard))
        <3>1. {k \in DOMAIN told : told[k] = "response_done"}
                  = {k \in 1..Len(client.heard) : provider.spoken[k] = "response_done"}
            BY <2>4
        <3> QED
            BY <3>1, CountIs DEF Dones
    <2>6. RT!Count(provider.spoken, "response_done") = Dones(provider.spoken, Len(provider.spoken))
        BY <2>2, CountIs DEF Dones
    <2>7. RT!Count(told, "response_done") <= RT!Count(log, "usage")
          /\ RT!Count(log, "usage") <= RT!Count(provider.spoken, "response_done")
        BY <2>1, <2>5, <2>6 DEF Metering
    <2> QED
        BY <2>1, <2>7 DEF Bracketing, RT!Bracketed, told
<1> QED
    BY <1>1, SessionKept, PTL
=============================================================================
