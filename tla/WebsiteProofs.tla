---------------------------- MODULE WebsiteProofs ---------------------------
(***************************************************************************)
(* Proofs about Website for every set of addresses, tokens, flows and keys *)
(* and any number of failures, sessions and passes: that its counts count  *)
(* what they stand for, and that a lockout and a session end by what may   *)
(* end them.                                                               *)
(***************************************************************************)
EXTENDS Website, FiniteSetTheorems, TLAPS

\* The parts count as this module does.
LEMMA SameCardinality ==
    \A S : /\ Throttle!Cardinality(S) = Cardinality(S)
           /\ Limits!Cardinality(S) = Cardinality(S)
           /\ Sessions!Cardinality(S) = Cardinality(S)
BY DEF Throttle!Cardinality, Limits!Cardinality, Sessions!Cardinality, Cardinality

-----------------------------------------------------------------------------
(* The login throttle. *)

Failures == [age : 0..(WINDOW - 1), nth : Nat]
InFlight(ip) == {a \in Attempts : attempts[a] = ip}
Counted(ip) == entries[ip] # None /\ ~Throttle!Elapsed(entries[ip])
InWindow(ip) == {f \in recent[ip] : f.age <= entries[ip].age}

\* The failures of an address are told apart by their numbers in their tick.
RecentInv ==
    /\ recent \in [Addresses -> SUBSET Failures]
    /\ \A ip \in Addresses : IsFiniteSet(recent[ip])
    /\ \A ip \in Addresses : \A f \in Throttle!Fresh(ip) :
           f.nth < Cardinality(Throttle!Fresh(ip))

\* A spent budget leaves room for the attempts that were let through before.
BudgetInv ==
    \A ip \in Addresses :
        Counted(ip) /\ entries[ip].failures >= MAX_FAILURES =>
            entries[ip].failures + Cardinality(InFlight(ip))
                <= MAX_FAILURES + Cardinality(Attempts) - 1

\* A window that is not counted has seen no failure in this tick.
CountInv ==
    \A ip \in Addresses :
        /\ Counted(ip) => entries[ip].failures = Cardinality(InWindow(ip))
        /\ ~Counted(ip) => Throttle!Fresh(ip) = {}

ThrottleInv == Throttle!BudgetHolds /\ RecentInv /\ BudgetInv /\ CountInv

\* What an entry is.
LEMMA EntryFacts ==
    ASSUME Throttle!BudgetHolds, NEW ip \in Addresses, entries[ip] # None
    PROVE  /\ entries[ip] \in Throttle!Window
           /\ entries[ip].failures \in Nat /\ entries[ip].failures >= 1
           /\ entries[ip].age \in 0..WINDOW /\ entries[ip].age \in Nat
<1>0. MAX_FAILURES \in Nat /\ Cardinality(Attempts) \in Nat /\ WINDOW \in Nat \ {0}
    BY WebsiteAssumption, FS_CardinalityType
<1>1. entries[ip] \in Throttle!Window
    BY DEF Throttle!BudgetHolds
<1> QED
    BY <1>0, <1>1 DEF Throttle!Window

\* Attempts in flight are finitely many.
LEMMA InFlightFacts ==
    ASSUME NEW ip
    PROVE  /\ IsFiniteSet(InFlight(ip)) /\ Cardinality(InFlight(ip)) \in Nat
           /\ Cardinality(Attempts) \in Nat
           /\ Cardinality(InFlight(ip)) <= Cardinality(Attempts)
<1>1. IsFiniteSet(Attempts) /\ InFlight(ip) \subseteq Attempts
    BY WebsiteAssumption DEF InFlight
<1> QED
    BY <1>1, FS_Subset, FS_CardinalityType

\* One attempt fewer is in flight.
LEMMA LeaveFacts ==
    ASSUME Throttle!BudgetHolds, NEW a \in Attempts, NEW ip \in Addresses, attempts[a] = ip,
           attempts' = [attempts EXCEPT ![a] = None]
    PROVE  /\ Cardinality(InFlight(ip)') = Cardinality(InFlight(ip)) - 1
           /\ Cardinality(InFlight(ip)) >= 1
           /\ \A q \in Addresses : q # ip => InFlight(q)' = InFlight(q)
           /\ attempts' \in [Attempts -> {None} \cup Addresses]
<1>1. attempts \in [Attempts -> {None} \cup Addresses] /\ None \notin Addresses
    BY NullAssumption DEF Throttle!BudgetHolds
<1>2. a \in InFlight(ip) /\ InFlight(ip)' = InFlight(ip) \ {a}
    BY <1>1 DEF InFlight
<1>3. \A q \in Addresses : q # ip => InFlight(q)' = InFlight(q)
    BY <1>1 DEF InFlight
<1>4. Cardinality(InFlight(ip) \ {a}) = Cardinality(InFlight(ip)) - 1
    BY <1>2, InFlightFacts, FS_RemoveElement
<1>5. Cardinality(InFlight(ip) \ {a}) \in Nat /\ Cardinality(InFlight(ip)) \in Nat
    BY <1>2, InFlightFacts, FS_RemoveElement, FS_CardinalityType
<1> QED
    BY <1>1, <1>2, <1>3, <1>4, <1>5

\* What a failure leaves in the map: one more for its address, and no more of the others than an
\* entry whose window has elapsed.
LEMMA RecordFacts ==
    ASSUME Throttle!BudgetHolds, NEW ip \in Addresses, Throttle!RecordFailure(ip)
    PROVE  /\ entries'[ip] = Throttle!Count(entries[ip]) /\ Counted(ip)'
           /\ entries'[ip].age = IF Counted(ip) THEN entries[ip].age ELSE 0
           /\ entries'[ip].failures = IF Counted(ip) THEN entries[ip].failures + 1 ELSE 1
           /\ entries'[ip] = [failures |-> entries'[ip].failures, age |-> entries'[ip].age]
           /\ \A q \in Addresses : q # ip =>
                  \/ entries'[q] = entries[q]
                  \/ entries'[q] = None /\ ~Counted(q)
           /\ entries' = [q \in Addresses |-> entries'[q]]
<1>0. WINDOW \in Nat \ {0} /\ entries \in [Addresses -> {None} \cup Throttle!Window]
    BY WebsiteAssumption DEF Throttle!BudgetHolds
<1> DEFINE counted == [entries EXCEPT ![ip] = Throttle!Count(@)]
           c == Throttle!Count(entries[ip])
<1>1. /\ c.age = IF Counted(ip) THEN entries[ip].age ELSE 0
      /\ c.failures = IF Counted(ip) THEN entries[ip].failures + 1 ELSE 1
      /\ c = [failures |-> c.failures, age |-> c.age]
      /\ ~Throttle!Elapsed(c)
    <2>1. CASE Counted(ip)
        <3>1. entries[ip] \in Throttle!Window
            BY <1>0, <2>1 DEF Counted
        <3>2. c = [entries[ip] EXCEPT !.failures = @ + 1]
            BY <2>1 DEF Counted, Throttle!Count
        <3> QED
            BY <2>1, <3>1, <3>2 DEF Counted, Throttle!Window, Throttle!Elapsed
    <2>2. CASE ~Counted(ip)
        <3>1. c = [failures |-> 1, age |-> 0]
            BY <2>2 DEF Counted, Throttle!Count
        <3> QED
            BY <1>0, <2>2, <3>1 DEF Throttle!Elapsed
    <2> QED
        BY <2>1, <2>2
<1>2. c # None
    <2>1. CASE Counted(ip)
        <3>1. /\ entries[ip].failures \in Nat /\ entries[ip].age \in Nat
              /\ c = [failures |-> entries[ip].failures + 1, age |-> entries[ip].age]
            BY <1>0, <1>1, <2>1, EntryFacts DEF Counted
        <3> QED
            BY <3>1, NullAssumption
    <2>2. CASE ~Counted(ip)
        BY <1>1, <2>2, NullAssumption
    <2> QED
        BY <2>1, <2>2
<1>3. counted[ip] = c /\ counted = [q \in Addresses |-> counted[q]]
      /\ \A q \in Addresses : q # ip => counted[q] = entries[q]
    BY <1>0
<1> HIDE DEF counted, c
<1>4. entries' = counted \/ entries' = Throttle!Retain(counted)
    BY DEF Throttle!RecordFailure, counted
<1>5. entries' = [q \in Addresses |-> entries'[q]] /\ entries'[ip] = c
      /\ \A q \in Addresses : q # ip =>
             entries'[q] = entries[q] \/ (entries'[q] = None /\ ~Counted(q))
    BY <1>1, <1>2, <1>3, <1>4 DEF Throttle!Retain, Counted
<1> QED
    BY <1>1, <1>2, <1>5 DEF c, Counted

\* A failure is counted.
LEMMA FailStep ==
    ASSUME ThrottleInv, NEW a \in Attempts, Throttle!Fail(a)
    PROVE  ThrottleInv'
<1>0. /\ Throttle!BudgetHolds /\ RecentInv /\ BudgetInv /\ CountInv
      /\ MAX_FAILURES \in Nat \ {0} /\ WINDOW \in Nat \ {0} /\ None \notin Addresses
    BY WebsiteAssumption, NullAssumption DEF ThrottleInv
<1>1. PICK ip \in Addresses : attempts[a] = ip
    BY DEF Throttle!Fail, ThrottleInv, Throttle!BudgetHolds
<1>2. /\ Throttle!RecordFailure(ip) /\ attempts' = [attempts EXCEPT ![a] = None]
    BY <1>1 DEF Throttle!Fail
<1>3. /\ Cardinality(InFlight(ip)') = Cardinality(InFlight(ip)) - 1
      /\ \A q \in Addresses : q # ip => InFlight(q)' = InFlight(q)
      /\ attempts' \in [Attempts -> {None} \cup Addresses]
      /\ Cardinality(InFlight(ip)) \in Nat /\ Cardinality(InFlight(ip)) >= 1
      /\ Cardinality(Attempts) \in Nat /\ Cardinality(InFlight(ip)) <= Cardinality(Attempts)
    BY <1>0, <1>1, <1>2, LeaveFacts, InFlightFacts
<1>4. /\ Counted(ip)'
      /\ entries'[ip].age = IF Counted(ip) THEN entries[ip].age ELSE 0
      /\ entries'[ip].failures = IF Counted(ip) THEN entries[ip].failures + 1 ELSE 1
      /\ entries'[ip] = [failures |-> entries'[ip].failures, age |-> entries'[ip].age]
      /\ \A q \in Addresses : q # ip =>
             entries'[q] = entries[q] \/ (entries'[q] = None /\ ~Counted(q))
      /\ entries' = [q \in Addresses |-> entries'[q]]
    BY <1>0, <1>2, RecordFacts
<1>5. Counted(ip) => /\ entries[ip].failures \in Nat /\ entries[ip].failures >= 1
                     /\ entries[ip].age \in 0..WINDOW
    BY <1>0, EntryFacts DEF Counted
<1>6. \A q \in Addresses : q # ip =>
          (Counted(q)' <=> Counted(q)) /\ (Counted(q) => entries'[q] = entries[q])
    BY <1>4 DEF Counted
<1>7. /\ entries'[ip].failures \in 1..(MAX_FAILURES + Cardinality(Attempts) - 1)
      /\ entries'[ip].failures >= MAX_FAILURES =>
             entries'[ip].failures + Cardinality(InFlight(ip)')
                 <= MAX_FAILURES + Cardinality(Attempts) - 1
    <2>1. CASE Counted(ip) /\ entries[ip].failures >= MAX_FAILURES
        <3>1. entries[ip].failures + Cardinality(InFlight(ip))
                  <= MAX_FAILURES + Cardinality(Attempts) - 1
            BY <1>0, <2>1 DEF BudgetInv
        <3>2. entries'[ip].failures = entries[ip].failures + 1
            BY <1>4, <2>1
        <3> QED
            BY <1>0, <1>3, <1>5, <2>1, <3>1, <3>2
    <2>2. CASE ~(Counted(ip) /\ entries[ip].failures >= MAX_FAILURES)
        <3>1. entries'[ip].failures \in Nat /\ entries'[ip].failures >= 1
              /\ entries'[ip].failures <= MAX_FAILURES
            <4>1. CASE Counted(ip)
                BY <1>0, <1>4, <1>5, <2>2, <4>1
            <4>2. CASE ~Counted(ip)
                BY <1>0, <1>4, <4>2
            <4> QED
                BY <4>1, <4>2
        <3> QED
            BY <1>0, <1>3, <3>1
    <2> QED
        BY <2>1, <2>2
<1>8. Throttle!BudgetHolds'
    <2>1. entries'[ip].age \in 0..WINDOW
        <3>1. 0 \in 0..WINDOW
            BY <1>0
        <3> QED
            BY <1>4, <1>5, <3>1
    <2>2. entries'[ip] \in Throttle!Window
        <3>1. PICK n \in 1..(MAX_FAILURES + Cardinality(Attempts) - 1), age \in 0..WINDOW :
                  entries'[ip] = [failures |-> n, age |-> age]
            BY <1>4, <1>7, <2>1
        <3> QED
            BY <3>1, SameCardinality DEF Throttle!Window
    <2>3. entries \in [Addresses -> {None} \cup Throttle!Window]
        BY <1>0 DEF Throttle!BudgetHolds
    <2>4. \A q \in Addresses : entries'[q] \in {None} \cup Throttle!Window
        BY <1>4, <2>2, <2>3
    <2>5. entries' \in [Addresses -> {None} \cup Throttle!Window]
        BY <1>4, <2>4
    <2> QED
        BY <1>3, <2>5 DEF Throttle!BudgetHolds, Throttle!Window
<1>9. BudgetInv'
    <2> SUFFICES ASSUME NEW q \in Addresses, Counted(q)', entries'[q].failures >= MAX_FAILURES
                 PROVE  entries'[q].failures + Cardinality(InFlight(q)')
                            <= MAX_FAILURES + Cardinality(Attempts) - 1
        BY DEF BudgetInv
    <2>1. CASE q = ip
        BY <1>7, <2>1
    <2>2. CASE q # ip
        BY <1>0, <1>3, <1>6, <2>2 DEF BudgetInv
    <2> QED
        BY <2>1, <2>2
<1> DEFINE new == [age |-> 0, nth |-> Cardinality(Throttle!Fresh(ip))]
<1>10. /\ recent'[ip] = recent[ip] \cup {new}
       /\ \A q \in Addresses : q # ip => recent'[q] = recent[q]
       /\ DOMAIN recent' = Addresses /\ recent' = [recent EXCEPT ![ip] = recent[ip] \cup {new}]
    <2>1. recent' = [recent EXCEPT ![ip] = recent[ip] \cup {new}]
        <3>1. recent' = [recent EXCEPT
                  ![ip] = @ \cup {[age |-> 0, nth |-> Throttle!Cardinality(Throttle!Fresh(ip))]}]
            BY <1>2 DEF Throttle!RecordFailure
        <3> QED
            BY <3>1, SameCardinality
    <2>2. recent \in [Addresses -> SUBSET Failures]
        BY <1>0 DEF RecentInv
    <2> HIDE DEF new
    <2> QED
        BY <2>1, <2>2
<1>11. /\ IsFiniteSet(recent[ip]) /\ recent[ip] \subseteq Failures
       /\ IsFiniteSet(Throttle!Fresh(ip)) /\ Cardinality(Throttle!Fresh(ip)) \in Nat
    <2>1. IsFiniteSet(recent[ip]) /\ recent[ip] \subseteq Failures
          /\ Throttle!Fresh(ip) \subseteq recent[ip]
        BY <1>0 DEF RecentInv, Throttle!Fresh
    <2> QED
        BY <2>1, FS_Subset, FS_CardinalityType
<1>12. /\ new \in Failures /\ new \notin recent[ip] /\ new.age = 0
       /\ new.nth = Cardinality(Throttle!Fresh(ip))
    <2>1. \A f \in Throttle!Fresh(ip) : f.nth < Cardinality(Throttle!Fresh(ip))
        BY <1>0 DEF RecentInv
    <2>2. new \notin Throttle!Fresh(ip)
        BY <1>11, <2>1
    <2> QED
        BY <1>0, <1>11, <2>2 DEF Throttle!Fresh, Failures
<1> HIDE DEF new
<1>13. Throttle!Fresh(ip)' = Throttle!Fresh(ip) \cup {new} /\ new \notin Throttle!Fresh(ip)
       /\ \A q \in Addresses : q # ip => Throttle!Fresh(q)' = Throttle!Fresh(q)
    BY <1>10, <1>12 DEF Throttle!Fresh
<1>14. Cardinality(Throttle!Fresh(ip)') = Cardinality(Throttle!Fresh(ip)) + 1
    BY <1>11, <1>13, FS_AddElement
<1>15. RecentInv'
    <2>1. recent' \in [Addresses -> SUBSET Failures]
        BY <1>0, <1>10, <1>11, <1>12 DEF RecentInv
    <2>2. \A q \in Addresses : IsFiniteSet(recent'[q])
        BY <1>0, <1>10, <1>11, FS_AddElement DEF RecentInv
    <2>3. ASSUME NEW q \in Addresses, NEW f \in Throttle!Fresh(q)'
          PROVE  f.nth < Cardinality(Throttle!Fresh(q)')
        <3>1. CASE q # ip
            BY <1>0, <1>13, <2>3, <3>1 DEF RecentInv
        <3>2. CASE q = ip /\ f = new
            BY <1>11, <1>12, <1>14, <3>2
        <3>3. CASE q = ip /\ f # new
            <4>1. f \in Throttle!Fresh(ip)
                BY <1>13, <2>3, <3>3
            <4>2. f.nth < Cardinality(Throttle!Fresh(ip)) /\ f.nth \in Nat
                BY <1>0, <1>11, <4>1 DEF RecentInv, Throttle!Fresh, Failures
            <4> QED
                BY <1>11, <1>14, <3>3, <4>2
        <3> QED
            BY <3>1, <3>2, <3>3
    <2> QED
        BY <2>1, <2>2, <2>3 DEF RecentInv, Failures
<1>16. entries'[ip].failures = Cardinality(InWindow(ip)')
    <2>1. CASE Counted(ip)
        <3>1. entries'[ip].age = entries[ip].age /\ entries'[ip].failures = entries[ip].failures + 1
            BY <1>4, <2>1
        <3>2. InWindow(ip)' = InWindow(ip) \cup {new} /\ new \notin InWindow(ip)
            BY <1>5, <1>10, <1>12, <2>1, <3>1 DEF InWindow
        <3>3. IsFiniteSet(InWindow(ip))
            <4>1. InWindow(ip) \subseteq recent[ip]
                BY DEF InWindow
            <4> QED
                BY <1>11, <4>1, FS_Subset
        <3>4. Cardinality(InWindow(ip)') = Cardinality(InWindow(ip)) + 1
            BY <3>2, <3>3, FS_AddElement
        <3> QED
            BY <1>0, <2>1, <3>1, <3>4 DEF CountInv
    <2>2. CASE ~Counted(ip)
        <3>1. entries'[ip].age = 0 /\ entries'[ip].failures = 1 /\ Throttle!Fresh(ip) = {}
            BY <1>0, <1>4, <2>2 DEF CountInv
        <3>2. \A f \in recent'[ip] : f.age <= 0 <=> f.age = 0
            <4>1. \A f \in recent'[ip] : f.age \in Nat
                BY <1>10, <1>11, <1>12 DEF Failures
            <4> QED
                BY <4>1
        <3>3. InWindow(ip)' = Throttle!Fresh(ip)'
            BY <3>1, <3>2 DEF InWindow, Throttle!Fresh
        <3>4. InWindow(ip)' = {new}
            BY <1>13, <3>1, <3>3
        <3> QED
            BY <3>1, <3>4, FS_Singleton
    <2> QED
        BY <2>1, <2>2
<1>17. CountInv'
    <2>1. ASSUME NEW q \in Addresses
          PROVE  /\ Counted(q)' => entries'[q].failures = Cardinality(InWindow(q)')
                 /\ ~Counted(q)' => Throttle!Fresh(q)' = {}
        <3>1. CASE q = ip
            BY <1>4, <1>16, <3>1
        <3>2. CASE q # ip
            <4>1. Counted(q) => InWindow(q)' = InWindow(q)
                BY <1>6, <1>10, <3>2 DEF InWindow
            <4> QED
                BY <1>0, <1>6, <1>13, <3>2, <4>1 DEF CountInv
        <3> QED
            BY <3>1, <3>2
    <2> QED
        BY <2>1 DEF CountInv
<1> QED
    BY <1>8, <1>9, <1>15, <1>17 DEF ThrottleInv

\* A failure, and failures, one tick older.
Grow(f) == [f EXCEPT !.age = @ + 1]
Grown(S) == {Grow(f) : f \in S}

\* Growing older leaves as many.
LEMMA AgedFacts ==
    ASSUME NEW S \in SUBSET Failures, IsFiniteSet(S)
    PROVE  IsFiniteSet(Grown(S)) /\ Cardinality(Grown(S)) = Cardinality(S)
<1> DEFINE m == [f \in S |-> Grow(f)]
<1>1. \A f, g \in S : m[f] = m[g] => f = g
    <2> SUFFICES ASSUME NEW f \in S, NEW g \in S, m[f] = m[g]
                 PROVE  f = g
        OBVIOUS
    <2>1. f \in Failures /\ g \in Failures
        OBVIOUS
    <2>2. PICK a \in 0..(WINDOW - 1), i \in Nat : f = [age |-> a, nth |-> i]
        BY <2>1 DEF Failures
    <2>3. PICK b \in 0..(WINDOW - 1), j \in Nat : g = [age |-> b, nth |-> j]
        BY <2>1 DEF Failures
    <2>4. m[f] = [age |-> a + 1, nth |-> i] /\ m[g] = [age |-> b + 1, nth |-> j]
        BY <2>2, <2>3 DEF Grow
    <2>5. a + 1 = b + 1 /\ i = j
        BY <2>4
    <2>6. a \in Int /\ b \in Int
        BY <2>2, <2>3
    <2> QED
        BY <2>2, <2>3, <2>5, <2>6
<1>2. m \in Surjection(S, Grown(S))
    BY DEF Surjection, Grown
<1>3. m \in Injection(S, Grown(S))
    BY <1>1 DEF Injection, IsInjective, Grown
<1> HIDE DEF m
<1> QED
    BY <1>2, <1>3, FS_Surjection

\* Time passes: an elapsed window drops out of the counts, and of a counted one every failure is
\* one tick older.
LEMMA TickStep ==
    ASSUME ThrottleInv, Throttle!Tick
    PROVE  ThrottleInv'
<1>0. /\ Throttle!BudgetHolds /\ RecentInv /\ BudgetInv /\ CountInv
      /\ MAX_FAILURES \in Nat \ {0} /\ WINDOW \in Nat \ {0}
      /\ entries' = [ip \in Addresses |-> Throttle!Older(entries[ip])]
      /\ recent' = [ip \in Addresses |-> Throttle!Aged(recent[ip])]
      /\ attempts' = attempts
    BY WebsiteAssumption DEF ThrottleInv, Throttle!Tick
<1>1. ASSUME NEW ip \in Addresses
      PROVE  /\ entries'[ip] \in {None} \cup Throttle!Window
             /\ Counted(ip)' => /\ Counted(ip)
                                /\ entries'[ip].failures = entries[ip].failures
                                /\ entries'[ip].age = entries[ip].age + 1
                                /\ entries[ip].age \in Nat /\ entries[ip].age + 1 < WINDOW
    <2>1. entries'[ip] = Throttle!Older(entries[ip]) /\ entries[ip] \in {None} \cup Throttle!Window
        BY <1>0 DEF Throttle!BudgetHolds
    <2>2. CASE ~Counted(ip)
        <3>1. entries'[ip] = entries[ip]
            BY <2>1, <2>2 DEF Counted, Throttle!Older
        <3> QED
            BY <2>1, <2>2, <3>1 DEF Counted
    <2>3. CASE Counted(ip)
        <3>1. entries[ip] \in Throttle!Window /\ entries[ip].age \in Nat /\ entries[ip].age < WINDOW
            BY <1>0, <2>1, <2>3, EntryFacts DEF Counted, Throttle!Elapsed
        <3>2. entries'[ip] = [entries[ip] EXCEPT !.age = @ + 1]
            BY <2>1, <2>3 DEF Counted, Throttle!Older
        <3>3. /\ entries'[ip].failures = entries[ip].failures
              /\ entries'[ip].age = entries[ip].age + 1
              /\ entries'[ip] \in Throttle!Window
            BY <1>0, <3>1, <3>2 DEF Throttle!Window
        <3>4. Counted(ip)' => entries[ip].age + 1 < WINDOW
            BY <1>0, <3>1, <3>3 DEF Counted, Throttle!Elapsed
        <3> QED
            BY <2>3, <3>1, <3>3, <3>4
    <2> QED
        BY <2>2, <2>3
<1>2. Throttle!BudgetHolds'
    BY <1>0, <1>1 DEF Throttle!BudgetHolds, Throttle!Window
<1>3. BudgetInv'
    <2>1. \A ip \in Addresses : InFlight(ip)' = InFlight(ip)
        BY <1>0 DEF InFlight
    <2> QED
        BY <1>0, <1>1, <2>1 DEF BudgetInv
<1>4. ASSUME NEW ip \in Addresses
      PROVE  /\ recent'[ip] \subseteq Failures /\ IsFiniteSet(recent'[ip])
             /\ \A f \in recent'[ip] : f.age # 0
             /\ Counted(ip)' => Cardinality(InWindow(ip)') = Cardinality(InWindow(ip))
    <2> DEFINE young == {g \in recent[ip] : g.age + 1 < WINDOW}
    <2>1. recent[ip] \subseteq Failures /\ IsFiniteSet(recent[ip])
        BY <1>0 DEF RecentInv
    <2>2. recent'[ip] = Grown(young)
        BY <1>0 DEF Throttle!Aged, Grown, Grow
    <2>3. young \in SUBSET Failures /\ IsFiniteSet(young) /\ young \subseteq recent[ip]
        <3>1. young \subseteq recent[ip]
            OBVIOUS
        <3> QED
            BY <2>1, <3>1, FS_Subset
    <2>4. ASSUME NEW f \in recent[ip]
          PROVE  /\ f.age \in Nat /\ f.age < WINDOW /\ Grow(f).age = f.age + 1
                 /\ f.age + 1 < WINDOW => Grow(f) \in Failures
        <3>1. PICK m \in 0..(WINDOW - 1), i \in Nat : f = [age |-> m, nth |-> i]
            BY <2>1 DEF Failures
        <3>2. Grow(f) = [age |-> m + 1, nth |-> i] /\ m \in Nat /\ m < WINDOW
            BY <1>0, <3>1 DEF Grow
        <3>3. m + 1 < WINDOW => m + 1 \in 0..(WINDOW - 1)
            BY <1>0, <3>2
        <3> QED
            BY <3>1, <3>2, <3>3 DEF Failures
    <2>5. ASSUME NEW f \in recent'[ip]
          PROVE  f \in Failures /\ f.age # 0
        <3>1. PICK g \in young : f = Grow(g)
            BY <2>2, <2>5 DEF Grown
        <3>2. g \in recent[ip] /\ g.age + 1 < WINDOW
            OBVIOUS
        <3>3. g.age \in Nat /\ f.age = g.age + 1 /\ f \in Failures
            BY <2>4, <3>1, <3>2
        <3> QED
            BY <3>3
    <2>6. IsFiniteSet(recent'[ip])
        BY <2>2, <2>3, AgedFacts
    <2>7. ASSUME Counted(ip)'
          PROVE  Cardinality(InWindow(ip)') = Cardinality(InWindow(ip))
        <3>1. entries'[ip].age = entries[ip].age + 1 /\ entries[ip].age + 1 < WINDOW
              /\ entries[ip].age \in Nat
            BY <1>1, <2>7
        <3>2. ASSUME NEW f \in InWindow(ip)
              PROVE  f \in young /\ Grow(f).age <= entries'[ip].age
            <4>1. f \in recent[ip] /\ f.age <= entries[ip].age
                BY DEF InWindow
            <4>2. f.age \in Nat /\ Grow(f).age = f.age + 1
                BY <2>4, <4>1
            <4> QED
                BY <1>0, <3>1, <4>1, <4>2
        <3>3. ASSUME NEW f \in InWindow(ip)'
              PROVE  f \in Grown(InWindow(ip))
            <4>1. f \in recent'[ip] /\ f.age <= entries'[ip].age
                BY DEF InWindow
            <4>2. PICK g \in young : f = Grow(g)
                BY <2>2, <4>1 DEF Grown
            <4>3. g \in recent[ip] /\ g.age \in Nat /\ f.age = g.age + 1
                BY <2>4, <4>2
            <4>4. g \in InWindow(ip)
                BY <3>1, <4>1, <4>3 DEF InWindow
            <4> QED
                BY <4>2, <4>4 DEF Grown
        <3>4. ASSUME NEW f \in Grown(InWindow(ip))
              PROVE  f \in InWindow(ip)'
            <4>1. PICK g \in InWindow(ip) : f = Grow(g)
                BY DEF Grown
            <4>2. g \in young /\ f.age <= entries'[ip].age
                BY <3>2, <4>1
            <4>3. f \in recent'[ip]
                BY <2>2, <4>1, <4>2 DEF Grown
            <4> QED
                BY <4>2, <4>3 DEF InWindow
        <3>5. InWindow(ip)' = Grown(InWindow(ip))
            BY <3>3, <3>4
        <3>6. InWindow(ip) \in SUBSET Failures /\ IsFiniteSet(InWindow(ip))
            <4>1. InWindow(ip) \subseteq young
                BY <3>2
            <4> QED
                BY <2>3, <4>1, FS_Subset
        <3> QED
            BY <3>5, <3>6, AgedFacts
    <2> QED
        BY <2>5, <2>6, <2>7
<1>5. \A ip \in Addresses : Throttle!Fresh(ip)' = {}
    BY <1>4 DEF Throttle!Fresh
<1>6. RecentInv'
    BY <1>0, <1>4, <1>5 DEF RecentInv, Failures
<1>7. CountInv'
    BY <1>0, <1>1, <1>4, <1>5 DEF CountInv
<1> QED
    BY <1>2, <1>3, <1>6, <1>7 DEF ThrottleInv

\* What a success and a restart leave: nothing counted, nothing remembered.
LEMMA ForgetStep ==
    ASSUME ThrottleInv, NEW who \in SUBSET Addresses,
           attempts' \in [Attempts -> {None} \cup Addresses],
           \A ip \in Addresses : InFlight(ip)' \subseteq InFlight(ip),
           entries' = [ip \in Addresses |-> IF ip \in who THEN None ELSE entries[ip]],
           recent' = [ip \in Addresses |-> IF ip \in who THEN {} ELSE recent[ip]]
    PROVE  ThrottleInv'
<1>0. Throttle!BudgetHolds /\ RecentInv /\ BudgetInv /\ CountInv
    BY DEF ThrottleInv
<1>1. Throttle!BudgetHolds'
    BY <1>0 DEF Throttle!BudgetHolds, Throttle!Window
<1>2. \A ip \in Addresses : Counted(ip)' =>
          ip \notin who /\ Counted(ip) /\ entries'[ip] = entries[ip]
    BY DEF Counted
<1>3. RecentInv'
    <2>1. /\ recent' \in [Addresses -> SUBSET Failures]
          /\ \A ip \in Addresses : IsFiniteSet(recent'[ip])
        BY <1>0, FS_EmptySet DEF RecentInv
    <2>2. \A ip \in Addresses : Throttle!Fresh(ip)' = IF ip \in who THEN {} ELSE Throttle!Fresh(ip)
        BY DEF Throttle!Fresh
    <2> QED
        BY <1>0, <2>1, <2>2 DEF RecentInv, Failures
<1>4. BudgetInv'
    <2> SUFFICES ASSUME NEW ip \in Addresses, Counted(ip)', entries'[ip].failures >= MAX_FAILURES
                 PROVE  entries'[ip].failures + Cardinality(InFlight(ip)')
                            <= MAX_FAILURES + Cardinality(Attempts) - 1
        BY DEF BudgetInv
    <2>1. Cardinality(InFlight(ip)') <= Cardinality(InFlight(ip))
          /\ Cardinality(InFlight(ip)') \in Nat
        BY InFlightFacts, FS_Subset, FS_CardinalityType
    <2>2. entries[ip].failures + Cardinality(InFlight(ip))
              <= MAX_FAILURES + Cardinality(Attempts) - 1
          /\ entries'[ip].failures = entries[ip].failures
        BY <1>0, <1>2 DEF BudgetInv
    <2>3. entries[ip].failures \in Nat
        BY <1>0, <1>2, EntryFacts DEF Counted
    <2> QED
        BY <2>1, <2>2, <2>3, InFlightFacts, WebsiteAssumption
<1>5. CountInv'
    <2>1. ASSUME NEW ip \in Addresses
          PROVE  /\ Counted(ip)' => entries'[ip].failures = Cardinality(InWindow(ip)')
                 /\ ~Counted(ip)' => Throttle!Fresh(ip)' = {}
        <3>1. CASE ip \in who
            BY <3>1 DEF Counted, Throttle!Fresh
        <3>2. CASE ip \notin who
            <4>1. entries'[ip] = entries[ip] /\ recent'[ip] = recent[ip]
                BY <3>2
            <4>2. (Counted(ip)' <=> Counted(ip)) /\ InWindow(ip)' = InWindow(ip)
                  /\ Throttle!Fresh(ip)' = Throttle!Fresh(ip)
                BY <4>1 DEF Counted, InWindow, Throttle!Fresh
            <4> QED
                BY <1>0, <4>1, <4>2 DEF CountInv
        <3> QED
            BY <3>1, <3>2
    <2> QED
        BY <2>1 DEF CountInv
<1> QED
    BY <1>1, <1>3, <1>4, <1>5 DEF ThrottleInv

\* An attempt is let through, or refused.
LEMMA CheckStep ==
    ASSUME ThrottleInv, NEW a \in Attempts, NEW ip \in Addresses, Throttle!Check(a, ip)
    PROVE  ThrottleInv'
<1>0. /\ Throttle!BudgetHolds /\ RecentInv /\ BudgetInv /\ CountInv
      /\ UNCHANGED <<entries, recent>> /\ None \notin Addresses
      /\ attempts \in [Attempts -> {None} \cup Addresses] /\ attempts[a] = None
    BY NullAssumption DEF ThrottleInv, Throttle!Check, Throttle!BudgetHolds
<1>1. \/ attempts' = attempts
      \/ attempts' = [attempts EXCEPT ![a] = ip] /\ ~Throttle!Locked(entries[ip])
    BY DEF Throttle!Check
<1>2. Throttle!BudgetHolds'
    BY <1>0, <1>1 DEF Throttle!BudgetHolds, Throttle!Window
<1>3. BudgetInv'
    <2> SUFFICES ASSUME NEW q \in Addresses, Counted(q), entries[q].failures >= MAX_FAILURES
                 PROVE  InFlight(q)' = InFlight(q)
        BY <1>0 DEF BudgetInv, Counted
    <2>1. Throttle!Locked(entries[q])
        BY DEF Counted, Throttle!Locked
    <2> QED
        BY <1>0, <1>1, <2>1 DEF InFlight
<1>4. RecentInv' /\ CountInv'
    BY <1>0 DEF RecentInv, CountInv, Counted, InWindow, Throttle!Fresh, Failures
<1> QED
    BY <1>2, <1>3, <1>4 DEF ThrottleInv

\* The throttle keeps its counts.
LEMMA ThrottleStepInv == ThrottleInv /\ Throttle!Next => ThrottleInv'
<1> SUFFICES ASSUME ThrottleInv, Throttle!Next
             PROVE  ThrottleInv'
    OBVIOUS
<1>0. /\ Throttle!BudgetHolds /\ RecentInv /\ None \notin Addresses
      /\ attempts \in [Attempts -> {None} \cup Addresses]
      /\ entries \in [Addresses -> {None} \cup Throttle!Window]
      /\ recent \in [Addresses -> SUBSET Failures]
    BY NullAssumption DEF ThrottleInv, Throttle!BudgetHolds, RecentInv
<1>1. ASSUME NEW a \in Attempts, attempts' = [attempts EXCEPT ![a] = None]
      PROVE  /\ attempts' \in [Attempts -> {None} \cup Addresses]
             /\ \A ip \in Addresses : InFlight(ip)' \subseteq InFlight(ip)
    BY <1>0, <1>1 DEF InFlight
<1>2. ASSUME NEW a \in Attempts, Throttle!Succeed(a)
      PROVE  ThrottleInv'
    <2>1. PICK ip \in Addresses : attempts[a] = ip
        BY <1>0, <1>2 DEF Throttle!Succeed
    <2>2. attempts' = [attempts EXCEPT ![a] = None] /\ Throttle!Reset(ip)
        BY <1>2, <2>1 DEF Throttle!Succeed
    <2>3. entries' = [q \in Addresses |-> IF q \in {ip} THEN None ELSE entries[q]]
        BY <1>0, <2>2 DEF Throttle!Reset
    <2>4. recent' = [q \in Addresses |-> IF q \in {ip} THEN {} ELSE recent[q]]
        BY <1>0, <2>2 DEF Throttle!Reset
    <2>5. /\ attempts' \in [Attempts -> {None} \cup Addresses]
          /\ \A q \in Addresses : InFlight(q)' \subseteq InFlight(q)
        BY <1>1, <2>2
    <2>6. {ip} \in SUBSET Addresses
        OBVIOUS
    <2> QED
        BY <2>3, <2>4, <2>5, <2>6, ForgetStep
<1>3. ASSUME NEW a \in Attempts, Throttle!Leave(a)
      PROVE  ThrottleInv'
    <2>1. attempts' = [attempts EXCEPT ![a] = None] /\ entries' = entries /\ recent' = recent
        BY <1>3 DEF Throttle!Leave
    <2>2. entries' = [q \in Addresses |-> IF q \in {} THEN None ELSE entries[q]]
        BY <1>0, <2>1
    <2>3. recent' = [q \in Addresses |-> IF q \in {} THEN {} ELSE recent[q]]
        BY <1>0, <2>1
    <2>4. /\ attempts' \in [Attempts -> {None} \cup Addresses]
          /\ \A q \in Addresses : InFlight(q)' \subseteq InFlight(q)
        BY <1>1, <2>1
    <2>5. {} \in SUBSET Addresses
        OBVIOUS
    <2> QED
        BY <2>2, <2>3, <2>4, <2>5, ForgetStep
<1>4. CASE Throttle!Restart
    <2>1. entries' = [q \in Addresses |-> IF q \in Addresses THEN None ELSE entries[q]]
        BY <1>4 DEF Throttle!Restart
    <2>2. recent' = [q \in Addresses |-> IF q \in Addresses THEN {} ELSE recent[q]]
        BY <1>4 DEF Throttle!Restart
    <2>3. /\ attempts' \in [Attempts -> {None} \cup Addresses]
          /\ \A ip \in Addresses : InFlight(ip)' \subseteq InFlight(ip)
        BY <1>0, <1>4 DEF Throttle!Restart, InFlight
    <2> QED
        BY <2>1, <2>2, <2>3, ForgetStep
<1> QED
    BY <1>2, <1>3, <1>4, CheckStep, FailStep, TickStep DEF Throttle!Next

\* A lockout ends by what may end it.
LEMMA LockoutStep == ThrottleInv /\ Throttle!Next => Throttle!LockoutStands
<1> SUFFICES ASSUME ThrottleInv, Throttle!Next, NEW ip \in Addresses,
                    Throttle!Locked(entries[ip]), ~Throttle!Locked(entries'[ip])
             PROVE  \/ Throttle!Elapsed(Throttle!Older(entries[ip]))
                       /\ entries'[ip] = Throttle!Older(entries[ip])
                    \/ \E a \in Attempts : attempts[a] = ip /\ Throttle!Succeed(a)
                    \/ Throttle!Restart
    BY DEF Throttle!LockoutStands
<1>0. /\ Throttle!BudgetHolds /\ entries[ip] # None /\ Counted(ip)
      /\ entries[ip].failures >= MAX_FAILURES /\ entries[ip].failures \in Nat
      /\ entries[ip] \in Throttle!Window
      /\ MAX_FAILURES \in Nat
    BY WebsiteAssumption, EntryFacts DEF ThrottleInv, Throttle!Locked, Counted
<1>1. entries'[ip] # entries[ip]
    OBVIOUS
<1>2. ASSUME NEW a \in Attempts, Throttle!Fail(a)
      PROVE  FALSE
    <2>1. PICK q \in Addresses : Throttle!RecordFailure(q)
        BY <1>0, <1>2 DEF Throttle!Fail, Throttle!BudgetHolds
    <2>2. CASE q = ip
        <3>1. entries'[ip].failures = entries[ip].failures + 1 /\ Counted(ip)'
            BY <1>0, <2>1, <2>2, RecordFacts
        <3>2. entries'[ip].failures >= MAX_FAILURES
            BY <1>0, <3>1
        <3> QED
            BY <3>1, <3>2 DEF Counted, Throttle!Locked
    <2>3. CASE q # ip
        BY <1>0, <1>1, <2>1, <2>3, RecordFacts
    <2> QED
        BY <2>2, <2>3
<1>3. ASSUME NEW a \in Attempts, Throttle!Succeed(a)
      PROVE  attempts[a] = ip
    BY <1>0, <1>1, <1>3 DEF Throttle!Succeed, Throttle!Reset, Throttle!BudgetHolds
<1>4. CASE Throttle!Tick
    <2>1. entries'[ip] = Throttle!Older(entries[ip])
        BY <1>4 DEF Throttle!Tick
    <2>2. Throttle!Older(entries[ip]) = [entries[ip] EXCEPT !.age = @ + 1]
        BY <1>0 DEF Counted, Throttle!Older
    <2>3. entries'[ip].failures = entries[ip].failures
        BY <1>0, <2>1, <2>2 DEF Throttle!Window
    <2>4. entries'[ip] # None
        <3>1. /\ entries'[ip] = [failures |-> entries[ip].failures, age |-> entries[ip].age + 1]
              /\ entries[ip].age \in Nat
            BY <1>0, <2>1, <2>2, EntryFacts DEF Throttle!Window
        <3> QED
            BY <1>0, <3>1, NullAssumption
    <2> QED
        BY <1>0, <2>1, <2>3, <2>4 DEF Throttle!Locked
<1> QED
    BY <1>1, <1>2, <1>3, <1>4 DEF Throttle!Next, Throttle!Check, Throttle!Leave

-----------------------------------------------------------------------------
(* The operator sessions. *)

Session == [flow : Flows \cup {None}, left : 0..SessionTtl]

SessionsTyped ==
    /\ sessions \in [Tokens -> Session \cup {New, None}]
    /\ flows \in [Flows -> 0..(FlowMaxAge + 1) \cup {New, None}]
    /\ callbacks \in [Callbacks -> Flows \cup {None}]
    /\ logins \in [Flows -> {0, 1}]

\* A flow is stored, or in the hands of one callback, or has opened its session.
OnceInv ==
    /\ \A f \in Flows : flows[f] # None => logins[f] = 0 /\ \A c \in Callbacks : callbacks[c] # f
    /\ \A c \in Callbacks : callbacks[c] # None => logins[callbacks[c]] = 0
    /\ \A c, d \in Callbacks : callbacks[c] # None /\ callbacks[c] = callbacks[d] => c = d

\* A token that was found ended was drawn, and has no session that is valid.
EndedInv ==
    /\ refused \in [Tokens -> SUBSET {"ended", "unread"}] /\ readmitted \subseteq {"unread"}
    /\ \A t \in Tokens : "ended" \in refused[t] => sessions[t] # New /\ ~Sessions!Valid(t)

SessionsInv == SessionsTyped /\ OnceInv /\ EndedInv

\* What a session is.
LEMMA SessionFacts ==
    ASSUME SessionsTyped, NEW t \in Tokens, Sessions!Live(sessions[t])
    PROVE  /\ sessions[t] \in Session /\ sessions[t].left \in 0..SessionTtl
           /\ sessions[t].left \in Nat /\ SessionTtl \in Nat
           /\ sessions[t] = [flow |-> sessions[t].flow, left |-> sessions[t].left]
           /\ sessions[t].flow \in Flows \cup {None}
<1>0. SessionTtl \in Nat
    BY WebsiteAssumption
<1>1. sessions[t] \in Session
    BY DEF SessionsTyped, Sessions!Live
<1> QED
    BY <1>0, <1>1 DEF Session

\* A session is neither of the two absent values.
LEMMA SessionIsLive == \A s \in Session : Sessions!Live(s)
<1>1. \A s \in Session : s \in [flow : Flows \cup {None}, left : Nat]
    BY WebsiteAssumption DEF Session
<1> QED
    BY <1>1, NullAssumption DEF Sessions!Live

\* A drawn token stays drawn and never becomes valid; what ends a valid one is its logout.
TokensMoveOn ==
    /\ sessions' \in [Tokens -> Session \cup {New, None}]
    /\ \A t \in Tokens : sessions[t] # New =>
           sessions'[t] # New /\ (Sessions!Valid(t)' => Sessions!Valid(t))
    /\ Sessions!NobodyElseEnds

\* A new session takes a token that was never drawn.
LEMMA CreateStep ==
    ASSUME SessionsTyped, NEW token \in Tokens, NEW f \in Flows \cup {None},
           Sessions!CreateSession(token, f)
    PROVE  TokensMoveOn
<1>1. [flow |-> f, left |-> SessionTtl] \in Session
    BY WebsiteAssumption DEF Session
<1>2. /\ sessions' \in [Tokens -> Session \cup {New, None}] /\ sessions[token] = New
      /\ \A t \in Tokens : t # token => sessions'[t] = sessions[t]
      /\ sessions'[token] \in Session
    BY <1>1 DEF SessionsTyped, Sessions!CreateSession
<1>3. Sessions!Live(sessions'[token])
    BY <1>2, SessionIsLive
<1> QED
    BY <1>2, <1>3 DEF TokensMoveOn, Sessions!NobodyElseEnds, Sessions!Valid, Sessions!Live

\* A deleted row was not valid, or was logged out.
LEMMA DeleteStep ==
    ASSUME SessionsTyped, NEW token \in Tokens, NEW done \in BOOLEAN, sessions[token] # New,
           Sessions!DeleteSession(token, done),
           Sessions!Valid(token) => Sessions!Logout(token)
    PROVE  TokensMoveOn
<1>1. CASE done
    <2>1. /\ sessions' = [sessions EXCEPT ![token] = None]
          /\ sessions' \in [Tokens -> Session \cup {New, None}] /\ sessions'[token] = None
          /\ \A t \in Tokens : t # token => sessions'[t] = sessions[t]
        BY <1>1 DEF SessionsTyped, Sessions!DeleteSession
    <2> QED
        BY <2>1, NullAssumption DEF TokensMoveOn, Sessions!NobodyElseEnds, Sessions!Valid,
            Sessions!Live
<1>2. CASE ~done
    BY <1>2 DEF SessionsTyped, Sessions!DeleteSession, TokensMoveOn, Sessions!NobodyElseEnds,
        Sessions!Valid
<1> QED
    BY <1>1, <1>2

\* Sessions that stay as they are.
LEMMA SameSessions ==
    ASSUME SessionsTyped, sessions' = sessions
    PROVE  TokensMoveOn
BY DEF SessionsTyped, TokensMoveOn, Sessions!NobodyElseEnds, Sessions!Valid

\* A swept session has expired.
LEMMA PruneStep ==
    ASSUME SessionsTyped, Sessions!Prune
    PROVE  TokensMoveOn
<1>1. sessions' = [t \in Tokens |-> IF Sessions!Live(sessions[t]) /\ Sessions!Expired(sessions[t])
                                    THEN None ELSE sessions[t]]
    BY DEF Sessions!Prune
<1>2. ASSUME NEW t \in Tokens
      PROVE  sessions'[t] = sessions[t] \/ (sessions'[t] = None /\ ~Sessions!Valid(t))
    <2>1. CASE Sessions!Live(sessions[t]) /\ Sessions!Expired(sessions[t])
        BY <1>1, <2>1 DEF Sessions!Expired, Sessions!Valid
    <2>2. CASE ~(Sessions!Live(sessions[t]) /\ Sessions!Expired(sessions[t]))
        BY <1>1, <2>2
    <2> QED
        BY <2>1, <2>2
<1>3. sessions' \in [Tokens -> Session \cup {New, None}]
    BY <1>1 DEF SessionsTyped
<1> QED
    BY <1>2, <1>3, NullAssumption DEF TokensMoveOn, Sessions!NobodyElseEnds, Sessions!Valid,
        Sessions!Live

\* A session grows older.
LEMMA OlderStep ==
    ASSUME SessionsTyped, Sessions!Tick
    PROVE  TokensMoveOn
<1>1. sessions' = [t \in Tokens |-> IF Sessions!Live(sessions[t]) /\ sessions[t].left > 0
                                    THEN [sessions[t] EXCEPT !.left = @ - 1] ELSE sessions[t]]
    BY DEF Sessions!Tick
<1>2. ASSUME NEW t \in Tokens
      PROVE  sessions'[t] = sessions[t] \/ (sessions'[t] \in Session /\ Sessions!Valid(t))
    <2>1. CASE Sessions!Valid(t)
        <3>1. /\ sessions'[t] = [sessions[t] EXCEPT !.left = @ - 1] /\ sessions[t].left > 0
              /\ Sessions!Live(sessions[t])
            BY <1>1, <2>1 DEF Sessions!Valid
        <3>2. /\ sessions[t] \in Session /\ SessionTtl \in Nat
              /\ sessions[t].left \in 0..SessionTtl
            BY <3>1, SessionFacts
        <3>3. sessions[t].left - 1 \in 0..SessionTtl
            BY <3>1, <3>2
        <3> QED
            BY <2>1, <3>1, <3>2, <3>3 DEF Session
    <2>2. CASE ~Sessions!Valid(t)
        BY <1>1, <2>2 DEF Sessions!Valid
    <2> QED
        BY <2>1, <2>2
<1>3. sessions' \in [Tokens -> Session \cup {New, None}]
    BY <1>1, <1>2 DEF SessionsTyped
<1>4. \A t \in Tokens : sessions'[t] = sessions[t]
          \/ (Sessions!Live(sessions'[t]) /\ Sessions!Valid(t))
    BY <1>2, SessionIsLive
<1> QED
    BY <1>3, <1>4 DEF TokensMoveOn, Sessions!NobodyElseEnds, Sessions!Valid, Sessions!Live

\* What is recorded of a refusal: that a lookup failed, or that the row is no longer valid.
RefusedSoundly ==
    \/ refused' = refused
    \/ \E token \in Tokens : refused' = [refused EXCEPT ![token] = @ \cup {"unread"}]
    \/ \E token \in Tokens : /\ refused' = [refused EXCEPT ![token] = @ \cup {"ended"}]
                             /\ sessions[token] # New /\ ~Sessions!Valid(token)'

\* A request is let in with a valid session, or refused, and an expired row is then deleted.
LEMMA GateStep ==
    ASSUME SessionsInv, NEW token \in Tokens, Sessions!Gate(token)
    PROVE  TokensMoveOn /\ RefusedSoundly /\ readmitted' \subseteq {"unread"}
<1>0. SessionsTyped /\ EndedInv /\ sessions[token] # New
    BY DEF SessionsInv, Sessions!Gate
<1>1. ASSUME Sessions!LetIn(token)
      PROVE  TokensMoveOn /\ RefusedSoundly /\ readmitted' \subseteq {"unread"}
    <2>1. /\ readmitted' = readmitted \cup refused[token] /\ Sessions!Valid(token)
          /\ sessions' = sessions /\ refused' = refused
        BY <1>1 DEF Sessions!LetIn
    <2>2. refused[token] \subseteq {"unread"}
        BY <1>0, <2>1 DEF EndedInv
    <2>3. readmitted' \subseteq {"unread"}
        BY <1>0, <2>1, <2>2 DEF EndedInv
    <2> QED
        BY <1>0, <2>1, <2>3, SameSessions DEF RefusedSoundly
<1>2. ASSUME Sessions!TurnAway(token)
      PROVE  TokensMoveOn /\ RefusedSoundly /\ readmitted' \subseteq {"unread"}
    <2>1. /\ refused' = [refused EXCEPT ![token] = @ \cup {"ended"}] /\ readmitted' = readmitted
          /\ ~Sessions!Valid(token)
          /\ \/ \E done \in BOOLEAN : Sessions!DeleteSession(token, done)
             \/ sessions' = sessions
        BY <1>2 DEF Sessions!TurnAway
    <2>2. TokensMoveOn
        BY <1>0, <2>1, DeleteStep, SameSessions
    <2>3. ~Sessions!Valid(token)'
        BY <1>0, <2>1, <2>2 DEF TokensMoveOn
    <2> QED
        BY <1>0, <2>1, <2>2, <2>3 DEF EndedInv, RefusedSoundly
<1>3. ASSUME Sessions!LookupFails(token)
      PROVE  TokensMoveOn /\ RefusedSoundly /\ readmitted' \subseteq {"unread"}
    BY <1>0, <1>3, SameSessions DEF Sessions!LookupFails, EndedInv, RefusedSoundly
<1> QED
    BY <1>1, <1>2, <1>3 DEF Sessions!Gate

\* A logout clears the cookie, and the row if its DELETE succeeds.
LEMMA LogoutStep ==
    ASSUME SessionsInv, NEW token \in Tokens, Sessions!Logout(token)
    PROVE  TokensMoveOn /\ RefusedSoundly /\ readmitted' \subseteq {"unread"}
<1>0. SessionsTyped /\ EndedInv /\ sessions[token] # New /\ readmitted' = readmitted
    BY DEF SessionsInv, Sessions!Logout
<1>1. PICK done \in BOOLEAN :
          /\ Sessions!DeleteSession(token, done)
          /\ refused' = IF done THEN [refused EXCEPT ![token] = @ \cup {"ended"}] ELSE refused
    BY DEF Sessions!Logout
<1>2. TokensMoveOn
    BY <1>0, <1>1, DeleteStep
<1>3. done => ~Sessions!Valid(token)'
    BY <1>0, <1>1 DEF SessionsTyped, Sessions!DeleteSession, Sessions!Valid, Sessions!Live
<1>4. RefusedSoundly
    BY <1>0, <1>1, <1>3 DEF RefusedSoundly
<1> QED
    BY <1>0, <1>2, <1>4 DEF EndedInv

\* Every step moves tokens on, and ends only those that are not valid.
LEMMA TokensStep ==
    ASSUME SessionsInv, Sessions!Next
    PROVE  TokensMoveOn /\ RefusedSoundly /\ readmitted' \subseteq {"unread"}
<1>0. SessionsTyped /\ readmitted \subseteq {"unread"}
    BY DEF SessionsInv, EndedInv
<1> DEFINE Goal == TokensMoveOn /\ RefusedSoundly /\ readmitted' \subseteq {"unread"}
<1>1. ASSUME Sessions!PasswordLogin
      PROVE  Goal
    <2>1. PICK token \in Tokens : Sessions!CreateSession(token, None)
        BY <1>1 DEF Sessions!PasswordLogin
    <2>2. TokensMoveOn
        BY <1>0, <2>1, CreateStep
    <2> QED
        BY <1>0, <1>1, <2>2 DEF Sessions!PasswordLogin, RefusedSoundly
<1>2. ASSUME NEW c \in Callbacks, Sessions!CompleteLogin(c)
      PROVE  Goal
    <2>1. PICK token \in Tokens : Sessions!CreateSession(token, callbacks[c])
        BY <1>2 DEF Sessions!CompleteLogin
    <2>2. callbacks[c] \in Flows \cup {None}
        BY <1>0 DEF SessionsTyped
    <2>3. TokensMoveOn
        BY <1>0, <2>1, <2>2, CreateStep
    <2> QED
        BY <1>0, <1>2, <2>3 DEF Sessions!CompleteLogin, RefusedSoundly
<1>3. ASSUME NEW token \in Tokens, Sessions!Gate(token)
      PROVE  Goal
    BY <1>3, GateStep
<1>4. ASSUME NEW token \in Tokens, Sessions!Logout(token)
      PROVE  Goal
    BY <1>4, LogoutStep
<1>5. ASSUME Sessions!Prune
      PROVE  Goal
    BY <1>0, <1>5, PruneStep DEF Sessions!Prune, RefusedSoundly
<1>6. ASSUME Sessions!Tick
      PROVE  Goal
    BY <1>0, <1>6, OlderStep DEF Sessions!Tick, RefusedSoundly
<1>7. ASSUME sessions' = sessions, refused' = refused, readmitted' = readmitted
      PROVE  Goal
    BY <1>0, <1>7, SameSessions DEF RefusedSoundly
<1> HIDE DEF Goal
<1>8. Goal
    BY <1>1, <1>2, <1>3, <1>4, <1>5, <1>6, <1>7
       DEF Sessions!Next, Sessions!BeginLogin, Sessions!TakeFlow, Sessions!FailLogin,
           Sessions!Restart
<1> QED
    BY <1>8 DEF Goal

\* A flow goes from the table to one callback, and from there to at most one session.
LEMMA FlowsStep ==
    ASSUME SessionsTyped, OnceInv, Sessions!Next
    PROVE  /\ OnceInv'
           /\ flows' \in [Flows -> 0..(FlowMaxAge + 1) \cup {New, None}]
           /\ callbacks' \in [Callbacks -> Flows \cup {None}]
           /\ logins' \in [Flows -> {0, 1}]
<1> DEFINE Typed == /\ flows \in [Flows -> 0..(FlowMaxAge + 1) \cup {New, None}]
                    /\ callbacks \in [Callbacks -> Flows \cup {None}]
                    /\ logins \in [Flows -> {0, 1}]
<1>0. Typed /\ New # None /\ None \notin Flows /\ FlowMaxAge \in Nat
      /\ New \notin Nat /\ None \notin Nat
    BY WebsiteAssumption, NullAssumption DEF SessionsTyped
<1>1. ASSUME NEW f \in Flows, Sessions!BeginLogin(f)
      PROVE  Typed' /\ OnceInv'
    BY <1>0, <1>1 DEF Sessions!BeginLogin, OnceInv
<1>2. ASSUME NEW f \in Flows, NEW c \in Callbacks, Sessions!TakeFlow(c, f)
      PROVE  Typed' /\ OnceInv'
    <2>1. /\ flows' = [flows EXCEPT ![f] = None] /\ callbacks' = [callbacks EXCEPT ![c] = f]
          /\ logins' = logins /\ flows[f] # None /\ callbacks[c] = None
        BY <1>2 DEF Sessions!TakeFlow, Sessions!Take, Sessions!Live
    <2>2. Typed'
        BY <1>0, <2>1
    <2>3. logins[f] = 0 /\ \A d \in Callbacks : callbacks[d] # f
        BY <2>1 DEF OnceInv
    <2> QED
        BY <1>0, <2>1, <2>2, <2>3 DEF OnceInv
<1>3. ASSUME NEW c \in Callbacks, Sessions!CompleteLogin(c)
      PROVE  Typed' /\ OnceInv'
    <2>1. PICK f \in Flows : callbacks[c] = f
        BY <1>0, <1>3 DEF Sessions!CompleteLogin
    <2>2. /\ callbacks' = [callbacks EXCEPT ![c] = None] /\ flows' = flows
          /\ logins' = [logins EXCEPT ![f] = @ + 1] /\ callbacks[c] # None
        BY <1>3, <2>1 DEF Sessions!CompleteLogin
    <2>3. logins[f] = 0 /\ flows[f] = None
          /\ \A d \in Callbacks : d # c => callbacks[d] # f
        BY <2>1, <2>2 DEF OnceInv
    <2>4. Typed' /\ logins' = [logins EXCEPT ![f] = 1]
        BY <1>0, <2>2, <2>3
    <2> QED
        BY <1>0, <2>1, <2>2, <2>3, <2>4 DEF OnceInv
<1>4. ASSUME NEW c \in Callbacks, Sessions!FailLogin(c)
      PROVE  Typed' /\ OnceInv'
    BY <1>0, <1>4 DEF Sessions!FailLogin, OnceInv
<1>5. ASSUME Sessions!Prune
      PROVE  Typed' /\ OnceInv'
    <2>1. /\ callbacks' = callbacks /\ logins' = logins
          /\ flows' = [f \in Flows |-> IF Sessions!Live(flows[f]) /\ Sessions!Abandoned(flows[f])
                                       THEN None ELSE flows[f]]
        BY <1>5 DEF Sessions!Prune
    <2>2. \A f \in Flows : flows'[f] = None \/ flows'[f] = flows[f]
        BY <2>1
    <2>3. Typed'
        BY <1>0, <2>1, <2>2
    <2> QED
        BY <2>1, <2>2, <2>3 DEF OnceInv
<1>6. ASSUME Sessions!Tick
      PROVE  Typed' /\ OnceInv'
    <2>1. /\ callbacks' = callbacks /\ logins' = logins
          /\ flows' = [f \in Flows |-> IF Sessions!Live(flows[f]) /\ flows[f] <= FlowMaxAge
                                       THEN flows[f] + 1 ELSE flows[f]]
        BY <1>6 DEF Sessions!Tick
    <2>2. ASSUME NEW f \in Flows
          PROVE  /\ flows'[f] \in 0..(FlowMaxAge + 1) \cup {New, None}
                 /\ flows'[f] # None => flows[f] # None
        <3>1. CASE Sessions!Live(flows[f])
            <4>1. flows[f] \in 0..(FlowMaxAge + 1) /\ flows[f] # None
                BY <1>0, <3>1 DEF Sessions!Live
            <4> QED
                BY <1>0, <2>1, <4>1
        <3>2. CASE ~Sessions!Live(flows[f])
            BY <1>0, <2>1, <3>2
        <3> QED
            BY <3>1, <3>2
    <2>3. Typed'
        BY <1>0, <2>1, <2>2
    <2> QED
        BY <2>1, <2>2, <2>3 DEF OnceInv
<1>7. ASSUME Sessions!Restart
      PROVE  Typed' /\ OnceInv'
    BY <1>0, <1>7 DEF Sessions!Restart, OnceInv
<1>8. ASSUME UNCHANGED <<flows, callbacks, logins>>
      PROVE  Typed' /\ OnceInv'
    BY <1>0, <1>8 DEF OnceInv
<1> HIDE DEF Typed
<1>9. Typed' /\ OnceInv'
    BY <1>1, <1>2, <1>3, <1>4, <1>5, <1>6, <1>7, <1>8
       DEF Sessions!Next, Sessions!PasswordLogin, Sessions!Gate, Sessions!Logout
<1> QED
    BY <1>9 DEF Typed

\* The sessions keep what they promise.
LEMMA SessionsStepInv ==
    ASSUME SessionsInv, Sessions!Next
    PROVE  SessionsInv' /\ Sessions!NobodyElseEnds
<1>1. TokensMoveOn /\ RefusedSoundly /\ readmitted' \subseteq {"unread"}
    BY TokensStep
<1>2. /\ OnceInv' /\ flows' \in [Flows -> 0..(FlowMaxAge + 1) \cup {New, None}]
      /\ callbacks' \in [Callbacks -> Flows \cup {None}] /\ logins' \in [Flows -> {0, 1}]
    BY FlowsStep DEF SessionsInv
<1>3. SessionsTyped'
    BY <1>1, <1>2 DEF SessionsTyped, TokensMoveOn, Session
<1>4. EndedInv'
    <2>1. /\ refused \in [Tokens -> SUBSET {"ended", "unread"}]
          /\ \A t \in Tokens : "ended" \in refused[t] => sessions[t] # New /\ ~Sessions!Valid(t)
        BY DEF SessionsInv, EndedInv
    <2>2. \A t \in Tokens : sessions[t] # New =>
              sessions'[t] # New /\ (Sessions!Valid(t)' => Sessions!Valid(t))
        BY <1>1 DEF TokensMoveOn
    <2>3. /\ refused' \in [Tokens -> SUBSET {"ended", "unread"}]
          /\ \A t \in Tokens : "ended" \in refused'[t] =>
                 "ended" \in refused[t] \/ (sessions[t] # New /\ ~Sessions!Valid(t)')
        BY <1>1, <2>1 DEF RefusedSoundly
    <2>4. \A t \in Tokens : "ended" \in refused'[t] => sessions'[t] # New /\ ~Sessions!Valid(t)'
        BY <2>1, <2>2, <2>3
    <2> QED
        BY <1>1, <2>3, <2>4 DEF EndedInv
<1> QED
    BY <1>1, <1>2, <1>3, <1>4 DEF SessionsInv, TokensMoveOn

\* What the invariant says of a flow: it opens at most one session.
LEMMA SessionsConsistent ==
    ASSUME SessionsInv
    PROVE  Sessions!OneLoginPerFlow /\ Sessions!EndedStaysEnded
<1>0. SessionsTyped /\ OnceInv /\ EndedInv /\ None \notin Flows
    BY NullAssumption DEF SessionsInv
<1>1. \A t \in Tokens : Sessions!Live(sessions[t]) =>
          sessions[t].left \in 0..SessionTtl /\ sessions[t].flow \in Flows \cup {None}
    BY <1>0, SessionFacts
<1>2. \A f \in Flows : Sessions!Live(flows[f]) => flows[f] \in 0..(FlowMaxAge + 1)
    BY <1>0 DEF SessionsTyped, Sessions!Live
<1>3. ASSUME NEW f \in Flows
      PROVE  logins[f] + Sessions!Cardinality({c \in Callbacks : callbacks[c] = f}) <= 1
    <2> DEFINE held == {c \in Callbacks : callbacks[c] = f}
    <2>1. logins[f] \in {0, 1}
        BY <1>0 DEF SessionsTyped
    <2>2. CASE held = {}
        <3>1. Cardinality(held) = 0
            BY <2>2, FS_EmptySet
        <3> QED
            BY <2>1, <3>1, SameCardinality
    <2>3. CASE held # {}
        <3>1. PICK c \in Callbacks : callbacks[c] = f
            BY <2>3
        <3>2. logins[f] = 0 /\ held = {c}
            BY <1>0, <3>1 DEF OnceInv
        <3>3. Cardinality(held) = 1
            BY <3>2, FS_Singleton
        <3> QED
            BY <3>2, <3>3, SameCardinality
    <2> QED
        BY <2>2, <2>3
<1> QED
    BY <1>0, <1>1, <1>2, <1>3
       DEF Sessions!OneLoginPerFlow, Sessions!EndedStaysEnded, SessionsTyped, EndedInv

-----------------------------------------------------------------------------
(* The limiter and the key rows. *)

\* A suspension beyond all the limiter could ask for is an operator's, and marked as one.
Long(id) == operator_until[id] # NoTime /\ operator_until[id] > MaxTime + Day
Stands(id) ==
    /\ rows[id] # NoRow /\ rows[id].suspended_until = operator_until[id]
    /\ rows[id].verdict_source = "manual"

ClockInv == clock <= MaxTime /\ pass.now <= MaxTime
AskedInv == pass.until # NoTime => pass.until <= MaxTime + Day
LongInv == \A id \in Ids : Long(id) => Stands(id)

LimitsInv == Limits!TypeOK /\ IsFiniteSet(events) /\ ClockInv /\ AskedInv /\ LongInv

\* The next midnight is at most a day away.
LEMMA MidnightFacts ==
    ASSUME NEW now \in Nat, NEW day \in Nat \ {0}
    PROVE  /\ ((now \div day) + 1) * day \in Nat
           /\ ((now \div day) + 1) * day <= now + day
<1>1. now \div day \in Nat /\ (now \div day) * day <= now
    OBVIOUS
<1>2. ((now \div day) + 1) * day = (now \div day) * day + day /\ (now \div day) * day \in Nat
    BY <1>1
<1> QED
    BY <1>1, <1>2

\* What the limiter asks for is no later than a day from the start of its pass.
LEMMA SentenceFacts ==
    ASSUME NEW label, NEW now \in Nat
    PROVE  \/ Limits!Sentence(label, now) = NoTime
           \/ Limits!Sentence(label, now) \in Nat /\ Limits!Sentence(label, now) <= now + Day
<1> DEFINE dear == IF Limits!TooDear(label, now) THEN {now + Day} ELSE {}
           many == IF Limits!TooMany(label, now) THEN {Limits!Midnight(now)} ELSE {}
           untils == dear \cup many
<1>0. Day \in Nat \ {0}
    BY WebsiteAssumption
<1>1. Limits!Midnight(now) \in Nat /\ Limits!Midnight(now) <= now + Day
    BY <1>0, MidnightFacts DEF Limits!Midnight
<1>2. \A u \in untils : u \in Nat /\ u <= now + Day /\ u \in {now + Day, Limits!Midnight(now)}
    BY <1>0, <1>1
<1>3. Limits!Sentence(label, now)
          = IF untils = {} THEN NoTime ELSE CHOOSE u \in untils : \A v \in untils : v <= u
    BY DEF Limits!Sentence
<1> HIDE DEF untils
<1>4. CASE untils # {}
    <2>1. \E u \in untils : \A v \in untils : v <= u
        <3>1. CASE Limits!Midnight(now) \in untils /\ now + Day \notin untils
            BY <1>1, <1>2, <3>1
        <3>2. CASE now + Day \in untils
            BY <1>0, <1>2, <3>2
        <3>3. CASE Limits!Midnight(now) \notin untils /\ now + Day \notin untils
            BY <1>2, <1>4, <3>3
        <3> QED
            BY <3>1, <3>2, <3>3
    <2>2. Limits!Sentence(label, now) \in untils
        BY <1>3, <1>4, <2>1
    <2> QED
        BY <1>2, <2>2
<1> QED
    BY <1>3, <1>4

\* A row the server functions or the limiter write is a row.
LEMMA RowIsNoNoRow == \A row \in Limits!Rows : row # NoRow
BY NullAssumption

\* An operator's edit leaves a row of its own, and a long suspension marked as one.
LEMMA EditStep ==
    ASSUME LimitsInv, NEW id \in Ids, NEW row \in Limits!Rows \cup {NoRow},
           NEW until \in Limits!Times, Limits!Edit(id, row, until),
           until # NoTime /\ until > MaxTime + Day =>
               row # NoRow /\ row.suspended_until = until /\ row.verdict_source = "manual"
    PROVE  LimitsInv'
<1>0. /\ Limits!TypeOK /\ IsFiniteSet(events) /\ ClockInv /\ AskedInv /\ LongInv
      /\ rows' = [rows EXCEPT ![id] = row] /\ edits' = edits + 1
      /\ operator_until' = [operator_until EXCEPT ![id] = until]
      /\ UNCHANGED <<events, clock, pass, errors>>
    BY DEF LimitsInv, Limits!Edit
<1>1. Limits!TypeOK'
    BY <1>0 DEF Limits!TypeOK, Limits!Rows, Limits!Times, Limits!Events, Limits!Passes,
        Limits!Labels, Limits!Sources
<1>2. LongInv'
    <2>1. rows \in [Ids -> Limits!Rows \cup {NoRow}] /\ operator_until \in [Ids -> Limits!Times]
        BY <1>0 DEF Limits!TypeOK
    <2>2. ASSUME NEW x \in Ids, Long(x)'
          PROVE  Stands(x)'
        <3>1. CASE x = id
            <4>1. rows'[x] = row /\ operator_until'[x] = until
                BY <1>0, <2>1, <3>1
            <4> QED
                BY <2>2, <4>1 DEF Long, Stands
        <3>2. CASE x # id
            <4>1. rows'[x] = rows[x] /\ operator_until'[x] = operator_until[x]
                BY <1>0, <2>1, <3>2
            <4> QED
                BY <1>0, <2>2, <4>1 DEF Long, Stands, LongInv
        <3> QED
            BY <3>1, <3>2
    <2> QED
        BY <2>2 DEF LongInv
<1> QED
    BY <1>0, <1>1, <1>2 DEF LimitsInv, ClockInv, AskedInv

\* Every server function edits so.
LEMMA OperatorStep ==
    ASSUME LimitsInv, NEW id \in Ids, Limits!Operator(id)
    PROVE  LimitsInv'
<1>0. /\ rows \in [Ids -> Limits!Rows \cup {NoRow}] /\ operator_until \in [Ids -> Limits!Times]
      /\ LongInv /\ {} \in Narrowings /\ clock \in Nat /\ Spans \subseteq Nat
      /\ NoTime \notin Nat
    BY WebsiteAssumption, NullAssumption DEF LimitsInv, Limits!TypeOK
<1>1. ASSUME Limits!create(id)
      PROVE  LimitsInv'
    <2> DEFINE row == [name |-> IF id \in Named THEN Name ELSE NoName, blocked |-> FALSE,
                       suspended_until |-> NoTime, verdict_models |-> {},
                       verdict_source |-> NoSource]
    <2>1. row \in Limits!Rows /\ NoTime \in Limits!Times
        BY <1>0 DEF Limits!Rows, Limits!Times, Limits!Sources
    <2>2. Limits!Edit(id, row, NoTime)
        BY <1>1 DEF Limits!create
    <2> QED
        BY <2>1, <2>2, EditStep
<1>2. ASSUME Limits!delete(id)
      PROVE  LimitsInv'
    <2>1. Limits!Edit(id, NoRow, NoTime) /\ NoTime \in Limits!Times
        BY <1>2 DEF Limits!delete, Limits!Times
    <2> QED
        BY <2>1, EditStep
<1>3. ASSUME NEW blocked \in BOOLEAN, Limits!set_blocked(id, blocked)
      PROVE  LimitsInv'
    <2> DEFINE row == [rows[id] EXCEPT !.blocked = blocked, !.verdict_source = "manual"]
    <2>1. /\ rows[id] \in Limits!Rows /\ operator_until[id] \in Limits!Times
          /\ Limits!Edit(id, row, operator_until[id])
        BY <1>0, <1>3 DEF Limits!set_blocked
    <2>2. /\ row \in Limits!Rows /\ row.verdict_source = "manual"
          /\ row.suspended_until = rows[id].suspended_until
        BY <2>1 DEF Limits!Rows, Limits!Sources
    <2>3. Long(id) => row.suspended_until = operator_until[id]
        BY <1>0, <2>2 DEF LongInv, Stands
    <2> HIDE DEF row
    <2> QED
        BY <2>1, <2>2, <2>3, EditStep, RowIsNoNoRow DEF Long
<1>4. ASSUME NEW models \in Narrowings, Limits!set_narrow(id, models)
      PROVE  LimitsInv'
    <2> DEFINE row == [rows[id] EXCEPT !.verdict_models = models, !.verdict_source = "manual"]
    <2>1. /\ rows[id] \in Limits!Rows /\ operator_until[id] \in Limits!Times
          /\ Limits!Edit(id, row, operator_until[id])
        BY <1>0, <1>4 DEF Limits!set_narrow
    <2>2. /\ row \in Limits!Rows /\ row.verdict_source = "manual"
          /\ row.suspended_until = rows[id].suspended_until
        BY <2>1 DEF Limits!Rows, Limits!Sources
    <2>3. Long(id) => row.suspended_until = operator_until[id]
        BY <1>0, <2>2 DEF LongInv, Stands
    <2> HIDE DEF row
    <2> QED
        BY <2>1, <2>2, <2>3, EditStep, RowIsNoNoRow DEF Long
<1>5. \A until \in {NoTime} \cup {clock + s : s \in Spans} : until \in Limits!Times
    BY <1>0 DEF Limits!Times
<1>6. ASSUME NEW until \in Limits!Times, Limits!set_suspended(id, until)
      PROVE  LimitsInv'
    <2> DEFINE row == [rows[id] EXCEPT !.suspended_until = until, !.verdict_source = "manual"]
    <2>1. rows[id] \in Limits!Rows /\ Limits!Edit(id, row, until)
        BY <1>0, <1>6 DEF Limits!set_suspended
    <2>2. /\ row \in Limits!Rows /\ row.verdict_source = "manual" /\ row.suspended_until = until
        BY <2>1 DEF Limits!Rows, Limits!Sources
    <2> HIDE DEF row
    <2> QED
        BY <2>1, <2>2, EditStep, RowIsNoNoRow
<1>7. ASSUME NEW until \in Limits!Times, NEW blocked \in BOOLEAN, NEW models \in Narrowings,
             Limits!set_verdict(id, blocked, until, models)
      PROVE  LimitsInv'
    <2> DEFINE cleared == ~blocked /\ until = NoTime /\ models = {}
               row == [rows[id] EXCEPT !.blocked = blocked, !.suspended_until = until,
                                       !.verdict_models = models,
                                       !.verdict_source = IF cleared THEN NoSource ELSE "manual"]
    <2>1. rows[id] \in Limits!Rows /\ Limits!Edit(id, row, until)
        BY <1>0, <1>7 DEF Limits!set_verdict
    <2>2. /\ row \in Limits!Rows /\ row.suspended_until = until
          /\ until # NoTime => row.verdict_source = "manual"
        BY <2>1 DEF Limits!Rows, Limits!Sources
    <2> HIDE DEF row
    <2> QED
        BY <2>1, <2>2, EditStep, RowIsNoNoRow
<1> QED
    BY <1>1, <1>2, <1>3, <1>4, <1>5, <1>6, <1>7 DEF Limits!Operator

\* Usage is stored under a label of its key.
LEMMA IngestStep ==
    ASSUME LimitsInv, NEW id \in Ids, Limits!Ingest(id)
    PROVE  LimitsInv'
<1>0. /\ Limits!TypeOK /\ IsFiniteSet(events) /\ ClockInv /\ AskedInv /\ LongInv /\ clock \in Nat
    BY DEF LimitsInv, Limits!TypeOK
<1>1. PICK kind \in {"request_started", "usage"}, ts \in {clock, Limits!Since(clock, 1)} :
          Limits!ingest(id, kind, ts)
    BY DEF Limits!Ingest
<1> DEFINE event == [n |-> Limits!Cardinality(events), ts |-> ts, key |-> Limits!Label(id),
                     owner |-> id, kind |-> kind]
<1>2. /\ events' = events \cup {event} /\ rows[id] # NoRow
      /\ UNCHANGED <<rows, clock, pass, edits, errors, operator_until>>
    BY <1>1 DEF Limits!ingest
<1>3. ts \in Nat
    BY <1>0, <1>1 DEF Limits!Since
<1>4. Limits!Cardinality(events) \in Nat
    BY <1>0, SameCardinality, FS_CardinalityType
<1>5. Limits!Label(id) \in Limits!Labels
    <2>1. rows[id] \in Limits!Rows
        BY <1>0, <1>2 DEF Limits!TypeOK
    <2> QED
        BY <2>1 DEF Limits!Rows, Limits!Label, Limits!Labels
<1>6. event \in Limits!Events
    BY <1>3, <1>4, <1>5 DEF Limits!Events
<1> HIDE DEF event
<1>7. IsFiniteSet(events')
    BY <1>0, <1>2, FS_AddElement
<1>8. Limits!TypeOK'
    BY <1>0, <1>2, <1>6 DEF Limits!TypeOK, Limits!Rows, Limits!Times, Limits!Events,
        Limits!Passes, Limits!Labels, Limits!Sources
<1> QED
    BY <1>0, <1>2, <1>7, <1>8 DEF LimitsInv, ClockInv, AskedInv, LongInv, Long, Stands

\* What a step of the pass that writes no row may change.
LEMMA PassStep ==
    ASSUME LimitsInv, events' \subseteq events, pass' \in Limits!Passes, pass'.now <= MaxTime,
           pass'.until # NoTime => pass'.until <= MaxTime + Day, errors' \in Nat,
           UNCHANGED <<rows, clock, edits, operator_until>>
    PROVE  LimitsInv'
<1>0. Limits!TypeOK /\ IsFiniteSet(events) /\ ClockInv /\ LongInv
    BY DEF LimitsInv
<1>1. IsFiniteSet(events')
    BY <1>0, FS_Subset
<1>2. Limits!TypeOK'
    BY <1>0 DEF Limits!TypeOK, Limits!Rows, Limits!Times, Limits!Events,
        Limits!Passes, Limits!Labels, Limits!Sources
<1> QED
    BY <1>0, <1>1, <1>2 DEF LimitsInv, ClockInv, AskedInv, LongInv, Long, Stands

\* The limiter writes a row: never a long suspension.
LEMMA WrittenStep ==
    ASSUME LimitsInv, NEW id, NEW row \in Limits!Rows \cup {NoRow}, Limits!Written(id, row),
           id \in Ids /\ Long(id) => row = rows[id]
    PROVE  LimitsInv'
<1>0. /\ Limits!TypeOK /\ IsFiniteSet(events) /\ ClockInv /\ AskedInv /\ LongInv
      /\ rows' = IF id \in Ids THEN [rows EXCEPT ![id] = row] ELSE rows
      /\ pass' = [pass EXCEPT !.pc = "weigh", !.key = NoName, !.until = NoTime]
      /\ UNCHANGED <<events, clock, edits, errors, operator_until>>
    BY DEF LimitsInv, Limits!Written
<1>1. /\ rows \in [Ids -> Limits!Rows \cup {NoRow}] /\ pass \in Limits!Passes
      /\ operator_until \in [Ids -> Limits!Times]
    BY <1>0 DEF Limits!TypeOK
<1>2. rows' \in [Ids -> Limits!Rows \cup {NoRow}]
    BY <1>0, <1>1
<1>3. pass' \in Limits!Passes /\ pass'.now = pass.now /\ pass'.until = NoTime
    BY <1>0, <1>1 DEF Limits!Passes, Limits!Times
<1>4. Limits!TypeOK'
    BY <1>0, <1>2, <1>3 DEF Limits!TypeOK, Limits!Rows, Limits!Times, Limits!Events,
        Limits!Passes, Limits!Labels, Limits!Sources
<1>5. \A x \in Ids : Long(x) => rows'[x] = rows[x]
    BY <1>0, <1>1
<1> QED
    BY <1>0, <1>3, <1>4, <1>5 DEF LimitsInv, ClockInv, AskedInv, LongInv, Long, Stands

\* Each step of the limiter.
LEMMA LimiterStep ==
    ASSUME LimitsInv, Limits!Limiter
    PROVE  LimitsInv'
<1>0. /\ Limits!TypeOK /\ IsFiniteSet(events) /\ ClockInv /\ AskedInv /\ LongInv
      /\ pass \in Limits!Passes /\ clock \in Nat /\ errors \in Nat /\ events \subseteq Limits!Events
      /\ rows \in [Ids -> Limits!Rows \cup {NoRow}] /\ operator_until \in [Ids -> Limits!Times]
      /\ Day \in Nat \ {0} /\ MaxTime \in Nat /\ NoTime \notin Nat
    BY WebsiteAssumption, NullAssumption DEF LimitsInv, Limits!TypeOK
<1>1. ASSUME Limits!Begin
      PROVE  LimitsInv'
    <2> DEFINE scope == {e.key : e \in {x \in events' : x.ts >= Limits!Since(clock, CostWindow)}}
    <2>1. /\ events' \subseteq events /\ UNCHANGED <<rows, clock, edits, errors, operator_until>>
          /\ pass' = [pass EXCEPT !.pc = "extend", !.now = clock, !.scope = scope]
        BY <1>1 DEF Limits!Begin
    <2>2. scope \subseteq Limits!Labels
        BY <1>0, <2>1 DEF Limits!Events
    <2> HIDE DEF scope
    <2>3. pass' \in Limits!Passes /\ pass'.now = clock /\ pass'.until = pass.until
        BY <1>0, <2>1, <2>2 DEF Limits!Passes
    <2> QED
        BY <1>0, <2>1, <2>3, PassStep DEF ClockInv, AskedInv
<1>2. ASSUME Limits!Extend
      PROVE  LimitsInv'
    <2>1. /\ pass' = [pass EXCEPT !.pc = "weigh", !.scope = @ \cup Limits!limiter_suspended_ids]
          /\ UNCHANGED <<rows, events, clock, edits, errors, operator_until>>
        BY <1>2 DEF Limits!Extend
    <2>2. Limits!limiter_suspended_ids \subseteq Limits!Labels
        BY DEF Limits!limiter_suspended_ids, Limits!Labels
    <2>3. pass' \in Limits!Passes /\ pass'.now = pass.now /\ pass'.until = pass.until
        BY <1>0, <2>1, <2>2 DEF Limits!Passes
    <2> QED
        BY <1>0, <2>1, <2>3, PassStep DEF ClockInv, AskedInv
<1>3. ASSUME UNCHANGED <<rows, events, clock, edits, operator_until>>, errors' \in Nat,
             pass' = Limits!Idle
      PROVE  LimitsInv'
    <2>1. pass' \in Limits!Passes /\ pass'.now = 0 /\ pass'.until = NoTime
        BY <1>3 DEF Limits!Idle, Limits!Passes, Limits!Times
    <2> QED
        BY <1>0, <1>3, <2>1, PassStep
<1>4. ASSUME NEW label \in Limits!Labels, Limits!Weigh(label)
      PROVE  LimitsInv'
    <2> DEFINE until == Limits!Sentence(label, pass.now)
    <2>1. /\ pass' = [pass EXCEPT !.pc = "write", !.key = label, !.scope = @ \ {label},
                                  !.until = until]
          /\ UNCHANGED <<rows, events, clock, edits, errors, operator_until>>
        BY <1>4 DEF Limits!Weigh
    <2>2. pass.now \in Nat /\ pass.now <= MaxTime
        BY <1>0 DEF Limits!Passes, ClockInv
    <2>3. until = NoTime \/ (until \in Nat /\ until <= pass.now + Day)
        BY <2>2, SentenceFacts
    <2> HIDE DEF until
    <2>4. until \in Limits!Times /\ (until # NoTime => until <= MaxTime + Day)
        BY <1>0, <2>2, <2>3 DEF Limits!Times
    <2>5. pass' \in Limits!Passes /\ pass'.now = pass.now /\ pass'.until = until
        BY <1>0, <2>1, <2>4 DEF Limits!Passes
    <2> QED
        BY <1>0, <2>1, <2>2, <2>4, <2>5, PassStep
<1>5. Limits!Row(pass.key) \in Limits!Rows \cup {NoRow}
      /\ (pass.key \in Ids => Limits!Row(pass.key) = rows[pass.key])
    BY <1>0 DEF Limits!Row
<1>6. ASSUME Limits!limiter_suspend
      PROVE  LimitsInv'
    <2> DEFINE row == Limits!Row(pass.key)
               new == IF Limits!Extends(row, pass.until)
                      THEN [row EXCEPT !.suspended_until = pass.until,
                                       !.verdict_source = "limiter"]
                      ELSE row
    <2>1. Limits!Written(pass.key, new) /\ pass.until # NoTime
        BY <1>6 DEF Limits!limiter_suspend
    <2>2. pass.until \in Nat /\ pass.until <= MaxTime + Day
        BY <1>0, <2>1 DEF Limits!Passes, Limits!Times, AskedInv
    <2>3. new \in Limits!Rows \cup {NoRow}
        BY <1>5, <2>2 DEF Limits!Extends, Limits!Rows, Limits!Times, Limits!Sources
    <2>4. ASSUME pass.key \in Ids, Long(pass.key)
          PROVE  new = rows[pass.key]
        <3>1. row.suspended_until = operator_until[pass.key] /\ row = rows[pass.key]
            BY <1>0, <1>5, <2>4 DEF LongInv, Stands
        <3>2. /\ operator_until[pass.key] \in Nat /\ operator_until[pass.key] # NoTime
              /\ operator_until[pass.key] > MaxTime + Day
            BY <1>0, <2>4 DEF Long, Limits!Times
        <3>3. ~Limits!Extends(row, pass.until)
            BY <1>0, <2>2, <3>1, <3>2 DEF Limits!Extends
        <3> QED
            BY <3>1, <3>3
    <2> HIDE DEF new
    <2> QED
        BY <2>1, <2>3, <2>4, WrittenStep
<1>7. ASSUME Limits!limiter_clear
      PROVE  LimitsInv'
    <2> DEFINE row == Limits!Row(pass.key)
               new == IF Limits!LimiterOwned(row)
                      THEN [row EXCEPT !.suspended_until = NoTime, !.verdict_source = NoSource]
                      ELSE row
    <2>1. Limits!Written(pass.key, new)
        BY <1>7 DEF Limits!limiter_clear
    <2>2. new \in Limits!Rows \cup {NoRow}
        BY <1>5 DEF Limits!LimiterOwned, Limits!Rows, Limits!Times, Limits!Sources
    <2>3. ASSUME pass.key \in Ids, Long(pass.key)
          PROVE  new = rows[pass.key]
        BY <1>0, <1>5, <2>3 DEF LongInv, Stands, Limits!LimiterOwned
    <2> HIDE DEF new
    <2> QED
        BY <2>1, <2>2, <2>3, WrittenStep
<1>8. ASSUME Limits!Done
      PROVE  LimitsInv'
    BY <1>0, <1>3, <1>8 DEF Limits!Done
<1> QED
    BY <1>1, <1>2, <1>4, <1>6, <1>7, <1>8 DEF Limits!Limiter

\* The limiter and the operators keep long suspensions.
LEMMA LimitsStepInv ==
    ASSUME LimitsInv, Limits!Next
    PROVE  LimitsInv'
<1>0. /\ Limits!TypeOK /\ IsFiniteSet(events) /\ ClockInv /\ AskedInv /\ LongInv
      /\ MaxTime \in Nat /\ clock \in Nat /\ errors \in Nat
    BY WebsiteAssumption DEF LimitsInv, Limits!TypeOK
<1>1. ASSUME Limits!Abort
      PROVE  LimitsInv'
    <2>1. /\ pass' = Limits!Idle /\ errors' \in Nat
          /\ UNCHANGED <<rows, events, clock, edits, operator_until>>
        BY <1>0, <1>1 DEF Limits!Abort
    <2>2. pass' \in Limits!Passes /\ pass'.now = 0 /\ pass'.until = NoTime
        BY <2>1 DEF Limits!Idle, Limits!Passes, Limits!Times
    <2> QED
        BY <1>0, <2>1, <2>2, PassStep
<1>2. ASSUME Limits!Tick
      PROVE  LimitsInv'
    <2>1. /\ clock' \in Nat /\ clock' <= MaxTime
          /\ UNCHANGED <<rows, events, pass, edits, errors, operator_until>>
        BY <1>0, <1>2 DEF Limits!Tick
    <2>2. Limits!TypeOK'
        BY <1>0, <2>1 DEF Limits!TypeOK, Limits!Rows, Limits!Times, Limits!Events,
            Limits!Passes, Limits!Labels, Limits!Sources
    <2> QED
        BY <1>0, <2>1, <2>2 DEF LimitsInv, ClockInv, AskedInv, LongInv, Long, Stands
<1> QED
    BY <1>1, <1>2, LimiterStep, OperatorStep, IngestStep DEF Limits!Next

-----------------------------------------------------------------------------
(* The three parts. *)

\* Only the part that is followed moves.
WebInv ==
    /\ part \in {"limits", "throttle", "sessions"}
    /\ Of("limits", LimitsInv)
    /\ Of("throttle", ThrottleInv)
    /\ Of("sessions", SessionsInv)

\* Nothing is counted at first.
LEMMA InitInv == Init => WebInv
<1>1. ASSUME part = "throttle", Throttle!Init
      PROVE  WebInv
    <2>1. /\ entries = [ip \in Addresses |-> None] /\ attempts = [a \in Attempts |-> None]
          /\ recent = [ip \in Addresses |-> {}]
        BY <1>1 DEF Throttle!Init
    <2>2. Throttle!BudgetHolds
        BY <2>1 DEF Throttle!BudgetHolds
    <2>3. \A ip \in Addresses : ~Counted(ip) /\ Throttle!Fresh(ip) = {} /\ IsFiniteSet(recent[ip])
        BY <2>1, FS_EmptySet DEF Counted, Throttle!Fresh
    <2>4. RecentInv
        BY <2>1, <2>3 DEF RecentInv
    <2> QED
        BY <1>1, <2>2, <2>3, <2>4 DEF WebInv, Of, ThrottleInv, BudgetInv, CountInv
<1>2. ASSUME part = "sessions", Sessions!Init
      PROVE  WebInv
    <2>1. SessionsTyped
        BY <1>2 DEF Sessions!Init, SessionsTyped
    <2>2. OnceInv /\ EndedInv
        BY <1>2, NullAssumption DEF Sessions!Init, OnceInv, EndedInv
    <2> QED
        BY <1>2, <2>1, <2>2 DEF WebInv, Of, SessionsInv
<1>3. ASSUME part = "limits", Limits!Init
      PROVE  WebInv
    <2>1. /\ rows = [id \in Ids |-> NoRow] /\ events = {} /\ clock = 0 /\ edits = 0 /\ errors = 0
          /\ pass = Limits!Idle /\ operator_until = [id \in Ids |-> NoTime]
        BY <1>3 DEF Limits!Init
    <2>2. pass \in Limits!Passes /\ pass.now = 0 /\ pass.until = NoTime
        BY <2>1 DEF Limits!Idle, Limits!Passes, Limits!Times
    <2>3. Limits!TypeOK
        BY <2>1, <2>2 DEF Limits!TypeOK, Limits!Times
    <2>4. IsFiniteSet(events) /\ ClockInv /\ AskedInv /\ LongInv
        BY <2>1, <2>2, FS_EmptySet, WebsiteAssumption DEF ClockInv, AskedInv, LongInv, Long
    <2> QED
        BY <1>3, <2>3, <2>4 DEF WebInv, Of, LimitsInv
<1> QED
    BY <1>1, <1>2, <1>3 DEF Init

\* A step of any part keeps them all, and ends nothing that stands.
LEMMA StepInv ==
    ASSUME WebInv, [Next]_vars
    PROVE  /\ WebInv'
           /\ UNCHANGED vars \/ ( /\ Of("throttle", Throttle!LockoutStands)
                                  /\ Of("sessions", Sessions!NobodyElseEnds))
<1>1. ASSUME LimitsStep
      PROVE  WebInv' /\ part = "limits"
    <2>1. part = "limits" /\ part' = part /\ Limits!Next
        BY <1>1 DEF LimitsStep, OfLimits
    <2> QED
        BY <2>1, LimitsStepInv DEF WebInv, Of
<1>2. ASSUME ThrottleStep
      PROVE  WebInv' /\ part = "throttle" /\ Throttle!LockoutStands
    <2>1. part = "throttle" /\ part' = part /\ Throttle!Next
        BY <1>2 DEF ThrottleStep, OfThrottle
    <2> QED
        BY <2>1, ThrottleStepInv, LockoutStep DEF WebInv, Of
<1>3. ASSUME SessionsStep
      PROVE  WebInv' /\ part = "sessions" /\ Sessions!NobodyElseEnds
    <2>1. part = "sessions" /\ part' = part /\ Sessions!Next
        BY <1>3 DEF SessionsStep, OfSessions
    <2> QED
        BY <2>1, SessionsStepInv DEF WebInv, Of
<1>4. ASSUME UNCHANGED vars
      PROVE  WebInv'
    <2>1. UNCHANGED <<part, limits, throttle, logged>>
        BY <1>4 DEF vars
    <2>2. LimitsInv => LimitsInv'
        BY <2>1 DEF limits, LimitsInv, Limits!TypeOK, ClockInv, AskedInv, LongInv, Long, Stands,
            Limits!Rows, Limits!Times, Limits!Events, Limits!Passes, Limits!Labels, Limits!Sources
    <2>3. ThrottleInv => ThrottleInv'
        BY <2>1 DEF throttle, ThrottleInv, Throttle!BudgetHolds, Throttle!Window, RecentInv,
            BudgetInv, CountInv, Counted, InFlight, InWindow, Failures, Throttle!Fresh
    <2>4. SessionsInv => SessionsInv'
        BY <2>1 DEF logged, SessionsInv, SessionsTyped, OnceInv, EndedInv, Session, Sessions!Valid
    <2> QED
        BY <2>1, <2>2, <2>3, <2>4 DEF WebInv, Of
<1> QED
    BY <1>1, <1>2, <1>3, <1>4 DEF Next, Of

\* auth/throttle.rs, db/session.rs, db/keys.rs: for any number of addresses, attempts, tokens,
\* flows and keys, every count is the count of what it stands for: a window counts its failures
\* and passes its budget by no more than the attempts already let through, a login opens one
\* session, a token found ended stays out (one that only a failed lookup refused may come
\* back), an operator's long suspension stands.
THEOREM CountsAreTrue == Spec => []Consistent
<1>1. WebInv => Consistent
    <2>1. LimitsInv => Limits!TypeOK /\ Limits!LongSuspensionsStand
        BY DEF LimitsInv, LongInv, Long, Stands, Limits!LongSuspensionsStand
    <2>2. ThrottleInv => Throttle!BudgetHolds /\ Throttle!CountsItsWindow
        BY SameCardinality DEF ThrottleInv, CountInv, Counted, InWindow, Throttle!CountsItsWindow
    <2>3. SessionsInv => Sessions!OneLoginPerFlow /\ Sessions!EndedStaysEnded
        BY SessionsConsistent
    <2> QED
        BY <2>1, <2>2, <2>3 DEF WebInv, Of, Consistent
<1>2. WebInv /\ [Next]_vars => WebInv'
    BY StepInv
<1> QED
    BY <1>1, <1>2, InitInv, PTL DEF Spec

\* A lockout ends with its window, by a success from its address or with the process; a session
\* in use ends by its own logout: no other step of the web control plane ends one.
THEOREM NothingElseEndsThem == Spec => StandsUntilEnded
<1>1. WebInv /\ [Next]_vars => WebInv'
    BY StepInv
<1>2. WebInv /\ [Next]_vars => [/\ Of("throttle", Throttle!LockoutStands)
                                /\ Of("sessions", Sessions!NobodyElseEnds)]_vars
    BY StepInv
<1> QED
    BY <1>1, <1>2, InitInv, PTL DEF Spec, StandsUntilEnded
=============================================================================
