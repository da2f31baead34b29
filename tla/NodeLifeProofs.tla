--------------------------- MODULE NodeLifeProofs ---------------------------
(***************************************************************************)
(* Proofs about NodeLife for every ring, every batch size and every number *)
(* of requests: type correctness, that the listener opens on caches that   *)
(* have been asked for, and that every event is in one place from its      *)
(* emission to the exit of the node.                                       *)
(***************************************************************************)
EXTENDS NodeLife, FiniteSetTheorems, SequenceTheorems, TLAPS

-----------------------------------------------------------------------------
(* The inductive invariant. *)

Running == {"up", "exited"}
Early == {"topology", "identity", "limits", "usage"}
\* The steps of run() up to the one that starts t, a primed refresher.
UpTo(t) == IF t = "identity" THEN {"topology", "identity"} ELSE Early \cup {"jwks"}

\* A node that has passed the step of a primed refresher has made its first pull.
BootInv ==
    /\ boot \in Refreshers \cup {"usage", "listen"} \cup Running
    /\ at \in [Refreshers -> Places]
    /\ \A t \in Refreshers : at[t] # "unspawned" => t \in Configured
    /\ tried \subseteq Configured
    /\ cancelled \in BOOLEAN
    /\ listener \in {"closed", "open", "draining", "done"}
    /\ listener # "closed" => boot \in Running
    /\ \A t \in Primed \cap Configured : t \in tried \/ boot \in UpTo(t)

\* Nothing is put on the ring until the listener opens, and the reporter runs from its step on.
RingInv ==
    /\ open \in 0..MaxOpen /\ emitted \in Nat /\ emitted + open <= MaxEvents
    /\ cursor \in 0..emitted
    /\ listener = "closed" => emitted = 0 /\ open = 0
    /\ boot \in Early => reporter = "unspawned"

\* The reporter's hand.
HandInv ==
    /\ reporter \in {"unspawned", "idle", "posting", "posting_last", "ended"}
    /\ arrived \in BOOLEAN
    /\ batch \in Seq(1..cursor) /\ IsInjective(batch)
    /\ Len(batch) <= BatchMax /\ (reporter = "idle" => Len(batch) < BatchMax)
    /\ reporter \in {"unspawned", "ended"} => batch = <<>>
    /\ arrived => Posting

\* The events in hand that the sink has not stored yet.
Hand == IF arrived THEN {} ELSE ToSet(batch)
Adrift == UNION {ToSet(b) : b \in adrift}

\* Batches that were given up on are whole, and share no event.
DriftInv ==
    /\ \A b \in adrift : b \in Seq(1..cursor) /\ Len(b) <= BatchMax /\ IsInjective(b)
    /\ \A b, c \in adrift : b # c => ToSet(b) \cap ToSet(c) = {}
    /\ sink \in Seq(1..cursor) /\ IsInjective(sink)

\* All is in one of five places, and nothing is in two.
Parted(all, skipped, held, stored, drifting, gone) ==
    /\ all = skipped \cup held \cup stored \cup drifting \cup gone
    /\ skipped \cap (held \cup stored \cup drifting \cup gone) = {}
    /\ held \cap (stored \cup drifting \cup gone) = {}
    /\ stored \cap (drifting \cup gone) = {}
    /\ drifting \cap gone = {}

\* The events taken from the ring.
TakenInv == Parted(1..cursor, lagged, Hand, ToSet(sink), Adrift, lost)

ReportInv == HandInv /\ DriftInv /\ TakenInv
LifeInv == BootInv /\ RingInv /\ ReportInv

-----------------------------------------------------------------------------
(* Sequences of events. *)

\* The elements of a sequence bound what it is a sequence of.
LEMMA SeqOver ==
    ASSUME NEW S, NEW T, NEW s \in Seq(S), ToSet(s) \subseteq T
    PROVE  s \in Seq(T)
<1>1. \A i \in 1..Len(s) : s[i] \in T
    BY LenProperties DEF ToSet
<1> QED
    BY <1>1, LenProperties, SeqMonotonic

\* What a sequence over S has, S has.
LEMMA SetOver ==
    ASSUME NEW S, NEW s \in Seq(S)
    PROVE  ToSet(s) \subseteq S
BY DEF ToSet

\* A short sequence is a bounded one.
LEMMA BoundedFacts ==
    ASSUME NEW S, NEW s \in Seq(S), NEW n \in Nat, Len(s) <= n
    PROVE  s \in BoundedSeq(S, n)
<1>1. Len(s) \in 0..n /\ s \in [1..Len(s) -> S]
    BY LenProperties
<1> QED
    BY <1>1 DEF BoundedSeq, SeqOf

\* Appending a new element.
LEMMA AppendFacts ==
    ASSUME NEW S, NEW s \in Seq(S), NEW e \in S, e \notin ToSet(s), IsInjective(s)
    PROVE  /\ Append(s, e) \in Seq(S) /\ Len(Append(s, e)) = Len(s) + 1
           /\ ToSet(Append(s, e)) = ToSet(s) \cup {e}
           /\ IsInjective(Append(s, e))
<1>1. /\ Append(s, e) \in Seq(S) /\ Len(Append(s, e)) = Len(s) + 1
      /\ DOMAIN Append(s, e) = DOMAIN s \cup {Len(s) + 1} /\ Len(s) + 1 \notin DOMAIN s
      /\ Append(s, e)[Len(s) + 1] = e
      /\ \A i \in DOMAIN s : Append(s, e)[i] = s[i]
    OBVIOUS
<1> QED
    BY <1>1 DEF ToSet, IsInjective

\* Joining two sequences that share no element.
LEMMA ConcatFacts ==
    ASSUME NEW S, NEW s \in Seq(S), NEW t \in Seq(S), IsInjective(s), IsInjective(t),
           ToSet(s) \cap ToSet(t) = {}
    PROVE  /\ s \o t \in Seq(S) /\ ToSet(s \o t) = ToSet(s) \cup ToSet(t)
           /\ IsInjective(s \o t)
<1>1. /\ s \o t \in Seq(S) /\ Len(s \o t) = Len(s) + Len(t)
      /\ Len(s) \in Nat /\ Len(t) \in Nat
      /\ DOMAIN s = 1..Len(s) /\ DOMAIN t = 1..Len(t) /\ DOMAIN (s \o t) = 1..(Len(s) + Len(t))
    BY ConcatProperties, LenProperties
<1>2. \A i \in DOMAIN s : i \in DOMAIN (s \o t) /\ (s \o t)[i] = s[i]
    BY <1>1, ConcatProperties
<1>3. \A i \in DOMAIN t : Len(s) + i \in DOMAIN (s \o t) /\ (s \o t)[Len(s) + i] = t[i]
    <2>1. \A i \in DOMAIN t : /\ Len(s) + i \in 1..(Len(s) + Len(t)) /\ Len(s) + i > Len(s)
                              /\ Len(s) + i - Len(s) = i
        BY <1>1
    <2> QED
        BY <1>1, <2>1, ConcatProperties
<1>4. \A i \in DOMAIN (s \o t) : i \in DOMAIN s \/ \E j \in DOMAIN t : i = Len(s) + j
    <2>1. \A i \in DOMAIN (s \o t) :
              i \in DOMAIN s \/ (i - Len(s) \in DOMAIN t /\ i = Len(s) + (i - Len(s)))
        BY <1>1
    <2> QED
        BY <2>1
<1>5. ToSet(s \o t) = ToSet(s) \cup ToSet(t)
    <2>1. ToSet(s \o t) \subseteq ToSet(s) \cup ToSet(t)
        BY <1>2, <1>3, <1>4 DEF ToSet
    <2>2. ToSet(s) \cup ToSet(t) \subseteq ToSet(s \o t)
        BY <1>2, <1>3 DEF ToSet
    <2> QED
        BY <2>1, <2>2
<1>6. ASSUME NEW i \in DOMAIN (s \o t), NEW j \in DOMAIN (s \o t), (s \o t)[i] = (s \o t)[j]
      PROVE  i = j
    <2>1. CASE i \in DOMAIN s /\ j \in DOMAIN s
        BY <1>2, <1>6, <2>1 DEF IsInjective
    <2>2. ASSUME NEW k \in DOMAIN t, NEW l \in DOMAIN s
          PROVE  t[k] # s[l]
        BY DEF ToSet
    <2>3. CASE i \in DOMAIN s /\ j \notin DOMAIN s
        BY <1>2, <1>3, <1>4, <1>6, <2>2, <2>3
    <2>4. CASE i \notin DOMAIN s /\ j \in DOMAIN s
        BY <1>2, <1>3, <1>4, <1>6, <2>2, <2>4
    <2>5. CASE i \notin DOMAIN s /\ j \notin DOMAIN s
        BY <1>3, <1>4, <1>6, <2>5 DEF IsInjective
    <2> QED
        BY <2>1, <2>3, <2>4, <2>5
<1> QED
    BY <1>1, <1>5, <1>6 DEF IsInjective

\* The set of events is what a place amounts to, and the empty sequence has none.
LEMMA EmptyFacts ==
    ToSet(<<>>) = {} /\ IsInjective(<<>>) /\ Len(<<>>) = 0 /\ \A S : <<>> \in Seq(S)
BY DEF ToSet, IsInjective

-----------------------------------------------------------------------------
(* Start and end of the node. *)

\* The order of run(), in cases.
LEMMA FollowingFacts ==
    /\ Following("topology") = "identity" /\ Following("identity") = "limits"
    /\ Following("limits") = "usage" /\ Following("usage") = "jwks"
    /\ Following("jwks") = "listen"
BY DEF Following

\* A step of run() passes no primed refresher that has not made its pull.
LEMMA PassStep ==
    ASSUME BootInv, boot \in Refreshers \cup {"usage"}, boot' = Following(boot),
           boot \notin Primed \cap Configured \/ boot \in tried', tried \subseteq tried'
    PROVE  /\ boot' \in Refreshers \cup {"usage", "listen"}
           /\ \A t \in Primed \cap Configured : t \in tried' \/ boot' \in UpTo(t)
BY FollowingFacts DEF BootInv, Refreshers, Primed, UpTo, Early

\* The end of a pull.
LEMMA PullStep ==
    ASSUME BootInv, NEW t \in Refreshers, at[t] \in Waiting \cup Reading, PullOver(t),
           UNCHANGED <<cancelled, listener>>
    PROVE  BootInv'
<1>1. t \in Configured /\ tried' = tried \cup {t}
    BY DEF BootInv, PullOver, Waiting, Reading
<1>2. /\ at' \in [Refreshers -> Places]
      /\ \A u \in Refreshers : at'[u] # "unspawned" => u \in Configured
    BY <1>1 DEF BootInv, PullOver, Places
<1>3. CASE boot = t
    <2>1. boot' = Following(boot) /\ boot \in tried'
        BY <1>1, <1>3 DEF PullOver
    <2>2. /\ boot' \in Refreshers \cup {"usage", "listen"}
          /\ \A u \in Primed \cap Configured : u \in tried' \/ boot' \in UpTo(u)
        BY <1>1, <1>3, <2>1, PassStep
    <2>3. listener = "closed"
        BY <1>3 DEF BootInv, Refreshers, Running
    <2> QED
        BY <1>1, <1>2, <2>2, <2>3 DEF BootInv
<1>4. CASE boot # t
    BY <1>1, <1>2, <1>4 DEF BootInv, PullOver
<1> QED
    BY <1>3, <1>4

\* The inductive step of the start and the refreshers.
LEMMA BootStep == BootInv /\ [Next]_vars => BootInv'
<1> SUFFICES ASSUME BootInv, [Next]_vars
             PROVE  BootInv'
    OBVIOUS
<1> USE DEF Running
<1>1. CASE SkipStep
    <2>1. /\ boot' \in Refreshers \cup {"usage", "listen"}
          /\ \A t \in Primed \cap Configured : t \in tried' \/ boot' \in UpTo(t)
        BY <1>1, PassStep DEF SkipStep
    <2>2. listener' = "closed"
        BY <1>1 DEF SkipStep, BootInv, Refreshers
    <2> QED
        BY <1>1, <2>1, <2>2 DEF SkipStep, BootInv
<1>2. CASE StartRefresher
    <2>1. /\ boot \in Refreshers /\ boot \in Configured /\ Launch(boot)
          /\ UNCHANGED <<tried, cancelled, listener>>
        BY <1>2 DEF StartRefresher
    <2>2. listener' = "closed"
        BY <2>1 DEF BootInv, Refreshers
    <2>3. /\ at' \in [Refreshers -> Places]
          /\ \A u \in Refreshers : at'[u] # "unspawned" => u \in Configured
        BY <2>1 DEF Launch, BootInv, FirstGet, Places, Waiting
    <2>4. CASE boot \in Primed
        BY <2>1, <2>2, <2>3, <2>4 DEF Launch, BootInv
    <2>5. CASE boot \notin Primed
        <3>1. boot' = Following(boot)
            BY <2>1, <2>5 DEF Launch
        <3>2. /\ boot' \in Refreshers \cup {"usage", "listen"}
              /\ \A t \in Primed \cap Configured : t \in tried' \/ boot' \in UpTo(t)
            BY <2>1, <2>5, <3>1, PassStep
        <3> QED
            BY <2>1, <2>2, <2>3, <3>2 DEF BootInv
    <2> QED
        BY <2>4, <2>5
<1>3. CASE StartReporter
    <2>1. /\ boot' \in Refreshers \cup {"usage", "listen"}
          /\ \A t \in Primed \cap Configured : t \in tried' \/ boot' \in UpTo(t)
        BY <1>3, PassStep DEF StartReporter, Primed
    <2>2. listener' = "closed"
        BY <1>3 DEF StartReporter, BootInv, Refreshers
    <2> QED
        BY <1>3, <2>1, <2>2 DEF StartReporter, BootInv
<1>4. CASE Listen \/ BindFails
    <2>1. \A t \in Primed \cap Configured : t \in tried
        BY <1>4 DEF Listen, BindFails, BootInv, UpTo, Early
    <2> QED
        BY <1>4, <2>1 DEF Listen, BindFails, BootInv
<1>5. ASSUME NEW t \in Refreshers, Refresh(t)
      PROVE  BootInv'
    <2>1. CASE Tick(t)
        BY <2>1 DEF Tick, BootInv, FirstGet, Places, Waiting
    <2>2. CASE StopRefresher(t)
        BY <2>2 DEF StopRefresher, BootInv, Places
    <2>3. CASE Answered(t)
        BY <2>3 DEF Answered, BootInv, Places, Waiting, Reading
    <2>4. CASE Unanswered(t) \/ BodyFails(t)
        BY <2>4, PullStep DEF Unanswered, BodyFails
    <2>5. CASE BodyRead(t) /\ at[t] = "reading"
        BY <2>5 DEF BodyRead, BootInv, Places, Waiting
    <2>6. CASE BodyRead(t) /\ at[t] # "reading"
        BY <2>6, PullStep DEF BodyRead, Reading
    <2> QED
        BY <1>5, <2>1, <2>2, <2>3, <2>4, <2>5, <2>6 DEF Refresh
<1>6. CASE Signal \/ Drained \/ Join
    BY <1>6 DEF Signal, Drained, Join, BootInv, UpTo, Early
<1>7. ASSUME UNCHANGED <<boot, at, tried, cancelled, listener>>
      PROVE  BootInv'
    BY <1>7 DEF BootInv
<1> QED
    BY <1>1, <1>2, <1>3, <1>4, <1>5, <1>6, <1>7
    DEF Next, Start, Requests, Report, Drift, vars, Admit, Finish, HangUp, Push, Lag, Flush,
        LastSend, SinkStores, Acknowledged, GivenUp, StoredLate, NeverStored, Exited

\* Which steps move the ring, and that the reporter starts on an empty one.
LEMMA RingStep == BootInv /\ RingInv /\ [Next]_vars => RingInv'
<1> SUFFICES ASSUME BootInv, RingInv, [Next]_vars
             PROVE  RingInv'
    OBVIOUS
<1>0. MaxEvents \in Nat /\ MaxOpen \in Nat /\ Capacity \in Nat \ {0}
    BY NodeAssumption
<1>1. CASE SkipStep
    BY <1>1, FollowingFacts DEF SkipStep, RingInv, ringVars, reportVars, Early, Refreshers
<1>2. CASE StartRefresher
    BY <1>2, FollowingFacts
    DEF StartRefresher, Launch, RingInv, ringVars, reportVars, Early, Refreshers
<1>3. CASE StartReporter
    BY <1>3, FollowingFacts DEF StartReporter, RingInv, ringVars, Early
<1>4. CASE Listen \/ BindFails
    BY <1>4 DEF Listen, BindFails, RingInv, ringVars, reportVars, Early
<1>5. ASSUME NEW t \in Refreshers, Refresh(t)
      PROVE  RingInv'
    <2>1. UNCHANGED <<listener, open, emitted, cursor, reporter>>
        BY <1>5 DEF Refresh, Tick, StopRefresher, Answered, Unanswered, BodyRead, BodyFails,
                    ringVars, reportVars
    <2>2. boot' = boot \/ (boot = t /\ boot' = Following(boot))
        BY <1>5 DEF Refresh, Tick, StopRefresher, Answered, Unanswered, BodyRead, BodyFails,
                    PullOver
    <2>3. boot' \in Early => boot \in Early
        BY <2>2, FollowingFacts DEF Early, Refreshers
    <2> QED
        BY <2>1, <2>3 DEF RingInv
<1>6. CASE Requests
    BY <1>0, <1>6 DEF Requests, Admit, Finish, HangUp, RingInv, BootInv, reportVars, Early, Running
<1>7. ASSUME UNCHANGED <<boot, listener, open, emitted>>, cursor' \in 0..emitted,
             reporter' = reporter \/ reporter # "unspawned"
      PROVE  RingInv'
    BY <1>7 DEF RingInv
<1>8. CASE Report
    <2>1. cursor' \in 0..emitted
        <3>1. CASE Lag
            BY <1>0, <3>1 DEF RingInv, Lag
        <3>2. CASE Push
            BY <3>2 DEF RingInv, Push
        <3>3. CASE cursor' = cursor
            BY <3>3 DEF RingInv
        <3> QED
            BY <1>8, <3>1, <3>2, <3>3
            DEF Report, Flush, LastSend, SinkStores, Acknowledged, GivenUp
    <2>2. UNCHANGED <<boot, listener, open, emitted>>
        BY <1>8 DEF Report, Push, Lag, Flush, LastSend, SinkStores, Acknowledged, GivenUp, ringVars
    <2>3. reporter # "unspawned"
        BY <1>8 DEF Report, Push, Lag, Flush, LastSend, SinkStores, Acknowledged, GivenUp, Posting
    <2> QED
        BY <1>7, <2>1, <2>2, <2>3
<1>9. CASE Drift
    BY <1>7, <1>9 DEF Drift, StoredLate, NeverStored, ringVars, RingInv
<1>10. CASE Signal \/ Drained \/ Join \/ Exited \/ UNCHANGED vars
    BY <1>10 DEF Signal, Drained, Join, Exited, vars, RingInv, ringVars, reportVars, Early
<1> QED
    BY <1>1, <1>2, <1>3, <1>4, <1>5, <1>6, <1>8, <1>9, <1>10 DEF Next, Start

-----------------------------------------------------------------------------
(* The reporter and its sink. *)

\* What sending leaves.
LEMMA SendFacts ==
    ASSUME NEW events, NEW last \in BOOLEAN, Send(events, last)
    PROVE  /\ batch' = events /\ arrived' = FALSE
           /\ reporter' \in {"idle", "posting", "posting_last", "ended"}
           /\ reporter' \in {"idle", "ended"} => events = <<>>
BY DEF Send

\* Sequences of the events taken so far stay what they are when more are taken.
LEMMA MoreTaken ==
    ASSUME NEW m \in Nat, NEW n \in Nat, m <= n
    PROVE  Seq(1..m) \subseteq Seq(1..n)
<1>1. 1..m \subseteq 1..n
    OBVIOUS
<1> QED
    BY <1>1, SeqMonotonic

\* An event in hand, sunk or adrift has been taken.
LEMMA DriftKept ==
    ASSUME DriftInv, cursor \in Nat, cursor' \in Nat, cursor <= cursor',
           UNCHANGED <<adrift, sink>>
    PROVE  DriftInv'
<1>1. Seq(1..cursor) \subseteq Seq(1..cursor')
    BY MoreTaken
<1> QED
    BY <1>1 DEF DriftInv

\* A reporter that has nothing in hand.
LEMMA ClearedStep ==
    ASSUME HandInv, Cleared, cursor' = cursor
    PROVE  HandInv' /\ Hand' = {}
<1>1. BatchMax \in Nat \ {0}
    BY NodeAssumption
<1>2. batch' = <<>> /\ arrived' = FALSE /\ reporter' \in {"idle", "ended"}
    BY DEF Cleared
<1>3. batch' \in Seq(1..cursor') /\ IsInjective(batch') /\ Len(batch') = 0 /\ ToSet(batch') = {}
    BY <1>2, EmptyFacts
<1>4. reporter' \in {"unspawned", "idle", "posting", "posting_last", "ended"}
      /\ arrived' \in BOOLEAN /\ (arrived' => Posting')
    BY <1>2
<1>5. Len(batch') <= BatchMax /\ (reporter' = "idle" => Len(batch') < BatchMax)
    BY <1>1, <1>3
<1>6. HandInv'
    BY <1>2, <1>3, <1>4, <1>5 DEF HandInv
<1>7. Hand' = {}
    BY <1>2, <1>3 DEF Hand
<1> QED
    BY <1>6, <1>7

\* The next event is taken in hand.
LEMMA TakeStep ==
    ASSUME RingInv, ReportInv, Push
    PROVE  ReportInv'
<1> DEFINE e == cursor + 1
           b == Append(batch, cursor + 1)
<1>0. /\ cursor \in Nat /\ cursor' = cursor + 1 /\ BatchMax \in Nat \ {0}
      /\ UNCHANGED <<lagged, adrift, lost, sink>>
    BY NodeAssumption DEF RingInv, Push
<1>1. /\ reporter = "idle" /\ arrived = FALSE /\ batch \in Seq(1..cursor) /\ IsInjective(batch)
      /\ Len(batch) < BatchMax
    BY DEF ReportInv, HandInv, Push, Posting
<1>2. batch \in Seq(1..cursor') /\ e \in 1..cursor' /\ e \notin 1..cursor
    BY <1>0, <1>1, MoreTaken
<1>3. e \notin ToSet(batch)
    BY <1>1, <1>2, SetOver
<1>4. b \in Seq(1..cursor') /\ Len(b) = Len(batch) + 1 /\ ToSet(b) = ToSet(batch) \cup {e}
      /\ IsInjective(b)
    BY <1>1, <1>2, <1>3, AppendFacts
<1>5. /\ batch' = b /\ arrived' = FALSE
      /\ reporter' \in {"idle", "posting", "posting_last", "ended"}
      /\ reporter' = "idle" => Len(b) < BatchMax
      /\ reporter' # "ended"
    <2>1. Len(b) \in Nat /\ Len(b) > 0 /\ b # <<>>
        <3>1. Len(batch) \in Nat
            BY <1>1, LenProperties
        <3>2. Len(b) \in Nat /\ Len(b) > 0
            BY <1>4, <3>1
        <3>3. b = <<>> => Len(b) = 0
            BY EmptyFacts
        <3> QED
            BY <3>2, <3>3
    <2>2. CASE Len(b) >= BatchMax
        <3>1. Send(b, FALSE)
            BY <2>2 DEF Push
        <3> QED
            BY <2>1, <3>1, SendFacts
    <2>3. CASE ~(Len(b) >= BatchMax)
        BY <1>0, <1>1, <2>1, <2>3 DEF Push
    <2> QED
        BY <2>2, <2>3
<1> HIDE DEF b
<1>6. Len(b) <= BatchMax
    BY <1>0, <1>1, <1>4, LenProperties
<1>7. HandInv'
    BY <1>4, <1>5, <1>6 DEF HandInv
<1>8. DriftInv'
    BY <1>0, DriftKept DEF ReportInv
<1>9. TakenInv'
    <2>1. Hand = ToSet(batch) /\ Hand' = ToSet(batch) \cup {e} /\ 1..cursor' = (1..cursor) \cup {e}
        BY <1>0, <1>1, <1>4, <1>5 DEF Hand
    <2>2. Adrift' = Adrift
        BY <1>0 DEF Adrift
    <2>3. Parted(1..cursor, lagged, Hand, ToSet(sink), Adrift, lost)
        BY DEF ReportInv, TakenInv
    <2>4. Parted((1..cursor) \cup {e}, lagged, Hand \cup {e}, ToSet(sink), Adrift, lost)
        BY <1>2, <2>3 DEF Parted
    <2> QED
        BY <1>0, <2>1, <2>2, <2>4 DEF TakenInv
<1> QED
    BY <1>7, <1>8, <1>9 DEF ReportInv

\* The receiver skips what the ring no longer retains.
LEMMA LagStep ==
    ASSUME RingInv, ReportInv, Lag
    PROVE  ReportInv'
<1> DEFINE skipped == cursor + 1 .. emitted - Capacity
<1>0. /\ cursor \in Nat /\ emitted \in Nat /\ Capacity \in Nat \ {0}
      /\ cursor' = emitted - Capacity /\ cursor < cursor' /\ cursor' \in Nat
      /\ lagged' = lagged \cup skipped
      /\ UNCHANGED <<reporter, batch, arrived, adrift, lost, sink>>
    BY NodeAssumption DEF RingInv, Lag, sinkVars
<1>1. HandInv'
    <2>1. Seq(1..cursor) \subseteq Seq(1..cursor')
        BY <1>0, MoreTaken
    <2> QED
        BY <1>0, <2>1 DEF ReportInv, HandInv, Posting
<1>2. DriftInv'
    BY <1>0, DriftKept DEF ReportInv
<1>3. TakenInv'
    <2>1. 1..cursor' = (1..cursor) \cup skipped /\ skipped \cap (1..cursor) = {}
        BY <1>0
    <2>2. Adrift' = Adrift /\ Hand' = Hand
        BY <1>0 DEF Adrift, Hand
    <2>3. Parted(1..cursor, lagged, Hand, ToSet(sink), Adrift, lost)
        BY DEF ReportInv, TakenInv
    <2> HIDE DEF skipped
    <2>4. Parted((1..cursor) \cup skipped, lagged \cup skipped, Hand, ToSet(sink), Adrift, lost)
        BY <2>1, <2>3 DEF Parted
    <2> QED
        BY <1>0, <2>1, <2>2, <2>4 DEF TakenInv
<1> QED
    BY <1>1, <1>2, <1>3 DEF ReportInv

\* What is in hand is posted.
LEMMA PostStep ==
    ASSUME RingInv, ReportInv, Flush \/ LastSend
    PROVE  ReportInv'
<1>0. /\ reporter = "idle" /\ UNCHANGED <<cursor, lagged, adrift, lost, sink>>
      /\ \E last \in BOOLEAN : Send(batch, last)
    BY DEF Flush, LastSend
<1>1. HandInv /\ arrived = FALSE /\ BatchMax \in Nat \ {0}
    BY <1>0, NodeAssumption DEF ReportInv, HandInv, Posting
<1>2. /\ batch' = batch /\ arrived' = FALSE
      /\ reporter' \in {"idle", "posting", "posting_last", "ended"}
      /\ reporter' \in {"idle", "ended"} => batch = <<>>
    BY <1>0, SendFacts
<1>3. HandInv'
    BY <1>0, <1>1, <1>2, EmptyFacts DEF HandInv
<1>4. DriftInv' /\ TakenInv'
    BY <1>0, <1>1, <1>2 DEF ReportInv, DriftInv, TakenInv, Hand, Adrift
<1> QED
    BY <1>3, <1>4 DEF ReportInv

\* The sink stores the batch that is being posted.
LEMMA StoreStep ==
    ASSUME ReportInv, SinkStores
    PROVE  ReportInv'
<1>0. /\ Posting /\ arrived = FALSE /\ arrived' = TRUE /\ sink' = sink \o batch
      /\ UNCHANGED <<cursor, lagged, reporter, batch, adrift, lost>>
    BY DEF ReportInv, HandInv, SinkStores
<1>1. Hand = ToSet(batch) /\ Hand' = {} /\ Adrift' = Adrift
    BY <1>0 DEF Hand, Adrift
<1>2. Parted(1..cursor, lagged, Hand, ToSet(sink), Adrift, lost)
    BY DEF ReportInv, TakenInv
<1>3. /\ batch \in Seq(1..cursor) /\ IsInjective(batch)
      /\ sink \in Seq(1..cursor) /\ IsInjective(sink) /\ ToSet(sink) \cap ToSet(batch) = {}
    BY <1>1, <1>2 DEF ReportInv, HandInv, DriftInv, Parted
<1>4. /\ sink' \in Seq(1..cursor) /\ ToSet(sink') = ToSet(sink) \cup ToSet(batch)
      /\ IsInjective(sink')
    BY <1>0, <1>3, ConcatFacts
<1>5. TakenInv'
    <2>1. Parted(1..cursor, lagged, {}, ToSet(sink) \cup Hand, Adrift, lost)
        BY <1>2 DEF Parted
    <2> QED
        BY <1>0, <1>1, <1>4, <2>1 DEF TakenInv
<1>6. HandInv' /\ DriftInv'
    BY <1>0, <1>4 DEF ReportInv, HandInv, DriftInv, Posting
<1> QED
    BY <1>5, <1>6 DEF ReportInv

\* The batch is let go: the sink has it, or no one knows.
LEMMA LetGoStep ==
    ASSUME ReportInv, Acknowledged \/ GivenUp
    PROVE  ReportInv'
<1>0. /\ Cleared /\ UNCHANGED <<cursor, lagged, lost, sink>>
      /\ adrift' = IF arrived THEN adrift ELSE adrift \cup {batch}
      /\ arrived \in BOOLEAN
    BY DEF Acknowledged, GivenUp, ReportInv, HandInv
<1>1. HandInv' /\ Hand' = {}
    BY <1>0, ClearedStep DEF ReportInv
<1>2. Parted(1..cursor, lagged, Hand, ToSet(sink), Adrift, lost)
    BY DEF ReportInv, TakenInv
<1>3. CASE arrived
    <2>1. Hand = {} /\ adrift' = adrift
        BY <1>0, <1>3 DEF Hand
    <2>2. DriftInv' /\ Adrift' = Adrift
        BY <1>0, <2>1 DEF ReportInv, DriftInv, Adrift
    <2>3. TakenInv'
        BY <1>0, <1>1, <1>2, <2>1, <2>2 DEF TakenInv
    <2> QED
        BY <1>1, <2>2, <2>3 DEF ReportInv
<1>4. CASE ~arrived
    <2>1. Hand = ToSet(batch) /\ adrift' = adrift \cup {batch}
        BY <1>0, <1>4 DEF Hand
    <2>2. Adrift' = Adrift \cup Hand
        BY <2>1 DEF Adrift
    <2>3. TakenInv'
        <3>1. Parted(1..cursor, lagged, {}, ToSet(sink), Adrift \cup Hand, lost)
            BY <1>2 DEF Parted
        <3> QED
            BY <1>0, <1>1, <2>2, <3>1 DEF TakenInv
    <2>4. \A b \in adrift : ToSet(b) \cap ToSet(batch) = {}
        BY <1>2, <2>1 DEF Parted, Adrift
    <2>5. DriftInv'
        BY <1>0, <2>1, <2>4 DEF ReportInv, HandInv, DriftInv
    <2> QED
        BY <1>1, <2>3, <2>5 DEF ReportInv
<1> QED
    BY <1>3, <1>4

\* A batch that leaves the wire takes its events with it.
LEMMA DriftLess ==
    ASSUME DriftInv, NEW b \in adrift, adrift' = adrift \ {b}
    PROVE  Adrift = Adrift' \cup ToSet(b) /\ Adrift' \cap ToSet(b) = {}
<1>1. \A c \in adrift' : c \in adrift /\ ToSet(c) \cap ToSet(b) = {}
    BY DEF DriftInv
<1>2. \A c \in adrift : c \in adrift' \/ c = b
    OBVIOUS
<1> QED
    BY <1>1, <1>2 DEF Adrift

\* A batch given up on reaches the sink, or never will.
LEMMA DriftStep ==
    ASSUME ReportInv, NEW b \in adrift, StoredLate(b) \/ NeverStored(b)
    PROVE  ReportInv'
<1>0. /\ adrift' = adrift \ {b} /\ UNCHANGED <<cursor, lagged, reporter, batch, arrived>>
    BY DEF StoredLate, NeverStored
<1>1. HandInv' /\ Hand' = Hand
    BY <1>0 DEF ReportInv, HandInv, Hand, Posting
<1>2. Parted(1..cursor, lagged, Hand, ToSet(sink), Adrift, lost)
    BY DEF ReportInv, TakenInv
<1>3. Adrift = Adrift' \cup ToSet(b) /\ Adrift' \cap ToSet(b) = {}
    BY <1>0, DriftLess DEF ReportInv
<1>4. /\ \A c \in adrift' : c \in Seq(1..cursor) /\ Len(c) <= BatchMax /\ IsInjective(c)
      /\ \A c, d \in adrift' : c # d => ToSet(c) \cap ToSet(d) = {}
    BY <1>0 DEF ReportInv, DriftInv
<1>5. CASE StoredLate(b)
    <2>1. sink' = sink \o b /\ lost' = lost
        BY <1>5 DEF StoredLate
    <2>2. /\ b \in Seq(1..cursor) /\ IsInjective(b) /\ sink \in Seq(1..cursor) /\ IsInjective(sink)
          /\ ToSet(sink) \cap ToSet(b) = {}
        BY <1>2, <1>3 DEF ReportInv, DriftInv, Parted
    <2>3. /\ sink' \in Seq(1..cursor) /\ ToSet(sink') = ToSet(sink) \cup ToSet(b)
          /\ IsInjective(sink')
        BY <2>1, <2>2, ConcatFacts
    <2>4. Parted(1..cursor, lagged, Hand, ToSet(sink) \cup ToSet(b), Adrift', lost)
        BY <1>2, <1>3 DEF Parted
    <2>5. TakenInv'
        BY <1>0, <1>1, <2>1, <2>3, <2>4 DEF TakenInv
    <2>6. DriftInv'
        BY <1>0, <1>4, <2>3 DEF DriftInv
    <2> QED
        BY <1>1, <2>5, <2>6 DEF ReportInv
<1>6. CASE NeverStored(b)
    <2>1. sink' = sink /\ lost' = lost \cup ToSet(b)
        BY <1>6 DEF NeverStored
    <2>2. Parted(1..cursor, lagged, Hand, ToSet(sink), Adrift', lost \cup ToSet(b))
        BY <1>2, <1>3 DEF Parted
    <2>3. TakenInv'
        BY <1>0, <1>1, <2>1, <2>2 DEF TakenInv
    <2>4. DriftInv'
        BY <1>0, <1>4, <2>1 DEF ReportInv, DriftInv
    <2> QED
        BY <1>1, <2>3, <2>4 DEF ReportInv
<1> QED
    BY <1>5, <1>6

\* The reporter subscribes to a ring nothing has been put on.
LEMMA SubscribeStep ==
    ASSUME BootInv, RingInv, ReportInv, StartReporter
    PROVE  ReportInv'
<1>1. boot \in Early /\ boot \notin Running
    BY DEF StartReporter, Early, Running
<1>2. emitted = 0 /\ cursor' = cursor /\ reporter = "unspawned" /\ reporter' = "idle"
    BY <1>1 DEF StartReporter, BootInv, RingInv
<1>3. UNCHANGED <<lagged, batch, arrived, adrift, lost, sink>>
    BY DEF StartReporter, sinkVars
<1>4. HandInv'
    <2>1. batch = <<>> /\ ~arrived /\ BatchMax \in Nat \ {0}
        BY <1>2, NodeAssumption DEF ReportInv, HandInv, Posting
    <2> QED
        BY <1>2, <1>3, <2>1, EmptyFacts DEF ReportInv, HandInv
<1>5. DriftInv' /\ TakenInv'
    BY <1>2, <1>3 DEF ReportInv, DriftInv, TakenInv, Hand, Adrift
<1> QED
    BY <1>4, <1>5 DEF ReportInv

\* The inductive step of the reporter.
LEMMA ReportStep == BootInv /\ RingInv /\ ReportInv /\ [Next]_vars => ReportInv'
<1> SUFFICES ASSUME BootInv, RingInv, ReportInv, [Next]_vars
             PROVE  ReportInv'
    OBVIOUS
<1>1. ASSUME UNCHANGED <<cursor, lagged, reporter, batch, arrived, adrift, lost, sink>>
      PROVE  ReportInv'
    BY <1>1 DEF ReportInv, HandInv, DriftInv, TakenInv, Hand, Adrift, Posting
<1>2. CASE Report
    BY <1>2, TakeStep, LagStep, PostStep, StoreStep, LetGoStep DEF Report
<1>3. CASE Drift
    BY <1>3, DriftStep DEF Drift
<1>4. CASE StartReporter
    BY <1>4, SubscribeStep
<1>5. CASE SkipStep \/ StartRefresher \/ Listen \/ BindFails
    BY <1>1, <1>5 DEF SkipStep, StartRefresher, Listen, BindFails, reportVars, sinkVars
<1>6. ASSUME NEW t \in Refreshers, Refresh(t)
      PROVE  ReportInv'
    BY <1>1, <1>6 DEF Refresh, Tick, StopRefresher, Answered, Unanswered, BodyRead, BodyFails,
                      reportVars, sinkVars
<1>7. CASE Requests
    BY <1>1, <1>7 DEF Requests, Admit, Finish, HangUp, reportVars, sinkVars
<1>8. CASE Signal \/ Drained \/ Join \/ Exited \/ UNCHANGED vars
    BY <1>1, <1>8 DEF Signal, Drained, Join, Exited, vars, reportVars, sinkVars
<1> QED
    BY <1>2, <1>3, <1>4, <1>5, <1>6, <1>7, <1>8 DEF Next, Start

\* At first nothing has been started, and nothing has been put on the ring.
LEMMA InitInv == Init => LifeInv
<1> SUFFICES ASSUME Init
             PROVE  LifeInv
    OBVIOUS
<1>0. /\ MaxEvents \in Nat /\ MaxOpen \in Nat /\ BatchMax \in Nat \ {0}
      /\ \A t \in Primed : "topology" \in UpTo(t)
    BY NodeAssumption DEF UpTo, Early
<1>1. BootInv
    BY <1>0 DEF Init, BootInv, Places, Refreshers
<1>2. RingInv
    BY <1>0 DEF Init, RingInv
<1>3. HandInv /\ DriftInv
    <2>1. batch = <<>> /\ sink = <<>> /\ adrift = {} /\ arrived = FALSE /\ reporter = "unspawned"
        BY DEF Init
    <2>2. batch \in Seq(1..cursor) /\ IsInjective(batch) /\ Len(batch) = 0
        BY <2>1, EmptyFacts
    <2>3. sink \in Seq(1..cursor) /\ IsInjective(sink)
        BY <2>1, EmptyFacts
    <2>4. Len(batch) <= BatchMax /\ (reporter = "idle" => Len(batch) < BatchMax)
        BY <1>0, <2>2
    <2>5. HandInv
        BY <2>1, <2>2, <2>4 DEF HandInv
    <2>6. DriftInv
        BY <2>1, <2>3 DEF DriftInv
    <2> QED
        BY <2>5, <2>6
<1>4. Hand = {} /\ Adrift = {} /\ 1..cursor = {} /\ lagged = {} /\ lost = {} /\ ToSet(sink) = {}
    BY EmptyFacts DEF Init, Hand, Adrift
<1>5. TakenInv
    BY <1>4 DEF TakenInv, Parted
<1> QED
    BY <1>1, <1>2, <1>3, <1>5 DEF LifeInv, ReportInv

\* The invariant behind the theorems.
LEMMA Invariance == Spec => []LifeInv
<1>1. LifeInv /\ [Next]_vars => LifeInv'
    BY BootStep, RingStep, ReportStep DEF LifeInv
<1> QED
    BY <1>1, InitInv, PTL DEF Spec

-----------------------------------------------------------------------------
(* The theorems. *)

\* Every state of a node is well typed: the ring, the batches and the sink hold events that were
\* emitted, and no batch is longer than batch_max (usage.rs).
THEOREM TypeCorrect == Spec => []TypeOK
<1>1. LifeInv => TypeOK
    <2> SUFFICES ASSUME LifeInv
                 PROVE  TypeOK
        OBVIOUS
    <2>0. BootInv /\ RingInv /\ HandInv /\ DriftInv /\ TakenInv /\ BatchMax \in Nat
          /\ MaxEvents \in Nat
        BY NodeAssumption DEF LifeInv, ReportInv
    <2>1. 1..cursor \subseteq 1..emitted /\ cursor \in Nat /\ emitted \in 0..MaxEvents
        BY <2>0 DEF RingInv
    <2>2. Seq(1..cursor) \subseteq Seq(1..emitted)
        BY <2>1, SeqMonotonic
    <2>3. \A s \in Seq(1..cursor) : Len(s) <= BatchMax => s \in BoundedSeq(1..emitted, BatchMax)
        BY <2>0, <2>2, BoundedFacts
    <2>4. lagged \subseteq 1..emitted /\ lost \subseteq 1..emitted
        BY <2>0, <2>1 DEF TakenInv, Parted
    <2>5. batch \in BoundedSeq(1..emitted, BatchMax)
          /\ adrift \subseteq BoundedSeq(1..emitted, BatchMax) /\ sink \in Seq(1..emitted)
        BY <2>0, <2>2, <2>3 DEF HandInv, DriftInv
    <2>6. /\ boot \in Refreshers \cup {"usage", "listen", "up", "exited"}
          /\ at \in [Refreshers -> Places] /\ tried \subseteq Configured /\ cancelled \in BOOLEAN
          /\ listener \in {"closed", "open", "draining", "done"}
        BY <2>0 DEF BootInv, Running
    <2>7. /\ open \in 0..MaxOpen /\ cursor \in 0..emitted /\ arrived \in BOOLEAN
          /\ reporter \in {"unspawned", "idle", "posting", "posting_last", "ended"}
        BY <2>0 DEF RingInv, HandInv
    <2> QED
        BY <2>1, <2>4, <2>5, <2>6, <2>7 DEF TypeOK
<1> QED
    BY <1>1, Invariance, PTL

\* The listener opens only after every primed refresher has made its first pull, whatever came of
\* it (control/src/lib.rs, start).
THEOREM ListensPrimed == Spec => []PrimedBeforeListening
<1>1. LifeInv => PrimedBeforeListening
    BY DEF LifeInv, BootInv, PrimedBeforeListening, Running, UpTo, Early
<1> QED
    BY <1>1, Invariance, PTL

\* An event put on the bus is in one place from then on: on the ring, skipped by a receiver that
\* fell behind, in the reporter's hand, at the sink, on its way, or gone with a lost POST.
LEMMA OnePlace ==
    ASSUME LifeInv, NEW e \in 1..emitted
    PROVE  \E w \in {"ring", "lagged", "hand", "sink", "adrift", "lost"} : Whereabouts(e) = {w}
<1> DEFINE all == {"ring", "lagged", "hand", "sink", "adrift", "lost"}
<1>0. cursor \in Nat /\ emitted \in Nat /\ e \in Nat /\ arrived \in BOOLEAN
    BY DEF LifeInv, RingInv, ReportInv, HandInv
<1>1. Parted(1..cursor, lagged, Hand, ToSet(sink), Adrift, lost)
    BY DEF LifeInv, ReportInv, TakenInv
<1>2. /\ Whereabouts(e) \subseteq all
      /\ "ring" \in Whereabouts(e) <=> e > cursor
      /\ "lagged" \in Whereabouts(e) <=> e \in lagged
      /\ "hand" \in Whereabouts(e) <=> e \in Hand
      /\ "sink" \in Whereabouts(e) <=> e \in ToSet(sink)
      /\ "adrift" \in Whereabouts(e) <=> e \in Adrift
      /\ "lost" \in Whereabouts(e) <=> e \in lost
    BY <1>0 DEF Whereabouts, Hand, Adrift
<1>3. e \in 1..cursor <=> ~(e > cursor)
    BY <1>0
<1>4. CASE e > cursor
    <2>1. e \notin lagged \cup Hand \cup ToSet(sink) \cup Adrift \cup lost
        BY <1>1, <1>3, <1>4 DEF Parted
    <2>2. Whereabouts(e) = {"ring"}
        BY <1>2, <1>4, <2>1
    <2> QED
        BY <2>2
<1>5. CASE ~(e > cursor)
    <2>1. e \in lagged \cup Hand \cup ToSet(sink) \cup Adrift \cup lost
        BY <1>1, <1>3, <1>5 DEF Parted
    <2>2. CASE e \in lagged
        <3>1. Whereabouts(e) = {"lagged"}
            BY <1>1, <1>2, <1>5, <2>2 DEF Parted
        <3> QED
            BY <3>1
    <2>3. CASE e \in Hand
        <3>1. Whereabouts(e) = {"hand"}
            BY <1>1, <1>2, <1>5, <2>3 DEF Parted
        <3> QED
            BY <3>1
    <2>4. CASE e \in ToSet(sink)
        <3>1. Whereabouts(e) = {"sink"}
            BY <1>1, <1>2, <1>5, <2>4 DEF Parted
        <3> QED
            BY <3>1
    <2>5. CASE e \in Adrift
        <3>1. Whereabouts(e) = {"adrift"}
            BY <1>1, <1>2, <1>5, <2>5 DEF Parted
        <3> QED
            BY <3>1
    <2>6. CASE e \in lost
        <3>1. Whereabouts(e) = {"lost"}
            BY <1>1, <1>2, <1>5, <2>6 DEF Parted
        <3> QED
            BY <3>1
    <2> QED
        BY <2>1, <2>2, <2>3, <2>4, <2>5, <2>6
<1> QED
    BY <1>4, <1>5

\* Every event of every request is accounted for once, and the sink stores none twice
\* (docs/external-control-plane.md: "There is no retry").
THEOREM EventsAccounted == Spec => []Accounted
<1>1. LifeInv => Accounted
    <2> SUFFICES ASSUME LifeInv
                 PROVE  Accounted
        OBVIOUS
    <2>1. \A e \in 1..emitted : Cardinality(Whereabouts(e)) = 1
        BY OnePlace, FS_Singleton
    <2>2. IsInjective(sink) /\ (reporter = "ended" => batch = <<>>)
        BY DEF LifeInv, ReportInv, HandInv, DriftInv
    <2> QED
        BY <2>1, <2>2 DEF Accounted
<1> QED
    BY <1>1, Invariance, PTL
=============================================================================
