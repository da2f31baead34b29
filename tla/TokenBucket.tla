---------------------------- MODULE TokenBucket ----------------------------
(***************************************************************************)
(* The token bucket of crates/llmleaf-core/src/ratelimit.rs as operators   *)
(* on its BucketState.  A bucket counts in units of 1/Minute token: a      *)
(* per-minute limit n starts with n * Minute units and gains n units per   *)
(* tick of the clock, which is exactly the code's refill of n / 60 tokens  *)
(* per second when Minute = 60.                                            *)
(***************************************************************************)
EXTENDS Integers

CONSTANTS
    Minute,     \* ticks of the clock in a minute
    NoLimit     \* an undeclared dimension

ASSUME MinuteAssumption == Minute \in Nat \ {0}
ASSUME NoLimitAssumption == NoLimit \notin Nat

Limits == Nat \cup {NoLimit}

Buckets == [tokens : Int, last : Nat]

\* A fresh bucket is full.  An undeclared one is never looked at.
per_minute(limit) ==
    [tokens |-> IF limit = NoLimit THEN 0 ELSE limit * Minute, last |-> 0]

\* Mutant: the top-up is not clamped to the capacity.
refill_unclamped(b, limit, now) ==
    IF now > b.last
    THEN [tokens |-> b.tokens + (now - b.last) * limit, last |-> now]
    ELSE b

\* A caller whose clock reading is older than the bucket's changes nothing.
refill(b, limit, now) ==
    IF now > b.last
    THEN LET topped == b.tokens + (now - b.last) * limit
         IN [tokens |-> IF topped > limit * Minute THEN limit * Minute ELSE topped,
             last |-> now]
    ELSE b

\* Give one token back, never beyond the capacity.
refund(b, limit, now) ==
    LET topped == refill(b, limit, now)
        back == topped.tokens + Minute
    IN [topped EXCEPT !.tokens = IF back > limit * Minute THEN limit * Minute ELSE back]

\* Take whole tokens out, into debt if need be.
Minus(b, tokens) == [b EXCEPT !.tokens = b.tokens - tokens * Minute]
=============================================================================
