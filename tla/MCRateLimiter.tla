--------------------------- MODULE MCRateLimiter ---------------------------
(* One provider with two models, its limits small enough that every bucket *)
(* and every semaphore runs dry.                                           *)
EXTENDS RateLimiter, TLC

CONSTANTS a, b, r1, r2

\* Concurrency in both scopes of a, tokens per minute for everybody.
SharedPermits == [s \in Scopes |-> CASE s = Global -> 2 [] s = a -> 1 [] s = b -> NoLimit]
SharedTpm == [s \in Scopes |-> CASE s = Global -> 1 [] s = a -> NoLimit [] s = b -> 1]

\* Requests per minute in every scope, so that model a's bucket refuses what the
\* global bucket has already given.
SharedRpm == [s \in Scopes |-> CASE s = Global -> 2 [] s = a -> 1 [] s = b -> 1]

Slots == Permutations(Requests)
=============================================================================
