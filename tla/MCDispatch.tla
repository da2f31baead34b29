----------------------------- MODULE MCDispatch -----------------------------
(* Two providers of which one limits concurrency and the other tokens per  *)
(* minute, and a name no registry knows.                                   *)
EXTENDS Dispatch, TLC

CONSTANTS p1, p2, ghost, r1, r2

\* p1 admits one request at a time; p2 has a token budget.
OnePermit == [x \in Providers |-> IF x = p1 THEN 1 ELSE NoLimit]
TokenBudget == [x \in Providers |-> IF x = p2 THEN 1 ELSE NoLimit]

\* A fallback, a chain that begins with a name no registry knows, and a provider alone.
MCChains == {<<p1, p2>>, <<ghost, p1>>, <<p1>>}
=============================================================================
