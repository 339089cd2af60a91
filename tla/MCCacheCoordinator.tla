------------------------- MODULE MCCacheCoordinator -------------------------
(* Instances of CacheCoordinator for TLC.                                  *)
EXTENDS CacheCoordinator, TLC

CONSTANTS a, b, t1, t2

\* Calls for b ask for the capability under which results are recorded.
TwoCapabilities == [k \in Keys |-> IF k = b THEN "agent_call" ELSE "summarize"]
\* b was computed from a.
BFromA == [k \in Keys |-> IF k = b THEN {a} ELSE {}]
SameThreads == Permutations(Threads)
=============================================================================
