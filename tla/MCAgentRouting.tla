--------------------------- MODULE MCAgentRouting ---------------------------
(* Small instances of AgentRouting. *)
EXTENDS AgentRouting, TLC

CONSTANTS a, b, c, x, y, d1, d2

\* Two calls, answered by who received them; or one, answered by anyone.
MCScopes == {[calls |-> 2, strangers |-> {}], [calls |-> 1, strangers |-> Conns]}

SameTwo == Permutations({a, b}) \cup Permutations({d1, d2})
=============================================================================
