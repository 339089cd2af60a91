---------------------------- MODULE MCToolRouting ----------------------------
(* Small instances of ToolRouting. *)
EXTENDS ToolRouting, TLC

CONSTANTS a, b, x, y, k1, k2, k3

\* Two calls, answered by who received them; or one, answered by anyone.
MCScopes == {[calls |-> 2, strangers |-> {}], [calls |-> 1, strangers |-> Conns]}

SameTwo == Permutations({a, b}) \cup Permutations({k1, k2, k3}) \cup Permutations({x, y})
=============================================================================
