----------------------------- MODULE MCL2Cache -----------------------------
(* Instances of L2Cache for TLC.                                           *)
EXTENDS L2Cache, TLC

CONSTANTS a, b, c

MCKeys2 == {a, b}
MCKeys3 == {a, b, c}
\* a chain a <- b <- c with a second edge a <- c, and a cycle through c.
MCFewDeps == {{}, {a}, {b}, {a, b}, {c}}
\* For two keys: self-dependency, a dependent and a cycle.
MCNoneOrAll == {{}, Keys}
\* Steep enough that two ticks bring a confidence below 0.7 and then below 0.3.
MCRetained == [n \in 0..MaxClock |-> IF n = 0 THEN 1000 ELSE IF n = 1 THEN 650 ELSE 400]
MCCutPower == [n \in 0..Cardinality(Keys) |-> (1000 * 3^n) \div 10^n]
Swap == Permutations(Keys)
=============================================================================
