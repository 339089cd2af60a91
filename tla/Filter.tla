------------------------------- MODULE Filter -------------------------------
(***************************************************************************)
(* What std::remove followed by erase, or a loop with push_back, leaves of *)
(* a vector.  It is written as a recursive function, not with SelectSeq,   *)
(* of which the proof system knows no definition.                          *)
(***************************************************************************)
EXTENDS Integers, Sequences

\* The elements of s that are in T, in their order.
Keep(s, T) ==
    LET kept[i \in 0..Len(s)] ==
            IF i = 0 THEN <<>>
            ELSE IF s[i] \in T THEN Append(kept[i - 1], s[i]) ELSE kept[i - 1]
    IN  kept[Len(s)]
=============================================================================
