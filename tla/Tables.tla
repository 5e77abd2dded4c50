------------------------------ MODULE Tables ------------------------------
(***************************************************************************)
(* What the loops that build a table have in common.                       *)
(***************************************************************************)
EXTENDS Integers, Sequences

\* The entries of list at the positions in `at', appended one after the other.
Kept(list, at) ==
    LET kept[k \in 0..Len(list)] ==
            IF k = 0 THEN <<>>
            ELSE IF k \in at THEN Append(kept[k - 1], list[k]) ELSE kept[k - 1]
    IN  kept[Len(list)]
============================================================================
