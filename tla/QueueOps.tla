------------------------------ MODULE QueueOps ------------------------------
(***************************************************************************)
(* What the models of a queue say about sequences.                         *)
(***************************************************************************)
EXTENDS Integers, Sequences

Lesser(a, b)  == IF a < b THEN a ELSE b
Greater(a, b) == IF a > b THEN a ELSE b
Cut(s, n)     == SubSeq(s, 1, Lesser(n, Len(s)))

\* The elements of s that are in S, in their order.
Keep(s, S) ==
    LET kept[n \in 0..Len(s)] ==
            IF n = 0 THEN <<>>
            ELSE IF s[n] \in S THEN Append(kept[n - 1], s[n]) ELSE kept[n - 1]
    IN kept[Len(s)]
=============================================================================
