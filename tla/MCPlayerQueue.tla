-------------------------- MODULE MCPlayerQueue --------------------------
(* Instances of PlayerQueue for TLC. *)
EXTENDS PlayerQueue

\* A search that finds every track, and the likes.
TwoLists == [s \in {"search", "likes"} |->
                 IF s = "search" THEN [k \in 1..Cardinality(Tracks) |-> k] ELSE <<3, 1>>]
===========================================================================
