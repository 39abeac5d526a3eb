------------------------------ MODULE Fixpoint ------------------------------
(* Iteration of a round until nothing changes, without RECURSIVE. *)

(* What the rounds from V come to, all in the set S. *)
Fix(Round(_), S, V) ==
    LET from[W \in S] == LET W2 == Round(W) IN IF W2 = W THEN W ELSE from[W2]
    IN  from[V]
=============================================================================
