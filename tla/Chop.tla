-------------------------------- MODULE Chop --------------------------------
(***************************************************************************)
(* The chop of an automaton, the reference WFA::prune is measured against: *)
(* the transitions that lie on a path from the initial state to a final    *)
(* one.  Reachability is the least set of nodes that is closed under the   *)
(* transitions, written as the intersection of the closed sets.            *)
(***************************************************************************)
CONSTANT Node

ClosedForward(T, R) == \A t \in T : t.from \in R => t.to \in R
ClosedBackward(T, R) == \A t \in T : t.to \in R => t.from \in R

(* The nodes the transitions T lead to from I; those that lead to G.       *)
Reach(T, I) ==
    {s \in Node : \A R \in SUBSET Node : I \subseteq R /\ ClosedForward(T, R) => s \in R}
CoReach(T, G) ==
    {s \in Node : \A R \in SUBSET Node : G \subseteq R /\ ClosedBackward(T, R) => s \in R}

Chop(T, I, G) == {t \in T : t.from \in Reach(T, I) /\ t.to \in CoReach(T, G)}
=============================================================================
