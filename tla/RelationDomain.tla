--------------------------- MODULE RelationDomain ---------------------------
(***************************************************************************)
(* A weight domain for TLC: the binary relations on a set of two points,   *)
(* with union and composition, as in wali's relational domains.  It is     *)
(* idempotent and extend does not commute, so a weight extended on the     *)
(* wrong side shows.                                                       *)
(***************************************************************************)
EXTENDS Naturals

Point == {0, 1}
Relation2 == SUBSET (Point \X Point)

RelZero == {}
RelOne == {<<0, 0>>, <<1, 1>>}
RelCombine(a, b) == a \cup b
RelExtend(a, b) ==
    {<<x, z>> \in Point \X Point : \E y \in Point : <<x, y>> \in a /\ <<y, z>> \in b}

(* The two correct differences the comment of SemElem::delta names. *)
RelDiffWhole(w, se) == IF w \subseteq se THEN {} ELSE se \cup w
RelDiffNew(w, se) == IF w \subseteq se THEN {} ELSE w
(* A domain's own delta: only what is new. *)
RelDiffExact(w, se) == w \ se

(* Weights the test programs use: they neither commute nor are invertible. *)
Set0 == {<<0, 0>>, <<1, 0>>}      \* x := 0
Set1 == {<<0, 1>>, <<1, 1>>}      \* x := 1
Flip == {<<0, 1>>, <<1, 0>>}      \* x := 1 - x
If1  == {<<1, 1>>}                \* assume x = 1
=============================================================================
