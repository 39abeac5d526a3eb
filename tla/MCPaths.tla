------------------------------- MODULE MCPaths -------------------------------
(* Small automata for TLC. *)
EXTENDS WfaTarjan, RelationDomain

CONSTANTS s, mid, f, a, b

MCNode == {s, mid, f}
MCAlphabet == {a, b}
MCFinal == {f}

T(p, y, q, w) == [key |-> [from |-> p, stk |-> y, to |-> q], weight |-> w]
MCAdditions ==
    {T(s, a, mid, Set0), T(s, EPS, mid, Flip), T(mid, EPS, f, If1), T(mid, EPS, s, Set1),
     T(mid, b, mid, Flip), T(s, b, f, If1), T(f, a, s, Set1)}
=============================================================================
