------------------------------- MODULE MCFwpds -------------------------------
(* Small FWPDSs for TLC. *)
EXTENDS Fwpds, RelationDomain

CONSTANTS p, q, qf, a, b, keep, havoc

MCStack == {a, b}
MCP == {p}
MCQ == {q, qf}
MCClient == {keep, havoc}

(* The merge functions of MCEwpds. *)
MCApply(m, w1, w2) ==
    IF w2 = RelZero THEN RelZero
    ELSE IF m = keep THEN w1 ELSE RelExtend(w1, Point \X Point)

R(y, w, rw) ==
    [from |-> p, stk |-> y, to |-> p, stk1 |-> w[1], stk2 |-> w[2], weight |-> rw]
Add(r, m) == [rule |-> r, merge |-> m, replace |-> FALSE]

MCAdditions ==
    {Add(R(a, <<b, b>>, Set0), ClientFn(keep)), Add(R(a, <<b, b>>, RelOne), ClientFn(havoc)),
     Add(R(b, <<b, b>>, Flip), ClientFn(havoc)), Add(R(b, <<a, b>>, Flip), NoMerge),
     Add(R(b, <<EPS, EPS>>, Flip), NoMerge), Add(R(a, <<a, EPS>>, Flip), NoMerge),
     Add(R(b, <<a, EPS>>, Set1), NoMerge), Add(R(a, <<EPS, EPS>>, Set0), NoMerge)}

T(x, y, z) == [from |-> x, stk |-> y, to |-> z]
MCInputs == {[trans |-> {T(p, a, q), T(q, b, qf)},
              weight |-> [k \in {T(p, a, q), T(q, b, qf)} |-> RelOne], gen |-> 0]}
=============================================================================
