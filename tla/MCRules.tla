------------------------------ MODULE MCRules -------------------------------
(* A few rules that share Configs, buckets and pop targets. *)
EXTENDS WpdsRules, RelationDomain

CONSTANTS p, q, a, b    \* model values

MCP == {p}
MCOther == {q}
MCStack == {a, b}

Id(y, y1, y2) == [from |-> Cfg(p, y), to |-> Cfg(p, y1), stk2 |-> y2]

(* Two pops into one Config, a self-loop, steps, pushes in one bucket. *)
MCRules5 == {Id(a, EPS, EPS), Id(b, EPS, EPS), Id(a, a, EPS),
             Id(a, b, a), Id(b, b, a)}
MCWeights == {Set0, Set1}
MCMet == {Cfg(p, a), Cfg(p, EPS), Cfg(q, b)}
=============================================================================
