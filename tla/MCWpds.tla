------------------------------- MODULE MCWpds -------------------------------
(* Small pushdown systems and automata for the runs of the two queries. *)
EXTENDS Wpds, PdsSemantics, RelationDomain

CONSTANTS p, p2, q, qf, a, b    \* model values

MCStack == {a, b}
OneState == {p}
TwoStates == {p, p2}
MCQ == {q, qf}
Final == {qf}

(* The rule <s, y> -> <t, w> with weight rw; w names two symbols or EPS. *)
R(s, y, t, w, rw) ==
    [from |-> s, stk |-> y, to |-> t, stk1 |-> w[1], stk2 |-> w[2], weight |-> rw]

(* Pops, steps and pushes of one control state: recursion, a loop, a call. *)
Menu == {R(p, a, p, <<EPS, EPS>>, Flip), R(p, b, p, <<EPS, EPS>>, Set1),
         R(p, a, p, <<b, EPS>>, Set0),   R(p, b, p, <<b, EPS>>, Flip),
         R(p, b, p, <<a, EPS>>, If1),    R(p, a, p, <<b, a>>, RelOne),
         R(p, a, p, <<a, b>>, Flip),     R(p, b, p, <<b, b>>, Set1),
         R(p, b, p, <<a, b>>, Set0)}
RulesFromMenu(n) == UNION {kSubset(k, Menu) : k \in 1..n}

(***************************************************************************)
(* Programs with two control states, which carry a return value: a call    *)
(* that returns in either state, mutual recursion, two ways to one         *)
(* generated state, a pop that uncovers what it was called from.           *)
(***************************************************************************)
Programs ==
    {{R(p, a, p, <<b, a>>, Flip), R(p, b, p2, <<EPS, EPS>>, Set1),
      R(p, b, p, <<EPS, EPS>>, If1), R(p2, a, p, <<a, EPS>>, Set0)},
     {R(p, a, p2, <<b, a>>, Set0), R(p2, b, p2, <<b, b>>, Flip),
      R(p2, b, p, <<EPS, EPS>>, If1)},
     {R(p, a, p2, <<a, b>>, Flip), R(p2, a, p2, <<a, a>>, RelOne),
      R(p2, a, p2, <<EPS, EPS>>, Set1), R(p2, b, p, <<EPS, EPS>>, Flip)}}

(* The automaton with the transitions <<from, symbol, to, weight>>. *)
Aut(ts) ==
    LET key(x) == [from |-> x[1], stk |-> x[2], to |-> x[3]]
        keys == {key(x) : x \in ts}
    IN  [trans |-> keys,
         weight |-> [k \in keys |-> (CHOOSE x \in ts : key(x) = k)[4]],
         gen |-> 0]

OneCall == Aut({<<p, a, qf, RelOne>>})
TwoDeep == Aut({<<p, a, q, Set1>>, <<q, b, qf, Flip>>})
WithEps == Aut({<<p, EPS, q, Flip>>, <<q, a, qf, Set0>>, <<p, b, q, RelOne>>})
EpsChain == Aut({<<p, EPS, q, Flip>>, <<q, EPS, qf, Set0>>, <<qf, a, qf, If1>>})
Looping == Aut({<<p, a, q, RelOne>>, <<q, b, q, Flip>>, <<q, a, qf, If1>>})
ClosedEps == Aut({<<p, EPS, q, RelOne>>, <<q, a, qf, Set0>>, <<p, a, qf, Set0>>})
=============================================================================
