--------------------------- MODULE EwpdsSemantics ---------------------------
(***************************************************************************)
(* What a query of an EWPDS promises, without automata.  A run is cut at   *)
(* its calls: one that returns within the run is taken in one move, by the *)
(* merge function, and one that does not freezes the stack below it.       *)
(* RECURSIVE: for TLC's runs only.                                         *)
(***************************************************************************)
EXTENDS Ewpds, PdsSemantics

(***************************************************************************)
(* The weight of the ways from <p, y> to <q, empty stack>: the procedure   *)
(* y, entered in p and left in q.                                          *)
(***************************************************************************)
Round(V) ==
    [x \in P \X Stack \X P |->
        LET via(r) ==
              IF IsPop(r) THEN IF r.to = x[3] THEN r.weight ELSE Zero
              ELSE IF ~ IsPush(r) THEN Extend(r.weight, V[<<r.to, r.stk1, x[3]>>])
              ELSE Sigma(P, LAMBDA s : Extend(apply_f(r.merge, One, V[<<r.to, r.stk1, s>>]),
                                              V[<<s, r.stk2, x[3]>>]))
        IN  Combine(V[x], Sigma(ForwardRules(rules, x[1], x[2]), via))]
RECURSIVE Fix(_)
Fix(V) == LET V2 == Round(V) IN IF V2 = V THEN V ELSE Fix(V2)
Summaries == Fix([x \in P \X Stack \X P |-> Zero])

(***************************************************************************)
(* The moves from <p, w> with the lowest u symbols frozen: <<weight of the *)
(* rule, merge or NoMerge, weight of the callee, next configuration>>.     *)
(***************************************************************************)
Moves(summ, c) ==
    LET w == c[2]  u == c[3]
        next(r) ==
            LET after == Pushed(r) \o Tail(w)
            IN  IF ~ IsPush(r) THEN {<<r.weight, NoMerge, One, <<r.to, after, u>>>>}
                ELSE {<<r.weight, NoMerge, One, <<r.to, after, Len(w)>>>>}
                     \cup {<<r.weight, r.merge, summ[<<r.to, r.stk1, s>>],
                              <<s, Tail(after), u>>>> : s \in P}
    IN  {m \in UNION {next(r) : r \in {s \in rules : w # <<>> /\ s.from = c[1]
                                                     /\ s.stk = Head(w)}} :
            u > 0 => Len(m[4][2]) > u}

Step(w, m) == IF m[2] = NoMerge THEN Extend(w, m[1]) ELSE apply_f(m[2], w, m[3])

Frozen(depth) == {x \in Configs(depth) \X (0..depth) : x[2] <= Len(x[1][2])}
Runs(depth) == {<<x[1][1], x[1][2], x[2]>> : x \in Frozen(depth)}

(* The weights of the runs from the configurations weighted by I. *)
RECURSIVE Onward(_, _)
Onward(moves, V) ==
    LET into(c) == {m \in moves : m[2][4] = c /\ V[m[1]] # Zero}
        V2 == [c \in DOMAIN V |->
                 Combine(V[c], Sigma(into(c), LAMBDA m : Step(V[m[1]], m[2])))]
    IN  IF V2 = V THEN V ELSE Onward(moves, V2)

RECURSIVE Back(_, _)
Back(moves, V) ==
    LET out(c) == {m \in moves : m[1] = c}
        V2 == [c \in DOMAIN V |->
                 Combine(V[c], Sigma(out(c), LAMBDA m : Extend(Step(One, m[2]), V[m[2][4]])))]
    IN  IF V2 = V THEN V ELSE Back(moves, V2)

AllMoves(depth) ==
    LET summ == Summaries
    IN  UNION {{<<c, m>> : m \in {n \in Moves(summ, c) : Len(n[4][2]) <= depth}}
                 : c \in Runs(depth)}

Answer(q, I, depth) ==
    LET moves == AllMoves(depth)
        V == IF q = "post"
             THEN Onward(moves, [c \in Runs(depth) |-> IF c[3] = 0 THEN I[<<c[1], c[2]>>] ELSE Zero])
             ELSE Back(moves, [c \in Runs(depth) |-> I[<<c[1], c[2]>>]])
    IN  [c \in Configs(depth) |->
            IF q = "post" THEN Sigma(0..Len(c[2]), LAMBDA u : V[<<c[1], c[2], u>>])
            ELSE V[<<c[1], c[2], 0>>]]
=============================================================================
