------------------------------- MODULE WfaWords -------------------------------
(***************************************************************************)
(* The algorithms of a WFA that are pure functions of it: the regular      *)
(* expression of Tarjan's elimination, the simulation of a word, the       *)
(* removal of epsilon transitions, the subset construction; and what they  *)
(* are compared with.                                                      *)
(***************************************************************************)
EXTENDS WfaPaths, Fixpoint, Sequences, SequencesExt

CONSTANTS
    NIL,        \* Regex::NIL()
    ID,         \* Regex::ID()
    WordLength  \* bound on the words that are compared

Sigma(S, f(_)) == FoldSet(LAMBDA x, acc : Combine(acc, f(x)), Zero, S)

-----------------------------------------------------------------------------
(***************************************************************************)
(* Regular expressions, by the weight they solve to.  NIL is dropped from  *)
(* a union and absorbs a concatenation.  ID is dropped from a              *)
(* concatenation; it is a Root that was given no weight, and Union::solve  *)
(* goes over a child without one.                                          *)
(***************************************************************************)
COMBINE(l, r) ==
    IF l = NIL THEN r ELSE IF r = NIL THEN l
    ELSE IF l = ID THEN r ELSE IF r = ID THEN l
    ELSE Combine(l, r)

Concat(l, r) ==
    IF NIL \in {l, r} THEN NIL
    ELSE IF l = ID THEN r ELSE IF r = ID THEN l
    ELSE Extend(l, r)

(* WFA::EXTEND: the operands in the order of the query. *)
EXTEND(l, r) == IF query = "INORDER" THEN Concat(l, r) ELSE Concat(r, l)

(* Star::solve squares 1 + w until it stays. *)
STAR(r) ==
    IF r \in {NIL, ID} THEN ID
    ELSE Fix(LAMBDA w : Extend(w, w), Weight, Combine(r, One))

(***************************************************************************)
(* TarjanBasicRegex, elimination.  M[i][j] is the expression from the i-th *)
(* state of order to the j-th; step v routes the later states through v.   *)
(***************************************************************************)
Matrix(order) ==
    [i, j \in DOMAIN order |->
        FoldSet(LAMBDA t, acc : COMBINE(acc, weight[t]), NIL,
                {t \in trans : t.from = order[i] /\ t.to = order[j]})]

(* Mutated form of Eliminate: what leads into v is not extended by its star. *)
Eliminate_NoStar(M, v) ==
    [i, j \in 1..Cardinality(Node) |->
        IF i = v /\ j = v THEN STAR(M[v, v])
        ELSE IF i > v /\ j > v THEN COMBINE(M[i, j], EXTEND(M[i, v], M[v, j]))
        ELSE M[i, j]]

Eliminate(M, v) ==
    LET loop == STAR(M[v, v])
        into(i) == EXTEND(M[i, v], loop)
    IN  [i, j \in 1..Cardinality(Node) |->
            IF i = v /\ j = v THEN loop
            ELSE IF i > v /\ j = v THEN into(i)
            ELSE IF i > v /\ j > v THEN COMBINE(M[i, j], EXTEND(into(i), M[v, j]))
            ELSE M[i, j]]

(* The answer for each state, by a pass up the matrix and one back down. *)
Solve(order) ==
    LET n == Len(order)
        up == [i \in 1..n |-> i]
        M == FoldLeft(Eliminate, Matrix(order), up)
        spread(N, u, S) == [w \in 1..n |-> IF w \in S THEN COMBINE(N[w], EXTEND(N[u], M[u, w]))
                                           ELSE N[w]]
        rise(N, u) == LET N2 == IF M[u, u] = ID THEN N
                                ELSE [N EXCEPT ![u] = EXTEND(@, M[u, u])]
                      IN  spread(N2, u, (u + 1)..n)
        fall(N, u) == spread(N, u, 1..(u - 1))
        init == [i \in 1..n |-> IF order[i] = Start THEN ID ELSE NIL]
    IN  FoldLeft(fall, FoldLeft(rise, init, up), Reverse(up))

toRegex(order) ==
    LET N == Solve(order)
    IN  FoldSet(LAMBDA i, acc : COMBINE(acc, N[i]), NIL,
                {i \in DOMAIN order : order[i] \in Final})

(* regex::solve(): an expression without a weight has none. *)
solve(r) == IF r \in {NIL, ID} THEN Zero ELSE r

Orders == SetToSeqs(Node)
-----------------------------------------------------------------------------
(***************************************************************************)
(* epsilonClose, which asks poststar of the rules <p, from> -> <p, to> of  *)
(* the epsilon transitions (genericWpdsPoststar): the states it reaches    *)
(* with a weight, and the weight.                                          *)
(***************************************************************************)
epsilonClose(T, wt, s) ==
    LET round(V) == [q \in Node |->
                        Combine(V[q], Sigma({t \in T : t.stk = EPS /\ t.to = q},
                                            LAMBDA t : Extend(V[t.from], wt[t])))]
        V == Fix(round, [Node -> Weight], [q \in Node |-> IF q = s THEN One ELSE Zero])
        Reached == {q \in Node : V[q] # Zero}
    IN  [q \in Reached |-> V[q]]

(* The states behind the transition t, with the weight of the epsilon paths. *)
StepTo(close, t) == close[t.to]

(* WFA::simulate(Start, word): the states the word leads to, weighted. *)
simulate(T, wt, word) ==
    LET close == [q \in Node |-> epsilonClose(T, wt, q)]
        step(before, y) ==
            LET ways == {<<t, q>> \in {t \in T : t.stk = y} \X Node :
                            t.from \in DOMAIN before /\ q \in DOMAIN StepTo(close, t)}
                into(q) == {x \in ways : x[2] = q}
            IN  [q \in {x[2] : x \in ways} |->
                    Sigma(into(q), LAMBDA x : Extend(before[x[1].from],
                                                 Extend(wt[x[1]], StepTo(close, x[1])[q])))]
    IN  FoldLeft(step, close[Start], word)

isAcceptedWithNonzeroWeight(T, wt, F, word) ==
    LET finish == simulate(T, wt, word)
    IN  \E f \in F \cap DOMAIN finish : finish[f] # Zero

(***************************************************************************)
(* removeEpsilons: a transition around every epsilon path and the final    *)
(* states before one; then the epsilon transitions go, and what they lead  *)
(* to makes their sources final, the last in the map first.                *)
(***************************************************************************)
Around ==
    LET close == [q \in Node |-> epsilonClose(trans, weight, q)]
        ways == {<<q, t>> \in Node \X {t \in trans : t.stk # EPS} :
                    q # t.from /\ t.from \in DOMAIN close[q]}
        key(x) == [x[2] EXCEPT !.from = x[1]]
        old(k) == IF k \in trans THEN weight[k] ELSE Zero
    IN  [trans |-> {t \in trans : t.stk # EPS} \cup {key(x) : x \in ways},
         weight |-> [k \in {t \in trans : t.stk # EPS} \cup {key(x) : x \in ways} |->
                        Combine(old(k), Sigma({x \in ways : key(x) = k},
                            LAMBDA x : Extend(close[x[1]][x[2].from], weight[x[2]])))]]

(* Mutated form of FinalAround: only what the last steps add. *)
FinalAround_Late(order) ==
    FoldLeft(LAMBDA S, t : IF t.to \in S THEN S \cup {t.from} ELSE S, Final, order)

(* order: the epsilon transitions in the order they are erased. *)
FinalAround(order) ==
    LET before == Final \cup
                  {q \in Node : Final \cap DOMAIN epsilonClose(trans, weight, q) # {}}
    IN  FoldLeft(LAMBDA S, t : IF t.to \in S THEN S \cup {t.from} ELSE S, before, order)

EraseOrders == SetToSeqs({t \in trans : t.stk = EPS})
-----------------------------------------------------------------------------
(* semideterminize: where the cell S goes on y. *)
Cell(S, y) ==
    UNION {DOMAIN epsilonClose(trans, weight, t.to) : t \in {u \in trans : u.stk = y /\ u.from \in S}}
CellAfter(word) == FoldLeft(Cell, DOMAIN epsilonClose(trans, weight, Start), word)
determinizeAccepts(word) == CellAfter(word) \cap Final # {}
-----------------------------------------------------------------------------
(***************************************************************************)
(* The weight of the paths labelled word from Start to each state, from    *)
(* the paths themselves: one position after another, epsilon in between.   *)
(***************************************************************************)
PathWeights(word) ==
    LET at == Node \X (0..Len(word))
        ways(x) == {t \in trans : t.to = x[1] /\ (t.stk = EPS \/ (x[2] > 0 /\ t.stk = word[x[2]]))}
        before(t, x) == <<t.from, IF t.stk = EPS THEN x[2] ELSE x[2] - 1>>
        round(V) == [x \in at |-> Combine(V[x], Sigma(ways(x),
                                    LAMBDA t : Extend(V[before(t, x)], weight[t])))]
        V == Fix(round, [at -> Weight], [x \in at |-> IF x = <<Start, 0>> THEN One ELSE Zero])
    IN  [q \in Node |-> V[<<q, Len(word)>>]]

(* The states the word leads to, whatever the weights. *)
PathStates(word) ==
    LET eps(S) == Fix(LAMBDA T : T \cup {t.to : t \in {u \in trans : u.stk = EPS /\ u.from \in T}},
                      SUBSET Node, S)
        step(S, y) == eps({t.to : t \in {u \in trans : u.stk = y /\ u.from \in S}})
    IN  FoldLeft(step, eps({Start}), word)

Words == BoundedSeq(Alphabet, WordLength)
EpsilonLoop == \E t \in trans : t.stk = EPS /\ t.from \in DOMAIN epsilonClose(trans, weight, t.to)

(***************************************************************************)
(* Every way the code has to say whether a word is accepted gives an       *)
(* answer of the paths: the simulation their weight; the automaton without *)
(* epsilon transitions, when they make no loop, and the determinized one   *)
(* every word with a weight and no word without a path.  Looked at when    *)
(* the initial state was closed over: one state for each automaton.        *)
(***************************************************************************)
WordsAgree ==
    pc = "closed" /\ source = Start => \A word \in Words :
        LET paths == PathWeights(word)
            found == simulate(trans, weight, word)
            accepted == \E f \in Final : paths[f] # Zero
            possible == PathStates(word) \cap Final # {}
            A == Around
            removed(o) == isAcceptedWithNonzeroWeight(A.trans, A.weight, FinalAround(o), word)
        IN  /\ \A q \in Node : paths[q] = IF q \in DOMAIN found THEN found[q] ELSE Zero
            /\ accepted = isAcceptedWithNonzeroWeight(trans, weight, Final, word)
            /\ \A o \in EraseOrders : /\ accepted /\ ~ EpsilonLoop => removed(o)
                                      /\ removed(o) => possible
            /\ accepted => determinizeAccepts(word)
            /\ determinizeAccepts(word) => possible

(***************************************************************************)
(* WFA.hpp: the regular expression, when evaluated, gives the weight that  *)
(* path_summary gives the initial state.  It does, whatever the order of   *)
(* the states, for an initial state that is not final and that nothing     *)
(* leads back to; in general it never tells more, and what it may lack is  *)
(* the empty path.                                                         *)
(***************************************************************************)
RegexWithinSummary ==
    pc = "summed" => \A o \in Orders :
        /\ Leq(solve(toRegex(o)), total[Start])
        /\ Start \notin Final /\ (\A t \in trans : t.to # Start) =>
              solve(toRegex(o)) = total[Start]
=============================================================================
