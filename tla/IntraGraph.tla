----------------------------- MODULE IntraGraph -----------------------------
(***************************************************************************)
(* The weights of the paths of a graph, the way IntraGraph finds them: a   *)
(* path sequence, computed once (SCCs, dominators and cutsets, after       *)
(* Tarjan), and then run from the sources.  Regular expressions stand for  *)
(* the weights they evaluate to.  A graph is a sequence of nodes, the root *)
(* first, and a sequence of edges [src, tgt, w].  RECURSIVE: for TLC's     *)
(* runs only.                                                              *)
(***************************************************************************)
EXTENDS Semiring, Fixpoint, Naturals, Sequences, SequencesExt

CONSTANT NoNode     \* -1

AddUp(s, f(_)) == FoldLeft(LAMBDA acc, x : Combine(acc, f(x)), Zero, s)

(* RegExpDag::extend, which turns round for prestar. *)
Along(back, x, w) == IF back THEN Extend(w, x) ELSE Extend(x, w)
Star(w) == Fix(LAMBDA x : Extend(x, x), Weight, Combine(w, One))

In(E, v) == SelectSeq(E, LAMBDA e : e.tgt = v)
Out(E, v) == SelectSeq(E, LAMBDA e : e.src = v)
Tgts(s) == [i \in DOMAIN s |-> s[i].tgt]
Srcs(s) == [i \in DOMAIN s |-> s[i].src]
-----------------------------------------------------------------------------
(***************************************************************************)
(* Depth-first search: the nodes by decreasing finishing time, and those a *)
(* back edge leads to.                                                     *)
(***************************************************************************)
RECURSIVE Visit(_, _, _)
Visit(next, v, S) ==
    IF v \in S.black THEN S
    ELSE IF v \in S.gray THEN [S EXCEPT !.cut = @ \cup {v}]
    ELSE LET T == FoldLeft(LAMBDA X, c : Visit(next, c, X),
                           [S EXCEPT !.gray = @ \cup {v}], next[v])
         IN  [T EXCEPT !.gray = @ \ {v}, !.black = @ \cup {v}, !.order = <<v>> \o @]

Search(nodes, next, seen) ==
    FoldLeft(LAMBDA X, v : Visit(next, v, X),
             [gray |-> {}, black |-> seen, cut |-> {}, order |-> <<>>], nodes)
Onward(nodes, E) == [v \in ToSet(nodes) |-> Tgts(Out(E, v))]
Backward(nodes, E) == [v \in ToSet(nodes) |-> Srcs(In(E, v))]

(* IntraGraph::SCC: the components, sources first. *)
SCC(nodes, E) ==
    LET preds == Backward(nodes, E)
    IN  FoldLeft(LAMBDA cs, v :
                    LET seen == UNION ToSet(cs)
                    IN  IF v \in seen THEN cs
                        ELSE Append(cs, Search(<<v>>, preds, seen).black \ seen),
                 <<>>, Search(nodes, Onward(nodes, E), {}).order)

(* topSort: a cutset, and a topological order of what it leaves. *)
Cut(nodes, E) == Search(nodes, Onward(nodes, E), {}).cut
TopSort(nodes, E, cut) ==
    Search(nodes, Onward(nodes, SelectSeq(E, LAMBDA e : e.tgt \notin cut)), {}).order
-----------------------------------------------------------------------------
(* buildRegExp: the path sequence s run on the weights V of the nodes. *)
Run(back, V, s) ==
    FoldLeft(LAMBDA X, p :
                IF p.src = p.tgt THEN [X EXCEPT ![p.tgt] = Along(back, @, p.w)]
                ELSE [X EXCEPT ![p.tgt] = Combine(@, Along(back, X[p.src], p.w))],
             V, s)

(* Step v of the elimination of computePathSequenceCutset. *)
Eliminate(back, M, v, m) ==
    LET loop == Star(M[v, v])
        into(j) == Along(back, M[j, v], loop)
    IN  [j, k \in 1..m |->
            IF j = v /\ k = v THEN loop
            ELSE IF j > v /\ k = v THEN into(j)
            ELSE IF j > v /\ k > v THEN Combine(M[j, k], Along(back, into(j), M[v, k]))
            ELSE M[j, k]]

(***************************************************************************)
(* The weights of the paths from c that enter no node of the cutset; ts is *)
(* the topological order.                                                  *)
(***************************************************************************)
Beyond(back, nodes, E, cut, ts, c) ==
    LET after == SubSeq(ts, SelectInSeq(ts, LAMBDA v : v = c) + 1, Len(ts))
    IN  FoldLeft(LAMBDA X, v :
                    IF v \in cut THEN X
                    ELSE [X EXCEPT ![v] = AddUp(In(E, v), LAMBDA e : Along(back, X[e.src], e.w))],
                 [v \in ToSet(nodes) |-> IF v = c THEN One ELSE Zero], after)

(* The weights of the paths between the cutset's nodes cs. *)
BetweenCuts(back, nodes, E, cut, ts, cs) ==
    LET step(i, beyond, e) == IF e.src = cs[i] THEN e.w
                              ELSE IF e.src \in cut THEN Zero
                              ELSE Along(back, beyond[e.src], e.w)
        row(i, beyond) ==
            [j \in DOMAIN cs |->
                Combine(IF i = j THEN One ELSE Zero,
                        AddUp(In(E, cs[j]), LAMBDA e : step(i, beyond, e)))]
        rows == [i \in DOMAIN cs |-> row(i, Beyond(back, nodes, E, cut, ts, cs[i]))]
        matrix(R) == [i, j \in DOMAIN cs |-> R[i][j]]
    IN  FoldLeft(LAMBDA X, v : Eliminate(back, X, v, Len(cs)), matrix(rows),
                 [v \in DOMAIN cs |-> v])

(* The sequence: what is acyclic, into the cutset, across it, and again. *)
CutsetSequence(E, cut, ts, cs, M) ==
    LET m == Len(cs)
        acyclic == FlattenSeq([i \in DOMAIN ts |->
                       SelectSeq(Out(E, ts[i]), LAMBDA e : e.tgt \notin cut)])
        entering == FlattenSeq([j \in 1..m |->
                       SelectSeq(In(E, cs[j]), LAMBDA e : e.src \notin cut)])
        entry(i, j) == [src |-> cs[i], tgt |-> cs[j], w |-> M[i, j]]
        up == FlattenSeq([i \in 1..m |-> [j \in 1..(m + 1 - i) |-> entry(i, i + j - 1)]])
        down == FlattenSeq([i \in 1..m |->
                    [j \in 1..(m - i) |-> entry(m + 1 - i, m + 1 - i - j)]])
    IN  IF m = 0 THEN acyclic
        ELSE acyclic \o FlattenSeq([i \in 1..m |-> entering]) \o up \o down \o acyclic

computePathSequenceCutset(back, nodes, E) ==
    LET sequence(cut, ts, cs) ==
            CutsetSequence(E, cut, ts, cs, BetweenCuts(back, nodes, E, cut, ts, cs))
        around(cut) == sequence(cut, TopSort(nodes, E, cut),
                                SelectSeq(nodes, LAMBDA v : v \in cut))
    IN  around(Cut(nodes, E))
-----------------------------------------------------------------------------
(* computeDominators: what dominates v, and what does so immediately. *)
RECURSIVE Reach(_, _)
Reach(E, S) ==
    LET T == S \cup {e.tgt : e \in {x \in ToSet(E) : x.src \in S}}
    IN  IF T = S THEN S ELSE Reach(E, T)

Dominates(nodes, E, d, v) ==
    d = v \/ d = nodes[1]
    \/ v \notin Reach(SelectSeq(E, LAMBDA e : d \notin {e.src, e.tgt}), {nodes[1]})

(* The node that dominates v next to itself; the root has none. *)
dominators(nodes, E) ==
    LET above(v) == {d \in ToSet(nodes) \ {v} : Dominates(nodes, E, d, v)}
    IN  [v \in ToSet(nodes) |->
            IF v = nodes[1] THEN NoNode
            ELSE CHOOSE d \in above(v) : \A c \in above(v) : Dominates(nodes, E, c, d)]

(* numberNodes: the dominator tree in preorder. *)
RECURSIVE Preorder(_, _, _)
Preorder(nodes, dom, v) ==
    <<v>> \o FlattenSeq([i \in DOMAIN nodes |->
                 IF dom[nodes[i]] = v THEN Preorder(nodes, dom, nodes[i]) ELSE <<>>])

(***************************************************************************)
(* What domRegExp keeps: the weight from ancestor[v] to v, and the         *)
(* sequence so far.                                                        *)
(***************************************************************************)
RECURSIVE compress_and_sequence(_, _, _)
compress_and_sequence(back, S, h) ==
    LET up == S.ancestor[h]
    IN  IF S.ancestor[up] = NoNode THEN S
        ELSE LET T == compress_and_sequence(back, S, up)
             IN  [seq |-> Append(T.seq, [src |-> up, tgt |-> h, w |-> T.reg[h]]),
                  reg |-> [T.reg EXCEPT ![h] = Along(back, T.reg[up], @)],
                  ancestor |-> [T.ancestor EXCEPT ![h] = T.ancestor[up]]]

(* Mutated form of eval_and_sequence: the edge alone, not the way to it. *)
eval_and_sequence_Edge(back, S, e) == [state |-> [S EXCEPT !.seq = Append(@, e)], w |-> e.w]

(* eval_and_sequence: the state, and the weight of e from a sibling on. *)
eval_and_sequence(back, S, e) ==
    IF S.ancestor[e.src] = NoNode THEN [state |-> S, w |-> e.w]
    ELSE LET T == compress_and_sequence(back, S, e.src)
         IN  [state |-> [T EXCEPT !.seq = Append(@, e)],
              w |-> Along(back, T.reg[e.src], e.w)]

(* The child of u in the dominator tree that w is below. *)
RECURSIVE Sibling(_, _, _)
Sibling(dom, w, u) == IF dom[w] = u THEN w ELSE Sibling(dom, dom[w], u)

(* The nodes of the edges s, as they come. *)
NodesOf(s) ==
    LET add(vs, v) == IF v \in ToSet(vs) THEN vs ELSE Append(vs, v)
    IN  FoldLeft(LAMBDA vs, e : add(add(vs, e.src), e.tgt), <<>>, s)

(***************************************************************************)
(* computePathSequence: one component after another, and then the edges    *)
(* that leave it.  The dominator method is used on the whole graph, and    *)
(* the cutsets (use_cutset) on the graphs between siblings.                *)
(***************************************************************************)
InOrder(back, nodes, E, Method(_, _, _)) ==
    LET within(C) == SelectSeq(E, LAMBDA e : {e.src, e.tgt} \subseteq C)
        leaving(C) == SelectSeq(E, LAMBDA e : e.src \in C /\ e.tgt \notin C)
        sequence(cs) ==
            FlattenSeq([i \in DOMAIN cs |->
                Method(back, SelectSeq(nodes, LAMBDA v : v \in cs[i]), within(cs[i]))
                \o leaving(cs[i])])
    IN  sequence(SCC(nodes, E))

SiblingSequence(back, nodes, E) ==
    IF Len(E) < Len(nodes) THEN computePathSequenceCutset(back, nodes, E)
    ELSE InOrder(back, nodes, E, computePathSequenceCutset)

(* What the edges between the children of u become: edges of their own. *)
Lift(back, nodes, E, dom, S, u) ==
    LET kids == SelectSeq(nodes, LAMBDA v : dom[v] = u)
        between == FlattenSeq([i \in DOMAIN kids |->
                       SelectSeq(In(E, kids[i]), LAMBDA e : e.src # u)])
        add(sub, e, B) == [state |-> B.state,
                           sub |-> Append(sub, [src |-> Sibling(dom, e.src, u),
                                                tgt |-> e.tgt, w |-> B.w])]
    IN  FoldLeft(LAMBDA A, e : add(A.sub, e, eval_and_sequence(back, A.state, e)),
                 [state |-> S, sub |-> <<>>], between)

(* The state after the sequence new of the children has run. *)
Settle(back, nodes, E, dom, S, u, new) ==
    LET direct(v) == AddUp(SelectSeq(In(E, v), LAMBDA e : e.src = u), LAMBDA e : e.w)
        reg == [v \in ToSet(nodes) |-> IF dom[v] = u THEN direct(v) ELSE S.reg[v]]
    IN  [seq |-> S.seq \o new,
         reg |-> Run(back, reg, new),
         ancestor |-> [v \in ToSet(nodes) |-> IF dom[v] = u THEN u ELSE S.ancestor[v]]]

(* The loop body of domRegExp: the children of u. *)
Level(back, nodes, E, dom, S, u) ==
    LET settle(L) == Settle(back, nodes, E, dom, L.state, u,
                            SiblingSequence(back, NodesOf(L.sub), L.sub))
    IN  settle(Lift(back, nodes, E, dom, S, u))

(* The sequence, once every level and the edges home to the root are in. *)
Finish(nodes, order, T, home) ==
    LET star == [src |-> nodes[1], tgt |-> nodes[1], w |-> Star(T.w)]
    IN  T.state.seq \o (IF home = <<>> THEN <<>> ELSE <<star>>)
        \o [i \in 1..(Len(order) - 1) |->
               LET v == order[i + 1]
               IN  [src |-> T.state.ancestor[v], tgt |-> v, w |-> T.state.reg[v]]]

domRegExp(back, nodes, E) ==
    LET levels(dom, order) ==
            FoldLeft(LAMBDA A, u : Level(back, nodes, E, dom, A, u),
                     [seq |-> <<>>, reg |-> [v \in ToSet(nodes) |-> One],
                      ancestor |-> [v \in ToSet(nodes) |-> NoNode]], Reverse(order))
        add(w, B) == [state |-> B.state, w |-> Combine(w, B.w)]
        homing(S, home) ==
            FoldLeft(LAMBDA A, e : add(A.w, eval_and_sequence(back, A.state, e)),
                     [state |-> S, w |-> Zero], home)
        solve(dom, order, home) == Finish(nodes, order, homing(levels(dom, order), home), home)
        number(dom) == solve(dom, Preorder(nodes, dom, nodes[1]), In(E, nodes[1]))
    IN  number(dominators(nodes, E))

computePathSequence(back, nodes, E) ==
    IF E = <<>> THEN <<>> ELSE InOrder(back, nodes, E, domRegExp)
=============================================================================
