------------------------------- MODULE RegExp -------------------------------
(***************************************************************************)
(* RegExpDag: the regular expressions that FWPDS keeps the weights of its  *)
(* transitions as.  The leaves of a saturation process are updated while   *)
(* it runs; an expression keeps the value it was last evaluated to, and    *)
(* for each weight it was evaluated at from the left, what came out.  The  *)
(* build is the one of GraphCommon.hpp: PUSH_EVAL and REGEXP_CACHING.      *)
(* RECURSIVE: for TLC's runs only.                                         *)
(***************************************************************************)
EXTENDS Semiring, Fixpoint, Naturals, Sequences, SequencesExt

CONSTANTS
    Label,          \* the weights of constants
    Grown,          \* the weights of updates
    top_down_eval,  \* FWPDS::topDownEval, set before the query
    MaxNodes,       \* bound on the expressions
    MaxCount,       \* bound on the update_count of a process
    MaxProcess,     \* bound on the saturation processes
    Unsigned        \* (unsigned)-1

ASSUME RegExpAssumption == Label \cup Grown \subseteq Weight /\ Unsigned > MaxCount

VARIABLES
    nodes,          \* the expressions: kids come before their parents
    counts,         \* the update_count of each process
    updatable_nodes,
    saturation_complete,
    executing_poststar,
    running_prestar     \* the query of the InterGraph the dag is for

settings == <<saturation_complete, executing_poststar, running_prestar>>
vars == <<nodes, counts, updatable_nodes, settings>>

current == Len(counts)
update_count == counts[current]
Node(type, value, kids, change, seen) ==
    [type |-> type, value |-> value, kids |-> kids, dirty |-> type # "Constant",
     last_change |-> change, last_seen |-> seen, eval_map |-> <<>>, process |-> current]
Constant(w) == Node("Constant", w, <<>>, 1, 0)
Updatable(w) == Node("Updatable", w, <<>>, 1, 1)
Operation(type, kids) == Node(type, Zero, kids, 0, 0)

Own == {r \in DOMAIN nodes : nodes[r].process = current}
IsConstant(r, w) == nodes[r].type = "Constant" /\ nodes[r].value = w
Cached(type, kids) == \E r \in Own : nodes[r].type = type /\ nodes[r].kids = kids
-----------------------------------------------------------------------------
(* The dag of an InterGraph, after its first startSatProcess. *)
Init ==
    /\ counts = <<1>>
    /\ nodes = LET C(w) == [Constant(Zero) EXCEPT !.value = w] IN <<C(Zero), C(One)>>
    /\ updatable_nodes = <<>>
    /\ saturation_complete = FALSE
    /\ executing_poststar = TRUE
    /\ running_prestar \in BOOLEAN

Saturating == ~saturation_complete
Create(n) == Len(nodes) < MaxNodes /\ nodes' = Append(nodes, n)
Building == Saturating /\ update_count = 1 /\ UNCHANGED <<counts, settings>>

(* Leaves are made before what is built on them, and once each: a bound. *)
LeavesFirst == \A r \in Own : nodes[r].kids = <<>>

MakeConstant ==
    /\ Building /\ LeavesFirst /\ Len(updatable_nodes) = 0 /\ UNCHANGED updatable_nodes
    /\ \E w \in Label : /\ \A r \in Own : ~IsConstant(r, w)
                        /\ Create(Constant(w))

(* updatable, of the next number: an edge that starts at Zero. *)
MakeUpdatable ==
    /\ Building /\ LeavesFirst
    /\ Create(Updatable(Zero))
    /\ updatable_nodes' = Append(updatable_nodes, Len(nodes'))

(* combine, extend and star, where they do not return what there is. *)
MakeCombine ==
    /\ Building /\ UNCHANGED updatable_nodes
    /\ \E q, r \in Own :
          /\ q < r    \* the order of the operands is immaterial
          /\ ~IsConstant(q, Zero) /\ ~IsConstant(r, Zero)
          /\ ~Cached("Combine", <<q, r>>)
          /\ Create(Operation("Combine", <<q, r>>))

MakeExtend ==
    /\ Building /\ UNCHANGED updatable_nodes
    /\ \E q, r \in Own :
          /\ \A w \in {Zero, One} : ~IsConstant(q, w) /\ ~IsConstant(r, w)
          /\ ~Cached("Extend", <<q, r>>)
          /\ Create(Operation("Extend", <<q, r>>))

MakeStar ==
    /\ Building /\ UNCHANGED updatable_nodes
    /\ \E r \in Own :
          /\ nodes[r].type # "Star"
          /\ \A w \in {Zero, One} : ~IsConstant(r, w)
          /\ ~Cached("Star", <<r>>)
          /\ Create(Operation("Star", <<r>>))
-----------------------------------------------------------------------------
(* setDirty: r and everything built on it. *)
Parents(R) == {p \in DOMAIN nodes : \E r \in R : r \in ToSet(nodes[p].kids)}
RECURSIVE Above(_)
Above(R) == IF Parents(R) \subseteq R THEN R ELSE Above(R \cup Parents(R))

(* Mutated form of Dirtied: the parents of a leaf only. *)
Dirtied_Near(R) == R \cup Parents(R)

Dirtied(R) == Above(R)

(* The nodes once the leaves R have the weights V, in one update. *)
WithUpdates(R, V) ==
    LET dirtied == Dirtied(R) IN
    [r \in DOMAIN nodes |->
        IF r \in R
        THEN [nodes[r] EXCEPT !.value = V[r], !.dirty = TRUE, !.eval_map = <<>>,
                              !.last_change = update_count + 1,
                              !.last_seen = update_count + 1]
        ELSE [nodes[r] EXCEPT !.dirty = @ \/ r \in dirtied]]

(***************************************************************************)
(* update, of one leaf or of the vector of a Newton round: the weights of  *)
(* a saturation only grow.                                                 *)
(***************************************************************************)
Update ==
    /\ Saturating /\ update_count < MaxCount
    /\ \E R \in (SUBSET ToSet(updatable_nodes)) \ {{}} :
       \E V \in [R -> Grown] :
          /\ \A r \in R : Leq(nodes[r].value, V[r]) /\ V[r] # nodes[r].value
          /\ nodes' = WithUpdates(R, V)
    /\ counts' = [counts EXCEPT ![current] = @ + 1]
    /\ UNCHANGED <<updatable_nodes, settings>>
-----------------------------------------------------------------------------
Star(w) == Fix(LAMBDA x : Extend(x, x), Weight, Combine(w, One))
Largest(S) == CHOOSE n \in S : \A k \in S : k <= n
ExtendAll(s) == FoldLeft(LAMBDA acc, w : Extend(acc, w), One, s)
CombineAll(s) == FoldLeft(LAMBDA acc, w : Combine(acc, w), Zero, s)

(* The kids of node n whose value the last evaluation of n has not seen. *)
Changed(S, n) == SelectSeq(n.kids, LAMBDA k : S[k].last_change > n.last_seen)

(* What a kid that changed makes of the value of its parent. *)
NewValue(S, n) ==
    LET value(k) == S[k].value
        kids(s) == [i \in DOMAIN s |-> value(s[i])]
    IN  CASE n.type = "Star" -> Star(value(n.kids[1]))
          [] n.type = "Extend" -> ExtendAll(kids(n.kids))
          [] OTHER -> Combine(n.value, CombineAll(kids(Changed(S, n))))

NewChange(S, n) ==
    LET changes(s) == {S[k].last_change : k \in ToSet(s)}
    IN  CASE n.type = "Star" -> S[n.kids[1]].last_change
          [] n.type = "Extend" -> Largest({n.last_change} \cup changes(n.kids))
          [] OTHER -> Largest({n.last_change} \cup changes(Changed(S, n)))

(* evaluate(): bottom up. *)
RECURSIVE evaluate(_, _)
evaluate(S, r) ==
    LET n == S[r]
        now == counts[n.process]
    IN  IF ~n.dirty THEN [S EXCEPT ![r].last_seen = now]
        ELSE IF n.last_seen = now \/ n.kids = <<>> THEN S
        ELSE LET T == FoldLeft(evaluate, S, n.kids)
                 w == IF Changed(T, n) = <<>> THEN n.value ELSE NewValue(T, n)
                 c == IF w = n.value THEN n.last_change ELSE NewChange(T, n)
             IN  [T EXCEPT ![r] = [n EXCEPT !.value = w, !.dirty = FALSE,
                                   !.last_change = Largest({1, c}), !.last_seen = now]]

(***************************************************************************)
(* evaluate(w): the expression applied to w from the left, top down.  What *)
(* comes out, and the nodes.                                               *)
(***************************************************************************)
RECURSIVE evaluateAt(_, _, _)
RECURSIVE Rounds(_, _, _, _, _)
Rounds(S, r, temp, ans, nans) ==
    IF ans = nans THEN [nodes |-> S, ret |-> nans]
    ELSE LET A == evaluateAt(S, r, temp)
         IN  Rounds(A.nodes, r, A.ret, nans, Combine(nans, A.ret))

evaluateAt(S, r, w) ==
    LET n == S[r]
        T == [S EXCEPT ![r].eval_map = IF n.dirty THEN <<>> ELSE @, ![r].dirty = FALSE]
        through(A, k) == evaluateAt(A.nodes, k, A.ret)
        beside(A, k) == LET B == evaluateAt(A.nodes, k, w)
                        IN  [nodes |-> B.nodes, ret |-> Combine(A.ret, B.ret)]
        A == CASE n.type = "Star" -> Rounds(T, n.kids[1], w, Zero, w)
               [] n.type = "Extend" -> FoldLeft(through, [nodes |-> T, ret |-> w], n.kids)
               [] n.type = "Combine" -> FoldLeft(beside, [nodes |-> T, ret |-> Zero], n.kids)
               [] OTHER -> [nodes |-> T, ret |-> Extend(w, n.value)]
        map == T[r].eval_map
    IN  IF w \in DOMAIN map THEN [nodes |-> T, ret |-> map[w]]
        ELSE [nodes |-> [A.nodes EXCEPT
                  ![r].eval_map = [x \in DOMAIN map \cup {w} |->
                                     IF x = w THEN A.ret ELSE map[x]],
                  ![r].last_seen = counts[n.process],
                  ![r].last_change = Unsigned],
              ret |-> A.ret]

(* The value of n is known to be the weight. *)
Available(n) == n.last_seen = counts[n.process] /\ n.last_change # Unsigned

TopDown == top_down_eval /\ saturation_complete /\ executing_poststar

get_weight(S, r) ==
    IF Available(S[r]) THEN [nodes |-> S, ret |-> S[r].value]
    ELSE IF TopDown THEN evaluateAt(S, r, One)
    ELSE LET T == evaluate(S, r) IN [nodes |-> T, ret |-> T[r].value]

(***************************************************************************)
(* The expressions of a process are asked while it runs, all after it.     *)
(* Leaves are not asked: a bound.                                          *)
(***************************************************************************)
Asked == {r \in IF saturation_complete THEN DOMAIN nodes ELSE Own : nodes[r].kids # <<>>}
GetWeight ==
    /\ \E r \in Asked : nodes' = get_weight(nodes, r).nodes
    /\ UNCHANGED <<counts, updatable_nodes, settings>>
-----------------------------------------------------------------------------
(* Mutated form of Frozen: the leaves stay updatable. *)
Frozen_Not(s) == s

(* The updatable nodes after a process: none. *)
Frozen(s) == <<>>

(* stopSatProcess, and the executingPoststar that follows. *)
Stop ==
    /\ Saturating
    /\ saturation_complete' = TRUE
    /\ updatable_nodes' = Frozen(updatable_nodes)
    /\ executing_poststar' = ~running_prestar
    /\ UNCHANGED <<nodes, counts, running_prestar>>

(* startSatProcess. *)
Start ==
    /\ saturation_complete /\ current < MaxProcess /\ Len(nodes) + 2 <= MaxNodes
    /\ saturation_complete' = FALSE
    /\ executing_poststar' = TRUE
    /\ counts' = Append(counts, 1)
    /\ nodes' = nodes \o [i \in 1..2 |->
                    [Constant(IF i = 1 THEN Zero ELSE One) EXCEPT !.process = current + 1]]
    /\ UNCHANGED <<updatable_nodes, running_prestar>>

Next == MakeConstant \/ MakeUpdatable \/ MakeCombine \/ MakeExtend \/ MakeStar
        \/ Update \/ GetWeight \/ Stop \/ Start
Spec == Init /\ [][Next]_vars
-----------------------------------------------------------------------------
(* The weights of the expressions, from those of the leaves (reevaluate). *)
Meaning ==
    LET of[r \in DOMAIN nodes] ==
            LET n == nodes[r]
                kids == [i \in DOMAIN n.kids |-> of[n.kids[i]]]
            IN  CASE n.type = "Star" -> Star(kids[1])
                  [] n.type = "Extend" -> ExtendAll(kids)
                  [] n.type = "Combine" -> CombineAll(kids)
                  [] OTHER -> n.value
    IN  of

(***************************************************************************)
(* get_weight answers the weight of the expression, whatever of it was     *)
(* evaluated before, in what order and after which updates: no value it    *)
(* keeps is stale.                                                         *)
(***************************************************************************)
WeightsAreFresh ==
    LET M == Meaning IN \A r \in Asked : get_weight(nodes, r).ret = M[r]

(***************************************************************************)
(* RegExp.hpp: stopSatProcess fixes old updatable nodes to act as constants*)
(* forever, so a finished process keeps its weights.                       *)
(***************************************************************************)
OldAreConstant ==
    [][LET old == IF saturation_complete THEN DOMAIN nodes ELSE DOMAIN nodes \ Own
           M == Meaning
           M2 == Meaning'
       IN  \A r \in old : M2[r] = M[r]]_vars
=============================================================================
