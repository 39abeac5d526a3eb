------------------------------ MODULE WfaTarjan ------------------------------
(***************************************************************************)
(* path_summary_tarjan_fwpds: the automaton as a pushdown system of one    *)
(* state whose rules go backwards along the transitions, which FWPDS       *)
(* solves as the one IntraGraph that a system without calls makes.         *)
(***************************************************************************)
EXTENDS WfaWords

CONSTANTS
    NoNode,     \* -1, of the graph
    Root        \* its root, node 0

IG == INSTANCE IntraGraph

(* What poststar of the final states reaches: nodes of the graph. *)
Reached == Fix(LAMBDA S : S \cup {t.from : t \in {u \in trans : u.to \in S}}, SUBSET Node, Final)

(* The rule <q> -> <p>: add_rule combines what the transitions have. *)
RuleWeight(q, p) == Sigma({t \in trans : t.from = p /\ t.to = q}, LAMBDA t : weight[t])

(* The edges of the graph: One to the final states, and then the rules. *)
SourceEdges(order) ==
    LET fs == SelectSeq(order, LAMBDA q : q \in Final)
    IN  [i \in DOMAIN fs |-> [src |-> Root, tgt |-> fs[i], w |-> One]]

RuleEdges(order) ==
    LET to(q) == SelectSeq(order, LAMBDA p : \E t \in trans : t.from = p /\ t.to = q)
        of(q) == [i \in DOMAIN to(q) |->
                     [src |-> q, tgt |-> to(q)[i], w |-> RuleWeight(q, to(q)[i])]]
    IN  FlattenSeq([i \in DOMAIN order |-> of(order[i])])

(***************************************************************************)
(* The summary, for the order in which the states became nodes.  INORDER   *)
(* weights are wrapped in ReversedSemElem, which extends the other way.    *)
(***************************************************************************)
path_summary_via_wpds(order) ==
    LET back == query = "INORDER"
        nodes == <<Root>> \o order
        edges == SourceEdges(order) \o RuleEdges(order)
        reg == IG!Run(back, [v \in ToSet(nodes) |-> IF v = Root THEN One ELSE Zero],
                      IG!computePathSequence(back, nodes, edges))
    IN  [q \in Node |-> IF q \in Reached THEN reg[q] ELSE Zero]

(***************************************************************************)
(* WFA.hpp offers path_summary by several algorithms: the regular          *)
(* expressions of Tarjan's method, over SCCs, dominators and cutsets, give *)
(* every state the weight the worklist gives it, whichever way the nodes   *)
(* were numbered and with loops through final states.                      *)
(***************************************************************************)
TarjanAgrees ==
    pc = "summed" =>
        \A order \in SetToSeqs(Reached) : path_summary_via_wpds(order) = total
=============================================================================
