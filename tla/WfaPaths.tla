------------------------------- MODULE WfaPaths -------------------------------
(***************************************************************************)
(* Two worklist algorithms over the paths of a WFA.  A client adds         *)
(* transitions, then asks path_summary_iterative_original for the weight   *)
(* of the paths from every state to a final one, or epsilonClose_Mohri for *)
(* that of the epsilon paths from one state; then it adds more transitions *)
(* and asks again, of states that still carry the weights of before.       *)
(***************************************************************************)
EXTENDS Semiring, Naturals, FiniteSets

CONSTANTS
    Node,       \* the states
    Start,      \* the initial state
    Alphabet,   \* the symbols
    EPS,        \* WALI_EPSILON
    Additions,  \* the calls of addTrans
    Final,      \* the set F of final states
    MaxTrans    \* bound on the transitions of a session

ASSUME PathsAssumption ==
    /\ EPS \notin Alphabet
    /\ Start \in Node /\ Final \subseteq Node
    /\ \A a \in Additions :
          /\ a.key \in [from : Node, stk : Alphabet \cup {EPS}, to : Node]
          /\ a.weight \in Weight

VARIABLES
    trans,      \* the transitions
    weight,     \* the weight of each
    query,      \* INORDER or REVERSE
    pc,         \* which algorithm runs
    total,      \* State::weight
    delta,      \* State::delta
    open,       \* the worklist of path_summary
    source,     \* the state that is closed over
    dist,       \* d: the weight of the epsilon paths found so far
    rest,       \* r: what was added to it since the state was visited
    queue,      \* the worklist of epsilonClose
    cur,        \* the state taken off a worklist
    news,       \* the_delta, or r_q: its delta when it was taken
    todo        \* the transitions of cur still to handle

automaton == <<trans, weight, query>>
states == <<total, delta, open>>
closure == <<source, dist, rest, queue>>
work == <<cur, news, todo>>
vars == <<automaton, pc, states, closure, work>>

Key == [from : Node, stk : Alphabet \cup {EPS}, to : Node]
-----------------------------------------------------------------------------
Init ==
    /\ trans = {} /\ weight = <<>>
    /\ query \in {"INORDER", "REVERSE"}
    /\ pc = "build"
    /\ total = [q \in Node |-> Zero] /\ delta = [q \in Node |-> Zero]
    /\ open = {}
    /\ source = Start /\ dist = total /\ rest = total /\ queue = {}
    /\ cur = Start /\ news = Zero /\ todo = {}

(* WFA::addTrans of a transition the automaton lacks. *)
AddTrans ==
    /\ pc = "build" /\ Cardinality(trans) < MaxTrans
    /\ \E a \in Additions :
          /\ a.key \notin trans
          /\ trans' = trans \cup {a.key}
          /\ weight' = [k \in trans' |-> IF k = a.key THEN a.weight ELSE weight[k]]
    /\ UNCHANGED <<query, pc, states, closure, work>>

(* The client goes on with the automaton, and may turn it with setQuery. *)
GoOn ==
    /\ pc \in {"summed", "closed"}
    /\ pc' = "build"
    /\ query' \in {"INORDER", "REVERSE"}
    /\ UNCHANGED <<trans, weight, states, closure, work>>
-----------------------------------------------------------------------------
(* The weight of the way through t into what the state t.to knows. *)
Through(t, x) == IF query = "INORDER" THEN Extend(weight[t], x)
                                      ELSE Extend(x, weight[t])

(* setupFixpoint: One on final states, Zero on the others. *)
SetupWeight(q) == IF q \in Final THEN One ELSE Zero

SetupFixpoint ==
    /\ pc = "build"
    /\ pc' = "summary"
    /\ total' = [q \in Node |-> SetupWeight(q)]
    /\ delta' = [q \in Node |-> IF q \in Final THEN One ELSE Zero]
    /\ open' = Final
    /\ UNCHANGED <<automaton, closure, work>>

(***************************************************************************)
(* The loop of path_summary_iterative_original: a state off the worklist,  *)
(* whose predecessors are told of its delta, one transition after another. *)
(***************************************************************************)
PopState ==
    /\ pc = "summary" /\ todo = {}
    /\ \E q \in open :
          /\ cur' = q /\ news' = delta[q]
          /\ delta' = [delta EXCEPT ![q] = Zero]
          /\ open' = open \ {q}
          /\ todo' = {t \in trans : t.to = q}
    /\ UNCHANGED <<automaton, pc, total, closure>>

(* Mutated form of DeltaAfter: the delta of a marked state is replaced. *)
DeltaAfter_Replaced(q, w) == Diff(w, total[q])

(* The delta of q once it was told of w: a state off the worklist has none. *)
DeltaAfter(q, w) ==
    IF q \in open THEN Combine(delta[q], Diff(w, total[q])) ELSE Diff(w, total[q])

TellPredecessor ==
    /\ pc = "summary"
    /\ \E t \in todo :
          LET w == Through(t, news)
              d == DeltaAfter(t.from, w)
          IN  /\ total' = [total EXCEPT ![t.from] = Combine(@, w)]
              /\ delta' = [delta EXCEPT ![t.from] = d]
              /\ open' = IF d # Zero THEN open \cup {t.from} ELSE open
              /\ todo' = todo \ {t}
    /\ UNCHANGED <<automaton, pc, closure, cur, news>>

SummaryDone ==
    /\ pc = "summary" /\ todo = {} /\ open = {}
    /\ pc' = "summed"
    /\ UNCHANGED <<automaton, states, closure, work>>
-----------------------------------------------------------------------------
(* epsilonClose_Mohri(s), up to its loop. *)
StartClose ==
    /\ pc = "build"
    /\ pc' = "close"
    /\ \E s \in Node :
          /\ source' = s
          /\ dist' = [q \in Node |-> IF q = s THEN One ELSE Zero]
          /\ rest' = [q \in Node |-> IF q = s THEN One ELSE Zero]
          /\ queue' = {s}
    /\ UNCHANGED <<automaton, states, work>>

PopSource ==
    /\ pc = "close" /\ todo = {}
    /\ \E q \in queue :
          /\ cur' = q /\ news' = rest[q]
          /\ rest' = [rest EXCEPT ![q] = Zero]
          /\ queue' = queue \ {q}
          /\ todo' = {t \in trans : t.from = q /\ t.stk = EPS}
    /\ UNCHANGED <<automaton, pc, states, source, dist>>

(* Mutated form of Ahead: the operands of extend are swapped. *)
Ahead_Swapped(t, x) == Extend(weight[t], x)

(* 'r*w[e]': what x becomes through the epsilon transition t. *)
Ahead(t, x) == Extend(x, weight[t])

Relax ==
    /\ pc = "close"
    /\ \E t \in todo :
          LET w == Ahead(t, news)
              d == Combine(dist[t.to], w)
          IN  /\ IF d # dist[t.to]
                 THEN /\ dist' = [dist EXCEPT ![t.to] = d]
                      /\ rest' = [rest EXCEPT ![t.to] = Combine(@, w)]
                      /\ queue' = queue \cup {t.to}
                 ELSE UNCHANGED <<dist, rest, queue>>
              /\ todo' = todo \ {t}
    /\ UNCHANGED <<automaton, pc, states, source, cur, news>>

CloseDone ==
    /\ pc = "close" /\ todo = {} /\ queue = {}
    /\ pc' = "closed"
    /\ UNCHANGED <<automaton, states, closure, work>>

Summary == PopState \/ TellPredecessor \/ SummaryDone
Close == PopSource \/ Relax \/ CloseDone
Next == AddTrans \/ GoOn \/ SetupFixpoint \/ StartClose \/ Summary \/ Close

Spec == Init /\ [][Next]_vars
-----------------------------------------------------------------------------
TypeOK ==
    /\ trans \subseteq Key /\ weight \in [trans -> Weight]
    /\ query \in {"INORDER", "REVERSE"}
    /\ pc \in {"build", "summary", "summed", "close", "closed"}
    /\ total \in [Node -> Weight] /\ delta \in [Node -> Weight]
    /\ open \subseteq Node
    /\ source \in Node /\ queue \subseteq Node
    /\ dist \in [Node -> Weight] /\ rest \in [Node -> Weight]
    /\ cur \in Node /\ news \in Weight
    /\ todo \subseteq trans

(***************************************************************************)
(* The weights V of the states solve the equations of the paths: a final   *)
(* state is worth One, a state what it gets through each transition.  The  *)
(* least solution is the combination over all paths.                       *)
(***************************************************************************)
Solves(V) ==
    /\ \A f \in Final : Leq(One, V[f])
    /\ \A t \in trans :
          Leq(IF query = "INORDER" THEN Extend(weight[t], V[t.to])
                                   ELSE Extend(V[t.to], weight[t]), V[t.from])

Closes(V) ==
    /\ Leq(One, V[source])
    /\ \A t \in trans : t.stk = EPS => Leq(Extend(V[t.from], weight[t]), V[t.to])

(***************************************************************************)
(* When path_summary_iterative_original returns, the weights of the states *)
(* are the least solution: no path is lost between two visits of a state,  *)
(* none is counted that does not exist, and nothing is left of a summary   *)
(* made before the automaton grew.                                         *)
(***************************************************************************)
SummaryIsLeast ==
    pc = "summed" =>
        /\ Solves(total)
        /\ \A V \in [Node -> Weight] : Solves(V) => \A q \in Node : Leq(total[q], V[q])

(* The same of epsilonClose_Mohri, on the epsilon paths from source. *)
ClosureIsLeast ==
    pc = "closed" =>
        /\ Closes(dist)
        /\ \A V \in [Node -> Weight] : Closes(V) => \A q \in Node : Leq(dist[q], V[q])
=============================================================================
