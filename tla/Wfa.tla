--------------------------------- MODULE Wfa ---------------------------------
(***************************************************************************)
(* The weighted automaton a saturation procedure works on: the transitions *)
(* of a wali::wfa::WFA with their weight, their delta and their worklist   *)
(* mark, and the two ways the procedures change them, WFA::insert and      *)
(* WPDS::update.  Pure operators; the machines that use them hold the      *)
(* automaton in a variable.                                                *)
(***************************************************************************)
EXTENDS Semiring, Integers

CONSTANTS
    P,              \* the control states of the pushdown system
    Q,              \* the other states of the automata given as input
    Stack,          \* the stack alphabet
    EPS,            \* WALI_EPSILON
    MaxGeneration   \* bound on the generation counter of chained queries

Generation == 0..MaxGeneration

(***************************************************************************)
(* The states WPDS::gen_state interns: the entry point (state, stack) of a *)
(* push rule, tagged with the generation of the output automaton.          *)
(***************************************************************************)
GenState == [gen : 1..MaxGeneration, state : P, stk : Stack]
State == P \cup Q \cup GenState
Symbol == Stack \cup {EPS}

(* A transition is identified by its endpoints and its symbol (TransSet). *)
Key == [from : State, stk : Symbol, to : State]

ASSUME WfaAssumption ==
    /\ MaxGeneration \in Nat
    /\ EPS \notin Stack
    /\ P \cap Q = {} /\ P \cap GenState = {} /\ Q \cap GenState = {}

(***************************************************************************)
(* An automaton: its transitions with their weight and delta, and those    *)
(* whose worklist mark is set, that is the contents of the worklist.       *)
(***************************************************************************)
IsAutomaton(A) ==
    /\ A = [trans |-> A.trans, weight |-> A.weight,
            delta |-> A.delta, marked |-> A.marked]
    /\ A.trans \subseteq Key
    /\ A.weight \in [A.trans -> Weight]
    /\ A.delta \in [A.trans -> Weight]
    /\ A.marked \subseteq A.trans

EmptyAutomaton == [trans |-> {}, weight |-> <<>>, delta |-> <<>>, marked |-> {}]

(* The weight and the delta of a transition, Zero when A lacks it. *)
W(A, k) == IF k \in A.trans THEN A.weight[k] ELSE Zero
D(A, k) == IF k \in A.trans THEN A.delta[k] ELSE Zero

At(k, w) == [x \in {k} |-> w]

(* Mutated forms: every weight is news, is news only for a new transition, *)
(* other transitions are dropped.                                          *)
Modified_Always(A, k, w) == TRUE
Modified_OnlyNew(A, k, w) == k \notin A.trans
TransAfter_Dropped(A, ins) == DOMAIN ins

(***************************************************************************)
(* WFA::insert of every transition k in DOMAIN ins, with weight ins[k]: a  *)
(* transition the automaton lacks enters with delta = weight, one it has   *)
(* goes through Trans::combineTrans.                                       *)
(***************************************************************************)
TransAfter(A, ins) == A.trans \cup DOMAIN ins
WeightAfter(A, k, w) == Combine(W(A, k), w)
DeltaAfter(A, k, w) ==
    IF k \in A.trans THEN Combine(A.delta[k], Diff(w, A.weight[k])) ELSE w

Insert(A, ins) ==
    LET all == TransAfter(A, ins)
    IN  [trans  |-> all,
         weight |-> [k \in all |-> IF k \in DOMAIN ins
                                   THEN WeightAfter(A, k, ins[k]) ELSE A.weight[k]],
         delta  |-> [k \in all |-> IF k \in DOMAIN ins
                                   THEN DeltaAfter(A, k, ins[k]) ELSE A.delta[k]],
         marked |-> A.marked]

(* ITrans::modified() just after that insertion. *)
Modified(A, k, w) == k \notin A.trans \/ DeltaAfter(A, k, w) # A.delta[k]

(***************************************************************************)
(* WPDS::update: insert, then put what was modified on the worklist        *)
(* (Worklist::put ignores a transition that is already marked).            *)
(***************************************************************************)
Update(A, ins) ==
    [Insert(A, ins) EXCEPT
        !.marked = @ \cup {k \in DOMAIN ins : Modified(A, k, ins[k])}]

(* Mutated form of Take: the delta is not reset. *)
Take_KeepsDelta(A, t) == [A EXCEPT !.marked = @ \ {t}]

(***************************************************************************)
(* post() and pre() on the transition t they took off the worklist: the    *)
(* delta is read by the caller and reset, the mark is cleared.             *)
(***************************************************************************)
Take(A, t) == [A EXCEPT !.marked = @ \ {t}, !.delta = [@ EXCEPT ![t] = Zero]]

(***************************************************************************)
(* WFA::clear followed by WPDS::operator() on every transition of in: the  *)
(* copies carry their whole weight as delta and are all on the worklist.   *)
(***************************************************************************)
CopyOf(in) == [trans |-> in.trans, weight |-> in.weight,
               delta |-> in.weight, marked |-> in.trans]

(* Mutated form of EpsInto: eps_map is never filled. *)
EpsInto_Empty(A, q) == {}

(* The transitions that leave the state q, those into q labelled EPS. *)
Leaving(A, q) == {k \in A.trans : k.from = q}
EpsInto(A, q) == {k \in A.trans : k.stk = EPS /\ k.to = q}
=============================================================================
