------------------------------ MODULE MergeFns ------------------------------
(***************************************************************************)
(* The merge functions of an EWPDS, which join the weight of a caller with *)
(* that of its callee at a return.  The default one holds a weight: the    *)
(* rule's.                                                                 *)
(***************************************************************************)
EXTENDS Wpds

CONSTANTS
    Client,             \* the merge functions a client wrote
    Default,            \* the class MergeFn
    NoMerge,            \* no merge function given
    ClientApply(_, _, _) \* apply_f of a merge function of Client

MergeFn(w) == [class |-> Default, data |-> w]
ClientFn(m) == [class |-> m, data |-> One]
Merge == {MergeFn(w) : w \in Weight} \cup {ClientFn(m) : m \in Client}

apply_f(m, w1, w2) ==
    IF m.class = Default THEN Extend(w1, Extend(m.data, w2))
                         ELSE ClientApply(m.class, w1, w2)

(***************************************************************************)
(* What a client's merge functions owe the queries, which hand them the    *)
(* weight of the callee piece by piece, as it grows: a piece at a time     *)
(* must come to the same as all of it at once, and nothing to nothing.     *)
(***************************************************************************)
ASSUME MergeAssumption ==
    /\ Default \notin Client /\ NoMerge \notin Merge
    /\ \A m \in Client : \A a, b, c \in Weight :
          /\ ClientApply(m, a, b) \in Weight
          /\ ClientApply(m, a, Zero) = Zero
          /\ ClientApply(m, a, Combine(b, c))
                = Combine(ClientApply(m, a, b), ClientApply(m, a, c))

(* Nothing is lost by a caller that knows more. *)
MergesMonotone ==
    \A m \in Client : \A a, b, c \in Weight :
        Leq(a, b) => Leq(ClientApply(m, a, c), ClientApply(m, b, c))

(***************************************************************************)
(* What equal says of two merge functions.  MergeFn::equal of one that is  *)
(* not a MergeFn follows a null pointer: no answer either.                 *)
(***************************************************************************)
SameMerge(m, n) == m = n

(* The triple merge_rule_hash is indexed by. *)
Rhs(r) == <<r.to, r.stk1, r.stk2>>

gen_state(g, s, y) == [gen |-> g, state |-> s, stk |-> y]
=============================================================================
