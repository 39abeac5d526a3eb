------------------------------- MODULE PdsRuns -------------------------------
(***************************************************************************)
(* What the two queries promise, for stacks of every height: the weights   *)
(* with which an automaton reads a configuration, one for each path, and   *)
(* those with which the pushdown system reaches one from those the input   *)
(* reads, one for each run.  Both are least sets closed under a step, so   *)
(* they are defined without recursion, as what every closed set holds.     *)
(* They are for the proofs: PdsSemantics is what TLC evaluates.            *)
(***************************************************************************)
EXTENDS Wpds, Sequences

Word == Seq(Stack)

(* The symbol y, or nothing when it is EPS, in front of the word u. *)
Onto(y, u) == IF y = EPS THEN u ELSE <<y>> \o u

(***************************************************************************)
(* A transition of weight w before a path of weight v: a query that reads  *)
(* its automaton in REVERSE extends the path by the transition, one that   *)
(* reads it INORDER the transition by the path.                            *)
(***************************************************************************)
Along(order, w, v) == IF order = "REVERSE" THEN Extend(v, w) ELSE Extend(w, v)

(***************************************************************************)
(* The weights of the paths of A that read u from the state q and end in   *)
(* a final state.                                                          *)
(***************************************************************************)
ReadingClosed(A, final, order, X) ==
    /\ \A q \in final : One \in X[q][<<>>]
    /\ \A k \in A.trans, u \in Word : \A v \in X[k.to][u] :
          Along(order, A.weight[k], v) \in X[k.from][Onto(k.stk, u)]

ReadWeights(A, final, order, q, u) ==
    {v \in Weight : \A X \in [State -> [Word -> SUBSET Weight]] :
        ReadingClosed(A, final, order, X) => v \in X[q][u]}

(***************************************************************************)
(* The weights of the runs of the pushdown system that reach <<p, u>> from *)
(* a configuration the input reads: the weight the input reads it with,    *)
(* extended by the weights of the rules in the order they fire.            *)
(***************************************************************************)
Source(r, u) == Onto(r.stk, u)
Result(r, u) == Onto(r.stk1, Onto(r.stk2, u))

HoldsReadings(in, final, order, X) ==
    \A p \in P, u \in Word : ReadWeights(in, final, order, p, u) \subseteq X[p][u]
ForwardClosed(rs, X) ==
    \A r \in rs, u \in Word : \A v \in X[r.from][Source(r, u)] :
        Extend(v, r.weight) \in X[r.to][Result(r, u)]

PostWeights(rs, in, final, p, u) ==
    {v \in Weight : \A X \in [P -> [Word -> SUBSET Weight]] :
        HoldsReadings(in, final, "REVERSE", X) /\ ForwardClosed(rs, X) => v \in X[p][u]}

(* Those of the runs that lead from <<p, u>> to such a configuration. *)
BackwardClosed(rs, X) ==
    \A r \in rs, u \in Word : \A v \in X[r.to][Result(r, u)] :
        Extend(r.weight, v) \in X[r.from][Source(r, u)]

PreWeights(rs, in, final, p, u) ==
    {v \in Weight : \A X \in [P -> [Word -> SUBSET Weight]] :
        HoldsReadings(in, final, "INORDER", X) /\ BackwardClosed(rs, X) => v \in X[p][u]}

(***************************************************************************)
(* The weights that finite combinations of the given ones cover; paths     *)
(* answer runs, both given by their weights, when each run is covered by a *)
(* path and each path by some of the runs: the two then have the same      *)
(* combination, however many there are of each.                            *)
(***************************************************************************)
Combinations(given) ==
    {v \in Weight : \A I \in SUBSET Weight : IsIdeal(I) /\ given \subseteq I => v \in I}

Answer(paths, runs) == /\ \A w \in runs : \E v \in paths : Leq(w, v)
                       /\ paths \subseteq Combinations(runs)
=============================================================================
