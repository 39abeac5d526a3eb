---------------------------- MODULE PdsSemantics ----------------------------
(***************************************************************************)
(* What a reachability query promises, without automata: the weight of a   *)
(* configuration <<p, w>> is the combination, over every sequence of rules *)
(* that reaches it from a configuration the input accepts, of the input's  *)
(* weight extended by the weights of the rules in the order they fire.     *)
(* Stacks are cut at a depth, so the fixpoint is finite.  RECURSIVE: for   *)
(* TLC's runs only.                                                        *)
(***************************************************************************)
EXTENDS Wfa, Sequences, SequencesExt

Configs(depth) == P \X BoundedSeq(Stack, depth)

Sigma(S, f(_)) == FoldSet(LAMBDA x, acc : Combine(acc, f(x)), Zero, S)

(***************************************************************************)
(* The weight with which A accepts the word w from state q, read the way   *)
(* the query asks: REVERSE extends a transition's weight on the right of   *)
(* what follows it (poststar), INORDER on the left (prestar).              *)
(***************************************************************************)
RECURSIVE Reading(_, _, _, _, _)
Reading(A, final, order, q, w) ==
    LET rest(t) == Reading(A, final, order, t.to,
                           IF t.stk = EPS THEN w ELSE Tail(w))
        through(t) == IF order = "REVERSE" THEN Extend(rest(t), A.weight[t])
                                           ELSE Extend(A.weight[t], rest(t))
        readable == {t \in A.trans : /\ t.from = q
                                     /\ t.stk = EPS \/ (w # <<>> /\ t.stk = Head(w))}
    IN  Combine(IF w = <<>> /\ q \in final THEN One ELSE Zero,
                Sigma(readable, through))

Accepts(A, final, order, depth) ==
    [c \in Configs(depth) |-> Reading(A, final, order, c[1], c[2])]

(* The right-hand side of a rule as a word. *)
Pushed(r) == SelectSeq(<<r.stk1, r.stk2>>, LAMBDA y : y # EPS)
Enabled(r, c) == c[1] = r.from /\ c[2] # <<>> /\ Head(c[2]) = r.stk
Fire(r, c) == <<r.to, Pushed(r) \o Tail(c[2])>>

(***************************************************************************)
(* One round of the forward fixpoint (weights of reached configurations)   *)
(* and one of the backward fixpoint (weights of the ways into the target). *)
(***************************************************************************)
Forward(rs, V, depth) ==
    LET moves == {m \in rs \X Configs(depth) :
                    /\ Enabled(m[1], m[2]) /\ Len(Fire(m[1], m[2])[2]) <= depth
                    /\ V[m[2]] # Zero}
    IN  [c \in DOMAIN V |->
            Combine(V[c], Sigma({m \in moves : Fire(m[1], m[2]) = c},
                                LAMBDA m : Extend(V[m[2]], m[1].weight)))]

Backward(rs, V, depth) ==
    [c \in DOMAIN V |->
        Combine(V[c], Sigma({r \in rs : /\ Enabled(r, c)
                                        /\ Len(Fire(r, c)[2]) <= depth},
                            LAMBDA r : Extend(r.weight, V[Fire(r, c)])))]

RECURSIVE PostStar(_, _, _), PreStar(_, _, _)
PostStar(rs, V, depth) == LET V2 == Forward(rs, V, depth)
                          IN  IF V2 = V THEN V ELSE PostStar(rs, V2, depth)
PreStar(rs, V, depth) == LET V2 == Backward(rs, V, depth)
                         IN  IF V2 = V THEN V ELSE PreStar(rs, V2, depth)
=============================================================================
