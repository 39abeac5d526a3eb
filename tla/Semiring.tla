------------------------------ MODULE Semiring ------------------------------
(***************************************************************************)
(* The weights of a WALi query: a bounded idempotent semiring, the class   *)
(* wali::SemElem.  A weight domain is a subclass of SemElem written by a   *)
(* client, so the carrier and the operations are CONSTANTS and the laws    *)
(* the saturation procedures rely on are the named assumptions below.      *)
(***************************************************************************)

CONSTANTS
    Weight,         \* the carrier
    Zero,           \* SemElem::zero()
    One,            \* SemElem::one()
    Combine(_, _),  \* SemElem::combine
    Extend(_, _),   \* SemElem::extend
    Diff(_, _)      \* second component of w->delta(se), for new w and old se

(***************************************************************************)
(* The order of the semiring, SemElem::underApproximates: a is below b     *)
(* when combining a into b changes nothing.                                *)
(***************************************************************************)
Leq(a, b) == Combine(b, a) = b

(* The weights a set of weights bounds: sums of them, and what is below.   *)
IsIdeal(I) ==
    /\ I \subseteq Weight /\ Zero \in I
    /\ \A a, b \in I : Combine(a, b) \in I
    /\ \A a \in I, b \in Weight : Leq(b, a) => b \in I

(***************************************************************************)
(* SemElem::delta when a domain does not override it: option (i) of its    *)
(* comment, "this + se = se ? 0 : this + se".                              *)
(***************************************************************************)
DefaultDiff(w, se) == IF Leq(w, se) THEN Zero ELSE Combine(se, w)

(* Mutated form of ExtendAndDiff: the operands of extend are swapped. *)
ExtendAndDiff_Swapped(d, r, se) == Diff(Extend(r, d), se)

(* SemElem::extendAndDiff: what Extend(d, r) adds to the old weight se. *)
ExtendAndDiff(d, r, se) == Diff(Extend(d, r), se)

ASSUME WeightClosed ==
    /\ Zero \in Weight /\ One \in Weight
    /\ \A a, b \in Weight : /\ Combine(a, b) \in Weight
                            /\ Extend(a, b) \in Weight
                            /\ Diff(a, b) \in Weight

ASSUME CombineLaws ==
    /\ \A a \in Weight : Combine(a, a) = a /\ Combine(a, Zero) = a
    /\ \A a, b \in Weight : Combine(a, b) = Combine(b, a)
    /\ \A a, b, c \in Weight :
          Combine(Combine(a, b), c) = Combine(a, Combine(b, c))

ASSUME ExtendLaws ==
    /\ \A a \in Weight : /\ Extend(a, One) = a /\ Extend(One, a) = a
                         /\ Extend(a, Zero) = Zero /\ Extend(Zero, a) = Zero
    /\ \A a, b, c \in Weight :
          Extend(Extend(a, b), c) = Extend(a, Extend(b, c))

ASSUME Distributes ==
    \A a, b, c \in Weight :
        /\ Extend(a, Combine(b, c)) = Combine(Extend(a, b), Extend(a, c))
        /\ Extend(Combine(a, b), c) = Combine(Extend(a, c), Extend(b, c))

(***************************************************************************)
(* The contract of delta (SemElem.hpp): the difference, combined into the  *)
(* old weight, gives the combination of the two.                           *)
(***************************************************************************)
ASSUME DiffContract ==
    \A w, se \in Weight : Combine(se, Diff(w, se)) = Combine(se, w)
=============================================================================
