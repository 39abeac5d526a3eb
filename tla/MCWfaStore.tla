----------------------------- MODULE MCWfaStore -----------------------------
(* Automata on three states: a loop, an EPS transition, a weightless one. *)
EXTENDS WfaStore, RelationDomain

CONSTANTS s0, s1, s2, s3, a, b  \* model values

MCStates == {s0, s1, s2, s3}
MCStack == {a, b}

Add(from, stk, to, w) == [trans |-> [from |-> from, stk |-> stk, to |-> to], weight |-> w]

(* A self-loop of s0 and a way out of it, an EPS way back, another way out *)
(* that may be weightless, a dead end.                                     *)
MCAdds == {Add(s0, a, s0, Set0), Add(s0, b, s1, Set1), Add(s1, EPS, s0, Flip),
           Add(s1, EPS, s2, RelZero), Add(s1, EPS, s2, RelOne), Add(s0, a, s2, Set0),
           Add(s1, b, s3, Set1)}
MCFinals == {s1, s2}
MCInitials == {s0, s1}
MCFilters == {{a}, {b}}
=============================================================================
