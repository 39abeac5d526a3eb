-------------------------------- MODULE Tables -------------------------------
(***************************************************************************)
(* What the stores of a WPDS and of a WFA have in common: the symbols they *)
(* are keyed by, and maps that grow and shrink.                            *)
(***************************************************************************)
CONSTANTS
    Stack,      \* the stack alphabet
    EPS         \* WALI_EPSILON

Symbol == Stack \cup {EPS}

ASSUME EpsilonAssumption == EPS \notin Stack

(* f on a larger domain, d where it was not defined; f on a smaller one. *)
Extended(f, S, d) == [x \in DOMAIN f \cup S |-> IF x \in DOMAIN f THEN f[x] ELSE d]
Without(f, S) == [x \in DOMAIN f \ S |-> f[x]]
=============================================================================
