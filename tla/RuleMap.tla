------------------------------ MODULE RuleMap -------------------------------
(***************************************************************************)
(* What the rule database of a WPDS promises its client: a map from rules  *)
(* to weights.  Adding a rule again combines the weights, replacing it     *)
(* sets the weight, erasing it forgets it.                                 *)
(***************************************************************************)
EXTENDS Semiring

CONSTANT RuleId     \* the rules there may be, without their weight

VARIABLE weightOf   \* the weight of every rule the database holds

Put(r, w) == weightOf' = [x \in DOMAIN weightOf \cup {r} |->
                             IF x = r THEN w ELSE weightOf[x]]

Init == weightOf = <<>>

Add(r, w) == Put(r, IF r \in DOMAIN weightOf THEN Combine(weightOf[r], w) ELSE w)
Replace(r, w) == Put(r, w)
Erase(r) == /\ r \in DOMAIN weightOf
            /\ weightOf' = [x \in DOMAIN weightOf \ {r} |-> weightOf[x]]
Clear == weightOf' = <<>>

Next == \/ \E r \in RuleId, w \in Weight : Add(r, w) \/ Replace(r, w)
        \/ \E r \in RuleId : Erase(r)
        \/ Clear

Spec == Init /\ [][Next]_weightOf
=============================================================================
