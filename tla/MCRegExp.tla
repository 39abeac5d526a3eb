------------------------------ MODULE MCRegExp ------------------------------
(* Small expressions for TLC. *)
EXTENDS RegExp, RelationDomain

MCLabel == {Flip}
MCGrown == {Set1}
=============================================================================
