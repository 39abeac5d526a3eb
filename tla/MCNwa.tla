-------------------------------- MODULE MCNwa --------------------------------
(* Automata on two states, a letter, a WILD and an EPSILON transition.      *)
EXTENDS NwaSession

CONSTANTS x, y, u, v, dup, a  \* model values

Bare(Q, I, F) == [NoNwa EXCEPT !.states = Q, !.symbols = {a}, !.initial = I, !.final = F]

MCStarts == {Bare({x, y}, {x}, {y}), Bare({x, y}, {x, y}, {y})}
MCCalls == {Edge(x, a, y), Edge(y, WILD, x)}
MCInternals == {Edge(x, a, y), Edge(y, EPSILON, x)}
MCReturns == {Return(y, x, a, y), Return(y, y, a, y), Return(x, x, WILD, y), Return(y, x, WILD, x)}

(* A loop, a call that must return, and one that a word may leave open,    *)
(* with an EPSILON transition on the way to a return that may pend.         *)
MCArgs == {addInternals(Bare({u}, {u}, {u}), {Edge(u, WILD, u)}),
           addReturns(addCalls(Bare({u, v}, {u}, {v}), {Edge(u, a, v)}), {Return(v, u, a, v)}),
           addReturns(addCalls(addInternals(Bare({u, v}, {u}, {v}), {Edge(u, EPSILON, v)}),
                               {Edge(u, WILD, u)}), {Return(v, v, WILD, v)})}
MCAlphabet == {a}
==============================================================================
