----------------------------- MODULE MCPoststar -----------------------------
(* WpdsPoststar on the programs and inputs of MCWpds. *)
EXTENDS WpdsPoststar, MCWpds

CONSTANTS Depth, Cut

UpToThreeRules == RulesFromMenu(3)
SomeInputs == {OneCall, TwoDeep, WithEps, EpsChain}
ProgramInputs == {OneCall}

(* The output before a query: empty, or the output of another program.     *)
NoLeftovers == {EmptyAutomaton}
SomeLeftovers == {[CopyOf(OneCall) EXCEPT !.marked = {}]}
-----------------------------------------------------------------------------
(***************************************************************************)
(* The weight of every configuration of at most Depth symbols, read off    *)
(* the output, is the combination over all the runs of the pushdown system *)
(* that reach it, up to stacks of Cut symbols.                             *)
(***************************************************************************)
AnswersPostStar ==
    pc = "done" =>
        LET out == Accepts(fa, Final, "REVERSE", Depth)
            ref == PostStar(rules, Accepts(input, Final, "REVERSE", Cut), Cut)
        IN  \A c \in Configs(Depth) : out[c] = ref[c]
=============================================================================
