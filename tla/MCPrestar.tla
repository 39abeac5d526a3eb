------------------------------ MODULE MCPrestar -----------------------------
(* WpdsPrestar on the programs and inputs of MCWpds. *)
EXTENDS WpdsPrestar, MCWpds

CONSTANTS Depth, Cut

MCRuleSets == RulesFromMenu(2) \cup Programs
MCInputs == {OneCall, TwoDeep, Looping, ClosedEps}
-----------------------------------------------------------------------------
(***************************************************************************)
(* The weight of every configuration of at most Depth symbols, read off    *)
(* the output, is the combination over all the runs of the pushdown system *)
(* from it into the input, up to stacks of Cut symbols.                    *)
(***************************************************************************)
AnswersPreStar ==
    pc = "done" =>
        LET out == Accepts(fa, Final, "INORDER", Depth)
            ref == PreStar(rules, Accepts(input, Final, "INORDER", Cut), Cut)
        IN  \A c \in Configs(Depth) : out[c] = ref[c]
=============================================================================
