---------------------------- MODULE WpdsPrestar -----------------------------
(***************************************************************************)
(* WPDS::prestar: the worklist procedure that saturates a copy of the      *)
(* input automaton backwards, until it recognises every configuration from *)
(* which the input's can be reached.                                       *)
(*                                                                         *)
(* As in WpdsPoststar the worklist may hand out any marked transition, and *)
(* the rules of a Config and of an r2hash bucket are handled in any order. *)
(***************************************************************************)
EXTENDS Wpds

CONSTANTS
    RuleSets,   \* the rule sets the WPDS may have
    Inputs      \* the automata the query may be given

VARIABLES
    rules,      \* the rules of the WPDS
    input,      \* the automaton the query was given
    fa,         \* the output automaton, with the worklist
    pc,         \* where the query is
    cur,        \* the transition pre() is working on
    dnew,       \* its delta when it was taken off the worklist
    back,       \* the backward rules of its Config still to handle
    calls       \* the rules of r2hash[cur.stk] still to handle

vars == <<rules, input, fa, pc, cur, dnew, back, calls>>

Succ(t, r) == [from |-> r.from, stk |-> r.stk, to |-> t.to]

(* The first of the two transitions a push rule reads: <r.to, r.stk1> to q. *)
Callee(r, q) == [from |-> r.to, stk |-> r.stk1, to |-> q]

(* Mutated form of PushWeight: the two transitions change places. *)
PushWeight_Swapped(r, w1, w2) == Extend(Extend(r.weight, w2), w1)

(* The weight a push rule gives from the weights of the two it reads. *)
PushWeight(r, w1, w2) == Extend(Extend(r.weight, w1), w2)

(* WFA::kpmap[(q, y)]: the transitions that leave q with symbol y. *)
Matching(A, q, y) == {u \in A.trans : u.from = q /\ u.stk = y}

(***************************************************************************)
(* An input with epsilon transitions must be closed under them: pre()      *)
(* looks through one only where a pop rule meets it.                       *)
(***************************************************************************)
EpsilonClosed(in) ==
    \A e, u \in in.trans : e.stk = EPS /\ u.from = e.to =>
        LET k == [from |-> e.from, stk |-> u.stk, to |-> u.to]
        IN  k \in in.trans
            /\ Leq(Extend(in.weight[e], in.weight[u]), in.weight[k])

ASSUME PrestarAssumption ==
    /\ RuleSets \subseteq RuleSet
    /\ \A in \in Inputs : InputOK(in) /\ EpsilonClosed(in)

Init ==
    /\ rules \in RuleSets
    /\ input \in Inputs
    /\ fa = EmptyAutomaton
    /\ pc = "setup"
    /\ cur = NoKey /\ dnew = Zero /\ back = {} /\ calls = {}

(***************************************************************************)
(* prestarSetupFixpoint: setupOutput copies the input, then every pop rule *)
(* <p, y> -> <p2, eps> gives the transition (p, y, p2) its weight.         *)
(***************************************************************************)
Setup ==
    /\ pc = "setup"
    /\ LET pops == {r \in rules : IsPop(r)}
           keyOf(r) == [from |-> r.from, stk |-> r.stk, to |-> r.to]
           ruleOf(k) == CHOOSE r \in pops : keyOf(r) = k
       IN  fa' = Update(CopyOf(input),
                        [k \in {keyOf(r) : r \in pops} |-> ruleOf(k).weight])
    /\ pc' = "saturate"
    /\ UNCHANGED <<rules, input, cur, dnew, back, calls>>

(* pre() up to its loops. *)
Pop ==
    /\ pc = "saturate" /\ back = {} /\ calls = {}
    /\ \E t \in fa.marked :
          /\ cur' = t
          /\ dnew' = fa.delta[t]
          /\ fa' = Take(fa, t)
          /\ back' = BackwardRules(rules, t.from, t.stk)
          /\ calls' = CallRules(rules, t.stk)
    /\ UNCHANGED <<rules, input, pc>>

(* prestar_handle_trans for a rule that does not push. *)
HandleRule ==
    /\ pc = "saturate"
    /\ \E r \in back :
          /\ ~ IsPush(r)
          /\ fa' = Update(fa, At(Succ(cur, r), Extend(r.weight, dnew)))
          /\ back' = back \ {r}
    /\ UNCHANGED <<rules, input, pc, cur, dnew, calls>>

(***************************************************************************)
(* prestar_handle_trans for a push rule whose first right-hand symbol the  *)
(* popped transition reads: every transition that reads the second symbol  *)
(* after it gives an update.  The updates differ in their target, and one  *)
(* that changes a transition of the list it comes from changes the one it  *)
(* was made from, so the loop is one batch.                                *)
(***************************************************************************)
HandlePushFirst ==
    /\ pc = "saturate"
    /\ \E r \in back :
          LET second == Matching(fa, cur.to, r.stk2)
              via(k) == CHOOSE u \in second : u.to = k.to
          IN  /\ IsPush(r)
              /\ fa' = Update(fa, [k \in {Succ(u, r) : u \in second} |->
                          PushWeight(r, dnew, fa.weight[via(k)])])
              /\ back' = back \ {r}
    /\ UNCHANGED <<rules, input, pc, cur, dnew, calls>>

(***************************************************************************)
(* The second loop of pre(), and prestar_handle_call: the popped           *)
(* transition reads the second symbol of a push rule, and find() tells     *)
(* whether the automaton has the transition that reads the first.          *)
(***************************************************************************)
HandlePushSecond ==
    /\ pc = "saturate" /\ back = {}
    /\ \E r \in calls :
          LET tp == Callee(r, cur.from)
          IN  /\ fa' = IF tp \in fa.trans
                       THEN Update(fa, At(Succ(cur, r),
                                PushWeight(r, fa.weight[tp], dnew)))
                       ELSE fa
              /\ calls' = calls \ {r}
    /\ UNCHANGED <<rules, input, pc, cur, dnew, back>>

(* The worklist is empty: prestar returns. *)
Finish ==
    /\ pc = "saturate" /\ back = {} /\ calls = {} /\ fa.marked = {}
    /\ pc' = "done"
    /\ cur' = NoKey /\ dnew' = Zero
    /\ UNCHANGED <<rules, input, fa, back, calls>>

Next == Setup \/ Pop \/ HandleRule \/ HandlePushFirst \/ HandlePushSecond \/ Finish

(* The query is a sequential loop: it goes on as long as it can take a step. *)
Spec == Init /\ [][Next]_vars /\ WF_vars(Next)
-----------------------------------------------------------------------------
TypeOK ==
    /\ rules \in RuleSet
    /\ IsInput(input)
    /\ IsAutomaton(fa)
    /\ pc \in {"setup", "saturate", "done"}
    /\ cur \in Key \cup {NoKey}
    /\ dnew \in Weight
    /\ back \in SUBSET rules /\ calls \in SUBSET rules

(***************************************************************************)
(* What the rules ask of an automaton S: a pop rule its transition, a step *)
(* rule the predecessor of every transition it matches, a push rule the    *)
(* predecessor of every pair of transitions that read its two symbols.     *)
(***************************************************************************)
ClosedUnderPops(S) ==
    \A r \in rules : IsPop(r) =>
        LET k == [from |-> r.from, stk |-> r.stk, to |-> r.to]
        IN  k \in S.trans /\ Leq(r.weight, S.weight[k])

ClosedUnderSteps(S) ==
    \A r \in rules, t \in S.trans :
        ~ IsPush(r) /\ t.from = r.to /\ t.stk = r.stk1 =>
            /\ Succ(t, r) \in S.trans
            /\ Leq(Extend(r.weight, S.weight[t]), S.weight[Succ(t, r)])

ClosedUnderPushes(S) ==
    \A r \in rules, t, u \in S.trans :
        IsPush(r) /\ t = Callee(r, u.from) /\ u.stk = r.stk2 =>
            /\ Succ(u, r) \in S.trans
            /\ Leq(Extend(Extend(r.weight, S.weight[t]), S.weight[u]),
                   S.weight[Succ(u, r)])

Solution(S) == /\ ClosedUnderPops(S)
               /\ ClosedUnderSteps(S)
               /\ ClosedUnderPushes(S)
               /\ Covers(S, input)

(***************************************************************************)
(* When prestar returns, its output solves the saturation equations.  A    *)
(* push rule reads two transitions, which may come, and grow, in any order *)
(* and while one of them is being handled.                                 *)
(***************************************************************************)
SaturatedWhenDone == pc = "done" => Solution(fa)

(***************************************************************************)
(* No lost update: a transition that has a weight no rule has seen yet is  *)
(* on the worklist.                                                        *)
(***************************************************************************)
NoLostUpdate ==
    \A k \in fa.trans : k \in fa.marked \/ fa.delta[k] = Zero

(* Weights only grow and transitions never disappear. *)
Grows == /\ fa.trans \subseteq fa'.trans
         /\ \A k \in fa.trans : Leq(fa.weight[k], fa'.weight[k])
Monotone == [][Grows]_vars

(* The query returns: the worklist runs dry. *)
QueryReturns == <>(pc = "done")
=============================================================================
