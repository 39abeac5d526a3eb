-------------------------------- MODULE Wpds --------------------------------
(***************************************************************************)
(* What the two reachability queries of a WPDS share: its rules, seen      *)
(* through the indexes the queries walk, and the automata it is given.     *)
(***************************************************************************)
EXTENDS Wfa

(***************************************************************************)
(* A rule <from, stk> -> <to, stk1 stk2> with its weight.  Rule 0 has no   *)
(* right-hand symbol, rule 1 has one, rule 2 (a push) has two.             *)
(***************************************************************************)
Rule == {r \in [from : P, stk : Stack, to : P, stk1 : Symbol, stk2 : Symbol,
                weight : Weight] : r.stk1 = EPS => r.stk2 = EPS}

IsPush(r) == r.stk2 # EPS
IsPop(r) == r.stk1 = EPS

(* make_rule keeps one rule for each pair of Configs and second symbol. *)
SameRule(r, s) == r.from = s.from /\ r.stk = s.stk /\ r.to = s.to
                  /\ r.stk1 = s.stk1 /\ r.stk2 = s.stk2
RuleSet == {rs \in SUBSET Rule : \A r, s \in rs : SameRule(r, s) => r = s}

(* Mutated form of CallRules: r2hash finds nothing. *)
CallRules_Empty(rs, y) == {}

(* The forward and the backward list of the Config (p, y), and r2hash[y]. *)
ForwardRules(rs, p, y) == {r \in rs : r.from = p /\ r.stk = y}
BackwardRules(rs, p, y) == {r \in rs : r.to = p /\ r.stk1 = y}
CallRules(rs, y) == {r \in rs : IsPush(r) /\ r.stk2 = y}

(* An automaton as a client hands it over, with its generation. *)
IsInput(in) == /\ in = [trans |-> in.trans, weight |-> in.weight, gen |-> in.gen]
               /\ in.trans \subseteq Key
               /\ in.weight \in [in.trans -> Weight]
               /\ in.gen \in Generation

(***************************************************************************)
(* What a query asks of its input: at least one transition, none into a    *)
(* control state (the error of WPDS::operator()), and none out of a state  *)
(* of a generation the automaton's counter has not reached.                *)
(***************************************************************************)
InputOK(in) ==
    /\ IsInput(in)
    /\ in.trans # {}
    /\ \A k \in in.trans : /\ k.to \notin P
                           /\ k.from \in GenState => k.from.gen <= in.gen

(* Epsilon transitions leave control states only. *)
EpsilonFromControl(in) == \A k \in in.trans : k.stk = EPS => k.from \in P

NoKey == [from |-> EPS, stk |-> EPS, to |-> EPS]

(* S has the transitions and at least the weights of in. *)
Covers(S, in) == /\ in.trans \subseteq S.trans
                 /\ \A k \in in.trans : Leq(in.weight[k], S.weight[k])
=============================================================================
