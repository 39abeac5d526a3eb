---------------------------- MODULE WpdsPoststar ----------------------------
(***************************************************************************)
(* WPDS::poststar: the worklist procedure that saturates a copy of the     *)
(* input automaton with the rules of a weighted pushdown system, until it  *)
(* recognises every configuration reachable from the input's.              *)
(*                                                                         *)
(* One behaviour is a session of a client that calls poststar on a WPDS,   *)
(* then possibly again on the automaton it got back.  The worklist is any  *)
(* subclass of wali::Worklist: which marked transition get() hands out is  *)
(* left open, and so is the order of the rules in a Config.                *)
(***************************************************************************)
EXTENDS Wpds

CONSTANTS
    RuleSets,   \* the rule sets a session may have
    Inputs,     \* the automata the first query may be given
    Leftovers   \* what the output automaton may hold before the query

VARIABLES
    rules,      \* the rules of the WPDS
    caller,     \* who called poststar: the client, or constructCFG
    input,      \* the automaton the current query was given
    fa,         \* the output automaton, with the worklist
    gen,        \* fa.getGeneration()
    quasi,      \* State::quasi of the generated states
    pc,         \* where the query is
    cur,        \* the transition post() is working on
    dnew,       \* its delta when it was taken off the worklist
    todo        \* the forward rules of its Config still to handle

vars == <<rules, caller, input, fa, gen, quasi, pc, cur, dnew, todo>>

ASSUME PoststarAssumption ==
    /\ RuleSets \subseteq RuleSet
    /\ \A in \in Inputs : /\ InputOK(in)
                          /\ \A k \in in.trans : k.to \in GenState => k.to.gen <= in.gen
    /\ \A A \in Leftovers : IsAutomaton(A)

(* Mutated forms: one generated state per control state; no new generation; *)
(* the generation is not raised while constructCFG names its states.        *)
gen_state_NoSymbol(g, s, y) == [gen |-> g, state |-> s, stk |-> CHOOSE z \in Stack : TRUE]
NextGeneration_Same(in) == IF in.gen = 0 THEN 1 ELSE in.gen
CfgGeneration_NotRaised == 0

gen_state(g, s, y) == [gen |-> g, state |-> s, stk |-> y]
NextGeneration(in) == in.gen + 1

NoInput == [trans |-> {}, weight |-> <<>>, gen |-> 0]

Init ==
    /\ rules \in RuleSets
    /\ caller = "client" /\ input = NoInput
    /\ fa \in Leftovers
    /\ gen = 0
    /\ quasi = [g \in GenState |-> Zero]
    /\ pc = "idle"
    /\ cur = NoKey /\ dnew = Zero /\ todo = {}

(* The client calls poststar on an automaton of its own. *)
CallPoststar ==
    /\ pc = "idle"
    /\ caller' = "client" /\ input' \in {in \in Inputs : in.gen < MaxGeneration}
    /\ pc' = "setup"
    /\ UNCHANGED <<rules, fa, gen, quasi, cur, dnew, todo>>

(***************************************************************************)
(* constructCFG, for a pushdown system with one control state: poststar is *)
(* called on the automaton that enters every entry point, the ones named   *)
(* by the caller and those of the push rules, by way of the state poststar *)
(* would generate for it.  The generation of the automaton, 0, is raised   *)
(* while the states are named, and lowered again before the query.         *)
(***************************************************************************)
ControlStates(rs) == {r.from : r \in rs} \cup {r.to : r \in rs}
EntryPoints(rs, entries) == entries \cup {r.stk1 : r \in {x \in rs : IsPush(x)}}

CfgGeneration == 1

ConstructCFG ==
    /\ pc = "idle" /\ MaxGeneration > 0
    /\ \E s \in P, entries \in SUBSET Stack :
          LET keys == {[from |-> s, stk |-> e, to |-> gen_state(CfgGeneration, s, e)] :
                          e \in EntryPoints(rules, entries)}
          IN  /\ ControlStates(rules) = {s}
              /\ keys # {}
              /\ input' = [trans |-> keys, weight |-> [k \in keys |-> One], gen |-> 0]
    /\ caller' = "constructCFG"
    /\ pc' = "setup"
    /\ UNCHANGED <<rules, fa, gen, quasi, cur, dnew, todo>>

(***************************************************************************)
(* poststarSetupFixpoint and setupOutput: the output is cleared, the input *)
(* is copied into it, its generation becomes the input's plus one, and a   *)
(* state with quasi zero is generated for every push rule.                 *)
(***************************************************************************)
Setup ==
    /\ pc = "setup"
    /\ fa' = CopyOf(input)
    /\ gen' = NextGeneration(input)
    /\ quasi' = [g \in GenState |-> Zero]
    /\ pc' = "saturate"
    /\ UNCHANGED <<rules, caller, input, cur, dnew, todo>>

(* post() up to its loop, for a transition whose symbol is not epsilon. *)
PopTransition ==
    /\ pc = "saturate" /\ todo = {}
    /\ \E t \in fa.marked :
          /\ t.stk # EPS
          /\ cur' = t
          /\ dnew' = fa.delta[t]
          /\ fa' = Take(fa, t)
          /\ todo' = ForwardRules(rules, t.from, t.stk)
    /\ UNCHANGED <<rules, caller, input, gen, quasi, pc>>

(***************************************************************************)
(* post() on an epsilon transition: poststar_handle_eps_trans for every    *)
(* transition that leaves its target.  The new transitions differ from     *)
(* each other in symbol or target, so the loop is one batch of updates.    *)
(***************************************************************************)
PopEpsilon ==
    /\ pc = "saturate" /\ todo = {}
    /\ \E t \in fa.marked :
          LET A == Take(fa, t)
              k(u) == [from |-> t.from, stk |-> u.stk, to |-> u.to]
              via(x) == [x EXCEPT !.from = t.to]
          IN  /\ t.stk = EPS
              /\ fa' = Update(A, [x \in {k(u) : u \in Leaving(A, t.to)} |->
                                     Extend(A.weight[via(x)], fa.delta[t])])
    /\ UNCHANGED <<rules, caller, input, gen, quasi, pc, cur, dnew, todo>>

(* poststar_handle_trans for a rule that does not push. *)
HandleRule ==
    /\ pc = "saturate"
    /\ \E r \in todo :
          LET k == [from |-> r.to, stk |-> r.stk1, to |-> cur.to]
          IN  /\ ~ IsPush(r)
              /\ fa' = Update(fa, At(k, ExtendAndDiff(dnew, r.weight, W(fa, k))))
              /\ todo' = todo \ {r}
    /\ UNCHANGED <<rules, caller, input, gen, quasi, pc, cur, dnew>>

(***************************************************************************)
(* poststar_handle_trans for a push rule: the transition that leaves the   *)
(* generated state (update_prime, no worklist), the transition into it,    *)
(* then, when the first was modified, its epsilon closure.                 *)
(***************************************************************************)
HandlePush ==
    /\ pc = "saturate"
    /\ \E r \in todo :
          LET g    == gen_state(gen, r.to, r.stk1)
              mid  == [from |-> g, stk |-> r.stk2, to |-> cur.to]
              wmid == ExtendAndDiff(dnew, r.weight, W(fa, mid))
              qone == Combine(quasi[g], One)
              call == [from |-> r.to, stk |-> r.stk1, to |-> g]
              A1   == Insert(fa, At(mid, wmid))
              A2   == Update(A1, At(call, qone))
              eps(x) == [from |-> x.from, stk |-> EPS, to |-> g]
              closed == [x \in {[mid EXCEPT !.from = e.from] : e \in EpsInto(A2, g)}
                           |-> Extend(A2.delta[mid], A2.weight[eps(x)])]
          IN  /\ IsPush(r)
              /\ quasi' = [quasi EXCEPT ![g] = qone]
              /\ fa' = IF Modified(fa, mid, wmid) THEN Update(A2, closed) ELSE A2
              /\ todo' = todo \ {r}
    /\ UNCHANGED <<rules, caller, input, gen, pc, cur, dnew>>

(* The worklist is empty: poststar returns. *)
Finish ==
    /\ pc = "saturate" /\ todo = {} /\ fa.marked = {}
    /\ pc' = "done"
    /\ cur' = NoKey /\ dnew' = Zero
    /\ UNCHANGED <<rules, caller, input, fa, gen, quasi, todo>>

(* The client queries again, from the automaton it got (input == output). *)
QueryAgain ==
    /\ pc = "done" /\ gen < MaxGeneration
    /\ caller' = "client"
    /\ input' = [trans |-> fa.trans, weight |-> fa.weight, gen |-> gen]
    /\ pc' = "setup"
    /\ UNCHANGED <<rules, fa, gen, quasi, cur, dnew, todo>>

Query ==
    Setup \/ PopTransition \/ PopEpsilon \/ HandleRule \/ HandlePush \/ Finish
Client == CallPoststar \/ ConstructCFG \/ QueryAgain
Next == Client \/ Query

(* A query is a sequential loop: it goes on as long as it can take a step. *)
Spec == Init /\ [][Next]_vars /\ WF_vars(Query)
-----------------------------------------------------------------------------
TypeOK ==
    /\ rules \in RuleSet
    /\ caller \in {"client", "constructCFG"} /\ IsInput(input)
    /\ IsAutomaton(fa)
    /\ gen \in Generation
    /\ quasi \in [GenState -> Weight]
    /\ pc \in {"idle", "setup", "saturate", "done"}
    /\ cur \in Key \cup {NoKey}
    /\ dnew \in Weight
    /\ todo \in SUBSET rules

(***************************************************************************)
(* What the rules ask of an automaton S: the transitions a transition t    *)
(* and a rule r, or an epsilon transition e and a transition u behind it,  *)
(* must come with, and how large their weights must be.                    *)
(***************************************************************************)
Succ(t, r) == [from |-> r.to, stk |-> r.stk1, to |-> t.to]
Mid(t, r)  == [from |-> gen_state(gen, r.to, r.stk1), stk |-> r.stk2, to |-> t.to]
Call(r)    == [from |-> r.to, stk |-> r.stk1, to |-> gen_state(gen, r.to, r.stk1)]
Bypass(e, u) == [from |-> e.from, stk |-> u.stk, to |-> u.to]

RuleTarget(t, r) == IF IsPush(r) THEN Mid(t, r) ELSE Succ(t, r)

ClosedUnderRules(S) ==
    \A t \in S.trans : t.stk # EPS =>
        \A r \in ForwardRules(rules, t.from, t.stk) :
            /\ RuleTarget(t, r) \in S.trans
            /\ Leq(Extend(S.weight[t], r.weight), S.weight[RuleTarget(t, r)])
            /\ IsPush(r) => Call(r) \in S.trans /\ Leq(One, S.weight[Call(r)])

ClosedUnderEpsilon(S) ==
    \A e \in S.trans : e.stk = EPS =>
        \A u \in Leaving(S, e.to) :
            /\ Bypass(e, u) \in S.trans
            /\ Leq(Extend(S.weight[u], S.weight[e]), S.weight[Bypass(e, u)])

Solution(S) ==
    ClosedUnderRules(S) /\ ClosedUnderEpsilon(S) /\ Covers(S, input)

(***************************************************************************)
(* When poststar returns, its output solves the saturation equations: no   *)
(* rule, epsilon closure or weight was forgotten, whatever the order in    *)
(* which the worklist handed out transitions.                              *)
(***************************************************************************)
SaturatedWhenDone == pc = "done" => Solution(fa)

(***************************************************************************)
(* No lost update: whatever weight a transition gained since it was last   *)
(* handled (its delta), the transition is on the worklist, unless it       *)
(* leaves a state generated by this query, which no rule matches.          *)
(***************************************************************************)
OfThisQuery(q) == q \in GenState /\ q.gen = gen
NoLostUpdate ==
    pc \in {"saturate", "done"} =>
        \A k \in fa.trans : \/ OfThisQuery(k.from)
                            \/ k \in fa.marked
                            \/ fa.delta[k] = Zero

(***************************************************************************)
(* The states a query generates are new to it: its input holds no          *)
(* transition out of one, even when the input is the output of an earlier  *)
(* query, so the transitions out of one are all calls of this query.       *)
(***************************************************************************)
GeneratedStatesAreFresh ==
    pc \in {"saturate", "done"} => \A k \in input.trans : ~ OfThisQuery(k.from)

(***************************************************************************)
(* constructCFG: the input already has the state of every entry point, "so *)
(* that new mid-states are not created while running poststar".            *)
(***************************************************************************)
CfgAddsNoStates ==
    caller = "constructCFG" /\ pc \in {"saturate", "done"} =>
        {k.to : k \in fa.trans} \subseteq {k.to : k \in input.trans}

(***************************************************************************)
(* Within a query weights only grow and transitions never disappear.       *)
(***************************************************************************)
Grows == /\ fa.trans \subseteq fa'.trans
         /\ \A k \in fa.trans : Leq(fa.weight[k], fa'.weight[k])
MonotoneWithinQuery == [][pc = "saturate" => Grows]_vars

(* Every query returns: the worklist runs dry. *)
EveryQueryReturns == (pc = "setup") ~> (pc = "done")
-----------------------------------------------------------------------------
(***************************************************************************)
(* The inductive invariant of poststar, for inputs whose epsilon           *)
(* transitions leave control states: what the output automaton owes at     *)
(* every point of the saturation, and which delta will pay for it.  The    *)
(* parts speak of an automaton A, for the states between two updates of    *)
(* one step, and of a job, the transition being handled.                   *)
(***************************************************************************)
Job == [cur |-> cur, dnew |-> dnew, todo |-> todo]

(***************************************************************************)
(* Transitions lead out of the control states, epsilon ones leave them,    *)
(* and none leaves a state of a generation to come.                        *)
(***************************************************************************)
Shaped(k) == /\ k.to \notin P
             /\ k.stk = EPS => k.from \in P
             /\ k.from \in GenState => k.from.gen <= gen

(***************************************************************************)
(* A transition out of a state of this query waits for no worklist: its    *)
(* delta is its whole weight, ready for any epsilon transition to come.    *)
(* For any other transition a delta means a place on the worklist.         *)
(***************************************************************************)
DeltaKept(A, k) ==
    IF OfThisQuery(k.from) THEN k \notin A.marked /\ D(A, k) = W(A, k)
    ELSE k \in A.marked \/ D(A, k) = Zero

(* The weight of t that rule r has not been applied to. *)
Pending(A, job, t, r) ==
    IF t = job.cur /\ r \in job.todo THEN Combine(D(A, t), job.dnew) ELSE D(A, t)

(***************************************************************************)
(* What rule r owes for t: the transitions it leads to are there, once t   *)
(* has been handled, and only what is pending is missing of their weight.  *)
(***************************************************************************)
RuleThere(A, t, r) ==
    /\ RuleTarget(t, r) \in A.trans
    /\ IsPush(r) => Call(r) \in A.trans /\ Leq(One, W(A, Call(r)))
RuleOwes(A, job, t, r) ==
    /\ \/ t \in A.marked
       \/ t = job.cur /\ r \in job.todo
       \/ RuleThere(A, t, r)
    /\ Leq(Extend(W(A, t), r.weight),
           Combine(W(A, RuleTarget(t, r)), Extend(Pending(A, job, t, r), r.weight)))
RulesPaid(A, job) ==
    \A t \in A.trans : t.stk # EPS =>
        \A r \in ForwardRules(rules, t.from, t.stk) : RuleOwes(A, job, t, r)

(* The same for an epsilon transition e and a transition u out of its target. *)
EpsOwes(A, e, u) ==
    /\ e \in A.marked \/ Bypass(e, u) \in A.trans
    /\ Leq(Extend(W(A, u), W(A, e)),
           Combine(W(A, Bypass(e, u)), Extend(W(A, u), D(A, e))))
EpsPaid(A) ==
    \A e \in A.trans : e.stk = EPS => \A u \in Leaving(A, e.to) : EpsOwes(A, e, u)

(* Everything the saturation keeps true of the automaton. *)
FaInv(A) == /\ IsAutomaton(A)
            /\ A.trans # {}
            /\ \A k \in A.trans : Shaped(k) /\ DeltaKept(A, k)
            /\ Covers(A, input)

(* The input a query will start from, or has started from. *)
InputReady ==
    /\ pc = "setup" => /\ InputOK(input) /\ EpsilonFromControl(input)
                       /\ input.gen < MaxGeneration
    /\ pc \in {"saturate", "done"} => InputOK(input) /\ gen = input.gen + 1

(* The rules still to handle are rules of the transition being handled. *)
TodoOK ==
    /\ todo # {} => /\ pc = "saturate"
                    /\ cur \in fa.trans /\ cur.stk # EPS
                    /\ todo \subseteq ForwardRules(rules, cur.from, cur.stk)
    /\ pc = "done" => fa.marked = {}

IInv ==
    /\ TypeOK /\ InputReady /\ TodoOK
    /\ pc \in {"saturate", "done"} => FaInv(fa) /\ RulesPaid(fa, Job) /\ EpsPaid(fa)

(***************************************************************************)
(* For constructCFG: its input is of generation 0 and names the state that *)
(* every push rule generates in the query, of generation 1.                *)
(***************************************************************************)
Targets(T) == {k.to : k \in T}

NamesEntries(in) ==
    /\ in.gen = 0
    /\ \A r \in rules : IsPush(r) => gen_state(1, r.to, r.stk1) \in Targets(in.trans)

(* The worklist holds transitions of the automaton. *)
WorklistOK(A) ==
    /\ A = [trans |-> A.trans, weight |-> A.weight, delta |-> A.delta, marked |-> A.marked]
    /\ A.marked \subseteq A.trans

CfgInv ==
    /\ WorklistOK(fa)
    /\ todo \subseteq rules
    /\ todo # {} => pc = "saturate" /\ cur \in fa.trans
    /\ caller = "constructCFG" => NamesEntries(input)
    /\ pc \in {"saturate", "done"} =>
          /\ gen = input.gen + 1
          /\ caller = "constructCFG" => Targets(fa.trans) \subseteq Targets(input.trans)
=============================================================================
