------------------------------ MODULE EwpdsInv ------------------------------
(***************************************************************************)
(* The inductive invariant of an EWPDS session, in four parts, each with   *)
(* the help of those before it: the shape of the automaton and its ETrans, *)
(* what merge_rule_hash knows of the rules, what poststar still owes, and  *)
(* what prestar still owes.  As in WpdsPoststar a part speaks of an        *)
(* automaton A and of its ETrans c, for the states between two updates.    *)
(***************************************************************************)
EXTENDS Ewpds

Job == [cur |-> cur, dnew |-> dnew, todo |-> todo, calls |-> calls]
OfThisQuery(q) == q \in GenState /\ q.gen = gen

(* What is asked of a client's automata: epsilon only leaves control states. *)
AllFromControl == \A in \in Inputs : EpsilonFromControl(in)
EpsKeptOut(S) == AllFromControl => \A k \in S : k.stk = EPS => k.from \in P
-----------------------------------------------------------------------------
(***************************************************************************)
(* An ETrans out of a control state is a summary, into a control state;    *)
(* any other was made by a poststar, at a call.                            *)
(***************************************************************************)
ShapedOf(k, c) ==
    /\ k.to \in P => k.from \in P /\ query = "pre"
    /\ k.from \in GenState => k.from.gen <= gen
    /\ k.from \in P => (k \in DOMAIN c <=> k.to \in P)
    /\ k.from \notin P /\ k \in DOMAIN c =>
          c[k].merge \in Merge /\ (query = "pre" => DOMAIN input.call # {})
ShapeOf(A, c) == EpsKeptOut(A.trans) /\ \A k \in A.trans : ShapedOf(k, c)

InputReady ==
    /\ query = "none" <=> input = NoInput
    /\ query # "none" =>
          /\ InputOK([trans |-> input.trans, weight |-> input.weight, gen |-> input.gen])
          /\ input.gen < MaxGeneration
          /\ EpsKeptOut(input.trans)
          /\ \A k \in DOMAIN input.call : k.from \notin P /\ input.call[k].merge \in Merge

PhaseOK ==
    /\ pc = "idle" => query = "none"
    /\ pc \in {"setup", "saturate", "done"} => query # "none"
    /\ pc \in {"saturate", "done"} => gen = input.gen + 1
    /\ pc = "aborted" /\ query = "pre" => DOMAIN input.call # {}
    /\ pc = "done" => fa.marked = {}
    /\ todo # {} \/ calls # {} =>
          /\ pc \in {"saturate", "aborted"}
          /\ cur \in fa.trans
          /\ query = "post" => /\ cur.stk # EPS /\ calls = {}
                               /\ todo \subseteq ForwardRules(rules, cur.from, cur.stk)
          /\ query = "pre" => /\ todo \subseteq BackwardRules(rules, cur.from, cur.stk)
                              /\ calls \subseteq CallRules(rules, cur.stk)

ShapeInv ==
    /\ TypeOK /\ InputReady /\ PhaseOK
    /\ pc \in {"saturate", "done"} => ShapeOf(fa, call)
-----------------------------------------------------------------------------
(***************************************************************************)
(* merge_rule_hash holds, for each right-hand side it knows, a push rule   *)
(* with that right-hand side (or one that was erased), and the merge       *)
(* function of all of them, unless one was added twice.                    *)
(***************************************************************************)
HashInv ==
    /\ \A x \in DOMAIN mergeHash :
          /\ mergeHash[x] = [rule |-> mergeHash[x].rule, merge |-> mergeHash[x].merge]
          /\ \/ mergeHash[x].rule = NoRule
             \/ mergeHash[x].rule.stk2 # EPS /\ Rhs(mergeHash[x].rule) = x
    /\ pc # "aborted" =>
          \A r \in rules : IsPush(r) /\ Rhs(r) \notin readded =>
              mergeHash[Rhs(r)].merge = r.merge
-----------------------------------------------------------------------------
(***************************************************************************)
(* poststar.  What a transition gained since it was handled is its delta,  *)
(* and it waits on the worklist, unless it leaves a state of this query:   *)
(* its delta is then its whole weight.                                     *)
(***************************************************************************)
DeltaKept(A, k) ==
    IF OfThisQuery(k.from) THEN k \notin A.marked /\ D(A, k) = W(A, k)
    ELSE k \in A.marked \/ D(A, k) = Zero

Holds(A) == /\ input.trans \subseteq A.trans
            /\ \A k \in input.trans : Leq(input.weight[k], W(A, k))

(***************************************************************************)
(* A transition out of a state of this query is an ETrans, with the merge  *)
(* function of a rule that leads to it; its weight after the call is that  *)
(* at the call extended by the weight of the rule, if one weight is all    *)
(* there is.                                                               *)
(***************************************************************************)
LeadsTo(r, k) == /\ IsPush(r) /\ r.stk2 = k.stk
                 /\ k.from = gen_state(gen, r.to, r.stk1)
MadeBy(s, A, c, k) ==
    /\ LeadsTo(s, k)
    /\ c[k].merge = s.merge
    /\ (\A x \in rules : LeadsTo(x, k) => x.weight = s.weight) =>
          W(A, k) = Extend(c[k].at, s.weight)
CallKept(A, c, k) ==
    OfThisQuery(k.from) => k \in DOMAIN c /\ \E s \in rules : MadeBy(s, A, c, k)

PostFaInv(A, c) ==
    /\ IsAutomaton(A) /\ CallOf(A.trans, c)
    /\ ShapeOf(A, c) /\ Holds(A)
    /\ \A k \in A.trans : DeltaKept(A, k) /\ CallKept(A, c, k)

(* The weight of t that rule r has not been applied to. *)
Pending(A, job, t, r) ==
    IF t = job.cur /\ r \in job.todo THEN Combine(D(A, t), job.dnew) ELSE D(A, t)

(* What rule r owes for t, the weight at the call included. *)
AtCall(c, k) == IF k \in DOMAIN c THEN c[k].at ELSE Zero
Entry(r) == Callee(r, gen_state(gen, r.to, r.stk1))
RuleTarget(t, r) == IF IsPush(r) THEN Mid(t, r) ELSE Callee(r, t.to)
RuleThere(A, t, r) ==
    /\ RuleTarget(t, r) \in A.trans
    /\ IsPush(r) => Entry(r) \in A.trans /\ Leq(One, W(A, Entry(r)))
RuleOwes(A, c, job, t, r) ==
    /\ \/ t \in A.marked
       \/ t = job.cur /\ r \in job.todo
       \/ RuleThere(A, t, r)
    /\ Leq(Extend(W(A, t), r.weight),
           Combine(W(A, RuleTarget(t, r)), Extend(Pending(A, job, t, r), r.weight)))
    /\ IsPush(r) => Leq(W(A, t), Combine(AtCall(c, Mid(t, r)), Pending(A, job, t, r)))
RulesPaid(A, c, job) ==
    \A t \in A.trans : \A r \in ForwardRules(rules, t.from, t.stk) :
        RuleOwes(A, c, job, t, r)

(* The same for an epsilon transition e and a transition u out of its target. *)
Bypass(e, u) == [from |-> e.from, stk |-> u.stk, to |-> u.to]
Through(A, c, u, w) == poststar_eps_closure(A, c, u, w)
Hides(u) == \E r \in rules : LeadsTo(r, u) /\ Hiding(r)
EpsOwes(A, c, e, u) ==
    /\ e \in A.marked \/ Bypass(e, u) \in A.trans
    /\ ~ Hides(u) =>
          Leq(Through(A, c, u, W(A, e)),
              Combine(W(A, Bypass(e, u)), Through(A, c, u, D(A, e))))
EpsPaid(A, c) ==
    \A e \in A.trans : e.stk = EPS => \A u \in Leaving(A, e.to) : EpsOwes(A, c, e, u)

PostInv ==
    AllFromControl /\ query = "post" /\ pc \in {"saturate", "done"} =>
        PostFaInv(fa, call) /\ RulesPaid(fa, call, Job) /\ EpsPaid(fa, call)
-----------------------------------------------------------------------------
(***************************************************************************)
(* prestar.  A push rule reads two transitions and owes a debt for each,   *)
(* as in PrestarProofs; what it makes of them depends on whether it calls  *)
(* a summary, that is on where the second one starts.                      *)
(***************************************************************************)
PushWeight(r, q, w1, w2) == Extend(ThroughCall(r, q \in P, w1), w2)

Reads(r, t) == ~ IsPush(r) /\ t.from = r.to /\ t.stk = r.stk1
ReadsPair(r, t, u) == IsPush(r) /\ t = Callee(r, u.from) /\ u.stk = r.stk2

First(A, job, t, r) == Pending(A, job, t, r)
Second(A, job, u, r) ==
    IF u = job.cur /\ r \in job.calls THEN Combine(D(A, u), job.dnew) ELSE D(A, u)

StepThere(A, job, t, r) ==
    \/ t \in A.marked \/ (t = job.cur /\ r \in job.todo)
    \/ Pred(t, r) \in A.trans
PushThere(A, job, t, u, r) ==
    \/ t \in A.marked \/ (t = job.cur /\ r \in job.todo)
    \/ u \in A.marked \/ (u = job.cur /\ r \in job.calls)
    \/ Pred(u, r) \in A.trans
StepOwes(A, job, t, r) ==
    Leq(Extend(r.weight, W(A, t)),
        Combine(W(A, Pred(t, r)), Extend(r.weight, First(A, job, t, r))))
PushOwes(A, job, t, u, r) ==
    Leq(PushWeight(r, u.from, W(A, t), W(A, u)),
        Combine(W(A, Pred(u, r)),
                Combine(PushWeight(r, u.from, First(A, job, t, r), W(A, u)),
                        PushWeight(r, u.from, W(A, t), Second(A, job, u, r)))))
StepsPaid(A, job) ==
    \A t \in A.trans, r \in rules :
        Reads(r, t) => StepThere(A, job, t, r) /\ StepOwes(A, job, t, r)
PushesPaid(A, job) ==
    \A t, u \in A.trans, r \in rules :
        ReadsPair(r, t, u) => PushThere(A, job, t, u, r) /\ PushOwes(A, job, t, u, r)

PopsThere(A) ==
    \A r \in rules : IsPop(r) =>
        LET k == [from |-> r.from, stk |-> r.stk, to |-> r.to]
        IN  k \in A.trans /\ Leq(r.weight, W(A, k))
PreFaInv(A) == /\ IsAutomaton(A)
               /\ \A k \in A.trans : k \in A.marked \/ D(A, k) = Zero
               /\ Holds(A) /\ PopsThere(A)

PreInv ==
    query = "pre" /\ pc \in {"saturate", "done"} =>
        PreFaInv(fa) /\ StepsPaid(fa, Job) /\ PushesPaid(fa, Job)
=============================================================================
