---------------------------- MODULE PrestarProofs ----------------------------
(***************************************************************************)
(* prestar for any rules, inputs, weights and worklist order: the output   *)
(* solves the saturation equations, nothing in it exceeds a solution, and  *)
(* its paths answer the runs of the pushdown system.                       *)
(*                                                                         *)
(* A push rule reads two transitions, so it owes a debt for each of them:  *)
(* what the first gained since the rule last read it, and what the second  *)
(* gained.  The delta of a transition, or dnew while the transition is     *)
(* being handled, pays for both.                                           *)
(***************************************************************************)
EXTENDS WpdsPrestar, WfaTheorems

Job == [cur |-> cur, dnew |-> dnew, back |-> back, calls |-> calls]

(* Rule r reads t; rule r reads t and then u. *)
Reads(r, t) == ~ IsPush(r) /\ t.from = r.to /\ t.stk = r.stk1
ReadsPair(r, t, u) == IsPush(r) /\ t = Callee(r, u.from) /\ u.stk = r.stk2

(* What r has not seen of t as (the first of) what it reads, and of u. *)
First(A, job, t, r) ==
    IF t = job.cur /\ r \in job.back THEN Combine(D(A, t), job.dnew) ELSE D(A, t)
Second(A, job, u, r) ==
    IF u = job.cur /\ r \in job.calls THEN Combine(D(A, u), job.dnew) ELSE D(A, u)

(* The transition r asks for is there, or something it reads is waiting. *)
StepThere(A, job, t, r) ==
    \/ t \in A.marked \/ (t = job.cur /\ r \in job.back)
    \/ Succ(t, r) \in A.trans
PushThere(A, job, t, u, r) ==
    \/ t \in A.marked \/ (t = job.cur /\ r \in job.back)
    \/ u \in A.marked \/ (u = job.cur /\ r \in job.calls)
    \/ Succ(u, r) \in A.trans

StepOwes(A, job, t, r) ==
    Leq(Extend(r.weight, W(A, t)),
        Combine(W(A, Succ(t, r)), Extend(r.weight, First(A, job, t, r))))
PushOwes(A, job, t, u, r) ==
    Leq(PushWeight(r, W(A, t), W(A, u)),
        Combine(W(A, Succ(u, r)),
                Combine(PushWeight(r, First(A, job, t, r), W(A, u)),
                        PushWeight(r, W(A, t), Second(A, job, u, r)))))

StepsPaid(A, job) ==
    \A t \in A.trans, r \in rules :
        Reads(r, t) => StepThere(A, job, t, r) /\ StepOwes(A, job, t, r)
PushesPaid(A, job) ==
    \A t, u \in A.trans, r \in rules :
        ReadsPair(r, t, u) => PushThere(A, job, t, u, r) /\ PushOwes(A, job, t, u, r)

(* Everything the saturation keeps true of the automaton alone. *)
FaInv(A) == /\ IsAutomaton(A)
            /\ \A k \in A.trans : k \in A.marked \/ D(A, k) = Zero
            /\ Covers(A, input)
            /\ ClosedUnderPops(A)

(* The rules still to handle are rules of the transition being handled. *)
JobOK ==
    /\ back # {} \/ calls # {} => pc = "saturate" /\ cur \in fa.trans
    /\ back \subseteq BackwardRules(rules, cur.from, cur.stk)
    /\ calls \subseteq CallRules(rules, cur.stk)
    /\ pc = "done" => fa.marked = {}
    /\ pc = "setup" => fa = EmptyAutomaton /\ dnew = Zero

IInv ==
    /\ TypeOK /\ JobOK /\ InputOK(input)
    /\ pc \in {"saturate", "done"} => FaInv(fa) /\ StepsPaid(fa, Job) /\ PushesPaid(fa, Job)

(***************************************************************************)
(* The other half.  Closed(S) says that the bounds S are kept by what the  *)
(* rules add, and hold the input; Below(S) that every transition, weight   *)
(* and delta of the output, and the delta at work, is within S.            *)
(***************************************************************************)
PopKey(r) == [from |-> r.from, stk |-> r.stk, to |-> r.to]

PopsStay(S) ==
    \A r \in rules : IsPop(r) => PopKey(r) \in S.trans /\ r.weight \in S.below[PopKey(r)]
StepsStay(S) ==
    \A r \in rules, t \in S.trans : Reads(r, t) =>
        /\ Succ(t, r) \in S.trans
        /\ \A w \in S.below[t] : Extend(r.weight, w) \in S.below[Succ(t, r)]
PushesStay(S) ==
    \A r \in rules, t, u \in S.trans : ReadsPair(r, t, u) =>
        /\ Succ(u, r) \in S.trans
        /\ \A v \in S.below[t], w \in S.below[u] : PushWeight(r, v, w) \in S.below[Succ(u, r)]
InputStays(S) ==
    input.trans \subseteq S.trans /\ \A k \in input.trans : input.weight[k] \in S.below[k]

Closed(S) == PopsStay(S) /\ StepsStay(S) /\ PushesStay(S) /\ InputStays(S)

JobInside(A, c, d, S) == Inside(A, S) /\ (c \in S.trans => d \in S.below[c])
Below == \A S : IsBounds(S) /\ Closed(S) => JobInside(fa, cur, dnew, S)

(***************************************************************************)
(* When prestar returns, every solution of the saturation equations has    *)
(* the transitions of its output, each with at least the weight it has     *)
(* there: with SaturatedWhenDone, the output is the least solution.        *)
(***************************************************************************)
LeastWhenDone ==
    pc = "done" => \A S : IsWeighted(S) /\ Solution(S) => Covers(S, fa)
-----------------------------------------------------------------------------
(* What the parts of a rule are. *)
LEMMA RuleParts ==
    ASSUME rules \in RuleSet, NEW r \in rules
    PROVE  /\ r.from \in P /\ r.to \in P
           /\ r.stk \in Stack /\ r.stk1 \in Symbol /\ r.stk2 \in Symbol
           /\ r.weight \in Weight
           /\ r.stk1 = EPS => r.stk2 = EPS
BY DEF RuleSet, Rule, Symbol

(* The transition a rule asks for is one. *)
LEMMA SuccKey ==
    ASSUME rules \in RuleSet, NEW r \in rules, NEW t \in Key
    PROVE  Succ(t, r) \in Key
BY RuleParts DEF Succ, Key, State, Symbol

(* The weight of a push rule: typed, monotone, linear in what it reads. *)
LEMMA PushTyped ==
    ASSUME NEW r, r.weight \in Weight, NEW a \in Weight, NEW b \in Weight
    PROVE  PushWeight(r, a, b) \in Weight
BY WeightClosed DEF PushWeight

LEMMA PushMono ==
    ASSUME NEW r, r.weight \in Weight, NEW a \in Weight, NEW b \in Weight,
           NEW c \in Weight, NEW d \in Weight, Leq(a, c), Leq(b, d)
    PROVE  Leq(PushWeight(r, a, b), PushWeight(r, c, d))
<1>1. Extend(r.weight, a) \in Weight /\ Extend(r.weight, c) \in Weight
  BY WeightClosed
<1>2. Leq(Extend(r.weight, a), Extend(r.weight, c))
  BY ExtendMono
<1>3. /\ Leq(PushWeight(r, a, b), Extend(Extend(r.weight, c), b))
      /\ Leq(Extend(Extend(r.weight, c), b), PushWeight(r, c, d))
  BY <1>1, <1>2, ExtendMono DEF PushWeight
<1>4. Extend(Extend(r.weight, c), b) \in Weight
  BY <1>1, WeightClosed
<1> QED  BY <1>3, <1>4, PushTyped, LeqTrans

LEMMA PushSums ==
    ASSUME NEW r, r.weight \in Weight, NEW a \in Weight, NEW b \in Weight, NEW c \in Weight
    PROVE  /\ PushWeight(r, Combine(a, b), c) = Combine(PushWeight(r, a, c), PushWeight(r, b, c))
           /\ PushWeight(r, c, Combine(a, b)) = Combine(PushWeight(r, c, a), PushWeight(r, c, b))
<1>1. /\ Extend(r.weight, a) \in Weight /\ Extend(r.weight, b) \in Weight
      /\ Extend(r.weight, c) \in Weight
  BY WeightClosed
<1>2. Extend(r.weight, Combine(a, b)) = Combine(Extend(r.weight, a), Extend(r.weight, b))
  BY Distributes
<1> QED  BY <1>1, <1>2, Distributes DEF PushWeight

LEMMA PushZero ==
    ASSUME NEW r, r.weight \in Weight, NEW a \in Weight
    PROVE  PushWeight(r, Zero, a) = Zero /\ PushWeight(r, a, Zero) = Zero
BY ExtendLaws, WeightClosed DEF PushWeight
-----------------------------------------------------------------------------
(***************************************************************************)
(* The debts of a push rule when both transitions it reads grow, from ta   *)
(* to tb and from ua to ub, and part of the debts pa and qa is paid into   *)
(* the transition it asks for, which grows from sa to sb.                  *)
(***************************************************************************)
LEMMA PayPush ==
    ASSUME NEW r, r.weight \in Weight,
           NEW ta \in Weight, NEW tb \in Weight, NEW dt \in Weight,
           NEW ua \in Weight, NEW ub \in Weight, NEW du \in Weight,
           NEW pa \in Weight, NEW pb \in Weight, NEW qa \in Weight, NEW qb \in Weight,
           NEW sa \in Weight, NEW sb \in Weight,
           Leq(tb, Combine(ta, dt)), Leq(ub, Combine(ua, du)), Leq(ta, tb), Leq(sa, sb),
           Leq(dt, pb), Leq(du, qb),
           Leq(PushWeight(r, ta, ua),
               Combine(sa, Combine(PushWeight(r, pa, ua), PushWeight(r, ta, qa)))),
           Leq(PushWeight(r, pa, ua), Combine(sb, PushWeight(r, pb, ub))),
           Leq(PushWeight(r, ta, qa), Combine(sb, PushWeight(r, tb, qb)))
    PROVE  Leq(PushWeight(r, tb, ub),
               Combine(sb, Combine(PushWeight(r, pb, ub), PushWeight(r, tb, qb))))
<1> DEFINE p == PushWeight(r, pb, ub)
           q == PushWeight(r, tb, qb)
<1>1. /\ p \in Weight /\ q \in Weight
      /\ PushWeight(r, pa, ua) \in Weight /\ PushWeight(r, ta, qa) \in Weight
      /\ PushWeight(r, ta, ua) \in Weight /\ PushWeight(r, tb, ub) \in Weight
      /\ PushWeight(r, ta, ub) \in Weight /\ PushWeight(r, dt, ub) \in Weight
      /\ PushWeight(r, ta, du) \in Weight
  BY PushTyped
<1>2. Leq(PushWeight(r, dt, ub), p) /\ Leq(PushWeight(r, ta, du), q)
  BY LeqBasics, PushMono
<1>3. Leq(PushWeight(r, tb, ub), Combine(PushWeight(r, ta, ub), PushWeight(r, dt, ub)))
  <2>1. Combine(ta, dt) \in Weight /\ Leq(ub, ub)
    BY WeightClosed, LeqBasics
  <2>2. Leq(PushWeight(r, tb, ub), PushWeight(r, Combine(ta, dt), ub))
    BY <2>1, PushMono
  <2> QED  BY <2>2, PushSums
<1>4. Leq(PushWeight(r, ta, ub), Combine(PushWeight(r, ta, ua), PushWeight(r, ta, du)))
  <2>1. Combine(ua, du) \in Weight /\ Leq(ta, ta)
    BY WeightClosed, LeqBasics
  <2>2. Leq(PushWeight(r, ta, ub), PushWeight(r, ta, Combine(ua, du)))
    BY <2>1, PushMono
  <2> QED  BY <2>2, PushSums
<1> DEFINE e == PushWeight(r, pa, ua)
           f == PushWeight(r, ta, qa)
           g == PushWeight(r, ta, ua)
           h == PushWeight(r, ta, ub)
           i == PushWeight(r, dt, ub)
           j == PushWeight(r, ta, du)
           k == PushWeight(r, tb, ub)
<1>5. /\ p \in Weight /\ q \in Weight /\ e \in Weight /\ f \in Weight /\ g \in Weight
      /\ h \in Weight /\ i \in Weight /\ j \in Weight /\ k \in Weight
      /\ sa \in Weight /\ sb \in Weight
      /\ Leq(k, Combine(h, i)) /\ Leq(h, Combine(g, j)) /\ Leq(i, p) /\ Leq(j, q)
      /\ Leq(g, Combine(sa, Combine(e, f))) /\ Leq(sa, sb)
      /\ Leq(e, Combine(sb, p)) /\ Leq(f, Combine(sb, q))
  BY <1>1, <1>2, <1>3, <1>4
<1> HIDE DEF e, f, g, h, i, j, k, p, q
<1>6. Leq(k, Combine(sb, Combine(p, q)))
  BY ONLY <1>5, PayTwo
<1> QED  BY <1>6 DEF k, p, q
-----------------------------------------------------------------------------
(***************************************************************************)
(* One update of the automaton, from A to B, pays what the rules owe: of   *)
(* the job, the rules R for cur as what they read first, and the rules S   *)
(* for cur as what they read second.                                       *)
(***************************************************************************)
LEMMA StepsKept ==
    ASSUME NEW A, NEW B, NEW c, NEW d \in Weight, NEW T, NEW U, NEW R, NEW S,
           rules \in RuleSet, IsAutomaton(A), IsAutomaton(B), Evolves(A, B), Noted(A, B),
           StepsPaid(A, [cur |-> c, dnew |-> d, back |-> T, calls |-> U]),
           \A r \in R \cap rules : Reads(r, c) =>
               /\ Succ(c, r) \in B.trans
               /\ Leq(Extend(r.weight, d), W(B, Succ(c, r)))
    PROVE  StepsPaid(B, [cur |-> c, dnew |-> d, back |-> T \ R, calls |-> U \ S])
<1> DEFINE job == [cur |-> c, dnew |-> d, back |-> T, calls |-> U]
           jobB == [cur |-> c, dnew |-> d, back |-> T \ R, calls |-> U \ S]
<1> SUFFICES ASSUME NEW t \in B.trans, NEW r \in rules, Reads(r, t)
             PROVE  StepThere(B, jobB, t, r) /\ StepOwes(B, jobB, t, r)
  BY DEF StepsPaid
<1> DEFINE w == r.weight
           k == Succ(t, r)
           pa == First(A, job, t, r)
           pb == First(B, jobB, t, r)
<1>1. /\ A.trans \subseteq B.trans /\ t \in Key /\ w \in Weight /\ k \in Key
      /\ W(A, t) \in Weight /\ D(A, t) \in Weight /\ W(B, t) \in Weight /\ D(B, t) \in Weight
      /\ W(A, k) \in Weight /\ W(B, k) \in Weight
  BY WeightTyped, RuleParts, SuccKey DEF Evolves, IsAutomaton
<1>2. /\ pa = (IF t = c /\ r \in T THEN Combine(D(A, t), d) ELSE D(A, t))
      /\ pb = (IF t = c /\ r \in T \ R THEN Combine(D(B, t), d) ELSE D(B, t))
  BY DEF First
<1> HIDE DEF pa, pb
<1>3. pa \in Weight /\ pb \in Weight /\ Leq(D(B, t), pb)
  BY <1>1, <1>2, WeightClosed, CombineUpper, LeqBasics
<1>4. /\ Leq(W(A, k), W(B, k)) /\ Leq(W(B, t), Combine(W(A, t), D(B, t)))
      /\ Leq(D(A, t), D(B, t))
  BY <1>1 DEF Evolves
<1>5. t \in A.trans => StepThere(A, job, t, r) /\ StepOwes(A, job, t, r)
  BY DEF StepsPaid
<1>6. StepThere(B, jobB, t, r)
  <2> SUFFICES ASSUME t \notin B.marked, ~ (t = c /\ r \in T \ R)
               PROVE  k \in B.trans
    BY DEF StepThere
  <2>1. t \in A.trans /\ t \notin A.marked
    BY DEF Noted
  <2>2. CASE t = c /\ r \in R
    BY <2>2
  <2>3. CASE ~ (t = c /\ r \in R)
    BY <1>1, <1>5, <2>1, <2>3 DEF StepThere
  <2> QED  BY <2>2, <2>3
<1> HIDE DEF w, k, job, jobB
<1>7. Leq(Extend(w, W(A, t)), Combine(W(A, k), Extend(w, pa)))
  <2>1. CASE t \in A.trans
    BY <1>5, <2>1 DEF StepOwes, k, w, pa
  <2>2. CASE t \notin A.trans
    <3>1. Extend(w, W(A, t)) = Zero /\ Combine(W(A, k), Extend(w, pa)) \in Weight
      BY <1>1, <1>3, <2>2, ExtendLaws, WeightClosed DEF W
    <3> QED  BY <3>1, LeqBasics
  <2> QED  BY <2>1, <2>2
<1>8. Leq(Extend(w, pa), Combine(W(B, k), Extend(w, pb)))
  <2> DEFINE x == Combine(W(B, k), Extend(w, pb))
  <2>1. /\ Extend(w, pa) \in Weight /\ Extend(w, pb) \in Weight /\ x \in Weight
        /\ Extend(w, D(A, t)) \in Weight /\ Extend(w, d) \in Weight
    BY <1>1, <1>3, WeightClosed
  <2>2. Leq(Extend(w, pb), x) /\ Leq(W(B, k), x)
    BY <1>1, <2>1, CombineUpper
  <2> HIDE DEF x
  <2>3. CASE t = c /\ r \in T /\ r \in R
    <3>1. Extend(w, pa) = Combine(Extend(w, D(A, t)), Extend(w, d))
      BY <1>1, <1>2, <2>3, Distributes
    <3>2. Leq(D(A, t), pb)
      BY <1>1, <1>3, <1>4, LeqTrans
    <3>3. Leq(Extend(w, D(A, t)), Extend(w, pb))
      BY <1>1, <1>3, <3>2, ExtendMono
    <3>4. Leq(Extend(w, d), W(B, k))
      BY <2>3 DEF w, k
    <3>5. Leq(Extend(w, D(A, t)), x) /\ Leq(Extend(w, d), x)
      BY <1>1, <2>1, <2>2, <3>3, <3>4, LeqTrans
    <3> QED  BY <2>1, <3>1, <3>5, CombineLeast DEF x
  <2>4. CASE ~ (t = c /\ r \in T /\ r \in R)
    <3>1. Leq(pa, pb)
      <4>1. CASE t = c /\ r \in T
        BY <1>1, <1>2, <1>4, <2>4, <4>1, LeqBasics, CombineMono
      <4>2. CASE ~ (t = c /\ r \in T)
        BY <1>1, <1>2, <1>4, <4>2
      <4> QED  BY <4>1, <4>2
    <3>2. Leq(Extend(w, pa), Extend(w, pb))
      BY <1>1, <1>3, <3>1, ExtendMono
    <3> QED  BY <2>1, <2>2, <3>2, LeqTrans DEF x
  <2> QED  BY <2>3, <2>4
<1>9. Leq(Extend(w, W(B, t)), Combine(W(B, k), Extend(w, pb)))
  <2> DEFINE wa == W(A, t)
             wb == W(B, t)
             db == D(B, t)
             ta == W(A, k)
             tb == W(B, k)
  <2>1. /\ wa \in Weight /\ wb \in Weight /\ db \in Weight /\ w \in Weight
        /\ ta \in Weight /\ tb \in Weight /\ pa \in Weight /\ pb \in Weight
        /\ Leq(wb, Combine(wa, db)) /\ Leq(ta, tb) /\ Leq(db, pb)
        /\ Leq(Extend(w, wa), Combine(ta, Extend(w, pa)))
        /\ Leq(Extend(w, pa), Combine(tb, Extend(w, pb)))
    BY <1>1, <1>3, <1>4, <1>7, <1>8
  <2> HIDE DEF wa, wb, db, ta, tb
  <2>2. Leq(Extend(w, wb), Combine(tb, Extend(w, pb)))
    BY ONLY <2>1, PayStep
  <2> QED  BY <2>2 DEF wb, tb
<1> QED  BY <1>6, <1>9 DEF StepOwes, k, w, pb, jobB

LEMMA PushesKept ==
    ASSUME NEW A, NEW B, NEW c, NEW d \in Weight, NEW T, NEW U, NEW R, NEW S,
           rules \in RuleSet, IsAutomaton(A), IsAutomaton(B), Evolves(A, B), Noted(A, B),
           PushesPaid(A, [cur |-> c, dnew |-> d, back |-> T, calls |-> U]),
           \A r \in R \cap rules, u \in A.trans : ReadsPair(r, c, u) =>
               /\ Succ(u, r) \in B.trans
               /\ Leq(PushWeight(r, d, W(A, u)), W(B, Succ(u, r))),
           \A r \in S \cap rules, t \in A.trans : ReadsPair(r, t, c) =>
               /\ Succ(c, r) \in B.trans
               /\ Leq(PushWeight(r, W(A, t), d), W(B, Succ(c, r)))
    PROVE  PushesPaid(B, [cur |-> c, dnew |-> d, back |-> T \ R, calls |-> U \ S])
<1> DEFINE job == [cur |-> c, dnew |-> d, back |-> T, calls |-> U]
           jobB == [cur |-> c, dnew |-> d, back |-> T \ R, calls |-> U \ S]
<1> SUFFICES ASSUME NEW t \in B.trans, NEW u \in B.trans, NEW r \in rules,
                    ReadsPair(r, t, u)
             PROVE  PushThere(B, jobB, t, u, r) /\ PushOwes(B, jobB, t, u, r)
  BY DEF PushesPaid
<1> DEFINE k == Succ(u, r)
           pa == First(A, job, t, r)
           pb == First(B, jobB, t, r)
           qa == Second(A, job, u, r)
           qb == Second(B, jobB, u, r)
           ta == W(A, t)
           tb == W(B, t)
           ua == W(A, u)
           ub == W(B, u)
           sa == W(A, k)
           sb == W(B, k)
           dt == D(B, t)
           du == D(B, u)
           ea == D(A, t)
           fb == D(A, u)
<1>1. /\ A.trans \subseteq B.trans /\ t \in Key /\ u \in Key /\ k \in Key
      /\ r.weight \in Weight
      /\ ta \in Weight /\ tb \in Weight /\ ua \in Weight /\ ub \in Weight
      /\ sa \in Weight /\ sb \in Weight /\ dt \in Weight /\ du \in Weight
      /\ ea \in Weight /\ fb \in Weight
  BY WeightTyped, RuleParts, SuccKey DEF Evolves, IsAutomaton
<1>2. /\ pa = (IF t = c /\ r \in T THEN Combine(ea, d) ELSE ea)
      /\ pb = (IF t = c /\ r \in T \ R THEN Combine(dt, d) ELSE dt)
      /\ qa = (IF u = c /\ r \in U THEN Combine(fb, d) ELSE fb)
      /\ qb = (IF u = c /\ r \in U \ S THEN Combine(du, d) ELSE du)
  BY DEF First, Second
<1>3. /\ Leq(ta, tb) /\ Leq(ua, ub) /\ Leq(sa, sb)
      /\ Leq(tb, Combine(ta, dt)) /\ Leq(ub, Combine(ua, du))
      /\ Leq(ea, dt) /\ Leq(fb, du)
  BY <1>1 DEF Evolves
<1>4. t \in A.trans /\ u \in A.trans =>
         PushThere(A, job, t, u, r) /\ PushOwes(A, job, t, u, r)
  BY DEF PushesPaid
<1>5. t = c /\ r \in R /\ u \in A.trans =>
         k \in B.trans /\ Leq(PushWeight(r, d, ua), sb)
  OBVIOUS
<1>6. u = c /\ r \in S /\ t \in A.trans =>
         k \in B.trans /\ Leq(PushWeight(r, ta, d), sb)
  OBVIOUS
<1>7. PushThere(B, jobB, t, u, r)
  <2> SUFFICES ASSUME t \notin B.marked, u \notin B.marked,
                      ~ (t = c /\ r \in T \ R), ~ (u = c /\ r \in U \ S)
               PROVE  k \in B.trans
    BY DEF PushThere
  <2>1. t \in A.trans /\ t \notin A.marked /\ u \in A.trans /\ u \notin A.marked
    BY DEF Noted
  <2>2. CASE t = c /\ r \in R
    BY <1>5, <2>1, <2>2
  <2>3. CASE u = c /\ r \in S
    BY <1>6, <2>1, <2>3
  <2>4. CASE ~ (t = c /\ r \in R) /\ ~ (u = c /\ r \in S)
    BY <1>1, <1>4, <2>1, <2>4 DEF PushThere
  <2> QED  BY <2>2, <2>3, <2>4
<1>8. t \notin A.trans => ta = Zero
  BY DEF W
<1>9. u \notin A.trans => ua = Zero
  BY DEF W
<1>10. t \in A.trans /\ u \in A.trans =>
          Leq(PushWeight(r, ta, ua),
              Combine(sa, Combine(PushWeight(r, pa, ua), PushWeight(r, ta, qa))))
  BY <1>4 DEF PushOwes
<1> HIDE DEF k, pa, pb, qa, qb, ta, tb, ua, ub, sa, sb, dt, du, ea, fb, job, jobB
<1>11. /\ pa \in Weight /\ pb \in Weight /\ qa \in Weight /\ qb \in Weight
       /\ Leq(dt, pb) /\ Leq(du, qb)
  BY <1>1, <1>2, WeightClosed, CombineUpper, LeqBasics
<1>12. Leq(ea, pb) /\ Leq(fb, qb)
  BY <1>1, <1>3, <1>11, LeqTrans
<1>13. /\ PushWeight(r, pa, ua) \in Weight /\ PushWeight(r, ta, qa) \in Weight
       /\ PushWeight(r, pb, ub) \in Weight /\ PushWeight(r, tb, qb) \in Weight
       /\ PushWeight(r, ea, ua) \in Weight /\ PushWeight(r, d, ua) \in Weight
       /\ PushWeight(r, ta, fb) \in Weight /\ PushWeight(r, ta, d) \in Weight
       /\ PushWeight(r, ta, ua) \in Weight
  BY <1>1, <1>11, PushTyped
<1>14. Leq(PushWeight(r, ta, ua),
           Combine(sa, Combine(PushWeight(r, pa, ua), PushWeight(r, ta, qa))))
  <2>1. Combine(sa, Combine(PushWeight(r, pa, ua), PushWeight(r, ta, qa))) \in Weight
    BY <1>1, <1>13, WeightClosed
  <2>2. CASE t \in A.trans /\ u \in A.trans
    BY <1>10, <2>2
  <2>3. CASE t \notin A.trans \/ u \notin A.trans
    <3>1. PushWeight(r, ta, ua) = Zero
      BY <1>1, <1>8, <1>9, <2>3, PushZero
    <3> QED  BY <2>1, <3>1, LeqBasics
  <2> QED  BY <2>2, <2>3
<1>15. Leq(PushWeight(r, pa, ua), Combine(sb, PushWeight(r, pb, ub)))
  <2> DEFINE x == Combine(sb, PushWeight(r, pb, ub))
  <2>1. x \in Weight /\ Leq(sb, x) /\ Leq(PushWeight(r, pb, ub), x)
    BY <1>1, <1>13, WeightClosed, CombineUpper
  <2> HIDE DEF x
  <2>2. CASE t = c /\ r \in T /\ r \in R
    <3>1. Leq(PushWeight(r, d, ua), sb)
      <4>1. CASE u \in A.trans
        BY <1>5, <2>2, <4>1
      <4>2. CASE u \notin A.trans
        <5>1. PushWeight(r, d, ua) = Zero
          BY <1>1, <1>9, <4>2, PushZero
        <5> QED  BY <1>1, <5>1, LeqBasics
      <4> QED  BY <4>1, <4>2
    <3>2. Leq(PushWeight(r, ea, ua), PushWeight(r, pb, ub))
      BY <1>1, <1>3, <1>11, <1>12, PushMono
    <3>3. Leq(PushWeight(r, d, ua), x) /\ Leq(PushWeight(r, ea, ua), x)
      BY <1>1, <1>13, <2>1, <3>1, <3>2, LeqTrans
    <3>4. PushWeight(r, pa, ua) = Combine(PushWeight(r, ea, ua), PushWeight(r, d, ua))
      BY <1>1, <1>2, <2>2, PushSums
    <3> QED  BY <1>13, <2>1, <3>3, <3>4, CombineLeast DEF x
  <2>3. CASE ~ (t = c /\ r \in T /\ r \in R)
    <3>1. Leq(pa, pb)
      <4>1. CASE t = c /\ r \in T
        BY <1>1, <1>2, <1>3, <2>3, <4>1, LeqBasics, CombineMono
      <4>2. CASE ~ (t = c /\ r \in T)
        BY <1>1, <1>2, <1>3, <4>2
      <4> QED  BY <4>1, <4>2
    <3>2. Leq(PushWeight(r, pa, ua), PushWeight(r, pb, ub))
      BY <1>1, <1>3, <1>11, <3>1, PushMono
    <3> QED  BY <1>13, <2>1, <3>2, LeqTrans DEF x
  <2> QED  BY <2>2, <2>3
<1>16. Leq(PushWeight(r, ta, qa), Combine(sb, PushWeight(r, tb, qb)))
  <2> DEFINE x == Combine(sb, PushWeight(r, tb, qb))
  <2>1. x \in Weight /\ Leq(sb, x) /\ Leq(PushWeight(r, tb, qb), x)
    BY <1>1, <1>13, WeightClosed, CombineUpper
  <2> HIDE DEF x
  <2>2. CASE u = c /\ r \in U /\ r \in S
    <3>1. Leq(PushWeight(r, ta, d), sb)
      <4>1. CASE t \in A.trans
        BY <1>6, <2>2, <4>1
      <4>2. CASE t \notin A.trans
        <5>1. PushWeight(r, ta, d) = Zero
          BY <1>1, <1>8, <4>2, PushZero
        <5> QED  BY <1>1, <5>1, LeqBasics
      <4> QED  BY <4>1, <4>2
    <3>2. Leq(PushWeight(r, ta, fb), PushWeight(r, tb, qb))
      BY <1>1, <1>3, <1>11, <1>12, PushMono
    <3>3. Leq(PushWeight(r, ta, d), x) /\ Leq(PushWeight(r, ta, fb), x)
      BY <1>1, <1>13, <2>1, <3>1, <3>2, LeqTrans
    <3>4. PushWeight(r, ta, qa) = Combine(PushWeight(r, ta, fb), PushWeight(r, ta, d))
      BY <1>1, <1>2, <2>2, PushSums
    <3> QED  BY <1>13, <2>1, <3>3, <3>4, CombineLeast DEF x
  <2>3. CASE ~ (u = c /\ r \in U /\ r \in S)
    <3>1. Leq(qa, qb)
      <4>1. CASE u = c /\ r \in U
        BY <1>1, <1>2, <1>3, <2>3, <4>1, LeqBasics, CombineMono
      <4>2. CASE ~ (u = c /\ r \in U)
        BY <1>1, <1>2, <1>3, <4>2
      <4> QED  BY <4>1, <4>2
    <3>2. Leq(PushWeight(r, ta, qa), PushWeight(r, tb, qb))
      BY <1>1, <1>3, <1>11, <3>1, PushMono
    <3> QED  BY <1>13, <2>1, <3>2, LeqTrans DEF x
  <2> QED  BY <2>2, <2>3
<1>17. Leq(PushWeight(r, tb, ub),
           Combine(sb, Combine(PushWeight(r, pb, ub), PushWeight(r, tb, qb))))
  BY <1>1, <1>3, <1>11, <1>14, <1>15, <1>16, PayPush
<1> QED  BY <1>7, <1>17 DEF PushOwes, k, pb, qb, tb, ub, sb
-----------------------------------------------------------------------------
(* An update keeps what is said of the automaton alone, and takes effect. *)
LEMMA UpdateKept ==
    ASSUME NEW A, FaInv(A), NEW K \in SUBSET Key, NEW ins \in [K -> Weight],
           rules \in RuleSet, InputOK(input)
    PROVE  LET B == Update(A, ins) IN
           /\ FaInv(B) /\ Evolves(A, B) /\ Noted(A, B)
           /\ \A k \in K : k \in B.trans /\ Leq(ins[k], W(B, k))
<1> DEFINE B == Update(A, ins)
<1>1. IsAutomaton(A)
  BY DEF FaInv
<1>2. /\ IsAutomaton(B) /\ B.trans = A.trans \cup K
      /\ Evolves(A, B) /\ Noted(A, B)
      /\ \A k \in K : Leq(ins[k], W(B, k))
  BY <1>1, UpdateFacts, UpdateEvolves, UpdateNoted
<1> HIDE DEF B
<1>3. \A k \in B.trans : k \in B.marked \/ D(B, k) = Zero
  BY <1>2 DEF Noted, FaInv
<1>4. ASSUME NEW k \in A.trans, NEW w \in Weight, Leq(w, A.weight[k])
      PROVE  k \in B.trans /\ Leq(w, B.weight[k])
  <2>1. k \in B.trans /\ k \in Key /\ W(A, k) = A.weight[k] /\ W(B, k) = B.weight[k]
    BY <1>1, <1>2 DEF W, IsAutomaton
  <2>2. Leq(W(A, k), W(B, k)) /\ W(A, k) \in Weight /\ W(B, k) \in Weight
    BY <1>1, <1>2, <2>1, WeightTyped DEF Evolves
  <2> QED  BY <1>4, <2>1, <2>2, LeqTrans
<1>5. Covers(B, input)
  <2>1. \A k \in input.trans : k \in A.trans /\ Leq(input.weight[k], A.weight[k])
                               /\ input.weight[k] \in Weight
    BY DEF FaInv, Covers, InputOK, IsInput
  <2> QED  BY <1>4, <2>1 DEF Covers
<1>6. ClosedUnderPops(B)
  <2>1. \A r \in rules : r.weight \in Weight
    BY RuleParts
  <2> QED  BY <1>4, <2>1 DEF FaInv, ClosedUnderPops
<1> QED  BY <1>2, <1>3, <1>5, <1>6 DEF FaInv, B

(***************************************************************************)
(* The saturation step of the rules R and S for cur: an update of the      *)
(* automaton, and the rules taken off the job.                             *)
(***************************************************************************)
StepBy(R, S, K, ins) ==
    /\ pc = "saturate" /\ K \in SUBSET Key /\ ins \in [K -> Weight]
    /\ fa' = Update(fa, ins) \/ (K = {} /\ fa' = fa)
    /\ back' = back \ R /\ calls' = calls \ S
    /\ UNCHANGED <<rules, input, pc, cur, dnew>>
    /\ \A r \in R \cap rules : Reads(r, cur) =>
          Succ(cur, r) \in K /\ ins[Succ(cur, r)] = Extend(r.weight, dnew)
    /\ \A r \in R \cap rules, u \in fa.trans : ReadsPair(r, cur, u) =>
          Succ(u, r) \in K /\ ins[Succ(u, r)] = PushWeight(r, dnew, W(fa, u))
    /\ \A r \in S \cap rules, t \in fa.trans : ReadsPair(r, t, cur) =>
          Succ(cur, r) \in K /\ ins[Succ(cur, r)] = PushWeight(r, W(fa, t), dnew)

(* Such a step keeps the invariant. *)
LEMMA StepKept ==
    ASSUME IInv, NEW R, NEW S, NEW K, NEW ins, StepBy(R, S, K, ins)
    PROVE  IInv'
<1> USE DEF StepBy
<1>1. /\ TypeOK /\ JobOK /\ InputOK(input) /\ rules \in RuleSet /\ dnew \in Weight
      /\ FaInv(fa) /\ StepsPaid(fa, Job) /\ PushesPaid(fa, Job) /\ IsAutomaton(fa)
  BY DEF IInv, TypeOK
<1>2. /\ FaInv(fa') /\ Evolves(fa, fa') /\ Noted(fa, fa')
      /\ \A k \in K : k \in fa'.trans /\ Leq(ins[k], W(fa', k))
  <2>1. CASE fa' = Update(fa, ins)
    BY <1>1, <2>1, UpdateKept
  <2>2. CASE K = {} /\ fa' = fa
    <3>1. Evolves(fa, fa)
      <4>1. ASSUME NEW k \in Key
            PROVE  /\ Leq(W(fa, k), W(fa, k)) /\ Leq(D(fa, k), D(fa, k))
                   /\ Leq(W(fa, k), Combine(W(fa, k), D(fa, k)))
        BY <1>1, WeightTyped, LeqBasics, CombineUpper
      <4> QED  BY <4>1 DEF Evolves
    <3> QED  BY <1>1, <2>2, <3>1 DEF Noted
  <2> QED  BY <2>1, <2>2
<1>3. IsAutomaton(fa')
  BY <1>2 DEF FaInv
<1>4. TypeOK'
  BY <1>1, <1>3 DEF TypeOK
<1>5. JobOK'
  BY <1>1, <1>2 DEF JobOK, Evolves, BackwardRules, CallRules
<1>6. /\ \A r \in R \cap rules : Reads(r, cur) =>
            /\ Succ(cur, r) \in fa'.trans
            /\ Leq(Extend(r.weight, dnew), W(fa', Succ(cur, r)))
      /\ \A r \in R \cap rules, u \in fa.trans : ReadsPair(r, cur, u) =>
            /\ Succ(u, r) \in fa'.trans
            /\ Leq(PushWeight(r, dnew, W(fa, u)), W(fa', Succ(u, r)))
      /\ \A r \in S \cap rules, t \in fa.trans : ReadsPair(r, t, cur) =>
            /\ Succ(cur, r) \in fa'.trans
            /\ Leq(PushWeight(r, W(fa, t), dnew), W(fa', Succ(cur, r)))
  BY <1>2
<1>7. /\ StepsPaid(fa', [cur |-> cur, dnew |-> dnew, back |-> back \ R, calls |-> calls \ S])
      /\ PushesPaid(fa', [cur |-> cur, dnew |-> dnew, back |-> back \ R, calls |-> calls \ S])
  <2> DEFINE B == fa'
  <2>1. /\ StepsPaid(fa, [cur |-> cur, dnew |-> dnew, back |-> back, calls |-> calls])
        /\ PushesPaid(fa, [cur |-> cur, dnew |-> dnew, back |-> back, calls |-> calls])
    BY <1>1 DEF Job
  <2>2. /\ IsAutomaton(B) /\ Evolves(fa, B) /\ Noted(fa, B)
        /\ \A r \in R \cap rules : Reads(r, cur) =>
              /\ Succ(cur, r) \in B.trans
              /\ Leq(Extend(r.weight, dnew), W(B, Succ(cur, r)))
        /\ \A r \in R \cap rules, u \in fa.trans : ReadsPair(r, cur, u) =>
              /\ Succ(u, r) \in B.trans
              /\ Leq(PushWeight(r, dnew, W(fa, u)), W(B, Succ(u, r)))
        /\ \A r \in S \cap rules, t \in fa.trans : ReadsPair(r, t, cur) =>
              /\ Succ(cur, r) \in B.trans
              /\ Leq(PushWeight(r, W(fa, t), dnew), W(B, Succ(cur, r)))
    BY <1>2, <1>3, <1>6
  <2>3. rules \in RuleSet /\ dnew \in Weight /\ IsAutomaton(fa)
    BY <1>1
  <2> HIDE DEF B
  <2>4. StepsPaid(B, [cur |-> cur, dnew |-> dnew, back |-> back \ R, calls |-> calls \ S])
    BY ONLY <2>1, <2>2, <2>3, StepsKept
  <2>5. PushesPaid(B, [cur |-> cur, dnew |-> dnew, back |-> back \ R, calls |-> calls \ S])
    BY ONLY <2>1, <2>2, <2>3, PushesKept
  <2> QED  BY <2>4, <2>5 DEF B
<1>8. Job' = [cur |-> cur, dnew |-> dnew, back |-> back \ R, calls |-> calls \ S]
  BY DEF Job
<1>9. /\ FaInv(fa)' /\ InputOK(input)'
      /\ StepsPaid(fa, Job)' /\ PushesPaid(fa, Job)'
  BY <1>1, <1>2, <1>7, <1>8 DEF FaInv, Covers, ClosedUnderPops,
     StepsPaid, PushesPaid
<1> QED  BY <1>4, <1>5, <1>9 DEF IInv

(* Before the query there is nothing to keep. *)
LEMMA InitIInv == Init => IInv
<1> SUFFICES ASSUME Init PROVE IInv  OBVIOUS
<1>1. IsAutomaton(EmptyAutomaton)
  BY DEF IsAutomaton, EmptyAutomaton
<1>2. InputOK(input) /\ rules \in RuleSet
  BY PrestarAssumption DEF Init
<1> QED  BY <1>1, <1>2, WeightClosed DEF Init, IInv, TypeOK, JobOK, InputOK

(* A copy of the input carries every weight as delta: nothing is paid yet. *)
LEMMA SetupIInv ==
    ASSUME IInv, Setup PROVE IInv'
<1> DEFINE pops == {r \in rules : IsPop(r)}
           keyOf(r) == [from |-> r.from, stk |-> r.stk, to |-> r.to]
           ruleOf(k) == CHOOSE r \in pops : keyOf(r) = k
           K == {keyOf(r) : r \in pops}
           ins == [k \in K |-> ruleOf(k).weight]
           A == CopyOf(input)
           job == [cur |-> cur, dnew |-> dnew, back |-> {}, calls |-> {}]
<1>1. /\ TypeOK /\ JobOK /\ InputOK(input) /\ rules \in RuleSet /\ dnew \in Weight
      /\ back = {} /\ calls = {} /\ fa' = Update(A, ins) /\ pc' = "saturate"
      /\ UNCHANGED <<rules, input, cur, dnew, back, calls>>
  BY DEF IInv, TypeOK, JobOK, Setup
<1>2. \A k \in K : ruleOf(k) \in pops /\ keyOf(ruleOf(k)) = k
  OBVIOUS
<1>3. \A r \in pops : ruleOf(keyOf(r)) = r
  <2> SUFFICES ASSUME NEW r \in pops, NEW x \in pops, keyOf(x) = keyOf(r) PROVE x = r
    BY <1>2
  <2>1. x.stk1 = EPS /\ r.stk1 = EPS /\ x.stk2 = EPS /\ r.stk2 = EPS
    BY <1>1, RuleParts DEF IsPop
  <2>2. x.from = r.from /\ x.stk = r.stk /\ x.to = r.to
    OBVIOUS
  <2> QED  BY <1>1, <2>1, <2>2 DEF RuleSet, SameRule
<1>4. K \in SUBSET Key /\ ins \in [K -> Weight]
  BY <1>1, <1>2, RuleParts DEF Key, State, Symbol
<1>5. /\ IsAutomaton(A) /\ A.trans = input.trans /\ A.marked = input.trans
      /\ \A k : D(A, k) = W(A, k)
      /\ \A k \in input.trans : W(A, k) = input.weight[k] /\ input.weight[k] \in Weight
  BY <1>1 DEF CopyOf, IsAutomaton, InputOK, IsInput, W, D
<1> HIDE DEF A, ins, K, ruleOf
<1> DEFINE B == Update(A, ins)
<1>6. /\ IsAutomaton(B) /\ B.trans = A.trans \cup K
      /\ Evolves(A, B) /\ Noted(A, B)
      /\ \A k \in K : Leq(ins[k], W(B, k))
  BY <1>4, <1>5, UpdateFacts, UpdateEvolves, UpdateNoted
<1>7. B = fa'
  BY <1>1
<1> HIDE DEF B
<1>8. FaInv(fa)'
  <2>1. \A k \in B.trans : k \in B.marked \/ D(B, k) = Zero
    BY <1>5, <1>6 DEF Noted
  <2>2. Covers(B, input)
    <3>1. ASSUME NEW k \in input.trans
          PROVE  k \in B.trans /\ Leq(input.weight[k], B.weight[k])
      BY <1>1, <1>5, <1>6 DEF Evolves, W, InputOK, IsInput
    <3> QED  BY <3>1 DEF Covers
  <2>3. ClosedUnderPops(B)
    <3>1. ASSUME NEW r \in rules, IsPop(r)
          PROVE  keyOf(r) \in B.trans /\ Leq(r.weight, B.weight[keyOf(r)])
      <4>1. keyOf(r) \in K /\ ins[keyOf(r)] = r.weight
        BY <1>3, <3>1 DEF K, ins
      <4> QED  BY <1>6, <4>1 DEF W
    <3> QED  BY <3>1 DEF ClosedUnderPops
  <2> QED  BY <1>1, <1>6, <1>7, <2>1, <2>2, <2>3 DEF FaInv, Covers, ClosedUnderPops
<1>9. ASSUME NEW t \in Key, NEW r \in rules
      PROVE  Succ(t, r) \in Key /\ r.weight \in Weight
             /\ First(A, job, t, r) = W(A, t) /\ Second(A, job, t, r) = W(A, t)
             /\ W(A, t) \in Weight /\ W(A, Succ(t, r)) \in Weight
  BY <1>1, <1>5, SuccKey, RuleParts, WeightTyped DEF First, Second
<1>10. StepsPaid(A, job)
  <2> SUFFICES ASSUME NEW t \in A.trans, NEW r \in rules
               PROVE  StepThere(A, job, t, r) /\ StepOwes(A, job, t, r)
    BY DEF StepsPaid
  <2>1. t \in Key /\ t \in A.marked
    BY <1>5 DEF IsAutomaton
  <2>2. Extend(r.weight, W(A, t)) \in Weight
    BY <1>9, <2>1, WeightClosed
  <2> QED  BY <1>9, <2>1, <2>2, CombineUpper DEF StepThere, StepOwes
<1>11. PushesPaid(A, job)
  <2> SUFFICES ASSUME NEW t \in A.trans, NEW u \in A.trans, NEW r \in rules
               PROVE  PushThere(A, job, t, u, r) /\ PushOwes(A, job, t, u, r)
    BY DEF PushesPaid
  <2>1. t \in Key /\ u \in Key /\ t \in A.marked
    BY <1>5 DEF IsAutomaton
  <2> DEFINE x == PushWeight(r, W(A, t), W(A, u))
             s == W(A, Succ(u, r))
  <2>2. x \in Weight /\ s \in Weight
    BY <1>9, <2>1, PushTyped
  <2>3. First(A, job, t, r) = W(A, t) /\ Second(A, job, u, r) = W(A, u)
    BY <1>9, <2>1
  <2> HIDE DEF x, s
  <2>4. Leq(x, Combine(s, Combine(x, x)))
    BY <2>2, CombineLaws, CombineUpper
  <2> QED  BY <2>1, <2>3, <2>4 DEF PushThere, PushOwes, x, s
<1>12. StepsPaid(B, job) /\ PushesPaid(B, job)
  <2>1. {} \ {} = {}
    OBVIOUS
  <2>2. StepsPaid(B, [cur |-> cur, dnew |-> dnew, back |-> {} \ {}, calls |-> {} \ {}])
    BY <1>1, <1>5, <1>6, <1>10, StepsKept
  <2>3. PushesPaid(B, [cur |-> cur, dnew |-> dnew, back |-> {} \ {}, calls |-> {} \ {}])
    BY <1>1, <1>5, <1>6, <1>11, PushesKept
  <2> QED  BY <2>1, <2>2, <2>3
<1>13. StepsPaid(fa, Job)' /\ PushesPaid(fa, Job)'
  <2>1. Job' = job
    BY <1>1 DEF Job
  <2> QED  BY <1>1, <1>7, <1>12, <2>1 DEF StepsPaid, PushesPaid
<1>14. TypeOK' /\ JobOK' /\ InputOK(input)'
  BY <1>1, <1>6, <1>7 DEF TypeOK, JobOK
<1> QED  BY <1>8, <1>13, <1>14 DEF IInv

(* The delta of the popped transition becomes dnew, its rules the job. *)
LEMMA PopIInv ==
    ASSUME IInv, Pop PROVE IInv'
<1>1. /\ TypeOK /\ JobOK /\ InputOK(input) /\ rules \in RuleSet
      /\ FaInv(fa) /\ StepsPaid(fa, Job) /\ PushesPaid(fa, Job) /\ IsAutomaton(fa)
      /\ pc = "saturate" /\ back = {} /\ calls = {}
      /\ UNCHANGED <<rules, input, pc>>
  BY DEF IInv, TypeOK, FaInv, Pop
<1>2. PICK t0 \in fa.marked :
          /\ cur' = t0 /\ dnew' = fa.delta[t0] /\ fa' = Take(fa, t0)
          /\ back' = BackwardRules(rules, t0.from, t0.stk)
          /\ calls' = CallRules(rules, t0.stk)
  BY DEF Pop
<1>3. t0 \in fa.trans /\ t0 \in Key /\ dnew' = D(fa, t0) /\ dnew' \in Weight
  BY <1>1, <1>2 DEF IsAutomaton, D
<1> DEFINE B == fa'
           jobB == [cur |-> t0, dnew |-> D(fa, t0),
                    back |-> BackwardRules(rules, t0.from, t0.stk),
                    calls |-> CallRules(rules, t0.stk)]
<1>4. /\ IsAutomaton(B) /\ B.trans = fa.trans /\ B.marked = fa.marked \ {t0}
      /\ B.weight = fa.weight /\ D(B, t0) = Zero
      /\ \A k : W(B, k) = W(fa, k)
      /\ \A k : k # t0 => D(B, k) = D(fa, k)
  BY <1>1, <1>2, <1>3, TakeFacts
<1> HIDE DEF B
<1>5. FaInv(B)
  BY <1>1, <1>4 DEF FaInv, Covers, ClosedUnderPops
<1>6. \A k : D(fa, k) \in Weight
  BY <1>1, WeightTyped
<1>7. ASSUME NEW t \in fa.trans, NEW r \in rules
      PROVE  /\ First(fa, Job, t, r) = D(fa, t) /\ Second(fa, Job, t, r) = D(fa, t)
             /\ t.from = r.to /\ t.stk = r.stk1 => First(B, jobB, t, r) = D(fa, t)
             /\ IsPush(r) /\ t.stk = r.stk2 => Second(B, jobB, t, r) = D(fa, t)
  <2>1. Job.back = {} /\ Job.calls = {}
    BY <1>1 DEF Job
  <2>2. Combine(Zero, D(fa, t0)) = D(fa, t0)
    BY <1>6, CombineLaws, WeightClosed
  <2> QED  BY <1>4, <2>1, <2>2 DEF First, Second, BackwardRules, CallRules
<1>8. StepsPaid(B, jobB)
  <2> SUFFICES ASSUME NEW t \in B.trans, NEW r \in rules, Reads(r, t)
               PROVE  StepThere(B, jobB, t, r) /\ StepOwes(B, jobB, t, r)
    BY DEF StepsPaid
  <2>1. StepThere(fa, Job, t, r) /\ StepOwes(fa, Job, t, r) /\ t \in fa.trans
    BY <1>1, <1>4 DEF StepsPaid
  <2>2. t = t0 => r \in jobB.back
    BY DEF Reads, BackwardRules
  <2>3. StepThere(B, jobB, t, r)
    BY <1>1, <1>4, <2>1, <2>2 DEF StepThere, Job
  <2>4. StepOwes(B, jobB, t, r)
    <3>1. First(fa, Job, t, r) = First(B, jobB, t, r)
      BY <1>7, <2>1 DEF Reads
    <3> QED  BY <1>4, <2>1, <3>1 DEF StepOwes
  <2> QED  BY <2>3, <2>4
<1>9. PushesPaid(B, jobB)
  <2> SUFFICES ASSUME NEW t \in B.trans, NEW u \in B.trans, NEW r \in rules,
                      ReadsPair(r, t, u)
               PROVE  PushThere(B, jobB, t, u, r) /\ PushOwes(B, jobB, t, u, r)
    BY DEF PushesPaid
  <2>1. PushThere(fa, Job, t, u, r) /\ PushOwes(fa, Job, t, u, r)
        /\ t \in fa.trans /\ u \in fa.trans
    BY <1>1, <1>4 DEF PushesPaid
  <2>2. t.from = r.to /\ t.stk = r.stk1 /\ IsPush(r) /\ u.stk = r.stk2
    BY DEF ReadsPair, Callee
  <2>3. (t = t0 => r \in jobB.back) /\ (u = t0 => r \in jobB.calls)
    BY <2>2 DEF BackwardRules, CallRules
  <2>4. PushThere(B, jobB, t, u, r)
    BY <1>1, <1>4, <2>1, <2>3 DEF PushThere, Job
  <2>5. PushOwes(B, jobB, t, u, r)
    <3>1. /\ First(fa, Job, t, r) = First(B, jobB, t, r)
          /\ Second(fa, Job, u, r) = Second(B, jobB, u, r)
      BY <1>7, <2>1, <2>2
    <3> QED  BY <1>4, <2>1, <3>1 DEF PushOwes
  <2> QED  BY <2>4, <2>5
<1>10. /\ FaInv(fa)' /\ StepsPaid(fa, Job)' /\ PushesPaid(fa, Job)'
  <2>1. Job' = jobB
    BY <1>2, <1>3 DEF Job
  <2> QED  BY <1>1, <1>5, <1>8, <1>9, <2>1 DEF B, FaInv, Covers, ClosedUnderPops,
       StepsPaid, PushesPaid
<1>11. TypeOK' /\ JobOK' /\ InputOK(input)'
  BY <1>1, <1>2, <1>3, <1>4 DEF B, TypeOK, JobOK, BackwardRules, CallRules
<1> QED  BY <1>1, <1>10, <1>11 DEF IInv

(* A rule that reads one transition pays what it owes for the popped one. *)
LEMMA HandleRuleIInv ==
    ASSUME IInv, HandleRule
    PROVE  IInv' /\ \E r \in back : /\ Reads(r, cur)
                                    /\ fa' = Update(fa, At(Succ(cur, r), Extend(r.weight, dnew)))
<1>1. PICK r \in back : /\ ~ IsPush(r)
                        /\ fa' = Update(fa, At(Succ(cur, r), Extend(r.weight, dnew)))
                        /\ back' = back \ {r}
  BY DEF HandleRule
<1>2. /\ pc = "saturate" /\ UNCHANGED <<rules, input, pc, cur, dnew, calls>>
      /\ rules \in RuleSet /\ r \in rules /\ dnew \in Weight /\ cur \in Key
      /\ r.to = cur.from /\ r.stk1 = cur.stk
  BY DEF HandleRule, IInv, TypeOK, JobOK, FaInv, IsAutomaton, BackwardRules
<1> DEFINE K == {Succ(cur, r)}
           ins == At(Succ(cur, r), Extend(r.weight, dnew))
<1>3. /\ K \in SUBSET Key /\ ins \in [K -> Weight]
      /\ ins[Succ(cur, r)] = Extend(r.weight, dnew)
  BY <1>2, SuccKey, RuleParts, WeightClosed DEF At
<1> HIDE DEF ins
<1>4. /\ \A x \in {r} \cap rules : Reads(x, cur) =>
            Succ(cur, x) \in K /\ ins[Succ(cur, x)] = Extend(x.weight, dnew)
      /\ \A x \in {r} \cap rules, u \in fa.trans : ReadsPair(x, cur, u) =>
            Succ(u, x) \in K /\ ins[Succ(u, x)] = PushWeight(x, dnew, W(fa, u))
      /\ \A x \in {} \cap rules, t \in fa.trans : ReadsPair(x, t, cur) =>
            Succ(cur, x) \in K /\ ins[Succ(cur, x)] = PushWeight(x, W(fa, t), dnew)
  BY <1>1, <1>3 DEF ReadsPair
<1>5. fa' = Update(fa, ins) /\ back' = back \ {r} /\ calls' = calls \ {}
  BY <1>1, <1>2 DEF ins
<1> HIDE DEF K
<1>6. StepBy({r}, {}, K, ins)
  BY <1>2, <1>3, <1>4, <1>5 DEF StepBy
<1>6a. IInv'
  BY <1>6, StepKept
<1>7. Reads(r, cur)
  BY <1>1, <1>2 DEF Reads
<1> QED  BY <1>1, <1>6a, <1>7

(* A push rule meets every transition that can follow the popped one. *)
LEMMA PushFirstIInv ==
    ASSUME IInv, HandlePushFirst
    PROVE  IInv' /\ \E K \in SUBSET Key : \E ins \in [K -> Weight], r \in rules :
               /\ fa' = Update(fa, ins)
               /\ \A k \in K : \E u \in fa.trans :
                     /\ ReadsPair(r, cur, u) /\ k = Succ(u, r)
                     /\ ins[k] = PushWeight(r, dnew, W(fa, u))
<1>1. PICK r \in back :
          LET second == Matching(fa, cur.to, r.stk2)
              via(k) == CHOOSE u \in second : u.to = k.to
          IN  /\ IsPush(r)
              /\ fa' = Update(fa, [k \in {Succ(u, r) : u \in second} |->
                          PushWeight(r, dnew, fa.weight[via(k)])])
              /\ back' = back \ {r}
  BY DEF HandlePushFirst
<1> DEFINE second == Matching(fa, cur.to, r.stk2)
           via(k) == CHOOSE u \in second : u.to = k.to
           K == {Succ(u, r) : u \in second}
           ins == [k \in K |-> PushWeight(r, dnew, fa.weight[via(k)])]
<1>2. /\ pc = "saturate" /\ UNCHANGED <<rules, input, pc, cur, dnew, calls>>
      /\ rules \in RuleSet /\ r \in rules /\ dnew \in Weight /\ cur \in Key
      /\ r.to = cur.from /\ r.stk1 = cur.stk /\ IsAutomaton(fa)
  BY DEF HandlePushFirst, IInv, TypeOK, JobOK, FaInv, IsAutomaton, BackwardRules
<1>3. \A u \in second : /\ u \in fa.trans /\ u \in Key /\ u.from = cur.to /\ u.stk = r.stk2
                        /\ fa.weight[u] = W(fa, u) /\ W(fa, u) \in Weight
                        /\ Succ(u, r) \in Key /\ Succ(u, r).to = u.to
  BY <1>2, SuccKey, WeightTyped DEF Matching, IsAutomaton, W, Succ
<1>4. \A u \in second : via(Succ(u, r)) = u
  <2> SUFFICES ASSUME NEW u \in second, NEW x \in second, x.to = u.to PROVE x = u
    BY <1>3
  <2> QED  BY <1>3 DEF Key
<1>5. \A u \in second : Succ(u, r) \in K /\ ins[Succ(u, r)] = PushWeight(r, dnew, W(fa, u))
  BY <1>3, <1>4
<1>6. K \in SUBSET Key
  BY <1>3
<1>7. ins \in [K -> Weight]
  <2>1. \A u \in second : PushWeight(r, dnew, W(fa, u)) \in Weight
    BY <1>2, <1>3, RuleParts, PushTyped
  <2> QED  BY <1>3, <1>4, <2>1
<1>8. \A u \in fa.trans : ReadsPair(r, cur, u) <=> u \in second
  <2>1. ASSUME NEW u \in fa.trans PROVE ReadsPair(r, cur, u) <=> u \in second
    <3>1. u \in Key
      BY <1>2 DEF IsAutomaton
    <3>2. cur = Callee(r, u.from) <=> u.from = cur.to
      BY <1>2 DEF Callee, Key
    <3> QED  BY <1>1, <3>2 DEF ReadsPair, Matching
  <2> QED  BY <2>1
<1>9. fa' = Update(fa, ins) /\ back' = back \ {r} /\ calls' = calls \ {}
  BY <1>1, <1>2
<1>10. \A k \in K : \E u \in second : k = Succ(u, r)
  OBVIOUS
<1> HIDE DEF ins, K, second
<1>11. /\ \A x \in {r} \cap rules : Reads(x, cur) =>
             Succ(cur, x) \in K /\ ins[Succ(cur, x)] = Extend(x.weight, dnew)
       /\ \A x \in {r} \cap rules, u \in fa.trans : ReadsPair(x, cur, u) =>
             Succ(u, x) \in K /\ ins[Succ(u, x)] = PushWeight(x, dnew, W(fa, u))
       /\ \A x \in {} \cap rules, t \in fa.trans : ReadsPair(x, t, cur) =>
             Succ(cur, x) \in K /\ ins[Succ(cur, x)] = PushWeight(x, W(fa, t), dnew)
  BY <1>1, <1>5, <1>8 DEF Reads
<1>12. StepBy({r}, {}, K, ins)
  BY <1>2, <1>6, <1>7, <1>9, <1>11 DEF StepBy
<1>12a. IInv'
  BY <1>12, StepKept
<1>13. \A k \in K : \E u \in fa.trans : /\ ReadsPair(r, cur, u) /\ k = Succ(u, r)
                                        /\ ins[k] = PushWeight(r, dnew, W(fa, u))
  BY <1>3, <1>5, <1>8, <1>10
<1> QED  BY <1>2, <1>6, <1>7, <1>9, <1>12a, <1>13

(* A push rule meets the transition that goes before the popped one. *)
LEMMA PushSecondIInv ==
    ASSUME IInv, HandlePushSecond
    PROVE  IInv' /\ \/ fa' = fa
                    \/ \E r \in rules, t \in fa.trans :
                          /\ ReadsPair(r, t, cur)
                          /\ fa' = Update(fa, At(Succ(cur, r), PushWeight(r, W(fa, t), dnew)))
<1>1. PICK r \in calls :
          LET tp == Callee(r, cur.from)
          IN  /\ fa' = IF tp \in fa.trans
                       THEN Update(fa, At(Succ(cur, r), PushWeight(r, fa.weight[tp], dnew)))
                       ELSE fa
              /\ calls' = calls \ {r}
  BY DEF HandlePushSecond
<1> DEFINE tp == Callee(r, cur.from)
           there == tp \in fa.trans
           K == IF there THEN {Succ(cur, r)} ELSE {}
           ins == [x \in K |-> PushWeight(r, W(fa, tp), dnew)]
<1>2. /\ pc = "saturate" /\ UNCHANGED <<rules, input, pc, cur, dnew, back>>
      /\ rules \in RuleSet /\ r \in rules /\ dnew \in Weight /\ cur \in Key
      /\ IsPush(r) /\ r.stk2 = cur.stk /\ IsAutomaton(fa)
  BY DEF HandlePushSecond, IInv, TypeOK, JobOK, FaInv, IsAutomaton, CallRules
<1>3. W(fa, tp) \in Weight
  BY <1>2, WeightTyped
<1>4. K \in SUBSET Key /\ ins \in [K -> Weight]
  BY <1>2, <1>3, SuccKey, RuleParts, PushTyped
<1>5. \A t \in fa.trans : ReadsPair(r, t, cur) <=> t = tp
  BY <1>2 DEF ReadsPair
<1>6. /\ there => fa' = Update(fa, ins) /\ fa' = Update(fa, At(Succ(cur, r), PushWeight(r, W(fa, tp), dnew)))
      /\ ~ there => fa' = fa /\ K = {}
  <2>1. there => fa.weight[tp] = W(fa, tp)
    BY DEF W
  <2> QED  BY <1>1, <2>1 DEF At
<1>7. there => Succ(cur, r) \in K /\ ins[Succ(cur, r)] = PushWeight(r, W(fa, tp), dnew)
  OBVIOUS
<1> HIDE DEF K, ins
<1>8. /\ \A x \in {} \cap rules : Reads(x, cur) =>
            Succ(cur, x) \in K /\ ins[Succ(cur, x)] = Extend(x.weight, dnew)
      /\ \A x \in {} \cap rules, u \in fa.trans : ReadsPair(x, cur, u) =>
            Succ(u, x) \in K /\ ins[Succ(u, x)] = PushWeight(x, dnew, W(fa, u))
      /\ \A x \in {r} \cap rules, t \in fa.trans : ReadsPair(x, t, cur) =>
            Succ(cur, x) \in K /\ ins[Succ(cur, x)] = PushWeight(x, W(fa, t), dnew)
  BY <1>5, <1>7
<1>9. /\ fa' = Update(fa, ins) \/ (K = {} /\ fa' = fa)
      /\ back' = back \ {} /\ calls' = calls \ {r}
  BY <1>1, <1>2, <1>6
<1>10. StepBy({}, {r}, K, ins)
  BY <1>2, <1>4, <1>8, <1>9 DEF StepBy
<1>10a. IInv'
  BY <1>10, StepKept
<1> QED  BY <1>2, <1>5, <1>6, <1>10a

(* When the worklist is empty there is no job, and none is forgotten. *)
LEMMA FinishIInv ==
    ASSUME IInv, Finish PROVE IInv'
<1>1. /\ TypeOK /\ InputOK(input) /\ FaInv(fa) /\ StepsPaid(fa, Job) /\ PushesPaid(fa, Job)
      /\ back = {} /\ calls = {} /\ fa.marked = {} /\ pc' = "done"
      /\ cur' = NoKey /\ dnew' = Zero
      /\ UNCHANGED <<rules, input, fa, back, calls>>
  BY DEF IInv, Finish
<1>2. \A t, r : /\ First(fa, Job, t, r)' = First(fa, Job, t, r)
                /\ Second(fa, Job, t, r)' = Second(fa, Job, t, r)
  BY <1>1 DEF First, Second, Job
<1>3. TypeOK' /\ JobOK' /\ InputOK(input)' /\ FaInv(fa)'
  BY <1>1, WeightClosed DEF TypeOK, JobOK, FaInv, Covers, ClosedUnderPops
<1>4. StepsPaid(fa, Job)'
  <2> SUFFICES ASSUME NEW t \in fa.trans, NEW r \in rules, Reads(r, t)
               PROVE  StepThere(fa, Job, t, r)' /\ StepOwes(fa, Job, t, r)'
    BY <1>1 DEF StepsPaid
  <2>1. StepThere(fa, Job, t, r) /\ StepOwes(fa, Job, t, r)
    BY <1>1 DEF StepsPaid
  <2>2. StepThere(fa, Job, t, r)'
    BY <1>1, <2>1 DEF StepThere, Job
  <2>3. StepOwes(fa, Job, t, r)'
    BY <1>1, <1>2, <2>1 DEF StepOwes
  <2> QED  BY <2>2, <2>3
<1>5. PushesPaid(fa, Job)'
  <2> SUFFICES ASSUME NEW t \in fa.trans, NEW u \in fa.trans, NEW r \in rules,
                      ReadsPair(r, t, u)
               PROVE  PushThere(fa, Job, t, u, r)' /\ PushOwes(fa, Job, t, u, r)'
    BY <1>1 DEF PushesPaid
  <2>1. PushThere(fa, Job, t, u, r) /\ PushOwes(fa, Job, t, u, r)
    BY <1>1 DEF PushesPaid
  <2>2. PushThere(fa, Job, t, u, r)'
    BY <1>1, <2>1 DEF PushThere, Job
  <2>3. PushOwes(fa, Job, t, u, r)'
    BY <1>1, <1>2, <2>1 DEF PushOwes
  <2> QED  BY <2>2, <2>3
<1> QED  BY <1>3, <1>4, <1>5 DEF IInv

(* Every step of the query keeps the invariant. *)
LEMMA NextIInv == IInv /\ [Next]_vars => IInv'
<1> SUFFICES ASSUME IInv, [Next]_vars PROVE IInv'  OBVIOUS
<1>1. CASE UNCHANGED vars
  BY <1>1 DEF vars, IInv, TypeOK, JobOK, FaInv, Covers, ClosedUnderPops, StepsPaid,
     PushesPaid, StepThere, StepOwes, PushThere, PushOwes, First, Second, Job
<1> QED
  BY <1>1, SetupIInv, PopIInv, HandleRuleIInv, PushFirstIInv, PushSecondIInv, FinishIInv
     DEF Next
-----------------------------------------------------------------------------
(* Setup starts from the input and the pop rules, which S holds. *)
LEMMA SetupInside ==
    ASSUME IInv, Setup, NEW S, IsBounds(S), Closed(S)
    PROVE  JobInside(fa', cur', dnew', S)
<1> DEFINE pops == {r \in rules : IsPop(r)}
           ruleOf(k) == CHOOSE r \in pops : PopKey(r) = k
           K == {PopKey(r) : r \in pops}
           ins == [k \in K |-> ruleOf(k).weight]
           A == CopyOf(input)
<1>1. /\ InputOK(input) /\ rules \in RuleSet /\ dnew = Zero
      /\ fa' = Update(A, ins) /\ cur' = cur /\ dnew' = dnew
  BY DEF IInv, TypeOK, JobOK, Setup, PopKey
<1>2. \A k \in K : ruleOf(k) \in pops /\ PopKey(ruleOf(k)) = k
  OBVIOUS
<1>3. K \in SUBSET Key /\ ins \in [K -> Weight]
  BY <1>1, <1>2, RuleParts DEF Key, State, Symbol, PopKey
<1>4. K \subseteq S.trans /\ \A k \in K : ins[k] \in S.below[k]
  BY <1>2 DEF Closed, PopsStay
<1>5. IsAutomaton(A)
  BY <1>1 DEF CopyOf, IsAutomaton, InputOK, IsInput
<1>6. Inside(A, S)
  BY DEF CopyOf, Closed, InputStays, Inside
<1>7. cur \in S.trans => Zero \in S.below[cur]
  BY DEF IsBounds, IsIdeal
<1> HIDE DEF A, ins, K
<1>8. Inside(Update(A, ins), S)
  BY <1>3, <1>4, <1>5, <1>6, UpdateInside
<1> QED  BY <1>1, <1>7, <1>8 DEF JobInside

(* Every other step applies a rule to weights that are within S. *)
LEMMA StepInside ==
    ASSUME IInv, NEW S, IsBounds(S), Closed(S), JobInside(fa, cur, dnew, S),
           Pop \/ HandleRule \/ HandlePushFirst \/ HandlePushSecond \/ Finish
    PROVE  JobInside(fa', cur', dnew', S)
<1>1. /\ rules \in RuleSet /\ dnew \in Weight /\ IsAutomaton(fa) /\ Inside(fa, S)
      /\ cur \in S.trans => dnew \in S.below[cur]
      /\ \A k \in fa.trans : /\ k \in Key /\ k \in S.trans
                              /\ W(fa, k) \in Weight /\ W(fa, k) \in S.below[k]
  BY WeightTyped DEF IInv, TypeOK, JobInside, Inside, W, IsAutomaton
<1>2. ASSUME HandleRule \/ HandlePushFirst \/ HandlePushSecond
      PROVE  cur' = cur /\ dnew' = dnew /\ cur \in fa.trans /\ dnew \in S.below[cur]
  BY <1>1, <1>2 DEF HandleRule, HandlePushFirst, HandlePushSecond, IInv, JobOK
<1>3. CASE Pop
  <2>1. PICK t \in fa.marked : cur' = t /\ dnew' = fa.delta[t] /\ fa' = Take(fa, t)
    BY <1>3 DEF Pop
  <2>2. t \in fa.trans
    BY <1>1, <2>1 DEF IsAutomaton
  <2>3. Inside(Take(fa, t), S) /\ fa.delta[t] \in S.below[t]
    BY <1>1, <2>2, TakeInside
  <2> QED  BY <2>1, <2>3 DEF JobInside
<1>4. CASE HandleRule
  <2>1. PICK r \in back :
            Reads(r, cur) /\ fa' = Update(fa, At(Succ(cur, r), Extend(r.weight, dnew)))
    BY <1>4, HandleRuleIInv
  <2>2. r \in rules /\ r.weight \in Weight /\ Succ(cur, r) \in Key /\ cur \in S.trans
    BY <1>1, <1>2, <1>4, <2>1, RuleParts, SuccKey DEF HandleRule, IInv, TypeOK, JobOK
  <2>3. Succ(cur, r) \in S.trans /\ Extend(r.weight, dnew) \in S.below[Succ(cur, r)]
    BY <1>2, <1>4, <2>1, <2>2 DEF Closed, StepsStay
  <2> DEFINE ins == At(Succ(cur, r), Extend(r.weight, dnew))
  <2>4. /\ {Succ(cur, r)} \in SUBSET Key /\ ins \in [{Succ(cur, r)} -> Weight]
        /\ {Succ(cur, r)} \subseteq S.trans
        /\ \A k \in {Succ(cur, r)} : ins[k] \in S.below[k]
    BY <1>1, <2>2, <2>3, WeightClosed DEF At
  <2> HIDE DEF ins
  <2>5. Inside(Update(fa, ins), S)
    BY <1>1, <2>4, UpdateInside
  <2> QED  BY <1>2, <1>4, <2>1, <2>5 DEF ins, JobInside
<1>5. CASE HandlePushFirst
  <2>1. PICK K \in SUBSET Key : \E ins \in [K -> Weight], r \in rules :
            /\ fa' = Update(fa, ins)
            /\ \A k \in K : \E u \in fa.trans :
                  /\ ReadsPair(r, cur, u) /\ k = Succ(u, r)
                  /\ ins[k] = PushWeight(r, dnew, W(fa, u))
    BY <1>5, PushFirstIInv
  <2>2. PICK ins \in [K -> Weight], r \in rules :
            /\ fa' = Update(fa, ins)
            /\ \A k \in K : \E u \in fa.trans :
                  /\ ReadsPair(r, cur, u) /\ k = Succ(u, r)
                  /\ ins[k] = PushWeight(r, dnew, W(fa, u))
    BY <2>1
  <2>3. ASSUME NEW k \in K PROVE k \in S.trans /\ ins[k] \in S.below[k]
    <3>1. PICK u \in fa.trans : /\ ReadsPair(r, cur, u) /\ k = Succ(u, r)
                                /\ ins[k] = PushWeight(r, dnew, W(fa, u))
      BY <2>2
    <3> QED  BY <1>1, <1>2, <1>5, <3>1 DEF Closed, PushesStay
  <2>4. K \subseteq S.trans /\ \A k \in K : ins[k] \in S.below[k]
    BY <2>3
  <2>5. Inside(Update(fa, ins), S)
    BY <1>1, <2>4, UpdateInside
  <2> QED  BY <1>2, <1>5, <2>2, <2>5 DEF JobInside
<1>6. CASE HandlePushSecond
  <2>1. CASE fa' = fa
    BY <1>1, <1>2, <1>6, <2>1 DEF JobInside
  <2>2. CASE \E r \in rules, t \in fa.trans :
                /\ ReadsPair(r, t, cur)
                /\ fa' = Update(fa, At(Succ(cur, r), PushWeight(r, W(fa, t), dnew)))
    <3>1. PICK r \in rules, t \in fa.trans :
                /\ ReadsPair(r, t, cur)
                /\ fa' = Update(fa, At(Succ(cur, r), PushWeight(r, W(fa, t), dnew)))
      BY <2>2
    <3> DEFINE w == PushWeight(r, W(fa, t), dnew)
               ins == At(Succ(cur, r), w)
    <3>2. Succ(cur, r) \in Key /\ w \in Weight
      BY <1>1, <1>2, <1>6, RuleParts, SuccKey, PushTyped
    <3>3. Succ(cur, r) \in S.trans /\ w \in S.below[Succ(cur, r)]
      BY <1>1, <1>2, <1>6, <3>1 DEF Closed, PushesStay
    <3> HIDE DEF w
    <3>4. /\ {Succ(cur, r)} \in SUBSET Key /\ ins \in [{Succ(cur, r)} -> Weight]
          /\ {Succ(cur, r)} \subseteq S.trans
          /\ \A k \in {Succ(cur, r)} : ins[k] \in S.below[k]
      BY <3>2, <3>3 DEF At
    <3> HIDE DEF ins
    <3>5. Inside(Update(fa, ins), S)
      BY <1>1, <3>4, UpdateInside
    <3> QED  BY <1>2, <1>6, <3>1, <3>5 DEF ins, w, JobInside
  <2> QED  BY <1>6, <2>1, <2>2, PushSecondIInv
<1>7. CASE Finish
  <2>1. fa' = fa /\ dnew' = Zero
    BY <1>7 DEF Finish
  <2>2. cur' \in S.trans => Zero \in S.below[cur']
    BY DEF IsBounds, IsIdeal
  <2> QED  BY <1>1, <2>1, <2>2 DEF JobInside
<1> QED  BY <1>3, <1>4, <1>5, <1>6, <1>7

LEMMA BelowStep ==
    IInv /\ Below /\ [Next]_vars => Below'
<1> SUFFICES ASSUME IInv, Below, [Next]_vars, NEW S, IsBounds(S), Closed(S)'
             PROVE  JobInside(fa', cur', dnew', S)
  BY DEF Below, JobInside, Inside
<1>1. rules' = rules /\ input' = input
  BY DEF Next, vars, Setup, Pop, HandleRule, HandlePushFirst, HandlePushSecond, Finish
<1>2. Closed(S)
  BY <1>1 DEF Closed, PopsStay, StepsStay, PushesStay, InputStays
<1>3. JobInside(fa, cur, dnew, S)
  BY <1>2 DEF Below
<1>4. CASE UNCHANGED vars
  BY <1>3, <1>4 DEF vars
<1> QED  BY <1>2, <1>3, <1>4, SetupInside, StepInside DEF Next

LEMMA BelowInvariant == Spec => []Below
<1>1. Init => Below
  <2> SUFFICES ASSUME Init, NEW S, IsBounds(S) PROVE JobInside(fa, cur, dnew, S)
    BY DEF Below
  <2>1. Inside(fa, S)
    BY DEF Init, EmptyAutomaton, Inside
  <2>2. cur \in S.trans => Zero \in S.below[cur]
    BY DEF IsBounds, IsIdeal
  <2> QED  BY <2>1, <2>2 DEF Init, JobInside
<1> QED  BY <1>1, BelowStep, InitIInv, NextIInv, PTL DEF Spec

(* The weights below those of a solution are bounds that stay. *)
LEMMA SolutionClosed ==
    ASSUME rules \in RuleSet, IsInput(input), NEW S, IsWeighted(S), Solution(S)
    PROVE  Closed(BelowOf(S))
<1> DEFINE B == BelowOf(S)
<1>1. /\ B.trans = S.trans
      /\ \A k \in S.trans : \A x : x \in B.below[k] <=> x \in Weight /\ Leq(x, S.weight[k])
  BY UnderInside
<1>2. \A k \in S.trans : S.weight[k] \in Weight
  BY DEF IsWeighted
<1>3. \A r \in rules : r.weight \in Weight
  BY RuleParts
<1> HIDE DEF B
<1>4. PopsStay(B)
  BY <1>1, <1>3 DEF Solution, ClosedUnderPops, PopsStay, PopKey
<1>5. ASSUME NEW r \in rules, NEW t \in S.trans, Reads(r, t)
      PROVE  /\ Succ(t, r) \in S.trans
             /\ \A w \in B.below[t] : Extend(r.weight, w) \in B.below[Succ(t, r)]
  <2>1. /\ Succ(t, r) \in S.trans
        /\ Leq(Extend(r.weight, S.weight[t]), S.weight[Succ(t, r)])
    BY <1>5 DEF Solution, ClosedUnderSteps, Reads
  <2>2. ASSUME NEW w \in B.below[t] PROVE Extend(r.weight, w) \in B.below[Succ(t, r)]
    <3>1. /\ w \in Weight /\ Leq(w, S.weight[t]) /\ S.weight[t] \in Weight
          /\ S.weight[Succ(t, r)] \in Weight /\ r.weight \in Weight
      BY <1>1, <1>2, <1>3, <2>1
    <3>2. /\ Extend(r.weight, w) \in Weight /\ Extend(r.weight, S.weight[t]) \in Weight
          /\ Leq(Extend(r.weight, w), Extend(r.weight, S.weight[t]))
      BY <3>1, ExtendMono, WeightClosed
    <3>3. Leq(Extend(r.weight, w), S.weight[Succ(t, r)])
      BY <2>1, <3>1, <3>2, LeqTrans
    <3> QED  BY <1>1, <2>1, <3>2, <3>3
  <2> QED  BY <2>1, <2>2
<1>6. ASSUME NEW r \in rules, NEW t \in S.trans, NEW u \in S.trans, ReadsPair(r, t, u)
      PROVE  /\ Succ(u, r) \in S.trans
             /\ \A v \in B.below[t], w \in B.below[u] :
                   PushWeight(r, v, w) \in B.below[Succ(u, r)]
  <2>1. /\ Succ(u, r) \in S.trans
        /\ Leq(PushWeight(r, S.weight[t], S.weight[u]), S.weight[Succ(u, r)])
    BY <1>6 DEF Solution, ClosedUnderPushes, ReadsPair, PushWeight
  <2>2. ASSUME NEW v \in B.below[t], NEW w \in B.below[u]
        PROVE  PushWeight(r, v, w) \in B.below[Succ(u, r)]
    <3>1. /\ v \in Weight /\ Leq(v, S.weight[t]) /\ S.weight[t] \in Weight
          /\ w \in Weight /\ Leq(w, S.weight[u]) /\ S.weight[u] \in Weight
          /\ S.weight[Succ(u, r)] \in Weight /\ r.weight \in Weight
      BY <1>1, <1>2, <1>3, <2>1
    <3>2. /\ PushWeight(r, v, w) \in Weight
          /\ PushWeight(r, S.weight[t], S.weight[u]) \in Weight
          /\ Leq(PushWeight(r, v, w), PushWeight(r, S.weight[t], S.weight[u]))
      BY <3>1, PushMono, PushTyped
    <3>3. Leq(PushWeight(r, v, w), S.weight[Succ(u, r)])
      BY <2>1, <3>1, <3>2, LeqTrans
    <3> QED  BY <1>1, <2>1, <3>2, <3>3
  <2> QED  BY <2>1, <2>2
<1>7. InputStays(B)
  BY <1>1 DEF Solution, Covers, InputStays, IsInput
<1>8. StepsStay(B) /\ PushesStay(B)
  BY <1>1, <1>5, <1>6 DEF StepsStay, PushesStay
<1> QED  BY <1>4, <1>7, <1>8 DEF Closed, B
-----------------------------------------------------------------------------
(* The invariant leaves no debt when the query is done. *)
LEMMA IInvSaturated == IInv => SaturatedWhenDone
<1> SUFFICES ASSUME IInv, pc = "done" PROVE Solution(fa)
  BY DEF SaturatedWhenDone
<1>1. /\ FaInv(fa) /\ StepsPaid(fa, Job) /\ PushesPaid(fa, Job)
      /\ fa.marked = {} /\ back = {} /\ calls = {} /\ rules \in RuleSet
  BY DEF IInv, JobOK, TypeOK
<1>2. /\ Job.back = {} /\ Job.calls = {}
      /\ \A k \in fa.trans : /\ D(fa, k) = Zero /\ fa.weight[k] = W(fa, k)
                             /\ W(fa, k) \in Weight /\ k \in Key
  BY <1>1, WeightTyped DEF Job, FaInv, W, IsAutomaton
<1>3. \A r \in rules : r.weight \in Weight
  BY <1>1, RuleParts
<1>4. ASSUME NEW r \in rules, NEW t \in fa.trans, Reads(r, t)
      PROVE  /\ Succ(t, r) \in fa.trans
             /\ Leq(Extend(r.weight, fa.weight[t]), fa.weight[Succ(t, r)])
  <2>1. StepThere(fa, Job, t, r) /\ StepOwes(fa, Job, t, r)
    BY <1>1, <1>4 DEF StepsPaid
  <2>2. Succ(t, r) \in fa.trans /\ First(fa, Job, t, r) = Zero
    BY <1>1, <1>2, <2>1 DEF StepThere, First
  <2>3. Combine(W(fa, Succ(t, r)), Extend(r.weight, Zero)) = W(fa, Succ(t, r))
    BY <1>2, <1>3, <2>2, ExtendLaws, CombineLaws
  <2> QED  BY <1>2, <2>1, <2>2, <2>3 DEF StepOwes
<1>5. ASSUME NEW r \in rules, NEW t \in fa.trans, NEW u \in fa.trans, ReadsPair(r, t, u)
      PROVE  /\ Succ(u, r) \in fa.trans
             /\ Leq(PushWeight(r, fa.weight[t], fa.weight[u]), fa.weight[Succ(u, r)])
  <2>1. PushThere(fa, Job, t, u, r) /\ PushOwes(fa, Job, t, u, r)
    BY <1>1, <1>5 DEF PushesPaid
  <2>2. Succ(u, r) \in fa.trans /\ First(fa, Job, t, r) = Zero /\ Second(fa, Job, u, r) = Zero
    BY <1>1, <1>2, <2>1 DEF PushThere, First, Second
  <2>3. /\ PushWeight(r, Zero, W(fa, u)) = Zero /\ PushWeight(r, W(fa, t), Zero) = Zero
    BY <1>2, <1>3, PushZero
  <2>4. Combine(W(fa, Succ(u, r)), Combine(Zero, Zero)) = W(fa, Succ(u, r))
    BY <1>2, <2>2, CombineLaws, WeightClosed
  <2> QED  BY <1>2, <2>1, <2>2, <2>3, <2>4 DEF PushOwes
<1>6. ClosedUnderSteps(fa)
  BY <1>4 DEF ClosedUnderSteps, Reads
<1>7. ClosedUnderPushes(fa)
  BY <1>5 DEF ClosedUnderPushes, ReadsPair, PushWeight
<1> QED  BY <1>1, <1>6, <1>7 DEF Solution, FaInv

(* The inductive invariant of prestar, for any rules, inputs and weights. *)
THEOREM PrestarInvariant == Spec => []IInv
BY InitIInv, NextIInv, PTL DEF Spec

(* Every state of the query is well typed. *)
THEOREM PrestarTyped == Spec => []TypeOK
<1>1. IInv => TypeOK
  BY DEF IInv
<1> QED  BY <1>1, PrestarInvariant, PTL

(* prestar returns a solution of the saturation equations. *)
THEOREM PrestarSaturates == Spec => []SaturatedWhenDone
BY PrestarInvariant, IInvSaturated, PTL

(* No update is lost: a delta that is not zero waits on the worklist. *)
THEOREM PrestarLosesNothing == Spec => []NoLostUpdate
<1>1. IInv => NoLostUpdate
  <2> SUFFICES ASSUME IInv, NEW k \in fa.trans PROVE k \in fa.marked \/ fa.delta[k] = Zero
    BY DEF NoLostUpdate
  <2>1. CASE pc = "setup"
    BY <2>1 DEF IInv, JobOK, EmptyAutomaton
  <2>2. CASE pc \in {"saturate", "done"}
    BY <2>2 DEF IInv, FaInv, D
  <2> QED  BY <2>1, <2>2 DEF IInv, TypeOK
<1> QED  BY <1>1, PrestarInvariant, PTL

(* Of all solutions of the equations, prestar returns the least. *)
THEOREM PrestarLeast == Spec => []LeastWhenDone
<1>1. IInv /\ Below => LeastWhenDone
  <2> SUFFICES ASSUME IInv, Below, NEW S, IsWeighted(S), Solution(S)
               PROVE  Covers(S, fa)
    BY DEF LeastWhenDone
  <2>1. IsBounds(BelowOf(S)) /\ Closed(BelowOf(S))
    BY UnderInside, SolutionClosed DEF IInv, TypeOK
  <2>2. IsAutomaton(fa) /\ Inside(fa, BelowOf(S))
    BY <2>1 DEF IInv, TypeOK, Below, JobInside
  <2>3. Under(fa, S)
    BY <2>2, UnderInside
  <2> QED  BY <2>3 DEF Under, Covers
<1> QED  BY <1>1, BelowInvariant, PrestarInvariant, PTL

(* Weights only grow and transitions never disappear. *)
THEOREM PrestarGrows == Spec => Monotone
<1>1. IInv /\ [Next]_vars => [Grows]_vars
  <2> SUFFICES ASSUME IInv, Next PROVE Grows
    OBVIOUS
  <2>1. IsAutomaton(fa) /\ rules \in RuleSet
    BY DEF IInv, TypeOK
  <2>2. CASE Setup
    BY <2>2 DEF IInv, JobOK, Setup, EmptyAutomaton, Grows
  <2>3. CASE fa'.trans = fa.trans /\ fa'.weight = fa.weight
    BY <2>1, <2>3, LeqBasics DEF Grows, IsAutomaton
  <2>4. CASE \E K \in SUBSET Key : \E ins \in [K -> Weight] : fa' = Update(fa, ins)
    <3>1. PICK K \in SUBSET Key : \E ins \in [K -> Weight] : fa' = Update(fa, ins)
      BY <2>4
    <3>2. PICK ins \in [K -> Weight] : fa' = Update(fa, ins)
      BY <3>1
    <3>3. Evolves(fa, Update(fa, ins))
      BY <2>1, UpdateEvolves
    <3>4. Evolves(fa, fa')
      BY <3>2, <3>3
    <3> QED  BY <2>1, <3>4 DEF Evolves, Grows, W, IsAutomaton
  <2>5. CASE Pop
    <3>1. PICK t \in fa.marked : fa' = Take(fa, t)
      BY <2>5 DEF Pop
    <3>2. fa'.trans = fa.trans /\ fa'.weight = fa.weight
      BY <2>1, <3>1, TakeFacts DEF IsAutomaton
    <3> QED  BY <2>3, <3>2
  <2>6. CASE HandleRule
    <3>1. PICK r \in back : fa' = Update(fa, At(Succ(cur, r), Extend(r.weight, dnew)))
      BY <2>6, HandleRuleIInv
    <3>2. /\ {Succ(cur, r)} \in SUBSET Key
          /\ At(Succ(cur, r), Extend(r.weight, dnew)) \in [{Succ(cur, r)} -> Weight]
      BY <2>1, <2>6, SuccKey, RuleParts, WeightClosed
         DEF HandleRule, IInv, TypeOK, JobOK, IsAutomaton, At
    <3> QED  BY <2>4, <3>1, <3>2
  <2>7. CASE HandlePushFirst
    BY <2>4, <2>7, PushFirstIInv
  <2>8. CASE HandlePushSecond
    <3>1. CASE fa' = fa
      BY <2>3, <3>1
    <3>2. CASE \E r \in rules, t \in fa.trans :
                  fa' = Update(fa, At(Succ(cur, r), PushWeight(r, W(fa, t), dnew)))
      <4>1. PICK r \in rules, t \in fa.trans :
                  fa' = Update(fa, At(Succ(cur, r), PushWeight(r, W(fa, t), dnew)))
        BY <3>2
      <4>2. cur \in Key /\ dnew \in Weight /\ W(fa, t) \in Weight
        BY <2>1, <2>8, WeightTyped DEF HandlePushSecond, IInv, TypeOK, JobOK, IsAutomaton
      <4>3. Succ(cur, r) \in Key /\ PushWeight(r, W(fa, t), dnew) \in Weight
        BY <2>1, <4>2, SuccKey, RuleParts, PushTyped
      <4>4. /\ {Succ(cur, r)} \in SUBSET Key
            /\ At(Succ(cur, r), PushWeight(r, W(fa, t), dnew)) \in [{Succ(cur, r)} -> Weight]
        BY <4>3 DEF At
      <4> QED  BY <2>4, <4>1, <4>4
    <3> QED  BY <2>8, <3>1, <3>2, PushSecondIInv
  <2>9. CASE Finish
    BY <2>3, <2>9 DEF Finish
  <2> QED  BY <2>2, <2>5, <2>6, <2>7, <2>8, <2>9 DEF Next
<1> QED  BY <1>1, PrestarInvariant, PTL DEF Spec, Monotone
-----------------------------------------------------------------------------
(***************************************************************************)
(* What the two halves say of configurations: when prestar returns, the    *)
(* paths of its output that read a configuration answer the runs of the    *)
(* pushdown system from it to a configuration the input reads.             *)
(***************************************************************************)
AnswersWhenDone ==
    pc = "done" =>
        \A F \in SUBSET State, p \in P, u \in Word :
            Answer(ReadWeights(fa, F, "INORDER", p, u), PreWeights(rules, input, F, p, u))

(* A transition the rules may add: out of a control state, with a symbol.  *)
OfRules(k) == k.from \in P /\ k.stk \in Stack

(* Any other transition of S is one of the input, with its weight there.   *)
OwnOfInput(S) ==
    \A k \in S.trans : ~ OfRules(k) => k \in input.trans /\ Leq(S.weight[k], input.weight[k])

(* The weights of the runs: those of the input, and those a rule adds.     *)
LEMMA RunFirst ==
    ASSUME NEW in, NEW F, NEW p \in P, NEW u \in Word
    PROVE  ReadWeights(in, F, "INORDER", p, u) \subseteq PreWeights(rules, in, F, p, u)
BY DEF PreWeights, HoldsReadings, ReadWeights

LEMMA RunStep ==
    ASSUME rules \in RuleSet, NEW in, NEW F, NEW r \in rules, NEW u \in Word,
           NEW v \in PreWeights(rules, in, F, r.to, Result(r, u))
    PROVE  Extend(r.weight, v) \in PreWeights(rules, in, F, r.from, Source(r, u))
<1>1. v \in Weight /\ Extend(r.weight, v) \in Weight
  BY RuleParts, WeightClosed DEF PreWeights
<1>2. ASSUME NEW X \in [P -> [Word -> SUBSET Weight]],
             HoldsReadings(in, F, "INORDER", X), BackwardClosed(rules, X)
      PROVE  Extend(r.weight, v) \in X[r.from][Source(r, u)]
  BY <1>2 DEF PreWeights, BackwardClosed
<1> QED  BY <1>1, <1>2 DEF PreWeights

(* The rules leave the other transitions to the input.                     *)
UpTo(w) == {x \in Weight : Leq(x, w)}
OwnBound(k) == IF OfRules(k) THEN Weight ELSE UpTo(input.weight[k])
OwnBounds ==
    LET own == {k \in Key : k \in input.trans \/ OfRules(k)}
    IN  [trans |-> own, below |-> [k \in own |-> OwnBound(k)]]

LEMMA OwnClosed ==
    ASSUME rules \in RuleSet, IsInput(input)
    PROVE  IsBounds(OwnBounds) /\ Closed(OwnBounds)
<1> DEFINE B == OwnBounds
<1>1. /\ \A k : k \in B.trans <=> k \in Key /\ (k \in input.trans \/ OfRules(k))
      /\ \A k \in B.trans : B.below[k] = OwnBound(k)
  BY DEF OwnBounds
<1>2. /\ input.trans \subseteq Key
      /\ \A k \in input.trans : input.weight[k] \in Weight
  BY DEF IsInput
<1>3. IsIdeal(Weight) /\ \A w \in Weight : IsIdeal(UpTo(w)) /\ w \in UpTo(w)
  <2>1. \A w \in Weight : IsIdeal(UpTo(w))
    BY BelowIdeal, Zenon DEF UpTo
  <2>2. \A w \in Weight : w \in UpTo(w)
    BY LeqBasics DEF UpTo
  <2> QED  BY <2>1, <2>2, WeightClosed DEF IsIdeal
<1>4. \A k \in B.trans : IsIdeal(OwnBound(k))
  BY <1>1, <1>2, <1>3 DEF OwnBound
<1>5. \A k \in Key : OfRules(k) => k \in B.trans /\ B.below[k] = Weight
  BY <1>1 DEF OwnBound
<1>6. \A k \in B.trans : B.below[k] \subseteq Weight
  BY <1>1, <1>4 DEF IsIdeal
<1>7. \A k \in input.trans : k \in B.trans /\ input.weight[k] \in B.below[k]
  BY <1>1, <1>2, <1>3 DEF OwnBound
<1>8. IsBounds(B)
  BY <1>1, <1>4 DEF IsBounds
<1> HIDE DEF B
<1>9. ASSUME NEW r \in rules
      PROVE  /\ IsPop(r) => PopKey(r) \in Key /\ OfRules(PopKey(r))
             /\ \A t \in Key : Succ(t, r) \in Key /\ OfRules(Succ(t, r))
             /\ r.weight \in Weight
  BY RuleParts DEF PopKey, Succ, OfRules, Key, State, Symbol
<1>10. PopsStay(B)
  BY <1>5, <1>9 DEF PopsStay
<1>11. StepsStay(B)
  BY <1>1, <1>5, <1>6, <1>9, WeightClosed DEF StepsStay
<1>12. PushesStay(B)
  BY <1>1, <1>5, <1>6, <1>9, PushTyped DEF PushesStay
<1>13. InputStays(B)
  BY <1>7 DEF InputStays
<1> QED  BY <1>8, <1>10, <1>11, <1>12, <1>13 DEF Closed, B

LEMMA OwnWithin ==
    ASSUME Inside(fa, OwnBounds)
    PROVE  OwnOfInput(fa)
<1> SUFFICES ASSUME NEW k \in fa.trans, ~ OfRules(k)
             PROVE  k \in input.trans /\ Leq(fa.weight[k], input.weight[k])
  BY DEF OwnOfInput
<1>1. k \in OwnBounds.trans /\ fa.weight[k] \in OwnBounds.below[k]
  BY DEF Inside
<1>2. k \in input.trans /\ OwnBounds.below[k] = UpTo(input.weight[k])
  BY <1>1 DEF OwnBounds, OwnBound
<1> QED  BY <1>1, <1>2 DEF UpTo

(***************************************************************************)
(* A path a that starts with the transitions k and t, when j goes from the *)
(* source of k to the target of t: their weights in S and in the input.    *)
(***************************************************************************)
LEMMA PassOver ==
    ASSUME NEW wk \in Weight, NEW wt \in Weight, NEW wj \in Weight,
           NEW ik \in Weight, NEW it \in Weight, NEW ij \in Weight,
           NEW w \in Weight, NEW a \in Weight,
           Leq(wk, ik), Leq(wt, it), Leq(Extend(ik, it), ij), Leq(ij, wj),
           Leq(a, Extend(wt, w))
    PROVE  Leq(Extend(wk, a), Extend(wj, w))
<1>1. /\ Extend(wt, w) \in Weight /\ Extend(it, w) \in Weight
      /\ Extend(ik, it) \in Weight /\ Extend(wk, a) \in Weight
      /\ Extend(ik, a) \in Weight /\ Extend(wj, w) \in Weight
      /\ Extend(ik, Extend(it, w)) \in Weight
  BY WeightClosed
<1>2. Leq(Extend(wt, w), Extend(it, w))
  BY ExtendMono
<1>3. Leq(a, Extend(it, w))
  BY <1>1, <1>2, LeqTrans
<1>4. Leq(Extend(wk, a), Extend(ik, a)) /\ Leq(Extend(ik, a), Extend(ik, Extend(it, w)))
  BY <1>1, <1>3, ExtendMono
<1>5. Leq(Extend(wk, a), Extend(ik, Extend(it, w)))
  BY <1>1, <1>4, LeqTrans
<1>6. Leq(Extend(ik, it), wj)
  BY <1>1, LeqTrans
<1>7. Leq(Extend(Extend(ik, it), w), Extend(wj, w))
  BY <1>1, <1>6, ExtendMono
<1>8. Extend(ik, Extend(it, w)) = Extend(Extend(ik, it), w)
  BY ExtendLaws
<1> QED  BY <1>1, <1>5, <1>7, <1>8, LeqTrans

(* The weight w before a path v that starts with a transition of weight a. *)
LEMMA StepBack ==
    ASSUME NEW w \in Weight, NEW a \in Weight, NEW b \in Weight,
           NEW v \in Weight, NEW z \in Weight,
           Leq(Extend(w, a), b), Leq(v, Extend(a, z))
    PROVE  Leq(Extend(w, v), Extend(b, z))
<1>1. /\ Extend(w, a) \in Weight /\ Extend(a, z) \in Weight /\ Extend(w, v) \in Weight
      /\ Extend(b, z) \in Weight /\ Extend(w, Extend(a, z)) \in Weight
  BY WeightClosed
<1>2. Leq(Extend(w, v), Extend(w, Extend(a, z)))
  BY <1>1, ExtendMono
<1>3. Leq(Extend(Extend(w, a), z), Extend(b, z))
  BY <1>1, ExtendMono
<1>4. Extend(w, Extend(a, z)) = Extend(Extend(w, a), z)
  BY ExtendLaws
<1> QED  BY <1>1, <1>2, <1>3, <1>4, LeqTrans

(***************************************************************************)
(* A word is read through a transition on its first symbol: the input's    *)
(* epsilon transitions can be passed over.                                 *)
(***************************************************************************)
LEMMA FirstSymbol ==
    ASSUME Readable(input), EpsilonClosed(input), \A k \in input.trans : k.to \notin P,
           NEW S, Readable(S), Covers(S, input), OwnOfInput(S),
           NEW F \in SUBSET State, NEW q \in State, NEW y \in Stack, NEW u \in Word,
           NEW v \in ReadWeights(S, F, "INORDER", q, Onto(y, u))
    PROVE  \E t \in S.trans : \E w \in ReadWeights(S, F, "INORDER", t.to, u) :
              t.from = q /\ t.stk = y /\ Leq(v, Extend(S.weight[t], w))
<1> DEFINE R(s, x) == ReadWeights(S, F, "INORDER", s, x)
           Starts(s, z, x, a) ==
              \E t \in S.trans : \E w \in R(t.to, x) :
                  t.from = s /\ t.stk = z /\ Leq(a, Extend(S.weight[t], w))
           X == [s \in State |-> [x \in Word |-> {a \in R(s, x) :
                    \A z \in Stack, b \in Word : x = Onto(z, b) => Starts(s, z, b, a)}]]
<1>1. \A s \in State, x \in Word : X[s][x] = {a \in R(s, x) :
          \A z \in Stack, b \in Word : x = Onto(z, b) => Starts(s, z, b, a)}
  OBVIOUS
<1>2. \A s, x : R(s, x) \subseteq Weight
  BY DEF ReadWeights
<1>3. X \in [State -> [Word -> SUBSET Weight]]
  BY <1>2
<1>4. /\ \A k \in S.trans : k.from \in State /\ k.to \in State /\ k.stk \in Symbol
      /\ \A k \in S.trans : S.weight[k] \in Weight
      /\ \A k \in input.trans : input.weight[k] \in Weight
  BY DEF Readable, Key
<1>5. \A s \in F : One \in R(s, <<>>)
  BY ReadFinal
<1>6. \A k \in S.trans, x \in Word : \A a \in R(k.to, x) :
          Extend(S.weight[k], a) \in R(k.from, Onto(k.stk, x))
  BY ReadStep DEF Along
<1> HIDE DEF X, R
<1>7. ASSUME NEW s \in F PROVE One \in X[s][<<>>]
  <2>1. s \in State /\ <<>> \in Word /\ \A z \in Stack, b \in Word : Onto(z, b) # <<>>
    BY OntoWord
  <2> HIDE DEF Starts
  <2> QED  BY <1>1, <1>5, <2>1
<1>8. ASSUME NEW k \in S.trans, NEW x \in Word, NEW a \in X[k.to][x]
      PROVE  Extend(S.weight[k], a) \in X[k.from][Onto(k.stk, x)]
  <2> DEFINE c == Extend(S.weight[k], a)
  <2>1. /\ a \in R(k.to, x) /\ a \in Weight /\ Onto(k.stk, x) \in Word
        /\ \A z \in Stack, b \in Word : x = Onto(z, b) => Starts(k.to, z, b, a)
    <3>1. k.to \in State /\ k.stk \in Symbol
      BY <1>4
    <3> HIDE DEF Starts
    <3>2. /\ a \in R(k.to, x)
          /\ \A z \in Stack, b \in Word : x = Onto(z, b) => Starts(k.to, z, b, a)
      BY <1>1, <1>8, <3>1
    <3> QED  BY <1>2, <3>1, <3>2, OntoWord
  <2>2. c \in R(k.from, Onto(k.stk, x)) /\ c \in Weight
    BY <1>4, <1>6, <2>1, WeightClosed
  <2>3. ASSUME NEW z \in Stack, NEW b \in Word, Onto(k.stk, x) = Onto(z, b)
        PROVE  Starts(k.from, z, b, c)
    <3>1. CASE k.stk # EPS
      <4>1. k.stk \in Stack
        BY <1>4, <3>1 DEF Symbol
      <4>2. k.stk = z /\ x = b
        BY <2>3, <4>1, OntoWord
      <4>3. Leq(c, Extend(S.weight[k], a))
        BY <2>2, LeqBasics
      <4> QED  BY <2>1, <4>2, <4>3
    <3>2. CASE k.stk = EPS
      <4>1. x = Onto(z, b)
        BY <2>3, <3>2, OntoWord
      <4>2. PICK t \in S.trans : \E w \in R(t.to, b) :
                t.from = k.to /\ t.stk = z /\ Leq(a, Extend(S.weight[t], w))
        BY <2>1, <4>1
      <4>3. PICK w \in R(t.to, b) :
                t.from = k.to /\ t.stk = z /\ Leq(a, Extend(S.weight[t], w))
        BY <4>2
      <4>4. EPS \notin Stack
        BY WfaAssumption
      <4>5. k \in input.trans /\ Leq(S.weight[k], input.weight[k])
        BY <3>2, <4>4 DEF OwnOfInput, OfRules
      <4>6. t \in input.trans /\ Leq(S.weight[t], input.weight[t])
        BY <4>3, <4>5 DEF OwnOfInput, OfRules
      <4> DEFINE j == [from |-> k.from, stk |-> t.stk, to |-> t.to]
      <4>7. /\ j \in input.trans
            /\ Leq(Extend(input.weight[k], input.weight[t]), input.weight[j])
        BY <3>2, <4>3, <4>5, <4>6 DEF EpsilonClosed
      <4>8. j.from = k.from /\ j.stk = z /\ j.to = t.to
        BY <4>3
      <4> HIDE DEF j
      <4>9. j \in S.trans /\ Leq(input.weight[j], S.weight[j])
        BY <4>7 DEF Covers
      <4>10. Leq(c, Extend(S.weight[j], w))
        <5> DEFINE wk == S.weight[k]
                   wt == S.weight[t]
                   wj == S.weight[j]
                   ik == input.weight[k]
                   it == input.weight[t]
                   ij == input.weight[j]
        <5>1. /\ wk \in Weight /\ wt \in Weight /\ wj \in Weight /\ ik \in Weight
              /\ it \in Weight /\ ij \in Weight /\ w \in Weight /\ a \in Weight
              /\ Leq(wk, ik) /\ Leq(wt, it) /\ Leq(Extend(ik, it), ij) /\ Leq(ij, wj)
              /\ Leq(a, Extend(wt, w))
          BY <1>2, <1>4, <2>1, <4>3, <4>5, <4>6, <4>7, <4>9
        <5> HIDE DEF wk, wt, wj, ik, it, ij
        <5>2. Leq(Extend(wk, a), Extend(wj, w))
          BY ONLY <5>1, PassOver
        <5> QED  BY <5>2 DEF wk, wj
      <4>11. w \in R(j.to, b)
        BY <4>8
      <4> QED  BY <4>8, <4>9, <4>10, <4>11
    <3> QED  BY <3>1, <3>2
  <2> HIDE DEF c, Starts
  <2>4. c \in X[k.from][Onto(k.stk, x)]
    BY <1>1, <1>4, <2>1, <2>2, <2>3
  <2> QED  BY <2>4 DEF c
<1>9. ReadingClosed(S, F, "INORDER", X)
  BY <1>7, <1>8 DEF ReadingClosed, Along
<1>10. R(q, Onto(y, u)) \subseteq X[q][Onto(y, u)]
  BY <1>3, <1>9, ReadLeast DEF R
<1>11. Onto(y, u) \in Word /\ v \in R(q, Onto(y, u))
  BY OntoWord DEF Symbol, R
<1>12. Starts(q, y, u, v)
  <2> HIDE DEF Starts
  <2> QED  BY <1>1, <1>10, <1>11
<1> QED  BY <1>12 DEF R

(* The output reads at least as much before a rule as it read after it.    *)
LEMMA RuleCovered ==
    ASSUME rules \in RuleSet, NEW S, Readable(S), Solution(S),
           NEW F \in SUBSET State,
           \A q \in State, y \in Stack, x \in Word :
              \A a \in ReadWeights(S, F, "INORDER", q, Onto(y, x)) :
                 \E t \in S.trans : \E w \in ReadWeights(S, F, "INORDER", t.to, x) :
                    t.from = q /\ t.stk = y /\ Leq(a, Extend(S.weight[t], w)),
           NEW r \in rules, NEW u \in Word,
           NEW v \in ReadWeights(S, F, "INORDER", r.to, Result(r, u))
    PROVE  \E w \in ReadWeights(S, F, "INORDER", r.from, Source(r, u)) :
              Leq(Extend(r.weight, v), w)
<1> DEFINE R(q, x) == ReadWeights(S, F, "INORDER", q, x)
<1>1. /\ r.from \in P /\ r.to \in P /\ r.stk \in Stack /\ r.weight \in Weight
      /\ r.stk1 \in Symbol /\ r.stk2 \in Symbol
      /\ r.stk1 = EPS => r.stk2 = EPS
      /\ r.from \in State /\ r.to \in State
  BY RuleParts DEF State
<1>2. \A q, x : R(q, x) \subseteq Weight
  BY DEF ReadWeights
<1>3. \A k \in S.trans : \A b \in R(k.to, u) :
          k.from = r.from /\ k.stk = r.stk
              => Extend(S.weight[k], b) \in R(r.from, Source(r, u))
  BY ReadStep DEF Along, Source
<1>4. \A q \in State, y \in Stack, x \in Word : \A a \in R(q, Onto(y, x)) :
          \E t \in S.trans : \E w \in R(t.to, x) :
              t.from = q /\ t.stk = y /\ Leq(a, Extend(S.weight[t], w))
  OBVIOUS
<1>5. v \in R(r.to, Result(r, u))
  OBVIOUS
<1>6. /\ \A k \in S.trans : S.weight[k] \in Weight /\ k.to \in State
      /\ v \in Weight
  BY <1>2, <1>5 DEF Readable, Key
<1> DEFINE res == Result(r, u)
<1>7. /\ Onto(EPS, u) = u /\ Onto(r.stk2, u) \in Word
      /\ ~ IsPush(r) => res = Onto(r.stk1, u)
      /\ res = Onto(r.stk1, Onto(r.stk2, u))
  <2>1. /\ Onto(r.stk2, u) \in Word
        /\ ~ IsPush(r) => Result(r, u) = Onto(r.stk1, u)
    BY RuleWords
  <2>2. Onto(EPS, u) = u
    BY OntoWord
  <2> QED  BY ONLY <2>1, <2>2 DEF Result
<1>8. v \in R(r.to, res)
  BY <1>5
<1> HIDE DEF R, res
<1>9. CASE IsPop(r)
  <2> DEFINE k == PopKey(r)
  <2>1. k \in S.trans /\ Leq(r.weight, S.weight[k])
    BY <1>9 DEF Solution, ClosedUnderPops, PopKey
  <2>2. k.from = r.from /\ k.stk = r.stk /\ k.to = r.to
    BY DEF PopKey
  <2> HIDE DEF k
  <2>3. v \in R(k.to, u)
    <3>1. res = u
      BY <1>1, <1>9, <1>7 DEF IsPop, IsPush
    <3> QED  BY <1>8, <2>2, <3>1
  <2>4. Extend(S.weight[k], v) \in R(r.from, Source(r, u))
    BY <1>3, <2>1, <2>2, <2>3
  <2>5. Leq(Extend(r.weight, v), Extend(S.weight[k], v))
    BY <1>1, <1>6, <2>1, ExtendMono
  <2> QED  BY <2>4, <2>5 DEF R
<1>10. CASE ~ IsPop(r) /\ ~ IsPush(r)
  <2>1. r.stk1 \in Stack /\ res = Onto(r.stk1, u)
    BY <1>1, <1>10, <1>7 DEF IsPop, Symbol
  <2>2. \E t \in S.trans : \E w \in R(t.to, u) :
            t.from = r.to /\ t.stk = r.stk1 /\ Leq(v, Extend(S.weight[t], w))
    BY <1>1, <1>4, <1>8, <2>1
  <2>3. PICK t \in S.trans : \E w \in R(t.to, u) :
            t.from = r.to /\ t.stk = r.stk1 /\ Leq(v, Extend(S.weight[t], w))
    BY <2>2
  <2>4. PICK w \in R(t.to, u) :
            t.from = r.to /\ t.stk = r.stk1 /\ Leq(v, Extend(S.weight[t], w))
    BY <2>3
  <2> DEFINE k == Succ(t, r)
  <2>5. k \in S.trans /\ Leq(Extend(r.weight, S.weight[t]), S.weight[k])
    BY <1>10, <2>4 DEF Solution, ClosedUnderSteps
  <2>6. k.from = r.from /\ k.stk = r.stk /\ k.to = t.to
    BY DEF Succ
  <2> HIDE DEF k
  <2>7. Extend(S.weight[k], w) \in R(r.from, Source(r, u))
    BY <1>3, <2>5, <2>6
  <2>8. /\ w \in Weight /\ S.weight[t] \in Weight /\ S.weight[k] \in Weight
    BY <1>2, <1>6, <2>5
  <2>9. Leq(Extend(r.weight, v), Extend(S.weight[k], w))
    BY <1>1, <1>6, <2>4, <2>5, <2>8, StepBack
  <2> QED  BY <2>7, <2>9 DEF R
<1>11. CASE IsPush(r)
  <2>1. /\ r.stk1 \in Stack /\ r.stk2 \in Stack /\ Onto(r.stk2, u) \in Word
        /\ res = Onto(r.stk1, Onto(r.stk2, u))
    BY <1>1, <1>11, <1>7 DEF IsPush, Symbol
  <2>2. PICK t \in S.trans : \E w \in R(t.to, Onto(r.stk2, u)) :
            t.from = r.to /\ t.stk = r.stk1 /\ Leq(v, Extend(S.weight[t], w))
    <3>1. \E t \in S.trans : \E w \in R(t.to, Onto(r.stk2, u)) :
              t.from = r.to /\ t.stk = r.stk1 /\ Leq(v, Extend(S.weight[t], w))
      BY <1>1, <1>4, <1>8, <2>1
    <3> QED  BY <3>1
  <2>3. PICK w \in R(t.to, Onto(r.stk2, u)) :
            t.from = r.to /\ t.stk = r.stk1 /\ Leq(v, Extend(S.weight[t], w))
    BY <2>2
  <2>4. PICK x \in S.trans : \E z \in R(x.to, u) :
            x.from = t.to /\ x.stk = r.stk2 /\ Leq(w, Extend(S.weight[x], z))
    <3>1. \E x \in S.trans : \E z \in R(x.to, u) :
              x.from = t.to /\ x.stk = r.stk2 /\ Leq(w, Extend(S.weight[x], z))
      BY <1>4, <1>6, <2>1
    <3> QED  BY <3>1
  <2>5. PICK z \in R(x.to, u) :
            x.from = t.to /\ x.stk = r.stk2 /\ Leq(w, Extend(S.weight[x], z))
    BY <2>4
  <2> DEFINE k == Succ(x, r)
  <2>6. t = Callee(r, x.from)
    BY <2>3, <2>5 DEF Callee, Readable, Key
  <2>7. /\ k \in S.trans
        /\ Leq(Extend(Extend(r.weight, S.weight[t]), S.weight[x]), S.weight[k])
    BY <1>11, <2>5, <2>6 DEF Solution, ClosedUnderPushes
  <2>8. k.from = r.from /\ k.stk = r.stk /\ k.to = x.to
    BY DEF Succ
  <2> HIDE DEF k
  <2>9. Extend(S.weight[k], z) \in R(r.from, Source(r, u))
    BY <1>3, <2>7, <2>8
  <2>10. /\ w \in Weight /\ z \in Weight /\ S.weight[t] \in Weight
         /\ S.weight[x] \in Weight /\ S.weight[k] \in Weight
         /\ Extend(r.weight, S.weight[t]) \in Weight
         /\ Extend(S.weight[k], z) \in Weight
         /\ Extend(Extend(r.weight, S.weight[t]), w) \in Weight
         /\ Extend(r.weight, v) \in Weight
    BY <1>1, <1>2, <1>6, <2>7, WeightClosed
  <2>11. Leq(Extend(r.weight, v), Extend(Extend(r.weight, S.weight[t]), w))
    BY <1>1, <1>6, <2>3, <2>10, LeqBasics, StepBack
  <2>12. Leq(Extend(Extend(r.weight, S.weight[t]), w), Extend(S.weight[k], z))
    BY <2>5, <2>7, <2>10, StepBack
  <2>13. Leq(Extend(r.weight, v), Extend(S.weight[k], z))
    BY <2>10, <2>11, <2>12, LeqTrans
  <2> QED  BY <2>9, <2>13 DEF R
<1> QED  BY <1>9, <1>10, <1>11

(***************************************************************************)
(* Nothing is missed: a solution of the saturation equations covers every  *)
(* run to the input.                                                       *)
(***************************************************************************)
LEMMA RunsCovered ==
    ASSUME rules \in RuleSet, Readable(input), EpsilonClosed(input),
           \A k \in input.trans : k.to \notin P,
           NEW S, Readable(S), Solution(S), OwnOfInput(S),
           NEW F \in SUBSET State, NEW p \in P, NEW u \in Word,
           NEW v \in PreWeights(rules, input, F, p, u)
    PROVE  \E w \in ReadWeights(S, F, "INORDER", p, u) : Leq(v, w)
<1> DEFINE R(s, x) == ReadWeights(S, F, "INORDER", s, x)
           X == [s \in P |-> [x \in Word |-> {a \in Weight : \E b \in R(s, x) : Leq(a, b)}]]
<1>1. \A s \in P, x \in Word : X[s][x] = {a \in Weight : \E b \in R(s, x) : Leq(a, b)}
  OBVIOUS
<1>2. X \in [P -> [Word -> SUBSET Weight]]
  OBVIOUS
<1>3. \A s, x : R(s, x) \subseteq Weight
  BY DEF ReadWeights
<1>4. Covers(S, input)
  BY DEF Solution
<1>5. ASSUME NEW r \in rules, NEW x \in Word, NEW b \in R(r.to, Result(r, x))
      PROVE  \E w \in R(r.from, Source(r, x)) : Leq(Extend(r.weight, b), w)
  <2>1. \A q \in State, y \in Stack, z \in Word :
              \A a \in ReadWeights(S, F, "INORDER", q, Onto(y, z)) :
                 \E t \in S.trans : \E w \in ReadWeights(S, F, "INORDER", t.to, z) :
                    t.from = q /\ t.stk = y /\ Leq(a, Extend(S.weight[t], w))
    BY <1>4, FirstSymbol
  <2> QED  BY <2>1, RuleCovered
<1>6. ASSUME NEW s \in P, NEW x \in Word, NEW a \in ReadWeights(input, F, "INORDER", s, x)
      PROVE  a \in Weight /\ \E b \in R(s, x) : Leq(a, b)
  BY <1>4, CoveredReadings DEF ReadWeights, State
<1> HIDE DEF X, R
<1>7. HoldsReadings(input, F, "INORDER", X)
  BY <1>1, <1>6 DEF HoldsReadings
<1>8. ASSUME NEW r \in rules, NEW x \in Word, NEW a \in X[r.to][Result(r, x)]
      PROVE  Extend(r.weight, a) \in X[r.from][Source(r, x)]
  <2>1. r.from \in P /\ r.to \in P /\ r.weight \in Weight
    BY RuleParts
  <2>2. Source(r, x) \in Word /\ Result(r, x) \in Word
    BY RuleWords
  <2>3. PICK b \in R(r.to, Result(r, x)) : a \in Weight /\ Leq(a, b)
    BY <1>1, <1>8, <2>1, <2>2
  <2>4. PICK w \in R(r.from, Source(r, x)) : Leq(Extend(r.weight, b), w)
    BY <1>5
  <2>5. /\ b \in Weight /\ w \in Weight
        /\ Extend(r.weight, a) \in Weight /\ Extend(r.weight, b) \in Weight
    BY <1>3, <2>1, <2>3, WeightClosed
  <2>6. Leq(Extend(r.weight, a), Extend(r.weight, b))
    BY <2>1, <2>3, <2>5, ExtendMono
  <2>7. Leq(Extend(r.weight, a), w)
    BY <2>4, <2>5, <2>6, LeqTrans
  <2> QED  BY <1>1, <2>1, <2>2, <2>5, <2>7
<1>9. BackwardClosed(rules, X)
  BY <1>8 DEF BackwardClosed
<1>10. v \in X[p][u]
  BY <1>2, <1>7, <1>9 DEF PreWeights
<1> QED  BY <1>1, <1>10 DEF R

(***************************************************************************)
(* Nothing is made up.  What the words a state reads stand for: those of a *)
(* control state are the runs from it, those of any other the input's own. *)
(* A transition may have any weight that keeps to that.                    *)
(***************************************************************************)
Meaning(F, q, u) ==
    IF q \in P THEN Combinations(PreWeights(rules, input, F, q, u))
    ELSE Combinations(ReadWeights(input, F, "INORDER", q, u))

Sound(F, k) ==
    {w \in Weight : \A u \in Word : \A v \in Meaning(F, k.to, u) :
        Extend(w, v) \in Meaning(F, k.from, Onto(k.stk, u))}

SoundBounds(F) == [trans |-> Key, below |-> [k \in Key |-> Sound(F, k)]]

LEMMA MeaningIdeal ==
    ASSUME NEW F, NEW q, NEW u
    PROVE  IsIdeal(Meaning(F, q, u)) /\ Meaning(F, q, u) \subseteq Weight
<1>1. /\ \A s, x : PreWeights(rules, input, F, s, x) \subseteq Weight
      /\ \A s, x : ReadWeights(input, F, "INORDER", s, x) \subseteq Weight
  BY DEF PreWeights, ReadWeights
<1>2. IsIdeal(Meaning(F, q, u))
  BY <1>1, CombinationsIdeal DEF Meaning
<1> QED  BY <1>2 DEF IsIdeal

LEMMA SoundIsBounds ==
    ASSUME NEW F
    PROVE  IsBounds(SoundBounds(F))
<1>1. ASSUME NEW k \in Key PROVE IsIdeal(Sound(F, k))
  <2> DEFINE I == Sound(F, k)
             M(u) == Meaning(F, k.from, Onto(k.stk, u))
             V(u) == Meaning(F, k.to, u)
  <2>1. \A w : w \in I <=> w \in Weight /\ \A u \in Word : \A v \in V(u) : Extend(w, v) \in M(u)
    BY DEF Sound
  <2>2. \A u : IsIdeal(M(u)) /\ V(u) \subseteq Weight
    BY MeaningIdeal
  <2> HIDE DEF I, M, V
  <2>3. I \subseteq Weight
    BY <2>1
  <2>4. Zero \in I
    BY <2>1, <2>2, ExtendLaws, WeightClosed DEF IsIdeal
  <2>5. ASSUME NEW a \in I, NEW b \in I PROVE Combine(a, b) \in I
    <3>1. a \in Weight /\ b \in Weight /\ Combine(a, b) \in Weight
      BY <2>3, WeightClosed
    <3>2. ASSUME NEW u \in Word, NEW v \in V(u) PROVE Extend(Combine(a, b), v) \in M(u)
      <4>1. Extend(a, v) \in M(u) /\ Extend(b, v) \in M(u)
        BY <2>1
      <4>2. Extend(Combine(a, b), v) = Combine(Extend(a, v), Extend(b, v))
        BY <2>2, <3>1, Distributes
      <4> QED  BY <2>2, <4>1, <4>2 DEF IsIdeal
    <3> QED  BY <2>1, <3>1, <3>2
  <2>6. ASSUME NEW a \in I, NEW b \in Weight, Leq(b, a) PROVE b \in I
    <3>1. ASSUME NEW u \in Word, NEW v \in V(u) PROVE Extend(b, v) \in M(u)
      <4>1. Extend(a, v) \in M(u) /\ v \in Weight /\ a \in Weight
        BY <2>1, <2>2
      <4>2. Leq(Extend(b, v), Extend(a, v)) /\ Extend(b, v) \in Weight
        BY <2>6, <4>1, ExtendMono, WeightClosed
      <4> QED  BY <2>2, <4>1, <4>2 DEF IsIdeal
    <3> QED  BY <2>1, <3>1
  <2>7. IsIdeal(I)
    BY <2>3, <2>4, <2>5, <2>6 DEF IsIdeal
  <2> QED  BY <2>7 DEF I
<1> QED  BY <1>1 DEF SoundBounds, IsBounds

(* Meanings agree with the rules.                                          *)
LEMMA RuleMeaning ==
    ASSUME rules \in RuleSet, NEW F, NEW r \in rules, NEW u \in Word,
           NEW v \in Meaning(F, r.to, Result(r, u))
    PROVE  Extend(r.weight, v) \in Meaning(F, r.from, Source(r, u))
<1> DEFINE G == PreWeights(rules, input, F, r.to, Result(r, u))
           H == PreWeights(rules, input, F, r.from, Source(r, u))
           I == After(r.weight, Combinations(H))
<1>1. r.from \in P /\ r.to \in P /\ r.weight \in Weight
  BY RuleParts
<1>2. v \in Combinations(G) /\ Meaning(F, r.from, Source(r, u)) = Combinations(H)
  BY <1>1 DEF Meaning
<1>3. G \subseteq Weight /\ H \subseteq Weight
  BY DEF PreWeights
<1>4. \A a \in G : Extend(r.weight, a) \in H
  BY RunStep
<1> HIDE DEF G, H
<1>5. IsIdeal(Combinations(H)) /\ H \subseteq Combinations(H)
  BY <1>3, CombinationsIdeal
<1>6. IsIdeal(I)
  BY <1>1, <1>5, ExtendIdeal
<1>7. \A a \in G : a \in I
  BY <1>3, <1>4, <1>5 DEF After
<1>8. \A a \in I : Extend(r.weight, a) \in Combinations(H)
  BY DEF After
<1> HIDE DEF I
<1>9. v \in I
  <2>1. G \subseteq I
    BY <1>7
  <2>2. Combinations(G) \subseteq I
    BY <1>3, <1>6, <2>1, CombinationsIdeal
  <2> QED  BY <1>2, <2>2
<1> QED  BY <1>2, <1>8, <1>9

(* And with the transitions of the input.                                  *)
LEMMA InputMeaning ==
    ASSUME Readable(input), NEW F \in SUBSET State, NEW k \in input.trans, k.to \notin P,
           NEW u \in Word, NEW v \in Meaning(F, k.to, u)
    PROVE  Extend(input.weight[k], v) \in Meaning(F, k.from, Onto(k.stk, u))
<1> DEFINE G == ReadWeights(input, F, "INORDER", k.to, u)
           H == ReadWeights(input, F, "INORDER", k.from, Onto(k.stk, u))
           M == Meaning(F, k.from, Onto(k.stk, u))
           I == After(input.weight[k], M)
<1>1. input.weight[k] \in Weight /\ k.from \in State /\ k.stk \in Symbol
  BY DEF Readable, Key
<1>2. v \in Combinations(G)
  BY DEF Meaning
<1>3. G \subseteq Weight /\ H \subseteq Weight
  BY DEF ReadWeights
<1>4. \A a \in G : Extend(input.weight[k], a) \in H
  BY ReadStep DEF Along
<1>5. H \subseteq M
  <2>1. CASE k.from \in P
    <3> DEFINE N == PreWeights(rules, input, F, k.from, Onto(k.stk, u))
    <3>1. M = Combinations(N) /\ N \subseteq Weight
      BY <2>1 DEF Meaning, PreWeights
    <3>2. Onto(k.stk, u) \in Word
      BY <1>1, OntoWord
    <3>3. H \subseteq N
      BY <2>1, <3>2, RunFirst
    <3> HIDE DEF M, N, H
    <3> QED  BY <3>1, <3>3, CombinationsIdeal
  <2>2. CASE k.from \notin P
    <3>1. M = Combinations(H)
      BY <2>2 DEF Meaning
    <3> HIDE DEF M, H
    <3> QED  BY <1>3, <3>1, CombinationsIdeal
  <2> QED  BY <2>1, <2>2
<1>6. IsIdeal(M)
  BY MeaningIdeal
<1> HIDE DEF G, H, M
<1>7. IsIdeal(I)
  BY <1>1, <1>6, ExtendIdeal
<1>8. \A a \in G : a \in I
  BY <1>3, <1>4, <1>5 DEF After
<1>9. \A a \in I : Extend(input.weight[k], a) \in M
  BY DEF After
<1> HIDE DEF I
<1>10. v \in I
  <2>1. G \subseteq I
    BY <1>8
  <2>2. Combinations(G) \subseteq I
    BY <1>3, <1>7, <2>1, CombinationsIdeal
  <2> QED  BY <1>2, <2>2
<1> QED  BY <1>9, <1>10 DEF M

(* The meanings are bounds that stay.                                      *)
LEMMA SoundClosed ==
    ASSUME rules \in RuleSet, Readable(input), NEW F \in SUBSET State,
           \A k \in input.trans : k.to \notin P
    PROVE  Closed(SoundBounds(F))
<1> DEFINE B == SoundBounds(F)
           M(q, u) == Meaning(F, q, u)
<1>1. /\ B.trans = Key
      /\ \A k \in Key : \A w : w \in B.below[k] <=>
            /\ w \in Weight
            /\ \A u \in Word : \A v \in M(k.to, u) : Extend(w, v) \in M(k.from, Onto(k.stk, u))
  BY DEF SoundBounds, Sound
<1>2. \A q, u : M(q, u) \subseteq Weight
  BY MeaningIdeal
<1>3. \A r \in rules, u \in Word : \A v \in M(r.to, Result(r, u)) :
          Extend(r.weight, v) \in M(r.from, Onto(r.stk, u))
  BY RuleMeaning DEF Source
<1>4. \A k \in input.trans, u \in Word : \A v \in M(k.to, u) :
          Extend(input.weight[k], v) \in M(k.from, Onto(k.stk, u))
  BY InputMeaning
<1>5. ASSUME NEW r \in rules, IsPop(r)
      PROVE  PopKey(r) \in Key /\ r.weight \in B.below[PopKey(r)]
  <2> DEFINE k == PopKey(r)
  <2>1. k.from = r.from /\ k.stk = r.stk /\ k.to = r.to /\ k \in Key /\ r.weight \in Weight
    BY RuleParts DEF PopKey, Key, State, Symbol
  <2>2. \A u \in Word : Result(r, u) = u
    BY <1>5, RuleParts, OntoWord DEF IsPop, Result
  <2> HIDE DEF k, B, M
  <2>3. r.weight \in B.below[k]
    BY <1>1, <1>3, <2>1, <2>2
  <2> QED  BY <2>1, <2>3 DEF k
<1>6. ASSUME NEW r \in rules, NEW t \in Key, Reads(r, t)
      PROVE  /\ Succ(t, r) \in Key
             /\ \A w \in B.below[t] : Extend(r.weight, w) \in B.below[Succ(t, r)]
  <2> DEFINE k == Succ(t, r)
  <2>1. k.from = r.from /\ k.stk = r.stk /\ k.to = t.to /\ k \in Key /\ r.weight \in Weight
    BY RuleParts, SuccKey DEF Succ
  <2>2. t.from = r.to /\ \A u \in Word : Result(r, u) = Onto(t.stk, u)
    BY <1>6, RuleWords DEF Reads
  <2> HIDE DEF k, B, M
  <2>3. ASSUME NEW w \in B.below[t] PROVE Extend(r.weight, w) \in B.below[k]
    <3>1. w \in Weight /\ Extend(r.weight, w) \in Weight
      BY <1>1, <2>1, WeightClosed
    <3>2. ASSUME NEW u \in Word, NEW v \in M(k.to, u)
          PROVE  Extend(Extend(r.weight, w), v) \in M(k.from, Onto(k.stk, u))
      <4>1. Extend(w, v) \in M(r.to, Result(r, u)) /\ v \in Weight
        BY <1>1, <1>2, <2>1, <2>2
      <4>2. Extend(r.weight, Extend(w, v)) \in M(k.from, Onto(k.stk, u))
        BY <1>3, <2>1, <4>1
      <4>3. Extend(r.weight, Extend(w, v)) = Extend(Extend(r.weight, w), v)
        BY <2>1, <3>1, <4>1, ExtendLaws
      <4> QED  BY <4>2, <4>3
    <3> QED  BY <1>1, <2>1, <3>1, <3>2
  <2> QED  BY <2>1, <2>3 DEF k
<1>7. ASSUME NEW r \in rules, NEW t \in Key, NEW x \in Key, ReadsPair(r, t, x)
      PROVE  /\ Succ(x, r) \in Key
             /\ \A v \in B.below[t], w \in B.below[x] :
                   PushWeight(r, v, w) \in B.below[Succ(x, r)]
  <2> DEFINE k == Succ(x, r)
  <2>1. k.from = r.from /\ k.stk = r.stk /\ k.to = x.to /\ k \in Key /\ r.weight \in Weight
    BY RuleParts, SuccKey DEF Succ
  <2>2. t.from = r.to /\ t.to = x.from /\ t.stk = r.stk1 /\ x.stk = r.stk2
    BY <1>7 DEF ReadsPair, Callee
  <2>3. \A u \in Word : Onto(x.stk, u) \in Word /\ Result(r, u) = Onto(t.stk, Onto(x.stk, u))
    BY <2>2, RuleWords DEF Result
  <2> HIDE DEF k, B, M
  <2>4. ASSUME NEW a \in B.below[t], NEW w \in B.below[x]
        PROVE  PushWeight(r, a, w) \in B.below[k]
    <3>1. a \in Weight /\ w \in Weight /\ PushWeight(r, a, w) \in Weight
      BY <1>1, <2>1, PushTyped
    <3>2. ASSUME NEW u \in Word, NEW v \in M(k.to, u)
          PROVE  Extend(PushWeight(r, a, w), v) \in M(k.from, Onto(k.stk, u))
      <4>1. Extend(w, v) \in M(t.to, Onto(x.stk, u)) /\ v \in Weight
        BY <1>1, <1>2, <2>1, <2>2
      <4>2. Extend(a, Extend(w, v)) \in M(r.to, Result(r, u))
        BY <1>1, <2>2, <2>3, <4>1
      <4>3. Extend(r.weight, Extend(a, Extend(w, v))) \in M(k.from, Onto(k.stk, u))
        BY <1>3, <2>1, <4>2
      <4>4. Extend(PushWeight(r, a, w), v) = Extend(r.weight, Extend(a, Extend(w, v)))
        <5>1. /\ Extend(w, v) \in Weight /\ Extend(r.weight, a) \in Weight
          BY <2>1, <3>1, <4>1, WeightClosed
        <5>2. Extend(PushWeight(r, a, w), v) = Extend(Extend(r.weight, a), Extend(w, v))
          BY <3>1, <4>1, <5>1, ExtendLaws DEF PushWeight
        <5>3. Extend(Extend(r.weight, a), Extend(w, v)) = Extend(r.weight, Extend(a, Extend(w, v)))
          BY <2>1, <3>1, <5>1, ExtendLaws
        <5> QED  BY <5>2, <5>3
      <4> QED  BY <4>3, <4>4
    <3> QED  BY <1>1, <2>1, <3>1, <3>2
  <2> QED  BY <2>1, <2>4 DEF k
<1> HIDE DEF B, M
<1>8. ASSUME NEW k \in input.trans PROVE k \in Key /\ input.weight[k] \in B.below[k]
  BY <1>1, <1>4 DEF Readable
<1>9. PopsStay(B)
  BY <1>1, <1>5 DEF PopsStay
<1>10. StepsStay(B)
  BY <1>1, <1>6 DEF StepsStay
<1>11. PushesStay(B)
  BY <1>1, <1>7 DEF PushesStay
<1>12. InputStays(B)
  BY <1>1, <1>8 DEF InputStays
<1> QED  BY <1>9, <1>10, <1>11, <1>12 DEF Closed, B

(* What an automaton within those bounds reads is what its states mean.    *)
LEMMA ReadingsMean ==
    ASSUME NEW F \in SUBSET State, IsAutomaton(fa), Inside(fa, SoundBounds(F)),
           NEW q \in State, NEW u \in Word
    PROVE  ReadWeights(fa, F, "INORDER", q, u) \subseteq Meaning(F, q, u)
<1> DEFINE X == [s \in State |-> [x \in Word |-> Meaning(F, s, x)]]
<1>1. X \in [State -> [Word -> SUBSET Weight]]
  BY MeaningIdeal
<1>2. ASSUME NEW s \in F PROVE One \in X[s][<<>>]
  <2> DEFINE R == ReadWeights(input, F, "INORDER", s, <<>>)
             N == PreWeights(rules, input, F, s, <<>>)
  <2>1. s \in State /\ <<>> \in Word /\ One \in R
    BY ReadFinal, OntoWord
  <2>2. R \subseteq Weight /\ N \subseteq Weight
    BY DEF ReadWeights, PreWeights
  <2>3. s \in P => R \subseteq N
    BY <2>1, RunFirst
  <2>4. X[s][<<>>] = IF s \in P THEN Combinations(N) ELSE Combinations(R)
    BY <2>1 DEF Meaning
  <2> HIDE DEF R, N, X
  <2>5. R \subseteq Combinations(R) /\ N \subseteq Combinations(N)
    BY <2>2, CombinationsIdeal
  <2> QED  BY <2>1, <2>3, <2>4, <2>5
<1>3. ASSUME NEW k \in fa.trans, NEW x \in Word, NEW v \in X[k.to][x]
      PROVE  Extend(fa.weight[k], v) \in X[k.from][Onto(k.stk, x)]
  <2>1. k \in Key /\ k.from \in State /\ k.to \in State /\ Onto(k.stk, x) \in Word
    BY OntoWord DEF IsAutomaton, Key
  <2>2. fa.weight[k] \in Sound(F, k)
    BY <2>1 DEF Inside, SoundBounds
  <2>3. v \in Meaning(F, k.to, x)
    BY <2>1
  <2>4. Extend(fa.weight[k], v) \in Meaning(F, k.from, Onto(k.stk, x))
    BY <2>2, <2>3 DEF Sound
  <2> QED  BY <2>1, <2>4
<1> HIDE DEF X
<1>4. ReadingClosed(fa, F, "INORDER", X)
  BY <1>2, <1>3 DEF ReadingClosed, Along
<1>5. ReadWeights(fa, F, "INORDER", q, u) \subseteq X[q][u]
  BY <1>1, <1>4, ReadLeast
<1> QED  BY <1>5 DEF X

(* The input stays the one the client gave. *)
LEMMA InputGiven == Spec => [](input \in Inputs)
<1>1. Init => input \in Inputs
  BY DEF Init
<1>2. input \in Inputs /\ [Next]_vars => (input \in Inputs)'
  BY DEF Next, vars, Setup, Pop, HandleRule, HandlePushFirst, HandlePushSecond, Finish
<1> QED  BY <1>1, <1>2, PTL DEF Spec

(***************************************************************************)
(* prestar answers the query: for every configuration, of any height, the  *)
(* paths of its output that read it have the combined weight of all the    *)
(* runs of the pushdown system from it to the input's configurations,      *)
(* whatever the rules, automata, weights and order of the worklist.        *)
(***************************************************************************)
THEOREM PrestarAnswers == Spec => []AnswersWhenDone
<1>1. IInv /\ Below /\ input \in Inputs => AnswersWhenDone
  <2> SUFFICES ASSUME IInv, Below, input \in Inputs, pc = "done",
                      NEW F \in SUBSET State, NEW p \in P, NEW u \in Word
               PROVE  Answer(ReadWeights(fa, F, "INORDER", p, u),
                             PreWeights(rules, input, F, p, u))
    BY DEF AnswersWhenDone
  <2>1. rules \in RuleSet /\ IsInput(input) /\ IsAutomaton(fa) /\ p \in State
    BY DEF IInv, TypeOK, State
  <2>2. EpsilonClosed(input) /\ \A k \in input.trans : k.to \notin P
    BY PrestarAssumption DEF InputOK
  <2>3. Readable(input) /\ Readable(fa)
    BY <2>1 DEF IsInput, IsAutomaton, Readable
  <2>4. Solution(fa)
    BY IInvSaturated DEF SaturatedWhenDone
  <2>5. OwnOfInput(fa)
    <3>1. IsBounds(OwnBounds) /\ Closed(OwnBounds)
      BY <2>1, OwnClosed
    <3>2. Inside(fa, OwnBounds)
      BY <3>1 DEF Below, JobInside
    <3> QED  BY <3>2, OwnWithin
  <2>6. \A w \in PreWeights(rules, input, F, p, u) :
           \E v \in ReadWeights(fa, F, "INORDER", p, u) : Leq(w, v)
    BY <2>1, <2>2, <2>3, <2>4, <2>5, RunsCovered
  <2>7. Inside(fa, SoundBounds(F))
    <3>1. IsBounds(SoundBounds(F)) /\ Closed(SoundBounds(F))
      BY <2>1, <2>2, <2>3, SoundIsBounds, SoundClosed
    <3> QED  BY <3>1 DEF Below, JobInside
  <2>8. ReadWeights(fa, F, "INORDER", p, u)
          \subseteq Combinations(PreWeights(rules, input, F, p, u))
    BY <2>1, <2>7, ReadingsMean DEF Meaning
  <2> QED  BY <2>6, <2>8 DEF Answer
<1> QED  BY <1>1, PrestarInvariant, BelowInvariant, InputGiven, PTL
=============================================================================
