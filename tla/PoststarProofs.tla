--------------------------- MODULE PoststarProofs ---------------------------
(***************************************************************************)
(* poststar for any rules, inputs, weights and worklist order: the output  *)
(* is saturated when the query returns, nothing in it exceeds a solution,  *)
(* and its paths answer the runs of the pushdown system.                   *)
(***************************************************************************)
EXTENDS WpdsPoststar, WfaTheorems, Sequences

(* What the parts of a rule are. *)
LEMMA RuleParts ==
    ASSUME rules \in RuleSet, NEW r \in rules
    PROVE  /\ r.from \in P /\ r.to \in P
           /\ r.stk \in Stack /\ r.stk1 \in Symbol /\ r.stk2 \in Symbol
           /\ r.weight \in Weight
           /\ IsPush(r) => r.stk1 \in Stack /\ r.stk2 \in Stack
BY DEF RuleSet, Rule, IsPush, Symbol

(* The transitions a rule asks for have the shape of transitions. *)
LEMMA TargetParts ==
    ASSUME rules \in RuleSet, NEW r \in rules, gen \in 1..MaxGeneration,
           NEW t \in Key, t.to \notin P
    PROVE  /\ Succ(t, r) \in Key
           /\ IsPush(r) => /\ Mid(t, r) \in Key /\ Call(r) \in Key
                           /\ Shaped(Mid(t, r)) /\ Shaped(Call(r))
                           /\ OfThisQuery(Mid(t, r).from)
                           /\ Mid(t, r).from \notin P /\ Call(r).from \in P
                           /\ Mid(t, r).stk # EPS /\ Call(r).stk # EPS
                           /\ gen_state(gen, r.to, r.stk1) \in GenState
           /\ ~ IsPush(r) => Shaped(Succ(t, r)) /\ Succ(t, r).from \in P
           /\ RuleTarget(t, r) \in Key
<1> DEFINE g == gen_state(gen, r.to, r.stk1)
<1>1. /\ r.to \in P /\ r.stk1 \in Symbol /\ r.stk2 \in Symbol
      /\ IsPush(r) => r.stk1 \in Stack /\ r.stk2 \in Stack
  BY RuleParts
<1>2. IsPush(r) => g \in GenState /\ g.gen = gen
  BY <1>1 DEF GenState, gen_state
<1>3. Succ(t, r) \in Key /\ Succ(t, r).from \in P /\ Succ(t, r).to = t.to
  BY <1>1 DEF Succ, Key, State
<1>4. r.to \notin GenState
  BY <1>1, WfaAssumption
<1>5. Shaped(Succ(t, r))
  BY <1>3, WfaAssumption DEF Shaped
<1>6. ASSUME IsPush(r)
      PROVE  /\ Mid(t, r) \in Key /\ Mid(t, r).from = g /\ Mid(t, r).to = t.to
             /\ Mid(t, r).stk = r.stk2
             /\ Call(r) \in Key /\ Call(r).from = r.to /\ Call(r).to = g
             /\ Call(r).stk = r.stk1
  BY <1>1, <1>2, <1>6 DEF Mid, Call, Key, State, Symbol
<1>7. ASSUME IsPush(r)
      PROVE  g \notin P /\ r.stk1 # EPS /\ r.stk2 # EPS
  BY <1>1, <1>2, <1>7, WfaAssumption
<1> HIDE DEF g
<1>8. ASSUME IsPush(r) PROVE Shaped(Mid(t, r)) /\ OfThisQuery(Mid(t, r).from)
  BY <1>2, <1>6, <1>7, <1>8, WfaAssumption DEF Shaped, OfThisQuery
<1>9. ASSUME IsPush(r) PROVE Shaped(Call(r))
  BY <1>1, <1>4, <1>6, <1>7, <1>9 DEF Shaped
<1>10. QED
  BY <1>1, <1>2, <1>3, <1>5, <1>6, <1>7, <1>8, <1>9 DEF RuleTarget, g

(***************************************************************************)
(* One or more updates of the automaton, from A to B: it evolves, what     *)
(* leaves a control state is marked if it gained anything, transitions out *)
(* of this query's states carry their weight as delta, all others stay.    *)
(***************************************************************************)
StepOK(A, B) ==
    /\ IsAutomaton(B)
    /\ Evolves(A, B)
    /\ \A k \in B.trans :
          /\ Shaped(k)
          /\ OfThisQuery(k.from) => k \notin B.marked /\ D(B, k) = W(B, k)
          /\ k.from \in P => \/ k \in B.marked
                             \/ k \in A.trans /\ k \notin A.marked /\ D(B, k) = D(A, k)
          /\ k.from \notin P /\ ~ OfThisQuery(k.from) => SameAt(A, B, k)

(* Such a step keeps everything that is said of the automaton alone. *)
LEMMA FaInvKept ==
    ASSUME NEW A, NEW B, FaInv(A), StepOK(A, B), InputOK(input),
           gen \in 1..MaxGeneration
    PROVE  FaInv(B)
<1>1. IsAutomaton(A) /\ IsAutomaton(B) /\ A.trans \subseteq B.trans
  BY DEF FaInv, StepOK, Evolves
<1>2. B.trans # {}
  BY <1>1 DEF FaInv
<1>3. ASSUME NEW k \in B.trans PROVE Shaped(k) /\ DeltaKept(B, k)
  <2>1. Shaped(k)
    BY DEF StepOK
  <2>2. CASE OfThisQuery(k.from)
    BY <2>2 DEF StepOK, DeltaKept
  <2>3. CASE ~ OfThisQuery(k.from) /\ k.from \in P
    BY <2>3 DEF StepOK, DeltaKept, FaInv
  <2>4. CASE ~ OfThisQuery(k.from) /\ k.from \notin P
    BY <2>4 DEF StepOK, DeltaKept, FaInv, SameAt
  <2>5. QED
    BY <2>1, <2>2, <2>3, <2>4
<1>4. Covers(B, input)
  <2>1. input.trans \subseteq A.trans /\ input.trans \subseteq Key
        /\ input.weight \in [input.trans -> Weight]
    BY DEF FaInv, Covers, InputOK, IsInput
  <2>2. ASSUME NEW k \in input.trans PROVE Leq(input.weight[k], B.weight[k])
    <3>1. /\ k \in A.trans /\ k \in B.trans /\ k \in Key
          /\ W(A, k) = A.weight[k] /\ W(B, k) = B.weight[k]
      BY <1>1, <2>1 DEF W
    <3>2. Leq(input.weight[k], W(A, k)) /\ Leq(W(A, k), W(B, k))
      BY <3>1 DEF FaInv, Covers, StepOK, Evolves
    <3>3. input.weight[k] \in Weight /\ W(A, k) \in Weight /\ W(B, k) \in Weight
      BY <1>1, <2>1, WeightTyped
    <3>4. QED
      BY <3>1, <3>2, <3>3, LeqTrans
  <2>3. QED
    BY <1>1, <2>1, <2>2 DEF Covers
<1>5. QED
  BY <1>1, <1>2, <1>3, <1>4 DEF FaInv

(***************************************************************************)
(* Such a step pays what the rules owe, the rules R of the job included    *)
(* when it made their transitions and added what was pending.              *)
(***************************************************************************)
LEMMA RulesKept ==
    ASSUME NEW A, NEW B, NEW c, NEW d \in Weight, NEW T, NEW R,
           FaInv(A), StepOK(A, B),
           RulesPaid(A, [cur |-> c, dnew |-> d, todo |-> T]),
           rules \in RuleSet, gen \in 1..MaxGeneration,
           \A r \in R : /\ RuleThere(B, c, r)
                       /\ Leq(Extend(d, r.weight), W(B, RuleTarget(c, r)))
    PROVE  RulesPaid(B, [cur |-> c, dnew |-> d, todo |-> T \ R])
<1> DEFINE job == [cur |-> c, dnew |-> d, todo |-> T]
           jobB == [cur |-> c, dnew |-> d, todo |-> T \ R]
<1> SUFFICES ASSUME NEW t \in B.trans, t.stk # EPS,
                    NEW r \in ForwardRules(rules, t.from, t.stk)
             PROVE  RuleOwes(B, jobB, t, r)
  BY DEF RulesPaid
<1> DEFINE w == r.weight
           k == RuleTarget(t, r)
           pa == Pending(A, job, t, r)
           pb == Pending(B, jobB, t, r)
<1>1. /\ IsAutomaton(A) /\ IsAutomaton(B) /\ A.trans \subseteq B.trans
      /\ r \in rules /\ t \in Key /\ t.to \notin P /\ t.from \in P /\ w \in Weight
  <2>1. IsAutomaton(A) /\ IsAutomaton(B) /\ A.trans \subseteq B.trans
    BY DEF FaInv, StepOK, Evolves
  <2>2. r \in rules /\ t.from = r.from /\ t \in Key
    BY <2>1 DEF ForwardRules, IsAutomaton
  <2>3. r.from \in P /\ w \in Weight
    BY <2>2, RuleParts
  <2>4. t.to \notin P
    BY DEF StepOK, Shaped
  <2>5. QED
    BY <2>1, <2>2, <2>3, <2>4
<1>2. k \in Key /\ (IsPush(r) => Call(r) \in Key)
  BY <1>1, TargetParts
<1>3. /\ W(A, t) \in Weight /\ D(A, t) \in Weight /\ W(B, t) \in Weight /\ D(B, t) \in Weight
      /\ W(A, k) \in Weight /\ W(B, k) \in Weight
      /\ pa = (IF t = c /\ r \in T THEN Combine(D(A, t), d) ELSE D(A, t))
      /\ pb = (IF t = c /\ r \in T \ R THEN Combine(D(B, t), d) ELSE D(B, t))
  BY <1>1, WeightTyped DEF Pending
<1>4. /\ Leq(W(A, k), W(B, k))
      /\ Leq(W(B, t), Combine(W(A, t), D(B, t)))
      /\ Leq(D(A, t), D(B, t))
  BY <1>1, <1>2 DEF StepOK, Evolves
<1>5. t \in A.trans => RuleOwes(A, job, t, r)
  BY DEF RulesPaid
<1> HIDE DEF job, jobB, k, w
<1>6. t \in B.marked \/ (t = c /\ r \in T \ R) \/ RuleThere(B, t, r)
  <2> SUFFICES ASSUME t \notin B.marked, ~ (t = c /\ r \in T \ R)
               PROVE  RuleThere(B, t, r)
    OBVIOUS
  <2>1. t \in A.trans /\ t \notin A.marked
    BY <1>1 DEF StepOK
  <2>2. CASE t = c /\ r \in R
    BY <2>2
  <2>3. CASE ~ (t = c /\ r \in R)
    <3>1. RuleThere(A, t, r)
      BY <1>5, <2>1, <2>3 DEF RuleOwes, job
    <3>2. ASSUME IsPush(r) PROVE Leq(One, W(B, Call(r)))
      <4>1. Leq(One, W(A, Call(r))) /\ Leq(W(A, Call(r)), W(B, Call(r)))
        BY <1>2, <3>1, <3>2 DEF RuleThere, StepOK, Evolves
      <4>2. QED
        BY <1>1, <4>1, LeqTrans, WeightTyped, WeightClosed
    <3>3. QED
      BY <1>1, <3>1, <3>2 DEF RuleThere
  <2>4. QED
    BY <2>2, <2>3
<1>7. pa \in Weight /\ pb \in Weight
  BY <1>3, WeightClosed
<1>8. Leq(D(B, t), pb)
  BY <1>3, CombineUpper, LeqBasics
<1>9. Leq(Extend(W(A, t), w), Combine(W(A, k), Extend(pa, w)))
  <2>1. CASE t \in A.trans
    BY <1>5, <2>1 DEF RuleOwes, k, w
  <2>2. CASE t \notin A.trans
    <3>1. Extend(W(A, t), w) = Zero
      BY <1>1, <2>2, ExtendLaws DEF W
    <3>2. Combine(W(A, k), Extend(pa, w)) \in Weight
      BY <1>1, <1>3, <1>7, WeightClosed
    <3>3. QED
      BY <3>1, <3>2, LeqBasics
  <2>3. QED
    BY <2>1, <2>2
<1>10. Leq(Extend(pa, w), Combine(W(B, k), Extend(pb, w)))
  <2> HIDE DEF pa, pb
  <2>1. /\ Extend(pa, w) \in Weight /\ Extend(pb, w) \in Weight
        /\ Extend(D(A, t), w) \in Weight /\ Extend(d, w) \in Weight
        /\ Combine(W(B, k), Extend(pb, w)) \in Weight
    BY <1>1, <1>3, <1>7, WeightClosed
  <2>2. Leq(Extend(pb, w), Combine(W(B, k), Extend(pb, w)))
        /\ Leq(W(B, k), Combine(W(B, k), Extend(pb, w)))
    BY <1>3, <2>1, CombineUpper
  <2>3. Leq(D(A, t), pb)
    BY <1>3, <1>4, <1>7, <1>8, LeqTrans
  <2>4. Leq(Extend(D(A, t), w), Extend(pb, w))
    BY <1>1, <1>3, <1>7, <2>3, ExtendMono
  <2>5. CASE t = c /\ r \in T /\ r \in R
    <3>1. Extend(pa, w) = Combine(Extend(D(A, t), w), Extend(d, w))
      BY <1>1, <1>3, <2>5, Distributes
    <3>2. Leq(Extend(d, w), W(B, k))
      BY <2>5 DEF k, w
    <3>3. Leq(Extend(d, w), Combine(W(B, k), Extend(pb, w)))
      BY <1>3, <2>1, <2>2, <3>2, LeqTrans
    <3>4. Leq(Extend(D(A, t), w), Combine(W(B, k), Extend(pb, w)))
      BY <2>1, <2>2, <2>4, LeqTrans
    <3>5. QED
      BY <2>1, <3>1, <3>3, <3>4, CombineLeast
  <2>6. CASE t = c /\ r \in T /\ r \notin R
    <3>1. pa = Combine(D(A, t), d) /\ pb = Combine(D(B, t), d)
      BY <1>3, <2>6
    <3>2. Leq(pa, pb)
      BY <1>3, <1>4, <3>1, LeqBasics, CombineMono
    <3>3. Leq(Extend(pa, w), Extend(pb, w))
      BY <1>1, <1>7, <3>2, ExtendMono
    <3>4. QED
      BY <2>1, <2>2, <3>3, LeqTrans
  <2>7. CASE ~ (t = c /\ r \in T)
    <3>1. pa = D(A, t)
      BY <1>3, <2>7
    <3>2. QED
      BY <2>1, <2>2, <2>4, <3>1, LeqTrans
  <2>8. QED
    BY <2>5, <2>6, <2>7
<1>11. Leq(Extend(W(B, t), w), Combine(W(B, k), Extend(pb, w)))
  <2> DEFINE wa == W(A, t)
             wb == W(B, t)
             db == D(B, t)
             ta == W(A, k)
             tb == W(B, k)
  <2>1. /\ wa \in Weight /\ wb \in Weight /\ db \in Weight /\ w \in Weight
        /\ ta \in Weight /\ tb \in Weight /\ pa \in Weight /\ pb \in Weight
    BY <1>1, <1>3, <1>7
  <2>2. /\ Leq(wb, Combine(wa, db))
        /\ Leq(Extend(wa, w), Combine(ta, Extend(pa, w)))
        /\ Leq(ta, tb) /\ Leq(db, pb)
        /\ Leq(Extend(pa, w), Combine(tb, Extend(pb, w)))
    BY <1>4, <1>8, <1>9, <1>10
  <2> HIDE DEF pa, pb, wa, wb, db, ta, tb
  <2>3. Leq(Extend(wb, w), Combine(tb, Extend(pb, w)))
    BY <2>1, <2>2, PayRight
  <2>4. QED
    BY <2>3 DEF wb, tb
<1>12. QED
  BY <1>6, <1>11 DEF RuleOwes, k, w, jobB

(***************************************************************************)
(* Such a step pays what an epsilon transition e owes for a transition u   *)
(* that the step did not change.                                           *)
(***************************************************************************)
LEMMA EpsKept ==
    ASSUME NEW A, NEW B, FaInv(A), StepOK(A, B),
           NEW e \in B.trans, e.stk = EPS,
           NEW u \in A.trans, u.from = e.to, W(B, u) = W(A, u),
           e \in A.trans => EpsOwes(A, e, u)
    PROVE  EpsOwes(B, e, u)
<1> DEFINE b == Bypass(e, u)
<1>1. /\ IsAutomaton(A) /\ IsAutomaton(B) /\ A.trans \subseteq B.trans
      /\ e \in Key /\ u \in Key /\ e.from \in P
  BY DEF FaInv, StepOK, Evolves, IsAutomaton, Shaped
<1>2. b \in Key
  BY <1>1 DEF Bypass, Key
<1>3. /\ W(A, e) \in Weight /\ W(B, e) \in Weight /\ D(A, e) \in Weight /\ D(B, e) \in Weight
      /\ W(A, b) \in Weight /\ W(B, b) \in Weight /\ W(A, u) \in Weight
  BY <1>1, WeightTyped
<1>4. /\ Leq(W(A, b), W(B, b))
      /\ Leq(W(B, e), Combine(W(A, e), D(B, e)))
      /\ Leq(D(A, e), D(B, e))
  BY <1>1, <1>2 DEF StepOK, Evolves
<1>5. e \in B.marked \/ b \in B.trans
  BY <1>1 DEF EpsOwes, StepOK
<1> HIDE DEF b
<1>6. Leq(Extend(W(A, u), W(A, e)), Combine(W(A, b), Extend(W(A, u), D(A, e))))
  <2>1. CASE e \in A.trans
    BY <2>1 DEF EpsOwes, b
  <2>2. CASE e \notin A.trans
    <3>1. Extend(W(A, u), W(A, e)) = Zero
      BY <1>3, <2>2, ExtendLaws DEF W
    <3>2. Combine(W(A, b), Extend(W(A, u), D(A, e))) \in Weight
      BY <1>3, WeightClosed
    <3>3. QED
      BY <3>1, <3>2, LeqBasics
  <2>3. QED
    BY <2>1, <2>2
<1>7. Leq(Extend(W(A, u), W(B, e)), Combine(W(B, b), Extend(W(A, u), D(B, e))))
  BY <1>3, <1>4, <1>6, PayLeft
<1>8. QED
  BY <1>5, <1>7 DEF EpsOwes, b

(* When what leaves the other states stays, every epsilon debt is paid. *)
LEMMA EpsPaidKept ==
    ASSUME NEW A, NEW B, FaInv(A), StepOK(A, B), EpsPaid(A),
           \A u \in B.trans : u.from \notin P => u \in A.trans /\ W(B, u) = W(A, u)
    PROVE  EpsPaid(B)
<1> SUFFICES ASSUME NEW e \in B.trans, e.stk = EPS, NEW u \in Leaving(B, e.to)
             PROVE  EpsOwes(B, e, u)
  BY DEF EpsPaid
<1>1. u \in B.trans /\ u.from = e.to
  BY DEF Leaving
<1>2. e.to \notin P
  BY DEF StepOK, Shaped
<1>3. u \in A.trans /\ W(B, u) = W(A, u)
  BY <1>1, <1>2
<1>4. e \in A.trans => EpsOwes(A, e, u)
  BY <1>1, <1>3 DEF EpsPaid, Leaving
<1>5. QED
  BY <1>1, <1>3, <1>4, EpsKept

(* Updates of transitions that leave control states are such steps. *)
LEMMA UpdateStepOK ==
    ASSUME NEW A, FaInv(A), NEW K \in SUBSET Key, NEW ins \in [K -> Weight],
           \A k \in K : Shaped(k) /\ k.from \in P
    PROVE  LET B == Update(A, ins) IN
           /\ StepOK(A, B)
           /\ \A u \in B.trans : u.from \notin P => u \in A.trans /\ W(B, u) = W(A, u)
<1> DEFINE B == Update(A, ins)
<1>1. IsAutomaton(A)
  BY DEF FaInv
<1>2. /\ IsAutomaton(B)
      /\ B.trans = A.trans \cup K
      /\ \A k : k \in B.marked <=> k \in A.marked \/ (k \in K /\ Modified(A, k, ins[k]))
      /\ \A k \in K : /\ W(B, k) = WeightAfter(A, k, ins[k])
                      /\ D(B, k) = DeltaAfter(A, k, ins[k])
      /\ \A k : k \notin K => SameAt(A, B, k)
  BY <1>1, UpdateFacts
<1>3. Evolves(A, B) /\ Noted(A, B)
  BY <1>1, UpdateEvolves, UpdateNoted
<1> HIDE DEF B
<1>4. ASSUME NEW k \in B.trans
      PROVE  /\ Shaped(k)
             /\ OfThisQuery(k.from) => k \notin B.marked /\ D(B, k) = W(B, k)
             /\ k.from \notin P => SameAt(A, B, k)
  <2>1. Shaped(k)
    BY <1>2 DEF FaInv
  <2>2. k.from \notin P => SameAt(A, B, k)
    BY <1>2
  <2>3. ASSUME OfThisQuery(k.from) PROVE k \notin B.marked /\ D(B, k) = W(B, k)
    <3>1. k.from \notin P
      BY <2>3, WfaAssumption DEF OfThisQuery
    <3>2. SameAt(A, B, k) /\ k \in A.trans
      BY <2>2, <3>1 DEF SameAt
    <3>3. QED
      BY <2>3, <3>2 DEF SameAt, FaInv, DeltaKept
  <2>4. QED
    BY <2>1, <2>2, <2>3
<1>5. StepOK(A, B)
  BY <1>2, <1>3, <1>4 DEF StepOK, Noted
<1>6. \A u \in B.trans : u.from \notin P => u \in A.trans /\ W(B, u) = W(A, u)
  BY <1>4 DEF SameAt
<1>7. QED
  BY <1>5, <1>6 DEF B

(* So is the insertion of a transition out of a state of this query. *)
LEMMA MidStepOK ==
    ASSUME NEW A, FaInv(A), NEW k \in Key, NEW w \in Weight,
           Shaped(k), OfThisQuery(k.from)
    PROVE  LET B == Insert(A, At(k, w)) IN
           /\ StepOK(A, B)
           /\ k \in B.trans /\ W(B, k) = Combine(W(A, k), w)
           /\ \A x : x # k => SameAt(A, B, x)
           /\ ~ Modified(A, k, w) => k \in A.trans /\ W(B, k) = W(A, k)
<1> DEFINE ins == At(k, w)
           B == Insert(A, ins)
<1>1. IsAutomaton(A) /\ {k} \in SUBSET Key /\ ins \in [{k} -> Weight] /\ ins[k] = w
  BY DEF FaInv, At
<1> HIDE DEF ins
<1>1a. /\ IsAutomaton(B)
       /\ B.trans = A.trans \cup {k}
       /\ B.marked = A.marked
       /\ \A x \in {k} : /\ W(B, x) = WeightAfter(A, x, ins[x])
                         /\ D(B, x) = DeltaAfter(A, x, ins[x])
       /\ \A x : x \notin {k} => SameAt(A, B, x)
  BY <1>1, InsertFacts
<1>2. /\ IsAutomaton(B)
      /\ B.trans = A.trans \cup {k} /\ B.marked = A.marked
      /\ W(B, k) = WeightAfter(A, k, w) /\ D(B, k) = DeltaAfter(A, k, w)
      /\ \A x : x # k => SameAt(A, B, x)
  BY <1>1, <1>1a
<1>3. Evolves(A, B)
  BY <1>1, InsertEvolves
<1> HIDE DEF B
<1>4. k.from \notin P
  BY WfaAssumption DEF OfThisQuery
<1>5. k \notin B.marked
  BY <1>1, <1>2 DEF FaInv, DeltaKept, IsAutomaton
<1>6. D(B, k) = W(B, k)
  <2>1. CASE k \in A.trans
    <3>1. /\ D(A, k) = W(A, k) /\ W(A, k) = A.weight[k] /\ D(A, k) = A.delta[k]
          /\ W(A, k) \in Weight
      BY <1>1, <2>1, WeightTyped DEF FaInv, DeltaKept, W, D
    <3>2. DeltaAfter(A, k, w) = Combine(W(A, k), Diff(w, W(A, k)))
      BY <2>1, <3>1 DEF DeltaAfter
    <3>3. QED
      BY <1>2, <3>1, <3>2, DiffContract DEF WeightAfter
  <2>2. CASE k \notin A.trans
    <3>1. W(A, k) = Zero /\ DeltaAfter(A, k, w) = w
      BY <2>2 DEF W, DeltaAfter
    <3>2. Combine(Zero, w) = w
      BY CombineLaws, WeightClosed
    <3>3. QED
      BY <1>2, <3>1, <3>2 DEF WeightAfter
  <2>3. QED
    BY <2>1, <2>2
<1>7. ASSUME NEW x \in B.trans, x # k
      PROVE  /\ Shaped(x)
             /\ OfThisQuery(x.from) => x \notin B.marked /\ D(B, x) = W(B, x)
             /\ x.from \in P => \/ x \in B.marked
                                \/ x \in A.trans /\ x \notin A.marked /\ D(B, x) = D(A, x)
             /\ x.from \notin P /\ ~ OfThisQuery(x.from) => SameAt(A, B, x)
  BY <1>2, <1>7 DEF SameAt, FaInv, DeltaKept
<1>8. StepOK(A, B)
  BY <1>2, <1>3, <1>4, <1>5, <1>6, <1>7 DEF StepOK
<1>9. ASSUME ~ Modified(A, k, w) PROVE k \in A.trans /\ W(B, k) = W(A, k)
  <2>1. k \in A.trans /\ DeltaAfter(A, k, w) = A.delta[k]
    BY <1>9 DEF Modified
  <2>2. D(A, k) = W(A, k) /\ D(A, k) = A.delta[k]
    BY <2>1 DEF FaInv, DeltaKept, D
  <2>3. QED
    BY <1>2, <1>6, <2>1, <2>2
<1>10. QED
  BY <1>2, <1>8, <1>9 DEF B, ins, WeightAfter

(* Two such steps make one. *)
LEMMA StepOKTrans ==
    ASSUME NEW A, NEW B, NEW C, FaInv(A), StepOK(A, B), StepOK(B, C)
    PROVE  StepOK(A, C)
<1>1. IsAutomaton(A) /\ IsAutomaton(B) /\ IsAutomaton(C) /\ B.trans \subseteq C.trans
  BY DEF FaInv, StepOK, Evolves
<1>2. Evolves(A, C)
  BY <1>1, EvolvesTrans DEF StepOK
<1>3. ASSUME NEW k \in C.trans, k.from \in P, k \notin C.marked
      PROVE  k \in A.trans /\ k \notin A.marked /\ D(C, k) = D(A, k)
  <2>1. k \in B.trans /\ k \notin B.marked /\ D(C, k) = D(B, k)
    BY <1>3 DEF StepOK
  <2>2. QED
    BY <1>3, <2>1 DEF StepOK
<1>4. ASSUME NEW k \in C.trans, k.from \notin P, ~ OfThisQuery(k.from)
      PROVE  SameAt(A, C, k)
  <2>1. SameAt(B, C, k) /\ k \in B.trans
    BY <1>4 DEF StepOK, SameAt
  <2>2. SameAt(A, B, k)
    BY <1>4, <2>1 DEF StepOK
  <2>3. QED
    BY <2>1, <2>2 DEF SameAt
<1>5. QED
  BY <1>2, <1>3, <1>4 DEF StepOK

(***************************************************************************)
(* The steps that only take a transition off the worklist.  Nothing is     *)
(* owed less: what was its delta is now pending, for every rule or for     *)
(* what leaves the target of an epsilon transition.                        *)
(***************************************************************************)
LEMMA TakeKept ==
    ASSUME NEW A, FaInv(A), NEW t \in A.marked
    PROVE  LET B == Take(A, t) IN
           /\ FaInv(B)
           /\ \A e \in A.trans : \A u \in A.trans :
                 e # t /\ EpsOwes(A, e, u) => EpsOwes(B, e, u)
<1> DEFINE B == Take(A, t)
<1>1. IsAutomaton(A) /\ t \in A.trans
  BY DEF FaInv, IsAutomaton
<1>2. /\ IsAutomaton(B)
      /\ B.trans = A.trans /\ B.marked = A.marked \ {t}
      /\ B.weight = A.weight
      /\ D(B, t) = Zero
      /\ \A k : W(B, k) = W(A, k)
      /\ \A k : k # t => D(B, k) = D(A, k)
  BY <1>1, TakeFacts
<1> HIDE DEF B
<1>3. Covers(B, input)
  BY <1>2 DEF FaInv, Covers
<1>4. ~ OfThisQuery(t.from)
  BY <1>1 DEF FaInv, DeltaKept
<1>5. ASSUME NEW k \in B.trans PROVE Shaped(k) /\ DeltaKept(B, k)
  <2>1. k \in A.trans /\ Shaped(k) /\ DeltaKept(A, k)
    BY <1>2 DEF FaInv
  <2>2. CASE k = t
    BY <1>2, <1>4, <2>1, <2>2 DEF DeltaKept
  <2>3. CASE k # t
    BY <1>2, <2>1, <2>3 DEF DeltaKept
  <2>4. QED
    BY <2>1, <2>2, <2>3
<1>6. FaInv(B)
  BY <1>2, <1>3, <1>5 DEF FaInv
<1>7. \A e \in A.trans : \A u \in A.trans :
          e # t /\ EpsOwes(A, e, u) => EpsOwes(B, e, u)
  BY <1>2 DEF EpsOwes
<1>8. QED
  BY <1>6, <1>7 DEF B

(* The rules are still paid when a transition becomes the one at work. *)
LEMMA TakeRulesPaid ==
    ASSUME NEW A, FaInv(A), NEW t \in A.marked, NEW job,
           job.todo = {}, RulesPaid(A, job), rules \in RuleSet
    PROVE  LET B == Take(A, t)
               T == IF t.stk = EPS THEN {} ELSE ForwardRules(rules, t.from, t.stk)
           IN  RulesPaid(B, [cur |-> t, dnew |-> A.delta[t], todo |-> T])
<1> DEFINE B == Take(A, t)
           T == IF t.stk = EPS THEN {} ELSE ForwardRules(rules, t.from, t.stk)
           jobB == [cur |-> t, dnew |-> A.delta[t], todo |-> T]
<1>1. IsAutomaton(A) /\ t \in A.trans /\ A.delta[t] = D(A, t) /\ D(A, t) \in Weight
  BY WeightTyped DEF FaInv, IsAutomaton, D
<1>2. /\ B.trans = A.trans /\ B.marked = A.marked \ {t}
      /\ D(B, t) = Zero
      /\ \A k : W(B, k) = W(A, k)
      /\ \A k : k # t => D(B, k) = D(A, k)
  BY <1>1, TakeFacts
<1> HIDE DEF B
<1> SUFFICES ASSUME NEW x \in B.trans, x.stk # EPS,
                    NEW r \in ForwardRules(rules, x.from, x.stk)
             PROVE  RuleOwes(B, jobB, x, r)
  BY DEF RulesPaid, B
<1>3. RuleOwes(A, job, x, r) /\ Pending(A, job, x, r) = D(A, x)
  BY <1>2 DEF RulesPaid, Pending
<1>4. Pending(B, jobB, x, r) = D(A, x)
  <2>1. CASE x = t
    <3>1. Pending(B, jobB, x, r) = Combine(Zero, D(A, t))
      BY <1>1, <1>2, <2>1 DEF Pending
    <3>2. Combine(Zero, D(A, t)) = D(A, t)
      BY <1>1, CombineLaws, WeightClosed
    <3>3. QED
      BY <2>1, <3>1, <3>2
  <2>2. CASE x # t
    BY <1>2, <2>2 DEF Pending
  <2>3. QED
    BY <2>1, <2>2
<1>5. \/ x \in B.marked
      \/ x = jobB.cur /\ r \in jobB.todo
      \/ RuleThere(B, x, r)
  <2>1. x \in A.marked \/ RuleThere(A, x, r)
    BY <1>3 DEF RuleOwes
  <2>2. RuleThere(A, x, r) => RuleThere(B, x, r)
    BY <1>2 DEF RuleThere
  <2>3. QED
    BY <1>2, <2>1, <2>2
<1>6. QED
  BY <1>2, <1>3, <1>4, <1>5 DEF RuleOwes

(* What the invariant says while a query runs. *)
LEMMA WhileSaturating ==
    ASSUME IInv, pc = "saturate"
    PROVE  /\ rules \in RuleSet /\ InputOK(input) /\ IsAutomaton(fa)
           /\ gen \in 1..MaxGeneration /\ dnew \in Weight
           /\ quasi \in [GenState -> Weight]
           /\ FaInv(fa) /\ RulesPaid(fa, Job) /\ EpsPaid(fa)
<1>1. gen = input.gen + 1 /\ input.gen \in Generation /\ gen \in Generation
  BY DEF IInv, TypeOK, InputReady, IsInput
<1>2. gen \in 1..MaxGeneration
  BY <1>1, WfaAssumption DEF Generation
<1>3. QED
  BY <1>2 DEF IInv, TypeOK, InputReady

(* A step of the loop keeps the invariant when it keeps what concerns fa. *)
LEMMA LoopStep ==
    ASSUME IInv, pc = "saturate", UNCHANGED <<rules, caller, input, gen, pc>>,
           quasi' \in [GenState -> Weight],
           cur' \in Key \cup {NoKey}, dnew' \in Weight,
           FaInv(fa'), EpsPaid(fa'),
           RulesPaid(fa', [cur |-> cur', dnew |-> dnew', todo |-> todo']),
           todo' # {} => /\ cur' \in fa'.trans /\ cur'.stk # EPS
                         /\ todo' \subseteq ForwardRules(rules, cur'.from, cur'.stk)
    PROVE  IInv'
<1>1. TypeOK'
  <2>1. todo' \subseteq rules
    BY DEF ForwardRules
  <2>2. IsAutomaton(fa')
    BY DEF FaInv
  <2>3. QED
    BY <2>1, <2>2 DEF IInv, TypeOK
<1>2. InputReady'
  BY DEF IInv, InputReady
<1>3. TodoOK'
  BY DEF TodoOK
<1>4. FaInv(fa)'
  BY DEF FaInv, Shaped, DeltaKept, OfThisQuery
<1>5. RulesPaid(fa, Job)'
  <2>1. \A t, r : RuleTarget(t, r)' = RuleTarget(t, r) /\ Call(r)' = Call(r)
    BY DEF RuleTarget, Mid, Succ, Call
  <2>2. Job' = [cur |-> cur', dnew |-> dnew', todo |-> todo']
    BY DEF Job
  <2> QED
    BY <2>1, <2>2 DEF RulesPaid, RuleOwes, RuleThere, Pending
<1>6. EpsPaid(fa)'
  BY DEF EpsPaid, EpsOwes
<1>7. QED
  BY <1>1, <1>2, <1>3, <1>4, <1>5, <1>6 DEF IInv

(* What evolves grows. *)
LEMMA EvolvesGrows ==
    ASSUME IInv, pc = "saturate", NEW A, A.trans = fa.trans, \A k : W(A, k) = W(fa, k),
           Evolves(A, fa')
    PROVE  Grows
<1>1. fa.trans \subseteq fa'.trans
  BY DEF Evolves
<1>2. ASSUME NEW k \in fa.trans PROVE Leq(fa.weight[k], fa'.weight[k])
  <2>1. k \in Key
    BY DEF IInv, TypeOK, IsAutomaton
  <2>2. W(A, k) = fa.weight[k] /\ W(fa', k) = fa'.weight[k]
    BY <1>1 DEF W
  <2>3. QED
    BY <2>1, <2>2 DEF Evolves
<1>3. QED
  BY <1>1, <1>2 DEF Grows

(* One update of one transition out of a control state. *)
LEMMA UpdateAt ==
    ASSUME NEW A, FaInv(A), NEW k \in Key, NEW w \in Weight,
           Shaped(k), k.from \in P
    PROVE  LET B == Update(A, At(k, w)) IN
           /\ StepOK(A, B)
           /\ \A u \in B.trans : u.from \notin P => u \in A.trans /\ W(B, u) = W(A, u)
           /\ k \in B.trans /\ W(B, k) = Combine(W(A, k), w)
<1> DEFINE ins == At(k, w)
           B == Update(A, ins)
<1>1. IsAutomaton(A) /\ {k} \in SUBSET Key /\ ins \in [{k} -> Weight] /\ ins[k] = w
  BY DEF FaInv, At
<1> HIDE DEF ins
<1>2. /\ StepOK(A, B)
      /\ \A u \in B.trans : u.from \notin P => u \in A.trans /\ W(B, u) = W(A, u)
  BY <1>1, UpdateStepOK
<1>3. /\ IsAutomaton(B)
      /\ B.trans = A.trans \cup {k}
      /\ \A x : x \in B.marked <=> x \in A.marked \/ (x \in {k} /\ Modified(A, x, ins[x]))
      /\ \A x \in {k} : /\ W(B, x) = WeightAfter(A, x, ins[x])
                        /\ D(B, x) = DeltaAfter(A, x, ins[x])
      /\ \A x : x \notin {k} => SameAt(A, B, x)
  BY <1>1, UpdateFacts
<1> HIDE DEF B
<1>4. k \in B.trans /\ W(B, k) = Combine(W(A, k), w)
  BY <1>1, <1>3 DEF WeightAfter
<1>5. QED
  BY <1>2, <1>4 DEF B, ins

(* post() takes a transition off the worklist. *)
LEMMA PopTransitionIInv == IInv /\ PopTransition => IInv' /\ Grows
<1> SUFFICES ASSUME IInv, PopTransition PROVE IInv' /\ Grows
  OBVIOUS
<1>1. pc = "saturate" /\ todo = {} /\ UNCHANGED <<rules, caller, input, gen, quasi, pc>>
  BY DEF PopTransition
<1>2. PICK t \in fa.marked :
          /\ t.stk # EPS /\ cur' = t /\ dnew' = fa.delta[t]
          /\ fa' = Take(fa, t)
          /\ todo' = ForwardRules(rules, t.from, t.stk)
  BY DEF PopTransition
<1>3. /\ rules \in RuleSet /\ InputOK(input) /\ IsAutomaton(fa)
      /\ gen \in 1..MaxGeneration /\ dnew \in Weight
      /\ quasi \in [GenState -> Weight]
      /\ FaInv(fa) /\ RulesPaid(fa, Job) /\ EpsPaid(fa)
  BY <1>1, WhileSaturating
<1>4. t \in fa.trans /\ t \in Key /\ fa.delta[t] \in Weight /\ fa'.trans = fa.trans
  BY <1>2, <1>3, TakeFacts DEF IsAutomaton
<1>5. FaInv(fa') /\ (\A e \in fa.trans : \A u \in fa.trans :
                        e # t /\ EpsOwes(fa, e, u) => EpsOwes(fa', e, u))
  BY <1>2, <1>3, TakeKept
<1>6. EpsPaid(fa')
  BY <1>2, <1>3, <1>4, <1>5 DEF EpsPaid, Leaving
<1>7. RulesPaid(fa', [cur |-> t, dnew |-> fa.delta[t],
                      todo |-> IF t.stk = EPS THEN {} ELSE ForwardRules(rules, t.from, t.stk)])
  <2>1. Job.todo = {}
    BY <1>1 DEF Job
  <2>2. QED
    BY <1>2, <1>3, <2>1, TakeRulesPaid
<1>8. RulesPaid(fa', [cur |-> cur', dnew |-> dnew', todo |-> todo'])
  BY <1>2, <1>7
<1>9. Grows
  <2>1. fa'.weight = fa.weight /\ fa.weight \in [fa.trans -> Weight]
    BY <1>2, <1>3, <1>4, TakeFacts DEF IsAutomaton
  <2>2. QED
    BY <1>4, <2>1, LeqBasics DEF Grows
<1>10. QED
  BY <1>1, <1>2, <1>3, <1>4, <1>5, <1>6, <1>8, <1>9, LoopStep

(* A rule that does not push is applied to the transition at work. *)
LEMMA HandleRuleIInv == IInv /\ HandleRule => IInv' /\ Grows
<1> SUFFICES ASSUME IInv, HandleRule PROVE IInv' /\ Grows
  OBVIOUS
<1>1. pc = "saturate" /\ UNCHANGED <<rules, caller, input, gen, quasi, pc, cur, dnew>>
  BY DEF HandleRule
<1>2. PICK r \in todo :
          /\ ~ IsPush(r)
          /\ fa' = Update(fa, At(Succ(cur, r),
                                 ExtendAndDiff(dnew, r.weight, W(fa, Succ(cur, r)))))
          /\ todo' = todo \ {r}
  BY DEF HandleRule, Succ
<1>3. /\ rules \in RuleSet /\ InputOK(input) /\ IsAutomaton(fa)
      /\ gen \in 1..MaxGeneration /\ dnew \in Weight
      /\ quasi \in [GenState -> Weight]
      /\ FaInv(fa) /\ RulesPaid(fa, Job) /\ EpsPaid(fa)
  BY <1>1, WhileSaturating
<1>4. /\ cur \in fa.trans /\ cur.stk # EPS /\ r \in rules
      /\ todo \subseteq ForwardRules(rules, cur.from, cur.stk)
  BY DEF IInv, TypeOK, TodoOK
<1>5. cur \in Key /\ cur.to \notin P
  BY <1>3, <1>4 DEF IsAutomaton, FaInv, Shaped
<1> DEFINE k == Succ(cur, r)
           new == Extend(dnew, r.weight)
           w == Diff(new, W(fa, k))
<1>6. /\ k \in Key /\ Shaped(k) /\ k.from \in P /\ RuleTarget(cur, r) = k
      /\ W(fa, k) \in Weight /\ new \in Weight /\ w \in Weight
  BY <1>2, <1>3, <1>4, <1>5, TargetParts, RuleParts, WeightTyped, WeightClosed DEF RuleTarget
<1>7. fa' = Update(fa, At(k, w))
  BY <1>2 DEF ExtendAndDiff
<1>8. /\ StepOK(fa, fa')
      /\ \A u \in fa'.trans : u.from \notin P => u \in fa.trans /\ W(fa', u) = W(fa, u)
      /\ k \in fa'.trans /\ W(fa', k) = Combine(W(fa, k), w)
  BY <1>3, <1>6, <1>7, UpdateAt
<1>9. Leq(new, W(fa', k))
  BY <1>6, <1>8, DiffCovers
<1>10. FaInv(fa')
  BY <1>3, <1>8, FaInvKept
<1>11. EpsPaid(fa')
  BY <1>3, <1>8, EpsPaidKept
<1>12. RulesPaid(fa', [cur |-> cur, dnew |-> dnew, todo |-> todo \ {r}])
  <2>1. \A x \in {r} : RuleThere(fa', cur, x)
                       /\ Leq(Extend(dnew, x.weight), W(fa', RuleTarget(cur, x)))
    BY <1>2, <1>6, <1>8, <1>9 DEF RuleThere
  <2>2. RulesPaid(fa, [cur |-> cur, dnew |-> dnew, todo |-> todo])
    BY <1>3 DEF Job
  <2> HIDE DEF k, new, w
  <2>3. QED
    BY <1>3, <1>8, <2>1, <2>2, RulesKept
<1>13. fa.trans \subseteq fa'.trans
  BY <1>8 DEF StepOK, Evolves
<1>14. RulesPaid(fa', [cur |-> cur', dnew |-> dnew', todo |-> todo'])
  BY <1>1, <1>2, <1>12
<1>15. Grows
  BY <1>1, <1>8, EvolvesGrows DEF StepOK
<1>16. QED
  BY <1>1, <1>2, <1>3, <1>4, <1>5, <1>10, <1>11, <1>13, <1>14, <1>15, LoopStep

(* Which transition was at work does not matter once its rules are done. *)
LEMMA IdleJob ==
    ASSUME NEW A, NEW c, NEW d, NEW c2, NEW d2,
           RulesPaid(A, [cur |-> c, dnew |-> d, todo |-> {}])
    PROVE  RulesPaid(A, [cur |-> c2, dnew |-> d2, todo |-> {}])
BY DEF RulesPaid, RuleOwes, Pending

(***************************************************************************)
(* poststar_handle_eps_trans for all that leaves the target of t: the      *)
(* delta t had is now in the weights of the transitions that bypass it.    *)
(***************************************************************************)
LEMMA BypassPays ==
    ASSUME NEW A, NEW C, FaInv(A), EpsPaid(A), NEW t \in A.marked, t.stk = EPS,
           C = Take(A, t), FaInv(C),
           NEW B, StepOK(C, B), NEW u \in A.trans, u.from = t.to, W(B, u) = W(C, u),
           Bypass(t, u) \in B.trans,
           Leq(Extend(W(A, u), D(A, t)), W(B, Bypass(t, u)))
    PROVE  EpsOwes(B, t, u)
<1> DEFINE b == Bypass(t, u)
<1>1. /\ IsAutomaton(A) /\ IsAutomaton(B) /\ IsAutomaton(C)
      /\ t \in A.trans /\ t \in Key /\ u \in Key /\ b \in Key
  BY DEF FaInv, IsAutomaton, StepOK, Bypass, Key
<1>2. /\ \A k : W(C, k) = W(A, k)
      /\ C.trans = A.trans /\ D(C, t) = Zero
  BY <1>1, TakeFacts
<1>3. EpsOwes(A, t, u)
  BY <1>1 DEF EpsPaid, Leaving
<1> DEFINE wu == W(A, u)
           wt == W(A, t)
           dt == D(A, t)
           wb == W(B, b)
<1>4. /\ wu \in Weight /\ wt \in Weight /\ dt \in Weight /\ wb \in Weight
      /\ W(A, b) \in Weight /\ W(B, t) \in Weight /\ D(B, t) \in Weight
  BY <1>1, WeightTyped
<1>5. /\ Leq(W(A, b), wb)
      /\ Leq(W(B, t), Combine(wt, D(B, t)))
  BY <1>1, <1>2 DEF StepOK, Evolves
<1>6. Leq(Extend(wu, wt), Combine(W(A, b), Extend(wu, dt))) /\ Leq(Extend(wu, dt), wb)
  BY <1>3 DEF EpsOwes
<1>7. W(B, u) = wu
  BY <1>2
<1> HIDE DEF wu, wt, dt, wb, b
<1>8. Extend(wu, wt) \in Weight /\ Extend(wu, dt) \in Weight
      /\ Combine(W(A, b), Extend(wu, dt)) \in Weight
      /\ Combine(wb, Extend(wu, Zero)) \in Weight /\ Extend(wu, Zero) \in Weight
  BY <1>4, WeightClosed
<1>9. Leq(Combine(W(A, b), Extend(wu, dt)), wb)
  BY <1>4, <1>5, <1>6, <1>8, CombineLeast
<1>10. Leq(Extend(wu, wt), wb) /\ Leq(wb, Combine(wb, Extend(wu, Zero)))
  BY <1>4, <1>6, <1>8, <1>9, LeqTrans, CombineUpper
<1>11. Leq(Extend(wu, wt), Combine(wb, Extend(wu, Zero)))
  BY <1>4, <1>8, <1>10, LeqTrans
<1>12. Leq(wb, wb) /\ Leq(Zero, D(B, t)) /\ Zero \in Weight
  BY <1>4, LeqBasics, WeightClosed
<1>13. Leq(Extend(wu, W(B, t)), Combine(wb, Extend(wu, D(B, t))))
  BY <1>4, <1>5, <1>11, <1>12, PayLeft
<1>14. QED
  BY <1>7, <1>13 DEF EpsOwes, b, wb

(* post() on an epsilon transition. *)
LEMMA PopEpsilonIInv == IInv /\ PopEpsilon => IInv' /\ Grows
<1> SUFFICES ASSUME IInv, PopEpsilon PROVE IInv' /\ Grows
  OBVIOUS
<1>1. pc = "saturate" /\ todo = {} /\ UNCHANGED <<rules, caller, input, gen, quasi, pc, cur, dnew, todo>>
  BY DEF PopEpsilon
<1>2. PICK t \in fa.marked :
          /\ t.stk = EPS
          /\ fa' = Update(Take(fa, t),
                          [x \in {[from |-> t.from, stk |-> u.stk, to |-> u.to] :
                                     u \in Leaving(Take(fa, t), t.to)} |->
                             Extend(Take(fa, t).weight[[x EXCEPT !.from = t.to]], fa.delta[t])])
  BY DEF PopEpsilon
<1>3. /\ rules \in RuleSet /\ InputOK(input) /\ IsAutomaton(fa)
      /\ gen \in 1..MaxGeneration /\ dnew \in Weight
      /\ quasi \in [GenState -> Weight]
      /\ FaInv(fa) /\ RulesPaid(fa, Job) /\ EpsPaid(fa)
  BY <1>1, WhileSaturating
<1> DEFINE A == Take(fa, t)
           out == Leaving(A, t.to)
           K == {[from |-> t.from, stk |-> u.stk, to |-> u.to] : u \in out}
           ins == [x \in K |-> Extend(A.weight[[x EXCEPT !.from = t.to]], fa.delta[t])]
<1>4. /\ t \in fa.trans /\ t \in Key /\ t.from \in P
      /\ fa.delta[t] = D(fa, t) /\ D(fa, t) \in Weight
  BY <1>2, <1>3, WeightTyped DEF IsAutomaton, FaInv, Shaped, D
<1>5. /\ A.trans = fa.trans /\ \A k : W(A, k) = W(fa, k)
      /\ IsAutomaton(A) /\ A.weight = fa.weight
  BY <1>3, <1>4, TakeFacts
<1>6. FaInv(A) /\ (\A e \in fa.trans : \A u \in fa.trans :
                       e # t /\ EpsOwes(fa, e, u) => EpsOwes(A, e, u))
  BY <1>3, TakeKept
<1>7. fa' = Update(A, ins)
  BY <1>2
<1> HIDE DEF A
<1>8. ASSUME NEW u \in out
      PROVE  /\ u \in fa.trans /\ u \in Key /\ u.from = t.to
             /\ Bypass(t, u) = [from |-> t.from, stk |-> u.stk, to |-> u.to]
             /\ Bypass(t, u) \in Key /\ Shaped(Bypass(t, u)) /\ Bypass(t, u).from \in P
             /\ [Bypass(t, u) EXCEPT !.from = t.to] = u
             /\ A.weight[u] = W(fa, u) /\ W(fa, u) \in Weight
  <2>1. u \in fa.trans /\ u \in Key /\ u.from = t.to /\ u.to \notin P
    BY <1>3, <1>5 DEF Leaving, IsAutomaton, FaInv, Shaped
  <2>2. Bypass(t, u) = [from |-> t.from, stk |-> u.stk, to |-> u.to]
    BY DEF Bypass
  <2>3. Bypass(t, u) \in Key /\ Bypass(t, u).from \in P
    BY <1>4, <2>1 DEF Bypass, Key
  <2>4. Shaped(Bypass(t, u))
    BY <1>4, <2>1, WfaAssumption DEF Shaped, Bypass
  <2>5. [Bypass(t, u) EXCEPT !.from = t.to] = u
    BY <2>1 DEF Bypass, Key
  <2>6. A.weight[u] = W(fa, u) /\ W(fa, u) \in Weight
    BY <1>3, <1>5, <2>1, WeightTyped DEF W
  <2>7. QED
    BY <2>1, <2>2, <2>3, <2>4, <2>5, <2>6
<1>a. K = {Bypass(t, u) : u \in out}
  BY <1>8
<1> HIDE DEF K, out
<1>9. \A x \in K : x \in Key /\ Shaped(x) /\ x.from \in P
  BY <1>8, <1>a
<1>10. \A u \in out : Bypass(t, u) \in K
                     /\ ins[Bypass(t, u)] = Extend(W(fa, u), D(fa, t))
  BY <1>4, <1>8, <1>a
<1>11. ins \in [K -> Weight]
  <2>1. \A x \in K : Extend(A.weight[[x EXCEPT !.from = t.to]], fa.delta[t]) \in Weight
    BY <1>4, <1>8, <1>a, WeightClosed
  <2>2. QED
    BY <2>1
<1> HIDE DEF ins
<1>12. K \in SUBSET Key
  BY <1>9
<1>13. /\ StepOK(A, fa')
       /\ \A u \in fa'.trans : u.from \notin P => u \in A.trans /\ W(fa', u) = W(A, u)
  BY <1>6, <1>7, <1>9, <1>11, <1>12, UpdateStepOK
<1>14. \A u \in out : /\ Bypass(t, u) \in fa'.trans
                      /\ Leq(Extend(W(fa, u), D(fa, t)), W(fa', Bypass(t, u)))
  <2>1. \A k \in K : Leq(ins[k], W(fa', k))
    BY <1>5, <1>7, <1>11, <1>12, UpdateEvolves
  <2>2. fa'.trans = A.trans \cup K
    BY <1>5, <1>7, <1>11, <1>12, UpdateFacts
  <2>3. QED
    BY <1>10, <2>1, <2>2
<1>15. EpsPaid(fa')
  <2> SUFFICES ASSUME NEW e \in fa'.trans, e.stk = EPS, NEW u \in Leaving(fa', e.to)
               PROVE  EpsOwes(fa', e, u)
    BY DEF EpsPaid
  <2>1. u \in fa'.trans /\ u.from = e.to /\ e.to \notin P
    BY <1>13 DEF Leaving, StepOK, Shaped
  <2>2. u \in fa.trans /\ u \in A.trans /\ W(fa', u) = W(A, u)
    BY <1>5, <1>13, <2>1
  <2>3. CASE e # t
    <3>1. e \in A.trans => EpsOwes(A, e, u)
      BY <1>3, <1>5, <1>6, <2>1, <2>2, <2>3 DEF EpsPaid, Leaving
    <3>2. QED
      BY <1>6, <1>13, <2>1, <2>2, <3>1, EpsKept
  <2>4. CASE e = t
    <3>1. u \in out
      BY <2>1, <2>2, <2>4 DEF Leaving, out
    <3>2. A = Take(fa, t)
      BY DEF A
    <3>3. QED
      BY <1>2, <1>3, <1>6, <1>13, <1>14, <2>1, <2>2, <2>4, <3>1, <3>2, BypassPays
  <2>5. QED
    BY <2>3, <2>4
<1>16. FaInv(fa')
  BY <1>3, <1>6, <1>13, FaInvKept
<1>17. RulesPaid(fa', [cur |-> cur', dnew |-> dnew', todo |-> todo'])
  <2>1. RulesPaid(A, [cur |-> t, dnew |-> fa.delta[t],
                      todo |-> IF t.stk = EPS THEN {} ELSE ForwardRules(rules, t.from, t.stk)])
    <3>1. Job.todo = {}
      BY <1>1 DEF Job
    <3>2. QED
      BY <1>3, <3>1, TakeRulesPaid DEF A
  <2>2. RulesPaid(A, [cur |-> t, dnew |-> D(fa, t), todo |-> {}])
    BY <1>2, <1>4, <2>1
  <2>3. RulesPaid(fa', [cur |-> t, dnew |-> D(fa, t), todo |-> {} \ {}])
    BY <1>3, <1>4, <1>6, <1>13, <2>2, RulesKept
  <2>4. {} \ {} = {} /\ todo' = {}
    BY <1>1
  <2>5. QED
    BY <2>3, <2>4, IdleJob
<1>18. cur' \in Key \cup {NoKey} /\ dnew' \in Weight /\ quasi' \in [GenState -> Weight]
  BY <1>1 DEF IInv, TypeOK
<1>19. Grows
  BY <1>1, <1>5, <1>13, EvolvesGrows DEF StepOK
<1>20. QED
  BY <1>1, <1>15, <1>16, <1>17, <1>18, <1>19, LoopStep

(* The entry points of the closure of mid, a transition of this query. *)
LEMMA ClosureKeys ==
    ASSUME NEW A, FaInv(A), NEW mid \in A.trans, OfThisQuery(mid.from), mid.stk # EPS,
           NEW e \in EpsInto(A, mid.from)
    PROVE  /\ e \in A.trans /\ e.from \in P
           /\ e = [from |-> e.from, stk |-> EPS, to |-> mid.from]
           /\ [mid EXCEPT !.from = e.from] = Bypass(e, mid)
           /\ Bypass(e, mid) \in Key /\ Shaped(Bypass(e, mid))
           /\ Bypass(e, mid).from = e.from /\ Bypass(e, mid).stk = mid.stk
<1>1. IsAutomaton(A) /\ mid \in Key /\ mid.to \notin P
  BY DEF FaInv, IsAutomaton, Shaped
<1>2. e \in A.trans /\ e \in Key /\ e.stk = EPS /\ e.to = mid.from
  BY <1>1 DEF EpsInto, IsAutomaton
<1>3. e.from \in P /\ e.from \in State
  BY <1>2 DEF FaInv, Shaped, Key
<1>4. e = [from |-> e.from, stk |-> EPS, to |-> mid.from]
  BY <1>2 DEF Key
<1>5. mid = [from |-> mid.from, stk |-> mid.stk, to |-> mid.to]
      /\ mid.stk \in Symbol /\ mid.to \in State
  BY <1>1 DEF Key
<1>6. [mid EXCEPT !.from = e.from] = Bypass(e, mid)
  BY <1>5 DEF Bypass
<1>7. Bypass(e, mid) \in Key
  BY <1>3, <1>5 DEF Bypass, Key
<1>8. Shaped(Bypass(e, mid))
  BY <1>1, <1>3, WfaAssumption DEF Shaped, Bypass
<1>9. QED
  BY <1>2, <1>3, <1>4, <1>6, <1>7, <1>8 DEF Bypass

(***************************************************************************)
(* The epsilon closure of a transition mid out of a state of this query:   *)
(* every epsilon transition into that state has paid for mid.              *)
(***************************************************************************)
LEMMA ClosureStep ==
    ASSUME NEW A, FaInv(A), NEW mid \in A.trans, OfThisQuery(mid.from), mid.stk # EPS
    PROVE  LET K == {[mid EXCEPT !.from = e.from] : e \in EpsInto(A, mid.from)}
               B == Update(A, [x \in K |-> Extend(A.delta[mid],
                        A.weight[[from |-> x.from, stk |-> EPS, to |-> mid.from]])])
           IN  /\ StepOK(A, B)
               /\ \A u \in B.trans : u.from \notin P => u \in A.trans /\ W(B, u) = W(A, u)
               /\ \A e \in B.trans : e.stk = EPS /\ e.to = mid.from => EpsOwes(B, e, mid)
<1> DEFINE into == EpsInto(A, mid.from)
           K == {[mid EXCEPT !.from = e.from] : e \in into}
           ins == [x \in K |-> Extend(A.delta[mid],
                        A.weight[[from |-> x.from, stk |-> EPS, to |-> mid.from]])]
           B == Update(A, ins)
<1>1. IsAutomaton(A) /\ A.delta[mid] = W(A, mid) /\ W(A, mid) \in Weight
      /\ mid.from \notin P
  BY WeightTyped, WfaAssumption DEF FaInv, DeltaKept, D, OfThisQuery
<1>2. \A e \in into :
          /\ e \in A.trans /\ e.from \in P
          /\ e = [from |-> e.from, stk |-> EPS, to |-> mid.from]
          /\ [mid EXCEPT !.from = e.from] = Bypass(e, mid)
          /\ Bypass(e, mid) \in Key /\ Shaped(Bypass(e, mid))
          /\ Bypass(e, mid).from = e.from /\ Bypass(e, mid).stk = mid.stk
  BY ClosureKeys
<1>3. \A e \in into : W(A, e) \in Weight
               /\ A.weight[[from |-> e.from, stk |-> EPS, to |-> mid.from]] = W(A, e)
  BY <1>1, <1>2, WeightTyped DEF W
<1>4. K = {Bypass(e, mid) : e \in into}
  BY <1>2
<1> HIDE DEF K, into
<1>5. ASSUME NEW e \in into
      PROVE  Bypass(e, mid) \in K /\ ins[Bypass(e, mid)] = Extend(W(A, mid), W(A, e))
  BY <1>1, <1>2, <1>3, <1>4
<1>6. \A k \in K : k \in Key /\ Shaped(k) /\ k.from \in P /\ k.stk # EPS
  BY <1>2, <1>4
<1>7. ins \in [K -> Weight]
  <2>1. ASSUME NEW k \in K PROVE ins[k] \in Weight
    <3>1. PICK e \in into : k = Bypass(e, mid)
      BY <1>4
    <3>2. QED
      BY <1>1, <1>3, <1>5, <3>1, WeightClosed
  <2> DEFINE val(x) == Extend(A.delta[mid],
                        A.weight[[from |-> x.from, stk |-> EPS, to |-> mid.from]])
  <2>2. \A k \in K : val(k) \in Weight
    BY <2>1
  <2> HIDE DEF val
  <2>3. [x \in K |-> val(x)] \in [K -> Weight]
    BY <2>2
  <2>4. QED
    BY <2>3 DEF val
<1> HIDE DEF ins
<1>8. K \in SUBSET Key
  BY <1>6
<1>9. /\ StepOK(A, B)
      /\ \A u \in B.trans : u.from \notin P => u \in A.trans /\ W(B, u) = W(A, u)
  BY <1>6, <1>7, <1>8, UpdateStepOK
<1>10. /\ IsAutomaton(B)
       /\ B.trans = A.trans \cup K
       /\ \A k : k \in B.marked <=> k \in A.marked \/ (k \in K /\ Modified(A, k, ins[k]))
       /\ \A k \in K : /\ W(B, k) = WeightAfter(A, k, ins[k])
                       /\ D(B, k) = DeltaAfter(A, k, ins[k])
       /\ \A k : k \notin K => SameAt(A, B, k)
  BY <1>1, <1>7, <1>8, UpdateFacts
<1>11. \A k \in K : Leq(ins[k], W(B, k))
  BY <1>1, <1>7, <1>8, UpdateEvolves
<1> HIDE DEF B
<1>12. ASSUME NEW e \in B.trans, e.stk = EPS, e.to = mid.from
       PROVE  EpsOwes(B, e, mid)
  <2>1. e \notin K /\ e \in A.trans
    BY <1>6, <1>10, <1>12
  <2>2. e \in into /\ W(B, e) = W(A, e) /\ W(B, mid) = W(A, mid)
    BY <1>1, <1>6, <1>10, <1>12, <2>1 DEF EpsInto, SameAt, into
  <2> DEFINE b == Bypass(e, mid)
             wb == W(B, b)
             mine == Extend(W(B, mid), W(B, e))
             owed == Extend(W(B, mid), D(B, e))
  <2>3. b \in B.trans /\ Leq(mine, wb)
    BY <1>5, <1>10, <1>11, <2>2
  <2>4. wb \in Weight /\ mine \in Weight /\ owed \in Weight
    BY <1>10, WeightTyped, WeightClosed
  <2>5. EpsOwes(B, e, mid) <=> (e \in B.marked \/ b \in B.trans) /\ Leq(mine, Combine(wb, owed))
    BY DEF EpsOwes
  <2> HIDE DEF wb, mine, owed, b
  <2>6. Leq(wb, Combine(wb, owed)) /\ Combine(wb, owed) \in Weight
    BY <2>4, CombineUpper, WeightClosed
  <2>7. Leq(mine, Combine(wb, owed))
    BY <2>3, <2>4, <2>6, LeqTrans
  <2>8. QED
    BY <2>3, <2>5, <2>7
<1>13. QED
  BY <1>9, <1>12 DEF B, ins, K, into

(***************************************************************************)
(* poststar_handle_trans on a push rule, for the automaton A it finds: the *)
(* transition out of the generated state, the one into it, and, when the   *)
(* first was modified, its epsilon closure.                                *)
(***************************************************************************)
LEMMA PushStep ==
    ASSUME NEW A, FaInv(A), EpsPaid(A), InputOK(input), gen \in 1..MaxGeneration,
           NEW mid \in Key, Shaped(mid), OfThisQuery(mid.from), mid.stk # EPS,
           NEW wmid \in Weight,
           NEW call \in Key, Shaped(call), call.from \in P, NEW q \in Weight,
           NEW A1, A1 = Insert(A, At(mid, wmid)),
           NEW A2, A2 = Update(A1, At(call, q)),
           NEW closed,
           closed = [x \in {[mid EXCEPT !.from = e.from] : e \in EpsInto(A2, mid.from)}
                       |-> Extend(A2.delta[mid],
                                  A2.weight[[from |-> x.from, stk |-> EPS, to |-> mid.from]])],
           NEW B, B = IF Modified(A, mid, wmid) THEN Update(A2, closed) ELSE A2
    PROVE  /\ StepOK(A, B) /\ EpsPaid(B)
           /\ mid \in B.trans /\ W(B, mid) = Combine(W(A, mid), wmid)
           /\ call \in B.trans /\ Leq(q, W(B, call))
<1>1. /\ StepOK(A, A1)
      /\ mid \in A1.trans /\ W(A1, mid) = Combine(W(A, mid), wmid)
      /\ \A x : x # mid => SameAt(A, A1, x)
      /\ ~ Modified(A, mid, wmid) => mid \in A.trans /\ W(A1, mid) = W(A, mid)
  BY MidStepOK
<1>2. FaInv(A1) /\ IsAutomaton(A1)
  BY <1>1, FaInvKept DEF StepOK
<1>3. /\ StepOK(A1, A2)
      /\ \A u \in A2.trans : u.from \notin P => u \in A1.trans /\ W(A2, u) = W(A1, u)
      /\ call \in A2.trans /\ W(A2, call) = Combine(W(A1, call), q)
  BY <1>2, UpdateAt
<1>4. FaInv(A2) /\ IsAutomaton(A2)
  BY <1>2, <1>3, FaInvKept DEF StepOK
<1>5. StepOK(A, A2)
  BY <1>1, <1>3, StepOKTrans
<1>6. mid \in A2.trans /\ W(A2, mid) = W(A1, mid) /\ mid.from \notin P /\ mid.to \notin P
  <2>1. mid \in A2.trans /\ mid.from \notin P
    BY <1>1, <1>3, WfaAssumption DEF StepOK, Evolves, OfThisQuery
  <2>2. QED
    BY <1>3, <2>1 DEF Shaped
<1>7. Leq(q, W(A2, call)) /\ W(A2, call) \in Weight
  BY <1>2, <1>3, <1>4, WeightTyped, CombineUpper
<1> DEFINE C == Update(A2, closed)
<1>8. /\ StepOK(A2, C)
      /\ \A u \in C.trans : u.from \notin P => u \in A2.trans /\ W(C, u) = W(A2, u)
      /\ \A e \in C.trans : e.stk = EPS /\ e.to = mid.from => EpsOwes(C, e, mid)
  <2> DEFINE K == {[mid EXCEPT !.from = e.from] : e \in EpsInto(A2, mid.from)}
             ins == [x \in K |-> Extend(A2.delta[mid],
                        A2.weight[[from |-> x.from, stk |-> EPS, to |-> mid.from]])]
             X == Update(A2, ins)
  <2>1. /\ StepOK(A2, X)
        /\ \A u \in X.trans : u.from \notin P => u \in A2.trans /\ W(X, u) = W(A2, u)
        /\ \A e \in X.trans : e.stk = EPS /\ e.to = mid.from => EpsOwes(X, e, mid)
    <3>1. FaInv(A2) /\ mid \in A2.trans /\ OfThisQuery(mid.from) /\ mid.stk # EPS
      BY <1>4, <1>6
    <3>2. QED
      BY ONLY <3>1, ClosureStep
  <2>2. closed = ins
    OBVIOUS
  <2> HIDE DEF ins, K
  <2>3. QED
    BY <2>1, <2>2
<1> HIDE DEF C
<1>9. B = IF Modified(A, mid, wmid) THEN C ELSE A2
  BY DEF C
<1>10. IsAutomaton(B) /\ Evolves(A2, B)
       /\ \A u \in B.trans : u.from \notin P => u \in A2.trans /\ W(B, u) = W(A2, u)
  <2>1. CASE B = A2
    <3>1. \A k \in Key : /\ W(A2, k) \in Weight /\ D(A2, k) \in Weight
                         /\ Leq(W(A2, k), W(A2, k)) /\ Leq(D(A2, k), D(A2, k))
                         /\ Leq(W(A2, k), Combine(W(A2, k), D(A2, k)))
      BY <1>4, WeightTyped, LeqBasics, CombineUpper
    <3>2. QED
      BY <1>4, <2>1, <3>1 DEF Evolves
  <2>2. CASE B = C
    BY <1>8, <2>2 DEF StepOK
  <2>3. QED
    BY <1>9, <2>1, <2>2
<1>11. StepOK(A, B)
  <2>1. B = C => StepOK(A, B)
    BY <1>5, <1>8, StepOKTrans
  <2>2. QED
    BY <1>5, <1>9, <2>1
<1>12. mid \in B.trans /\ W(B, mid) = W(A1, mid)
  BY <1>6, <1>10 DEF Evolves
<1>13. call \in B.trans /\ Leq(q, W(B, call))
  <2>1. call \in B.trans /\ Leq(W(A2, call), W(B, call)) /\ W(B, call) \in Weight
    BY <1>3, <1>10, WeightTyped DEF Evolves
  <2>2. QED
    BY <1>7, <2>1, LeqTrans
<1>14. EpsPaid(B)
  <2> SUFFICES ASSUME NEW e \in B.trans, e.stk = EPS, NEW u \in Leaving(B, e.to)
               PROVE  EpsOwes(B, e, u)
    BY DEF EpsPaid
  <2>1. u \in B.trans /\ u.from = e.to /\ e.to \notin P
    BY <1>11 DEF Leaving, StepOK, Shaped
  <2>2. u \in A1.trans /\ W(B, u) = W(A1, u)
    BY <1>3, <1>10, <2>1
  <2>3. CASE u \in A.trans /\ W(A1, u) = W(A, u)
    <3>1. e \in A.trans => EpsOwes(A, e, u)
      BY <2>1, <2>3 DEF EpsPaid, Leaving
    <3>2. QED
      BY <1>11, <2>1, <2>2, <2>3, <3>1, EpsKept
  <2>4. CASE u = mid /\ Modified(A, mid, wmid)
    BY <1>8, <1>9, <2>1, <2>4
  <2>5. CASE u # mid
    BY <1>1, <2>2, <2>3, <2>5 DEF SameAt
  <2>6. CASE u = mid /\ ~ Modified(A, mid, wmid)
    BY <1>1, <2>3, <2>6
  <2>7. QED
    BY <2>4, <2>5, <2>6
<1>15. QED
  BY <1>1, <1>11, <1>12, <1>13, <1>14

(* A push rule is applied to the transition at work. *)
LEMMA HandlePushIInv == IInv /\ HandlePush => IInv' /\ Grows
<1> SUFFICES ASSUME IInv, HandlePush PROVE IInv' /\ Grows
  OBVIOUS
<1>1. pc = "saturate" /\ UNCHANGED <<rules, caller, input, gen, pc, cur, dnew>>
  BY DEF HandlePush
<1>2. PICK r \in todo :
          LET g    == gen_state(gen, r.to, r.stk1)
              mid  == Mid(cur, r)
              wmid == ExtendAndDiff(dnew, r.weight, W(fa, mid))
              qone == Combine(quasi[g], One)
              A1   == Insert(fa, At(mid, wmid))
              A2   == Update(A1, At(Call(r), qone))
              closed == [x \in {[mid EXCEPT !.from = e.from] : e \in EpsInto(A2, g)}
                           |-> Extend(A2.delta[mid],
                                      A2.weight[[from |-> x.from, stk |-> EPS, to |-> g]])]
          IN  /\ IsPush(r)
              /\ quasi' = [quasi EXCEPT ![g] = qone]
              /\ fa' = IF Modified(fa, mid, wmid) THEN Update(A2, closed) ELSE A2
              /\ todo' = todo \ {r}
  BY DEF HandlePush, Mid, Call
<1>3. /\ rules \in RuleSet /\ InputOK(input) /\ IsAutomaton(fa)
      /\ gen \in 1..MaxGeneration /\ dnew \in Weight
      /\ quasi \in [GenState -> Weight]
      /\ FaInv(fa) /\ RulesPaid(fa, Job) /\ EpsPaid(fa)
  BY <1>1, WhileSaturating
<1>4. /\ cur \in fa.trans /\ cur.stk # EPS /\ r \in rules /\ IsPush(r)
      /\ todo \subseteq ForwardRules(rules, cur.from, cur.stk)
  BY <1>2 DEF IInv, TypeOK, TodoOK
<1>5. cur \in Key /\ cur.to \notin P
  BY <1>3, <1>4 DEF IsAutomaton, FaInv, Shaped
<1> DEFINE mid == Mid(cur, r)
           call == Call(r)
           g == gen_state(gen, r.to, r.stk1)
           new == Extend(dnew, r.weight)
           wmid == ExtendAndDiff(dnew, r.weight, W(fa, mid))
           qone == Combine(quasi[g], One)
           A1 == Insert(fa, At(mid, wmid))
           A2 == Update(A1, At(call, qone))
           closed == [x \in {[mid EXCEPT !.from = e.from] : e \in EpsInto(A2, mid.from)}
                        |-> Extend(A2.delta[mid],
                                   A2.weight[[from |-> x.from, stk |-> EPS, to |-> mid.from]])]
<1>6. /\ mid \in Key /\ Shaped(mid) /\ OfThisQuery(mid.from) /\ mid.stk # EPS
      /\ call \in Key /\ Shaped(call) /\ call.from \in P
      /\ g \in GenState /\ RuleTarget(cur, r) = mid
  BY <1>3, <1>4, <1>5, TargetParts DEF RuleTarget
<1>7. mid.from = g
  BY DEF Mid
<1>8. /\ W(fa, mid) \in Weight /\ new \in Weight
      /\ wmid = Diff(new, W(fa, mid)) /\ wmid \in Weight
  BY <1>3, <1>4, RuleParts, WeightTyped, WeightClosed DEF ExtendAndDiff
<1>9. quasi[g] \in Weight /\ One \in Weight /\ qone \in Weight /\ Leq(One, qone)
  BY <1>3, <1>6, WeightClosed, CombineUpper
<1>10. quasi' = [quasi EXCEPT ![g] = qone] /\ todo' = todo \ {r}
  BY <1>2
<1>11. fa' = IF Modified(fa, mid, wmid) THEN Update(A2, closed) ELSE A2
  BY <1>2, <1>7
<1>12. /\ StepOK(fa, fa') /\ EpsPaid(fa')
       /\ mid \in fa'.trans /\ W(fa', mid) = Combine(W(fa, mid), wmid)
       /\ call \in fa'.trans /\ Leq(qone, W(fa', call))
  <2> HIDE DEF mid, call, g, wmid, qone
  <2>1. /\ FaInv(fa) /\ EpsPaid(fa) /\ InputOK(input) /\ gen \in 1..MaxGeneration
        /\ mid \in Key /\ Shaped(mid) /\ OfThisQuery(mid.from) /\ mid.stk # EPS
        /\ wmid \in Weight
        /\ call \in Key /\ Shaped(call) /\ call.from \in P /\ qone \in Weight
    BY <1>3, <1>6, <1>8, <1>9
  <2>2. A1 = Insert(fa, At(mid, wmid)) /\ A2 = Update(A1, At(call, qone))
    OBVIOUS
  <2>3. closed = [x \in {[mid EXCEPT !.from = e.from] : e \in EpsInto(A2, mid.from)}
                    |-> Extend(A2.delta[mid],
                               A2.weight[[from |-> x.from, stk |-> EPS, to |-> mid.from]])]
    OBVIOUS
  <2> HIDE DEF A1, A2, closed
  <2>4. QED
    BY ONLY <1>11, <2>1, <2>2, <2>3, PushStep, SMTT(30)
<1>13. Leq(new, W(fa', mid))
  BY <1>8, <1>12, DiffCovers
<1>14. FaInv(fa')
  BY <1>3, <1>12, FaInvKept
<1>15. W(fa', call) \in Weight /\ Leq(One, W(fa', call))
  <2>1. W(fa', call) \in Weight
    BY <1>14, WeightTyped DEF FaInv
  <2>2. QED
    BY <1>9, <1>12, <2>1, LeqTrans
<1> HIDE DEF closed, A1, A2
<1>16. RulesPaid(fa', [cur |-> cur, dnew |-> dnew, todo |-> todo \ {r}])
  <2>1. \A x \in {r} : RuleThere(fa', cur, x)
                       /\ Leq(Extend(dnew, x.weight), W(fa', RuleTarget(cur, x)))
    BY <1>6, <1>12, <1>13, <1>15 DEF RuleThere
  <2>2. RulesPaid(fa, [cur |-> cur, dnew |-> dnew, todo |-> todo])
    BY <1>3 DEF Job
  <2> HIDE DEF mid, call, new, wmid, qone, g
  <2>3. QED
    BY <1>3, <1>12, <2>1, <2>2, RulesKept
<1>17. fa.trans \subseteq fa'.trans
  BY <1>12 DEF StepOK, Evolves
<1>18. RulesPaid(fa', [cur |-> cur', dnew |-> dnew', todo |-> todo'])
  BY <1>1, <1>10, <1>16
<1>19. quasi' \in [GenState -> Weight]
  BY <1>3, <1>6, <1>9, <1>10
<1>20. cur' \in fa'.trans /\ cur'.stk # EPS
       /\ todo' \subseteq ForwardRules(rules, cur'.from, cur'.stk)
  BY <1>1, <1>4, <1>10, <1>17
<1>21. cur' \in Key \cup {NoKey} /\ dnew' \in Weight
  BY <1>1, <1>3, <1>5
<1>22. Grows
  BY <1>1, <1>12, EvolvesGrows DEF StepOK
<1>23. QED
  BY <1>1, <1>12, <1>14, <1>18, <1>19, <1>20, <1>21, <1>22, LoopStep

(***************************************************************************)
(* The copy of the input is all on the worklist with its whole weight as   *)
(* delta, so it owes nothing; and no transition of the input leaves a      *)
(* state of the generation that starts.                                    *)
(***************************************************************************)
LEMMA SetupIInv == IInv /\ Setup => IInv'
<1> SUFFICES ASSUME IInv, Setup PROVE IInv'
  OBVIOUS
<1>1. /\ pc = "setup" /\ pc' = "saturate" /\ fa' = CopyOf(input)
      /\ gen' = input.gen + 1
      /\ quasi' = [q \in GenState |-> Zero]
      /\ UNCHANGED <<rules, caller, input, cur, dnew, todo>>
  BY DEF Setup, NextGeneration
<1>2. /\ InputOK(input) /\ EpsilonFromControl(input) /\ input.gen < MaxGeneration
      /\ IsInput(input) /\ todo = {} /\ rules \in RuleSet
  BY <1>1 DEF IInv, InputReady, TodoOK, TypeOK, InputOK
<1>3. /\ input.trans \subseteq Key /\ input.weight \in [input.trans -> Weight]
      /\ input.gen \in 0..MaxGeneration /\ input.trans # {}
  BY <1>2 DEF IsInput, InputOK, Generation
<1>4. gen' \in 1..MaxGeneration /\ input.gen < gen'
  BY <1>1, <1>2, <1>3, WfaAssumption
<1>5. /\ fa'.trans = input.trans /\ fa'.weight = input.weight
      /\ fa'.delta = input.weight /\ fa'.marked = input.trans
      /\ IsAutomaton(fa')
  BY <1>1, <1>3 DEF CopyOf, IsAutomaton
<1>6. TypeOK'
  BY <1>1, <1>2, <1>4, <1>5, WeightClosed DEF IInv, TypeOK, Generation
<1>7. InputReady' /\ TodoOK'
  BY <1>1, <1>2 DEF InputReady, TodoOK
<1>8. FaInv(fa)'
  <2>1. ASSUME NEW k \in fa'.trans PROVE Shaped(k)'
    <3>1. /\ k.to \notin P
          /\ k.stk = EPS => k.from \in P
          /\ k.from \in GenState => k.from.gen <= input.gen /\ k.from.gen \in 1..MaxGeneration
      BY <1>2, <1>5 DEF InputOK, EpsilonFromControl, GenState
    <3>2. k.from \in GenState => k.from.gen <= gen'
      BY <1>3, <1>4, <3>1
    <3>3. QED
      BY <3>1, <3>2 DEF Shaped
  <2>2. ASSUME NEW k \in fa'.trans PROVE DeltaKept(fa, k)'
    <3>1. ~ OfThisQuery(k.from)'
      <4>1. k.from \in GenState => k.from.gen <= input.gen /\ k.from.gen \in 1..MaxGeneration
        BY <1>2, <1>5 DEF InputOK, GenState
      <4>2. QED
        BY <1>3, <1>4, <4>1 DEF OfThisQuery
    <3>2. k \in fa'.marked
      BY <1>5
    <3>3. QED
      BY <3>1, <3>2 DEF DeltaKept
  <2>3. Covers(fa, input)'
    BY <1>1, <1>3, <1>5, LeqBasics DEF Covers
  <2>4. QED
    BY <1>3, <1>5, <2>1, <2>2, <2>3 DEF FaInv
<1>9. ASSUME NEW w \in Weight, NEW a \in Weight, NEW v \in Weight
      PROVE  Leq(Extend(w, a), Combine(v, Extend(w, a)))
  BY WeightClosed, CombineUpper
<1>10. \A k : D(fa', k) = W(fa', k) /\ W(fa', k) \in Weight
  BY <1>5, WeightTyped DEF D, W
<1>11. RulesPaid(fa, Job)'
  <2> SUFFICES ASSUME NEW t \in fa'.trans, t.stk # EPS,
                      NEW r \in ForwardRules(rules', t.from, t.stk)
               PROVE  RuleOwes(fa, Job, t, r)'
    BY DEF RulesPaid
  <2>1. r.weight \in Weight
    BY <1>1, <1>2, RuleParts DEF ForwardRules
  <2>2. Pending(fa, Job, t, r)' = W(fa', t)
    BY <1>1, <1>2, <1>10 DEF Pending, Job
  <2>3. t \in fa'.marked
    BY <1>5
  <2>4. QED
    BY <1>9, <1>10, <2>1, <2>2, <2>3 DEF RuleOwes
<1>12. EpsPaid(fa)'
  BY <1>5, <1>9, <1>10 DEF EpsPaid, EpsOwes, Leaving
<1>13. QED
  BY <1>6, <1>7, <1>8, <1>11, <1>12 DEF IInv

(* The worklist is empty: what nothing is pending for has been paid. *)
LEMMA FinishIInv == IInv /\ Finish => IInv'
<1> SUFFICES ASSUME IInv, Finish PROVE IInv'
  OBVIOUS
<1>1. /\ pc = "saturate" /\ pc' = "done" /\ todo = {} /\ fa.marked = {}
      /\ cur' = NoKey /\ dnew' = Zero
      /\ UNCHANGED <<rules, caller, input, fa, gen, quasi, todo>>
  BY DEF Finish
<1>2. FaInv(fa) /\ RulesPaid(fa, Job) /\ EpsPaid(fa)
  BY <1>1, WhileSaturating
<1>3. TypeOK'
  BY <1>1, WeightClosed DEF IInv, TypeOK
<1>4. InputReady' /\ TodoOK'
  BY <1>1 DEF IInv, InputReady, TodoOK
<1>5. FaInv(fa)' /\ EpsPaid(fa)'
  BY <1>1, <1>2 DEF FaInv, Shaped, DeltaKept, OfThisQuery, EpsPaid, EpsOwes
<1>6. RulesPaid(fa, Job)'
  <2>1. \A t, r : RuleTarget(t, r)' = RuleTarget(t, r) /\ Call(r)' = Call(r)
    BY <1>1 DEF RuleTarget, Mid, Succ, Call
  <2>2. Job' = [cur |-> NoKey, dnew |-> Zero, todo |-> {}]
    BY <1>1 DEF Job
  <2>3. RulesPaid(fa, [cur |-> cur, dnew |-> dnew, todo |-> {}])
    BY <1>1, <1>2 DEF Job
  <2>4. RulesPaid(fa, [cur |-> NoKey, dnew |-> Zero, todo |-> {}])
    BY <2>3, IdleJob
  <2>5. QED
    BY <1>1, <2>1, <2>2, <2>4 DEF RulesPaid, RuleOwes, RuleThere, Pending
<1>7. QED
  BY <1>3, <1>4, <1>5, <1>6 DEF IInv

(* A query is handed an input it may be handed. *)
LEMMA QueryStarts ==
    ASSUME IInv, pc # "saturate", pc' = "setup",
           UNCHANGED <<rules, fa, gen, quasi, cur, dnew, todo>>,
           caller' \in {"client", "constructCFG"},
           InputOK(input'), EpsilonFromControl(input'), input'.gen < MaxGeneration
    PROVE  IInv'
<1>1. TypeOK'
  BY DEF IInv, TypeOK, InputOK
<1>2. InputReady' /\ TodoOK'
  BY DEF IInv, InputReady, TodoOK
<1>3. QED
  BY <1>1, <1>2 DEF IInv

(* constructCFG makes such an input. *)
LEMMA ConstructCFGIInv == IInv /\ ConstructCFG => IInv'
<1> SUFFICES ASSUME IInv, ConstructCFG PROVE IInv'
  OBVIOUS
<1>1. PICK s \in P, entries \in SUBSET Stack :
          LET keys == {[from |-> s, stk |-> e, to |-> gen_state(1, s, e)] :
                          e \in EntryPoints(rules, entries)}
          IN  /\ keys # {}
              /\ input' = [trans |-> keys, weight |-> [k \in keys |-> One], gen |-> 0]
  BY DEF ConstructCFG, CfgGeneration
<1> DEFINE keys == {[from |-> s, stk |-> e, to |-> gen_state(1, s, e)] :
                       e \in EntryPoints(rules, entries)}
<1>2. rules \in RuleSet /\ MaxGeneration > 0 /\ MaxGeneration \in Nat
  BY WfaAssumption DEF IInv, TypeOK, ConstructCFG
<1>3. EntryPoints(rules, entries) \subseteq Stack
  BY <1>2, RuleParts DEF EntryPoints
<1>4. ASSUME NEW e \in Stack
      PROVE  /\ gen_state(1, s, e) \in GenState
             /\ [from |-> s, stk |-> e, to |-> gen_state(1, s, e)] \in Key
  <2>1. gen_state(1, s, e) \in GenState
    BY <1>2 DEF GenState, gen_state
  <2>2. QED
    BY <2>1 DEF Key, State, Symbol
<1>5. ASSUME NEW k \in keys
      PROVE  k \in Key /\ k.from \in P /\ k.stk # EPS /\ k.to \in GenState
  <2>1. PICK e \in EntryPoints(rules, entries) :
            k = [from |-> s, stk |-> e, to |-> gen_state(1, s, e)]
    OBVIOUS
  <2>2. e \in Stack
    BY <1>3
  <2>3. e # EPS
    BY <2>2, WfaAssumption
  <2>4. k.from = s /\ k.stk = e /\ k.to = gen_state(1, s, e)
    BY <2>1
  <2>5. QED
    BY <1>4, <2>1, <2>2, <2>3, <2>4
<1>6. keys # {} /\ input' = [trans |-> keys, weight |-> [k \in keys |-> One], gen |-> 0]
  BY <1>1
<1> HIDE DEF keys
<1>7. /\ input'.trans = keys /\ input'.gen = 0
      /\ input'.weight \in [keys -> Weight] /\ IsInput(input')
  BY <1>2, <1>5, <1>6, WeightClosed DEF IsInput, Generation
<1>8. InputOK(input') /\ EpsilonFromControl(input')
  BY <1>5, <1>6, <1>7, WfaAssumption DEF InputOK, EpsilonFromControl
<1>9. QED
  BY <1>2, <1>7, <1>8, QueryStarts DEF ConstructCFG

(* The output of a query is an input for the next one. *)
LEMMA QueryAgainIInv == IInv /\ QueryAgain => IInv'
<1> SUFFICES ASSUME IInv, QueryAgain PROVE IInv'
  OBVIOUS
<1>1. /\ pc = "done" /\ pc' = "setup" /\ caller' = "client" /\ gen < MaxGeneration
      /\ input' = [trans |-> fa.trans, weight |-> fa.weight, gen |-> gen]
      /\ UNCHANGED <<rules, fa, gen, quasi, cur, dnew, todo>>
  BY DEF QueryAgain
<1>2. FaInv(fa) /\ gen \in Generation
  BY <1>1 DEF IInv, TypeOK
<1>3. /\ input'.trans = fa.trans /\ input'.weight = fa.weight /\ input'.gen = gen
      /\ IsInput(input')
  BY <1>1, <1>2 DEF FaInv, IsAutomaton, IsInput
<1>4. InputOK(input') /\ EpsilonFromControl(input')
  BY <1>2, <1>3 DEF InputOK, EpsilonFromControl, FaInv, Shaped
<1>5. QED
  BY <1>1, <1>3, <1>4, QueryStarts

(* What is asked of a client's automata: epsilon only leaves control states. *)
AllFromControl == \A in \in Inputs : EpsilonFromControl(in)

(* The empty map, written <<>> in NoInput, is a function into any set. *)
LEMMA EmptyWeights == \A S : <<>> \in [{} -> S]
<1>1. <<>> = [x \in {} |-> x]
  OBVIOUS
<1>2. QED
  BY <1>1

(* The invariant holds before the first query. *)
LEMMA InitIInv == Init => IInv
<1> SUFFICES ASSUME Init PROVE IInv
  OBVIOUS
<1>1. IsInput(NoInput)
  BY EmptyWeights, WfaAssumption DEF NoInput, IsInput, Generation
<1>2. TypeOK
  <2>1. gen \in Generation
    BY WfaAssumption DEF Init, Generation
  <2>2. quasi \in [GenState -> Weight] /\ dnew \in Weight
    BY WeightClosed DEF Init
  <2>3. rules \in RuleSet /\ IsAutomaton(fa)
    BY PoststarAssumption DEF Init
  <2>4. QED
    BY <1>1, <2>1, <2>2, <2>3 DEF Init, TypeOK
<1>3. InputReady /\ TodoOK
  BY DEF Init, InputReady, TodoOK
<1>4. QED
  BY <1>2, <1>3 DEF IInv, Init

(* Every step keeps the invariant. *)
LEMMA NextIInv == AllFromControl /\ IInv /\ [Next]_vars => IInv'
<1> SUFFICES ASSUME AllFromControl, IInv, [Next]_vars PROVE IInv'
  OBVIOUS
<1>1. CASE CallPoststar
  <2>1. InputOK(input') /\ EpsilonFromControl(input') /\ input'.gen < MaxGeneration
    BY <1>1, PoststarAssumption DEF CallPoststar, AllFromControl
  <2>2. QED
    BY <1>1, <2>1, QueryStarts DEF CallPoststar
<1>2. CASE ConstructCFG
  BY <1>2, ConstructCFGIInv
<1>3. CASE QueryAgain
  BY <1>3, QueryAgainIInv
<1>4. CASE Setup
  BY <1>4, SetupIInv
<1>5. CASE PopTransition
  BY <1>5, PopTransitionIInv
<1>6. CASE PopEpsilon
  BY <1>6, PopEpsilonIInv
<1>7. CASE HandleRule
  BY <1>7, HandleRuleIInv
<1>8. CASE HandlePush
  BY <1>8, HandlePushIInv
<1>9. CASE Finish
  BY <1>9, FinishIInv
<1>10. CASE UNCHANGED vars
  <2>1. /\ UNCHANGED <<rules, caller, input, gen, pc>> /\ UNCHANGED <<fa, quasi, cur, dnew, todo>>
    BY <1>10 DEF vars
  <2>2. TypeOK' /\ InputReady' /\ TodoOK'
    BY <2>1 DEF IInv, TypeOK, InputReady, TodoOK
  <2>3. ASSUME FaInv(fa), RulesPaid(fa, Job), EpsPaid(fa)
        PROVE  (FaInv(fa) /\ RulesPaid(fa, Job) /\ EpsPaid(fa))'
    <3>1. \A t, r : RuleTarget(t, r)' = RuleTarget(t, r) /\ Call(r)' = Call(r)
      BY <2>1 DEF RuleTarget, Mid, Succ, Call
    <3>2. FaInv(fa)' /\ EpsPaid(fa)'
      BY <2>1, <2>3 DEF FaInv, Shaped, DeltaKept, OfThisQuery, EpsPaid, EpsOwes
    <3>3. Job' = Job
      BY <2>1 DEF Job
    <3>4. RulesPaid(fa, Job)'
      BY <2>1, <2>3, <3>1, <3>3 DEF RulesPaid, RuleOwes, RuleThere, Pending
    <3>5. QED
      BY <3>2, <3>4
  <2>4. QED
    BY <2>1, <2>2, <2>3 DEF IInv
<1>11. QED
  BY <1>1, <1>2, <1>3, <1>4, <1>5, <1>6, <1>7, <1>8, <1>9, <1>10 DEF Next, Client, Query

(* The invariant leaves nothing unpaid when a query is done. *)
LEMMA IInvSaturated == IInv => SaturatedWhenDone
<1> SUFFICES ASSUME IInv, pc = "done" PROVE Solution(fa)
  BY DEF SaturatedWhenDone
<1>1. /\ FaInv(fa) /\ RulesPaid(fa, Job) /\ EpsPaid(fa)
      /\ fa.marked = {} /\ todo = {} /\ rules \in RuleSet
  BY DEF IInv, TodoOK, TypeOK
<1>2. IsAutomaton(fa) /\ \A k \in fa.trans : fa.weight[k] = W(fa, k) /\ W(fa, k) \in Weight
  BY <1>1, WeightTyped DEF FaInv, W
<1>3. ASSUME NEW k \in fa.trans, k.from \in P PROVE D(fa, k) = Zero
  <2>1. ~ OfThisQuery(k.from)
    BY <1>3, WfaAssumption DEF OfThisQuery
  <2>2. QED
    BY <1>1, <2>1 DEF FaInv, DeltaKept
<1>4. ASSUME NEW w \in Weight, NEW x \in Weight
      PROVE  /\ Combine(x, Extend(Zero, w)) = x /\ Combine(x, Extend(w, Zero)) = x
  BY CombineLaws, ExtendLaws
<1>5. ClosedUnderRules(fa)
  <2> SUFFICES ASSUME NEW t \in fa.trans, t.stk # EPS,
                      NEW r \in ForwardRules(rules, t.from, t.stk)
               PROVE  /\ RuleTarget(t, r) \in fa.trans
                      /\ Leq(Extend(fa.weight[t], r.weight), fa.weight[RuleTarget(t, r)])
                      /\ IsPush(r) => Call(r) \in fa.trans /\ Leq(One, fa.weight[Call(r)])
    BY DEF ClosedUnderRules
  <2>1. r \in rules /\ r.from = t.from /\ r.from \in P /\ r.weight \in Weight
    BY <1>1, RuleParts DEF ForwardRules
  <2>2. RuleOwes(fa, Job, t, r) /\ Job.todo = {}
    BY <1>1 DEF RulesPaid, Job
  <2>3. RuleThere(fa, t, r)
    BY <1>1, <2>2 DEF RuleOwes
  <2>4. Pending(fa, Job, t, r) = Zero
    BY <1>3, <2>1, <2>2 DEF Pending
  <2>5. Leq(Extend(W(fa, t), r.weight), W(fa, RuleTarget(t, r)))
    BY <1>2, <1>4, <2>1, <2>2, <2>3, <2>4 DEF RuleOwes, RuleThere
  <2>6. QED
    BY <1>2, <2>3, <2>5 DEF RuleThere
<1>6. ClosedUnderEpsilon(fa)
  <2> SUFFICES ASSUME NEW e \in fa.trans, e.stk = EPS, NEW u \in Leaving(fa, e.to)
               PROVE  /\ Bypass(e, u) \in fa.trans
                      /\ Leq(Extend(fa.weight[u], fa.weight[e]), fa.weight[Bypass(e, u)])
    BY DEF ClosedUnderEpsilon
  <2>1. e.from \in P /\ D(fa, e) = Zero
    BY <1>1, <1>3 DEF FaInv, Shaped
  <2>2. EpsOwes(fa, e, u) /\ u \in fa.trans
    BY <1>1 DEF EpsPaid, Leaving
  <2>3. Bypass(e, u) \in fa.trans
    BY <1>1, <2>2 DEF EpsOwes
  <2>4. Leq(Extend(W(fa, u), W(fa, e)), W(fa, Bypass(e, u)))
    BY <1>2, <1>4, <2>1, <2>2, <2>3 DEF EpsOwes
  <2>5. QED
    BY <1>2, <2>2, <2>3, <2>4
<1>7. QED
  BY <1>1, <1>5, <1>6 DEF Solution, FaInv

(***************************************************************************)
(* The invariant holds throughout, whatever the rules, the weights and the *)
(* order of the worklist, when epsilon transitions of the client's         *)
(* automata leave control states.                                          *)
(***************************************************************************)
THEOREM PoststarInvariant == AllFromControl => (Spec => []IInv)
<1> SUFFICES ASSUME AllFromControl PROVE Spec => []IInv
  OBVIOUS
<1>1. IInv /\ [Next]_vars => IInv'
  BY NextIInv
<1>2. QED
  BY <1>1, InitIInv, PTL DEF Spec

(* poststar returns a solution of the saturation equations. *)
THEOREM PoststarSaturates == AllFromControl => (Spec => []SaturatedWhenDone)
<1> SUFFICES ASSUME AllFromControl PROVE Spec => []SaturatedWhenDone
  OBVIOUS
<1>1. Spec => []IInv
  BY PoststarInvariant
<1>2. QED
  BY <1>1, IInvSaturated, PTL

(* No update is lost: a delta that is not zero waits on the worklist. *)
THEOREM PoststarLosesNothing == AllFromControl => (Spec => []NoLostUpdate)
<1> SUFFICES ASSUME AllFromControl PROVE Spec => []NoLostUpdate
  OBVIOUS
<1>1. IInv => NoLostUpdate
  BY DEF IInv, FaInv, DeltaKept, NoLostUpdate, D
<1>2. Spec => []IInv
  BY PoststarInvariant
<1>3. QED
  BY <1>1, <1>2, PTL

(* The states a query generates are new to its input. *)
THEOREM PoststarGeneratesFresh == AllFromControl => (Spec => []GeneratedStatesAreFresh)
<1> SUFFICES ASSUME AllFromControl PROVE Spec => []GeneratedStatesAreFresh
  OBVIOUS
<1>1. IInv => GeneratedStatesAreFresh
  <2> SUFFICES ASSUME IInv, pc \in {"saturate", "done"}, NEW k \in input.trans
               PROVE  ~ OfThisQuery(k.from)
    BY DEF GeneratedStatesAreFresh
  <2>1. InputOK(input) /\ gen = input.gen + 1 /\ input.gen \in Nat
    BY WfaAssumption DEF IInv, InputReady, TypeOK, IsInput, Generation
  <2>2. k.from \in GenState => k.from.gen <= input.gen /\ k.from.gen \in Nat
    BY <2>1, WfaAssumption DEF InputOK, GenState
  <2>3. QED
    BY <2>1, <2>2 DEF OfThisQuery
<1>2. Spec => []IInv
  BY PoststarInvariant
<1>3. QED
  BY <1>1, <1>2, PTL

(* Within a query no transition disappears and no weight gets smaller. *)
THEOREM PoststarGrows == AllFromControl => (Spec => MonotoneWithinQuery)
<1> SUFFICES ASSUME AllFromControl PROVE Spec => MonotoneWithinQuery
  OBVIOUS
<1>1. IInv /\ [Next]_vars => [pc = "saturate" => Grows]_vars
  <2> SUFFICES ASSUME IInv, Next, pc = "saturate" PROVE Grows
    OBVIOUS
  <2>1. ~ Client /\ ~ Setup
    BY DEF Client, CallPoststar, ConstructCFG, QueryAgain, Setup
  <2>2. CASE PopTransition \/ PopEpsilon \/ HandleRule \/ HandlePush
    BY <2>2, PopTransitionIInv, PopEpsilonIInv, HandleRuleIInv, HandlePushIInv
  <2>3. CASE Finish
    <3>1. fa' = fa /\ fa.weight \in [fa.trans -> Weight]
      BY <2>3 DEF Finish, IInv, TypeOK, IsAutomaton
    <3>2. QED
      BY <3>1, LeqBasics DEF Grows
  <2>4. QED
    BY <2>1, <2>2, <2>3 DEF Next, Query
<1>2. Spec => []IInv
  BY PoststarInvariant
<1>3. QED
  BY <1>1, <1>2, PTL DEF Spec, MonotoneWithinQuery
(***************************************************************************)
(* constructCFG.  The states a saturation reaches grow only with the       *)
(* transitions an update is given, whatever their weights.                 *)
(***************************************************************************)
LEMMA StepTransitions ==
    ASSUME NEW A, WorklistOK(A)
    PROVE  /\ \A t : WorklistOK(Take(A, t)) /\ Take(A, t).trans = A.trans
           /\ \A ins : /\ WorklistOK(Insert(A, ins))
                       /\ Insert(A, ins).trans = A.trans \cup DOMAIN ins
                       /\ WorklistOK(Update(A, ins))
                       /\ Update(A, ins).trans = A.trans \cup DOMAIN ins
<1>1. ASSUME NEW t PROVE WorklistOK(Take(A, t)) /\ Take(A, t).trans = A.trans
  <2> DEFINE dl == [A.delta EXCEPT ![t] = Zero]
  <2>1. Take(A, t) = [A EXCEPT !.marked = A.marked \ {t}, !.delta = dl]
    BY DEF Take
  <2> HIDE DEF dl
  <2>2. Take(A, t) = [trans |-> A.trans, weight |-> A.weight,
                      delta |-> dl, marked |-> A.marked \ {t}]
    BY <2>1 DEF WorklistOK
  <2>3. QED
    BY <2>2 DEF WorklistOK
<1>2. ASSUME NEW ins
      PROVE  WorklistOK(Insert(A, ins)) /\ Insert(A, ins).trans = A.trans \cup DOMAIN ins
  BY DEF WorklistOK, Insert, TransAfter
<1>3. ASSUME NEW ins
      PROVE  WorklistOK(Update(A, ins)) /\ Update(A, ins).trans = A.trans \cup DOMAIN ins
  <2> DEFINE I == Insert(A, ins)
             M == {k \in DOMAIN ins : Modified(A, k, ins[k])}
  <2>1. WorklistOK(I) /\ I.trans = A.trans \cup DOMAIN ins
    BY <1>2
  <2>2. Update(A, ins) = [I EXCEPT !.marked = @ \cup M]
    BY DEF Update
  <2>3. M \subseteq DOMAIN ins
    OBVIOUS
  <2> HIDE DEF I, M
  <2>4. Update(A, ins) = [trans |-> I.trans, weight |-> I.weight,
                          delta |-> I.delta, marked |-> I.marked \cup M]
    BY <2>1, <2>2 DEF WorklistOK
  <2>5. QED
    BY <2>1, <2>3, <2>4 DEF WorklistOK
<1>4. QED
  BY <1>1, <1>2, <1>3

(* A query step keeps CfgInv when all it adds leads to a state the         *)
(* automaton has, or to the state generated for a push rule.               *)
LEMMA CfgStep ==
    ASSUME CfgInv, pc = "saturate", WorklistOK(fa'),
           UNCHANGED <<rules, caller, input, gen, pc>>,
           todo' \subseteq rules,
           todo' # {} => cur' \in fa.trans,
           fa.trans \subseteq fa'.trans,
           \A k \in fa'.trans :
              \/ k.to \in Targets(fa.trans)
              \/ \E r \in rules : IsPush(r) /\ k.to = gen_state(gen, r.to, r.stk1)
    PROVE  CfgInv'
<1>1. gen = input.gen + 1
  BY DEF CfgInv
<1>2. ASSUME caller = "constructCFG" PROVE Targets(fa'.trans) \subseteq Targets(input.trans)
  <2>1. NamesEntries(input) /\ gen = 1 /\ Targets(fa.trans) \subseteq Targets(input.trans)
    BY <1>1, <1>2 DEF CfgInv, NamesEntries
  <2> SUFFICES ASSUME NEW k \in fa'.trans PROVE k.to \in Targets(input.trans)
    BY DEF Targets
  <2>2. CASE k.to \in Targets(fa.trans)
    BY <2>1, <2>2
  <2>3. CASE \E r \in rules : IsPush(r) /\ k.to = gen_state(gen, r.to, r.stk1)
    BY <2>1, <2>3 DEF NamesEntries
  <2>4. QED
    BY <2>2, <2>3
<1>3. /\ caller' = caller /\ input' = input /\ rules' = rules /\ gen' = gen
      /\ pc' = "saturate"
  OBVIOUS
<1>4. caller = "constructCFG" => NamesEntries(input)'
  BY <1>3 DEF CfgInv, NamesEntries
<1>5. QED
  BY <1>1, <1>2, <1>3, <1>4 DEF CfgInv, WorklistOK

(* post() adds transitions to targets the automaton has, and a push rule's *)
(* to the state generated for it.                                          *)
LEMMA SaturationCfg ==
    ASSUME CfgInv, PopTransition \/ PopEpsilon \/ HandleRule \/ HandlePush
    PROVE  CfgInv'
<1>1. WorklistOK(fa) /\ todo \subseteq rules
  BY DEF CfgInv, WorklistOK
<1>2. CASE PopTransition
  <2>1. PICK t \in fa.marked : /\ fa' = Take(fa, t) /\ cur' = t
                               /\ todo' = ForwardRules(rules, t.from, t.stk)
    BY <1>2 DEF PopTransition
  <2>2. WorklistOK(fa') /\ fa'.trans = fa.trans
    BY <1>1, <2>1, StepTransitions
  <2>3. \A k \in fa'.trans : k.to \in Targets(fa.trans)
    BY <2>2 DEF Targets
  <2>4. /\ pc = "saturate" /\ UNCHANGED <<rules, caller, input, gen, pc>>
        /\ todo' \subseteq rules
    BY <1>2, <2>1 DEF PopTransition, ForwardRules
  <2>5. cur' \in fa.trans
    BY <1>1, <2>1 DEF WorklistOK
  <2>6. QED
    BY <2>2, <2>3, <2>4, <2>5, CfgStep
<1>3. CASE PopEpsilon
  <2>1. PICK t \in fa.marked :
          LET A == Take(fa, t)
              k(u) == [from |-> t.from, stk |-> u.stk, to |-> u.to]
              via(x) == [x EXCEPT !.from = t.to]
          IN  fa' = Update(A, [x \in {k(u) : u \in Leaving(A, t.to)} |->
                                     Extend(A.weight[via(x)], fa.delta[t])])
    BY <1>3 DEF PopEpsilon
  <2> DEFINE A == Take(fa, t)
             new == {[from |-> t.from, stk |-> u.stk, to |-> u.to] : u \in Leaving(A, t.to)}
             ins == [x \in new |-> Extend(A.weight[[x EXCEPT !.from = t.to]], fa.delta[t])]
  <2>2. fa' = Update(A, ins)
    BY <2>1
  <2>3. WorklistOK(A) /\ A.trans = fa.trans
    BY <1>1, StepTransitions
  <2>4. DOMAIN ins = new
    OBVIOUS
  <2>5. \A k \in new : k.to \in Targets(fa.trans)
    BY <2>3 DEF Leaving, Targets
  <2> HIDE DEF A, ins, new
  <2>6. WorklistOK(fa') /\ fa'.trans = fa.trans \cup new
    BY <2>2, <2>3, <2>4, StepTransitions
  <2>7. \A k \in fa'.trans : k.to \in Targets(fa.trans)
    BY <2>5, <2>6 DEF Targets
  <2>8. /\ pc = "saturate" /\ UNCHANGED <<rules, caller, input, gen, pc>>
        /\ todo' \subseteq rules /\ todo' = {}
    BY <1>1, <1>3 DEF PopEpsilon
  <2>9. QED
    BY <2>6, <2>7, <2>8, CfgStep
<1>4. CASE HandleRule
  <2>1. PICK r \in todo :
          /\ \E w : fa' = Update(fa, At([from |-> r.to, stk |-> r.stk1, to |-> cur.to], w))
          /\ todo' = todo \ {r}
    BY <1>4 DEF HandleRule
  <2> DEFINE k0 == [from |-> r.to, stk |-> r.stk1, to |-> cur.to]
  <2>2. PICK w : fa' = Update(fa, At(k0, w))
    BY <2>1
  <2>3. DOMAIN At(k0, w) = {k0} /\ k0.to = cur.to
    BY DEF At
  <2> HIDE DEF k0
  <2>4. WorklistOK(fa') /\ fa'.trans = fa.trans \cup {k0}
    BY <1>1, <2>2, <2>3, StepTransitions
  <2>5. cur \in fa.trans /\ cur.to \in Targets(fa.trans)
    BY DEF CfgInv, Targets
  <2>6. \A k \in fa'.trans : k.to \in Targets(fa.trans)
    BY <2>3, <2>4, <2>5 DEF Targets
  <2>7. /\ pc = "saturate" /\ UNCHANGED <<rules, caller, input, gen, pc>>
        /\ todo' \subseteq rules /\ cur' = cur
    BY <1>1, <1>4, <2>1 DEF HandleRule
  <2>8. QED
    BY <2>4, <2>5, <2>6, <2>7, CfgStep
<1>5. CASE HandlePush
  <2>0. pc = "saturate" /\ UNCHANGED <<rules, caller, input, gen, pc, cur>>
    BY ONLY <1>5 DEF HandlePush
  <2>1. PICK r \in todo :
          LET g    == gen_state(gen, r.to, r.stk1)
              mid  == [from |-> g, stk |-> r.stk2, to |-> cur.to]
              wmid == ExtendAndDiff(dnew, r.weight, W(fa, mid))
              qone == Combine(quasi[g], One)
              call == [from |-> r.to, stk |-> r.stk1, to |-> g]
              A1   == Insert(fa, At(mid, wmid))
              A2   == Update(A1, At(call, qone))
              eps(x) == [from |-> x.from, stk |-> EPS, to |-> g]
              closed == [x \in {[mid EXCEPT !.from = e.from] : e \in EpsInto(A2, g)}
                           |-> Extend(A2.delta[mid], A2.weight[eps(x)])]
          IN  /\ IsPush(r)
              /\ fa' = IF Modified(fa, mid, wmid) THEN Update(A2, closed) ELSE A2
              /\ todo' = todo \ {r}
    BY ONLY <1>5 DEF HandlePush
  <2> DEFINE g    == gen_state(gen, r.to, r.stk1)
             mid  == [from |-> g, stk |-> r.stk2, to |-> cur.to]
             wmid == ExtendAndDiff(dnew, r.weight, W(fa, mid))
             qone == Combine(quasi[g], One)
             call == [from |-> r.to, stk |-> r.stk1, to |-> g]
             A1   == Insert(fa, At(mid, wmid))
             A2   == Update(A1, At(call, qone))
             new  == {[mid EXCEPT !.from = e.from] : e \in EpsInto(A2, g)}
             closed == [x \in new |->
                           Extend(A2.delta[mid],
                                  A2.weight[[from |-> x.from, stk |-> EPS, to |-> g]])]
  <2>2. fa' = Update(A2, closed) \/ fa' = A2
    BY <2>1
  <2>3. DOMAIN At(mid, wmid) = {mid} /\ DOMAIN At(call, qone) = {call}
    BY DEF At
  <2>4. DOMAIN closed = new
    OBVIOUS
  <2>5. mid.to = cur.to /\ call.to = g /\ \A k \in new : k.to = cur.to
    OBVIOUS
  <2>6. WorklistOK(A1) /\ A1.trans = fa.trans \cup {mid}
    BY <1>1, <2>3, StepTransitions
  <2> HIDE DEF mid, wmid, qone, call, A1, new, closed, g
  <2>7. WorklistOK(A2) /\ A2.trans = fa.trans \cup {mid, call}
    BY <2>3, <2>6, StepTransitions
  <2> HIDE DEF A2
  <2>8. WorklistOK(fa') /\ fa.trans \subseteq fa'.trans
        /\ fa'.trans \subseteq fa.trans \cup {mid, call} \cup new
    <3>1. WorklistOK(Update(A2, closed)) /\ Update(A2, closed).trans = A2.trans \cup new
      BY <2>4, <2>7, StepTransitions
    <3>2. QED
      BY <2>2, <2>7, <3>1
  <2>9. cur \in fa.trans /\ cur.to \in Targets(fa.trans)
    BY DEF CfgInv, Targets
  <2>10. ASSUME NEW k \in fa'.trans
         PROVE  k.to \in Targets(fa.trans)
                \/ \E s \in rules : IsPush(s) /\ k.to = gen_state(gen, s.to, s.stk1)
    <3>1. CASE k \in fa.trans
      BY <3>1 DEF Targets
    <3>2. CASE k = mid \/ k \in new
      BY <2>5, <2>9, <3>2
    <3>3. CASE k = call
      <4>1. r \in rules /\ IsPush(r)
        BY ONLY <1>1, <2>1
      <4>2. QED
        BY ONLY <2>5, <3>3, <4>1 DEF g
    <3>4. QED
      BY <2>8, <3>1, <3>2, <3>3
  <2>11. todo' \subseteq rules
    BY <1>1, <2>1
  <2>12. QED
    BY <2>0, <2>8, <2>9, <2>10, <2>11, CfgStep
<1>6. QED
  BY <1>2, <1>3, <1>4, <1>5

(* The automaton constructCFG queries names the state of every push rule.  *)
LEMMA ConstructCFGCfg ==
    ASSUME CfgInv, ConstructCFG
    PROVE  CfgInv'
<1>1. PICK s \in P, entries \in SUBSET Stack :
        LET keys == {[from |-> s, stk |-> e, to |-> gen_state(1, s, e)] :
                        e \in EntryPoints(rules, entries)}
        IN  /\ ControlStates(rules) = {s}
            /\ input' = [trans |-> keys, weight |-> [k \in keys |-> One], gen |-> 0]
  BY DEF ConstructCFG, CfgGeneration
<1> DEFINE keys == {[from |-> s, stk |-> e, to |-> gen_state(1, s, e)] :
                       e \in EntryPoints(rules, entries)}
<1>2. input'.trans = keys /\ input'.gen = 0
  BY <1>1
<1>3. ASSUME NEW r \in rules, IsPush(r)
      PROVE  gen_state(1, r.to, r.stk1) \in Targets(keys)
  <2>1. r.to = s
    BY <1>1 DEF ControlStates
  <2>2. r.stk1 \in EntryPoints(rules, entries)
    BY <1>3 DEF EntryPoints
  <2> DEFINE k == [from |-> s, stk |-> r.stk1, to |-> gen_state(1, s, r.stk1)]
  <2>3. k \in keys /\ k.to = gen_state(1, s, r.stk1)
    BY <2>2
  <2> HIDE DEF k
  <2>4. QED
    BY <2>1, <2>3 DEF Targets
<1> HIDE DEF keys
<1>4. UNCHANGED <<rules, fa, cur, todo>> /\ pc' = "setup" /\ pc = "idle"
  BY DEF ConstructCFG
<1>5. NamesEntries(input)'
  BY <1>2, <1>3, <1>4 DEF NamesEntries
<1>6. QED
  BY <1>2, <1>4, <1>5 DEF CfgInv

(* The other steps: the client's own queries ask nothing, and a query      *)
(* starts from a copy of its input.                                        *)
LEMMA ClientCfg ==
    ASSUME CfgInv, CallPoststar \/ QueryAgain \/ Setup \/ Finish
    PROVE  CfgInv'
<1>1. CASE CallPoststar \/ QueryAgain
  <2>1. caller' = "client" /\ pc # "saturate" /\ pc' = "setup" /\ UNCHANGED <<rules, fa, cur, todo>>
    BY <1>1 DEF CallPoststar, QueryAgain
  <2>2. QED
    BY <2>1 DEF CfgInv, WorklistOK
<1>2. CASE Setup
  <2>1. /\ fa' = CopyOf(input) /\ gen' = input.gen + 1 /\ pc = "setup" /\ pc' = "saturate"
        /\ UNCHANGED <<rules, caller, input, cur, todo>>
    BY <1>2 DEF Setup, NextGeneration
  <2>2. fa'.trans = input.trans /\ WorklistOK(fa')
    BY <2>1 DEF CopyOf, WorklistOK
  <2>3. NamesEntries(input)' = NamesEntries(input)
    BY <2>1 DEF NamesEntries
  <2>4. QED
    BY <2>1, <2>2, <2>3 DEF CfgInv, WorklistOK
<1>3. CASE Finish
  <2>1. /\ pc = "saturate" /\ pc' = "done" /\ todo = {}
        /\ UNCHANGED <<rules, caller, input, fa, gen, todo>>
    BY <1>3 DEF Finish
  <2>2. NamesEntries(input)' = NamesEntries(input)
    BY <2>1 DEF NamesEntries
  <2>3. QED
    BY <2>1, <2>2 DEF CfgInv
<1>4. QED
  BY <1>1, <1>2, <1>3

(***************************************************************************)
(* constructCFG's query adds no state: the automaton it hands to poststar  *)
(* already has the state of every push rule, so that "new mid-states are   *)
(* not created while running poststar".  For any rules, weights and client *)
(* automata, epsilon transitions included.                                 *)
(***************************************************************************)
THEOREM PoststarCfgAddsNoStates == Spec => []CfgAddsNoStates
<1>1. Init => CfgInv
  <2> SUFFICES ASSUME Init PROVE CfgInv
    OBVIOUS
  <2>1. fa \in Leftovers /\ caller = "client" /\ pc = "idle" /\ todo = {}
    BY DEF Init
  <2>2. IsAutomaton(fa)
    BY <2>1, PoststarAssumption
  <2>3. QED
    BY <2>1, <2>2 DEF CfgInv, IsAutomaton, WorklistOK
<1>2. CfgInv /\ [Next]_vars => CfgInv'
  <2>1. ASSUME CfgInv, UNCHANGED vars PROVE CfgInv'
    <3>1. UNCHANGED <<rules, caller, input, fa, gen, pc, cur, todo>>
      BY <2>1 DEF vars
    <3>2. NamesEntries(input)' = NamesEntries(input)
      BY <3>1 DEF NamesEntries
    <3>3. QED
      BY <2>1, <3>1, <3>2 DEF CfgInv
  <2>2. ASSUME CfgInv, Next PROVE CfgInv'
    BY <2>2, SaturationCfg, ConstructCFGCfg, ClientCfg DEF Next, Query, Client
  <2>3. QED
    BY <2>1, <2>2
<1>3. CfgInv => CfgAddsNoStates
  BY DEF CfgInv, CfgAddsNoStates, Targets
<1>4. QED
  BY <1>1, <1>2, <1>3, PTL DEF Spec
-----------------------------------------------------------------------------
(***************************************************************************)
(* The other half.  Closed(S) says that the bounds S are kept by what the  *)
(* rules and the epsilon transitions add, and hold the input; Below(S)     *)
(* that every transition, weight and delta of the output, and the delta at *)
(* work, is within S.  It holds of all such bounds at every step, for all  *)
(* the client's automata, those whose epsilon transitions leave other      *)
(* states than control ones too.                                           *)
(***************************************************************************)
RulesStay(S) ==
    \A t \in S.trans : t.stk # EPS =>
        \A r \in ForwardRules(rules, t.from, t.stk) :
            /\ RuleTarget(t, r) \in S.trans
            /\ \A w \in S.below[t] : Extend(w, r.weight) \in S.below[RuleTarget(t, r)]
            /\ IsPush(r) => Call(r) \in S.trans /\ One \in S.below[Call(r)]

EpsilonStays(S) ==
    \A e \in S.trans : e.stk = EPS =>
        \A u \in Leaving(S, e.to) :
            /\ Bypass(e, u) \in S.trans
            /\ \A c \in S.below[u], d \in S.below[e] : Extend(c, d) \in S.below[Bypass(e, u)]

InputStays(S) ==
    input.trans \subseteq S.trans /\ \A k \in input.trans : input.weight[k] \in S.below[k]

Closed(S) == RulesStay(S) /\ EpsilonStays(S) /\ InputStays(S)

Below(S) == Inside(fa, S) /\ (todo # {} => dnew \in S.below[cur])

LeastInv ==
    /\ TypeOK /\ TodoOK
    /\ pc = "setup" => input.gen < MaxGeneration
    /\ pc \in {"saturate", "done"} =>
          /\ gen \in 1..MaxGeneration
          /\ \A g \in GenState : Leq(quasi[g], One)
          /\ \A S : IsBounds(S) /\ Closed(S) => Below(S)

(***************************************************************************)
(* When poststar returns, every solution of the saturation equations has   *)
(* the transitions of its output, each with at least the weight it has     *)
(* there: with SaturatedWhenDone, the output is the least solution.        *)
(***************************************************************************)
LeastWhenDone ==
    pc = "done" => \A S : IsWeighted(S) /\ Solution(S) => Covers(S, fa)

(* The transitions a rule leads to are transitions there can be. *)
LEMMA TargetKeys ==
    ASSUME rules \in RuleSet, NEW r \in rules, gen \in 1..MaxGeneration, NEW t \in Key
    PROVE  /\ Succ(t, r) \in Key
           /\ IsPush(r) => /\ Mid(t, r) \in Key /\ Call(r) \in Key
                           /\ gen_state(gen, r.to, r.stk1) \in GenState
<1>1. /\ r.to \in P /\ r.stk1 \in Symbol /\ r.stk2 \in Symbol /\ t.to \in State
      /\ IsPush(r) => r.stk1 \in Stack /\ r.stk2 \in Stack
  BY RuleParts DEF Key
<1>2. Succ(t, r) \in Key
  BY <1>1 DEF Succ, Key, State
<1>3. ASSUME IsPush(r) PROVE gen_state(gen, r.to, r.stk1) \in GenState
  BY <1>1, <1>3 DEF GenState, gen_state
<1>4. ASSUME IsPush(r) PROVE Mid(t, r) \in Key
  BY <1>1, <1>3, <1>4 DEF Mid, Key, State
<1>5. ASSUME IsPush(r) PROVE Call(r) \in Key
  BY <1>1, <1>3, <1>5 DEF Call, Key, State
<1>6. QED
  BY <1>2, <1>3, <1>4, <1>5

(* The weights below those of a solution are bounds that stay.             *)
LEMMA SolutionClosed ==
    ASSUME rules \in RuleSet, IsInput(input), NEW S, IsWeighted(S), Solution(S)
    PROVE  Closed(BelowOf(S))
<1> DEFINE B == BelowOf(S)
<1>1. /\ B.trans = S.trans
      /\ \A k \in S.trans : \A x : x \in B.below[k] <=> x \in Weight /\ Leq(x, S.weight[k])
  BY UnderInside
<1>2. \A k \in S.trans : S.weight[k] \in Weight
  BY DEF IsWeighted
<1> HIDE DEF B
<1>3. ASSUME NEW t \in S.trans, t.stk # EPS, NEW r \in ForwardRules(rules, t.from, t.stk)
      PROVE  /\ RuleTarget(t, r) \in B.trans
             /\ \A w \in B.below[t] : Extend(w, r.weight) \in B.below[RuleTarget(t, r)]
             /\ IsPush(r) => Call(r) \in B.trans /\ One \in B.below[Call(r)]
  <2> DEFINE k == RuleTarget(t, r)
  <2>1. r.weight \in Weight
    BY RuleParts DEF ForwardRules
  <2>2. /\ k \in S.trans /\ Leq(Extend(S.weight[t], r.weight), S.weight[k])
        /\ IsPush(r) => Call(r) \in S.trans /\ Leq(One, S.weight[Call(r)])
    BY <1>3 DEF Solution, ClosedUnderRules
  <2> HIDE DEF k
  <2>3. ASSUME NEW w \in B.below[t] PROVE Extend(w, r.weight) \in B.below[k]
    <3>1. w \in Weight /\ Leq(w, S.weight[t])
      BY <1>1, <1>3
    <3>2. /\ S.weight[t] \in Weight /\ S.weight[k] \in Weight
          /\ Extend(w, r.weight) \in Weight /\ Extend(S.weight[t], r.weight) \in Weight
      BY <1>2, <1>3, <2>1, <2>2, <3>1, WeightClosed
    <3>3. Leq(Extend(w, r.weight), Extend(S.weight[t], r.weight))
      BY <2>1, <3>1, <3>2, ExtendMono
    <3>4. QED
      BY <1>1, <2>2, <3>2, <3>3, LeqTrans
  <2>4. QED
    BY <1>1, <2>2, <2>3, WeightClosed DEF k
<1>4. ASSUME NEW e \in S.trans, e.stk = EPS, NEW u \in Leaving(S, e.to)
      PROVE  /\ Bypass(e, u) \in B.trans
             /\ \A c \in B.below[u], d \in B.below[e] : Extend(c, d) \in B.below[Bypass(e, u)]
  <2>1. /\ u \in S.trans /\ Bypass(e, u) \in S.trans
        /\ Leq(Extend(S.weight[u], S.weight[e]), S.weight[Bypass(e, u)])
    BY <1>4 DEF Solution, ClosedUnderEpsilon, Leaving
  <2>2. ASSUME NEW c \in B.below[u], NEW d \in B.below[e]
        PROVE  Extend(c, d) \in B.below[Bypass(e, u)]
    <3>1. /\ c \in Weight /\ Leq(c, S.weight[u]) /\ d \in Weight /\ Leq(d, S.weight[e])
          /\ S.weight[u] \in Weight /\ S.weight[e] \in Weight
          /\ S.weight[Bypass(e, u)] \in Weight
      BY <1>1, <1>2, <1>4, <2>1
    <3>2. /\ Extend(c, d) \in Weight /\ Extend(S.weight[u], d) \in Weight
          /\ Extend(S.weight[u], S.weight[e]) \in Weight
      BY <3>1, WeightClosed
    <3>3. Leq(Extend(c, d), Extend(S.weight[u], d))
          /\ Leq(Extend(S.weight[u], d), Extend(S.weight[u], S.weight[e]))
      BY <3>1, ExtendMono
    <3>4. Leq(Extend(c, d), S.weight[Bypass(e, u)])
      BY <2>1, <3>1, <3>2, <3>3, LeqTrans
    <3>5. QED
      BY <1>1, <2>1, <3>2, <3>4
  <2>3. QED
    BY <1>1, <2>1, <2>2
<1>5. InputStays(B)
  BY <1>1 DEF Solution, Covers, InputStays, IsInput
<1>6. QED
  BY <1>1, <1>3, <1>4, <1>5 DEF Closed, RulesStay, EpsilonStays, Leaving, B

(* What a rule makes of a weight d for t stays within the bounds d is      *)
(* within, and so does what of it is news.                                 *)
LEMMA RuleInside ==
    ASSUME rules \in RuleSet, NEW A, IsAutomaton(A), NEW t \in A.trans, t.stk # EPS,
           NEW r \in ForwardRules(rules, t.from, t.stk),
           NEW S, IsBounds(S), Closed(S), Inside(A, S), NEW d \in S.below[t]
    PROVE  LET k == RuleTarget(t, r) IN
           /\ k \in S.trans
           /\ ExtendAndDiff(d, r.weight, W(A, k)) \in S.below[k]
           /\ IsPush(r) => Call(r) \in S.trans /\ One \in S.below[Call(r)]
<1> DEFINE k == RuleTarget(t, r)
           I == S.below[k]
<1>1. r \in rules /\ r.weight \in Weight /\ t \in S.trans
  BY RuleParts DEF ForwardRules, Inside
<1>2. /\ k \in S.trans /\ Extend(d, r.weight) \in I
      /\ IsPush(r) => Call(r) \in S.trans /\ One \in S.below[Call(r)]
  BY <1>1 DEF Closed, RulesStay
<1>3. IsIdeal(I)
  BY <1>2 DEF IsBounds
<1>4. W(A, k) \in I
  BY <1>3 DEF W, Inside, IsIdeal
<1> HIDE DEF k, I
<1>5. /\ Extend(d, r.weight) \in Weight /\ W(A, k) \in Weight
      /\ Combine(W(A, k), Extend(d, r.weight)) \in I
  BY <1>2, <1>3, <1>4 DEF IsIdeal
<1>6. /\ Diff(Extend(d, r.weight), W(A, k)) \in Weight
      /\ Leq(Diff(Extend(d, r.weight), W(A, k)), Combine(W(A, k), Extend(d, r.weight)))
  BY <1>5, DiffCovers, WeightClosed
<1>7. ExtendAndDiff(d, r.weight, W(A, k)) \in I
  BY <1>3, <1>5, <1>6 DEF ExtendAndDiff, IsIdeal
<1>8. QED
  BY <1>2, <1>7 DEF k, I

(* What an epsilon transition e of weight d makes of a transition u behind *)
(* it, of weight c, stays within the bounds c and d are within.            *)
LEMMA EpsInside ==
    ASSUME NEW S, Closed(S), NEW e \in S.trans, e.stk = EPS,
           NEW u \in S.trans, u.from = e.to, NEW c \in S.below[u], NEW d \in S.below[e]
    PROVE  Bypass(e, u) \in S.trans /\ Extend(c, d) \in S.below[Bypass(e, u)]
BY DEF Closed, EpsilonStays, Leaving

(***************************************************************************)
(* A push rule applied to the transition t of the automaton A: each of the *)
(* three updates stays within S.                                           *)
(***************************************************************************)
LEMMA ClosureInside ==
    ASSUME NEW A, IsAutomaton(A), NEW mid \in A.trans,
           NEW closed,
           closed = [x \in {[mid EXCEPT !.from = e.from] : e \in EpsInto(A, mid.from)}
                       |-> Extend(A.delta[mid],
                                  A.weight[[from |-> x.from, stk |-> EPS, to |-> mid.from]])]
    PROVE  /\ IsAutomaton(Update(A, closed)) /\ A.trans \subseteq Update(A, closed).trans
           /\ \A S : IsBounds(S) /\ Closed(S) /\ Inside(A, S) => Inside(Update(A, closed), S)
<1> DEFINE into == EpsInto(A, mid.from)
           K == {[mid EXCEPT !.from = e.from] : e \in into}
<1>1. mid \in Key /\ A.delta[mid] \in Weight
  BY DEF IsAutomaton
<1>2. ASSUME NEW e \in into
      PROVE  /\ e \in A.trans /\ e \in Key /\ e.stk = EPS /\ e.to = mid.from
             /\ e = [from |-> e.from, stk |-> EPS, to |-> mid.from]
             /\ [mid EXCEPT !.from = e.from] = Bypass(e, mid)
             /\ Bypass(e, mid) \in Key /\ Bypass(e, mid).from = e.from
             /\ A.weight[e] \in Weight
  <2>1. e \in A.trans /\ e \in Key /\ e.stk = EPS /\ e.to = mid.from /\ A.weight[e] \in Weight
    BY DEF EpsInto, IsAutomaton
  <2>2. e = [from |-> e.from, stk |-> EPS, to |-> mid.from] /\ e.from \in State
    BY <2>1 DEF Key
  <2>3. mid = [from |-> mid.from, stk |-> mid.stk, to |-> mid.to]
        /\ mid.stk \in Symbol /\ mid.to \in State
    BY <1>1 DEF Key
  <2>4. [mid EXCEPT !.from = e.from] = Bypass(e, mid)
    BY <2>3 DEF Bypass
  <2>5. Bypass(e, mid) \in Key /\ Bypass(e, mid).from = e.from
    BY <2>2, <2>3 DEF Bypass, Key
  <2>6. QED
    BY <2>1, <2>2, <2>4, <2>5
<1>3. K = {Bypass(e, mid) : e \in into}
  BY <1>2
<1>4. DOMAIN closed = K
  OBVIOUS
<1>5. ASSUME NEW e \in into
      PROVE  Bypass(e, mid) \in K /\ closed[Bypass(e, mid)] = Extend(A.delta[mid], A.weight[e])
  BY <1>2, <1>3
<1> HIDE DEF K, into
<1>6. K \in SUBSET Key
  BY <1>2, <1>3
<1>7. closed \in [K -> Weight]
  <2>1. \A k \in K : closed[k] \in Weight
    BY <1>1, <1>2, <1>3, <1>5, WeightClosed
  <2>2. closed = [k \in K |-> closed[k]]
    BY <1>4
  <2>3. QED
    BY <2>1, <2>2
<1>8. ASSUME NEW S, IsBounds(S), Closed(S), Inside(A, S)
      PROVE  Inside(Update(A, closed), S)
  <2>1. ASSUME NEW e \in into
        PROVE  Bypass(e, mid) \in S.trans
               /\ closed[Bypass(e, mid)] \in S.below[Bypass(e, mid)]
    <3>1. /\ e \in S.trans /\ mid \in S.trans /\ e.stk = EPS /\ mid.from = e.to
          /\ A.delta[mid] \in Weight /\ A.weight[e] \in Weight
          /\ A.delta[mid] \in S.below[mid] /\ A.weight[e] \in S.below[e]
      BY <1>1, <1>2, <1>8 DEF Inside
    <3>2. QED
      BY <1>5, <1>8, <3>1, EpsInside
  <2>2. K \subseteq S.trans /\ \A k \in K : closed[k] \in S.below[k]
    BY <1>3, <2>1
  <2>3. QED
    BY <1>6, <1>7, <1>8, <2>2, UpdateInside
<1>9. IsAutomaton(Update(A, closed)) /\ Update(A, closed).trans = A.trans \cup K
  BY <1>6, <1>7, UpdateFacts
<1>10. QED
  BY <1>8, <1>9

(* A push rule leaves the automaton within the bounds its delta is within. *)
LEMMA PushInside ==
    ASSUME rules \in RuleSet, gen \in 1..MaxGeneration,
           NEW A, IsAutomaton(A), NEW t \in A.trans, t.stk # EPS,
           NEW r \in ForwardRules(rules, t.from, t.stk), IsPush(r), NEW d \in Weight,
           NEW q \in Weight, Leq(q, One),
           NEW A1, A1 = Insert(A, At(Mid(t, r), ExtendAndDiff(d, r.weight, W(A, Mid(t, r))))),
           NEW A2, A2 = Update(A1, At(Call(r), q))
    PROVE  /\ IsAutomaton(A2) /\ A.trans \subseteq A2.trans /\ Mid(t, r) \in A2.trans
           /\ \A S : IsBounds(S) /\ Closed(S) /\ Inside(A, S) /\ d \in S.below[t]
                     => Inside(A2, S)
<1> DEFINE mid == Mid(t, r)
           call == Call(r)
           wmid == ExtendAndDiff(d, r.weight, W(A, mid))
<1>1. r \in rules /\ r.weight \in Weight /\ t \in Key
  BY RuleParts DEF ForwardRules, IsAutomaton
<1>2. mid \in Key /\ call \in Key /\ RuleTarget(t, r) = mid
  BY <1>1, TargetKeys DEF RuleTarget
<1>3. wmid \in Weight
  BY <1>1, WeightTyped, WeightClosed DEF ExtendAndDiff
<1> HIDE DEF mid, call, wmid
<1>4. /\ {mid} \in SUBSET Key /\ At(mid, wmid) \in [{mid} -> Weight] /\ At(mid, wmid)[mid] = wmid
      /\ {call} \in SUBSET Key /\ At(call, q) \in [{call} -> Weight] /\ At(call, q)[call] = q
  BY <1>2, <1>3 DEF At
<1>5. A1 = Insert(A, At(mid, wmid)) /\ A2 = Update(A1, At(call, q))
  BY DEF mid, call, wmid
<1>6. IsAutomaton(A1) /\ A1.trans = A.trans \cup {mid}
  <2>1. /\ IsAutomaton(Insert(A, At(mid, wmid)))
        /\ Insert(A, At(mid, wmid)).trans = A.trans \cup {mid}
    BY <1>4, InsertFacts
  <2>2. QED
    BY ONLY <1>5, <2>1
<1>7. IsAutomaton(A2) /\ A2.trans = A1.trans \cup {call}
  <2>1. /\ IsAutomaton(Update(A1, At(call, q)))
        /\ Update(A1, At(call, q)).trans = A1.trans \cup {call}
    BY ONLY <1>4, <1>6, UpdateFacts
  <2>2. QED
    BY ONLY <1>5, <2>1
<1>8. ASSUME NEW S, IsBounds(S), Closed(S), Inside(A, S), d \in S.below[t]
      PROVE  Inside(A2, S)
  <2>1. /\ mid \in S.trans /\ wmid \in S.below[mid]
        /\ call \in S.trans /\ One \in S.below[call]
    BY <1>2, <1>8, RuleInside DEF wmid, call
  <2>2. Inside(A1, S)
    <3>1. {mid} \subseteq S.trans /\ \A k \in {mid} : At(mid, wmid)[k] \in S.below[k]
      BY <1>4, <2>1
    <3>2. QED
      BY <1>4, <1>5, <1>8, <3>1, UpdateInside
  <2>3. q \in S.below[call]
    BY <2>1, <1>8 DEF IsBounds, IsIdeal
  <2>4. {call} \subseteq S.trans /\ \A k \in {call} : At(call, q)[k] \in S.below[k]
    BY <1>4, <2>1, <2>3
  <2>5. QED
    BY <1>4, <1>5, <1>6, <1>8, <2>2, <2>4, UpdateInside
<1>9. QED
  BY <1>6, <1>7, <1>8 DEF mid

(***************************************************************************)
(* A step of the loop keeps LeastInv when what it leaves of the automaton, *)
(* and the delta it goes on with, are within all bounds that stay.         *)
(***************************************************************************)
LEMMA LeastStep ==
    ASSUME LeastInv, pc = "saturate", UNCHANGED <<rules, caller, input, gen, pc>>,
           quasi' \in [GenState -> Weight], \A g \in GenState : Leq(quasi'[g], One),
           IsAutomaton(fa'), cur' \in Key \cup {NoKey}, dnew' \in Weight,
           todo' # {} => /\ cur' \in fa'.trans /\ cur'.stk # EPS
                         /\ todo' \subseteq ForwardRules(rules, cur'.from, cur'.stk),
           \A S : IsBounds(S) /\ Closed(S) /\ Below(S) =>
                     /\ Inside(fa', S)
                     /\ todo' # {} => dnew' \in S.below[cur']
    PROVE  LeastInv'
<1>1. TypeOK' /\ TodoOK'
  <2>1. todo' \subseteq rules
    BY DEF ForwardRules
  <2>2. QED
    BY <2>1 DEF LeastInv, TypeOK, TodoOK
<1>2. ASSUME NEW S, IsBounds(S), Closed(S)' PROVE Below(S)'
  <2>1. \A t, r : RuleTarget(t, r)' = RuleTarget(t, r) /\ Call(r)' = Call(r)
    BY DEF RuleTarget, Mid, Succ, Call
  <2>2. RulesStay(S)
    BY <1>2, <2>1 DEF Closed, RulesStay
  <2>3. Closed(S)
    BY <1>2, <2>2 DEF Closed, EpsilonStays, InputStays
  <2>4. Below(S)
    BY <1>2, <2>3 DEF LeastInv
  <2>5. QED
    BY <1>2, <2>3, <2>4 DEF Below, Inside
<1>3. QED
  BY <1>1, <1>2 DEF LeastInv

(* What LeastInv says while a query runs. *)
LEMMA WhileLeast ==
    ASSUME LeastInv, pc = "saturate"
    PROVE  /\ rules \in RuleSet /\ IsAutomaton(fa) /\ gen \in 1..MaxGeneration
           /\ dnew \in Weight /\ cur \in Key \cup {NoKey}
           /\ quasi \in [GenState -> Weight] /\ \A g \in GenState : Leq(quasi[g], One)
           /\ \A r \in todo : /\ r \in rules /\ cur \in fa.trans /\ cur \in Key /\ cur.stk # EPS
                              /\ r \in ForwardRules(rules, cur.from, cur.stk)
BY DEF LeastInv, TypeOK, TodoOK, IsAutomaton

(* The delta popped was within all bounds; it becomes zero or starts a job. *)
LEMMA PopTransitionLeast == LeastInv /\ PopTransition => LeastInv'
<1> SUFFICES ASSUME LeastInv, PopTransition PROVE LeastInv'
  OBVIOUS
<1>1. pc = "saturate" /\ UNCHANGED <<rules, caller, input, gen, quasi, pc>>
  BY DEF PopTransition
<1>2. PICK t \in fa.marked :
          /\ t.stk # EPS /\ cur' = t /\ dnew' = fa.delta[t]
          /\ fa' = Take(fa, t)
          /\ todo' = ForwardRules(rules, t.from, t.stk)
  BY DEF PopTransition
<1>3. /\ IsAutomaton(fa)
      /\ quasi \in [GenState -> Weight] /\ \A g \in GenState : Leq(quasi[g], One)
  BY <1>1, WhileLeast
<1>4. t \in fa.trans /\ t \in Key /\ fa.delta[t] \in Weight
  BY <1>3 DEF IsAutomaton
<1>5. /\ IsAutomaton(fa') /\ fa'.trans = fa.trans /\ fa'.weight = fa.weight
      /\ D(fa', t) = Zero /\ \A k : k # t => D(fa', k) = D(fa, k)
  BY <1>2, <1>3, <1>4, TakeFacts
<1>6. ASSUME NEW S, IsBounds(S), Below(S)
      PROVE  Inside(fa', S) /\ dnew' \in S.below[cur']
  <2>1. Inside(fa, S)
    BY <1>6 DEF Below
  <2>2. Inside(fa', S) /\ fa.delta[t] \in S.below[t]
    BY <1>2, <1>3, <1>4, <1>6, <2>1, TakeInside
  <2>3. QED
    BY <1>2, <2>2
<1>7. QED
  BY <1>1, <1>2, <1>3, <1>4, <1>5, <1>6, LeastStep

(* Popping an epsilon transition adds what ClosedUnderEpsilon asks for. *)
LEMMA PopEpsilonLeast == LeastInv /\ PopEpsilon => LeastInv'
<1> SUFFICES ASSUME LeastInv, PopEpsilon PROVE LeastInv'
  OBVIOUS
<1>1. pc = "saturate" /\ todo = {} /\ UNCHANGED <<rules, caller, input, gen, quasi, pc, cur, dnew, todo>>
  BY DEF PopEpsilon
<1>2. PICK t \in fa.marked :
          /\ t.stk = EPS
          /\ fa' = Update(Take(fa, t),
                          [x \in {[from |-> t.from, stk |-> u.stk, to |-> u.to] :
                                     u \in Leaving(Take(fa, t), t.to)} |->
                             Extend(Take(fa, t).weight[[x EXCEPT !.from = t.to]], fa.delta[t])])
  BY DEF PopEpsilon
<1>3. /\ IsAutomaton(fa) /\ dnew \in Weight /\ cur \in Key \cup {NoKey}
      /\ quasi \in [GenState -> Weight] /\ \A g \in GenState : Leq(quasi[g], One)
  BY <1>1, WhileLeast
<1> DEFINE A == Take(fa, t)
           out == Leaving(A, t.to)
           K == {[from |-> t.from, stk |-> u.stk, to |-> u.to] : u \in out}
           ins == [x \in K |-> Extend(A.weight[[x EXCEPT !.from = t.to]], fa.delta[t])]
<1>4. t \in fa.trans /\ t \in Key /\ fa.delta[t] \in Weight
  BY <1>3 DEF IsAutomaton
<1>5. /\ IsAutomaton(A) /\ A.trans = fa.trans /\ A.weight = fa.weight
      /\ D(A, t) = Zero /\ \A k : k # t => D(A, k) = D(fa, k)
  BY <1>3, <1>4, TakeFacts
<1>6. fa' = Update(A, ins)
  BY <1>2
<1> HIDE DEF A
<1>7. ASSUME NEW u \in out
      PROVE  /\ u \in fa.trans /\ u \in Key /\ u.from = t.to
             /\ Bypass(t, u) = [from |-> t.from, stk |-> u.stk, to |-> u.to]
             /\ Bypass(t, u) \in Key
             /\ [Bypass(t, u) EXCEPT !.from = t.to] = u
             /\ A.weight[u] = fa.weight[u] /\ fa.weight[u] \in Weight
  <2>1. u \in fa.trans /\ u \in Key /\ u.from = t.to
    BY <1>3, <1>5 DEF Leaving, IsAutomaton
  <2>2. Bypass(t, u) = [from |-> t.from, stk |-> u.stk, to |-> u.to]
    BY DEF Bypass
  <2>3. Bypass(t, u) \in Key
    BY <1>4, <2>1 DEF Bypass, Key
  <2>4. [Bypass(t, u) EXCEPT !.from = t.to] = u
    BY <2>1 DEF Bypass, Key
  <2>5. QED
    BY <1>3, <1>5, <2>1, <2>2, <2>3, <2>4 DEF IsAutomaton
<1>8. K = {Bypass(t, u) : u \in out}
  BY <1>7
<1> HIDE DEF K, out
<1>9. \A u \in out : Bypass(t, u) \in K
                     /\ ins[Bypass(t, u)] = Extend(fa.weight[u], fa.delta[t])
  BY <1>7, <1>8
<1>10. ins \in [K -> Weight]
  <2>1. \A x \in K : Extend(A.weight[[x EXCEPT !.from = t.to]], fa.delta[t]) \in Weight
    BY <1>4, <1>7, <1>8, WeightClosed
  <2>2. QED
    BY <2>1
<1> HIDE DEF ins
<1>11. K \in SUBSET Key
  BY <1>7, <1>8
<1>12. IsAutomaton(fa')
  BY <1>5, <1>6, <1>10, <1>11, UpdateFacts
<1>13. ASSUME NEW S, IsBounds(S), Closed(S), Below(S)
       PROVE  Inside(fa', S)
  <2>1. Inside(fa, S)
    BY <1>13 DEF Below
  <2>2. Inside(A, S)
    <3>1. ASSUME NEW k \in fa.trans PROVE A.delta[k] \in S.below[k]
      <4>1. A.delta[k] = IF k = t THEN Zero ELSE fa.delta[k]
        BY <1>5 DEF D
      <4>2. Zero \in S.below[k]
        BY <1>13, <2>1 DEF IsBounds, IsIdeal, Inside
      <4>3. QED
        BY <2>1, <4>1, <4>2 DEF Inside
    <3>2. QED
      BY <1>5, <2>1, <3>1 DEF Inside
  <2>3. ASSUME NEW u \in out
        PROVE  Bypass(t, u) \in S.trans
               /\ ins[Bypass(t, u)] \in S.below[Bypass(t, u)]
    <3>1. /\ t \in S.trans /\ u \in S.trans /\ t.stk = EPS /\ u.from = t.to
          /\ fa.weight[u] \in Weight /\ fa.delta[t] \in Weight
          /\ fa.weight[u] \in S.below[u] /\ fa.delta[t] \in S.below[t]
      BY <1>2, <1>4, <1>7, <2>1 DEF Inside
    <3>2. QED
      BY <1>9, <1>13, <3>1, EpsInside
  <2>4. K \subseteq S.trans /\ \A k \in K : ins[k] \in S.below[k]
    BY <1>8, <2>3
  <2>5. QED
    BY <1>5, <1>6, <1>10, <1>11, <1>13, <2>2, <2>4, UpdateInside
<1>14. QED
  BY <1>1, <1>3, <1>12, <1>13, LeastStep

(* A pop or a step rule adds what ClosedUnderRules asks for, closed. *)
LEMMA HandleRuleLeast == LeastInv /\ HandleRule => LeastInv'
<1> SUFFICES ASSUME LeastInv, HandleRule PROVE LeastInv'
  OBVIOUS
<1>1. pc = "saturate" /\ UNCHANGED <<rules, caller, input, gen, quasi, pc, cur, dnew>>
  BY DEF HandleRule
<1>2. PICK r \in todo :
          /\ ~ IsPush(r)
          /\ fa' = Update(fa, At(Succ(cur, r), ExtendAndDiff(dnew, r.weight, W(fa, Succ(cur, r)))))
          /\ todo' = todo \ {r}
  BY DEF HandleRule, Succ
<1>3. /\ rules \in RuleSet /\ IsAutomaton(fa) /\ gen \in 1..MaxGeneration
      /\ dnew \in Weight /\ cur \in Key \cup {NoKey}
      /\ quasi \in [GenState -> Weight] /\ \A g \in GenState : Leq(quasi[g], One)
      /\ r \in rules /\ cur \in fa.trans /\ cur \in Key /\ cur.stk # EPS
      /\ \A s \in todo : s \in ForwardRules(rules, cur.from, cur.stk)
  BY <1>1, WhileLeast
<1> DEFINE k == Succ(cur, r)
           w == ExtendAndDiff(dnew, r.weight, W(fa, k))
           ins == At(k, w)
<1>4. k \in Key /\ RuleTarget(cur, r) = k
  BY <1>2, <1>3, TargetKeys DEF RuleTarget
<1>5. w \in Weight
  BY <1>3, RuleParts, WeightTyped, WeightClosed DEF ExtendAndDiff
<1>6. fa' = Update(fa, ins)
  BY <1>2
<1> HIDE DEF k, w
<1>7. {k} \in SUBSET Key /\ ins \in [{k} -> Weight] /\ ins[k] = w
  BY <1>4, <1>5 DEF At
<1> HIDE DEF ins
<1>8. IsAutomaton(fa') /\ fa'.trans = fa.trans \cup {k}
  BY <1>3, <1>6, <1>7, UpdateFacts
<1>9. ASSUME NEW S, IsBounds(S), Closed(S), Below(S)
      PROVE  Inside(fa', S) /\ dnew \in S.below[cur]
  <2>1. Inside(fa, S) /\ dnew \in S.below[cur]
    BY <1>2, <1>9 DEF Below
  <2>2. r \in ForwardRules(rules, cur.from, cur.stk)
    BY <1>3
  <2>3. k \in S.trans /\ w \in S.below[k]
    BY <1>3, <1>4, <1>9, <2>1, <2>2, RuleInside DEF w
  <2>4. {k} \subseteq S.trans /\ \A x \in {k} : ins[x] \in S.below[x]
    BY <1>7, <2>3
  <2>5. QED
    BY <1>3, <1>6, <1>7, <1>9, <2>1, <2>4, UpdateInside
<1>10. todo' # {} => /\ cur' \in fa'.trans /\ cur'.stk # EPS
                     /\ todo' \subseteq ForwardRules(rules, cur'.from, cur'.stk)
  BY <1>1, <1>2, <1>3, <1>8
<1>11. QED
  BY <1>1, <1>3, <1>8, <1>9, <1>10, LeastStep

(* A push rule adds the two transitions of ClosedUnderRules, and its quasi-one. *)
LEMMA HandlePushLeast == LeastInv /\ HandlePush => LeastInv'
<1> SUFFICES ASSUME LeastInv, HandlePush PROVE LeastInv'
  OBVIOUS
<1>1. pc = "saturate" /\ UNCHANGED <<rules, caller, input, gen, pc, cur, dnew>>
  BY DEF HandlePush
<1>2. PICK r \in todo :
          LET g    == gen_state(gen, r.to, r.stk1)
              mid  == Mid(cur, r)
              wmid == ExtendAndDiff(dnew, r.weight, W(fa, mid))
              qone == Combine(quasi[g], One)
              A1   == Insert(fa, At(mid, wmid))
              A2   == Update(A1, At(Call(r), qone))
              closed == [x \in {[mid EXCEPT !.from = e.from] : e \in EpsInto(A2, g)}
                           |-> Extend(A2.delta[mid],
                                      A2.weight[[from |-> x.from, stk |-> EPS, to |-> g]])]
          IN  /\ IsPush(r)
              /\ quasi' = [quasi EXCEPT ![g] = qone]
              /\ fa' = IF Modified(fa, mid, wmid) THEN Update(A2, closed) ELSE A2
              /\ todo' = todo \ {r}
  BY DEF HandlePush, Mid, Call
<1>3. /\ rules \in RuleSet /\ IsAutomaton(fa) /\ gen \in 1..MaxGeneration
      /\ dnew \in Weight /\ cur \in Key \cup {NoKey}
      /\ quasi \in [GenState -> Weight] /\ \A g \in GenState : Leq(quasi[g], One)
      /\ r \in rules /\ cur \in fa.trans /\ cur \in Key /\ cur.stk # EPS
      /\ \A s \in todo : s \in ForwardRules(rules, cur.from, cur.stk)
  BY <1>1, WhileLeast
<1>4. IsPush(r) /\ todo' = todo \ {r} /\ r \in ForwardRules(rules, cur.from, cur.stk)
  BY <1>2, <1>3
<1> DEFINE mid == Mid(cur, r)
           g == gen_state(gen, r.to, r.stk1)
           qone == Combine(quasi[g], One)
           A1 == Insert(fa, At(mid, ExtendAndDiff(dnew, r.weight, W(fa, mid))))
           A2 == Update(A1, At(Call(r), qone))
           closed == [x \in {[mid EXCEPT !.from = e.from] : e \in EpsInto(A2, mid.from)}
                        |-> Extend(A2.delta[mid],
                                   A2.weight[[from |-> x.from, stk |-> EPS, to |-> mid.from]])]
<1>5. mid.from = g
  BY DEF Mid
<1>6. quasi' = [quasi EXCEPT ![g] = qone] /\ (fa' = A2 \/ fa' = Update(A2, closed))
  BY <1>2, <1>5
<1>7. g \in GenState
  BY <1>3, <1>4, TargetKeys
<1>8. qone \in Weight /\ Leq(qone, One)
  BY <1>3, <1>7, WeightClosed, LeqBasics, CombineLeast
<1> HIDE DEF g, qone
<1>9. /\ IsAutomaton(A2) /\ fa.trans \subseteq A2.trans /\ mid \in A2.trans
      /\ \A S : IsBounds(S) /\ Closed(S) /\ Inside(fa, S) /\ dnew \in S.below[cur]
                => Inside(A2, S)
  <2>1. A1 = Insert(fa, At(Mid(cur, r), ExtendAndDiff(dnew, r.weight, W(fa, Mid(cur, r)))))
        /\ A2 = Update(A1, At(Call(r), qone))
    OBVIOUS
  <2> HIDE DEF A1, A2
  <2>2. QED
    BY <1>3, <1>4, <1>8, <2>1, PushInside
<1> HIDE DEF A1, A2, mid
<1>10. /\ IsAutomaton(Update(A2, closed)) /\ A2.trans \subseteq Update(A2, closed).trans
       /\ \A S : IsBounds(S) /\ Closed(S) /\ Inside(A2, S) => Inside(Update(A2, closed), S)
  <2>1. closed = [x \in {[mid EXCEPT !.from = e.from] : e \in EpsInto(A2, mid.from)}
                    |-> Extend(A2.delta[mid],
                               A2.weight[[from |-> x.from, stk |-> EPS, to |-> mid.from]])]
    OBVIOUS
  <2> HIDE DEF closed
  <2>2. QED
    BY <1>9, <2>1, ClosureInside
<1> HIDE DEF closed
<1>11. IsAutomaton(fa') /\ fa.trans \subseteq fa'.trans
  BY <1>6, <1>9, <1>10
<1>12. ASSUME NEW S, IsBounds(S), Closed(S), Below(S)
       PROVE  Inside(fa', S) /\ dnew \in S.below[cur]
  BY <1>2, <1>6, <1>9, <1>10, <1>12 DEF Below
<1>13. quasi' \in [GenState -> Weight] /\ \A x \in GenState : Leq(quasi'[x], One)
  BY <1>3, <1>6, <1>7, <1>8
<1>14. todo' # {} => /\ cur' \in fa'.trans /\ cur'.stk # EPS
                     /\ todo' \subseteq ForwardRules(rules, cur'.from, cur'.stk)
  BY <1>1, <1>3, <1>4, <1>11
<1>15. QED
  BY <1>1, <1>3, <1>11, <1>12, <1>13, <1>14, LeastStep

(* The copy of the input is within all bounds, each of which holds it.     *)
LEMMA SetupLeast == LeastInv /\ Setup => LeastInv'
<1> SUFFICES ASSUME LeastInv, Setup PROVE LeastInv'
  OBVIOUS
<1>1. /\ pc = "setup" /\ pc' = "saturate" /\ fa' = CopyOf(input)
      /\ gen' = input.gen + 1
      /\ quasi' = [q \in GenState |-> Zero]
      /\ UNCHANGED <<rules, caller, input, cur, dnew, todo>>
  BY DEF Setup, NextGeneration
<1>2. /\ IsInput(input) /\ input.gen < MaxGeneration /\ todo = {}
      /\ input.trans \subseteq Key /\ input.weight \in [input.trans -> Weight]
      /\ input.gen \in 0..MaxGeneration
  BY <1>1 DEF LeastInv, TypeOK, TodoOK, IsInput, Generation
<1>3. gen' \in 1..MaxGeneration
  BY <1>1, <1>2, WfaAssumption
<1>4. /\ fa'.trans = input.trans /\ fa'.weight = input.weight
      /\ fa'.delta = input.weight /\ IsAutomaton(fa')
  BY <1>1, <1>2 DEF CopyOf, IsAutomaton
<1>5. TypeOK' /\ TodoOK'
  BY <1>1, <1>2, <1>3, <1>4, WeightClosed DEF LeastInv, TypeOK, TodoOK, Generation
<1>6. \A g \in GenState : Leq(quasi'[g], One)
  BY <1>1, LeqBasics, WeightClosed
<1>7. ASSUME NEW S, IsBounds(S), Closed(S)' PROVE Below(S)'
  <2>1. InputStays(S)
    BY <1>1, <1>7 DEF Closed, InputStays
  <2>2. Inside(fa', S)
    BY <1>4, <2>1 DEF Inside, InputStays
  <2>3. QED
    BY <1>1, <1>2, <2>2 DEF Below, Inside
<1>8. QED
  BY <1>1, <1>3, <1>5, <1>6, <1>7 DEF LeastInv

(* A query is handed an input it may be handed. *)
LEMMA ClientLeast == LeastInv /\ Client => LeastInv'
<1> SUFFICES ASSUME LeastInv, Client PROVE LeastInv'
  OBVIOUS
<1>1. /\ pc # "saturate" /\ pc' = "setup"
      /\ caller' \in {"client", "constructCFG"}
      /\ UNCHANGED <<rules, fa, gen, quasi, cur, dnew, todo>>
  BY DEF Client, CallPoststar, ConstructCFG, QueryAgain
<1>2. IsInput(input') /\ input'.gen < MaxGeneration
  <2>1. CASE CallPoststar
    BY <2>1, PoststarAssumption DEF CallPoststar, InputOK
  <2>2. CASE ConstructCFG
    <3>1. PICK s \in P, entries \in SUBSET Stack :
              LET keys == {[from |-> s, stk |-> e, to |-> gen_state(1, s, e)] :
                              e \in EntryPoints(rules, entries)}
              IN  input' = [trans |-> keys, weight |-> [k \in keys |-> One], gen |-> 0]
      BY <2>2 DEF ConstructCFG, CfgGeneration
    <3> DEFINE keys == {[from |-> s, stk |-> e, to |-> gen_state(1, s, e)] :
                           e \in EntryPoints(rules, entries)}
    <3>2. rules \in RuleSet /\ MaxGeneration > 0 /\ MaxGeneration \in Nat
      BY <2>2, WfaAssumption DEF LeastInv, TypeOK, ConstructCFG
    <3>3. EntryPoints(rules, entries) \subseteq Stack
      BY <3>2, RuleParts DEF EntryPoints
    <3>4. ASSUME NEW e \in Stack
          PROVE  [from |-> s, stk |-> e, to |-> gen_state(1, s, e)] \in Key
      <4>1. gen_state(1, s, e) \in GenState
        BY <3>2 DEF GenState, gen_state
      <4>2. QED
        BY <4>1 DEF Key, State, Symbol
    <3>5. keys \subseteq Key
      BY <3>3, <3>4
    <3>6. input' = [trans |-> keys, weight |-> [k \in keys |-> One], gen |-> 0]
      BY <3>1
    <3> HIDE DEF keys
    <3>7. QED
      BY <3>2, <3>5, <3>6, WeightClosed DEF IsInput, Generation
  <2>3. CASE QueryAgain
    <3>1. /\ input' = [trans |-> fa.trans, weight |-> fa.weight, gen |-> gen]
          /\ gen < MaxGeneration /\ gen \in Generation /\ IsAutomaton(fa)
      BY <2>3 DEF QueryAgain, LeastInv, TypeOK
    <3>2. QED
      BY <3>1 DEF IsAutomaton, IsInput
  <2>4. QED
    BY <2>1, <2>2, <2>3 DEF Client
<1>3. QED
  BY <1>1, <1>2 DEF LeastInv, TypeOK, TodoOK

(* The last step and one that changes nothing leave the automaton as it is. *)
LEMMA QuietLeast == LeastInv /\ (Finish \/ UNCHANGED vars) => LeastInv'
<1> SUFFICES ASSUME LeastInv, Finish \/ UNCHANGED vars PROVE LeastInv'
  OBVIOUS
<1>1. /\ UNCHANGED <<rules, caller, input, fa, gen, quasi, todo>>
      /\ pc' = pc \/ (pc = "saturate" /\ pc' = "done" /\ fa.marked = {} /\ todo = {})
      /\ dnew' = Zero \/ dnew' = dnew
      /\ cur' = NoKey \/ cur' = cur
      /\ todo = {} \/ (dnew' = dnew /\ cur' = cur)
  BY DEF Finish, vars
<1>2. TypeOK'
  BY <1>1, WeightClosed DEF LeastInv, TypeOK
<1>3. TodoOK'
  BY <1>1 DEF LeastInv, TodoOK
<1>4. ASSUME pc' \in {"saturate", "done"}, NEW S, IsBounds(S), Closed(S)' PROVE Below(S)'
  <2>1. \A t, r : RuleTarget(t, r)' = RuleTarget(t, r) /\ Call(r)' = Call(r)
    BY <1>1 DEF RuleTarget, Mid, Succ, Call
  <2>2. RulesStay(S)
    BY <1>1, <1>4, <2>1 DEF Closed, RulesStay
  <2>3. Closed(S)
    BY <1>1, <1>4, <2>2 DEF Closed, EpsilonStays, InputStays
  <2>4. Below(S)
    BY <1>1, <1>4, <2>3 DEF LeastInv
  <2>5. QED
    BY <1>1, <2>4 DEF Below, Inside
<1>5. QED
  BY <1>1, <1>2, <1>3, <1>4 DEF LeastInv

(* The invariant of the upper half, for any automata of the client. *)
THEOREM PoststarBelowSolutions == Spec => []LeastInv
<1>1. Init => LeastInv
  <2> SUFFICES ASSUME Init PROVE LeastInv
    OBVIOUS
  <2>1. IsInput(NoInput)
    BY EmptyWeights, WfaAssumption DEF NoInput, IsInput, Generation
  <2>2. /\ gen \in Generation /\ quasi \in [GenState -> Weight] /\ dnew \in Weight
        /\ rules \in RuleSet /\ IsAutomaton(fa)
    BY WfaAssumption, WeightClosed, PoststarAssumption DEF Init, Generation
  <2>3. TypeOK
    BY <2>1, <2>2 DEF Init, TypeOK
  <2>4. QED
    BY <2>3 DEF Init, LeastInv, TodoOK
<1>2. LeastInv /\ [Next]_vars => LeastInv'
  BY ClientLeast, SetupLeast, PopTransitionLeast, PopEpsilonLeast, HandleRuleLeast,
     HandlePushLeast, QuietLeast DEF Next, Query
<1>3. QED
  BY <1>1, <1>2, PTL DEF Spec

(* Every state of a session is well typed, whatever the client's automata. *)
THEOREM PoststarTyped == Spec => []TypeOK
<1>1. LeastInv => TypeOK
  BY DEF LeastInv
<1>2. QED
  BY <1>1, PoststarBelowSolutions, PTL

(***************************************************************************)
(* poststar returns no more than it must: no solution of the saturation    *)
(* equations lacks a transition of the output or gives it less weight,     *)
(* whatever the rules, automata, weights and order of the worklist.        *)
(***************************************************************************)
THEOREM PoststarLeast == Spec => []LeastWhenDone
<1>1. LeastInv => LeastWhenDone
  <2> SUFFICES ASSUME LeastInv, pc = "done", NEW S, IsWeighted(S), Solution(S)
               PROVE  Covers(S, fa)
    BY DEF LeastWhenDone
  <2>1. IsBounds(BelowOf(S)) /\ Closed(BelowOf(S))
    BY UnderInside, SolutionClosed DEF LeastInv, TypeOK
  <2>2. IsAutomaton(fa) /\ Inside(fa, BelowOf(S))
    BY <2>1 DEF LeastInv, TypeOK, Below
  <2>3. Under(fa, S)
    BY <2>2, UnderInside
  <2>4. QED
    BY <2>3 DEF Under, Covers
<1>2. QED
  BY <1>1, PoststarBelowSolutions, PTL
-----------------------------------------------------------------------------
(***************************************************************************)
(* What the two halves say of configurations: when poststar returns, the   *)
(* paths of its output that read a configuration answer the runs of the    *)
(* pushdown system that reach it from a configuration the input reads.     *)
(* Final states are the client's, and the input leads to no state that     *)
(* this query generates, as the one constructCFG makes does.               *)
(***************************************************************************)
FinalSets == {F \in SUBSET State : \A q \in F : ~ OfThisQuery(q)}

AnswersWhenDone ==
    pc = "done" /\ (\A k \in input.trans : ~ OfThisQuery(k.to)) =>
        \A F \in FinalSets, p \in P, u \in Word :
            Answer(ReadWeights(fa, F, "REVERSE", p, u), PostWeights(rules, input, F, p, u))

(* The weights of the runs: those of the input, and those a rule adds.     *)
LEMMA RunFirst ==
    ASSUME NEW in, NEW F, NEW p \in P, NEW u \in Word
    PROVE  ReadWeights(in, F, "REVERSE", p, u) \subseteq PostWeights(rules, in, F, p, u)
BY DEF PostWeights, HoldsReadings, ReadWeights

LEMMA RunStep ==
    ASSUME rules \in RuleSet, NEW in, NEW F, NEW r \in rules, NEW u \in Word,
           NEW v \in PostWeights(rules, in, F, r.from, Source(r, u))
    PROVE  Extend(v, r.weight) \in PostWeights(rules, in, F, r.to, Result(r, u))
<1>1. v \in Weight /\ Extend(v, r.weight) \in Weight
  BY RuleParts, WeightClosed DEF PostWeights
<1>2. ASSUME NEW X \in [P -> [Word -> SUBSET Weight]],
             HoldsReadings(in, F, "REVERSE", X), ForwardClosed(rules, X)
      PROVE  Extend(v, r.weight) \in X[r.to][Result(r, u)]
  BY <1>2 DEF PostWeights, ForwardClosed
<1>3. QED
  BY <1>1, <1>2 DEF PostWeights

(***************************************************************************)
(* A solution reads a word from a control state through a transition on    *)
(* its first symbol: an epsilon transition has been bypassed.              *)
(***************************************************************************)
LEMMA FirstSymbol ==
    ASSUME NEW S, Readable(S), ClosedUnderEpsilon(S),
           \A k \in S.trans : k.to \notin P /\ (k.stk = EPS => k.from \in P),
           NEW F \in SUBSET State, NEW p \in P, NEW y \in Stack, NEW u \in Word,
           NEW v \in ReadWeights(S, F, "REVERSE", p, Onto(y, u))
    PROVE  \E t \in S.trans : \E w \in ReadWeights(S, F, "REVERSE", t.to, u) :
              t.from = p /\ t.stk = y /\ Leq(v, Extend(w, S.weight[t]))
<1> DEFINE R(q, x) == ReadWeights(S, F, "REVERSE", q, x)
           Starts(q, w, k, x, z) ==
              k.from = q /\ Onto(y, u) = Onto(k.stk, x) /\ w = Extend(z, S.weight[k])
<1>1. /\ \A k \in S.trans : k.from \in State /\ k.to \in State /\ k.stk \in Symbol
      /\ \A k \in S.trans : S.weight[k] \in Weight
      /\ p \in State
  BY DEF Readable, Key, State
<1>2. Onto(y, u) # <<>> /\ Onto(y, u) \in Word
  BY OntoWord DEF Symbol
<1>3. ASSUME NEW q \in State, NEW w \in R(q, Onto(y, u))
      PROVE  \E k \in S.trans, x \in Word : \E z \in R(k.to, x) : Starts(q, w, k, x, z)
  <2>1. \E k \in S.trans, x \in Word : \E z \in R(k.to, x) :
            k.from = q /\ Onto(y, u) = Onto(k.stk, x) /\ w = Along("REVERSE", S.weight[k], z)
    BY <1>2, <1>3, ReadFirst
  <2>2. QED
    BY <2>1 DEF Along
<1>4. ASSUME NEW k \in S.trans, NEW x \in Word, k.stk # EPS, Onto(y, u) = Onto(k.stk, x)
      PROVE  k.stk = y /\ x = u
  <2>1. k.stk \in Stack
    BY <1>1, <1>4 DEF Symbol
  <2>2. QED
    BY <1>4, <2>1, OntoWord
<1>5. \A q, x : R(q, x) \subseteq Weight
  BY DEF ReadWeights
<1> HIDE DEF R
<1>6. PICK k \in S.trans, x \in Word : \E z \in R(k.to, x) : Starts(p, v, k, x, z)
  BY <1>1, <1>3 DEF R
<1>7. PICK z \in R(k.to, x) : Starts(p, v, k, x, z)
  BY <1>6
<1>8. CASE k.stk # EPS
  <2>1. k.stk = y /\ x = u
    BY <1>4, <1>7, <1>8
  <2>2. Leq(v, Extend(z, S.weight[k]))
    BY <1>1, <1>5, <1>7, LeqBasics, WeightClosed
  <2>3. QED
    BY <1>7, <2>1, <2>2 DEF R
<1>9. CASE k.stk = EPS
  <2>1. x = Onto(y, u)
    BY <1>7, <1>9, OntoWord
  <2>2. PICK t \in S.trans, a \in Word : \E w \in R(t.to, a) : Starts(k.to, z, t, a, w)
    BY <1>1, <1>3, <2>1
  <2>3. PICK w \in R(t.to, a) : Starts(k.to, z, t, a, w)
    BY <2>2
  <2>4. t.from = k.to /\ t.stk # EPS
    BY <2>3
  <2>5. t.stk = y /\ a = u
    BY <1>4, <2>3, <2>4
  <2>6. /\ Bypass(k, t) \in S.trans
        /\ Leq(Extend(S.weight[t], S.weight[k]), S.weight[Bypass(k, t)])
    BY <1>9, <2>4 DEF ClosedUnderEpsilon, Leaving
  <2>7. /\ Bypass(k, t).from = p /\ Bypass(k, t).stk = y /\ Bypass(k, t).to = t.to
    BY <1>7, <2>5 DEF Bypass
  <2>8. v = Extend(Extend(w, S.weight[t]), S.weight[k])
    BY <1>7, <2>3
  <2>9. /\ w \in Weight /\ S.weight[t] \in Weight /\ S.weight[k] \in Weight
        /\ S.weight[Bypass(k, t)] \in Weight /\ Extend(S.weight[t], S.weight[k]) \in Weight
    BY <1>1, <1>5, <2>6, WeightClosed
  <2>10. Leq(v, Extend(w, S.weight[Bypass(k, t)]))
    <3>1. v = Extend(w, Extend(S.weight[t], S.weight[k]))
      BY <2>8, <2>9, ExtendLaws
    <3>2. QED
      BY <2>6, <2>9, <3>1, ExtendMono
  <2>11. w \in R(Bypass(k, t).to, u)
    BY <2>3, <2>5, <2>7
  <2>12. QED
    BY <2>6, <2>7, <2>10, <2>11 DEF R
<1>10. QED
  BY <1>8, <1>9

(* The output reads at least as much after a rule as it read before it.    *)
LEMMA RuleCovered ==
    ASSUME rules \in RuleSet, gen \in 1..MaxGeneration, NEW S, Readable(S),
           ClosedUnderRules(S), ClosedUnderEpsilon(S),
           \A k \in S.trans : k.to \notin P /\ (k.stk = EPS => k.from \in P),
           NEW F \in SUBSET State, NEW r \in rules, NEW u \in Word,
           NEW v \in ReadWeights(S, F, "REVERSE", r.from, Source(r, u))
    PROVE  \E w \in ReadWeights(S, F, "REVERSE", r.to, Result(r, u)) :
              Leq(Extend(v, r.weight), w)
<1> DEFINE R(q, x) == ReadWeights(S, F, "REVERSE", q, x)
<1>1. /\ r.from \in P /\ r.to \in P /\ r.stk \in Stack /\ r.weight \in Weight
      /\ r.stk1 \in Symbol /\ r.stk2 \in Symbol
  BY RuleParts
<1>2. \A q, x : R(q, x) \subseteq Weight
  BY DEF ReadWeights
<1>3. \A k \in S.trans, x \in Word : \A b \in R(k.to, x) :
          Extend(b, S.weight[k]) \in R(k.from, Onto(k.stk, x))
  BY ReadStep DEF Along
<1>4. \E t \in S.trans : \E w \in R(t.to, u) :
          t.from = r.from /\ t.stk = r.stk /\ Leq(v, Extend(w, S.weight[t]))
  BY <1>1, FirstSymbol DEF Source
<1>5. v \in R(r.from, Source(r, u))
  OBVIOUS
<1> HIDE DEF R
<1>6. PICK t \in S.trans : \E w \in R(t.to, u) :
          t.from = r.from /\ t.stk = r.stk /\ Leq(v, Extend(w, S.weight[t]))
  BY <1>4
<1>7. PICK w \in R(t.to, u) :
          t.from = r.from /\ t.stk = r.stk /\ Leq(v, Extend(w, S.weight[t]))
  BY <1>6
<1> DEFINE k == RuleTarget(t, r)
<1>8. t.stk # EPS /\ t \in Key /\ r \in ForwardRules(rules, t.from, t.stk)
  BY <1>1, <1>7, WfaAssumption DEF ForwardRules, Readable
<1>9. /\ k \in S.trans /\ Leq(Extend(S.weight[t], r.weight), S.weight[k])
      /\ IsPush(r) => Call(r) \in S.trans /\ Leq(One, S.weight[Call(r)])
  BY <1>8 DEF ClosedUnderRules
<1>10. k.to = t.to
  BY DEF RuleTarget, Mid, Succ
<1> HIDE DEF k
<1>11. /\ v \in Weight /\ w \in Weight /\ S.weight[t] \in Weight /\ S.weight[k] \in Weight
       /\ Extend(w, S.weight[t]) \in Weight /\ Extend(v, r.weight) \in Weight
       /\ Extend(S.weight[t], r.weight) \in Weight /\ Extend(w, S.weight[k]) \in Weight
       /\ Extend(Extend(w, S.weight[t]), r.weight) \in Weight
  BY <1>1, <1>2, <1>5, <1>9, WeightClosed DEF Readable
<1>12. Leq(Extend(v, r.weight), Extend(w, S.weight[k]))
  <2>1. Leq(Extend(v, r.weight), Extend(Extend(w, S.weight[t]), r.weight))
    BY <1>1, <1>7, <1>11, ExtendMono
  <2>2. Extend(Extend(w, S.weight[t]), r.weight) = Extend(w, Extend(S.weight[t], r.weight))
    BY <1>1, <1>11, ExtendLaws
  <2>3. Leq(Extend(w, Extend(S.weight[t], r.weight)), Extend(w, S.weight[k]))
    BY <1>9, <1>11, ExtendMono
  <2>4. QED
    BY <1>11, <2>1, <2>2, <2>3, LeqTrans
<1>13. Extend(w, S.weight[k]) \in R(k.from, Onto(k.stk, u))
  BY <1>3, <1>9, <1>10
<1>14. CASE ~ IsPush(r)
  <2>1. k.from = r.to /\ k.stk = r.stk1
    BY <1>14 DEF k, RuleTarget, Succ
  <2>2. Result(r, u) = Onto(r.stk1, u)
    BY <1>14, RuleWords
  <2>3. QED
    BY <1>12, <1>13, <2>1, <2>2 DEF R
<1>15. CASE IsPush(r)
  <2> DEFINE c == Call(r)
  <2>1. k.from = c.to /\ k.stk = r.stk2 /\ c.from = r.to /\ c.stk = r.stk1
    BY <1>15 DEF k, RuleTarget, Mid, Call
  <2>2. c \in S.trans /\ Leq(One, S.weight[c])
    BY <1>9, <1>15
  <2> HIDE DEF c
  <2>3. Onto(r.stk2, u) \in Word
    BY RuleWords
  <2>4. Extend(Extend(w, S.weight[k]), S.weight[c]) \in R(r.to, Onto(r.stk1, Onto(r.stk2, u)))
    BY <1>3, <1>13, <2>1, <2>2, <2>3
  <2>5. S.weight[c] \in Weight /\ Extend(Extend(w, S.weight[k]), S.weight[c]) \in Weight
    BY <1>11, <2>2, WeightClosed DEF Readable
  <2>6. Leq(Extend(w, S.weight[k]), Extend(Extend(w, S.weight[k]), S.weight[c]))
    <3>1. Leq(Extend(Extend(w, S.weight[k]), One), Extend(Extend(w, S.weight[k]), S.weight[c]))
      BY <1>11, <2>2, <2>5, ExtendMono, WeightClosed
    <3>2. Extend(Extend(w, S.weight[k]), One) = Extend(w, S.weight[k])
      BY <1>11, ExtendLaws
    <3>3. QED
      BY <3>1, <3>2
  <2>7. Leq(Extend(v, r.weight), Extend(Extend(w, S.weight[k]), S.weight[c]))
    BY <1>11, <1>12, <2>5, <2>6, LeqTrans
  <2>8. QED
    BY <2>4, <2>7 DEF R, Result
<1>16. QED
  BY <1>14, <1>15

(***************************************************************************)
(* Nothing is missed: a solution of the saturation equations covers every  *)
(* run from the input.                                                     *)
(***************************************************************************)
LEMMA RunsCovered ==
    ASSUME rules \in RuleSet, gen \in 1..MaxGeneration, Readable(input),
           NEW S, Readable(S), Solution(S),
           \A k \in S.trans : k.to \notin P /\ (k.stk = EPS => k.from \in P),
           NEW F \in SUBSET State, NEW p \in P, NEW u \in Word,
           NEW v \in PostWeights(rules, input, F, p, u)
    PROVE  \E w \in ReadWeights(S, F, "REVERSE", p, u) : Leq(v, w)
<1> DEFINE R(s, x) == ReadWeights(S, F, "REVERSE", s, x)
           X == [s \in P |-> [x \in Word |-> {a \in Weight : \E b \in R(s, x) : Leq(a, b)}]]
<1>1. \A s \in P, x \in Word : X[s][x] = {a \in Weight : \E b \in R(s, x) : Leq(a, b)}
  OBVIOUS
<1>2. X \in [P -> [Word -> SUBSET Weight]]
  OBVIOUS
<1>3. \A s, x : R(s, x) \subseteq Weight
  BY DEF ReadWeights
<1>4. /\ ClosedUnderRules(S) /\ ClosedUnderEpsilon(S) /\ Covers(S, input)
  BY DEF Solution
<1>5. ASSUME NEW r \in rules, NEW x \in Word, NEW b \in R(r.from, Source(r, x))
      PROVE  \E w \in R(r.to, Result(r, x)) : Leq(Extend(b, r.weight), w)
  BY <1>4, RuleCovered
<1>6. ASSUME NEW s \in P, NEW x \in Word, NEW a \in ReadWeights(input, F, "REVERSE", s, x)
      PROVE  a \in Weight /\ \E b \in R(s, x) : Leq(a, b)
  BY <1>4, CoveredReadings DEF ReadWeights, State
<1> HIDE DEF X, R
<1>7. HoldsReadings(input, F, "REVERSE", X)
  BY <1>1, <1>6 DEF HoldsReadings
<1>8. ASSUME NEW r \in rules, NEW x \in Word, NEW a \in X[r.from][Source(r, x)]
      PROVE  Extend(a, r.weight) \in X[r.to][Result(r, x)]
  <2>1. r.from \in P /\ r.to \in P /\ r.weight \in Weight
    BY RuleParts
  <2>2. Source(r, x) \in Word /\ Result(r, x) \in Word
    BY RuleWords
  <2>3. PICK b \in R(r.from, Source(r, x)) : a \in Weight /\ Leq(a, b)
    BY <1>1, <1>8, <2>1, <2>2
  <2>4. PICK w \in R(r.to, Result(r, x)) : Leq(Extend(b, r.weight), w)
    BY <1>5
  <2>5. /\ b \in Weight /\ w \in Weight
        /\ Extend(a, r.weight) \in Weight /\ Extend(b, r.weight) \in Weight
    BY <1>3, <2>1, <2>3, WeightClosed
  <2>6. Leq(Extend(a, r.weight), Extend(b, r.weight))
    BY <2>1, <2>3, <2>5, ExtendMono
  <2>7. Leq(Extend(a, r.weight), w)
    BY <2>4, <2>5, <2>6, LeqTrans
  <2>8. QED
    BY <1>1, <2>1, <2>2, <2>5, <2>7
<1>9. ForwardClosed(rules, X)
  BY <1>8 DEF ForwardClosed
<1>10. v \in X[p][u]
  BY <1>2, <1>7, <1>9 DEF PostWeights
<1>11. QED
  BY <1>1, <1>10 DEF R

(***************************************************************************)
(* Nothing is made up.  What the words a state reads stand for: those of a *)
(* control state are the runs to it, those of a state this query generated *)
(* the runs to the call it was generated for, those of any other state the *)
(* input's own.  A transition may have any weight that keeps to that.      *)
(***************************************************************************)
Meaning(F, q, u) ==
    IF q \in P THEN Combinations(PostWeights(rules, input, F, q, u))
    ELSE IF OfThisQuery(q)
         THEN Combinations(PostWeights(rules, input, F, q.state, Onto(q.stk, u)))
         ELSE Combinations(ReadWeights(input, F, "REVERSE", q, u))

Sound(F, k) ==
    {w \in Weight : \A u \in Word : \A v \in Meaning(F, k.to, u) :
        Extend(v, w) \in Meaning(F, k.from, Onto(k.stk, u))}

SoundBounds(F) == [trans |-> Key, below |-> [k \in Key |-> Sound(F, k)]]

LEMMA MeaningIdeal ==
    ASSUME NEW F, NEW q, NEW u
    PROVE  IsIdeal(Meaning(F, q, u)) /\ Meaning(F, q, u) \subseteq Weight
<1>1. /\ \A s, x : PostWeights(rules, input, F, s, x) \subseteq Weight
      /\ \A s, x : ReadWeights(input, F, "REVERSE", s, x) \subseteq Weight
  BY DEF PostWeights, ReadWeights
<1>2. IsIdeal(Meaning(F, q, u))
  BY <1>1, CombinationsIdeal DEF Meaning
<1>3. QED
  BY <1>2 DEF IsIdeal

LEMMA SoundIsBounds ==
    ASSUME NEW F
    PROVE  IsBounds(SoundBounds(F))
<1>1. ASSUME NEW k \in Key PROVE IsIdeal(Sound(F, k))
  <2> DEFINE I == Sound(F, k)
             M(u) == Meaning(F, k.from, Onto(k.stk, u))
             V(u) == Meaning(F, k.to, u)
  <2>1. \A w : w \in I <=> w \in Weight /\ \A u \in Word : \A v \in V(u) : Extend(v, w) \in M(u)
    BY DEF Sound
  <2>2. \A u : IsIdeal(M(u)) /\ V(u) \subseteq Weight
    BY MeaningIdeal
  <2> HIDE DEF I, M, V
  <2>3. I \subseteq Weight
    BY <2>1
  <2>4. Zero \in I
    BY <2>1, <2>2, ExtendLaws, WeightClosed DEF IsIdeal
  <2>5. ASSUME NEW a \in I, NEW b \in I PROVE Combine(a, b) \in I
    <3>1. a \in Weight /\ b \in Weight /\ Combine(a, b) \in Weight
      BY <2>3, WeightClosed
    <3>2. ASSUME NEW u \in Word, NEW v \in V(u) PROVE Extend(v, Combine(a, b)) \in M(u)
      <4>1. Extend(v, a) \in M(u) /\ Extend(v, b) \in M(u)
        BY <2>1
      <4>2. Extend(v, Combine(a, b)) = Combine(Extend(v, a), Extend(v, b))
        BY <2>2, <3>1, Distributes
      <4>3. QED
        BY <2>2, <4>1, <4>2 DEF IsIdeal
    <3>3. QED
      BY <2>1, <3>1, <3>2
  <2>6. ASSUME NEW a \in I, NEW b \in Weight, Leq(b, a) PROVE b \in I
    <3>1. ASSUME NEW u \in Word, NEW v \in V(u) PROVE Extend(v, b) \in M(u)
      <4>1. Extend(v, a) \in M(u) /\ v \in Weight /\ a \in Weight
        BY <2>1, <2>2
      <4>2. Leq(Extend(v, b), Extend(v, a)) /\ Extend(v, b) \in Weight
        BY <2>6, <4>1, ExtendMono, WeightClosed
      <4>3. QED
        BY <2>2, <4>1, <4>2 DEF IsIdeal
    <3>2. QED
      BY <2>1, <3>1
  <2>7. IsIdeal(I)
    BY <2>3, <2>4, <2>5, <2>6 DEF IsIdeal
  <2>8. QED
    BY <2>7 DEF I
<1>2. QED
  BY <1>1 DEF SoundBounds, IsBounds

(* Meanings agree with the rules.                                          *)
LEMMA RuleMeaning ==
    ASSUME rules \in RuleSet, NEW F, NEW r \in rules, NEW u \in Word,
           NEW v \in Meaning(F, r.from, Source(r, u))
    PROVE  Extend(v, r.weight) \in Meaning(F, r.to, Result(r, u))
<1> DEFINE G == PostWeights(rules, input, F, r.from, Source(r, u))
           H == PostWeights(rules, input, F, r.to, Result(r, u))
           I == Before(r.weight, Combinations(H))
<1>1. r.from \in P /\ r.to \in P /\ r.weight \in Weight
  BY RuleParts
<1>2. v \in Combinations(G) /\ Meaning(F, r.to, Result(r, u)) = Combinations(H)
  BY <1>1 DEF Meaning
<1>3. G \subseteq Weight /\ H \subseteq Weight
  BY DEF PostWeights
<1>4. \A a \in G : Extend(a, r.weight) \in H
  BY RunStep
<1> HIDE DEF G, H
<1>5. IsIdeal(Combinations(H)) /\ H \subseteq Combinations(H)
  BY <1>3, CombinationsIdeal
<1>6. IsIdeal(I)
  BY <1>1, <1>5, ExtendIdeal
<1>7. \A a \in G : a \in I
  BY <1>3, <1>4, <1>5 DEF Before
<1>8. \A a \in I : Extend(a, r.weight) \in Combinations(H)
  BY DEF Before
<1> HIDE DEF I
<1>9. v \in I
  <2>1. G \subseteq I
    BY <1>7
  <2>2. Combinations(G) \subseteq I
    BY <1>3, <1>6, <2>1, CombinationsIdeal
  <2>3. QED
    BY <1>2, <2>2
<1>10. QED
  BY <1>2, <1>8, <1>9

(* And with the transitions of the input.                                  *)
LEMMA InputMeaning ==
    ASSUME Readable(input), NEW F \in FinalSets, NEW k \in input.trans,
           k.to \notin P, ~ OfThisQuery(k.to), ~ OfThisQuery(k.from),
           NEW u \in Word, NEW v \in Meaning(F, k.to, u)
    PROVE  Extend(v, input.weight[k]) \in Meaning(F, k.from, Onto(k.stk, u))
<1> DEFINE G == ReadWeights(input, F, "REVERSE", k.to, u)
           H == ReadWeights(input, F, "REVERSE", k.from, Onto(k.stk, u))
           M == Meaning(F, k.from, Onto(k.stk, u))
           I == Before(input.weight[k], M)
<1>1. input.weight[k] \in Weight /\ k.from \in State /\ k.stk \in Symbol
  BY DEF Readable, Key
<1>2. v \in Combinations(G)
  BY DEF Meaning
<1>3. G \subseteq Weight /\ H \subseteq Weight
  BY DEF ReadWeights
<1>4. \A a \in G : Extend(a, input.weight[k]) \in H
  BY ReadStep DEF Along, FinalSets
<1>5. H \subseteq M
  <2>1. CASE k.from \in P
    <3> DEFINE N == PostWeights(rules, input, F, k.from, Onto(k.stk, u))
    <3>1. M = Combinations(N) /\ N \subseteq Weight
      BY <2>1 DEF Meaning, PostWeights
    <3>2. Onto(k.stk, u) \in Word
      BY <1>1, OntoWord
    <3>3. H \subseteq N
      BY <2>1, <3>2, RunFirst
    <3> HIDE DEF M, N, H
    <3>4. QED
      BY <3>1, <3>3, CombinationsIdeal
  <2>2. CASE k.from \notin P
    <3>1. M = Combinations(H)
      BY <2>2 DEF Meaning
    <3> HIDE DEF M, H
    <3>2. QED
      BY <1>3, <3>1, CombinationsIdeal
  <2>3. QED
    BY <2>1, <2>2
<1>6. IsIdeal(M)
  BY MeaningIdeal
<1> HIDE DEF G, H, M
<1>7. IsIdeal(I)
  BY <1>1, <1>6, ExtendIdeal
<1>8. \A a \in G : a \in I
  BY <1>3, <1>4, <1>5 DEF Before
<1>9. \A a \in I : Extend(a, input.weight[k]) \in M
  BY DEF Before
<1> HIDE DEF I
<1>10. v \in I
  <2>1. G \subseteq I
    BY <1>8
  <2>2. Combinations(G) \subseteq I
    BY <1>3, <1>7, <2>1, CombinationsIdeal
  <2>3. QED
    BY <1>2, <2>2
<1>11. QED
  BY <1>9, <1>10 DEF M

(* The meanings are bounds that stay.                                      *)
LEMMA SoundClosed ==
    ASSUME rules \in RuleSet, gen \in 1..MaxGeneration, Readable(input), NEW F \in FinalSets,
           \A k \in input.trans :
              k.to \notin P /\ ~ OfThisQuery(k.to) /\ ~ OfThisQuery(k.from)
    PROVE  Closed(SoundBounds(F))
<1> DEFINE B == SoundBounds(F)
           M(q, u) == Meaning(F, q, u)
<1>1. /\ B.trans = Key
      /\ \A k \in Key : \A w : w \in B.below[k] <=>
            /\ w \in Weight
            /\ \A u \in Word : \A v \in M(k.to, u) : Extend(v, w) \in M(k.from, Onto(k.stk, u))
  BY DEF SoundBounds, Sound
<1>2. \A q, u : M(q, u) \subseteq Weight
  BY MeaningIdeal
<1>3. \A r \in rules, u \in Word : \A v \in M(r.from, Source(r, u)) :
          Extend(v, r.weight) \in M(r.to, Result(r, u))
  BY RuleMeaning
<1>4. \A k \in input.trans, u \in Word : \A v \in M(k.to, u) :
          Extend(v, input.weight[k]) \in M(k.from, Onto(k.stk, u))
  BY InputMeaning
<1>5. ASSUME NEW r \in rules, IsPush(r), NEW u
      PROVE  M(gen_state(gen, r.to, r.stk1), u) = M(r.to, Onto(r.stk1, u))
  <2> DEFINE g == gen_state(gen, r.to, r.stk1)
  <2>1. r.to \in P /\ r.stk1 \in Stack
    BY <1>5, RuleParts
  <2>2. g \in GenState /\ g.gen = gen /\ g.state = r.to /\ g.stk = r.stk1
    BY <2>1 DEF gen_state, GenState
  <2>3. g \notin P /\ OfThisQuery(g)
    BY <2>2, WfaAssumption DEF OfThisQuery
  <2> HIDE DEF g
  <2>4. QED
    BY <2>1, <2>2, <2>3 DEF g, Meaning
<1> HIDE DEF B, M
<1>6. ASSUME NEW t \in Key, t.stk # EPS, NEW r \in ForwardRules(rules, t.from, t.stk)
      PROVE  /\ RuleTarget(t, r) \in Key
             /\ \A w \in B.below[t] : Extend(w, r.weight) \in B.below[RuleTarget(t, r)]
             /\ IsPush(r) => Call(r) \in Key /\ One \in B.below[Call(r)]
  <2>1. r \in rules /\ r.from = t.from /\ r.stk = t.stk /\ r.weight \in Weight
    BY RuleParts DEF ForwardRules
  <2>2. /\ Succ(t, r) \in Key
        /\ IsPush(r) => Mid(t, r) \in Key /\ Call(r) \in Key
    BY <2>1, TargetKeys
  <2>3. ASSUME NEW w \in B.below[t], NEW u \in Word, NEW v \in M(t.to, u)
        PROVE  /\ Extend(w, r.weight) \in Weight
               /\ Extend(v, Extend(w, r.weight)) \in M(r.to, Result(r, u))
    <3>1. w \in Weight /\ Extend(v, w) \in M(t.from, Onto(t.stk, u)) /\ v \in Weight
      BY <1>1, <1>2
    <3>2. Extend(Extend(v, w), r.weight) \in M(r.to, Result(r, u))
      BY <1>3, <2>1, <3>1 DEF Source
    <3>3. Extend(Extend(v, w), r.weight) = Extend(v, Extend(w, r.weight))
      BY <2>1, <3>1, ExtendLaws
    <3>4. QED
      BY <2>1, <3>1, <3>2, <3>3, WeightClosed
  <2>4. ASSUME NEW w \in B.below[t] PROVE Extend(w, r.weight) \in Weight
    BY <1>1, <2>1, WeightClosed
  <2>5. CASE ~ IsPush(r)
    <3> DEFINE k == Succ(t, r)
    <3>1. k = RuleTarget(t, r) /\ k.to = t.to /\ k.from = r.to /\ k.stk = r.stk1
      BY <2>5 DEF RuleTarget, Succ
    <3>2. \A u \in Word : Result(r, u) = Onto(k.stk, u)
      BY <2>1, <2>5, <3>1, RuleWords
    <3> HIDE DEF k
    <3>3. ASSUME NEW w \in B.below[t] PROVE Extend(w, r.weight) \in B.below[k]
      BY <1>1, <2>2, <2>3, <2>4, <3>1, <3>2 DEF k
    <3>4. QED
      BY <2>2, <2>5, <3>1, <3>3 DEF k
  <2>6. CASE IsPush(r)
    <3> DEFINE k == Mid(t, r)
               c == Call(r)
               g == gen_state(gen, r.to, r.stk1)
    <3>1. /\ k = RuleTarget(t, r) /\ k.to = t.to /\ k.from = g /\ k.stk = r.stk2
          /\ c.from = r.to /\ c.stk = r.stk1 /\ c.to = g
      BY <2>6 DEF RuleTarget, Mid, Call
    <3>2. \A u : M(g, u) = M(r.to, Onto(r.stk1, u))
      BY <1>5, <2>1, <2>6
    <3>3. k \in Key /\ c \in Key
      BY <2>2, <2>6
    <3> HIDE DEF k, c, g
    <3>4. \A u \in Word : M(k.from, Onto(k.stk, u)) = M(r.to, Result(r, u))
      BY <3>1, <3>2 DEF Result
    <3>5. ASSUME NEW w \in B.below[t] PROVE Extend(w, r.weight) \in B.below[k]
      BY <1>1, <2>3, <2>4, <3>1, <3>3, <3>4
    <3>6. ASSUME NEW u \in Word, NEW v \in M(c.to, u)
          PROVE  Extend(v, One) \in M(c.from, Onto(c.stk, u))
      <4>1. v \in M(r.to, Onto(r.stk1, u)) /\ v \in Weight
        BY <1>2, <3>1, <3>2
      <4>2. Extend(v, One) = v
        BY <4>1, ExtendLaws
      <4>3. QED
        BY <3>1, <4>1, <4>2
    <3>7. One \in B.below[c]
      BY <1>1, <3>3, <3>6, WeightClosed
    <3>8. QED
      BY <3>1, <3>3, <3>5, <3>7 DEF c
  <2>7. QED
    BY <2>5, <2>6
<1>7. ASSUME NEW e \in Key, e.stk = EPS, NEW x \in Key, x.from = e.to
      PROVE  /\ Bypass(e, x) \in Key
             /\ \A c \in B.below[x], d \in B.below[e] : Extend(c, d) \in B.below[Bypass(e, x)]
  <2> DEFINE k == Bypass(e, x)
  <2>1. k \in Key /\ k.from = e.from /\ k.stk = x.stk /\ k.to = x.to /\ x.stk \in Symbol
    BY DEF Bypass, Key
  <2> HIDE DEF k
  <2>2. ASSUME NEW c \in B.below[x], NEW d \in B.below[e] PROVE Extend(c, d) \in B.below[k]
    <3>1. c \in Weight /\ d \in Weight /\ Extend(c, d) \in Weight
      BY <1>1, WeightClosed
    <3>2. ASSUME NEW u \in Word, NEW v \in M(k.to, u)
          PROVE  Extend(v, Extend(c, d)) \in M(k.from, Onto(k.stk, u))
      <4>1. Extend(v, c) \in M(x.from, Onto(x.stk, u)) /\ Onto(x.stk, u) \in Word
        BY <1>1, <2>1, OntoWord
      <4>2. Extend(Extend(v, c), d) \in M(e.from, Onto(e.stk, Onto(x.stk, u)))
        BY <1>1, <1>7, <4>1
      <4>3. Onto(e.stk, Onto(x.stk, u)) = Onto(k.stk, u)
        BY <1>7, <2>1, <4>1, OntoWord
      <4>4. v \in Weight /\ Extend(Extend(v, c), d) = Extend(v, Extend(c, d))
        BY <1>2, <3>1, ExtendLaws
      <4>5. QED
        BY <2>1, <4>2, <4>3, <4>4
    <3>3. QED
      BY <1>1, <2>1, <3>1, <3>2
  <2>3. QED
    BY <2>1, <2>2 DEF k
<1>8. ASSUME NEW k \in input.trans PROVE k \in Key /\ input.weight[k] \in B.below[k]
  BY <1>1, <1>4 DEF Readable
<1>9. RulesStay(B)
  BY <1>1, <1>6 DEF RulesStay
<1>10. EpsilonStays(B)
  BY <1>1, <1>7 DEF EpsilonStays, Leaving
<1>11. InputStays(B)
  BY <1>1, <1>8 DEF InputStays
<1>12. QED
  BY <1>9, <1>10, <1>11 DEF Closed, B

(* What an automaton within those bounds reads is what its states mean.    *)
LEMMA ReadingsMean ==
    ASSUME NEW F \in FinalSets, IsAutomaton(fa), Inside(fa, SoundBounds(F)),
           NEW q \in State, NEW u \in Word
    PROVE  ReadWeights(fa, F, "REVERSE", q, u) \subseteq Meaning(F, q, u)
<1> DEFINE X == [s \in State |-> [x \in Word |-> Meaning(F, s, x)]]
<1>1. X \in [State -> [Word -> SUBSET Weight]]
  BY MeaningIdeal
<1>2. ASSUME NEW s \in F PROVE One \in X[s][<<>>]
  <2> DEFINE R == ReadWeights(input, F, "REVERSE", s, <<>>)
             N == PostWeights(rules, input, F, s, <<>>)
  <2>1. s \in State /\ ~ OfThisQuery(s) /\ <<>> \in Word /\ One \in R
    BY ReadFinal, OntoWord DEF FinalSets
  <2>2. R \subseteq Weight /\ N \subseteq Weight
    BY DEF ReadWeights, PostWeights
  <2>3. s \in P => R \subseteq N
    BY <2>1, RunFirst
  <2>4. X[s][<<>>] = IF s \in P THEN Combinations(N) ELSE Combinations(R)
    BY <2>1 DEF Meaning
  <2> HIDE DEF R, N, X
  <2>5. R \subseteq Combinations(R) /\ N \subseteq Combinations(N)
    BY <2>2, CombinationsIdeal
  <2>6. QED
    BY <2>1, <2>3, <2>4, <2>5
<1>3. ASSUME NEW k \in fa.trans, NEW x \in Word, NEW v \in X[k.to][x]
      PROVE  Extend(v, fa.weight[k]) \in X[k.from][Onto(k.stk, x)]
  <2>1. k \in Key /\ k.from \in State /\ k.to \in State /\ Onto(k.stk, x) \in Word
    BY OntoWord DEF IsAutomaton, Key
  <2>2. fa.weight[k] \in Sound(F, k)
    BY <2>1 DEF Inside, SoundBounds
  <2>3. v \in Meaning(F, k.to, x)
    BY <2>1
  <2>4. Extend(v, fa.weight[k]) \in Meaning(F, k.from, Onto(k.stk, x))
    BY <2>2, <2>3 DEF Sound
  <2>5. QED
    BY <2>1, <2>4
<1> HIDE DEF X
<1>4. ReadingClosed(fa, F, "REVERSE", X)
  BY <1>2, <1>3 DEF ReadingClosed, Along
<1>5. ReadWeights(fa, F, "REVERSE", q, u) \subseteq X[q][u]
  BY <1>1, <1>4, ReadLeast
<1>6. QED
  BY <1>5 DEF X

(***************************************************************************)
(* poststar answers the query: for every configuration, of any height, the *)
(* paths of its output that read it have the combined weight of all the    *)
(* runs of the pushdown system that reach it from the input's              *)
(* configurations, whatever the rules, automata, weights and order of the  *)
(* worklist.                                                               *)
(***************************************************************************)
THEOREM PoststarAnswers == AllFromControl => (Spec => []AnswersWhenDone)
<1>1. IInv /\ LeastInv => AnswersWhenDone
  <2> SUFFICES ASSUME IInv, LeastInv, pc = "done",
                      \A k \in input.trans : ~ OfThisQuery(k.to),
                      NEW F \in FinalSets, NEW p \in P, NEW u \in Word
               PROVE  Answer(ReadWeights(fa, F, "REVERSE", p, u),
                             PostWeights(rules, input, F, p, u))
    BY DEF AnswersWhenDone
  <2>1. /\ rules \in RuleSet /\ gen \in 1..MaxGeneration /\ IsAutomaton(fa)
        /\ F \in SUBSET State /\ p \in State
    BY DEF LeastInv, TypeOK, FinalSets, State
  <2>2. InputOK(input) /\ gen = input.gen + 1 /\ FaInv(fa)
    BY DEF IInv, InputReady
  <2>3. Readable(input) /\ Readable(fa)
    BY <2>1, <2>2 DEF InputOK, IsInput, IsAutomaton, Readable
  <2>4. Solution(fa)
    BY IInvSaturated DEF SaturatedWhenDone
  <2>5. \A k \in fa.trans : k.to \notin P /\ (k.stk = EPS => k.from \in P)
    BY <2>2 DEF FaInv, Shaped
  <2>6. \A k \in input.trans :
           k.to \notin P /\ ~ OfThisQuery(k.to) /\ ~ OfThisQuery(k.from)
    <3>1. input.gen \in Nat
      BY <2>2, WfaAssumption DEF InputOK, IsInput, Generation
    <3>2. QED
      BY <2>2, <3>1 DEF InputOK, OfThisQuery
  <2>7. \A w \in PostWeights(rules, input, F, p, u) :
           \E v \in ReadWeights(fa, F, "REVERSE", p, u) : Leq(w, v)
    BY <2>1, <2>3, <2>4, <2>5, RunsCovered
  <2>8. Inside(fa, SoundBounds(F))
    <3>1. IsBounds(SoundBounds(F)) /\ Closed(SoundBounds(F))
      BY <2>1, <2>3, <2>6, SoundIsBounds, SoundClosed
    <3>2. QED
      BY <3>1 DEF LeastInv, Below
  <2>9. ReadWeights(fa, F, "REVERSE", p, u)
          \subseteq Combinations(PostWeights(rules, input, F, p, u))
    BY <2>1, <2>8, ReadingsMean DEF Meaning
  <2>10. QED
    BY <2>7, <2>9 DEF Answer
<1>2. QED
  BY <1>1, PoststarInvariant, PoststarBelowSolutions, PTL
=============================================================================
