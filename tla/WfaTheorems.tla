---------------------------- MODULE WfaTheorems -----------------------------
(***************************************************************************)
(* What the saturation proofs need to know of weights and of automata:     *)
(* the order of an idempotent semiring is a partial order, combine is its  *)
(* least upper bound, extend is monotone, the difference covers what a     *)
(* weight lacks; and how WFA::insert and WPDS::update change an automaton. *)
(***************************************************************************)
EXTENDS PdsRuns, TLAPS

(* The order is reflexive and Zero is its bottom. *)
LEMMA LeqBasics ==
    \A a \in Weight : Leq(a, a) /\ Leq(Zero, a)
BY CombineLaws DEF Leq

(* The order is transitive. *)
LEMMA LeqTrans ==
    ASSUME NEW a \in Weight, NEW b \in Weight, NEW c \in Weight,
           Leq(a, b), Leq(b, c)
    PROVE  Leq(a, c)
<1>1. Combine(Combine(c, b), a) = Combine(c, Combine(b, a))
  BY CombineLaws
<1>2. Combine(b, a) = b /\ Combine(c, b) = c
  BY DEF Leq
<1>3. QED
  BY <1>1, <1>2 DEF Leq

(* Combine is above both of its operands. *)
LEMMA CombineUpper ==
    ASSUME NEW a \in Weight, NEW b \in Weight
    PROVE  Leq(a, Combine(a, b)) /\ Leq(b, Combine(a, b))
<1>1. Combine(Combine(a, b), b) = Combine(a, Combine(b, b))
  BY CombineLaws
<1>2. Combine(b, b) = b /\ Combine(a, a) = a /\ Combine(a, b) = Combine(b, a)
  BY CombineLaws
<1>3. Combine(Combine(b, a), a) = Combine(b, Combine(a, a))
  BY CombineLaws
<1>4. QED
  BY <1>1, <1>2, <1>3 DEF Leq

(* Combine is below whatever is above both of its operands. *)
LEMMA CombineLeast ==
    ASSUME NEW a \in Weight, NEW b \in Weight, NEW c \in Weight,
           Leq(a, c), Leq(b, c)
    PROVE  Leq(Combine(a, b), c)
<1>1. Combine(Combine(c, a), b) = Combine(c, Combine(a, b))
  BY CombineLaws
<1>2. QED
  BY <1>1 DEF Leq

(* Combine is monotone in both operands. *)
LEMMA CombineMono ==
    ASSUME NEW a \in Weight, NEW b \in Weight, NEW c \in Weight, NEW d \in Weight,
           Leq(a, c), Leq(b, d)
    PROVE  Leq(Combine(a, b), Combine(c, d))
<1>1. Combine(c, d) \in Weight
  BY WeightClosed
<1>2. Leq(c, Combine(c, d)) /\ Leq(d, Combine(c, d))
  BY CombineUpper
<1>3. Leq(a, Combine(c, d))
  BY <1>1, <1>2, LeqTrans
<1>4. Leq(b, Combine(c, d))
  BY <1>1, <1>2, LeqTrans
<1>5. QED
  BY <1>1, <1>3, <1>4, CombineLeast

(* Extend is monotone in both operands. *)
LEMMA ExtendMono ==
    ASSUME NEW a \in Weight, NEW b \in Weight, NEW c \in Weight, Leq(a, b)
    PROVE  Leq(Extend(a, c), Extend(b, c)) /\ Leq(Extend(c, a), Extend(c, b))
<1>1. Combine(b, a) = b
  BY DEF Leq
<1>2. Extend(Combine(b, a), c) = Combine(Extend(b, c), Extend(a, c))
  BY Distributes
<1>3. Extend(c, Combine(b, a)) = Combine(Extend(c, b), Extend(c, a))
  BY Distributes
<1>4. QED
  BY <1>1, <1>2, <1>3 DEF Leq

(***************************************************************************)
(* The old weight combined with the difference is above both the old and   *)
(* the new weight, and the difference is below their combination.          *)
(***************************************************************************)
LEMMA DiffCovers ==
    ASSUME NEW w \in Weight, NEW se \in Weight
    PROVE  /\ Leq(w, Combine(se, Diff(w, se)))
           /\ Leq(Diff(w, se), Combine(se, w))
<1>1. Diff(w, se) \in Weight
  BY WeightClosed
<1>2. Combine(se, Diff(w, se)) = Combine(se, w)
  BY DiffContract
<1>3. Leq(w, Combine(se, w))
  BY CombineUpper
<1>4. Leq(Diff(w, se), Combine(se, Diff(w, se)))
  BY <1>1, CombineUpper
<1>5. QED
  BY <1>2, <1>3, <1>4

(***************************************************************************)
(* How a debt is carried over: wa grew to wb, and db covers what it        *)
(* gained; wa extended by w was covered by ta and by what was pending, pa; *)
(* then wb extended by w is covered by tb and by what is pending now, pb.  *)
(***************************************************************************)
LEMMA PayRight ==
    ASSUME NEW wa \in Weight, NEW wb \in Weight, NEW db \in Weight,
           NEW pa \in Weight, NEW pb \in Weight,
           NEW ta \in Weight, NEW tb \in Weight, NEW w \in Weight,
           Leq(wb, Combine(wa, db)),
           Leq(Extend(wa, w), Combine(ta, Extend(pa, w))),
           Leq(ta, tb), Leq(db, pb),
           Leq(Extend(pa, w), Combine(tb, Extend(pb, w)))
    PROVE  Leq(Extend(wb, w), Combine(tb, Extend(pb, w)))
<1> DEFINE sum == Combine(tb, Extend(pb, w))
<1>1. /\ sum \in Weight /\ Extend(pa, w) \in Weight /\ Extend(pb, w) \in Weight
      /\ Extend(wa, w) \in Weight /\ Extend(wb, w) \in Weight /\ Extend(db, w) \in Weight
      /\ Combine(wa, db) \in Weight /\ Combine(ta, Extend(pa, w)) \in Weight
      /\ Combine(Extend(wa, w), Extend(db, w)) \in Weight
  BY WeightClosed
<1>2. Leq(tb, sum) /\ Leq(Extend(pb, w), sum)
  BY <1>1, CombineUpper
<1> HIDE DEF sum
<1>3. Leq(ta, sum)
  BY <1>1, <1>2, LeqTrans
<1>4. Leq(Combine(ta, Extend(pa, w)), sum)
  BY <1>1, <1>3, CombineLeast DEF sum
<1>5. Leq(Extend(wa, w), sum)
  BY <1>1, <1>4, LeqTrans
<1>6. Leq(Extend(db, w), sum)
  <2>1. Leq(Extend(db, w), Extend(pb, w))
    BY ExtendMono
  <2>2. QED
    BY <1>1, <1>2, <2>1, LeqTrans
<1>7. Leq(Combine(Extend(wa, w), Extend(db, w)), sum)
  BY <1>1, <1>5, <1>6, CombineLeast
<1>8. Extend(Combine(wa, db), w) = Combine(Extend(wa, w), Extend(db, w))
  BY Distributes
<1>9. Leq(Extend(wb, w), Extend(Combine(wa, db), w))
  BY <1>1, ExtendMono
<1>10. QED
  BY <1>1, <1>7, <1>8, <1>9, LeqTrans DEF sum

(* The same with the weight that does not change on the left. *)
LEMMA PayLeft ==
    ASSUME NEW wa \in Weight, NEW wb \in Weight, NEW db \in Weight,
           NEW pa \in Weight, NEW ta \in Weight, NEW tb \in Weight, NEW u \in Weight,
           Leq(wb, Combine(wa, db)),
           Leq(Extend(u, wa), Combine(ta, Extend(u, pa))),
           Leq(ta, tb), Leq(pa, db)
    PROVE  Leq(Extend(u, wb), Combine(tb, Extend(u, db)))
<1> DEFINE sum == Combine(tb, Extend(u, db))
<1>1. /\ sum \in Weight /\ Extend(u, pa) \in Weight /\ Extend(u, db) \in Weight
      /\ Extend(u, wa) \in Weight /\ Extend(u, wb) \in Weight
      /\ Combine(wa, db) \in Weight /\ Combine(ta, Extend(u, pa)) \in Weight
      /\ Combine(Extend(u, wa), Extend(u, db)) \in Weight
  BY WeightClosed
<1>2. Leq(tb, sum) /\ Leq(Extend(u, db), sum)
  BY <1>1, CombineUpper
<1> HIDE DEF sum
<1>3. Leq(ta, sum)
  BY <1>1, <1>2, LeqTrans
<1>4. Leq(Extend(u, pa), sum)
  <2>1. Leq(Extend(u, pa), Extend(u, db))
    BY ExtendMono
  <2>2. QED
    BY <1>1, <1>2, <2>1, LeqTrans
<1>5. Leq(Combine(ta, Extend(u, pa)), sum)
  BY <1>1, <1>3, <1>4, CombineLeast
<1>6. Leq(Extend(u, wa), sum)
  BY <1>1, <1>5, LeqTrans
<1>7. Leq(Combine(Extend(u, wa), Extend(u, db)), sum)
  BY <1>1, <1>2, <1>6, CombineLeast
<1>8. Extend(u, Combine(wa, db)) = Combine(Extend(u, wa), Extend(u, db))
  BY Distributes
<1>9. Leq(Extend(u, wb), Extend(u, Combine(wa, db)))
  BY <1>1, ExtendMono
<1>10. QED
  BY <1>1, <1>7, <1>8, <1>9, LeqTrans DEF sum

(* The debt of a rule that reads one transition, which grows from ta to tb. *)
LEMMA PayStep ==
    ASSUME NEW ta \in Weight, NEW tb \in Weight, NEW dt \in Weight,
           NEW pa \in Weight, NEW pb \in Weight,
           NEW sa \in Weight, NEW sb \in Weight, NEW w \in Weight,
           Leq(tb, Combine(ta, dt)), Leq(sa, sb), Leq(dt, pb),
           Leq(Extend(w, ta), Combine(sa, Extend(w, pa))),
           Leq(Extend(w, pa), Combine(sb, Extend(w, pb)))
    PROVE  Leq(Extend(w, tb), Combine(sb, Extend(w, pb)))
<1> DEFINE x == Combine(sb, Extend(w, pb))
<1>1. /\ Extend(w, ta) \in Weight /\ Extend(w, tb) \in Weight /\ Extend(w, dt) \in Weight
      /\ Extend(w, pa) \in Weight /\ Extend(w, pb) \in Weight /\ x \in Weight
      /\ Combine(ta, dt) \in Weight
  BY WeightClosed
<1>2. Leq(sb, x) /\ Leq(Extend(w, pb), x)
  BY <1>1, CombineUpper
<1>3. Leq(Extend(w, tb), Combine(Extend(w, ta), Extend(w, dt)))
  BY <1>1, ExtendMono, Distributes
<1>4. Leq(Extend(w, dt), Extend(w, pb))
  BY ExtendMono
<1> HIDE DEF x
<1>5. Leq(Extend(w, dt), x) /\ Leq(sa, x) /\ Leq(Extend(w, pa), x)
  BY <1>1, <1>2, <1>4, LeqTrans DEF x
<1>6. Leq(Extend(w, ta), x)
  <2>1. Leq(Combine(sa, Extend(w, pa)), x) /\ Combine(sa, Extend(w, pa)) \in Weight
    BY <1>1, <1>5, CombineLeast, WeightClosed
  <2> QED  BY <1>1, <2>1, LeqTrans
<1>7. Leq(Combine(Extend(w, ta), Extend(w, dt)), x)
      /\ Combine(Extend(w, ta), Extend(w, dt)) \in Weight
  BY <1>1, <1>5, <1>6, CombineLeast, WeightClosed
<1> QED  BY <1>1, <1>3, <1>7, LeqTrans DEF x

(***************************************************************************)
(* The debt k of a rule that reads two transitions, when both have grown:  *)
(* by i since it was h, and that by j since it was g, of which e and f     *)
(* were still owed; p and q are owed now, and sb is paid.                  *)
(***************************************************************************)
LEMMA PayTwo ==
    ASSUME NEW p \in Weight, NEW q \in Weight, NEW e \in Weight, NEW f \in Weight,
           NEW g \in Weight, NEW h \in Weight, NEW i \in Weight, NEW j \in Weight,
           NEW k \in Weight, NEW sa \in Weight, NEW sb \in Weight,
           Leq(k, Combine(h, i)), Leq(h, Combine(g, j)), Leq(i, p), Leq(j, q),
           Leq(g, Combine(sa, Combine(e, f))), Leq(sa, sb),
           Leq(e, Combine(sb, p)), Leq(f, Combine(sb, q))
    PROVE  Leq(k, Combine(sb, Combine(p, q)))
<1> DEFINE y == Combine(p, q)
           x == Combine(sb, y)
<1>1. y \in Weight /\ x \in Weight
  BY WeightClosed
<1>2. Leq(p, y) /\ Leq(q, y) /\ Leq(sb, x) /\ Leq(y, x)
  BY <1>1, CombineUpper
<1>3. Leq(p, x) /\ Leq(q, x) /\ Leq(sa, x)
  BY <1>1, <1>2, LeqTrans
<1>4. Leq(e, x) /\ Leq(f, x)
  <2>1. Leq(Combine(sb, p), x) /\ Leq(Combine(sb, q), x)
    BY <1>1, <1>2, <1>3, CombineLeast
  <2> QED  BY <1>1, <2>1, LeqTrans, WeightClosed
<1> HIDE DEF x, y
<1>5. Leq(g, x)
  <2>1. Combine(e, f) \in Weight /\ Combine(sa, Combine(e, f)) \in Weight
    BY WeightClosed
  <2>2. Leq(Combine(e, f), x)
    BY <1>1, <1>4, CombineLeast
  <2>3. Leq(Combine(sa, Combine(e, f)), x)
    BY <1>1, <1>3, <2>1, <2>2, CombineLeast
  <2> QED  BY <1>1, <2>1, <2>3, LeqTrans
<1>6. Leq(h, x)
  <2>1. Leq(j, x) /\ Combine(g, j) \in Weight
    BY <1>1, <1>3, LeqTrans, WeightClosed
  <2>2. Leq(Combine(g, j), x)
    BY <1>1, <1>5, <2>1, CombineLeast
  <2> QED  BY <1>1, <2>1, <2>2, LeqTrans
<1>7. Leq(k, x)
  <2>1. Leq(i, x) /\ Combine(h, i) \in Weight
    BY <1>1, <1>3, LeqTrans, WeightClosed
  <2>2. Leq(Combine(h, i), x)
    BY <1>1, <1>6, <2>1, CombineLeast
  <2> QED  BY <1>1, <2>1, <2>2, LeqTrans
<1> QED  BY <1>7 DEF x, y
-----------------------------------------------------------------------------
(***************************************************************************)
(* B comes after A: transitions and weights grow, and the delta of B       *)
(* covers what a weight gained.                                            *)
(***************************************************************************)
Evolves(A, B) ==
    /\ A.trans \subseteq B.trans
    /\ A.marked \subseteq B.marked
    /\ \A k \in Key : /\ Leq(W(A, k), W(B, k))
                      /\ Leq(W(B, k), Combine(W(A, k), D(B, k)))
                      /\ Leq(D(A, k), D(B, k))

(* Whatever B added to A, or increased, is marked. *)
Noted(A, B) ==
    \A k \in B.trans : \/ k \in B.marked
                       \/ k \in A.trans /\ k \notin A.marked /\ D(B, k) = D(A, k)

(* A and B agree on the transition k. *)
SameAt(A, B, k) == /\ k \in A.trans <=> k \in B.trans
                   /\ k \in A.marked <=> k \in B.marked
                   /\ W(A, k) = W(B, k) /\ D(A, k) = D(B, k)

(* Weights and deltas are weights. *)
LEMMA WeightTyped ==
    ASSUME NEW A, IsAutomaton(A), NEW k
    PROVE  W(A, k) \in Weight /\ D(A, k) \in Weight
BY WeightClosed DEF IsAutomaton, W, D

(* What one insertion does to the weight and the delta of its transition. *)
LEMMA InsertedWeight ==
    ASSUME NEW A, IsAutomaton(A), NEW k, NEW w \in Weight
    PROVE  /\ WeightAfter(A, k, w) \in Weight /\ DeltaAfter(A, k, w) \in Weight
           /\ Leq(W(A, k), WeightAfter(A, k, w))
           /\ Leq(w, WeightAfter(A, k, w))
           /\ Leq(WeightAfter(A, k, w), Combine(W(A, k), DeltaAfter(A, k, w)))
           /\ Leq(D(A, k), DeltaAfter(A, k, w))
<1>1. W(A, k) \in Weight /\ D(A, k) \in Weight
  BY WeightTyped
<1>2. WeightAfter(A, k, w) \in Weight
  BY <1>1, WeightClosed DEF WeightAfter
<1>3. Leq(W(A, k), WeightAfter(A, k, w)) /\ Leq(w, WeightAfter(A, k, w))
  BY <1>1, CombineUpper DEF WeightAfter
<1>4. CASE k \in A.trans
  <2>1. /\ W(A, k) = A.weight[k] /\ D(A, k) = A.delta[k]
        /\ DeltaAfter(A, k, w) = Combine(D(A, k), Diff(w, W(A, k)))
    BY <1>4 DEF W, D, DeltaAfter
  <2>2. Diff(w, W(A, k)) \in Weight /\ DeltaAfter(A, k, w) \in Weight
    BY <1>1, <2>1, WeightClosed
  <2>3. Leq(D(A, k), DeltaAfter(A, k, w)) /\ Leq(Diff(w, W(A, k)), DeltaAfter(A, k, w))
    BY <1>1, <2>1, <2>2, CombineUpper
  <2>4. WeightAfter(A, k, w) = Combine(W(A, k), Diff(w, W(A, k)))
    BY <1>1, DiffContract DEF WeightAfter
  <2>5. Leq(W(A, k), W(A, k))
    BY <1>1, LeqBasics
  <2>6. Leq(WeightAfter(A, k, w), Combine(W(A, k), DeltaAfter(A, k, w)))
    BY <1>1, <2>2, <2>3, <2>4, <2>5, CombineMono
  <2>7. QED
    BY <1>2, <1>3, <2>2, <2>3, <2>6
<1>5. CASE k \notin A.trans
  <2>1. D(A, k) = Zero /\ W(A, k) = Zero /\ DeltaAfter(A, k, w) = w
    BY <1>5 DEF W, D, DeltaAfter
  <2>2. WeightAfter(A, k, w) = Combine(W(A, k), DeltaAfter(A, k, w))
    BY <2>1 DEF WeightAfter
  <2>3. QED
    BY <1>2, <1>3, <2>1, <2>2, LeqBasics
<1>6. QED
  BY <1>4, <1>5

(* An insertion gives an automaton, and changes nothing but what it inserts. *)
LEMMA InsertFacts ==
    ASSUME NEW A, IsAutomaton(A), NEW K \in SUBSET Key, NEW ins \in [K -> Weight]
    PROVE  LET B == Insert(A, ins) IN
           /\ IsAutomaton(B)
           /\ B.trans = A.trans \cup K
           /\ B.marked = A.marked
           /\ \A k \in K : /\ W(B, k) = WeightAfter(A, k, ins[k])
                           /\ D(B, k) = DeltaAfter(A, k, ins[k])
           /\ \A k : k \notin K => SameAt(A, B, k)
<1> DEFINE B == Insert(A, ins)
           all == A.trans \cup K
<1>1. /\ A.trans \subseteq Key /\ A.marked \subseteq A.trans
      /\ A.weight \in [A.trans -> Weight] /\ A.delta \in [A.trans -> Weight]
  BY DEF IsAutomaton
<1>2. \A k \in K : WeightAfter(A, k, ins[k]) \in Weight /\ DeltaAfter(A, k, ins[k]) \in Weight
  BY InsertedWeight
<1> DEFINE wt == [k \in all |-> IF k \in K THEN WeightAfter(A, k, ins[k]) ELSE A.weight[k]]
           dl == [k \in all |-> IF k \in K THEN DeltaAfter(A, k, ins[k]) ELSE A.delta[k]]
<1>3. B = [trans |-> all, weight |-> wt, delta |-> dl, marked |-> A.marked]
  BY DEF Insert, TransAfter
<1>4. wt \in [all -> Weight] /\ dl \in [all -> Weight]
  BY <1>1, <1>2
<1>5. \A k \in K : /\ wt[k] = WeightAfter(A, k, ins[k]) /\ dl[k] = DeltaAfter(A, k, ins[k])
  OBVIOUS
<1>6. \A k \in A.trans \ K : wt[k] = A.weight[k] /\ dl[k] = A.delta[k]
  OBVIOUS
<1> HIDE DEF wt, dl, B
<1>7. IsAutomaton(B)
  BY <1>1, <1>3, <1>4 DEF IsAutomaton
<1>8. \A k \in K : W(B, k) = WeightAfter(A, k, ins[k]) /\ D(B, k) = DeltaAfter(A, k, ins[k])
  BY <1>3, <1>5 DEF W, D
<1>9. \A k : k \notin K => SameAt(A, B, k)
  BY <1>3, <1>6 DEF W, D, SameAt
<1>10. QED
  BY <1>3, <1>7, <1>8, <1>9 DEF B

(* An automaton with more of its transitions marked. *)
LEMMA MarkFacts ==
    ASSUME NEW A, IsAutomaton(A), NEW M \in SUBSET A.trans
    PROVE  LET B == [A EXCEPT !.marked = @ \cup M] IN
           /\ IsAutomaton(B)
           /\ B.trans = A.trans /\ B.weight = A.weight /\ B.delta = A.delta
           /\ B.marked = A.marked \cup M
BY DEF IsAutomaton

(* An update is an insertion that marks what it modifies. *)
LEMMA UpdateFacts ==
    ASSUME NEW A, IsAutomaton(A), NEW K \in SUBSET Key, NEW ins \in [K -> Weight]
    PROVE  LET B == Update(A, ins) IN
           /\ IsAutomaton(B)
           /\ B.trans = A.trans \cup K
           /\ \A k : k \in B.marked <=> k \in A.marked \/ (k \in K /\ Modified(A, k, ins[k]))
           /\ \A k \in K : /\ W(B, k) = WeightAfter(A, k, ins[k])
                           /\ D(B, k) = DeltaAfter(A, k, ins[k])
           /\ \A k : k \notin K => SameAt(A, B, k)
<1> DEFINE C == Insert(A, ins)
           M == {k \in K : Modified(A, k, ins[k])}
           B == [C EXCEPT !.marked = @ \cup M]
<1>1. /\ IsAutomaton(C)
      /\ C.trans = A.trans \cup K
      /\ C.marked = A.marked
      /\ \A k \in K : /\ W(C, k) = WeightAfter(A, k, ins[k])
                      /\ D(C, k) = DeltaAfter(A, k, ins[k])
      /\ \A k : k \notin K => SameAt(A, C, k)
  BY InsertFacts
<1>2. M \in SUBSET C.trans
  BY <1>1
<1> HIDE DEF C, M
<1>3. /\ IsAutomaton(B)
      /\ B.trans = C.trans /\ B.weight = C.weight /\ B.delta = C.delta
      /\ B.marked = C.marked \cup M
  BY <1>1, <1>2, MarkFacts
<1>4. \A k : W(B, k) = W(C, k) /\ D(B, k) = D(C, k)
  BY <1>3 DEF W, D
<1>5. B = Update(A, ins)
  BY DEF Update, C, M
<1>6. \A k : k \notin K => SameAt(A, B, k)
  BY <1>1, <1>3, <1>4 DEF SameAt, M
<1> HIDE DEF B
<1>7. QED
  BY <1>1, <1>3, <1>4, <1>5, <1>6 DEF M

(* What an insertion does to its transitions evolves the automaton. *)
LEMMA AddedEvolves ==
    ASSUME NEW A, IsAutomaton(A), NEW K \in SUBSET Key, NEW ins \in [K -> Weight],
           NEW B,
           B.trans = A.trans \cup K, A.marked \subseteq B.marked,
           \A k \in K : /\ W(B, k) = WeightAfter(A, k, ins[k])
                       /\ D(B, k) = DeltaAfter(A, k, ins[k]),
           \A k : k \notin K => SameAt(A, B, k)
    PROVE  Evolves(A, B) /\ \A k \in K : Leq(ins[k], W(B, k))
<1>1. ASSUME NEW k \in K
      PROVE  /\ Leq(W(A, k), W(B, k)) /\ Leq(ins[k], W(B, k))
             /\ Leq(W(B, k), Combine(W(A, k), D(B, k)))
             /\ Leq(D(A, k), D(B, k))
  BY InsertedWeight
<1>2. ASSUME NEW k \in Key, k \notin K
      PROVE  /\ Leq(W(A, k), W(B, k))
             /\ Leq(W(B, k), Combine(W(A, k), D(B, k)))
             /\ Leq(D(A, k), D(B, k))
  <2>1. W(A, k) \in Weight /\ D(A, k) \in Weight
    BY WeightTyped
  <2>2. W(B, k) = W(A, k) /\ D(B, k) = D(A, k)
    BY <1>2 DEF SameAt
  <2>3. QED
    BY <2>1, <2>2, LeqBasics, CombineUpper
<1>3. QED
  BY <1>1, <1>2 DEF Evolves

(* Insertions evolve the automaton. *)
LEMMA InsertEvolves ==
    ASSUME NEW A, IsAutomaton(A), NEW K \in SUBSET Key, NEW ins \in [K -> Weight]
    PROVE  /\ Evolves(A, Insert(A, ins))
           /\ \A k \in K : Leq(ins[k], W(Insert(A, ins), k))
<1> DEFINE B == Insert(A, ins)
<1>1. /\ B.trans = A.trans \cup K
      /\ B.marked = A.marked
      /\ \A k \in K : /\ W(B, k) = WeightAfter(A, k, ins[k])
                      /\ D(B, k) = DeltaAfter(A, k, ins[k])
      /\ \A k : k \notin K => SameAt(A, B, k)
  BY InsertFacts
<1> HIDE DEF B
<1>2. Evolves(A, B) /\ \A k \in K : Leq(ins[k], W(B, k))
  BY <1>1, AddedEvolves
<1>3. QED
  BY <1>2 DEF B

(* Updates evolve the automaton. *)
LEMMA UpdateEvolves ==
    ASSUME NEW A, IsAutomaton(A), NEW K \in SUBSET Key, NEW ins \in [K -> Weight]
    PROVE  /\ Evolves(A, Update(A, ins))
           /\ \A k \in K : Leq(ins[k], W(Update(A, ins), k))
<1> DEFINE B == Update(A, ins)
<1>1. /\ B.trans = A.trans \cup K
      /\ \A k : k \in B.marked <=> k \in A.marked \/ (k \in K /\ Modified(A, k, ins[k]))
      /\ \A k \in K : /\ W(B, k) = WeightAfter(A, k, ins[k])
                      /\ D(B, k) = DeltaAfter(A, k, ins[k])
      /\ \A k : k \notin K => SameAt(A, B, k)
  BY UpdateFacts
<1> HIDE DEF B
<1>2. A.marked \subseteq B.marked
  BY <1>1
<1>3. Evolves(A, B) /\ \A k \in K : Leq(ins[k], W(B, k))
  BY <1>1, <1>2, AddedEvolves
<1>4. QED
  BY <1>3 DEF B

(* Evolving is transitive. *)
LEMMA EvolvesTrans ==
    ASSUME NEW A, NEW B, NEW C, IsAutomaton(A), IsAutomaton(B), IsAutomaton(C),
           Evolves(A, B), Evolves(B, C)
    PROVE  Evolves(A, C)
<1>1. ASSUME NEW k \in Key
      PROVE  /\ Leq(W(A, k), W(C, k))
             /\ Leq(W(C, k), Combine(W(A, k), D(C, k)))
             /\ Leq(D(A, k), D(C, k))
  <2>1. /\ W(A, k) \in Weight /\ W(B, k) \in Weight /\ W(C, k) \in Weight
        /\ D(A, k) \in Weight /\ D(B, k) \in Weight /\ D(C, k) \in Weight
    BY WeightTyped
  <2>2. /\ Leq(W(A, k), W(B, k)) /\ Leq(W(B, k), W(C, k))
        /\ Leq(D(A, k), D(B, k)) /\ Leq(D(B, k), D(C, k))
        /\ Leq(W(B, k), Combine(W(A, k), D(B, k)))
        /\ Leq(W(C, k), Combine(W(B, k), D(C, k)))
    BY DEF Evolves
  <2>3. Leq(W(A, k), W(C, k)) /\ Leq(D(A, k), D(C, k))
    BY <2>1, <2>2, LeqTrans
  <2> DEFINE sum == Combine(W(A, k), D(C, k))
  <2>4. sum \in Weight /\ Leq(W(A, k), sum) /\ Leq(D(C, k), sum)
    BY <2>1, WeightClosed, CombineUpper
  <2> HIDE DEF sum
  <2>5. Leq(D(B, k), sum)
    BY <2>1, <2>2, <2>4, LeqTrans
  <2>6. Combine(W(A, k), D(B, k)) \in Weight /\ Combine(W(B, k), D(C, k)) \in Weight
    BY <2>1, WeightClosed
  <2>7. Leq(Combine(W(A, k), D(B, k)), sum)
    BY <2>1, <2>4, <2>5, CombineLeast
  <2>8. Leq(W(B, k), sum)
    BY <2>1, <2>2, <2>4, <2>6, <2>7, LeqTrans
  <2>9. Leq(Combine(W(B, k), D(C, k)), sum)
    BY <2>1, <2>4, <2>8, CombineLeast
  <2>10. Leq(W(C, k), sum)
    BY <2>1, <2>2, <2>4, <2>6, <2>9, LeqTrans
  <2>11. QED
    BY <2>3, <2>10 DEF sum
<1>2. QED
  BY <1>1 DEF Evolves

(* An update marks whatever it adds or increases. *)
LEMMA UpdateNoted ==
    ASSUME NEW A, IsAutomaton(A), NEW K \in SUBSET Key, NEW ins \in [K -> Weight]
    PROVE  Noted(A, Update(A, ins))
<1> DEFINE B == Update(A, ins)
<1>1. /\ B.trans = A.trans \cup K
      /\ \A k : k \in B.marked <=> k \in A.marked \/ (k \in K /\ Modified(A, k, ins[k]))
      /\ \A k \in K : D(B, k) = DeltaAfter(A, k, ins[k])
      /\ \A k : k \notin K => SameAt(A, B, k)
  BY UpdateFacts
<1> HIDE DEF B
<1>2. ASSUME NEW k \in B.trans, k \notin B.marked
      PROVE  k \in A.trans /\ k \notin A.marked /\ D(B, k) = D(A, k)
  <2>1. CASE k \in K
    BY <1>1, <1>2, <2>1 DEF Modified, D
  <2>2. CASE k \notin K
    BY <1>1, <1>2, <2>2 DEF SameAt
  <2>3. QED
    BY <2>1, <2>2
<1>3. QED
  BY <1>2 DEF Noted, B

(* Taking a transition off the worklist resets its delta and its mark only. *)
LEMMA TakeFacts ==
    ASSUME NEW A, IsAutomaton(A), NEW t \in A.trans
    PROVE  LET B == Take(A, t) IN
           /\ IsAutomaton(B)
           /\ B.trans = A.trans /\ B.marked = A.marked \ {t}
           /\ B.weight = A.weight
           /\ D(B, t) = Zero
           /\ \A k : W(B, k) = W(A, k)
           /\ \A k : k # t => D(B, k) = D(A, k)
<1> DEFINE dl == [A.delta EXCEPT ![t] = Zero]
           B == [trans |-> A.trans, weight |-> A.weight, delta |-> dl,
                 marked |-> A.marked \ {t}]
<1>1. Take(A, t) = B
  <2>1. A = [trans |-> A.trans, weight |-> A.weight,
             delta |-> A.delta, marked |-> A.marked]
    BY DEF IsAutomaton
  <2>2. Take(A, t) = [A EXCEPT !.marked = A.marked \ {t}, !.delta = dl]
    BY DEF Take
  <2> HIDE DEF dl
  <2>3. QED
    BY <2>1, <2>2
<1>2. dl \in [A.trans -> Weight] /\ dl[t] = Zero /\ \A k \in A.trans \ {t} : dl[k] = A.delta[k]
  BY WeightClosed DEF IsAutomaton
<1> HIDE DEF dl
<1>3. IsAutomaton(B)
  BY <1>2 DEF IsAutomaton
<1>4. /\ B.trans = A.trans /\ B.weight = A.weight /\ B.delta = dl
      /\ B.marked = A.marked \ {t}
  OBVIOUS
<1> HIDE DEF B
<1>5. D(B, t) = Zero /\ \A k : W(B, k) = W(A, k)
  <2>1. D(B, t) = Zero
    BY <1>2, <1>4 DEF D
  <2>2. \A k : W(B, k) = W(A, k)
    BY <1>4 DEF W
  <2>3. QED
    BY <2>1, <2>2
<1>6. \A k : k # t => D(B, k) = D(A, k)
  BY <1>2, <1>4 DEF D
<1>7. QED
  BY <1>1, <1>3, <1>4, <1>5, <1>6
-----------------------------------------------------------------------------
(***************************************************************************)
(* An automaton S that gives each of its transitions an ideal of weights,  *)
(* and an automaton A all of whose weights and deltas are in those ideals. *)
(***************************************************************************)
IsBounds(S) == /\ S.trans \subseteq Key
               /\ \A k \in S.trans : IsIdeal(S.below[k])

Inside(A, S) ==
    /\ A.trans \subseteq S.trans
    /\ \A k \in A.trans : A.weight[k] \in S.below[k] /\ A.delta[k] \in S.below[k]

(* The weights below one weight are an ideal. *)
LEMMA BelowIdeal ==
    ASSUME NEW w \in Weight
    PROVE  IsIdeal({x \in Weight : Leq(x, w)})
<1> DEFINE I == {x \in Weight : Leq(x, w)}
<1>1. I \subseteq Weight /\ Zero \in I
  BY LeqBasics, WeightClosed
<1>2. ASSUME NEW a \in I, NEW b \in I PROVE Combine(a, b) \in I
  BY CombineLeast, WeightClosed
<1>3. ASSUME NEW a \in I, NEW b \in Weight, Leq(b, a) PROVE b \in I
  BY <1>3, LeqTrans
<1> HIDE DEF I
<1>4. QED
  BY <1>1, <1>2, <1>3 DEF IsIdeal, I

(* An update by weights of the ideals stays inside them. *)
LEMMA UpdateInside ==
    ASSUME NEW A, IsAutomaton(A), NEW K \in SUBSET Key, NEW ins \in [K -> Weight],
           NEW S, IsBounds(S), Inside(A, S),
           K \subseteq S.trans, \A k \in K : ins[k] \in S.below[k]
    PROVE  Inside(Insert(A, ins), S) /\ Inside(Update(A, ins), S)
<1>1. ASSUME NEW B, IsAutomaton(B), B.trans = A.trans \cup K,
             \A k \in K : /\ W(B, k) = WeightAfter(A, k, ins[k])
                          /\ D(B, k) = DeltaAfter(A, k, ins[k]),
             \A k : k \notin K => SameAt(A, B, k)
      PROVE  Inside(B, S)
  <2>1. B.trans \subseteq S.trans
    BY <1>1 DEF Inside
  <2> SUFFICES ASSUME NEW k \in B.trans
               PROVE  B.weight[k] \in S.below[k] /\ B.delta[k] \in S.below[k]
    BY <2>1 DEF Inside
  <2>2. B.weight[k] = W(B, k) /\ B.delta[k] = D(B, k)
    BY DEF W, D
  <2> DEFINE I == S.below[k]
  <2>3. IsIdeal(I)
    BY <2>1 DEF IsBounds
  <2>4. CASE k \notin K
    <3>1. k \in A.trans /\ A.weight[k] = W(B, k) /\ A.delta[k] = D(B, k)
      BY <1>1, <2>4 DEF SameAt, W, D
    <3>2. QED
      BY <2>2, <3>1 DEF Inside
  <2>5. CASE k \in K
    <3>1. /\ ins[k] \in Weight /\ ins[k] \in I
          /\ W(A, k) \in Weight /\ D(A, k) \in Weight
      BY <2>5, WeightTyped
    <3>2. W(A, k) \in I /\ D(A, k) \in I
      BY <2>3 DEF W, D, Inside, IsIdeal
    <3> HIDE DEF I
    <3>3. WeightAfter(A, k, ins[k]) \in I /\ Combine(W(A, k), ins[k]) \in I
      BY <2>3, <3>1, <3>2 DEF WeightAfter, IsIdeal
    <3>4. CASE k \in A.trans
      <4>1. /\ A.weight[k] = W(A, k) /\ A.delta[k] = D(A, k)
            /\ Diff(ins[k], W(A, k)) \in Weight
        BY <3>1, <3>4, WeightClosed DEF W, D
      <4>2. Leq(Diff(ins[k], W(A, k)), Combine(W(A, k), ins[k]))
        BY <3>1, DiffCovers
      <4>3. Diff(ins[k], W(A, k)) \in I
        BY <2>3, <3>3, <4>1, <4>2 DEF IsIdeal
      <4>4. DeltaAfter(A, k, ins[k]) \in I
        BY <2>3, <3>2, <3>4, <4>1, <4>3 DEF DeltaAfter, IsIdeal
      <4>5. QED
        BY <1>1, <2>2, <2>5, <3>3, <4>4 DEF I
    <3>5. CASE k \notin A.trans
      BY <1>1, <2>2, <2>5, <3>1, <3>3, <3>5 DEF DeltaAfter, I
    <3>6. QED
      BY <3>4, <3>5
  <2>6. QED
    BY <2>4, <2>5
<1>2. Inside(Insert(A, ins), S)
  <2> DEFINE B == Insert(A, ins)
  <2>1. /\ IsAutomaton(B) /\ B.trans = A.trans \cup K
        /\ \A k \in K : /\ W(B, k) = WeightAfter(A, k, ins[k])
                        /\ D(B, k) = DeltaAfter(A, k, ins[k])
        /\ \A k : k \notin K => SameAt(A, B, k)
    BY InsertFacts
  <2> HIDE DEF B
  <2>2. Inside(B, S)
    BY <1>1, <2>1
  <2>3. QED
    BY <2>2 DEF B
<1>3. Inside(Update(A, ins), S)
  <2> DEFINE B == Update(A, ins)
  <2>1. /\ IsAutomaton(B) /\ B.trans = A.trans \cup K
        /\ \A k \in K : /\ W(B, k) = WeightAfter(A, k, ins[k])
                        /\ D(B, k) = DeltaAfter(A, k, ins[k])
        /\ \A k : k \notin K => SameAt(A, B, k)
    BY UpdateFacts
  <2> HIDE DEF B
  <2>2. Inside(B, S)
    BY <1>1, <2>1
  <2>3. QED
    BY <2>2 DEF B
<1>4. QED
  BY <1>2, <1>3

(* So does taking a transition off the worklist. *)
LEMMA TakeInside ==
    ASSUME NEW A, IsAutomaton(A), NEW t \in A.trans, NEW S, IsBounds(S), Inside(A, S)
    PROVE  Inside(Take(A, t), S) /\ A.delta[t] \in S.below[t]
<1> DEFINE B == Take(A, t)
<1>1. /\ B.trans = A.trans /\ B.weight = A.weight
      /\ D(B, t) = Zero /\ \A k : k # t => D(B, k) = D(A, k)
  BY TakeFacts
<1> HIDE DEF B
<1>2. ASSUME NEW k \in A.trans PROVE B.delta[k] \in S.below[k]
  <2>1. B.delta[k] = IF k = t THEN Zero ELSE A.delta[k]
    BY <1>1 DEF D
  <2>2. Zero \in S.below[k]
    BY DEF IsBounds, IsIdeal, Inside
  <2>3. QED
    BY <2>1, <2>2 DEF Inside
<1>3. QED
  BY <1>1, <1>2 DEF Inside, B
-----------------------------------------------------------------------------
(***************************************************************************)
(* An automaton S of weights, and an automaton A none of whose             *)
(* transitions, weights or deltas is above it: the bounds are the weights  *)
(* below those of S.                                                       *)
(***************************************************************************)
IsWeighted(S) == S.trans \subseteq Key /\ S.weight \in [S.trans -> Weight]

Under(A, S) ==
    /\ A.trans \subseteq S.trans
    /\ \A k \in A.trans : Leq(A.weight[k], S.weight[k]) /\ Leq(A.delta[k], S.weight[k])

BelowOf(S) == [trans |-> S.trans,
               below |-> [k \in S.trans |-> {x \in Weight : Leq(x, S.weight[k])}]]

LEMMA UnderInside ==
    ASSUME NEW S, IsWeighted(S)
    PROVE  /\ BelowOf(S).trans = S.trans /\ IsBounds(BelowOf(S))
           /\ \A k \in S.trans : \A x : x \in BelowOf(S).below[k] <=> x \in Weight /\ Leq(x, S.weight[k])
           /\ \A A : IsAutomaton(A) => (Under(A, S) <=> Inside(A, BelowOf(S)))
<1>1. /\ BelowOf(S).trans = S.trans
      /\ \A k \in S.trans : BelowOf(S).below[k] = {x \in Weight : Leq(x, S.weight[k])}
  BY DEF BelowOf
<1>2. \A k \in S.trans : S.weight[k] \in Weight
  BY DEF IsWeighted
<1>3. IsBounds(BelowOf(S))
  <2>1. \A k \in S.trans : IsIdeal(BelowOf(S).below[k])
    BY <1>1, <1>2, BelowIdeal
  <2>2. QED
    BY <1>1, <2>1 DEF IsBounds, IsWeighted
<1>4. ASSUME NEW A, IsAutomaton(A) PROVE Under(A, S) <=> Inside(A, BelowOf(S))
  <2>1. \A k \in A.trans : A.weight[k] \in Weight /\ A.delta[k] \in Weight
    BY <1>4 DEF IsAutomaton
  <2>2. QED
    BY <1>1, <2>1 DEF Under, Inside
<1>5. QED
  BY <1>1, <1>3, <1>4

(* An update by weights that are not above S leaves the automaton under S. *)
LEMMA UpdateUnder ==
    ASSUME NEW A, IsAutomaton(A), NEW K \in SUBSET Key, NEW ins \in [K -> Weight],
           NEW S, IsWeighted(S), Under(A, S),
           K \subseteq S.trans, \A k \in K : Leq(ins[k], S.weight[k])
    PROVE  Under(Insert(A, ins), S) /\ Under(Update(A, ins), S)
<1> DEFINE B == BelowOf(S)
<1>1. /\ IsBounds(B) /\ Inside(A, B) /\ K \subseteq B.trans
      /\ \A k \in K : ins[k] \in B.below[k]
  BY UnderInside
<1> HIDE DEF B
<1>2. Inside(Insert(A, ins), B) /\ Inside(Update(A, ins), B)
  BY <1>1, UpdateInside
<1>3. IsAutomaton(Insert(A, ins)) /\ IsAutomaton(Update(A, ins))
  BY InsertFacts, UpdateFacts
<1>4. QED
  BY <1>2, <1>3, UnderInside DEF B

(* Nor is one above S when a transition has been taken off the worklist. *)
LEMMA TakeUnder ==
    ASSUME NEW A, IsAutomaton(A), NEW t \in A.trans, NEW S, IsWeighted(S), Under(A, S)
    PROVE  Under(Take(A, t), S) /\ Leq(A.delta[t], S.weight[t])
<1> DEFINE B == BelowOf(S)
<1>1. IsBounds(B) /\ Inside(A, B)
  BY UnderInside
<1> HIDE DEF B
<1>2. Inside(Take(A, t), B)
  BY <1>1, TakeInside
<1>3. IsAutomaton(Take(A, t))
  BY TakeFacts
<1>4. Leq(A.delta[t], S.weight[t])
  BY DEF Under
<1>5. QED
  BY <1>2, <1>3, <1>4, UnderInside DEF B
-----------------------------------------------------------------------------
(* Words: what a symbol in front of one makes, and when two are the same.  *)
LEMMA OntoWord ==
    /\ <<>> \in Word
    /\ \A y \in Symbol, u \in Word : Onto(y, u) \in Word
    /\ \A u \in Word : Onto(EPS, u) = u
    /\ \A y \in Stack, u \in Word : Onto(y, u) # <<>>
    /\ \A y \in Stack, z \in Stack, u \in Word, x \in Word :
          Onto(y, u) = Onto(z, x) => y = z /\ u = x
<1>1. EPS \notin Stack /\ Symbol = Stack \cup {EPS}
  BY WfaAssumption DEF Symbol
<1>2. ASSUME NEW y \in Stack, NEW u \in Word
      PROVE  /\ Onto(y, u) \in Word /\ Onto(y, u) # <<>>
             /\ Head(Onto(y, u)) = y /\ Tail(Onto(y, u)) = u
  BY <1>1 DEF Word, Onto
<1>3. <<>> \in Word
  BY DEF Word
<1>4. \A u \in Word : Onto(EPS, u) = u
  BY DEF Onto
<1>5. \A y \in Symbol, u \in Word : Onto(y, u) \in Word
  BY <1>1, <1>2, <1>4
<1>6. ASSUME NEW y \in Stack, NEW z \in Stack, NEW u \in Word, NEW x \in Word,
             Onto(y, u) = Onto(z, x)
      PROVE  y = z /\ u = x
  <2>1. Head(Onto(y, u)) = y /\ Tail(Onto(y, u)) = u
    BY <1>2
  <2>2. Head(Onto(z, x)) = z /\ Tail(Onto(z, x)) = x
    BY <1>2
  <2>3. QED
    BY <1>6, <2>1, <2>2, Zenon
<1>7. \A y \in Stack, u \in Word : Onto(y, u) # <<>>
  BY <1>2
<1>8. \A y \in Stack, z \in Stack, u \in Word, x \in Word :
          Onto(y, u) = Onto(z, x) => y = z /\ u = x
  BY <1>6
<1>9. QED
  BY ONLY <1>3, <1>4, <1>5, <1>7, <1>8, Zenon

(* What is extended along a path is a weight. *)
LEMMA AlongWeight ==
    ASSUME NEW order, NEW w \in Weight, NEW v \in Weight
    PROVE  Along(order, w, v) \in Weight
BY WeightClosed DEF Along

(* Heavier transitions and heavier paths give heavier paths. *)
LEMMA AlongMono ==
    ASSUME NEW order, NEW a \in Weight, NEW b \in Weight, NEW c \in Weight, NEW d \in Weight,
           Leq(a, b), Leq(c, d)
    PROVE  /\ Along(order, a, c) \in Weight /\ Along(order, b, d) \in Weight
           /\ Leq(Along(order, a, c), Along(order, b, d))
<1>1. /\ Extend(a, c) \in Weight /\ Extend(b, c) \in Weight /\ Extend(b, d) \in Weight
      /\ Extend(c, a) \in Weight /\ Extend(c, b) \in Weight /\ Extend(d, b) \in Weight
  BY WeightClosed
<1>2. /\ Leq(Extend(a, c), Extend(b, c)) /\ Leq(Extend(b, c), Extend(b, d))
      /\ Leq(Extend(c, a), Extend(c, b)) /\ Leq(Extend(c, b), Extend(d, b))
  BY ExtendMono
<1>3. Leq(Extend(a, c), Extend(b, d)) /\ Leq(Extend(c, a), Extend(d, b))
  BY <1>1, <1>2, LeqTrans
<1>4. QED
  BY <1>1, <1>3 DEF Along

(* An automaton to read: its transitions and their weights. *)
Readable(A) == A.trans \subseteq Key /\ A.weight \in [A.trans -> Weight]

(* A final state reads the empty word, a transition adds its symbol. *)
LEMMA ReadFinal ==
    ASSUME NEW A, NEW final \in SUBSET State, NEW order, NEW q \in final
    PROVE  One \in ReadWeights(A, final, order, q, <<>>)
BY WeightClosed DEF ReadWeights, ReadingClosed

LEMMA ReadStep ==
    ASSUME NEW A, Readable(A), NEW final \in SUBSET State, NEW order,
           NEW k \in A.trans, NEW u \in Word, NEW v \in ReadWeights(A, final, order, k.to, u)
    PROVE  Along(order, A.weight[k], v) \in ReadWeights(A, final, order, k.from, Onto(k.stk, u))
<1>1. v \in Weight /\ A.weight[k] \in Weight
  BY DEF ReadWeights, Readable
<1>2. Along(order, A.weight[k], v) \in Weight
  BY <1>1, AlongWeight
<1>3. ASSUME NEW X \in [State -> [Word -> SUBSET Weight]], ReadingClosed(A, final, order, X)
      PROVE  Along(order, A.weight[k], v) \in X[k.from][Onto(k.stk, u)]
  <2>1. v \in X[k.to][u]
    BY <1>3 DEF ReadWeights
  <2>2. QED
    BY <1>3, <2>1 DEF ReadingClosed
<1>4. QED
  BY <1>2, <1>3 DEF ReadWeights

(* What every step of a reading keeps holds of every reading. *)
LEMMA ReadLeast ==
    ASSUME NEW A, NEW final, NEW order, NEW X \in [State -> [Word -> SUBSET Weight]],
           ReadingClosed(A, final, order, X), NEW q, NEW u
    PROVE  ReadWeights(A, final, order, q, u) \subseteq X[q][u]
BY DEF ReadWeights

(* A reading is that of a final state or starts with a transition. *)
LEMMA ReadFirst ==
    ASSUME NEW A, Readable(A), NEW final \in SUBSET State, NEW order,
           NEW q \in State, NEW u \in Word, NEW v \in ReadWeights(A, final, order, q, u)
    PROVE  \/ q \in final /\ u = <<>> /\ v = One
           \/ \E k \in A.trans, x \in Word : \E w \in ReadWeights(A, final, order, k.to, x) :
                 k.from = q /\ u = Onto(k.stk, x) /\ v = Along(order, A.weight[k], w)
<1> DEFINE R(s, y) == ReadWeights(A, final, order, s, y)
           Starts(s, y, w) ==
              \/ s \in final /\ y = <<>> /\ w = One
              \/ \E k \in A.trans, x \in Word : \E z \in R(k.to, x) :
                    k.from = s /\ y = Onto(k.stk, x) /\ w = Along(order, A.weight[k], z)
           X == [s \in State |-> [y \in Word |-> {w \in R(s, y) : Starts(s, y, w)}]]
<1>1. \A s \in State, y \in Word : X[s][y] = {w \in R(s, y) : Starts(s, y, w)}
  OBVIOUS
<1>2. \A s, y : R(s, y) \subseteq Weight
  BY DEF ReadWeights
<1>3. X \in [State -> [Word -> SUBSET Weight]]
  BY <1>2
<1>4. \A k \in A.trans : k.from \in State /\ k.to \in State /\ k.stk \in Symbol
  BY DEF Readable, Key
<1>5. \A s \in final : One \in R(s, <<>>)
  BY ReadFinal
<1>6. \A k \in A.trans, x \in Word : \A z \in R(k.to, x) :
          Along(order, A.weight[k], z) \in R(k.from, Onto(k.stk, x))
  BY ReadStep
<1> HIDE DEF X, R
<1>7. ASSUME NEW s \in final PROVE One \in X[s][<<>>]
  <2>1. s \in State /\ <<>> \in Word /\ Starts(s, <<>>, One)
    BY OntoWord
  <2> HIDE DEF Starts
  <2>2. QED
    BY <1>1, <1>5, <2>1
<1>8. ASSUME NEW k \in A.trans, NEW x \in Word, NEW z \in X[k.to][x]
      PROVE  Along(order, A.weight[k], z) \in X[k.from][Onto(k.stk, x)]
  <2>1. z \in R(k.to, x)
    BY <1>1, <1>4, <1>8
  <2>2. Onto(k.stk, x) \in Word
    BY <1>4, OntoWord
  <2>3. Starts(k.from, Onto(k.stk, x), Along(order, A.weight[k], z))
    BY <2>1
  <2>4. Along(order, A.weight[k], z) \in R(k.from, Onto(k.stk, x))
    BY <1>6, <2>1
  <2> HIDE DEF Starts
  <2>5. QED
    BY <1>1, <1>4, <2>2, <2>3, <2>4
<1>9. ReadingClosed(A, final, order, X)
  BY <1>7, <1>8 DEF ReadingClosed
<1>10. v \in X[q][u]
  BY <1>3, <1>9, ReadLeast
<1>11. Starts(q, u, v)
  BY <1>1, <1>10
<1>12. QED
  BY <1>11 DEF R

(* The weights that lead into I when w follows them, or goes before them.  *)
Before(w, I) == {v \in Weight : Extend(v, w) \in I}
After(w, I) == {v \in Weight : Extend(w, v) \in I}

LEMMA ExtendIdeal ==
    ASSUME NEW w \in Weight, NEW I, IsIdeal(I)
    PROVE  IsIdeal(Before(w, I)) /\ IsIdeal(After(w, I))
<1> DEFINE L == {v \in Weight : Extend(v, w) \in I}
           R == {v \in Weight : Extend(w, v) \in I}
<1>1. Zero \in L /\ Zero \in R /\ L \subseteq Weight /\ R \subseteq Weight
  BY WeightClosed, ExtendLaws DEF IsIdeal
<1>2. ASSUME NEW a \in L, NEW b \in L PROVE Combine(a, b) \in L
  <2>1. Extend(Combine(a, b), w) = Combine(Extend(a, w), Extend(b, w))
    BY Distributes
  <2>2. QED
    BY <2>1, WeightClosed DEF IsIdeal
<1>3. ASSUME NEW a \in R, NEW b \in R PROVE Combine(a, b) \in R
  <2>1. Extend(w, Combine(a, b)) = Combine(Extend(w, a), Extend(w, b))
    BY Distributes
  <2>2. QED
    BY <2>1, WeightClosed DEF IsIdeal
<1>4. ASSUME NEW a \in L, NEW b \in Weight, Leq(b, a) PROVE b \in L
  <2>1. Leq(Extend(b, w), Extend(a, w)) /\ Extend(b, w) \in Weight
    BY <1>4, ExtendMono, WeightClosed
  <2>2. QED
    BY <2>1 DEF IsIdeal
<1>5. ASSUME NEW a \in R, NEW b \in Weight, Leq(b, a) PROVE b \in R
  <2>1. Leq(Extend(w, b), Extend(w, a)) /\ Extend(w, b) \in Weight
    BY <1>5, ExtendMono, WeightClosed
  <2>2. QED
    BY <2>1 DEF IsIdeal
<1> HIDE DEF L, R
<1>6. IsIdeal(L) /\ IsIdeal(R)
  BY <1>1, <1>2, <1>3, <1>4, <1>5 DEF IsIdeal
<1>7. QED
  BY <1>6 DEF L, R, Before, After

(* Combinations are an ideal, the smallest that holds what they combine. *)
LEMMA CombinationsIdeal ==
    ASSUME NEW G \in SUBSET Weight
    PROVE  /\ IsIdeal(Combinations(G)) /\ G \subseteq Combinations(G)
           /\ \A I : IsIdeal(I) /\ G \subseteq I => Combinations(G) \subseteq I
<1>1. G \subseteq Combinations(G) /\ Combinations(G) \subseteq Weight
  BY DEF Combinations
<1>2. \A I : IsIdeal(I) /\ G \subseteq I => Combinations(G) \subseteq I
  BY DEF Combinations, IsIdeal
<1>3. Zero \in Combinations(G)
  BY WeightClosed DEF Combinations, IsIdeal
<1>4. ASSUME NEW a \in Combinations(G), NEW b \in Combinations(G)
      PROVE  Combine(a, b) \in Combinations(G)
  BY <1>1, WeightClosed DEF Combinations, IsIdeal
<1>5. ASSUME NEW a \in Combinations(G), NEW b \in Weight, Leq(b, a)
      PROVE  b \in Combinations(G)
  BY <1>5 DEF Combinations, IsIdeal
<1>6. QED
  BY <1>1, <1>2, <1>3, <1>4, <1>5 DEF IsIdeal

(* Combinations of more are more. *)
LEMMA CombinationsMono ==
    ASSUME NEW G \in SUBSET Weight, NEW H \in SUBSET Weight, G \subseteq H
    PROVE  Combinations(G) \subseteq Combinations(H)
BY CombinationsIdeal

(* Answers have the same upper bounds as what they answer. *)
LEMMA AnswerBounds ==
    ASSUME NEW G \in SUBSET Weight, NEW H \in SUBSET Weight, Answer(G, H), NEW x \in Weight
    PROVE  (\A v \in G : Leq(v, x)) <=> (\A w \in H : Leq(w, x))
<1>1. ASSUME \A v \in G : Leq(v, x), NEW w \in H PROVE Leq(w, x)
  <2>1. PICK v \in G : Leq(w, v)
    BY DEF Answer
  <2>2. QED
    BY <1>1, <2>1, LeqTrans
<1>2. ASSUME \A w \in H : Leq(w, x), NEW v \in G PROVE Leq(v, x)
  <2> DEFINE I == {y \in Weight : Leq(y, x)}
  <2>1. IsIdeal(I)
    BY BelowIdeal, Zenon
  <2>2. \A w \in H : w \in I
    BY <1>2
  <2> HIDE DEF I
  <2>3. v \in I
    <3>1. v \in Combinations(H)
      BY DEF Answer
    <3>2. Combinations(H) \subseteq I
      BY <2>1, <2>2, CombinationsIdeal
    <3>3. QED
      BY <3>1, <3>2
  <2>4. QED
    BY <2>3 DEF I
<1>3. QED
  BY <1>1, <1>2

(* The words around a rule. *)
LEMMA RuleWords ==
    ASSUME NEW rs \in RuleSet, NEW r \in rs, NEW u \in Word
    PROVE  /\ Source(r, u) \in Word
           /\ Onto(r.stk1, u) \in Word /\ Onto(r.stk2, u) \in Word
           /\ Result(r, u) \in Word
           /\ ~ IsPush(r) => Result(r, u) = Onto(r.stk1, u)
<1>1. /\ r.stk \in Stack /\ r.stk \in Symbol /\ r.stk1 \in Symbol /\ r.stk2 \in Symbol
      /\ r.stk1 = EPS => r.stk2 = EPS
  BY DEF RuleSet, Rule, Symbol
<1>2. Onto(r.stk, u) \in Word
  BY <1>1, OntoWord
<1>3. Onto(r.stk1, u) \in Word /\ Onto(r.stk2, u) \in Word
  BY <1>1, OntoWord
<1>4. Result(r, u) \in Word
  BY <1>1, <1>3, OntoWord DEF Result
<1>5. ASSUME ~ IsPush(r) PROVE Result(r, u) = Onto(r.stk1, u)
  BY <1>5, OntoWord DEF Result, IsPush
<1>6. QED
  BY <1>2, <1>3, <1>4, <1>5 DEF Source

(* What covers an automaton covers its readings. *)
LEMMA CoveredReadings ==
    ASSUME NEW A, Readable(A), NEW S, Readable(S), Covers(S, A),
           NEW F \in SUBSET State, NEW order,
           NEW q \in State, NEW u \in Word, NEW v \in ReadWeights(A, F, order, q, u)
    PROVE  \E w \in ReadWeights(S, F, order, q, u) : Leq(v, w)
<1> DEFINE R(s, x) == ReadWeights(S, F, order, s, x)
           X == [s \in State |-> [x \in Word |-> {a \in Weight : \E b \in R(s, x) : Leq(a, b)}]]
<1>1. \A s \in State, x \in Word : X[s][x] = {a \in Weight : \E b \in R(s, x) : Leq(a, b)}
  OBVIOUS
<1>2. X \in [State -> [Word -> SUBSET Weight]]
  OBVIOUS
<1>3. \A s, x : R(s, x) \subseteq Weight
  BY DEF ReadWeights
<1>4. \A s \in F : One \in R(s, <<>>)
  BY ReadFinal
<1>5. \A k \in S.trans, x \in Word : \A b \in R(k.to, x) :
          Along(order, S.weight[k], b) \in R(k.from, Onto(k.stk, x))
  BY ReadStep
<1> HIDE DEF X, R
<1>6. ASSUME NEW s \in F PROVE One \in X[s][<<>>]
  <2>1. s \in State /\ <<>> \in Word /\ One \in Weight /\ Leq(One, One)
    BY OntoWord, LeqBasics, WeightClosed
  <2>2. QED
    BY <1>1, <1>4, <2>1
<1>7. ASSUME NEW k \in A.trans, NEW x \in Word, NEW a \in X[k.to][x]
      PROVE  Along(order, A.weight[k], a) \in X[k.from][Onto(k.stk, x)]
  <2>1. /\ k.from \in State /\ k.to \in State /\ Onto(k.stk, x) \in Word /\ k \in S.trans
        /\ A.weight[k] \in Weight /\ S.weight[k] \in Weight /\ Leq(A.weight[k], S.weight[k])
    BY OntoWord DEF Readable, Key, Covers
  <2>2. PICK b \in R(k.to, x) : a \in Weight /\ Leq(a, b)
    BY <1>1, <1>7, <2>1
  <2>3. b \in Weight /\ Along(order, S.weight[k], b) \in R(k.from, Onto(k.stk, x))
    BY <1>3, <1>5, <2>1
  <2>4. /\ Along(order, A.weight[k], a) \in Weight
        /\ Leq(Along(order, A.weight[k], a), Along(order, S.weight[k], b))
    BY <2>1, <2>2, <2>3, AlongMono
  <2>5. QED
    BY <1>1, <2>1, <2>3, <2>4
<1>8. ReadingClosed(A, F, order, X)
  BY <1>6, <1>7 DEF ReadingClosed
<1>9. v \in X[q][u]
  BY <1>2, <1>8, ReadLeast
<1>10. QED
  BY <1>1, <1>9 DEF R
=============================================================================
