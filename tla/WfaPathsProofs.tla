--------------------------- MODULE WfaPathsProofs ---------------------------
(***************************************************************************)
(* path_summary_iterative_original and epsilonClose_Mohri find the least   *)
(* solution of their equations, for any automaton, weight domain and       *)
(* order of the worklist, however the automaton grew between the queries.  *)
(*                                                                         *)
(* Between two steps, what a transition owes the state it tells is covered *)
(* by what that state has and by what is still on its way: the delta of    *)
(* the state behind it, and, while it is in todo, the news being told.     *)
(***************************************************************************)
EXTENDS WfaPaths, TLAPS

(***************************************************************************)
(* The order of weights, as in WfaTheorems, which speaks of another kind   *)
(* of automaton.                                                           *)
(***************************************************************************)

(* The order is reflexive and Zero is its bottom. *)
LEMMA LeqBasics ==
    \A a \in Weight : Leq(a, a) /\ Leq(Zero, a)
BY CombineLaws DEF Leq

(* The order is transitive. *)
LEMMA LeqTrans ==
    ASSUME NEW a \in Weight, NEW b \in Weight, NEW c \in Weight,
           Leq(a, b), Leq(b, c)
    PROVE  Leq(a, c)
<1>1. Combine(Combine(c, b), a) = Combine(c, Combine(b, a))
  BY CombineLaws
<1>2. Combine(b, a) = b /\ Combine(c, b) = c
  BY DEF Leq
<1>3. QED
  BY <1>1, <1>2 DEF Leq

(* Combine is above both of its operands. *)
LEMMA CombineUpper ==
    ASSUME NEW a \in Weight, NEW b \in Weight
    PROVE  Leq(a, Combine(a, b)) /\ Leq(b, Combine(a, b))
<1>1. Combine(Combine(a, b), b) = Combine(a, Combine(b, b))
  BY CombineLaws
<1>2. Combine(b, b) = b /\ Combine(a, a) = a /\ Combine(a, b) = Combine(b, a)
  BY CombineLaws
<1>3. Combine(Combine(b, a), a) = Combine(b, Combine(a, a))
  BY CombineLaws
<1>4. QED
  BY <1>1, <1>2, <1>3 DEF Leq

(* Combine is below whatever is above both of its operands. *)
LEMMA CombineLeast ==
    ASSUME NEW a \in Weight, NEW b \in Weight, NEW c \in Weight,
           Leq(a, c), Leq(b, c)
    PROVE  Leq(Combine(a, b), c)
<1>1. Combine(Combine(c, a), b) = Combine(c, Combine(a, b))
  BY CombineLaws
<1>2. QED
  BY <1>1 DEF Leq

(* Combine is monotone in both operands. *)
LEMMA CombineMono ==
    ASSUME NEW a \in Weight, NEW b \in Weight, NEW c \in Weight, NEW d \in Weight,
           Leq(a, c), Leq(b, d)
    PROVE  Leq(Combine(a, b), Combine(c, d))
<1>1. Combine(c, d) \in Weight
  BY WeightClosed
<1>2. Leq(c, Combine(c, d)) /\ Leq(d, Combine(c, d))
  BY CombineUpper
<1>3. Leq(a, Combine(c, d))
  BY <1>1, <1>2, LeqTrans
<1>4. Leq(b, Combine(c, d))
  BY <1>1, <1>2, LeqTrans
<1>5. QED
  BY <1>1, <1>3, <1>4, CombineLeast

(* Extend is monotone in both operands. *)
LEMMA ExtendMono ==
    ASSUME NEW a \in Weight, NEW b \in Weight, NEW c \in Weight, Leq(a, b)
    PROVE  Leq(Extend(a, c), Extend(b, c)) /\ Leq(Extend(c, a), Extend(c, b))
<1>1. Combine(b, a) = b
  BY DEF Leq
<1>2. Extend(Combine(b, a), c) = Combine(Extend(b, c), Extend(a, c))
  BY Distributes
<1>3. Extend(c, Combine(b, a)) = Combine(Extend(c, b), Extend(c, a))
  BY Distributes
<1>4. QED
  BY <1>1, <1>2, <1>3 DEF Leq

(***************************************************************************)
(* The old weight combined with the difference is above both the old and   *)
(* the new weight, and the difference is below their combination.          *)
(***************************************************************************)
LEMMA DiffCovers ==
    ASSUME NEW w \in Weight, NEW se \in Weight
    PROVE  /\ Leq(w, Combine(se, Diff(w, se)))
           /\ Leq(Diff(w, se), Combine(se, w))
<1>1. Diff(w, se) \in Weight
  BY WeightClosed
<1>2. Combine(se, Diff(w, se)) = Combine(se, w)
  BY DiffContract
<1>3. Leq(w, Combine(se, w))
  BY CombineUpper
<1>4. Leq(Diff(w, se), Combine(se, Diff(w, se)))
  BY <1>1, CombineUpper
<1>5. QED
  BY <1>2, <1>3, <1>4
-----------------------------------------------------------------------------
(* What is on its way through t to the state t.from. *)
Owed(t) == Combine(Through(t, delta[t.to]),
                   IF t \in todo THEN Through(t, news) ELSE Zero)

Summing ==
    pc = "summary" =>
        /\ \A t \in todo : t.to = cur
        /\ \A q \in Node \ open : delta[q] = Zero
        /\ \A f \in Final : Leq(One, total[f])
        /\ \A t \in trans : Leq(Through(t, total[t.to]), Combine(total[t.from], Owed(t)))

SummaryBelow ==
    pc = "summary" =>
        \A V \in [Node -> Weight] : Solves(V) =>
            /\ \A q \in Node : Leq(total[q], V[q]) /\ Leq(delta[q], V[q])
            /\ todo # {} => Leq(news, V[cur])

(* What is on its way through t to the state t.to. *)
OwedAhead(t) == Combine(Ahead(t, rest[t.from]),
                        IF t \in todo THEN Ahead(t, news) ELSE Zero)

Closing ==
    pc = "close" =>
        /\ \A t \in todo : t.from = cur /\ t.stk = EPS
        /\ \A q \in Node \ queue : rest[q] = Zero
        /\ Leq(One, dist[source])
        /\ \A t \in trans : t.stk = EPS =>
              Leq(Ahead(t, dist[t.from]), Combine(dist[t.to], OwedAhead(t)))

ClosureBelow ==
    pc = "close" =>
        \A V \in [Node -> Weight] : Closes(V) =>
            /\ \A q \in Node : Leq(dist[q], V[q]) /\ Leq(rest[q], V[q])
            /\ todo # {} => Leq(news, V[cur])

Idle == pc \notin {"summary", "close"} => todo = {}

IInv == TypeOK /\ Idle /\ Summing /\ SummaryBelow /\ Closing /\ ClosureBelow
-----------------------------------------------------------------------------
(* What is below a weight is below any combination with it. *)
LEMMA Weaken ==
    ASSUME NEW a \in Weight, NEW b \in Weight, NEW c \in Weight, Leq(a, b)
    PROVE  Leq(a, Combine(b, c)) /\ Leq(a, Combine(c, b))
<1>1. Combine(b, c) \in Weight /\ Combine(c, b) \in Weight
  BY WeightClosed
<1>2. Leq(b, Combine(b, c)) /\ Leq(b, Combine(c, b))
  BY CombineUpper
<1> QED  BY <1>1, <1>2, LeqTrans

(***************************************************************************)
(* How a debt is carried over when the state grows: a2, d2, n2 and b2 are  *)
(* the new weights of what goes through, of what is pending, of the news   *)
(* and of the state that is told.                                          *)
(***************************************************************************)
LEMMA Carry ==
    ASSUME NEW a \in Weight, NEW a2 \in Weight, NEW d \in Weight, NEW d2 \in Weight,
           NEW n \in Weight, NEW n2 \in Weight, NEW b \in Weight, NEW b2 \in Weight,
           Leq(a2, Combine(a, d2)), Leq(d, d2), Leq(b, b2),
           Leq(n, Combine(b2, n2)),
           Leq(a, Combine(b, Combine(d, n)))
    PROVE  Leq(a2, Combine(b2, Combine(d2, n2)))
<1> DEFINE x == Combine(b2, Combine(d2, n2))
<1>1. /\ Combine(d2, n2) \in Weight /\ x \in Weight
      /\ Combine(b2, n2) \in Weight /\ Combine(d, n) \in Weight
      /\ Combine(b, Combine(d, n)) \in Weight /\ Combine(a, d2) \in Weight
  BY WeightClosed
<1>2. Leq(d2, x) /\ Leq(n2, x) /\ Leq(b2, x)
  <2>1. Leq(d2, Combine(d2, n2)) /\ Leq(n2, Combine(d2, n2))
    BY CombineUpper
  <2>2. Leq(Combine(d2, n2), x) /\ Leq(b2, x)
    BY <1>1, CombineUpper
  <2> QED  BY <1>1, <2>1, <2>2, LeqTrans
<1> HIDE DEF x
<1>3. Leq(b, x) /\ Leq(d, x)
  BY <1>1, <1>2, LeqTrans
<1>4. Leq(n, x)
  <2>1. Leq(Combine(b2, n2), x)  BY <1>1, <1>2, CombineLeast
  <2> QED  BY <1>1, <2>1, LeqTrans
<1>5. Leq(Combine(b, Combine(d, n)), x)
  <2>1. Leq(Combine(d, n), x)  BY <1>1, <1>3, <1>4, CombineLeast
  <2> QED  BY <1>1, <1>3, <2>1, CombineLeast
<1>6. Leq(a, x)
  BY <1>1, <1>5, LeqTrans
<1>7. Leq(Combine(a, d2), x)
  BY <1>1, <1>2, <1>6, CombineLeast
<1>8. Leq(a2, x)
  BY <1>1, <1>7, LeqTrans
<1> QED  BY <1>8 DEF x

(* The way through a transition is a weight, monotone, and keeps Combine. *)
LEMMA ThroughLaws ==
    ASSUME NEW t, weight[t] \in Weight, NEW a \in Weight, NEW b \in Weight
    PROVE  /\ Through(t, a) \in Weight
           /\ Through(t, Combine(a, b)) = Combine(Through(t, a), Through(t, b))
           /\ Through(t, Zero) = Zero
           /\ Leq(a, b) => Leq(Through(t, a), Through(t, b))
<1>1. Through(t, a) \in Weight /\ Through(t, Zero) = Zero
  BY WeightClosed, ExtendLaws DEF Through
<1>2. Through(t, Combine(a, b)) = Combine(Through(t, a), Through(t, b))
  <2>1. CASE query = "INORDER"  BY <2>1, Distributes DEF Through
  <2>2. CASE query # "INORDER"  BY <2>2, Distributes DEF Through
  <2> QED  BY <2>1, <2>2
<1>3. Leq(a, b) => Leq(Through(t, a), Through(t, b))
  BY ExtendMono DEF Through
<1> QED  BY <1>1, <1>2, <1>3

LEMMA AheadLaws ==
    ASSUME NEW t, weight[t] \in Weight, NEW a \in Weight, NEW b \in Weight
    PROVE  /\ Ahead(t, a) \in Weight
           /\ Ahead(t, Combine(a, b)) = Combine(Ahead(t, a), Ahead(t, b))
           /\ Ahead(t, Zero) = Zero
           /\ Leq(a, b) => Leq(Ahead(t, a), Ahead(t, b))
<1>1. Ahead(t, a) \in Weight /\ Ahead(t, Zero) = Zero
  BY WeightClosed, ExtendLaws DEF Ahead
<1>2. Ahead(t, Combine(a, b)) = Combine(Ahead(t, a), Ahead(t, b))
  BY WeightClosed, Distributes, ZenonT(60) DEF Ahead
<1>3. Leq(a, b) => Leq(Ahead(t, a), Ahead(t, b))
  BY ExtendMono DEF Ahead
<1> QED  BY <1>1, <1>2, <1>3

-----------------------------------------------------------------------------
LEMMA PathsInit == Init => IInv
<1> SUFFICES ASSUME Init PROVE IInv  OBVIOUS
<1>1. TypeOK
  BY WeightClosed, PathsAssumption DEF Init, TypeOK
<1>2. Idle /\ Summing /\ SummaryBelow /\ Closing /\ ClosureBelow
  BY DEF Init, Idle, Summing, SummaryBelow, Closing, ClosureBelow
<1> QED  BY <1>1, <1>2 DEF IInv

(* Every step keeps the types. *)
LEMMA TypeStep == TypeOK /\ [Next]_vars => TypeOK'
<1> SUFFICES ASSUME TypeOK, [Next]_vars PROVE TypeOK'  OBVIOUS
<1> USE DEF TypeOK
<1>1. CASE AddTrans
  <2>1. PICK a \in Additions : /\ trans' = trans \cup {a.key}
                              /\ weight' = [k \in trans' |-> IF k = a.key THEN a.weight
                                                                          ELSE weight[k]]
    BY <1>1 DEF AddTrans
  <2>2. a.key \in Key /\ a.weight \in Weight
    BY PathsAssumption DEF Key
  <2>3. trans' \subseteq Key /\ weight' \in [trans' -> Weight] /\ todo' \subseteq trans'
    BY <1>1, <2>1, <2>2 DEF AddTrans, work
  <2> QED  BY <1>1, <2>3 DEF AddTrans, states, closure, work
<1>2. CASE GoOn
  BY <1>2 DEF GoOn, states, closure, work
<1>3. CASE SetupFixpoint
  BY <1>3, WeightClosed, PathsAssumption DEF SetupFixpoint, SetupWeight, automaton, closure, work
<1>4. CASE StartClose
  BY <1>4, WeightClosed DEF StartClose, automaton, states, work
<1>5. CASE PopState
  BY <1>5, WeightClosed DEF PopState, automaton, closure
<1>6. CASE TellPredecessor
  <2>1. PICK t \in todo :
           /\ total' = [total EXCEPT ![t.from] = Combine(@, Through(t, news))]
           /\ delta' = [delta EXCEPT ![t.from] = DeltaAfter(t.from, Through(t, news))]
           /\ open' = IF DeltaAfter(t.from, Through(t, news)) # Zero
                        THEN open \cup {t.from} ELSE open
           /\ todo' = todo \ {t}
    BY <1>6 DEF TellPredecessor
  <2>2. t \in Key /\ weight[t] \in Weight
    OBVIOUS
  <2>3. t.from \in Node
    BY <2>2 DEF Key
  <2>4. Through(t, news) \in Weight
    BY <2>2, ThroughLaws
  <2>5. DeltaAfter(t.from, Through(t, news)) \in Weight
    BY <2>3, <2>4, WeightClosed DEF DeltaAfter
  <2>6. /\ total' \in [Node -> Weight] /\ delta' \in [Node -> Weight]
        /\ open' \subseteq Node /\ todo' \subseteq trans
    BY <2>1, <2>3, <2>4, <2>5, WeightClosed
  <2> QED  BY <1>6, <2>6 DEF TellPredecessor, automaton, closure
<1>7. CASE SummaryDone
  BY <1>7 DEF SummaryDone, automaton, states, closure, work
<1>8. CASE PopSource
  BY <1>8, WeightClosed DEF PopSource, automaton, states
<1>9. CASE Relax
  <2>1. PICK t \in todo :
          LET w == Ahead(t, news)
              d == Combine(dist[t.to], w)
          IN  /\ IF d # dist[t.to]
                 THEN /\ dist' = [dist EXCEPT ![t.to] = d]
                      /\ rest' = [rest EXCEPT ![t.to] = Combine(@, w)]
                      /\ queue' = queue \cup {t.to}
                 ELSE UNCHANGED <<dist, rest, queue>>
              /\ todo' = todo \ {t}
    BY <1>9 DEF Relax
  <2>2. t \in Key /\ weight[t] \in Weight
    OBVIOUS
  <2>3. t.to \in Node
    BY <2>2 DEF Key
  <2>4. Ahead(t, news) \in Weight
    BY <2>2, AheadLaws
  <2>5. /\ dist' \in [Node -> Weight] /\ rest' \in [Node -> Weight]
        /\ queue' \subseteq Node /\ todo' \subseteq trans
    BY <2>1, <2>3, <2>4, WeightClosed
  <2> QED  BY <1>9, <2>5 DEF Relax, automaton, states
<1>10. CASE CloseDone
  BY <1>10 DEF CloseDone, automaton, states, closure, work
<1>11. CASE UNCHANGED vars
  BY <1>11 DEF vars, automaton, states, closure, work
<1> QED
  BY <1>1, <1>2, <1>3, <1>4, <1>5, <1>6, <1>7, <1>8, <1>9, <1>10, <1>11
  DEF Next, Summary, Close
-----------------------------------------------------------------------------
(* setupFixpoint: everything a final state has is still on its way. *)
LEMMA SetupStep ==
    ASSUME IInv, SetupFixpoint PROVE Summing' /\ SummaryBelow'
<1> USE DEF TypeOK
<1>1. TypeOK /\ TypeOK' /\ todo = {} /\ todo' = {} /\ pc' = "summary"
      /\ trans' = trans /\ weight' = weight /\ query' = query
  BY TypeStep DEF IInv, Idle, Next, SetupFixpoint, work, automaton
<1>2. total' = [q \in Node |-> IF q \in Final THEN One ELSE Zero]
      /\ delta' = total' /\ open' = Final
  BY DEF SetupFixpoint, SetupWeight
<1>3. Summing'
  <2>1. \A q \in Node \ open' : delta'[q] = Zero
    BY <1>2
  <2>2. \A f \in Final : Leq(One, total'[f])
    BY <1>2, WeightClosed, LeqBasics, PathsAssumption
  <2>3. ASSUME NEW t \in trans
        PROVE  Leq(Through(t, total[t.to])', Combine(total[t.from], Owed(t))')
    <3>1. t \in Key /\ t.from \in Node /\ t.to \in Node /\ weight[t] \in Weight
      BY <1>1 DEF Key
    <3>2. Through(t, total[t.to])' = Through(t, total'[t.to])
      BY <1>1 DEF Through
    <3>3. Owed(t)' = Combine(Through(t, total'[t.to]), Zero)
      BY <1>1, <1>2 DEF Owed, Through
    <3>4. Through(t, total'[t.to]) \in Weight /\ total'[t.from] \in Weight
      BY <1>1, <3>1, ThroughLaws
    <3>5. Owed(t)' = Through(t, total'[t.to])
      BY <3>3, <3>4, CombineLaws
    <3> QED  BY <3>2, <3>4, <3>5, CombineUpper
  <2> QED  BY <1>1, <2>1, <2>2, <2>3 DEF Summing
<1>4. SummaryBelow'
  <2> SUFFICES ASSUME NEW V \in [Node -> Weight], Solves(V)'
               PROVE  \A q \in Node : Leq(total'[q], V[q]) /\ Leq(delta'[q], V[q])
    BY <1>1 DEF SummaryBelow
  <2>1. \A f \in Final : Leq(One, V[f])
    BY DEF Solves
  <2> QED  BY <1>2, <2>1, LeqBasics
<1> QED  BY <1>3, <1>4

(* A state is taken: its delta becomes the news of what leads to it. *)
LEMMA PopStep ==
    ASSUME IInv, PopState PROVE Summing' /\ SummaryBelow'
<1> USE DEF TypeOK
<1>1. TypeOK /\ TypeOK' /\ Summing /\ SummaryBelow
      /\ pc = "summary" /\ pc' = "summary" /\ todo = {} /\ total' = total
      /\ trans' = trans /\ weight' = weight /\ query' = query
  BY TypeStep DEF IInv, Next, Summary, PopState, automaton
<1>2. PICK q \in open : /\ cur' = q /\ news' = delta[q]
                        /\ delta' = [delta EXCEPT ![q] = Zero]
                        /\ open' = open \ {q}
                        /\ todo' = {t \in trans : t.to = q}
  BY DEF PopState
<1>3. ASSUME NEW t \in trans PROVE Owed(t)' = Owed(t)
  <2>1. t \in Key /\ t.to \in Node /\ weight[t] \in Weight /\ delta[t.to] \in Weight
    BY <1>1 DEF Key
  <2>2. Through(t, delta[t.to]) \in Weight /\ Through(t, Zero) = Zero
    BY <2>1, WeightClosed, ThroughLaws
  <2>3. Owed(t) = Combine(Through(t, delta[t.to]), Zero)
    BY <1>1 DEF Owed
  <2>4. CASE t.to = q
    <3>1. Owed(t)' = Combine(Through(t, Zero), Through(t, delta[q]))
      BY <1>1, <1>2, <2>1, <2>4 DEF Owed, Through
    <3> QED  BY <3>1, <2>2, <2>3, <2>4, CombineLaws, WeightClosed
  <2>5. CASE t.to # q
    <3>1. Owed(t)' = Combine(Through(t, delta[t.to]), Zero)
      BY <1>1, <1>2, <2>1, <2>5 DEF Owed, Through
    <3> QED  BY <3>1, <2>3
  <2> QED  BY <2>4, <2>5
<1>4. Summing'
  <2>1. \A t \in trans : Through(t, total[t.to])' = Through(t, total[t.to])
    BY <1>1 DEF Through
  <2>2. \A t \in trans' : Leq(Through(t, total[t.to])', Combine(total'[t.from], Owed(t)'))
    BY <1>1, <1>3, <2>1 DEF Summing
  <2> QED  BY <1>1, <1>2, <2>2 DEF Summing
<1>5. SummaryBelow'
  <2> SUFFICES ASSUME NEW V \in [Node -> Weight], Solves(V)'
               PROVE  /\ \A p \in Node : Leq(total'[p], V[p]) /\ Leq(delta'[p], V[p])
                      /\ Leq(news', V[cur'])
    BY <1>1 DEF SummaryBelow
  <2>1. Solves(V)
    BY <1>1 DEF Solves
  <2>2. \A p \in Node : Leq(total[p], V[p]) /\ Leq(delta[p], V[p])
    BY <1>1, <2>1 DEF SummaryBelow
  <2> QED  BY <1>1, <1>2, <2>2, LeqBasics
<1> QED  BY <1>4, <1>5

(***************************************************************************)
(* A predecessor is told: what it owes itself now waits in its delta, and  *)
(* what was told through the transition is paid.                           *)
(***************************************************************************)
LEMMA TellStep ==
    ASSUME IInv, TellPredecessor PROVE Summing' /\ SummaryBelow'
<1> USE DEF TypeOK
<1>1. TypeOK /\ TypeOK' /\ Summing /\ SummaryBelow
      /\ pc = "summary" /\ pc' = "summary" /\ cur' = cur /\ news' = news
      /\ trans' = trans /\ weight' = weight /\ query' = query
  BY TypeStep DEF IInv, Next, Summary, TellPredecessor, automaton
<1>2. PICK t \in todo :
         /\ total' = [total EXCEPT ![t.from] = Combine(@, Through(t, news))]
         /\ delta' = [delta EXCEPT ![t.from] = DeltaAfter(t.from, Through(t, news))]
         /\ open' = IF DeltaAfter(t.from, Through(t, news)) # Zero
                      THEN open \cup {t.from} ELSE open
         /\ todo' = todo \ {t}
  BY DEF TellPredecessor
<1> DEFINE q == t.from
           w == Through(t, news)
           gain == Diff(w, total[q])
<1>3. /\ t \in trans /\ t.to = cur /\ cur \in Node /\ q \in Node
      /\ weight[t] \in Weight /\ news \in Weight
  BY <1>1 DEF Key, Summing
<1>4. w \in Weight /\ gain \in Weight
  BY <1>3, <1>1, ThroughLaws, WeightClosed
<1>5. /\ total'[q] = Combine(total[q], w) /\ delta'[q] = DeltaAfter(q, w)
      /\ \A p \in Node \ {q} : total'[p] = total[p] /\ delta'[p] = delta[p]
  BY <1>1, <1>2, <1>3
<1> HIDE DEF w, gain
<1>6. /\ Leq(delta[q], delta'[q]) /\ Leq(gain, delta'[q])
      /\ delta'[q] = Combine(delta[q], gain)
  <2>1. q \in open => delta'[q] = Combine(delta[q], gain)
    BY <1>5 DEF DeltaAfter, gain
  <2>2. q \notin open => delta'[q] = gain /\ delta[q] = Zero
    BY <1>1, <1>3, <1>5 DEF DeltaAfter, gain, Summing
  <2>3. delta'[q] = Combine(delta[q], gain)
    BY <2>1, <2>2, <1>4, CombineLaws, WeightClosed, ZenonT(60)
  <2> QED  BY <2>3, <1>1, <1>3, <1>4, CombineUpper
<1>7. \A p \in Node : /\ Leq(total[p], total'[p]) /\ Leq(delta[p], delta'[p])
                      /\ Leq(total'[p], Combine(total[p], delta'[p]))
  <2>1. Leq(total[q], total'[q]) /\ Leq(w, total'[q])
    BY <1>1, <1>3, <1>4, <1>5, CombineUpper
  <2>2. total'[q] = Combine(total[q], gain)
    BY <1>1, <1>3, <1>4, <1>5, DiffContract DEF gain
  <2>3. Leq(total'[q], Combine(total[q], delta'[q]))
    BY <1>1, <1>3, <1>4, <1>6, <2>2, LeqBasics, CombineMono
  <2>4. ASSUME NEW p \in Node \ {q}
        PROVE  Leq(total'[p], Combine(total[p], delta'[p]))
    BY <1>1, <1>5, CombineUpper
  <2> QED  BY <1>1, <1>5, <1>6, <2>1, <2>3, <2>4, LeqBasics
<1>8. Summing'
  <2>1. \A p \in Node \ open' : delta'[p] = Zero
    <3>1. CASE delta'[q] # Zero
      BY <1>1, <1>2, <1>3, <1>5, <3>1 DEF Summing, w
    <3>2. CASE delta'[q] = Zero
      BY <1>1, <1>2, <1>3, <1>5, <3>2 DEF Summing, w
    <3> QED  BY <3>1, <3>2
  <2>2. \A f \in Final : Leq(One, total'[f])
    BY <1>1, <1>7, LeqTrans, WeightClosed, PathsAssumption DEF Summing
  <2>3. ASSUME NEW u \in trans
        PROVE  Leq(Through(u, total[u.to])', Combine(total[u.from], Owed(u))')
    <3> DEFINE n == IF u \in todo THEN Through(u, news) ELSE Zero
               n2 == IF u \in todo' THEN Through(u, news) ELSE Zero
    <3>1. u \in Key /\ u.from \in Node /\ u.to \in Node /\ weight[u] \in Weight
      BY <1>1 DEF Key
    <3>2. /\ Through(u, total[u.to])' = Through(u, total'[u.to])
          /\ Owed(u)' = Combine(Through(u, delta'[u.to]), n2)
          /\ Owed(u) = Combine(Through(u, delta[u.to]), n)
      BY <1>1 DEF Owed, Through
    <3>3. /\ total[u.to] \in Weight /\ total'[u.to] \in Weight
          /\ delta[u.to] \in Weight /\ delta'[u.to] \in Weight
          /\ total[u.from] \in Weight /\ total'[u.from] \in Weight
      BY <1>1, <3>1
    <3>4. /\ Through(u, total[u.to]) \in Weight /\ Through(u, total'[u.to]) \in Weight
          /\ Through(u, delta[u.to]) \in Weight /\ Through(u, delta'[u.to]) \in Weight
          /\ Through(u, news) \in Weight
      BY <1>3, <3>1, <3>3, ThroughLaws
    <3>5. n \in Weight /\ n2 \in Weight
      BY <3>4, WeightClosed
    <3>6. Leq(Through(u, total'[u.to]),
              Combine(Through(u, total[u.to]), Through(u, delta'[u.to])))
      <4>1. Combine(total[u.to], delta'[u.to]) \in Weight
        BY <3>3, WeightClosed
      <4>2. Leq(total'[u.to], Combine(total[u.to], delta'[u.to]))
        BY <1>7, <3>1
      <4>3. Leq(Through(u, total'[u.to]), Through(u, Combine(total[u.to], delta'[u.to])))
        BY <3>1, <3>3, <4>1, <4>2, ThroughLaws
      <4> QED  BY <3>1, <3>3, <4>3, ThroughLaws
    <3>7. Leq(Through(u, delta[u.to]), Through(u, delta'[u.to]))
      BY <1>7, <3>1, <3>3, ThroughLaws
    <3>8. Leq(n, Combine(total'[u.from], n2))
      <4>1. CASE u = t
        <5>1. n = w
          BY <4>1 DEF w
        <5>2. Leq(w, total'[q])
          BY <1>1, <1>3, <1>4, <1>5, CombineUpper
        <5> QED  BY <4>1, <5>1, <5>2, <1>4, <3>3, <3>5, Weaken
      <4>2. CASE u # t
        <5>1. n = n2
          BY <1>2, <4>2
        <5> QED  BY <5>1, <3>3, <3>5, CombineUpper
      <4> QED  BY <4>1, <4>2
    <3>9. Leq(Through(u, total[u.to]), Combine(total[u.from], Owed(u)))
      BY <1>1 DEF Summing
    <3>10. Leq(total[u.from], total'[u.from])
      BY <1>7, <3>1
    <3>11. Leq(Through(u, total[u.to]),
               Combine(total[u.from], Combine(Through(u, delta[u.to]), n)))
      BY <3>2, <3>9
    <3> DEFINE a == Through(u, total[u.to])
               a2 == Through(u, total'[u.to])
               d == Through(u, delta[u.to])
               d2 == Through(u, delta'[u.to])
               b == total[u.from]
               b2 == total'[u.from]
    <3>12. /\ a \in Weight /\ a2 \in Weight /\ d \in Weight /\ d2 \in Weight
           /\ n \in Weight /\ n2 \in Weight /\ b \in Weight /\ b2 \in Weight
           /\ Leq(a2, Combine(a, d2)) /\ Leq(d, d2) /\ Leq(b, b2)
           /\ Leq(n, Combine(b2, n2)) /\ Leq(a, Combine(b, Combine(d, n)))
      BY <3>3, <3>4, <3>5, <3>6, <3>7, <3>8, <3>10, <3>11
    <3> HIDE DEF n, n2, a, a2, d, d2, b, b2
    <3>13. Leq(a2, Combine(b2, Combine(d2, n2)))
      BY ONLY <3>12, Carry
    <3> QED  BY <3>2, <3>13 DEF a2, b2, d2
  <2> QED  BY <1>1, <1>2, <2>1, <2>2, <2>3 DEF Summing
<1>9. SummaryBelow'
  <2> SUFFICES ASSUME NEW V \in [Node -> Weight], Solves(V)'
               PROVE  /\ \A p \in Node : Leq(total'[p], V[p]) /\ Leq(delta'[p], V[p])
                      /\ todo' # {} => Leq(news, V[cur])
    BY <1>1 DEF SummaryBelow
  <2>1. Solves(V)
    BY <1>1 DEF Solves
  <2>2. /\ \A p \in Node : Leq(total[p], V[p]) /\ Leq(delta[p], V[p])
        /\ Leq(news, V[cur])
    BY <1>1, <1>2, <2>1 DEF SummaryBelow
  <2>3. Leq(w, V[q])
    <3>1. Leq(Through(t, V[cur]), V[q])
      BY <1>3, <2>1 DEF Solves, Through
    <3>2. Leq(w, Through(t, V[cur])) /\ Through(t, V[cur]) \in Weight
      BY <1>3, <2>2, ThroughLaws DEF w
    <3> QED  BY <1>3, <1>4, <3>1, <3>2, LeqTrans
  <2>4. Leq(total'[q], V[q])
    BY <1>1, <1>3, <1>4, <1>5, <2>2, <2>3, CombineLeast
  <2>5. Leq(delta'[q], V[q])
    <3>1. Leq(gain, Combine(total[q], w)) /\ Combine(total[q], w) \in Weight
      BY <1>1, <1>3, <1>4, DiffCovers, WeightClosed DEF gain
    <3>2. Leq(gain, V[q])
      BY <1>3, <1>4, <1>5, <2>4, <3>1, LeqTrans
    <3> QED  BY <1>1, <1>3, <1>4, <1>6, <2>2, <3>2, CombineLeast
  <2> QED  BY <1>5, <2>2, <2>4, <2>5
<1> QED  BY <1>8, <1>9

(* Nothing is on its way when the worklist is empty. *)
LEMMA SummedStep ==
    ASSUME IInv, SummaryDone PROVE SummaryIsLeast'
<1> USE DEF TypeOK
<1>1. TypeOK /\ Summing /\ SummaryBelow /\ pc = "summary" /\ todo = {} /\ open = {}
      /\ total' = total /\ trans' = trans /\ weight' = weight /\ query' = query
  BY DEF IInv, SummaryDone, automaton, states
<1>2. ASSUME NEW t \in trans PROVE Leq(Through(t, total[t.to]), total[t.from])
  <2>1. t.from \in Node /\ t.to \in Node /\ weight[t] \in Weight /\ delta[t.to] = Zero
    BY <1>1 DEF Key, Summing
  <2>2. Owed(t) = Combine(Zero, Zero)
    BY <1>1, <2>1, ThroughLaws, WeightClosed DEF Owed
  <2>3. Combine(total[t.from], Owed(t)) = total[t.from]
    <3>1. Owed(t) = Zero /\ total[t.from] \in Weight
      BY <1>1, <2>1, <2>2, CombineLaws, WeightClosed
    <3> QED  BY <3>1, CombineLaws
  <2> QED  BY <1>1, <2>3 DEF Summing
<1>3. Solves(total)
  BY <1>1, <1>2 DEF Solves, Summing, Through
<1>4. Solves(total)'
  BY <1>1, <1>3 DEF Solves
<1>5. ASSUME NEW V \in [Node -> Weight], Solves(V)'
      PROVE  \A q \in Node : Leq(total'[q], V[q])
  BY <1>1, <1>5 DEF SummaryBelow, Solves
<1> QED  BY <1>4, <1>5 DEF SummaryIsLeast
-----------------------------------------------------------------------------
(* epsilonClose_Mohri starts with One on its way out of the source. *)
LEMMA StartStep ==
    ASSUME IInv, StartClose PROVE Closing' /\ ClosureBelow'
<1> USE DEF TypeOK
<1>1. TypeOK /\ TypeOK' /\ todo = {} /\ todo' = {} /\ pc' = "close"
      /\ trans' = trans /\ weight' = weight
  BY TypeStep DEF IInv, Idle, Next, StartClose, work, automaton
<1>2. /\ dist' = [q \in Node |-> IF q = source' THEN One ELSE Zero]
      /\ rest' = dist' /\ queue' = {source'}
  BY DEF StartClose
<1>3. Closing'
  <2>1. \A q \in Node \ queue' : rest'[q] = Zero
    BY <1>2
  <2>2. Leq(One, dist'[source'])
    BY <1>1, <1>2, WeightClosed, LeqBasics
  <2>3. ASSUME NEW t \in trans
        PROVE  Leq(Ahead(t, dist[t.from])', Combine(dist[t.to], OwedAhead(t))')
    <3>1. t \in Key /\ t.from \in Node /\ t.to \in Node /\ weight[t] \in Weight
      BY <1>1 DEF Key
    <3>2. Ahead(t, dist[t.from])' = Ahead(t, dist'[t.from])
      BY <1>1 DEF Ahead
    <3>3. OwedAhead(t)' = Combine(Ahead(t, dist'[t.from]), Zero)
      BY <1>1, <1>2 DEF OwedAhead, Ahead
    <3>4. Ahead(t, dist'[t.from]) \in Weight /\ dist'[t.to] \in Weight
      BY <1>1, <3>1, AheadLaws
    <3>5. OwedAhead(t)' = Ahead(t, dist'[t.from])
      BY <3>3, <3>4, CombineLaws
    <3> QED  BY <3>2, <3>4, <3>5, CombineUpper
  <2> QED  BY <1>1, <2>1, <2>2, <2>3 DEF Closing
<1>4. ClosureBelow'
  <2> SUFFICES ASSUME NEW V \in [Node -> Weight], Closes(V)'
               PROVE  \A q \in Node : Leq(dist'[q], V[q]) /\ Leq(rest'[q], V[q])
    BY <1>1 DEF ClosureBelow
  <2>1. Leq(One, V[source'])
    BY DEF Closes
  <2> QED  BY <1>2, <2>1, LeqBasics
<1> QED  BY <1>3, <1>4

(* A state is visited: what it gained since it was last is now the news. *)
LEMMA VisitStep ==
    ASSUME IInv, PopSource PROVE Closing' /\ ClosureBelow'
<1> USE DEF TypeOK
<1>1. TypeOK /\ TypeOK' /\ Closing /\ ClosureBelow
      /\ pc = "close" /\ pc' = "close" /\ todo = {} /\ dist' = dist /\ source' = source
      /\ trans' = trans /\ weight' = weight
  BY TypeStep DEF IInv, Next, Close, PopSource, automaton
<1>2. PICK q \in queue : /\ cur' = q /\ news' = rest[q]
                         /\ rest' = [rest EXCEPT ![q] = Zero]
                         /\ queue' = queue \ {q}
                         /\ todo' = {t \in trans : t.from = q /\ t.stk = EPS}
  BY DEF PopSource
<1>3. ASSUME NEW t \in trans, t.stk = EPS PROVE OwedAhead(t)' = OwedAhead(t)
  <2>1. t \in Key /\ t.from \in Node /\ weight[t] \in Weight /\ rest[t.from] \in Weight
    BY <1>1 DEF Key
  <2>2. Ahead(t, rest[t.from]) \in Weight /\ Ahead(t, Zero) = Zero
    BY <2>1, WeightClosed, AheadLaws
  <2>3. OwedAhead(t) = Combine(Ahead(t, rest[t.from]), Zero)
    BY <1>1 DEF OwedAhead
  <2>4. CASE t.from = q
    <3>1. OwedAhead(t)' = Combine(Ahead(t, Zero), Ahead(t, rest[q]))
      BY <1>1, <1>2, <1>3, <2>1, <2>4 DEF OwedAhead, Ahead
    <3> QED  BY <3>1, <2>2, <2>3, <2>4, CombineLaws, WeightClosed
  <2>5. CASE t.from # q
    <3>1. OwedAhead(t)' = Combine(Ahead(t, rest[t.from]), Zero)
      BY <1>1, <1>2, <2>1, <2>5 DEF OwedAhead, Ahead
    <3> QED  BY <3>1, <2>3
  <2> QED  BY <2>4, <2>5
<1>4. Closing'
  <2>1. \A t \in trans : Ahead(t, dist[t.from])' = Ahead(t, dist[t.from])
    BY <1>1 DEF Ahead
  <2>2. \A t \in trans' : t.stk = EPS =>
           Leq(Ahead(t, dist[t.from])', Combine(dist'[t.to], OwedAhead(t)'))
    BY <1>1, <1>3, <2>1 DEF Closing
  <2> QED  BY <1>1, <1>2, <2>2 DEF Closing
<1>5. ClosureBelow'
  <2> SUFFICES ASSUME NEW V \in [Node -> Weight], Closes(V)'
               PROVE  /\ \A p \in Node : Leq(dist'[p], V[p]) /\ Leq(rest'[p], V[p])
                      /\ Leq(news', V[cur'])
    BY <1>1 DEF ClosureBelow
  <2>1. Closes(V)
    BY <1>1 DEF Closes
  <2>2. \A p \in Node : Leq(dist[p], V[p]) /\ Leq(rest[p], V[p])
    BY <1>1, <2>1 DEF ClosureBelow
  <2> QED  BY <1>1, <1>2, <2>2, LeqBasics
<1> QED  BY <1>4, <1>5

(* An epsilon transition is relaxed: the gain, if any, waits in rest. *)
LEMMA RelaxStep ==
    ASSUME IInv, Relax PROVE Closing' /\ ClosureBelow'
<1> USE DEF TypeOK
<1>1. TypeOK /\ TypeOK' /\ Closing /\ ClosureBelow
      /\ pc = "close" /\ pc' = "close" /\ cur' = cur /\ news' = news /\ source' = source
      /\ trans' = trans /\ weight' = weight
  BY TypeStep DEF IInv, Next, Close, Relax, automaton
<1>2. PICK t \in todo :
          LET w == Ahead(t, news)
              d == Combine(dist[t.to], w)
          IN  /\ IF d # dist[t.to]
                 THEN /\ dist' = [dist EXCEPT ![t.to] = d]
                      /\ rest' = [rest EXCEPT ![t.to] = Combine(@, w)]
                      /\ queue' = queue \cup {t.to}
                 ELSE UNCHANGED <<dist, rest, queue>>
              /\ todo' = todo \ {t}
  BY DEF Relax
<1> DEFINE q == t.to
           w == Ahead(t, news)
<1>3. /\ t \in trans /\ t.from = cur /\ t.stk = EPS /\ cur \in Node /\ q \in Node
      /\ weight[t] \in Weight /\ news \in Weight
  BY <1>1 DEF Key, Closing
<1>4. w \in Weight
  BY <1>3, AheadLaws
<1>5. /\ dist'[q] = Combine(dist[q], w)
      /\ dist'[q] = dist[q] \/ rest'[q] = Combine(rest[q], w)
      /\ rest'[q] = rest[q] \/ rest'[q] = Combine(rest[q], w)
      /\ \A p \in Node \ {q} : dist'[p] = dist[p] /\ rest'[p] = rest[p]
  BY <1>1, <1>2, <1>3
<1> HIDE DEF w
<1>6. \A p \in Node : /\ Leq(dist[p], dist'[p]) /\ Leq(rest[p], rest'[p])
                      /\ Leq(dist'[p], Combine(dist[p], rest'[p]))
  <2>1. Leq(dist[q], dist'[q])
    BY <1>1, <1>3, <1>4, <1>5, CombineUpper
  <2>2. Leq(rest[q], rest'[q])
    BY <1>1, <1>3, <1>4, <1>5, CombineUpper, LeqBasics
  <2>3. Leq(dist'[q], Combine(dist[q], rest'[q]))
    <3>1. CASE dist'[q] = dist[q]
      BY <1>1, <1>3, <3>1, CombineUpper
    <3>2. CASE rest'[q] = Combine(rest[q], w)
      <4>1. Leq(w, rest'[q])
        BY <1>1, <1>3, <1>4, <3>2, CombineUpper
      <4>2. dist[q] \in Weight /\ rest'[q] \in Weight /\ Leq(dist[q], dist[q])
        BY <1>1, <1>3, LeqBasics
      <4>3. Leq(Combine(dist[q], w), Combine(dist[q], rest'[q]))
        BY <1>4, <4>1, <4>2, CombineMono
      <4> QED  BY <1>5, <4>3
    <3> QED  BY <1>5, <3>1, <3>2
  <2>4. ASSUME NEW p \in Node \ {q}
        PROVE  Leq(dist'[p], Combine(dist[p], rest'[p]))
    BY <1>1, <1>5, CombineUpper
  <2> QED  BY <1>1, <1>5, <2>1, <2>2, <2>3, <2>4, LeqBasics
<1>7. Closing'
  <2>1. \A p \in Node \ queue' : rest'[p] = Zero
    BY <1>1, <1>2, <1>3 DEF Closing
  <2>2. Leq(One, dist'[source'])
    BY <1>1, <1>6, LeqTrans, WeightClosed DEF Closing
  <2>3. ASSUME NEW u \in trans, u.stk = EPS
        PROVE  Leq(Ahead(u, dist[u.from])', Combine(dist[u.to], OwedAhead(u))')
    <3> DEFINE n == IF u \in todo THEN Ahead(u, news) ELSE Zero
               n2 == IF u \in todo' THEN Ahead(u, news) ELSE Zero
    <3>1. u \in Key /\ u.from \in Node /\ u.to \in Node /\ weight[u] \in Weight
      BY <1>1 DEF Key
    <3>2. /\ Ahead(u, dist[u.from])' = Ahead(u, dist'[u.from])
          /\ OwedAhead(u)' = Combine(Ahead(u, rest'[u.from]), n2)
          /\ OwedAhead(u) = Combine(Ahead(u, rest[u.from]), n)
      BY <1>1 DEF OwedAhead, Ahead
    <3>3. /\ dist[u.from] \in Weight /\ dist'[u.from] \in Weight
          /\ rest[u.from] \in Weight /\ rest'[u.from] \in Weight
          /\ dist[u.to] \in Weight /\ dist'[u.to] \in Weight
      BY <1>1, <3>1
    <3>4. /\ Ahead(u, dist[u.from]) \in Weight /\ Ahead(u, dist'[u.from]) \in Weight
          /\ Ahead(u, rest[u.from]) \in Weight /\ Ahead(u, rest'[u.from]) \in Weight
          /\ Ahead(u, news) \in Weight
      BY <1>3, <3>1, <3>3, AheadLaws
    <3>5. n \in Weight /\ n2 \in Weight
      BY <3>4, WeightClosed
    <3>6. Leq(Ahead(u, dist'[u.from]),
              Combine(Ahead(u, dist[u.from]), Ahead(u, rest'[u.from])))
      <4>1. Combine(dist[u.from], rest'[u.from]) \in Weight
        BY <3>3, WeightClosed
      <4>2. Leq(dist'[u.from], Combine(dist[u.from], rest'[u.from]))
        BY <1>6, <3>1
      <4>3. Leq(Ahead(u, dist'[u.from]), Ahead(u, Combine(dist[u.from], rest'[u.from])))
        BY <3>1, <3>3, <4>1, <4>2, AheadLaws
      <4> QED  BY <3>1, <3>3, <4>3, AheadLaws
    <3>7. Leq(Ahead(u, rest[u.from]), Ahead(u, rest'[u.from]))
      BY <1>6, <3>1, <3>3, AheadLaws
    <3>8. Leq(n, Combine(dist'[u.to], n2))
      <4>1. CASE u = t
        <5>1. n = w
          BY <4>1 DEF w
        <5>2. Leq(w, dist'[q])
          BY <1>1, <1>3, <1>4, <1>5, CombineUpper
        <5> QED  BY <4>1, <5>1, <5>2, <1>4, <3>3, <3>5, Weaken
      <4>2. CASE u # t
        <5>1. n = n2
          BY <1>2, <4>2
        <5> QED  BY <5>1, <3>3, <3>5, CombineUpper
      <4> QED  BY <4>1, <4>2
    <3>9. Leq(Ahead(u, dist[u.from]), Combine(dist[u.to], OwedAhead(u)))
      BY <1>1, <2>3 DEF Closing
    <3>10. Leq(dist[u.to], dist'[u.to])
      BY <1>6, <3>1
    <3>11. Leq(Ahead(u, dist[u.from]),
               Combine(dist[u.to], Combine(Ahead(u, rest[u.from]), n)))
      BY <3>2, <3>9
    <3> DEFINE a == Ahead(u, dist[u.from])
               a2 == Ahead(u, dist'[u.from])
               d == Ahead(u, rest[u.from])
               d2 == Ahead(u, rest'[u.from])
               b == dist[u.to]
               b2 == dist'[u.to]
    <3>12. /\ a \in Weight /\ a2 \in Weight /\ d \in Weight /\ d2 \in Weight
           /\ n \in Weight /\ n2 \in Weight /\ b \in Weight /\ b2 \in Weight
           /\ Leq(a2, Combine(a, d2)) /\ Leq(d, d2) /\ Leq(b, b2)
           /\ Leq(n, Combine(b2, n2)) /\ Leq(a, Combine(b, Combine(d, n)))
      BY <3>3, <3>4, <3>5, <3>6, <3>7, <3>8, <3>10, <3>11
    <3> HIDE DEF n, n2, a, a2, d, d2, b, b2
    <3>13. Leq(a2, Combine(b2, Combine(d2, n2)))
      BY ONLY <3>12, Carry
    <3> QED  BY <3>2, <3>13 DEF a2, b2, d2
  <2> QED  BY <1>1, <1>2, <2>1, <2>2, <2>3 DEF Closing
<1>8. ClosureBelow'
  <2> SUFFICES ASSUME NEW V \in [Node -> Weight], Closes(V)'
               PROVE  /\ \A p \in Node : Leq(dist'[p], V[p]) /\ Leq(rest'[p], V[p])
                      /\ todo' # {} => Leq(news, V[cur])
    BY <1>1 DEF ClosureBelow
  <2>1. Closes(V)
    BY <1>1 DEF Closes
  <2>2. /\ \A p \in Node : Leq(dist[p], V[p]) /\ Leq(rest[p], V[p])
        /\ Leq(news, V[cur])
    BY <1>1, <1>2, <2>1 DEF ClosureBelow
  <2>3. Leq(w, V[q])
    <3>1. Leq(Ahead(t, V[cur]), V[q])
      BY <1>3, <2>1 DEF Closes, Ahead
    <3>2. Leq(w, Ahead(t, V[cur])) /\ Ahead(t, V[cur]) \in Weight
      BY <1>3, <2>2, AheadLaws DEF w
    <3> QED  BY <1>3, <1>4, <3>1, <3>2, LeqTrans
  <2>4. Leq(dist'[q], V[q]) /\ Leq(rest'[q], V[q])
    BY <1>1, <1>3, <1>4, <1>5, <2>2, <2>3, CombineLeast
  <2> QED  BY <1>5, <2>2, <2>4
<1> QED  BY <1>7, <1>8

(* Nothing is on its way when the queue is empty. *)
LEMMA ClosedStep ==
    ASSUME IInv, CloseDone PROVE ClosureIsLeast'
<1> USE DEF TypeOK
<1>1. TypeOK /\ Closing /\ ClosureBelow /\ pc = "close" /\ todo = {} /\ queue = {}
      /\ dist' = dist /\ source' = source /\ trans' = trans /\ weight' = weight
  BY DEF IInv, CloseDone, automaton, closure
<1>2. ASSUME NEW t \in trans, t.stk = EPS
      PROVE  Leq(Extend(dist[t.from], weight[t]), dist[t.to])
  <2>1. t.from \in Node /\ t.to \in Node /\ weight[t] \in Weight /\ rest[t.from] = Zero
    BY <1>1 DEF Key, Closing
  <2>2. OwedAhead(t) = Combine(Zero, Zero)
    BY <1>1, <2>1, AheadLaws, WeightClosed DEF OwedAhead
  <2>3. Combine(dist[t.to], OwedAhead(t)) = dist[t.to]
    <3>1. OwedAhead(t) = Zero /\ dist[t.to] \in Weight
      BY <1>1, <2>1, <2>2, CombineLaws, WeightClosed
    <3> QED  BY <3>1, CombineLaws
  <2> QED  BY <1>1, <1>2, <2>3 DEF Closing, Ahead
<1>3. Closes(dist)'
  BY <1>1, <1>2 DEF Closes, Closing
<1>4. ASSUME NEW V \in [Node -> Weight], Closes(V)'
      PROVE  \A q \in Node : Leq(dist'[q], V[q])
  BY <1>1, <1>4 DEF ClosureBelow, Closes
<1> QED  BY <1>3, <1>4 DEF ClosureIsLeast
-----------------------------------------------------------------------------
(* The steps that are outside of both loops. *)
LEMMA OtherStep ==
    ASSUME IInv, AddTrans \/ GoOn \/ SummaryDone \/ CloseDone
    PROVE  Idle' /\ Summing' /\ SummaryBelow' /\ Closing' /\ ClosureBelow'
<1>1. todo' = {} /\ pc' \notin {"summary", "close"}
  BY DEF IInv, Idle, AddTrans, GoOn, SummaryDone, CloseDone, work
<1> QED  BY <1>1 DEF Idle, Summing, SummaryBelow, Closing, ClosureBelow

LEMMA PathsStep == IInv /\ [Next]_vars => IInv'
<1> SUFFICES ASSUME IInv, [Next]_vars PROVE IInv'  OBVIOUS
<1>1. TypeOK'
  BY TypeStep DEF IInv
<1>2. CASE AddTrans \/ GoOn \/ SummaryDone \/ CloseDone
  BY <1>1, <1>2, OtherStep DEF IInv
<1>3. CASE SetupFixpoint \/ PopState \/ TellPredecessor
  <2>1. pc' = "summary"
    BY <1>3 DEF SetupFixpoint, PopState, TellPredecessor
  <2>2. Summing' /\ SummaryBelow'
    BY <1>3, SetupStep, PopStep, TellStep
  <2> QED  BY <1>1, <2>1, <2>2 DEF IInv, Idle, Closing, ClosureBelow
<1>4. CASE StartClose \/ PopSource \/ Relax
  <2>1. pc' = "close"
    BY <1>4 DEF StartClose, PopSource, Relax
  <2>2. Closing' /\ ClosureBelow'
    BY <1>4, StartStep, VisitStep, RelaxStep
  <2> QED  BY <1>1, <2>1, <2>2 DEF IInv, Idle, Summing, SummaryBelow
<1>5. CASE UNCHANGED vars
  BY <1>1, <1>5 DEF IInv, Idle, Summing, SummaryBelow, Closing, ClosureBelow, Owed, OwedAhead,
       Through, Ahead, Solves, Closes, vars, automaton, states, closure, work
<1> QED
  BY <1>2, <1>3, <1>4, <1>5 DEF Next, Summary, Close

(* WfaPaths: the inductive invariant holds of every session. *)
THEOREM PathsInvariant == Spec => []IInv
BY PathsInit, PathsStep, PTL DEF Spec

(* The states, weights and worklists of a session are well typed. *)
THEOREM PathsTyped == Spec => []TypeOK
<1>1. IInv => TypeOK
  BY DEF IInv
<1> QED  BY <1>1, PathsInvariant, PTL

(***************************************************************************)
(* When path_summary_iterative_original returns, the weights of the states *)
(* are the least solution, for any automaton, semiring and worklist.       *)
(***************************************************************************)
THEOREM SummaryLeast == Spec => []SummaryIsLeast
<1>1. Init => SummaryIsLeast
  BY DEF Init, SummaryIsLeast
<1>2. IInv /\ SummaryIsLeast /\ [Next]_vars => SummaryIsLeast'
  <2> SUFFICES ASSUME IInv, SummaryIsLeast, [Next]_vars, pc' = "summed"
               PROVE  SummaryIsLeast'
    BY DEF SummaryIsLeast
  <2>1. CASE SummaryDone
    BY <2>1, SummedStep
  <2>2. CASE UNCHANGED vars
    BY <2>2 DEF SummaryIsLeast, Solves, vars, automaton, states
  <2>3. CASE AddTrans \/ GoOn \/ SetupFixpoint \/ StartClose \/ PopState
             \/ TellPredecessor \/ Close
    BY <2>3 DEF AddTrans, GoOn, SetupFixpoint, StartClose, PopState, TellPredecessor,
                Close, PopSource, Relax, CloseDone
  <2> QED  BY <2>1, <2>2, <2>3 DEF Next, Summary
<1> QED  BY <1>1, <1>2, PathsInvariant, PTL DEF Spec

(***************************************************************************)
(* When epsilonClose_Mohri returns, d is the least solution of the         *)
(* equations of the epsilon paths from its source.                         *)
(***************************************************************************)
THEOREM ClosureLeast == Spec => []ClosureIsLeast
<1>1. Init => ClosureIsLeast
  BY DEF Init, ClosureIsLeast
<1>2. IInv /\ ClosureIsLeast /\ [Next]_vars => ClosureIsLeast'
  <2> SUFFICES ASSUME IInv, ClosureIsLeast, [Next]_vars, pc' = "closed"
               PROVE  ClosureIsLeast'
    BY DEF ClosureIsLeast
  <2>1. CASE CloseDone
    BY <2>1, ClosedStep
  <2>2. CASE UNCHANGED vars
    BY <2>2 DEF ClosureIsLeast, Closes, vars, automaton, closure
  <2>3. CASE AddTrans \/ GoOn \/ SetupFixpoint \/ StartClose \/ PopSource
             \/ Relax \/ Summary
    BY <2>3 DEF AddTrans, GoOn, SetupFixpoint, StartClose, PopSource, Relax,
                Summary, PopState, TellPredecessor, SummaryDone
  <2> QED  BY <2>1, <2>2, <2>3 DEF Next, Close
<1> QED  BY <1>1, <1>2, PathsInvariant, PTL DEF Spec
=============================================================================
