-------------------------- MODULE NwaLanguageProofs --------------------------
(***************************************************************************)
(* The languages of the automata that opennwa builds from others: union,   *)
(* intersection, quotient, concatenation, star and reversal.               *)
(*                                                                         *)
(* Where positions from several places meet, in a concatenation, a star or *)
(* a reversal, a run is the states it passes through, and the heights of   *)
(* the positions tell which call a return closes.                          *)
(***************************************************************************)
EXTENDS NwaProofs

-----------------------------------------------------------------------------
(* Union: what a run ends in tells which automaton it is of. *)
Disjoint(n, m) == n.states \cap m.states = {}

LEMMA Combined2 ==
    ASSUME NEW n, NEW m
    PROVE  /\ combineWith(n, m) = combineWith(m, n)
           /\ combineWith(n, m).states = n.states \cup m.states
           /\ combineWith(n, m).initial = n.initial \cup m.initial
           /\ combineWith(n, m).final = n.final \cup m.final
           /\ combineWith(n, m).calls = n.calls \cup m.calls
           /\ combineWith(n, m).internals = n.internals \cup m.internals
           /\ combineWith(n, m).returns = n.returns \cup m.returns
  <1> DEFINE u == combineWith(n, m)
  <1>1. u = Automaton(n.states \cup m.states, n.symbols \cup m.symbols, n.initial \cup m.initial, n.final \cup m.final,
                      n.calls \cup m.calls, n.internals \cup m.internals, n.returns \cup m.returns)
    BY DEF combineWith
  <1>2. combineWith(m, n) = u
    <2>1. /\ n.states \cup m.states = m.states \cup n.states /\ n.symbols \cup m.symbols = m.symbols \cup n.symbols
          /\ n.initial \cup m.initial = m.initial \cup n.initial /\ n.final \cup m.final = m.final \cup n.final
          /\ n.calls \cup m.calls = m.calls \cup n.calls /\ n.internals \cup m.internals = m.internals \cup n.internals
          /\ n.returns \cup m.returns = m.returns \cup n.returns
      OBVIOUS
    <2> QED  BY <2>1 DEF combineWith
  <1> HIDE DEF u
  <1>3. /\ u.states = n.states \cup m.states /\ u.initial = n.initial \cup m.initial /\ u.final = n.final \cup m.final
        /\ u.calls = n.calls \cup m.calls /\ u.internals = n.internals \cup m.internals
        /\ u.returns = n.returns \cup m.returns
    BY <1>1, Fields
  <1> QED  BY <1>2, <1>3 DEF u

LEMMA CombinedSound ==
    ASSUME NEW n, NEW m, Sound(n), Sound(m)
    PROVE  Sound(combineWith(n, m))
  <1>0. WellFormed(n) /\ WellFormed(m) /\ IsFiniteSet(n.states) /\ IsFiniteSet(m.states)
    BY DEF Sound, Finite
  <1>1. WellFormed(combineWith(n, m))
    BY <1>0, Combining, Zenon
  <1>2. IsFiniteSet(combineWith(n, m).states)
    <2>1. IsFiniteSet(n.states \cup m.states)
      BY <1>0, FS_Union
    <2>2. combineWith(n, m).states = n.states \cup m.states
      BY Combined2
    <2> QED  BY <2>1, <2>2
  <1>3. Shaped(combineWith(n, m))
    BY Combined2 DEF Sound, Shaped
  <1> QED  BY <1>1, <1>2, <1>3 DEF Sound, Finite

LEMMA UnionPart ==
    ASSUME NEW n, NEW m, Sound(n), Sound(m), Disjoint(n, m)
    PROVE  /\ PartOf(n, combineWith(n, m), n.states)
           /\ BackwardClosed(combineWith(n, m), n.states) /\ PredClosed(combineWith(n, m), n.states)
  <1> DEFINE u == combineWith(n, m)
             K == n.states
  <1>1. /\ u.initial = n.initial \cup m.initial /\ u.final = n.final \cup m.final
        /\ u.calls = n.calls \cup m.calls /\ u.internals = n.internals \cup m.internals
        /\ u.returns = n.returns \cup m.returns
    BY Combined2
  <1> HIDE DEF u
  <1>2. /\ n.initial \subseteq K /\ n.final \subseteq K /\ \A q \in m.initial \cup m.final : q \notin K
    BY TransEnds DEF Sound, Finite, Disjoint
  <1>3. \A t \in n.calls \cup n.internals \cup n.returns : Ends(t) \subseteq K
    BY DEF Sound, Finite, WellFormed, Within
  <1>4. \A t \in m.calls \cup m.internals \cup m.returns : t.from \notin K /\ t.to \notin K /\ t.to \in Ends(t)
    BY TransEnds DEF Sound, Finite, Disjoint, Ends
  <1>5. PartOf(n, u, K)
    BY <1>1, <1>2, <1>3, <1>4 DEF PartOf
  <1>6. \A t \in n.returns : t.pred \in K
    BY <1>3, ShapedEnds DEF Sound
  <1>7. BackwardClosed(u, K) /\ PredClosed(u, K)
    BY <1>1, <1>3, <1>4, <1>6, TransEnds DEF BackwardClosed, PredClosed, Sound, Finite
  <1> QED  BY <1>5, <1>7 DEF u

LEMMA UnionHalf ==
    ASSUME NEW n, NEW m, Sound(n), Sound(m), Disjoint(n, m), NEW w \in Seq(Positions),
           NEW c \in Live(combineWith(n, m), w, {WILD}, Len(w)), c[1] \in n.final
    PROVE  Accepts(n, w, {WILD})
  <1> DEFINE u == combineWith(n, m)
             K == n.states
             h == Collapse(u.states, K)
             p == c[1]
             s == c[2]
  <1>0. Len(w) \in Nat
    BY WordTyped
  <1>1. Sound(u) /\ WellFormed(u) /\ IsFiniteSet(u.states) /\ Finite(n)
    BY CombinedSound DEF Sound, Finite
  <1>2. K \in SUBSET u.states
    BY Combined2
  <1>3. p \in K
    BY TransEnds DEF Sound, Finite
  <1>4. h \in [u.states -> K] /\ \A q \in K : h[q] = q
    BY <1>2, <1>3, Collapsed
  <1>5. PartOf(n, u, K) /\ BackwardClosed(u, K) /\ PredClosed(u, K)
    BY UnionPart
  <1>6. c \in Confs(u)
    BY <1>0, <1>1, LiveTyped
  <1>7. c = <<p, s>> /\ p \in u.states /\ s \in Seq(u.states)
    BY <1>6 DEF Confs
  <1>8. c \in Live(u, w, {WILD}, Len(w))
    OBVIOUS
  <1> HIDE DEF u, h, p, s
  <1>9. PICK pend : pend = TRUE
    OBVIOUS
  <1>10. Carries(u, n, h, u.states, K, pend)
    BY <1>1, <1>2, <1>4, <1>5, <1>9, BackwardCarries
  <1>11. CarriedAt(u, n, h, u.states, K, w, Len(w))
    BY <1>1, <1>9, <1>10, Carried
  <1>12. <<h[p], Map(h, s)>> \in Live(n, w, {WILD}, Len(w))
    BY <1>3, <1>7, <1>8, <1>11 DEF CarriedAt
  <1> DEFINE d == <<h[p], Map(h, s)>>
  <1>13. d[1] \in n.final
    BY <1>3, <1>4 DEF p
  <1>14. d \in Live(n, w, {WILD}, Len(w))
    BY <1>12
  <1> HIDE DEF d
  <1> QED  BY <1>13, <1>14, AcceptsLive

(* union accepts what one of the two automata accepts, if they share no state. *)
LEMMA UnionWords ==
    ASSUME NEW n, NEW m, Sound(n), Sound(m), Disjoint(n, m)
    PROVE  Words(unionNwa(n, m)) = Words(n) \cup Words(m)
  <1> DEFINE u == combineWith(n, m)
  <1>1. unionNwa(n, m) = u
    BY DEF unionNwa
  <1>2. Includes(u, n) /\ Includes(u, m)
    BY Combined2 DEF Includes
  <1>3. Finite(u)
    BY CombinedSound DEF Sound
  <1>4. Words(n) \subseteq Words(u) /\ Words(m) \subseteq Words(u)
    BY <1>2, <1>3, IncludedWords
  <1>5. ASSUME NEW w \in Words(u) PROVE w \in Words(n) \cup Words(m)
    <2>1. w \in AllWords /\ Accepts(u, w, {WILD}) /\ w \in Seq(Positions)
      BY WordsAre, AllWordsAre
    <2>2. PICK c \in Live(u, w, {WILD}, Len(w)) : c[1] \in u.final
      BY <2>1, AcceptsLive
    <2>3. c[1] \in n.final \/ c[1] \in m.final
      BY <2>2, Combined2
    <2>4. u = combineWith(m, n) /\ Disjoint(m, n)
      BY Combined2 DEF Disjoint
    <2>5. Accepts(n, w, {WILD}) \/ Accepts(m, w, {WILD})
      BY <2>1, <2>2, <2>3, <2>4, UnionHalf
    <2> QED  BY <2>1, <2>5, WordsAre
  <1> QED  BY <1>1, <1>4, <1>5

-----------------------------------------------------------------------------
(* Quotient: a block has every run of its states. *)
QuoEdges(T, S) == {Edge(S, t.sym, S) : t \in T}
QuoReturns(T, S) == {Return(S, S, t.sym, S) : t \in T}
Merged(b, n, S) ==
    /\ b.states \subseteq {S} /\ (n.initial # {} => b.states = {S})
    /\ (n.initial # {} => b.initial = {S}) /\ (n.final # {} => b.final = {S})
    /\ b.calls = QuoEdges(n.calls, S) /\ b.internals = QuoEdges(n.internals, S)
    /\ b.returns = QuoReturns(n.returns, S)

MoreOf(b, n, Q, I, F) ==
    /\ WellFormed(b) /\ b.states = n.states \cup Q /\ b.initial = I /\ b.final = F
    /\ b.calls = n.calls /\ b.internals = n.internals /\ b.returns = n.returns

LEMMA MoreStates ==
    ASSUME NEW n, WellFormed(n), NEW Q
    PROVE  /\ MoreOf(addStates(n, Q), n, Q, n.initial, n.final)
           /\ MoreOf(addInitialStates(n, Q), n, Q, n.initial \cup Q, n.final)
           /\ MoreOf(addFinalStates(n, Q), n, Q, n.initial, n.final \cup Q)
  <1>1. \A b \in {addStates(n, Q), addInitialStates(n, Q), addFinalStates(n, Q)} :
          b.states = n.states \cup Q /\ b.calls = n.calls /\ b.internals = n.internals /\ b.returns = n.returns
    BY States
  <1>2. /\ WellFormed(addStates(n, Q)) /\ WellFormed(addInitialStates(n, Q)) /\ WellFormed(addFinalStates(n, Q))
        /\ addStates(n, Q).initial = n.initial /\ addFinalStates(n, Q).initial = n.initial
        /\ addInitialStates(n, Q).initial = n.initial \cup Q
        /\ addStates(n, Q).final = n.final /\ addInitialStates(n, Q).final = n.final
        /\ addFinalStates(n, Q).final = n.final \cup Q
    BY States
  <1> QED  BY <1>1, <1>2 DEF MoreOf

LEMMA BareFields ==
    /\ NoNwa.states = {} /\ NoNwa.initial = {} /\ NoNwa.final = {}
    /\ NoNwa.calls = {} /\ NoNwa.internals = {} /\ NoNwa.returns = {} /\ WellFormed(NoNwa)
  BY Fields, NoNwaWellFormed DEF NoNwa

LEMMA QuotientFields ==
    ASSUME NEW n, Sound(n)
    PROVE  Merged(quotient(n, {n.states}), n, n.states)
  <1> DEFINE S == n.states
             of(q) == CHOOSE B \in {S} : q \in B
             I == {of(q) : q \in n.initial}
             F == {of(q) : q \in n.final}
             edges(T) == {Edge(of(t.from), t.sym, of(t.to)) : t \in T}
             returns == {Return(of(t.from), of(t.pred), t.sym, of(t.to)) : t \in n.returns}
             L == QuoEdges(n.internals, S)
             C == QuoEdges(n.calls, S)
             R == QuoReturns(n.returns, S)
             first == addInitialStates(NoNwa, I)
             empty == addFinalStates(first, F)
             b == quotient(n, {S})
  <1>1. \A q \in S : of(q) = S
    OBVIOUS
  <1>2. /\ \A t \in n.calls \cup n.internals \cup n.returns : t.from \in S /\ t.to \in S
        /\ \A t \in n.returns : t.pred \in S
        /\ n.initial \subseteq S /\ n.final \subseteq S
    BY StatesOf
  <1>3. edges(n.internals) = L /\ edges(n.calls) = C /\ returns = R
    <2> HIDE DEF of
    <2> QED  BY <1>1, <1>2 DEF QuoEdges, QuoReturns
  <1>4. I \subseteq {S} /\ F \subseteq {S} /\ (n.initial # {} => I = {S}) /\ (n.final # {} => F = {S})
    <2> HIDE DEF of
    <2> QED  BY <1>1, <1>2
  <1>5. b = Build(empty, edges(n.internals), edges(n.calls), returns)
    BY DEF quotient, Build
  <1>6. Visible(C) /\ Visible(R)
    <2>1. \A t \in n.calls \cup n.returns : t.sym # EPSILON
      BY WellFormedParts, StatesOf DEF Visible
    <2> QED  BY <2>1, EdgeParts, ReturnParts DEF Visible, QuoEdges, QuoReturns
  <1>7. Touched(L) \subseteq {S} /\ Touched(C) \subseteq {S} /\ Touched(R) \subseteq {S}
    BY EdgeEnds, ReturnEnds DEF Touched, QuoEdges, QuoReturns
  <1> HIDE DEF I, F, edges, returns, L, C, R
  <1>8. WellFormed(first) /\ first.states = I /\ first.initial = I /\ first.final = {}
        /\ first.calls = {} /\ first.internals = {} /\ first.returns = {}
    <2>1. MoreOf(first, NoNwa, I, NoNwa.initial \cup I, NoNwa.final)
      BY BareFields, MoreStates
    <2> HIDE DEF first
    <2> QED  BY <2>1, BareFields DEF MoreOf
  <1> HIDE DEF first
  <1>9. WellFormed(empty) /\ empty.states = I \cup F /\ empty.initial = I /\ empty.final = F
        /\ empty.calls = {} /\ empty.internals = {} /\ empty.returns = {}
    <2>1. MoreOf(empty, first, F, first.initial, first.final \cup F)
      BY <1>8, MoreStates
    <2> HIDE DEF empty
    <2> QED  BY <1>8, <2>1 DEF MoreOf
  <1> HIDE DEF empty, b
  <1>10. Extends(b, empty, L, C, R)
    BY <1>3, <1>5, <1>6, <1>9, BuiltFields
  <1>11. b.states = I \cup F \cup Touched(L) \cup Touched(C) \cup Touched(R) /\ b.initial = I /\ b.final = F
         /\ b.calls = C /\ b.internals = L /\ b.returns = R
    BY <1>9, <1>10 DEF Extends
  <1>12. b.states \subseteq {S} /\ (n.initial # {} => b.states = {S})
    BY <1>4, <1>7, <1>11
  <1> QED  BY <1>4, <1>11, <1>12 DEF Merged, b, C, L, R

(* The quotient by a single block accepts what the automaton accepts. *)
LEMMA QuotientWords ==
    ASSUME NEW n, Sound(n)
    PROVE  Words(n) \subseteq Words(quotient(n, {n.states}))
  <1> DEFINE S == n.states
             b == quotient(n, {S})
             h == [q \in S |-> S]
  <1>1. Merged(b, n, S)
    BY QuotientFields
  <1>2. /\ \A t \in n.calls \cup n.internals \cup n.returns : t.from \in S /\ t.to \in S
        /\ \A t \in n.returns : t.pred \in S
        /\ n.initial \subseteq S /\ n.final \subseteq S
    BY StatesOf
  <1>3. Finite(b)
    <2>1. WellFormed(b)
      BY Quotiented, StatesOf
    <2>2. IsFiniteSet({S})
      BY FS_Singleton
    <2>3. IsFiniteSet(b.states)
      BY <1>1, <2>2, FS_Subset DEF Merged
    <2> QED  BY <2>1, <2>3 DEF Finite
  <1>4. Finite(n)
    BY DEF Sound
  <1>5. CASE n.initial = {}
    <2>1. Words(n) = {}
      BY <1>4, <1>5, NoStart, WordsAre, AllWordsAre
    <2> QED  BY <2>1
  <1>6. CASE n.initial # {}
    <2>1. b.states = {S} /\ b.initial = {S} /\ (n.final # {} => b.final = {S})
          /\ b.calls = QuoEdges(n.calls, S) /\ b.internals = QuoEdges(n.internals, S)
          /\ b.returns = QuoReturns(n.returns, S)
      BY <1>1, <1>6 DEF Merged
    <2> HIDE DEF b
    <2>2. Takes(h, S, b.states) /\ \A q \in S : h[q] = S
      BY <2>1 DEF Takes
    <2> HIDE DEF h
    <2>3. EdgesOnto(n.calls, b.calls, h) /\ EdgesOnto(n.internals, b.internals, h)
      BY <1>2, <2>1, <2>2, EdgeParts DEF EdgesOnto, QuoEdges
    <2>4. ReturnsOnto(n, b, h)
      BY <1>2, <2>1, <2>2, ReturnParts DEF ReturnsOnto, QuoReturns
    <2>5. Onto(n, b, h)
      BY <1>2, <2>1, <2>2, <2>3, <2>4 DEF Onto
    <2> QED  BY <1>3, <1>4, <2>5, OntoWords DEF b
  <1> QED  BY <1>5, <1>6

-----------------------------------------------------------------------------
(* Intersection: a run of the product is a run of each, and two runs on    *)
(* one word are a run of the product.                                      *)
ProdStep(n, m, t, u, s, q) == s \in transitionIntersect(t.sym, u.sym) /\ q \in Both(n, m, <<t.to, u.to>>)
IsProdEdge(n, m, S, T, V, e) ==
    \E t \in S, u \in T : \E s, q :
      <<t.from, u.from>> \in V /\ ProdStep(n, m, t, u, s, q) /\ e = Edge(<<t.from, u.from>>, s, q)
IsProdReturn(n, m, V, e) ==
    \E t \in n.returns, u \in m.returns : \E s, q :
      <<t.from, u.from>> \in V /\ <<t.pred, u.pred>> \in V /\ ProdStep(n, m, t, u, s, q)
      /\ e = Return(<<t.from, u.from>>, <<t.pred, u.pred>>, s, q)

LEMMA ProdEdgeIn ==
    ASSUME NEW n, NEW m, NEW x, NEW e
    PROVE  /\ e \in ProdEdges(n, m, x) <=> \E s, q : ProdStep(n, m, x[1], x[2], s, q) /\ e = ProdEdge(x, s, q)
           /\ e \in ProdReturns(n, m, x) <=> \E s, q : ProdStep(n, m, x[1], x[2], s, q) /\ e = ProdReturn(x, s, q)
  BY DEF ProdEdges, ProdReturns, ProdStep

LEMMA EdgesOfIn ==
    ASSUME NEW n, NEW m, NEW S, NEW T, NEW V, NEW e
    PROVE  e \in EdgesOf(n, m, S, T, V) <=> IsProdEdge(n, m, S, T, V, e)
  <1> DEFINE pairs == {y \in S \X T : <<y[1].from, y[2].from>> \in V}
  <1>1. EdgesOf(n, m, S, T, V) = UNION {ProdEdges(n, m, x) : x \in pairs}
    BY DEF EdgesOf, ProdEdges, ProdEdge
  <1>2. e \in EdgesOf(n, m, S, T, V) <=> \E x \in pairs : e \in ProdEdges(n, m, x)
    <2> HIDE DEF pairs
    <2> QED  BY <1>1
  <1>3. ASSUME NEW x \in pairs, e \in ProdEdges(n, m, x) PROVE IsProdEdge(n, m, S, T, V, e)
    <2>1. PICK s, q : ProdStep(n, m, x[1], x[2], s, q) /\ e = ProdEdge(x, s, q)
      BY <1>3, ProdEdgeIn
    <2>2. x[1] \in S /\ x[2] \in T /\ <<x[1].from, x[2].from>> \in V
      OBVIOUS
    <2> QED  BY <2>1, <2>2 DEF IsProdEdge, ProdEdge
  <1>4. ASSUME IsProdEdge(n, m, S, T, V, e) PROVE \E x \in pairs : e \in ProdEdges(n, m, x)
    <2>0. PICK t \in S, u \in T : \E s, q :
            <<t.from, u.from>> \in V /\ ProdStep(n, m, t, u, s, q) /\ e = Edge(<<t.from, u.from>>, s, q)
      BY <1>4 DEF IsProdEdge
    <2>1. PICK s, q : <<t.from, u.from>> \in V /\ ProdStep(n, m, t, u, s, q) /\ e = Edge(<<t.from, u.from>>, s, q)
      BY <2>0
    <2> DEFINE x == <<t, u>>
    <2>2. x \in pairs /\ x[1] = t /\ x[2] = u
      BY <2>1
    <2> HIDE DEF x
    <2>3. e = ProdEdge(x, s, q)
      BY <2>1, <2>2 DEF ProdEdge
    <2>4. e \in ProdEdges(n, m, x)
      BY <2>1, <2>2, <2>3, ProdEdgeIn
    <2> QED  BY <2>2, <2>4
  <1> QED  BY <1>2, <1>3, <1>4

LEMMA ReturnsOfIn ==
    ASSUME NEW n, NEW m, NEW V, NEW e
    PROVE  e \in ReturnsOf(n, m, V) <=> IsProdReturn(n, m, V, e)
  <1> DEFINE pairs == {y \in n.returns \X m.returns :
                         {<<y[1].from, y[2].from>>, <<y[1].pred, y[2].pred>>} \subseteq V}
  <1>1. ReturnsOf(n, m, V) = UNION {ProdReturns(n, m, x) : x \in pairs}
    BY DEF ReturnsOf, ProdReturns, ProdReturn
  <1>2. e \in ReturnsOf(n, m, V) <=> \E x \in pairs : e \in ProdReturns(n, m, x)
    <2> HIDE DEF pairs
    <2> QED  BY <1>1
  <1>3. ASSUME NEW x \in pairs, e \in ProdReturns(n, m, x) PROVE IsProdReturn(n, m, V, e)
    <2>1. PICK s, q : ProdStep(n, m, x[1], x[2], s, q) /\ e = ProdReturn(x, s, q)
      BY <1>3, ProdEdgeIn
    <2>2. x[1] \in n.returns /\ x[2] \in m.returns /\ <<x[1].from, x[2].from>> \in V /\ <<x[1].pred, x[2].pred>> \in V
      OBVIOUS
    <2> QED  BY <2>1, <2>2 DEF IsProdReturn, ProdReturn
  <1>4. ASSUME IsProdReturn(n, m, V, e) PROVE \E x \in pairs : e \in ProdReturns(n, m, x)
    <2>0. PICK t \in n.returns, u \in m.returns : \E s, q :
            /\ <<t.from, u.from>> \in V /\ <<t.pred, u.pred>> \in V /\ ProdStep(n, m, t, u, s, q)
            /\ e = Return(<<t.from, u.from>>, <<t.pred, u.pred>>, s, q)
      BY <1>4 DEF IsProdReturn
    <2>1. PICK s, q :
            /\ <<t.from, u.from>> \in V /\ <<t.pred, u.pred>> \in V /\ ProdStep(n, m, t, u, s, q)
            /\ e = Return(<<t.from, u.from>>, <<t.pred, u.pred>>, s, q)
      BY <2>0
    <2> DEFINE x == <<t, u>>
    <2>2. x \in pairs /\ x[1] = t /\ x[2] = u
      BY <2>1
    <2> HIDE DEF x
    <2>3. e = ProdReturn(x, s, q)
      BY <2>1, <2>2 DEF ProdReturn
    <2>4. e \in ProdReturns(n, m, x)
      BY <2>1, <2>2, <2>3, ProdEdgeIn
    <2> QED  BY <2>2, <2>4
  <1> QED  BY <1>2, <1>3, <1>4

LEMMA BothIn ==
    ASSUME NEW n, NEW m, NEW x, NEW y, NEW q
    PROVE  q \in Both(n, m, <<x, y>>)
             <=> q = <<q[1], q[2]>> /\ q[1] \in epsilonClosure(n, x) /\ q[2] \in epsilonClosure(m, y)
  <1>1. Both(n, m, <<x, y>>) = epsilonClosure(n, x) \X epsilonClosure(m, y)
    BY DEF Both
  <1> QED  BY <1>1

(* The states of a product. *)
ProdStates(n, m) == n.states \X m.states
ProdMove(n, m, V, q) ==
    \/ \E e : IsProdEdge(n, m, n.calls, m.calls, V, e) /\ q = e.to
    \/ \E e : IsProdEdge(n, m, n.internals, m.internals, V, e) /\ q = e.to
    \/ \E e : IsProdReturn(n, m, V, e) /\ q = e.to
ProdRounds(n, m) == [V \in SUBSET ProdStates(n, m) |-> Visited(n, m, V)]
ProdIterates(n, m, f) ==
    f = [V \in SUBSET ProdStates(n, m) |-> IF Visited(n, m, V) = V THEN V ELSE f[Visited(n, m, V)]]
VisitedFrom(n, m, start) == Fix(LAMBDA V : Visited(n, m, V), SUBSET ProdStates(n, m), start)

LEMMA VisitedIn ==
    ASSUME NEW n, NEW m, NEW V, NEW q
    PROVE  q \in Visited(n, m, V) <=> q \in V \/ ProdMove(n, m, V, q)
  <1> DEFINE C == EdgesOf(n, m, n.calls, m.calls, V)
             L == EdgesOf(n, m, n.internals, m.internals, V)
             R == ReturnsOf(n, m, V)
  <1>1. Visited(n, m, V) = V \cup {t.to : t \in C \cup L \cup R}
    BY DEF Visited
  <1>2. \A e : /\ e \in C <=> IsProdEdge(n, m, n.calls, m.calls, V, e)
               /\ e \in L <=> IsProdEdge(n, m, n.internals, m.internals, V, e)
               /\ e \in R <=> IsProdReturn(n, m, V, e)
    BY EdgesOfIn, ReturnsOfIn
  <1> HIDE DEF C, L, R
  <1> QED  BY <1>1, <1>2 DEF ProdMove

LEMMA ProdMoveIn ==
    ASSUME NEW n, NEW m, Sound(n), Sound(m), NEW V, NEW q, ProdMove(n, m, V, q)
    PROVE  q \in ProdStates(n, m)
  <1>1. ASSUME NEW t, NEW u, t.to \in n.states, u.to \in m.states, NEW s, ProdStep(n, m, t, u, s, q)
        PROVE  q \in ProdStates(n, m)
    <2>1. q = <<q[1], q[2]>> /\ q[1] \in epsilonClosure(n, t.to) /\ q[2] \in epsilonClosure(m, u.to)
      BY <1>1, BothIn DEF ProdStep
    <2>2. q[1] \in n.states /\ q[2] \in m.states
      BY <1>1, <2>1, ClosureFacts, StatesOf
    <2> QED  BY <2>1, <2>2 DEF ProdStates
  <1>2. ASSUME NEW S, NEW T, \A t \in S : t.to \in n.states, \A u \in T : u.to \in m.states,
               NEW e, IsProdEdge(n, m, S, T, V, e), q = e.to
        PROVE  q \in ProdStates(n, m)
    BY <1>1, <1>2, EdgeParts DEF IsProdEdge
  <1>3. ASSUME NEW e, IsProdReturn(n, m, V, e), q = e.to PROVE q \in ProdStates(n, m)
    BY <1>1, <1>3, ReturnParts, StatesOf DEF IsProdReturn
  <1> QED  BY <1>2, <1>3, StatesOf DEF ProdMove

LEMMA ProdMoveMore ==
    ASSUME NEW n, NEW m, NEW V, NEW W, V \subseteq W, NEW q, ProdMove(n, m, V, q)
    PROVE  ProdMove(n, m, W, q)
  <1>1. \A S, T, e : IsProdEdge(n, m, S, T, V, e) => IsProdEdge(n, m, S, T, W, e)
    BY DEF IsProdEdge
  <1>2. \A e : IsProdReturn(n, m, V, e) => IsProdReturn(n, m, W, e)
    BY DEF IsProdReturn
  <1> QED  BY <1>1, <1>2 DEF ProdMove

LEMMA VisitedFacts ==
    ASSUME NEW n, NEW m, Sound(n), Sound(m), NEW start \in SUBSET ProdStates(n, m)
    PROVE  /\ VisitedFrom(n, m, start) \in SUBSET ProdStates(n, m)
           /\ start \subseteq VisitedFrom(n, m, start)
           /\ Visited(n, m, VisitedFrom(n, m, start)) = VisitedFrom(n, m, start)
  <1> DEFINE X == ProdStates(n, m)
             R == ProdRounds(n, m)
             from == CHOOSE f : ProdIterates(n, m, f)
  <1>1. \A V \in SUBSET X : R[V] = Visited(n, m, V)
    BY DEF ProdRounds
  <1>2. \A V \in SUBSET X : Visited(n, m, V) \in SUBSET X /\ V \subseteq Visited(n, m, V)
    BY VisitedIn, ProdMoveIn
  <1>3. \A V \in SUBSET X, W \in SUBSET X : V \subseteq W => Visited(n, m, V) \subseteq Visited(n, m, W)
    BY VisitedIn, ProdMoveMore
  <1>4. R \in [SUBSET X -> SUBSET X]
    BY <1>2 DEF ProdRounds
  <1> HIDE DEF R, X
  <1>5. Adds(R, X)
    BY <1>1, <1>2, <1>3, <1>4 DEF Adds
  <1>6. IsFiniteSet(X)
    BY StatesOf, FS_Product DEF X, ProdStates
  <1>7. VisitedFrom(n, m, start) = from[start]
    BY DEF VisitedFrom, Fix, ProdIterates
  <1>8. ProdIterates(n, m, from)
    <2>1. PICK f : Iterates(f, R, X)
      BY <1>5, RoundsExist
    <2>2. f = [V \in SUBSET X |-> IF Visited(n, m, V) = V THEN V ELSE f[Visited(n, m, V)]]
      BY <1>1, <2>1 DEF Iterates
    <2> QED  BY <2>2 DEF ProdIterates, X
  <1> HIDE DEF from
  <1>9. Goes(from, R, X)
    BY <1>1, <1>8 DEF ProdIterates, Goes, X
  <1>10. from[start] \in SUBSET X /\ start \subseteq from[start] /\ R[from[start]] = from[start]
    <2>1. start \in SUBSET X
      BY DEF X
    <2> QED  BY <1>5, <1>6, <1>9, <2>1, Rounded
  <1> QED  BY <1>1, <1>7, <1>10 DEF X

ProdStart(n, m) == UNION {Both(n, m, q) : q \in n.initial \X m.initial}
IsProduct(p, n, m) ==
    /\ Finite(p) /\ Visible(p.internals)
    /\ p.states \subseteq ProdStates(n, m) /\ p.initial = ProdStart(n, m) /\ p.initial \subseteq p.states
    /\ p.final = p.states \cap (n.final \X m.final)
    /\ p.calls = EdgesOf(n, m, n.calls, m.calls, p.states)
    /\ p.internals = EdgesOf(n, m, n.internals, m.internals, p.states)
    /\ p.returns = ReturnsOf(n, m, p.states)

LEMMA ProdStartIn ==
    ASSUME NEW n, NEW m, NEW q
    PROVE  q \in ProdStart(n, m) <=> \E i \in n.initial, j \in m.initial :
             q = <<q[1], q[2]>> /\ q[1] \in epsilonClosure(n, i) /\ q[2] \in epsilonClosure(m, j)
  <1>1. q \in ProdStart(n, m) <=> \E x \in n.initial \X m.initial : q \in Both(n, m, x)
    BY DEF ProdStart
  <1>2. ASSUME NEW x \in n.initial \X m.initial, q \in Both(n, m, x)
        PROVE  \E i \in n.initial, j \in m.initial :
                 q = <<q[1], q[2]>> /\ q[1] \in epsilonClosure(n, i) /\ q[2] \in epsilonClosure(m, j)
    <2>1. x = <<x[1], x[2]>> /\ x[1] \in n.initial /\ x[2] \in m.initial
      OBVIOUS
    <2>2. q \in Both(n, m, <<x[1], x[2]>>)
      BY <1>2, <2>1
    <2> QED  BY <2>1, <2>2, BothIn
  <1>3. ASSUME NEW i \in n.initial, NEW j \in m.initial,
               q = <<q[1], q[2]>>, q[1] \in epsilonClosure(n, i), q[2] \in epsilonClosure(m, j)
        PROVE  \E x \in n.initial \X m.initial : q \in Both(n, m, x)
    <2>1. q \in Both(n, m, <<i, j>>)
      BY <1>3, BothIn
    <2> QED  BY <2>1
  <1> QED  BY <1>1, <1>2, <1>3

LEMMA ProdStarts ==
    ASSUME NEW n, NEW m, Sound(n), Sound(m)
    PROVE  ProdStart(n, m) \in SUBSET ProdStates(n, m)
  <1>1. ASSUME NEW q \in ProdStart(n, m) PROVE q \in ProdStates(n, m)
    <2>1. PICK i \in n.initial, j \in m.initial :
            q = <<q[1], q[2]>> /\ q[1] \in epsilonClosure(n, i) /\ q[2] \in epsilonClosure(m, j)
      BY ProdStartIn
    <2>2. q[1] \in n.states /\ q[2] \in m.states
      BY <2>1, ClosureFacts, StatesOf
    <2> QED  BY <2>1, <2>2 DEF ProdStates
  <1> QED  BY <1>1

LEMMA IntersectFields ==
    ASSUME NEW n, NEW m, Sound(n), Sound(m)
    PROVE  IsProduct(intersect(n, m), n, m)
  <1> DEFINE start == ProdStart(n, m)
             V == VisitedFrom(n, m, start)
             finals == V \cap (n.final \X m.final)
             L == EdgesOf(n, m, n.internals, m.internals, V)
             C == EdgesOf(n, m, n.calls, m.calls, V)
             R == ReturnsOf(n, m, V)
             first == addStates(NoNwa, V)
             second == addInitialStates(first, start)
             empty == addFinalStates(second, finals)
             p == intersect(n, m)
  <1>1. p = Product(n, m, start, V)
    BY DEF intersect, Intersect, VisitedFrom, ProdStart, ProdStates
  <1>2. p = Build(empty, L, C, R)
    BY <1>1 DEF Product, Build
  <1>3. V \in SUBSET ProdStates(n, m) /\ start \subseteq V /\ Visited(n, m, V) = V
    BY ProdStarts, VisitedFacts
  <1> HIDE DEF p, V
  <1>4. Visible(C) /\ Visible(L) /\ Visible(R)
    <2>1. \A t, u, s, q : ProdStep(n, m, t, u, s, q) => s # EPSILON
      BY Shared DEF ProdStep
    <2>2. \A S, T, e : IsProdEdge(n, m, S, T, V, e) => e.sym # EPSILON
      BY <2>1, EdgeParts DEF IsProdEdge
    <2>3. \A e : IsProdReturn(n, m, V, e) => e.sym # EPSILON
      BY <2>1, ReturnParts DEF IsProdReturn
    <2> QED  BY <2>2, <2>3, EdgesOfIn, ReturnsOfIn DEF Visible
  <1>5. Touched(L) \subseteq V /\ Touched(C) \subseteq V /\ Touched(R) \subseteq V
    <2>1. \A q : ProdMove(n, m, V, q) => q \in V
      BY <1>3, VisitedIn
    <2>2. ASSUME NEW e, IsProdEdge(n, m, n.calls, m.calls, V, e) \/ IsProdEdge(n, m, n.internals, m.internals, V, e)
          PROVE  Ends(e) \subseteq V
      <3>1. e.to \in V
        BY <2>1, <2>2 DEF ProdMove
      <3>2. ASSUME NEW S, NEW T, IsProdEdge(n, m, S, T, V, e) PROVE e.from \in V /\ Ends(e) = {e.from, e.to}
        <4>1. PICK x, s, q : x \in V /\ e = Edge(x, s, q)
          BY <3>2 DEF IsProdEdge
        <4>2. e.from = x /\ e.to = q /\ Ends(e) = {x, q}
          BY <4>1, EdgeEnds
        <4> QED  BY <4>1, <4>2
      <3> QED  BY <2>2, <3>1, <3>2
    <2>3. ASSUME NEW e, IsProdReturn(n, m, V, e) PROVE Ends(e) \subseteq V
      <3>1. e.to \in V
        BY <2>1, <2>3 DEF ProdMove
      <3>2. e.from \in V /\ e.pred \in V /\ Ends(e) = {e.from, e.pred, e.to}
        BY <2>3, ReturnEnds DEF IsProdReturn
      <3> QED  BY <3>1, <3>2
    <2> QED  BY <2>2, <2>3, EdgesOfIn, ReturnsOfIn DEF Touched
  <1> HIDE DEF L, C, R, finals, start
  <1>6. WellFormed(first) /\ first.states = V /\ first.initial = {} /\ first.final = {}
        /\ first.calls = {} /\ first.internals = {} /\ first.returns = {}
    <2>1. MoreOf(first, NoNwa, V, NoNwa.initial, NoNwa.final)
      BY BareFields, MoreStates
    <2> HIDE DEF first
    <2> QED  BY <2>1, BareFields DEF MoreOf
  <1> HIDE DEF first
  <1>7. WellFormed(second) /\ second.states = V /\ second.initial = start /\ second.final = {}
        /\ second.calls = {} /\ second.internals = {} /\ second.returns = {}
    <2>1. MoreOf(second, first, start, first.initial \cup start, first.final)
      BY <1>6, MoreStates
    <2> HIDE DEF second
    <2> QED  BY <1>3, <1>6, <2>1 DEF MoreOf
  <1> HIDE DEF second
  <1>8. WellFormed(empty) /\ empty.states = V /\ empty.initial = start /\ empty.final = finals
        /\ empty.calls = {} /\ empty.internals = {} /\ empty.returns = {}
    <2>1. MoreOf(empty, second, finals, second.initial, second.final \cup finals)
      BY <1>7, MoreStates
    <2> HIDE DEF empty
    <2>2. finals \subseteq V
      BY DEF finals
    <2> QED  BY <1>7, <2>1, <2>2 DEF MoreOf
  <1> HIDE DEF empty
  <1>9. WellFormed(p) /\ Extends(p, empty, L, C, R)
    BY <1>2, <1>4, <1>8, BuiltFields
  <1>10. p.states = V /\ p.initial = start /\ p.final = finals /\ p.calls = C /\ p.internals = L /\ p.returns = R
    BY <1>5, <1>8, <1>9 DEF Extends
  <1>11. IsFiniteSet(V)
    <2>1. IsFiniteSet(ProdStates(n, m))
      BY StatesOf, FS_Product DEF ProdStates
    <2> QED  BY <1>3, <2>1, FS_Subset
  <1> QED  BY <1>3, <1>4, <1>9, <1>10, <1>11 DEF IsProduct, Finite, p, finals, C, L, R, start

(* A map of the states of an automaton without EPSILON transitions that    *)
(* takes each transition to one and what EPSILON transitions add to it.    *)
Projects(p, a, h) ==
    /\ Takes(h, p.states, a.states)
    /\ \A j \in p.initial : \E i \in a.initial : h[j] \in epsilonClosure(a, i)
    /\ \A q \in p.final : h[q] \in a.final
    /\ \A t \in p.calls : \E u \in a.calls : Alike(u, t, h) /\ OnTo(a, u, h, t.to)
    /\ \A t \in p.internals : \E u \in a.internals : Alike(u, t, h) /\ OnTo(a, u, h, t.to)
    /\ \A t \in p.returns : t.pred \in p.states
         /\ \E u \in a.returns : Alike(u, t, h) /\ u.pred = h[t.pred] /\ OnTo(a, u, h, t.to)

LEMMA ProjectsAccepts ==
    ASSUME NEW p, NEW a, Finite(p), Visible(p.internals), Sound(a), NEW h, Projects(p, a, h),
           NEW w \in Seq(Positions), StartsClosed(a) \/ ~PendingReturn(w), Accepts(p, w, {WILD})
    PROVE  Accepts(a, w, {WILD})
  <1> DEFINE Q == p.states
  <1>1. WellFormed(p) /\ IsFiniteSet(Q) /\ p.initial \subseteq Q /\ p.final \subseteq Q
        /\ \A t \in p.calls \cup p.internals \cup p.returns : t.from \in Q /\ t.to \in Q
    BY TransEnds DEF Finite
  <1>2. \A q \in Q : epsilonClosure(p, q) = {q}
    BY <1>1, ClosureNone
  <1>3. PICK pend : pend = StartsClosed(a)
    OBVIOUS
  <1>4. Takes(h, Q, a.states)
    BY DEF Projects
  <1> HIDE DEF Q
  <1>5. Backwards(p, Q)
    BY <1>1 DEF Backwards
  <1>6. CarriesStart(p, a, h, Q, Q)
    BY <1>1, <1>2 DEF CarriesStart, Projects
  <1>7. CarriesEdges(p, a, h, Q, Q, p.calls, a.calls) /\ CarriesEdges(p, a, h, Q, Q, p.internals, a.internals)
    BY <1>1, <1>2 DEF CarriesEdges, Projects
  <1>8. CarriesReturns(p, a, h, Q, Q)
    BY <1>1, <1>2 DEF CarriesReturns, Projects
  <1>9. ASSUME StartsClosed(a) PROVE CarriesPending(p, a, h, Q, Q)
    <2>1. \A j \in p.initial : h[j] \in a.initial
      BY <1>9 DEF StartsClosed, Projects
    <2> QED  BY <1>1, <1>2, <2>1 DEF CarriesPending, Projects
  <1>10. Carries(p, a, h, Q, Q, pend)
    BY <1>3, <1>4, <1>5, <1>6, <1>7, <1>8, <1>9 DEF Carries, Q
  <1>11. \A q \in Q \cap Q : q \in p.final => h[q] \in a.final
    BY DEF Projects
  <1> QED  BY <1>1, <1>3, <1>10, <1>11, Carried, ZenonT(30) DEF Q

LEMMA ProdEdgeParts ==
    ASSUME NEW n, NEW m, NEW S, NEW T, NEW V, NEW e, IsProdEdge(n, m, S, T, V, e)
    PROVE  \E t \in S, u \in T :
             /\ e.from = <<t.from, u.from>> /\ t.sym \in {e.sym, WILD} /\ u.sym \in {e.sym, WILD}
             /\ e.to[1] \in epsilonClosure(n, t.to) /\ e.to[2] \in epsilonClosure(m, u.to)
  <1>1. PICK t \in S, u \in T : \E s, q :
          ProdStep(n, m, t, u, s, q) /\ e = Edge(<<t.from, u.from>>, s, q)
    BY DEF IsProdEdge
  <1>2. PICK s, q : ProdStep(n, m, t, u, s, q) /\ e = Edge(<<t.from, u.from>>, s, q)
    BY <1>1
  <1>3. e.from = <<t.from, u.from>> /\ e.sym = s /\ e.to = q
    BY <1>2, EdgeParts
  <1>4. t.sym \in {s, WILD} /\ u.sym \in {s, WILD}
    BY <1>2 DEF ProdStep, transitionIntersect
  <1>5. q[1] \in epsilonClosure(n, t.to) /\ q[2] \in epsilonClosure(m, u.to)
    BY <1>2, BothIn DEF ProdStep
  <1> QED  BY <1>3, <1>4, <1>5

LEMMA ProdReturnParts ==
    ASSUME NEW n, NEW m, NEW V, NEW e, IsProdReturn(n, m, V, e)
    PROVE  e.pred \in V /\ \E t \in n.returns, u \in m.returns :
             /\ e.from = <<t.from, u.from>> /\ t.sym \in {e.sym, WILD} /\ u.sym \in {e.sym, WILD}
             /\ e.pred = <<t.pred, u.pred>>
             /\ e.to[1] \in epsilonClosure(n, t.to) /\ e.to[2] \in epsilonClosure(m, u.to)
  <1>1. PICK t \in n.returns, u \in m.returns : \E s, q :
          <<t.pred, u.pred>> \in V /\ ProdStep(n, m, t, u, s, q)
          /\ e = Return(<<t.from, u.from>>, <<t.pred, u.pred>>, s, q)
    BY DEF IsProdReturn
  <1>2. PICK s, q : ProdStep(n, m, t, u, s, q) /\ e = Return(<<t.from, u.from>>, <<t.pred, u.pred>>, s, q)
    BY <1>1
  <1>3. e.from = <<t.from, u.from>> /\ e.pred = <<t.pred, u.pred>> /\ e.sym = s /\ e.to = q
    BY <1>2, ReturnParts
  <1>4. t.sym \in {s, WILD} /\ u.sym \in {s, WILD}
    BY <1>2 DEF ProdStep, transitionIntersect
  <1>5. q[1] \in epsilonClosure(n, t.to) /\ q[2] \in epsilonClosure(m, u.to)
    BY <1>2, BothIn DEF ProdStep
  <1> QED  BY <1>1, <1>3, <1>4, <1>5

FirstOf(p) == [q \in p.states |-> q[1]]
SecondOf(p) == [q \in p.states |-> q[2]]

LEMMA ProductProjects ==
    ASSUME NEW p, NEW n, NEW m, Sound(n), Sound(m), IsProduct(p, n, m)
    PROVE  Projects(p, n, FirstOf(p)) /\ Projects(p, m, SecondOf(p))
  <1> DEFINE Q == p.states
             f == FirstOf(p)
             g == SecondOf(p)
  <1>1. \A q \in Q : f[q] = q[1] /\ g[q] = q[2] /\ q[1] \in n.states /\ q[2] \in m.states
    BY DEF FirstOf, SecondOf, IsProduct, ProdStates
  <1>2. Takes(f, Q, n.states) /\ Takes(g, Q, m.states)
    BY <1>1 DEF Takes, FirstOf, SecondOf
  <1>3. /\ p.initial \subseteq Q /\ \A j \in p.initial : j \in ProdStart(n, m)
        /\ p.final = Q \cap (n.final \X m.final)
        /\ \A t \in p.calls : IsProdEdge(n, m, n.calls, m.calls, Q, t)
        /\ \A t \in p.internals : IsProdEdge(n, m, n.internals, m.internals, Q, t)
        /\ \A t \in p.returns : IsProdReturn(n, m, Q, t)
    BY EdgesOfIn, ReturnsOfIn DEF IsProduct
  <1>4. /\ \A t \in p.calls \cup p.internals \cup p.returns : t.from \in Q /\ t.to \in Q
    BY TransEnds DEF IsProduct, Finite
  <1> HIDE DEF f, g, Q
  <1>5. \A j \in p.initial : /\ \E i \in n.initial : f[j] \in epsilonClosure(n, i)
                             /\ \E i \in m.initial : g[j] \in epsilonClosure(m, i)
    BY <1>1, <1>3, ProdStartIn
  <1>6. \A q \in p.final : f[q] \in n.final /\ g[q] \in m.final
    BY <1>1, <1>3
  <1>7. ASSUME NEW S, NEW T, NEW t, IsProdEdge(n, m, S, T, Q, t), t.from \in Q, t.to \in Q
        PROVE  /\ \E u \in S : Alike(u, t, f) /\ OnTo(n, u, f, t.to)
               /\ \E u \in T : Alike(u, t, g) /\ OnTo(m, u, g, t.to)
    <2>1. PICK x \in S, y \in T :
             /\ t.from = <<x.from, y.from>> /\ x.sym \in {t.sym, WILD} /\ y.sym \in {t.sym, WILD}
             /\ t.to[1] \in epsilonClosure(n, x.to) /\ t.to[2] \in epsilonClosure(m, y.to)
      BY <1>7, ProdEdgeParts
    <2>2. f[t.from] = x.from /\ g[t.from] = y.from /\ f[t.to] = t.to[1] /\ g[t.to] = t.to[2]
      BY <1>1, <1>7, <2>1
    <2> QED  BY <2>1, <2>2 DEF Alike, OnTo
  <1>8. ASSUME NEW t \in p.returns
        PROVE  /\ t.pred \in Q
               /\ \E u \in n.returns : Alike(u, t, f) /\ u.pred = f[t.pred] /\ OnTo(n, u, f, t.to)
               /\ \E u \in m.returns : Alike(u, t, g) /\ u.pred = g[t.pred] /\ OnTo(m, u, g, t.to)
    <2>1. t.pred \in Q
      BY <1>3, ProdReturnParts
    <2>2. PICK x \in n.returns, y \in m.returns :
             /\ t.from = <<x.from, y.from>> /\ x.sym \in {t.sym, WILD} /\ y.sym \in {t.sym, WILD}
             /\ t.pred = <<x.pred, y.pred>>
             /\ t.to[1] \in epsilonClosure(n, x.to) /\ t.to[2] \in epsilonClosure(m, y.to)
      BY <1>3, ProdReturnParts
    <2>3. f[t.from] = x.from /\ g[t.from] = y.from /\ f[t.to] = t.to[1] /\ g[t.to] = t.to[2]
          /\ f[t.pred] = x.pred /\ g[t.pred] = y.pred
      BY <1>1, <1>4, <2>1, <2>2
    <2> QED  BY <2>1, <2>2, <2>3 DEF Alike, OnTo
  <1>9. Projects(p, n, f)
    BY <1>2, <1>3, <1>4, <1>5, <1>6, <1>7, <1>8 DEF Projects, Q
  <1>10. Projects(p, m, g)
    BY <1>2, <1>3, <1>4, <1>5, <1>6, <1>7, <1>8 DEF Projects, Q
  <1> QED  BY <1>9, <1>10 DEF f, g

(* Two stacks of one height, level by level. *)
Joint(r, s) == [i \in 1..Len(r) |-> <<r[i], s[i]>>]

LEMMA JointPush ==
    ASSUME NEW A, NEW B, NEW r \in Seq(A), NEW s \in Seq(B), Len(r) = Len(s), NEW x \in A, NEW y \in B
    PROVE  Joint(Push(x, r), Push(y, s)) = Push(<<x, y>>, Joint(r, s)) /\ Joint(r, s) \in Seq(A \X B)
  <1> DEFINE u == Push(x, r)
             v == Push(y, s)
             z == Joint(r, s)
             b == <<x, y>>
             l == Joint(u, v)
             k == Push(b, z)
  <1>0. Len(r) \in Nat /\ \A i \in 1..Len(r) : r[i] \in A /\ s[i] \in B
    OBVIOUS
  <1>1. u \in Seq(A) /\ Len(u) = Len(r) + 1 /\ u[1] = x /\ \A i \in 1..Len(r) : u[i + 1] = r[i]
    BY Pushed
  <1>2. v \in Seq(B) /\ Len(v) = Len(s) + 1 /\ v[1] = y /\ \A i \in 1..Len(s) : v[i + 1] = s[i]
    BY Pushed, SMTT(30)
  <1>3. z \in Seq(A \X B) /\ Len(z) = Len(r) /\ \A i \in 1..Len(r) : z[i] = <<r[i], s[i]>>
    BY <1>0 DEF Joint
  <1>4. b \in A \X B
    OBVIOUS
  <1> HIDE DEF u, v, z, b
  <1>5. l \in Seq(A \X B) /\ Len(l) = Len(u) /\ \A i \in 1..Len(u) : l[i] = <<u[i], v[i]>>
    <2>1. Len(u) \in Nat /\ \A i \in 1..Len(u) : u[i] \in A /\ v[i] \in B
      BY <1>0, <1>1, <1>2
    <2> QED  BY <2>1 DEF Joint
  <1>6. k \in Seq(A \X B) /\ Len(k) = Len(z) + 1 /\ k[1] = b /\ \A i \in 1..Len(z) : k[i + 1] = z[i]
    <2> DEFINE C == A \X B
    <2>1. z \in Seq(C) /\ b \in C
      BY <1>3, <1>4
    <2> HIDE DEF C
    <2>2. k \in Seq(C) /\ Len(k) = Len(z) + 1 /\ k[1] = b /\ \A i \in 1..Len(z) : k[i + 1] = z[i]
      BY <2>1, Pushed
    <2> QED  BY <2>2 DEF C
  <1> HIDE DEF l, k
  <1>7. ASSUME NEW i \in 1..Len(l) PROVE l[i] = k[i]
    <2>1. CASE i = 1
      BY <1>0, <1>1, <1>2, <1>5, <1>6, <2>1 DEF b
    <2>2. CASE i # 1
      <3> DEFINE j == i - 1
      <3>1. j \in 1..Len(r) /\ i = j + 1
        BY <1>0, <1>1, <1>5, <2>2
      <3> HIDE DEF j
      <3>2. u[i] = r[j] /\ v[i] = s[j] /\ k[i] = z[j] /\ z[j] = <<r[j], s[j]>>
        BY <1>1, <1>2, <1>3, <1>6, <3>1
      <3> QED  BY <1>5, <3>2
    <2> QED  BY <2>1, <2>2
  <1>8. l = k
    BY <1>1, <1>3, <1>5, <1>6, <1>7, SeqEqual
  <1> QED  BY <1>3, <1>8 DEF u, v, z, b, l, k

LEMMA JointNone ==
    ASSUME NEW A, NEW B, NEW r \in Seq(A), NEW s \in Seq(B), Len(r) = Len(s)
    PROVE  (Joint(r, s) = <<>> <=> r = <<>>) /\ (r = <<>> <=> s = <<>>)
  <1>1. Len(r) \in Nat /\ \A i \in 1..Len(r) : r[i] \in A /\ s[i] \in B
    OBVIOUS
  <1>2. Joint(r, s) \in Seq(A \X B) /\ Len(Joint(r, s)) = Len(r)
    BY <1>1 DEF Joint
  <1>3. (r = <<>> <=> Len(r) = 0) /\ (s = <<>> <=> Len(s) = 0)
    OBVIOUS
  <1>4. Joint(r, s) = <<>> <=> Len(Joint(r, s)) = 0
    BY <1>2
  <1> QED  BY <1>2, <1>3, <1>4

LEMMA JointPop ==
    ASSUME NEW A, NEW B, NEW r \in Seq(A), NEW s \in Seq(B), Len(r) = Len(s), r # <<>>
    PROVE  /\ Head(Joint(r, s)) = <<Head(r), Head(s)>> /\ Tail(Joint(r, s)) = Joint(Tail(r), Tail(s))
           /\ Len(Tail(r)) = Len(Tail(s))
  <1> DEFINE x == Head(r)
             y == Head(s)
             p == Tail(r)
             q == Tail(s)
             z == Joint(p, q)
             b == <<x, y>>
  <1>1. s # <<>>
    BY JointNone
  <1>2. x \in A /\ p \in Seq(A) /\ r = Push(x, p) /\ Len(p) = Len(r) - 1
    BY Popped
  <1>3. y \in B /\ q \in Seq(B) /\ s = Push(y, q) /\ Len(q) = Len(s) - 1
    BY <1>1, Popped
  <1> HIDE DEF x, y, p, q
  <1>4. Len(p) = Len(q)
    BY <1>2, <1>3
  <1>5. Joint(r, s) = Push(b, z) /\ z \in Seq(A \X B)
    <2>1. Joint(Push(x, p), Push(y, q)) = Push(<<x, y>>, Joint(p, q)) /\ Joint(p, q) \in Seq(A \X B)
      BY <1>2, <1>3, <1>4, JointPush
    <2> QED  BY <1>2, <1>3, <2>1
  <1>6. b \in A \X B
    BY <1>2, <1>3
  <1> HIDE DEF b, z
  <1>7. Head(Joint(r, s)) = b /\ Tail(Joint(r, s)) = z
    <2> DEFINE C == A \X B
    <2>1. z \in Seq(C) /\ b \in C
      BY <1>5, <1>6
    <2> HIDE DEF C
    <2>2. Head(Push(b, z)) = b /\ Tail(Push(b, z)) = z
      BY <2>1, PushedTop
    <2> QED  BY <1>5, <2>2
  <1> QED  BY <1>4, <1>7 DEF x, y, p, q, z, b

LEMMA MetSymbol ==
    ASSUME NEW a, NEW b, NEW x, x # EPSILON, a \in {x, WILD}, b \in {x, WILD}
    PROVE  \E s \in transitionIntersect(a, b) : s \in {x, WILD}
  <1>1. CASE a = WILD
    <2>1. b \in transitionIntersect(a, b)
      BY <1>1, MetaSymbols DEF transitionIntersect
    <2> QED  BY <2>1
  <1>2. CASE a # WILD
    <2>1. a \in transitionIntersect(a, b)
      BY <1>2 DEF transitionIntersect
    <2> QED  BY <2>1
  <1> QED  BY <1>1, <1>2

JointOf(c, d) == <<<<c[1], d[1]>>, Joint(c[2], d[2])>>

HasEdge(E, from, x, to)          == \E e \in E : e.from = from /\ e.sym \in {x, WILD} /\ e.to = to
HasReturn(E, from, pred, x, to)  == \E e \in E : e.from = from /\ e.pred = pred /\ e.sym \in {x, WILD} /\ e.to = to

LEMMA JointEdge ==
    ASSUME NEW n, NEW m, NEW S, NEW T, NEW V, NEW x, x # EPSILON, NEW t \in S, NEW u \in T, <<t.from, u.from>> \in V,
           t.sym \in {x, WILD}, u.sym \in {x, WILD}, NEW q \in epsilonClosure(n, t.to), NEW r \in epsilonClosure(m, u.to)
    PROVE  HasEdge(EdgesOf(n, m, S, T, V), <<t.from, u.from>>, x, <<q, r>>)
  <1>1. PICK s \in transitionIntersect(t.sym, u.sym) : s \in {x, WILD}
    BY MetSymbol
  <1> DEFINE y == <<q, r>>
             e == Edge(<<t.from, u.from>>, s, y)
  <1>2. y = <<y[1], y[2]>> /\ y[1] = q /\ y[2] = r
    OBVIOUS
  <1> HIDE DEF y
  <1>3. ProdStep(n, m, t, u, s, y)
    BY <1>1, <1>2, BothIn DEF ProdStep
  <1>4. e \in EdgesOf(n, m, S, T, V)
    BY <1>3, EdgesOfIn DEF IsProdEdge
  <1>5. e.from = <<t.from, u.from>> /\ e.sym = s /\ e.to = y
    BY EdgeParts
  <1> HIDE DEF e
  <1> QED  BY <1>1, <1>4, <1>5 DEF y, HasEdge

LEMMA JointReturn ==
    ASSUME NEW n, NEW m, NEW V, NEW x, x # EPSILON, NEW t \in n.returns, NEW u \in m.returns,
           <<t.from, u.from>> \in V, <<t.pred, u.pred>> \in V,
           t.sym \in {x, WILD}, u.sym \in {x, WILD}, NEW q \in epsilonClosure(n, t.to), NEW r \in epsilonClosure(m, u.to)
    PROVE  HasReturn(ReturnsOf(n, m, V), <<t.from, u.from>>, <<t.pred, u.pred>>, x, <<q, r>>)
  <1>1. PICK s \in transitionIntersect(t.sym, u.sym) : s \in {x, WILD}
    BY MetSymbol
  <1> DEFINE y == <<q, r>>
             e == Return(<<t.from, u.from>>, <<t.pred, u.pred>>, s, y)
  <1>2. y = <<y[1], y[2]>> /\ y[1] = q /\ y[2] = r
    OBVIOUS
  <1> HIDE DEF y
  <1>3. ProdStep(n, m, t, u, s, y)
    BY <1>1, <1>2, BothIn DEF ProdStep
  <1>4. e \in ReturnsOf(n, m, V)
    BY <1>3, ReturnsOfIn DEF IsProdReturn
  <1>5. e.from = <<t.from, u.from>> /\ e.pred = <<t.pred, u.pred>> /\ e.sym = s /\ e.to = y
    BY ReturnParts
  <1> HIDE DEF e
  <1> QED  BY <1>1, <1>4, <1>5 DEF y, HasReturn

LEMMA JointMove ==
    ASSUME NEW p, NEW n, NEW m, Sound(n), Sound(m), IsProduct(p, n, m),
           NEW c \in Confs(n), NEW d \in Confs(m), Len(c[2]) = Len(d[2]), JointOf(c, d) \in Confs(p),
           NEW kind, NEW x, x # EPSILON, NEW c1, NEW d1,
           Moves(n, c, kind, {x} \cup {WILD}, c1), Moves(m, d, kind, {x} \cup {WILD}, d1)
    PROVE  Moves(p, JointOf(c, d), kind, {x} \cup {WILD}, JointOf(c1, d1))
  <1> DEFINE a == c[1]
             b == d[1]
             r == c[2]
             s == d[2]
             e == JointOf(c, d)
             e1 == JointOf(c1, d1)
             V == p.states
  <1>1. a \in n.states /\ r \in Seq(n.states) /\ b \in m.states /\ s \in Seq(m.states) /\ Len(r) = Len(s)
    BY DEF Confs
  <1>2. e[1] = <<a, b>> /\ e[2] = Joint(r, s) /\ e[1] \in V /\ e[2] \in Seq(V)
    BY DEF JointOf, Confs
  <1>3. e1 = <<<<c1[1], d1[1]>>, Joint(c1[2], d1[2])>>
    BY DEF JointOf
  <1>4. /\ p.calls = EdgesOf(n, m, n.calls, m.calls, V) /\ p.internals = EdgesOf(n, m, n.internals, m.internals, V)
        /\ p.returns = ReturnsOf(n, m, V)
    BY DEF IsProduct
  <1>5. \A q \in V : epsilonClosure(p, q) = {q}
    BY ClosureNone DEF IsProduct, Finite
  <1>6. \A t \in p.calls \cup p.internals \cup p.returns : t.to \in V
    BY TransEnds DEF IsProduct, Finite
  <1> HIDE DEF a, b, r, s, e, e1, V
  <1>7. CASE kind = "call"
    <2>1. PICK t \in n.calls : t.from = a /\ t.sym \in {x, WILD} /\ \E q \in epsilonClosure(n, t.to) : c1 = <<q, Push(a, r)>>
      BY <1>7 DEF Moves, a, r
    <2>2. PICK q \in epsilonClosure(n, t.to) : c1 = <<q, Push(a, r)>>
      BY <2>1
    <2>3. PICK u \in m.calls : u.from = b /\ u.sym \in {x, WILD} /\ \E y \in epsilonClosure(m, u.to) : d1 = <<y, Push(b, s)>>
      BY <1>7 DEF Moves, b, s
    <2>4. PICK y \in epsilonClosure(m, u.to) : d1 = <<y, Push(b, s)>>
      BY <2>3
    <2>a. <<t.from, u.from>> \in V
      BY <1>2, <2>1, <2>3
    <2>b. HasEdge(EdgesOf(n, m, n.calls, m.calls, V), <<t.from, u.from>>, x, <<q, y>>)
      BY <2>a, <2>1, <2>3, JointEdge
    <2>5. PICK f \in p.calls : f.from = <<a, b>> /\ f.sym \in {x, WILD} /\ f.to = <<q, y>>
      BY <1>4, <2>b, <2>1, <2>3 DEF HasEdge
    <2>c. Joint(Push(a, r), Push(b, s)) = Push(<<a, b>>, Joint(r, s))
      <3> DEFINE A == n.states
                 B == m.states
      <3>1. a \in A /\ r \in Seq(A) /\ b \in B /\ s \in Seq(B) /\ Len(r) = Len(s)
        BY <1>1
      <3> HIDE DEF A, B
      <3>2. Joint(Push(a, r), Push(b, s)) = Push(<<a, b>>, Joint(r, s)) /\ Joint(r, s) \in Seq(A \X B)
        BY ONLY <3>1, JointPush
      <3> QED  BY <3>2
    <2>d. c1[1] = q /\ c1[2] = Push(a, r) /\ d1[1] = y /\ d1[2] = Push(b, s)
      BY <2>2, <2>4
    <2>e. e1 = <<<<q, y>>, Push(<<a, b>>, Joint(r, s))>>
      BY <1>3, <2>c, <2>d
    <2>6. e1 = <<f.to, Push(e[1], e[2])>>
      BY <1>2, <2>5, <2>e
    <2>7. f.to \in epsilonClosure(p, f.to)
      BY <1>5, <1>6
    <2> QED  BY <1>2, <1>7, <2>5, <2>6, <2>7 DEF Moves, e, e1
  <1>8. CASE kind = "internal"
    <2>1. PICK t \in n.internals : t.from = a /\ t.sym \in {x, WILD} /\ \E q \in epsilonClosure(n, t.to) : c1 = <<q, r>>
      BY <1>8 DEF Moves, a, r
    <2>2. PICK q \in epsilonClosure(n, t.to) : c1 = <<q, r>>
      BY <2>1
    <2>3. PICK u \in m.internals : u.from = b /\ u.sym \in {x, WILD} /\ \E y \in epsilonClosure(m, u.to) : d1 = <<y, s>>
      BY <1>8 DEF Moves, b, s
    <2>4. PICK y \in epsilonClosure(m, u.to) : d1 = <<y, s>>
      BY <2>3
    <2>a. <<t.from, u.from>> \in V
      BY <1>2, <2>1, <2>3
    <2>b. HasEdge(EdgesOf(n, m, n.internals, m.internals, V), <<t.from, u.from>>, x, <<q, y>>)
      BY <2>a, <2>1, <2>3, JointEdge
    <2>5. PICK f \in p.internals : f.from = <<a, b>> /\ f.sym \in {x, WILD} /\ f.to = <<q, y>>
      BY <1>4, <2>b, <2>1, <2>3 DEF HasEdge
    <2>6. e1 = <<f.to, e[2]>>
      BY <1>2, <1>3, <2>2, <2>4, <2>5
    <2>7. f.to \in epsilonClosure(p, f.to)
      BY <1>5, <1>6
    <2> QED  BY <1>2, <1>8, <2>5, <2>6, <2>7 DEF Moves, e, e1
  <1>9. CASE kind = "return"
    <2>1. PICK t \in n.returns : t.from = a /\ t.sym \in {x, WILD} /\ Pops(n, t, r)
                                 /\ \E q \in epsilonClosure(n, t.to) : c1 = <<q, Left(r)>>
      BY <1>9 DEF Moves, a, r
    <2>2. PICK q \in epsilonClosure(n, t.to) : c1 = <<q, Left(r)>>
      BY <2>1
    <2>3. PICK u \in m.returns : u.from = b /\ u.sym \in {x, WILD} /\ Pops(m, u, s)
                                 /\ \E y \in epsilonClosure(m, u.to) : d1 = <<y, Left(s)>>
      BY <1>9 DEF Moves, b, s
    <2>4. PICK y \in epsilonClosure(m, u.to) : d1 = <<y, Left(s)>>
      BY <2>3
    <2>5. <<t.pred, u.pred>> \in V /\ Left(e[2]) = Joint(Left(r), Left(s))
          /\ (e[2] = <<>> => <<t.pred, u.pred>> \in p.initial)
          /\ (e[2] # <<>> => <<t.pred, u.pred>> = Head(e[2]))
      <3>1. CASE r = <<>>
        <4>a. Joint(r, s) = <<>> /\ s = <<>>
          BY <1>1, <3>1, JointNone
        <4>1. e[2] = <<>> /\ s = <<>>
          BY <1>2, <4>a
        <4>2. t.pred \in n.initial /\ u.pred \in m.initial
          BY <2>1, <2>3, <3>1, <4>1 DEF Pops
        <4>3. t.pred \in epsilonClosure(n, t.pred) /\ u.pred \in epsilonClosure(m, u.pred)
          BY <4>2, StatesOf, ClosureFacts
        <4> DEFINE z == <<t.pred, u.pred>>
        <4>4. z = <<z[1], z[2]>> /\ z[1] = t.pred /\ z[2] = u.pred
          OBVIOUS
        <4> HIDE DEF z
        <4>5. z \in ProdStart(n, m)
          BY <4>2, <4>3, <4>4, ProdStartIn
        <4>6. z \in p.initial /\ z \in V
          BY <4>5 DEF IsProduct, V
        <4> QED  BY <1>2, <3>1, <4>1, <4>6 DEF Left, z
      <3>2. CASE r # <<>>
        <4>1. e[2] # <<>> /\ s # <<>>
          BY <1>1, <1>2, <3>2, JointNone
        <4>2. t.pred = Head(r) /\ u.pred = Head(s)
          BY <2>1, <2>3, <3>2, <4>1 DEF Pops
        <4>3. Head(e[2]) = <<Head(r), Head(s)>> /\ Tail(e[2]) = Joint(Tail(r), Tail(s))
          BY <1>1, <1>2, <3>2, JointPop
        <4>4. Head(e[2]) \in V
          BY <1>2, <4>1, Popped
        <4> QED  BY <3>2, <4>1, <4>2, <4>3, <4>4 DEF Left
      <3> QED  BY <3>1, <3>2
    <2>a. <<t.from, u.from>> \in V
      BY <1>2, <2>1, <2>3
    <2>b. HasReturn(ReturnsOf(n, m, V), <<t.from, u.from>>, <<t.pred, u.pred>>, x, <<q, y>>)
      BY <2>a, <2>1, <2>3, <2>5, JointReturn
    <2>6. PICK f \in p.returns : f.from = <<a, b>> /\ f.pred = <<t.pred, u.pred>> /\ f.sym \in {x, WILD} /\ f.to = <<q, y>>
      BY <1>4, <2>b, <2>1, <2>3 DEF HasReturn
    <2>7. e1 = <<f.to, Left(e[2])>>
      BY <1>3, <2>2, <2>4, <2>5, <2>6
    <2>8. f.to \in epsilonClosure(p, f.to)
      BY <1>5, <1>6
    <2>9. Pops(p, f, e[2])
      BY <2>5, <2>6 DEF Pops
    <2> QED  BY <1>2, <1>9, <2>6, <2>7, <2>8, <2>9 DEF Moves, e, e1
  <1>10. kind \in {"call", "internal", "return"}
    BY DEF Moves
  <1> QED  BY <1>7, <1>8, <1>9, <1>10 DEF e, e1

LEMMA JointLive ==
    ASSUME NEW p, NEW n, NEW m, Sound(n), Sound(m), IsProduct(p, n, m), NEW w \in Seq(Positions)
    PROVE  \A k \in 0..Len(w) : \A c \in Live(n, w, {WILD}, k), d \in Live(m, w, {WILD}, k) :
             JointOf(c, d) \in Live(p, w, {WILD}, k)
  <1> DEFINE T == {k \in Nat : \A c \in Live(n, w, {WILD}, k), d \in Live(m, w, {WILD}, k) :
                                 JointOf(c, d) \in Live(p, w, {WILD}, k)}
  <1>0. Len(w) \in Nat /\ \A k \in 1..Len(w) : w[k].sym \in Alphabet /\ k - 1 \in 0..Len(w)
    BY WordTyped
  <1>1. WellFormed(n) /\ WellFormed(m) /\ WellFormed(p) /\ IsFiniteSet(n.states) /\ IsFiniteSet(m.states)
        /\ IsFiniteSet(p.states)
    BY DEF Sound, Finite, IsProduct
  <1>2. 0 \in T
    <2>1. ASSUME NEW c \in Live(n, w, {WILD}, 0), NEW d \in Live(m, w, {WILD}, 0)
          PROVE  JointOf(c, d) \in Live(p, w, {WILD}, 0)
      <3>1. PICK i \in n.initial : \E q \in epsilonClosure(n, i) : c = <<q, <<>>>>
        BY <1>0, LiveAtFirst
      <3>2. PICK j \in m.initial : \E q \in epsilonClosure(m, j) : d = <<q, <<>>>>
        BY <1>0, LiveAtFirst
      <3>3. c[1] \in epsilonClosure(n, i) /\ d[1] \in epsilonClosure(m, j) /\ c[2] = <<>> /\ d[2] = <<>>
        BY <3>1, <3>2
      <3> DEFINE z == <<c[1], d[1]>>
      <3>4. z = <<z[1], z[2]>> /\ z[1] = c[1] /\ z[2] = d[1]
        OBVIOUS
      <3>5. Joint(c[2], d[2]) = <<>>
        BY <3>3 DEF Joint
      <3>6. JointOf(c, d) = <<z, <<>>>>
        BY <3>5 DEF JointOf
      <3> HIDE DEF z
      <3>7. z \in p.initial
        BY <3>3, <3>4, ProdStartIn DEF IsProduct
      <3>8. z \in epsilonClosure(p, z)
        BY <1>1, <3>7, ClosureFacts DEF IsProduct
      <3> QED  BY <1>0, <3>6, <3>7, <3>8, LiveAtFirst
    <2> QED  BY <2>1
  <1>3. ASSUME NEW k \in 1..Len(w), k - 1 \in T PROVE k \in T
    <2>1. ASSUME NEW c1 \in Live(n, w, {WILD}, k), NEW d1 \in Live(m, w, {WILD}, k)
          PROVE  JointOf(c1, d1) \in Live(p, w, {WILD}, k)
      <3> DEFINE kind == w[k].kind
                 x == w[k].sym
      <3>1. PICK c \in Live(n, w, {WILD}, k - 1) : Moves(n, c, w[k].kind, {w[k].sym} \cup {WILD}, c1)
        BY LiveBack
      <3>2. PICK d \in Live(m, w, {WILD}, k - 1) : Moves(m, d, w[k].kind, {w[k].sym} \cup {WILD}, d1)
        BY LiveBack
      <3>3. JointOf(c, d) \in Live(p, w, {WILD}, k - 1)
        BY <1>3
      <3>4. c \in Confs(n) /\ d \in Confs(m) /\ JointOf(c, d) \in Confs(p)
        BY <1>0, <1>1, <3>3, LiveTyped
      <3>5. Len(c[2]) = Len(d[2])
        <4>1. Len(c[2]) = Opens(w)[k - 1]
          BY <1>0, <1>1, LiveDepth
        <4>2. Len(d[2]) = Opens(w)[k - 1]
          BY <1>0, <1>1, LiveDepth
        <4> QED  BY <4>1, <4>2
      <3>6. x # EPSILON
        BY <1>0, AlphabetAssumption DEF Letters
      <3>7. Moves(p, JointOf(c, d), w[k].kind, {w[k].sym} \cup {WILD}, JointOf(c1, d1))
        BY <3>1, <3>2, <3>4, <3>5, <3>6, JointMove
      <3> QED  BY <3>3, <3>7, LiveOn
    <2>2. k \in Nat
      BY <1>0
    <2> QED  BY <2>1, <2>2
  <1>4. 0..Len(w) \subseteq T
    <2> HIDE DEF T
    <2> QED  BY <1>0, <1>2, <1>3, UpTo
  <1> QED  BY <1>4

(* intersect accepts what both automata accept; with an EPSILON transition *)
(* out of the starts it may add words with a pending return.               *)
LEMMA IntersectWords ==
    ASSUME NEW n, NEW m, Sound(n), Sound(m)
    PROVE  /\ Words(n) \cap Words(m) \subseteq Words(intersect(n, m))
           /\ NoPendingReturn(Words(intersect(n, m))) \subseteq Words(n) \cap Words(m)
           /\ StartsClosed(n) /\ StartsClosed(m) => Words(intersect(n, m)) = Words(n) \cap Words(m)
  <1> DEFINE p == intersect(n, m)
  <1>1. IsProduct(p, n, m)
    BY IntersectFields
  <1> HIDE DEF p
  <1>2. Finite(p) /\ Visible(p.internals)
    BY <1>1 DEF IsProduct
  <1>3. Projects(p, n, FirstOf(p)) /\ Projects(p, m, SecondOf(p))
    BY <1>1, ProductProjects
  <1>4. ASSUME NEW w \in Words(n), w \in Words(m) PROVE w \in Words(p)
    <2>1. w \in AllWords /\ Accepts(n, w, {WILD}) /\ Accepts(m, w, {WILD}) /\ w \in Seq(Positions) /\ Len(w) \in Nat
      BY <1>4, WordsAre, AllWordsAre, WordTyped
    <2>2. PICK c \in Live(n, w, {WILD}, Len(w)) : c[1] \in n.final
      BY <2>1, AcceptsLive
    <2>3. PICK d \in Live(m, w, {WILD}, Len(w)) : d[1] \in m.final
      BY <2>1, AcceptsLive
    <2>a. \A k \in 0..Len(w) : \A c0 \in Live(n, w, {WILD}, k), d0 \in Live(m, w, {WILD}, k) :
                                 JointOf(c0, d0) \in Live(p, w, {WILD}, k)
      BY <1>1, <2>1, JointLive
    <2>b. Len(w) \in 0..Len(w)
      BY <2>1
    <2>4. JointOf(c, d) \in Live(p, w, {WILD}, Len(w))
      BY <2>a, <2>b
    <2>5. JointOf(c, d) \in Confs(p)
      BY <1>2, <2>1, <2>4, LiveTyped DEF Finite
    <2>6. JointOf(c, d)[1] \in p.final
      <3>1. JointOf(c, d)[1] = <<c[1], d[1]>> /\ JointOf(c, d)[1] \in p.states
        BY <2>5 DEF JointOf, Confs
      <3> QED  BY <1>1, <2>2, <2>3, <3>1 DEF IsProduct
    <2>7. Accepts(p, w, {WILD})
      BY <2>4, <2>6, AcceptsLive
    <2> QED  BY <2>1, <2>7, WordsAre
  <1>5. ASSUME NEW w \in Words(p), ~PendingReturn(w) \/ (StartsClosed(n) /\ StartsClosed(m))
        PROVE  w \in Words(n) /\ w \in Words(m)
    <2>1. w \in AllWords /\ Accepts(p, w, {WILD}) /\ w \in Seq(Positions)
      BY WordsAre, AllWordsAre
    <2>2. Accepts(n, w, {WILD}) /\ Accepts(m, w, {WILD})
      BY <1>2, <1>3, <1>5, <2>1, ProjectsAccepts
    <2> QED  BY <2>1, <2>2, WordsAre
  <1> QED  BY <1>4, <1>5 DEF p, NoPendingReturn

-----------------------------------------------------------------------------
(* Runs without stacks: the height of a position tells which call a return *)
(* closes, and a run is the states it passes through.                      *)
IsHeight(w, H) ==
    /\ \A k \in 0..Len(w) : H[k] \in Int
    /\ \A k \in 1..Len(w) : /\ w[k].kind = "call" => H[k] = H[k - 1] + 1
                            /\ w[k].kind = "internal" => H[k] = H[k - 1]
                            /\ w[k].kind = "return" => H[k] = H[k - 1] - 1
OpenCall(H, c, k) == c <= k /\ \A i \in c..k : H[i] > H[c - 1]
Partner(H, c, k) == c < k /\ H[c - 1] = H[k] /\ \A i \in c..(k - 1) : H[i] > H[k]
Partnered(H, k) == \E c \in 1..(k - 1) : Partner(H, c, k)

RunEdge(n, T, x, a, b) == \E t \in T : t.from = a /\ t.sym \in {x, WILD} /\ b \in epsilonClosure(n, t.to)
RunPops(n, H, s, k, q) ==
    /\ \A c \in 1..(k - 1) : Partner(H, c, k) => q = s[c - 1]
    /\ ~Partnered(H, k) => q \in n.initial
RunReturn(n, H, x, s, k) ==
    \E t \in n.returns : /\ t.from = s[k - 1] /\ t.sym \in {x, WILD} /\ s[k] \in epsilonClosure(n, t.to)
                         /\ RunPops(n, H, s, k, t.pred)
RunStep(n, w, H, s, k) ==
    \/ w[k].kind = "call" /\ RunEdge(n, n.calls, w[k].sym, s[k - 1], s[k])
    \/ w[k].kind = "internal" /\ RunEdge(n, n.internals, w[k].sym, s[k - 1], s[k])
    \/ w[k].kind = "return" /\ RunReturn(n, H, w[k].sym, s, k)
RunStart(n, q) == \E i \in n.initial : q \in epsilonClosure(n, i)
IsRun(n, w, H, s) ==
    /\ \A k \in 0..Len(w) : s[k] \in n.states
    /\ RunStart(n, s[0])
    /\ \A k \in 1..Len(w) : RunStep(n, w, H, s, k)

(* The open calls, the innermost first. *)
OpenCalls(H, k, p) ==
    /\ p \in Seq(1..k)
    /\ \A i \in 1..Len(p) : OpenCall(H, p[i], k) /\ H[p[i] - 1] = H[k] - i
    /\ \A c \in 1..k : OpenCall(H, c, k) => \E i \in 1..Len(p) : p[i] = c
Caller(s, N) == [c \in 1..N |-> s[c - 1]]

LEMMA HeightExists ==
    ASSUME NEW w \in Seq(Positions)
    PROVE  \E H : IsHeight(w, H)
  <1> DEFINE N == Len(w)
             step(k) == IF w[k].kind = "call" THEN 1 ELSE IF w[k].kind = "return" THEN -1 ELSE 0
             G(m, H) == /\ \A k \in 0..m : H[k] \in Int
                        /\ \A k \in 1..m : H[k] = H[k - 1] + step(k)
             T == {m \in Nat : \E H : G(m, H)}
  <1>0. N \in Nat
    BY WordTyped
  <1>1. 0 \in T
    <2> DEFINE H == [k \in 0..0 |-> 0]
    <2>1. G(0, H)
      OBVIOUS
    <2> HIDE DEF H, G
    <2> QED  BY <2>1
  <1>2. ASSUME NEW m \in Nat, m \in T PROVE m + 1 \in T
    <2>1. PICK H : G(m, H)
      BY <1>2
    <2> DEFINE K == [k \in 0..(m + 1) |-> IF k = m + 1 THEN H[m] + step(m + 1) ELSE H[k]]
    <2>2. step(m + 1) \in Int
      OBVIOUS
    <2>3. K[m + 1] = H[m] + step(m + 1) /\ \A k \in 0..m : K[k] = H[k]
      OBVIOUS
    <2>4. \A k \in 0..m : H[k] \in Int
      BY <2>1
    <2>5. \A k \in 0..(m + 1) : K[k] \in Int
      <3> HIDE DEF K, step
      <3>1. \A k \in 0..(m + 1) : k = m + 1 \/ k \in 0..m
        OBVIOUS
      <3>2. H[m] + step(m + 1) \in Int
        BY <2>2, <2>4
      <3> QED  BY <2>3, <2>4, <3>1, <3>2
    <2>6. ASSUME NEW k \in 1..(m + 1) PROVE K[k] = K[k - 1] + step(k)
      <3>1. CASE k = m + 1
        <4>1. k - 1 = m /\ m \in 0..m
          BY <3>1
        <4> HIDE DEF K, step
        <4> QED  BY <2>3, <3>1, <4>1
      <3>2. CASE k # m + 1
        <4>1. k \in 1..m /\ k \in 0..m /\ k - 1 \in 0..m
          BY <3>2
        <4>2. H[k] = H[k - 1] + step(k)
          BY <2>1, <4>1
        <4> HIDE DEF K, step
        <4> QED  BY <2>3, <4>1, <4>2
      <3> QED  BY <3>1, <3>2
    <2>7. G(m + 1, K)
      BY <2>5, <2>6
    <2> HIDE DEF K, G
    <2> QED  BY <2>7
  <1>3. N \in T
    <2> HIDE DEF T
    <2> QED  BY <1>0, <1>1, <1>2, NatInd
  <1>4. PICK H : G(N, H)
    BY <1>3
  <1>5. ASSUME NEW k \in 1..N
        PROVE  /\ w[k].kind = "call" => H[k] = H[k - 1] + 1
               /\ w[k].kind = "internal" => H[k] = H[k - 1]
               /\ w[k].kind = "return" => H[k] = H[k - 1] - 1
    <2>1. H[k] = H[k - 1] + step(k) /\ k - 1 \in 0..N
      BY <1>0, <1>4
    <2>2. H[k - 1] \in Int
      BY <1>4, <2>1
    <2> QED  BY <2>1, <2>2
  <1>6. \A k \in 0..N : H[k] \in Int
    BY <1>4
  <1>7. IsHeight(w, H)
    <2> HIDE DEF G
    <2> QED  BY <1>5, <1>6 DEF IsHeight
  <1> QED  BY <1>7

LEMMA HeightAt ==
    ASSUME NEW w \in Seq(Positions), NEW H, IsHeight(w, H)
    PROVE  /\ Len(w) \in Nat
           /\ \A k \in 0..Len(w) : H[k] \in Int
           /\ \A k \in 1..Len(w) : /\ k \in Nat /\ k - 1 \in 0..Len(w)
                                   /\ w[k].kind \in {"call", "internal", "return"} /\ w[k].sym \in Alphabet
                                   /\ w[k].kind = "call" => H[k] = H[k - 1] + 1
                                   /\ w[k].kind = "internal" => H[k] = H[k - 1]
                                   /\ w[k].kind = "return" => H[k] = H[k - 1] - 1
  <1>1. Len(w) \in Nat
    BY WordTyped
  <1>2. \A k \in 1..Len(w) : w[k].kind \in {"call", "internal", "return"} /\ w[k].sym \in Alphabet /\ k \in Nat /\ k - 1 \in 0..Len(w)
    BY <1>1, WordTyped DEF Kinds
  <1> QED  BY <1>1, <1>2 DEF IsHeight

LEMMA OpenAtCall ==
    ASSUME NEW w \in Seq(Positions), NEW H, IsHeight(w, H), NEW k \in 1..Len(w), w[k].kind = "call"
    PROVE  /\ OpenCall(H, k, k)
           /\ \A c \in 1..(k - 1) : OpenCall(H, c, k) <=> OpenCall(H, c, k - 1)
  <1>1. k \in Nat /\ H[k] = H[k - 1] + 1 /\ H[k - 1] \in Int /\ \A i \in 0..k : H[i] \in Int
    BY HeightAt
  <1>2. OpenCall(H, k, k)
    <2>1. \A i \in k..k : i = k
      BY <1>1
    <2> QED  BY <1>1, <2>1 DEF OpenCall
  <1>3. ASSUME NEW c \in 1..(k - 1), OpenCall(H, c, k) PROVE OpenCall(H, c, k - 1)
    <2>1. \A i \in c..(k - 1) : i \in c..k
      BY <1>1
    <2> QED  BY <1>1, <1>3, <2>1 DEF OpenCall
  <1>4. ASSUME NEW c \in 1..(k - 1), OpenCall(H, c, k - 1) PROVE OpenCall(H, c, k)
    <2>1. \A i \in c..k : i \in c..(k - 1) \/ i = k
      BY <1>1
    <2>2. H[k - 1] > H[c - 1] /\ c - 1 \in 0..k
      BY <1>1, <1>4 DEF OpenCall
    <2>3. H[k] > H[c - 1]
      BY <1>1, <2>2
    <2> QED  BY <1>1, <1>4, <2>1, <2>3 DEF OpenCall
  <1> QED  BY <1>2, <1>3, <1>4

LEMMA OpenAtInternal ==
    ASSUME NEW w \in Seq(Positions), NEW H, IsHeight(w, H), NEW k \in 1..Len(w), w[k].kind = "internal"
    PROVE  /\ ~OpenCall(H, k, k)
           /\ \A c \in 1..(k - 1) : OpenCall(H, c, k) <=> OpenCall(H, c, k - 1)
  <1>1. k \in Nat /\ H[k] = H[k - 1] /\ H[k - 1] \in Int /\ \A i \in 0..k : H[i] \in Int
    BY HeightAt
  <1>2. ~OpenCall(H, k, k)
    BY <1>1 DEF OpenCall
  <1>3. ASSUME NEW c \in 1..(k - 1), OpenCall(H, c, k) PROVE OpenCall(H, c, k - 1)
    <2>1. \A i \in c..(k - 1) : i \in c..k
      BY <1>1
    <2> QED  BY <1>1, <1>3, <2>1 DEF OpenCall
  <1>4. ASSUME NEW c \in 1..(k - 1), OpenCall(H, c, k - 1) PROVE OpenCall(H, c, k)
    <2>1. \A i \in c..k : i \in c..(k - 1) \/ i = k
      BY <1>1
    <2>2. H[k - 1] > H[c - 1] /\ c - 1 \in 0..k
      BY <1>1, <1>4 DEF OpenCall
    <2> QED  BY <1>1, <1>4, <2>1, <2>2 DEF OpenCall
  <1> QED  BY <1>2, <1>3, <1>4

(* A return closes the innermost open call, and leaves the outer ones open. *)
LEMMA OpenAtReturn ==
    ASSUME NEW w \in Seq(Positions), NEW H, IsHeight(w, H), NEW k \in 1..Len(w), w[k].kind = "return"
    PROVE  /\ ~OpenCall(H, k, k)
           /\ \A c \in 1..(k - 1) : OpenCall(H, c, k) => OpenCall(H, c, k - 1)
           /\ \A c \in 1..(k - 1) : Partner(H, c, k) <=> OpenCall(H, c, k - 1) /\ H[c - 1] = H[k]
           /\ \A c \in 1..(k - 1) : OpenCall(H, c, k - 1) => OpenCall(H, c, k) \/ Partner(H, c, k)
           /\ \A c \in 1..(k - 1) : Partner(H, c, k) => ~OpenCall(H, c, k)
  <1>1. k \in Nat /\ H[k] = H[k - 1] - 1 /\ H[k - 1] \in Int /\ \A i \in 0..k : H[i] \in Int
    BY HeightAt
  <1>2. ~OpenCall(H, k, k)
    BY <1>1 DEF OpenCall
  <1>3. ASSUME NEW c \in 1..(k - 1), OpenCall(H, c, k) PROVE OpenCall(H, c, k - 1)
    <2>1. \A i \in c..(k - 1) : i \in c..k
      BY <1>1
    <2> QED  BY <1>1, <1>3, <2>1 DEF OpenCall
  <1>4. ASSUME NEW c \in 1..(k - 1) PROVE Partner(H, c, k) <=> OpenCall(H, c, k - 1) /\ H[c - 1] = H[k]
    BY <1>1 DEF Partner, OpenCall
  <1>5. ASSUME NEW c \in 1..(k - 1), OpenCall(H, c, k - 1), H[c - 1] # H[k] PROVE OpenCall(H, c, k)
    <2>1. \A i \in c..k : i \in c..(k - 1) \/ i = k
      BY <1>1
    <2>2. k - 1 \in c..(k - 1) /\ c - 1 \in 0..k /\ c <= k
      BY <1>1
    <2>3. \A i \in c..(k - 1) : H[i] > H[c - 1]
      BY <1>5 DEF OpenCall
    <2>4. H[k - 1] > H[c - 1] /\ H[c - 1] \in Int
      BY <1>1, <2>2, <2>3
    <2>5. H[k] > H[c - 1]
      <3> DEFINE x == H[k]
                 y == H[k - 1]
                 z == H[c - 1]
      <3>1. x = y - 1 /\ y \in Int /\ z \in Int /\ y > z /\ z # x
        BY <1>1, <1>5, <2>4
      <3> HIDE DEF x, y, z
      <3>2. x > z
        BY <3>1
      <3> QED  BY <3>2 DEF x, z
    <2> QED  BY <2>1, <2>2, <2>3, <2>5 DEF OpenCall
  <1>6. ASSUME NEW c \in 1..(k - 1), Partner(H, c, k) PROVE ~OpenCall(H, c, k)
    BY <1>1, <1>6 DEF Partner, OpenCall
  <1> QED  BY <1>2, <1>3, <1>4, <1>5, <1>6

LEMMA OnePartner ==
    ASSUME NEW w \in Seq(Positions), NEW H, IsHeight(w, H), NEW k \in 1..Len(w),
           NEW c \in 1..(k - 1), NEW d \in 1..(k - 1), Partner(H, c, k), Partner(H, d, k)
    PROVE  c = d
  <1>1. k \in Nat /\ \A i \in 0..k : H[i] \in Int
    BY HeightAt
  <1>2. ASSUME NEW a \in 1..(k - 1), NEW b \in 1..(k - 1), Partner(H, a, k), Partner(H, b, k), a < b
        PROVE  FALSE
    <2>1. b - 1 \in a..(k - 1) /\ b - 1 \in 0..k
      BY <1>1, <1>2
    <2>2. H[b - 1] = H[k] /\ H[b - 1] > H[k] /\ H[k] \in Int
      BY <1>1, <1>2, <2>1 DEF Partner
    <2> QED  BY <2>2
  <1>3. ~(c < d) /\ ~(d < c)
    BY <1>2
  <1> QED  BY <1>1, <1>3

LEMMA PartnerIsCall ==
    ASSUME NEW w \in Seq(Positions), NEW H, IsHeight(w, H), NEW k \in 1..Len(w), NEW c \in 1..(k - 1), Partner(H, c, k)
    PROVE  w[c].kind = "call" /\ c \in 1..Len(w)
  <1>1. c \in 1..Len(w) /\ c \in c..(k - 1)
    BY HeightAt
  <1>2. H[c] > H[c - 1] /\ H[c] \in Int /\ H[c - 1] \in Int
    BY <1>1, HeightAt DEF Partner
  <1> QED  BY <1>1, <1>2, HeightAt

-----------------------------------------------------------------------------
(* The stack of the open calls through the positions. *)
LEMMA OpenCallsNone ==
    ASSUME NEW H
    PROVE  OpenCalls(H, 0, <<>>)
  <1>1. <<>> \in Seq(1..0) /\ Len(<<>>) = 0
    OBVIOUS
  <1> QED  BY <1>1 DEF OpenCalls

LEMMA OpenCallsCall ==
    ASSUME NEW w \in Seq(Positions), NEW H, IsHeight(w, H), NEW k \in 1..Len(w), w[k].kind = "call",
           NEW p, OpenCalls(H, k - 1, p)
    PROVE  OpenCalls(H, k, Push(k, p))
  <1> DEFINE A == 1..k
             q == Push(k, p)
  <1>1. k \in Nat /\ H[k] = H[k - 1] + 1 /\ H[k - 1] \in Int
    BY HeightAt
  <1>2. p \in Seq(1..(k - 1)) /\ Len(p) \in Nat /\ \A i \in 1..Len(p) : p[i] \in 1..(k - 1)
    BY DEF OpenCalls
  <1>3. p \in Seq(A) /\ k \in A
    BY <1>1, <1>2
  <1> HIDE DEF A
  <1>4. q \in Seq(A) /\ Len(q) = Len(p) + 1 /\ q[1] = k /\ \A i \in 1..Len(p) : q[i + 1] = p[i]
    BY <1>3, Pushed, SMTT(30)
  <1> HIDE DEF q
  <1>5. ASSUME NEW i \in 1..Len(q) PROVE OpenCall(H, q[i], k) /\ H[q[i] - 1] = H[k] - i
    <2>1. CASE i = 1
      BY <1>1, <1>4, <2>1, OpenAtCall
    <2>2. CASE i # 1
      <3> DEFINE j == i - 1
      <3>1. j \in 1..Len(p) /\ i = j + 1 /\ j \in Nat
        BY <1>2, <1>4, <2>2
      <3> HIDE DEF j
      <3>2. q[i] = p[j] /\ p[j] \in 1..(k - 1)
        BY <1>2, <1>4, <3>1
      <3>3. OpenCall(H, p[j], k - 1) /\ H[p[j] - 1] = H[k - 1] - j
        BY <3>1 DEF OpenCalls
      <3>4. OpenCall(H, p[j], k)
        BY <3>2, <3>3, OpenAtCall
      <3>a. \A x \in Int : x - j = (x + 1) - i
        BY <3>1
      <3>5. H[k - 1] - j = H[k] - i
        BY <1>1, <3>a
      <3> QED  BY <3>2, <3>3, <3>4, <3>5
    <2> QED  BY <2>1, <2>2
  <1>6. ASSUME NEW c \in 1..k, OpenCall(H, c, k) PROVE \E i \in 1..Len(q) : q[i] = c
    <2>1. CASE c = k
      BY <1>2, <1>4, <2>1
    <2>2. CASE c # k
      <3>1. c \in 1..(k - 1)
        BY <1>1, <2>2
      <3>2. OpenCall(H, c, k - 1)
        BY <1>6, <3>1, OpenAtCall
      <3>3. PICK i \in 1..Len(p) : p[i] = c
        BY <3>1, <3>2 DEF OpenCalls
      <3>4. i + 1 \in 1..Len(q)
        BY <1>2, <1>4
      <3> QED  BY <1>4, <3>3, <3>4
    <2> QED  BY <2>1, <2>2
  <1> QED  BY <1>4, <1>5, <1>6 DEF OpenCalls, A, q

LEMMA OpenCallsInternal ==
    ASSUME NEW w \in Seq(Positions), NEW H, IsHeight(w, H), NEW k \in 1..Len(w), w[k].kind = "internal",
           NEW p, OpenCalls(H, k - 1, p)
    PROVE  OpenCalls(H, k, p)
  <1>1. k \in Nat /\ H[k] = H[k - 1] /\ H[k - 1] \in Int
    BY HeightAt
  <1>2. p \in Seq(1..(k - 1)) /\ Len(p) \in Nat /\ \A i \in 1..Len(p) : p[i] \in 1..(k - 1)
    BY DEF OpenCalls
  <1>3. p \in Seq(1..k)
    BY <1>1, <1>2
  <1>4. \A i \in 1..Len(p) : OpenCall(H, p[i], k) /\ H[p[i] - 1] = H[k] - i
    BY <1>1, <1>2, OpenAtInternal DEF OpenCalls
  <1>5. ASSUME NEW c \in 1..k, OpenCall(H, c, k) PROVE \E i \in 1..Len(p) : p[i] = c
    <2>1. c # k
      BY <1>5, OpenAtInternal
    <2>2. c \in 1..(k - 1)
      BY <1>1, <2>1
    <2> QED  BY <1>5, <2>2, OpenAtInternal DEF OpenCalls
  <1> QED  BY <1>3, <1>4, <1>5 DEF OpenCalls

LEMMA OpenCallsReturn ==
    ASSUME NEW w \in Seq(Positions), NEW H, IsHeight(w, H), NEW k \in 1..Len(w), w[k].kind = "return",
           NEW p, OpenCalls(H, k - 1, p)
    PROVE  /\ OpenCalls(H, k, Left(p))
           /\ p = <<>> => ~Partnered(H, k)
           /\ p # <<>> => p[1] \in 1..(k - 1) /\ Partner(H, p[1], k)
  <1>1. k \in Nat /\ H[k] = H[k - 1] - 1 /\ H[k - 1] \in Int
    BY HeightAt
  <1>2. p \in Seq(1..(k - 1)) /\ Len(p) \in Nat /\ \A i \in 1..Len(p) : p[i] \in 1..(k - 1)
    BY DEF OpenCalls
  <1>3. \A i \in 1..Len(p) : OpenCall(H, p[i], k - 1) /\ H[p[i] - 1] = H[k - 1] - i
    BY DEF OpenCalls
  <1>4. CASE p = <<>>
    <2>1. Left(p) = <<>> /\ <<>> \in Seq(1..k) /\ Len(<<>>) = 0 /\ Len(p) = 0
      BY <1>4 DEF Left
    <2>2. \A c \in 1..(k - 1) : ~OpenCall(H, c, k - 1)
      BY <2>1 DEF OpenCalls
    <2>3. ~Partnered(H, k)
      BY <2>2, OpenAtReturn DEF Partnered
    <2>4. \A c \in 1..k : c = k \/ c \in 1..(k - 1)
      BY <1>1
    <2>5. \A c \in 1..k : ~OpenCall(H, c, k)
      BY <2>2, <2>4, OpenAtReturn
    <2>6. \A i \in 1..Len(<<>>) : FALSE
      BY <2>1
    <2>7. OpenCalls(H, k, <<>>)
      BY <2>1, <2>5, <2>6 DEF OpenCalls
    <2> QED  BY <1>4, <2>1, <2>3, <2>7
  <1>5. CASE p # <<>>
    <2> DEFINE A == 1..(k - 1)
               q == Tail(p)
    <2>1. /\ q \in Seq(A) /\ Len(q) = Len(p) - 1 /\ Len(p) > 0
          /\ \A i \in 1..(Len(p) - 1) : q[i] = p[i + 1]
      <3>1. p \in Seq(A)
        BY <1>2
      <3> HIDE DEF A
      <3> QED  BY <1>5, <3>1, Popped
    <2>2. p[1] \in 1..(k - 1) /\ OpenCall(H, p[1], k - 1) /\ H[p[1] - 1] = H[k]
      BY <1>1, <1>2, <1>3, <2>1
    <2>3. Partner(H, p[1], k)
      BY <2>2, OpenAtReturn
    <2>4. q \in Seq(1..k)
      BY <1>1, <2>1
    <2>5. ASSUME NEW i \in 1..Len(q) PROVE OpenCall(H, q[i], k) /\ H[q[i] - 1] = H[k] - i
      <3>1. i + 1 \in 1..Len(p) /\ i \in 1..(Len(p) - 1) /\ i \in Nat
        BY <1>2, <2>1
      <3>2. q[i] = p[i + 1] /\ p[i + 1] \in 1..(k - 1) /\ OpenCall(H, p[i + 1], k - 1)
            /\ H[p[i + 1] - 1] = H[k - 1] - (i + 1)
        BY <1>2, <1>3, <2>1, <3>1
      <3>a. H[k - 1] - (i + 1) = H[k] - i /\ H[k] - i # H[k] /\ i >= 1
        BY <1>1, <3>1
      <3>3. H[q[i] - 1] = H[k] - i
        BY <3>2, <3>a
      <3>4. H[q[i] - 1] # H[k]
        BY <3>3, <3>a
      <3>5. OpenCall(H, q[i], k)
        BY <3>2, <3>4, OpenAtReturn
      <3> QED  BY <3>3, <3>5
    <2>6. ASSUME NEW c \in 1..k, OpenCall(H, c, k) PROVE \E i \in 1..Len(q) : q[i] = c
      <3>1. c # k
        BY <2>6, OpenAtReturn
      <3>2. c \in 1..(k - 1)
        BY <1>1, <3>1
      <3>3. OpenCall(H, c, k - 1) /\ c # p[1]
        BY <2>2, <2>3, <2>6, <3>2, OpenAtReturn
      <3>4. PICK i \in 1..Len(p) : p[i] = c
        BY <3>2, <3>3 DEF OpenCalls
      <3>5. i # 1
        BY <3>3, <3>4
      <3>6. i - 1 \in 1..Len(q) /\ i - 1 \in 1..(Len(p) - 1) /\ (i - 1) + 1 = i
        BY <1>2, <2>1, <3>5
      <3> QED  BY <2>1, <3>4, <3>6
    <2>7. Left(p) = q
      BY <1>5 DEF Left
    <2> QED  BY <1>5, <2>2, <2>3, <2>4, <2>5, <2>6, <2>7 DEF OpenCalls
  <1> QED  BY <1>4, <1>5

LEMMA PopsPartner ==
    ASSUME NEW w \in Seq(Positions), NEW H, IsHeight(w, H), NEW k \in 1..Len(w), w[k].kind = "return",
           NEW p, OpenCalls(H, k - 1, p), NEW n, NEW s, \A i \in 0..Len(w) : s[i] \in n.states, NEW q
    PROVE  /\ RunPops(n, H, s, k, q) <=> IF p = <<>> THEN q \in n.initial ELSE q = s[p[1] - 1]
           /\ p # <<>> => p[1] \in 1..(k - 1)
  <1>1. p = <<>> => ~Partnered(H, k)
    BY OpenCallsReturn
  <1>2. p # <<>> => p[1] \in 1..(k - 1) /\ Partner(H, p[1], k)
    BY OpenCallsReturn
  <1>3. CASE p = <<>>
    BY <1>1, <1>3 DEF RunPops, Partnered
  <1>4. CASE p # <<>>
    <2>1. \A c \in 1..(k - 1) : Partner(H, c, k) <=> c = p[1]
      BY <1>2, <1>4, OnePartner
    <2> QED  BY <1>2, <1>4, <2>1 DEF RunPops, Partnered
  <1> QED  BY <1>3, <1>4

LEMMA CallerTakes ==
    ASSUME NEW n, NEW N \in Nat, NEW s, \A i \in 0..N : s[i] \in n.states
    PROVE  Takes(Caller(s, N), 1..N, n.states) /\ \A c \in 1..N : Caller(s, N)[c] = s[c - 1]
  <1>1. \A c \in 1..N : c - 1 \in 0..N
    OBVIOUS
  <1> QED  BY <1>1 DEF Takes, Caller

(* A step of a run and a move of its configuration are the same. *)
Same2(n, w, H, s, k, p, r) ==
    \A e : Moves(n, <<s[k - 1], Map(Caller(s, Len(w)), p)>>, w[k].kind, {w[k].sym} \cup {WILD}, e) /\ e[1] = s[k]
             <=> RunStep(n, w, H, s, k) /\ e = <<s[k], Map(Caller(s, Len(w)), r)>>

LEMMA StepMoves ==
    ASSUME NEW n, NEW w \in Seq(Positions), NEW H, IsHeight(w, H), NEW k \in 1..Len(w),
           NEW p, OpenCalls(H, k - 1, p), NEW s, \A i \in 0..Len(w) : s[i] \in n.states
    PROVE  \E r : OpenCalls(H, k, r) /\ Same2(n, w, H, s, k, p, r)
  <1>0. Len(w) \in Nat
    BY HeightAt
  <1>a. /\ Takes(Caller(s, Len(w)), 1..Len(w), n.states)
        /\ \A c \in 1..Len(w) : Caller(s, Len(w))[c] = s[c - 1]
    BY <1>0, CallerTakes
  <1> DEFINE N == Len(w)
             h == Caller(s, N)
             st == Map(h, p)
             X == 1..N
             as == {w[k].sym} \cup {WILD}
             c == <<s[k - 1], st>>
  <1>1. N \in Nat /\ k \in Nat /\ k \in X /\ w[k].kind \in {"call", "internal", "return"}
    BY HeightAt
  <1>2. Takes(h, X, n.states) /\ \A i \in X : h[i] = s[i - 1]
    BY <1>a
  <1>3. p \in Seq(X)
    <2>1. p \in Seq(1..(k - 1)) /\ 1..(k - 1) \subseteq X
      BY <1>1 DEF OpenCalls
    <2> QED  BY <2>1
  <1>4. as = {w[k].sym, WILD}
    OBVIOUS
  <1> HIDE DEF h, X, as
  <1>5. st \in Seq(n.states) /\ (st = <<>> <=> p = <<>>)
    BY <1>2, <1>3, MapNone
  <1>6. c[1] = s[k - 1] /\ c[2] = st
    OBVIOUS
  <1> HIDE DEF st, c
  <1>7. ASSUME w[k].kind = "call", NEW e
        PROVE  Moves(n, c, w[k].kind, as, e) /\ e[1] = s[k] <=> RunStep(n, w, H, s, k) /\ e = <<s[k], Push(s[k - 1], st)>>
    <2>1. RunStep(n, w, H, s, k) <=> \E t \in n.calls : t.from = s[k - 1] /\ t.sym \in as /\ s[k] \in epsilonClosure(n, t.to)
      BY <1>4, <1>7 DEF RunStep, RunEdge
    <2>2. Moves(n, c, w[k].kind, as, e) <=> \E t \in n.calls : t.from = s[k - 1] /\ t.sym \in as
                                              /\ \E q \in epsilonClosure(n, t.to) : e = <<q, Push(s[k - 1], st)>>
      BY <1>6, <1>7 DEF Moves
    <2> DEFINE z == Push(s[k - 1], st)
    <2>3. \A q : <<q, z>>[1] = q
      OBVIOUS
    <2> HIDE DEF z
    <2> QED  BY <2>1, <2>2, <2>3 DEF z
  <1>8. ASSUME w[k].kind = "internal", NEW e
        PROVE  Moves(n, c, w[k].kind, as, e) /\ e[1] = s[k] <=> RunStep(n, w, H, s, k) /\ e = <<s[k], st>>
    <2>1. RunStep(n, w, H, s, k) <=> \E t \in n.internals : t.from = s[k - 1] /\ t.sym \in as /\ s[k] \in epsilonClosure(n, t.to)
      BY <1>4, <1>8 DEF RunStep, RunEdge
    <2>2. Moves(n, c, w[k].kind, as, e) <=> \E t \in n.internals : t.from = s[k - 1] /\ t.sym \in as
                                              /\ \E q \in epsilonClosure(n, t.to) : e = <<q, st>>
      BY <1>6, <1>8 DEF Moves
    <2>3. \A q : <<q, st>>[1] = q
      OBVIOUS
    <2> QED  BY <2>1, <2>2, <2>3
  <1>9. ASSUME w[k].kind = "return", NEW e
        PROVE  Moves(n, c, w[k].kind, as, e) /\ e[1] = s[k] <=> RunStep(n, w, H, s, k) /\ e = <<s[k], Left(st)>>
    <2>0. ASSUME NEW t PROVE Pops(n, t, st) <=> RunPops(n, H, s, k, t.pred)
      <3>1. RunPops(n, H, s, k, t.pred) <=> IF p = <<>> THEN t.pred \in n.initial ELSE t.pred = s[p[1] - 1]
        <4> DEFINE q == t.pred
        <4> HIDE DEF q
        <4>1. RunPops(n, H, s, k, q) <=> IF p = <<>> THEN q \in n.initial ELSE q = s[p[1] - 1]
          BY <1>9, PopsPartner
        <4> QED  BY <4>1 DEF q
      <3>2. ASSUME p # <<>> PROVE Head(st) = s[p[1] - 1]
        <4> DEFINE g == Head(p)
                   u == Tail(p)
        <4>1. g \in X /\ u \in Seq(X) /\ p = Push(g, u) /\ g = p[1]
          BY <1>3, <3>2, Popped
        <4> HIDE DEF g, u
        <4>2. st = Push(h[g], Map(h, u))
          BY <1>2, <4>1, MapPush DEF st
        <4>3. Map(h, u) \in Seq(n.states)
          BY <1>2, <4>1, MapNone
        <4>4. h[g] \in n.states
          BY <1>2, <4>1 DEF Takes
        <4>5. Head(Push(h[g], Map(h, u))) = h[g]
          <5> DEFINE a == h[g]
                     b == Map(h, u)
          <5>1. a \in n.states /\ b \in Seq(n.states)
            BY <4>3, <4>4
          <5> HIDE DEF a, b
          <5>2. Head(Push(a, b)) = a
            BY <5>1, PushedTop
          <5> QED  BY <5>2 DEF a, b
        <4> QED  BY <1>2, <4>1, <4>2, <4>5
      <3> QED  BY <1>5, <3>1, <3>2 DEF Pops
    <2>1. RunStep(n, w, H, s, k) <=> \E t \in n.returns : t.from = s[k - 1] /\ t.sym \in as /\ s[k] \in epsilonClosure(n, t.to)
                                                          /\ RunPops(n, H, s, k, t.pred)
      BY <1>4, <1>9 DEF RunStep, RunReturn
    <2>2. Moves(n, c, w[k].kind, as, e) <=> \E t \in n.returns : t.from = s[k - 1] /\ t.sym \in as /\ Pops(n, t, st)
                                              /\ \E q \in epsilonClosure(n, t.to) : e = <<q, Left(st)>>
      BY <1>6, <1>9 DEF Moves
    <2> DEFINE z == Left(st)
    <2>3. \A q : <<q, z>>[1] = q
      OBVIOUS
    <2> HIDE DEF z
    <2> QED  BY <2>0, <2>1, <2>2, <2>3 DEF z
  <1>10. CASE w[k].kind = "call"
    <2>1. OpenCalls(H, k, Push(k, p))
      BY <1>10, OpenCallsCall
    <2>2. Map(h, Push(k, p)) = Push(s[k - 1], st)
      <3>1. Map(h, Push(k, p)) = Push(h[k], Map(h, p))
        BY <1>1, <1>2, <1>3, MapPush
      <3> QED  BY <1>1, <1>2, <3>1 DEF st
    <2>3. Same2(n, w, H, s, k, p, Push(k, p))
      BY <1>7, <1>10, <2>2 DEF Same2, c, st, as, h
    <2> QED  BY <2>1, <2>3
  <1>11. CASE w[k].kind = "internal"
    <2>1. OpenCalls(H, k, p)
      BY <1>11, OpenCallsInternal
    <2>3. Same2(n, w, H, s, k, p, p)
      BY <1>8, <1>11 DEF Same2, c, st, as, h
    <2> QED  BY <2>1, <2>3
  <1>12. CASE w[k].kind = "return"
    <2>1. OpenCalls(H, k, Left(p))
      BY <1>12, OpenCallsReturn
    <2>2. Map(h, Left(p)) = Left(st)
      <3>1. Over2(p, X)
        BY <1>3 DEF Over2
      <3>2. Map(h, Left(p)) = Left(Map(h, p))
        BY <1>2, <1>3, <3>1, MapLeft
      <3> QED  BY <3>2 DEF st
    <2>3. Same2(n, w, H, s, k, p, Left(p))
      BY <1>9, <1>12, <2>2 DEF Same2, c, st, as, h
    <2> QED  BY <2>1, <2>3
  <1> QED  BY <1>1, <1>10, <1>11, <1>12

LEMMA RunIsLive ==
    ASSUME NEW n, Finite(n), NEW w \in Seq(Positions), NEW H, IsHeight(w, H), NEW s, IsRun(n, w, H, s)
    PROVE  \A k \in 0..Len(w) : \E p : <<s[k], p>> \in Live(n, w, {WILD}, k)
  <1> DEFINE N == Len(w)
             at(k, p) == <<s[k], Map(Caller(s, N), p)>>
             T == {k \in Nat : \E p : OpenCalls(H, k, p) /\ at(k, p) \in Live(n, w, {WILD}, k)}
  <1>0. N \in Nat /\ \A k \in 0..N : s[k] \in n.states
    BY HeightAt DEF IsRun
  <1>1. 0 \in T
    <2>1. Takes(Caller(s, N), 1..N, n.states) /\ <<>> \in Seq(1..N)
      BY <1>0, CallerTakes
    <2>2. Map(Caller(s, N), <<>>) = <<>>
      BY <2>1, MapNone
    <2>3. at(0, <<>>) \in Live(n, w, {WILD}, 0)
      <3>1. PICK i \in n.initial : s[0] \in epsilonClosure(n, i)
        BY DEF IsRun, RunStart
      <3> QED  BY <1>0, <2>2, <3>1, LiveAtFirst
    <2> HIDE DEF at
    <2> QED  BY <2>3, OpenCallsNone
  <1>2. ASSUME NEW k \in 1..N, k - 1 \in T PROVE k \in T
    <2>1. PICK p : OpenCalls(H, k - 1, p) /\ at(k - 1, p) \in Live(n, w, {WILD}, k - 1)
      BY <1>2
    <2>2. PICK r : OpenCalls(H, k, r) /\ Same2(n, w, H, s, k, p, r)
      BY <1>0, <2>1, StepMoves
    <2>3. RunStep(n, w, H, s, k)
      BY DEF IsRun
    <2>4. Moves(n, at(k - 1, p), w[k].kind, {w[k].sym} \cup {WILD}, at(k, r))
      BY <2>2, <2>3 DEF Same2
    <2>5. at(k, r) \in Live(n, w, {WILD}, k)
      <3> HIDE DEF at
      <3> QED  BY <2>1, <2>4, LiveOn
    <2> HIDE DEF at
    <2> QED  BY <1>0, <2>2, <2>5
  <1>3. 0..N \subseteq T
    <2> HIDE DEF T
    <2> QED  BY <1>0, <1>1, <1>2, UpTo
  <1> QED  BY <1>3

(* Beginnings of runs: what a step says is about the states up to it only. *)
Agree(s, r, k) == \A i \in 0..k : s[i] = r[i]

LEMMA StepAgrees ==
    ASSUME NEW n, NEW w, NEW H, NEW k \in Nat, k > 0, NEW s, NEW r, Agree(s, r, k), RunStep(n, w, H, s, k)
    PROVE  RunStep(n, w, H, r, k)
  <1>1. \A c \in 1..k : c - 1 \in 0..k /\ s[c - 1] = r[c - 1]
    BY DEF Agree
  <1>2. s[k] = r[k] /\ s[k - 1] = r[k - 1]
    BY <1>1 DEF Agree
  <1>3. ASSUME NEW q, RunPops(n, H, s, k, q) PROVE RunPops(n, H, r, k, q)
    <2>1. \A c \in 1..(k - 1) : s[c - 1] = r[c - 1]
      BY <1>1
    <2> QED  BY <1>3, <2>1 DEF RunPops
  <1> QED  BY <1>2, <1>3 DEF RunStep, RunReturn

RunTo(n, w, H, s, k) ==
    /\ \A i \in 0..Len(w) : s[i] \in n.states
    /\ RunStart(n, s[0])
    /\ \A i \in 1..k : RunStep(n, w, H, s, i)

RunBehind(n, w, H, k, e) ==
    \E s, p : RunTo(n, w, H, s, k) /\ OpenCalls(H, k, p) /\ e = <<s[k], Map(Caller(s, Len(w)), p)>>

LEMMA LiveIsRun ==
    ASSUME NEW n, Finite(n), NEW w \in Seq(Positions), NEW H, IsHeight(w, H)
    PROVE  \A k \in 0..Len(w) : \A e \in Live(n, w, {WILD}, k) : RunBehind(n, w, H, k, e)
  <1> DEFINE N == Len(w)
             good(e, k, s, p) == RunTo(n, w, H, s, k) /\ OpenCalls(H, k, p) /\ e = <<s[k], Map(Caller(s, N), p)>>
             T == {k \in Nat : \A e \in Live(n, w, {WILD}, k) : \E s, p : good(e, k, s, p)}
  <1>0. N \in Nat /\ WellFormed(n) /\ IsFiniteSet(n.states)
    BY HeightAt DEF Finite
  <1>1. 0 \in T
    <2>1. ASSUME NEW e \in Live(n, w, {WILD}, 0) PROVE \E s, p : good(e, 0, s, p)
      <3>1. PICK i \in n.initial : \E q \in epsilonClosure(n, i) : e = <<q, <<>>>>
        BY <1>0, LiveAtFirst
      <3>2. PICK q \in epsilonClosure(n, i) : e = <<q, <<>>>>
        BY <3>1
      <3>3. q \in n.states
        BY <1>0, <3>2, WellFormedParts, ClosureFacts
      <3> DEFINE s == [k \in 0..N |-> q]
      <3>4. s[0] = q /\ \A k \in 0..N : s[k] \in n.states
        BY <1>0, <3>3
      <3> HIDE DEF s
      <3>5. Takes(Caller(s, N), 1..N, n.states) /\ <<>> \in Seq(1..N)
        BY <1>0, <3>4, CallerTakes
      <3>6. Map(Caller(s, N), <<>>) = <<>>
        BY <3>5, MapNone
      <3>7. RunTo(n, w, H, s, 0)
        BY <3>2, <3>4 DEF RunTo, RunStart
      <3>8. good(e, 0, s, <<>>)
        BY <3>2, <3>4, <3>6, <3>7, OpenCallsNone
      <3> HIDE DEF good
      <3> QED  BY <3>8
    <2> HIDE DEF good
    <2> QED  BY <2>1
  <1>2. ASSUME NEW k \in 1..N, k - 1 \in T PROVE k \in T
    <2>1. ASSUME NEW e \in Live(n, w, {WILD}, k) PROVE \E s, p : good(e, k, s, p)
      <3>1. PICK c \in Live(n, w, {WILD}, k - 1) : Moves(n, c, w[k].kind, {w[k].sym} \cup {WILD}, e)
        BY LiveBack
      <3>2. PICK r, p : good(c, k - 1, r, p)
        <4> HIDE DEF good
        <4> QED  BY <1>2, <3>1
      <3>3. e[1] \in n.states
        <4>1. e \in Confs(n)
          <5>1. k \in 0..N
            BY <1>0
          <5> QED  BY <1>0, <5>1, LiveTyped
        <4> QED  BY <4>1 DEF Confs
      <3> DEFINE s == [i \in 0..N |-> IF i = k THEN e[1] ELSE r[i]]
      <3>4. k \in Nat /\ k \in 0..N /\ k > 0 /\ k - 1 \in 0..N /\ k - 1 # k
        BY <1>0
      <3>5. s[k] = e[1] /\ \A i \in 0..N : i # k => s[i] = r[i]
        BY <3>4
      <3>6. \A i \in 0..N : r[i] \in n.states
        BY <3>2 DEF RunTo
      <3> HIDE DEF s
      <3>7. \A i \in 0..N : s[i] \in n.states
        BY <3>3, <3>5, <3>6
      <3>8. OpenCalls(H, k - 1, p) /\ c = <<r[k - 1], Map(Caller(r, N), p)>>
        BY <3>2
      <3>9. Map(Caller(s, N), p) = Map(Caller(r, N), p)
        <4>1. p \in Seq(1..(k - 1)) /\ \A i \in 1..Len(p) : p[i] \in 1..(k - 1)
          BY <3>8 DEF OpenCalls
        <4>2. \A i \in 1..Len(p) : p[i] \in 1..N /\ p[i] - 1 \in 0..N /\ p[i] - 1 # k
          <5>1. \A x \in 1..(k - 1) : x \in 1..N /\ x - 1 \in 0..N /\ x - 1 # k
            BY <1>0, <3>4
          <5> QED  BY <4>1, <5>1
        <4>3. \A i \in 1..Len(p) : Caller(s, N)[p[i]] = Caller(r, N)[p[i]]
          BY <3>5, <4>2 DEF Caller
        <4> QED  BY <4>3 DEF Map
      <3>10. c = <<s[k - 1], Map(Caller(s, N), p)>>
        BY <3>4, <3>5, <3>8, <3>9
      <3>11. PICK o : OpenCalls(H, k, o) /\ Same2(n, w, H, s, k, p, o)
        BY <3>7, <3>8, StepMoves
      <3>12. RunStep(n, w, H, s, k) /\ e = <<s[k], Map(Caller(s, N), o)>>
        BY <3>1, <3>5, <3>10, <3>11 DEF Same2
      <3>13. RunTo(n, w, H, s, k)
        <4>1. s[0] = r[0]
          BY <1>0, <3>4, <3>5
        <4>2. RunStart(n, s[0])
          BY <3>2, <4>1 DEF RunTo
        <4>3. ASSUME NEW i \in 1..k, i # k PROVE RunStep(n, w, H, s, i)
          <5>1. i \in 1..(k - 1) /\ i \in Nat /\ i > 0
            BY <3>4, <4>3
          <5>2. RunStep(n, w, H, r, i)
            BY <3>2, <5>1 DEF RunTo
          <5>3. Agree(r, s, i)
            <6>1. \A j \in 0..i : j \in 0..N /\ j # k
              BY <1>0, <3>4, <5>1
            <6> QED  BY <3>5, <6>1 DEF Agree
          <5> QED  BY <5>1, <5>2, <5>3, StepAgrees
        <4> QED  BY <3>7, <3>12, <4>2, <4>3 DEF RunTo
      <3>14. good(e, k, s, o)
        BY <3>11, <3>12, <3>13
      <3> HIDE DEF good
      <3> QED  BY <3>14
    <2>2. k \in Nat
      BY <1>0
    <2> HIDE DEF good
    <2> QED  BY <2>1, <2>2
  <1>3. 0..N \subseteq T
    <2> HIDE DEF T
    <2> QED  BY <1>0, <1>1, <1>2, UpTo
  <1>4. ASSUME NEW k \in 0..N, NEW e \in Live(n, w, {WILD}, k) PROVE RunBehind(n, w, H, k, e)
    <2>1. PICK s, p : good(e, k, s, p)
      <3> HIDE DEF good
      <3> QED  BY <1>3
    <2> QED  BY <2>1 DEF RunBehind
  <1> QED  BY <1>4

(* A word is accepted over a run that ends in a final state. *)
LEMMA AcceptsRun ==
    ASSUME NEW n, Finite(n), NEW w \in Seq(Positions), NEW H, IsHeight(w, H)
    PROVE  Accepts(n, w, {WILD}) <=> \E s : IsRun(n, w, H, s) /\ s[Len(w)] \in n.final
  <1> DEFINE N == Len(w)
  <1>1. N \in Nat /\ N \in 0..N
    BY HeightAt
  <1>2. ASSUME NEW s, IsRun(n, w, H, s), s[N] \in n.final PROVE Accepts(n, w, {WILD})
    <2>1. PICK p : <<s[N], p>> \in Live(n, w, {WILD}, N)
      BY <1>1, <1>2, RunIsLive
    <2>2. <<s[N], p>>[1] = s[N]
      OBVIOUS
    <2> QED  BY <1>2, <2>1, <2>2, AcceptsLive
  <1>3. ASSUME Accepts(n, w, {WILD}) PROVE \E s : IsRun(n, w, H, s) /\ s[N] \in n.final
    <2>1. PICK e \in Live(n, w, {WILD}, N) : e[1] \in n.final
      BY <1>3, AcceptsLive
    <2>a. RunBehind(n, w, H, N, e)
      BY <1>1, <2>1, LiveIsRun
    <2>2. PICK s, p : RunTo(n, w, H, s, N) /\ e = <<s[N], Map(Caller(s, N), p)>>
      BY <2>a DEF RunBehind
    <2>3. s[N] \in n.final
      BY <2>1, <2>2
    <2>4. IsRun(n, w, H, s)
      BY <2>2 DEF IsRun, RunTo
    <2> QED  BY <2>3, <2>4
  <1> QED  BY <1>2, <1>3

-----------------------------------------------------------------------------
(* The shape of a word, by height. *)
LEMMA OpensAre ==
    ASSUME NEW w \in Seq(Positions), NEW H, IsHeight(w, H)
    PROVE  \A k \in 0..Len(w) : \E p : OpenCalls(H, k, p) /\ Len(p) = Opens(w)[k]
  <1> DEFINE N == Len(w)
             T == {k \in Nat : \E p : OpenCalls(H, k, p) /\ Len(p) = Opens(w)[k]}
  <1>0. N \in Nat
    BY HeightAt
  <1>1. 0 \in T
    <2>1. Len(<<>>) = 0 /\ Opens(w)[0] = 0
      BY OpensStep
    <2> QED  BY <2>1, OpenCallsNone
  <1>2. ASSUME NEW k \in 1..N, k - 1 \in T PROVE k \in T
    <2>0. k \in Nat /\ w[k].kind \in {"call", "internal", "return"}
      BY HeightAt
    <2>1. PICK p : OpenCalls(H, k - 1, p) /\ Len(p) = Opens(w)[k - 1]
      BY <1>2
    <2>2. Opens(w)[k] = OpenAt(Len(p), w[k].kind)
      BY <2>1, OpensStep
    <2>3. p \in Seq(1..(k - 1)) /\ p \in Seq(1..k) /\ k \in 1..k
      <3>1. p \in Seq(1..(k - 1)) /\ 1..(k - 1) \subseteq 1..k
        BY <2>0, <2>1 DEF OpenCalls
      <3> QED  BY <2>0, <3>1
    <2>4. CASE w[k].kind = "call"
      <3>1. OpenCalls(H, k, Push(k, p))
        BY <2>1, <2>4, OpenCallsCall
      <3>2. Len(Push(k, p)) = Len(p) + 1
        <4> DEFINE A == 1..k
        <4>1. p \in Seq(A) /\ k \in A
          BY <2>3
        <4> HIDE DEF A
        <4> QED  BY <4>1, Pushed
      <3>3. Opens(w)[k] = Len(p) + 1
        BY <2>2, <2>4 DEF OpenAt
      <3> QED  BY <2>0, <3>1, <3>2, <3>3
    <2>5. CASE w[k].kind = "internal"
      <3>1. OpenCalls(H, k, p)
        BY <2>1, <2>5, OpenCallsInternal
      <3>2. Opens(w)[k] = Len(p)
        BY <2>2, <2>5 DEF OpenAt
      <3> QED  BY <2>0, <3>1, <3>2
    <2>6. CASE w[k].kind = "return"
      <3>1. OpenCalls(H, k, Left(p))
        BY <2>1, <2>6, OpenCallsReturn
      <3>2. Opens(w)[k] = IF Len(p) = 0 THEN 0 ELSE Len(p) - 1
        BY <2>2, <2>6 DEF OpenAt
      <3>3. Len(Left(p)) = Opens(w)[k]
        <4>1. CASE p = <<>>
          BY <3>2, <4>1 DEF Left
        <4>2. CASE p # <<>>
          <5> DEFINE A == 1..k
          <5>1. p \in Seq(A)
            BY <2>3
          <5> HIDE DEF A
          <5>2. Len(p) \in Nat /\ Len(p) > 0 /\ Len(Tail(p)) = Len(p) - 1
            BY <4>2, <5>1, Popped
          <5>3. Left(p) = Tail(p)
            BY <4>2 DEF Left
          <5> QED  BY <3>2, <5>2, <5>3
        <4> QED  BY <4>1, <4>2
      <3> QED  BY <2>0, <3>1, <3>3
    <2> QED  BY <2>0, <2>4, <2>5, <2>6
  <1>3. 0..N \subseteq T
    <2> HIDE DEF T
    <2> QED  BY <1>0, <1>1, <1>2, UpTo
  <1> QED  BY <1>3

LEMMA PendingReturns ==
    ASSUME NEW w \in Seq(Positions), NEW H, IsHeight(w, H)
    PROVE  PendingReturn(w) <=> \E k \in 1..Len(w) : w[k].kind = "return" /\ ~Partnered(H, k)
  <1>1. DOMAIN w = 1..Len(w)
    OBVIOUS
  <1>2. ASSUME NEW k \in 1..Len(w), w[k].kind = "return"
        PROVE  Opens(w)[k - 1] = 0 <=> ~Partnered(H, k)
    <2>1. k - 1 \in 0..Len(w)
      BY HeightAt
    <2>2. PICK p : OpenCalls(H, k - 1, p) /\ Len(p) = Opens(w)[k - 1]
      BY <2>1, OpensAre
    <2>3. p \in Seq(1..(k - 1))
      BY <2>2 DEF OpenCalls
    <2>4. p = <<>> <=> Len(p) = 0
      BY <2>3
    <2>5. p = <<>> => ~Partnered(H, k)
      BY <1>2, <2>2, OpenCallsReturn
    <2>6. p # <<>> => Partnered(H, k)
      <3>1. p # <<>> => p[1] \in 1..(k - 1) /\ Partner(H, p[1], k)
        BY <1>2, <2>2, OpenCallsReturn
      <3> QED  BY <3>1 DEF Partnered
    <2> QED  BY <2>2, <2>4, <2>5, <2>6
  <1> QED  BY <1>1, <1>2 DEF PendingReturn

LEMMA PendingCalls ==
    ASSUME NEW w \in Seq(Positions), NEW H, IsHeight(w, H)
    PROVE  PendingCall(w) <=> \E c \in 1..Len(w) : OpenCall(H, c, Len(w))
  <1>1. Len(w) \in Nat /\ Len(w) \in 0..Len(w)
    BY HeightAt
  <1>2. PICK p : OpenCalls(H, Len(w), p) /\ Len(p) = Opens(w)[Len(w)]
    BY <1>1, OpensAre
  <1>3. p \in Seq(1..Len(w)) /\ Len(p) \in Nat /\ \A i \in 1..Len(p) : p[i] \in 1..Len(w) /\ OpenCall(H, p[i], Len(w))
    BY <1>2 DEF OpenCalls
  <1>4. ASSUME Len(p) > 0 PROVE \E c \in 1..Len(w) : OpenCall(H, c, Len(w))
    <2>1. 1 \in 1..Len(p)
      BY <1>3, <1>4
    <2> QED  BY <1>3, <2>1
  <1>5. ASSUME NEW c \in 1..Len(w), OpenCall(H, c, Len(w)) PROVE Len(p) > 0
    <2>1. PICK i \in 1..Len(p) : p[i] = c
      BY <1>2, <1>5 DEF OpenCalls
    <2> QED  BY <1>3, <2>1
  <1> QED  BY <1>2, <1>4, <1>5 DEF PendingCall

-----------------------------------------------------------------------------
(* Words in two parts. *)
After(H, a, N) == [k \in 0..N |-> H[a + k]]

LEMMA Joined ==
    ASSUME NEW v \in Seq(Positions), NEW u \in Seq(Positions)
    PROVE  /\ v \o u \in Seq(Positions) /\ Len(v \o u) = Len(v) + Len(u) /\ Len(v) \in Nat /\ Len(u) \in Nat
           /\ \A k \in 1..Len(v) : (v \o u)[k] = v[k]
           /\ \A k \in 1..Len(u) : (v \o u)[Len(v) + k] = u[k]
  <1>1. v \o u \in Seq(Positions) /\ Len(v \o u) = Len(v) + Len(u) /\ Len(v) \in Nat /\ Len(u) \in Nat
    OBVIOUS
  <1>2. \A k \in 1..(Len(v) + Len(u)) : (v \o u)[k] = IF k <= Len(v) THEN v[k] ELSE u[k - Len(v)]
    OBVIOUS
  <1>3. \A k \in 1..Len(v) : k \in 1..(Len(v) + Len(u)) /\ k <= Len(v)
    BY <1>1
  <1>4. \A k \in 1..Len(u) : Len(v) + k \in 1..(Len(v) + Len(u)) /\ ~(Len(v) + k <= Len(v)) /\ (Len(v) + k) - Len(v) = k
    BY <1>1
  <1> HIDE DEF Positions
  <1>5. \A k \in 1..Len(v) : (v \o u)[k] = v[k]
    BY <1>2, <1>3
  <1>6. \A k \in 1..Len(u) : (v \o u)[Len(v) + k] = u[k]
    BY <1>2, <1>4
  <1> QED  BY <1>1, <1>5, <1>6

LEMMA Parted ==
    ASSUME NEW w \in Seq(Positions), NEW a \in 0..Len(w)
    PROVE  \E v, u : v \in Seq(Positions) /\ u \in Seq(Positions) /\ w = v \o u /\ Len(v) = a
  <1> DEFINE v == SubSeq(w, 1, a)
             u == SubSeq(w, a + 1, Len(w))
  <1>1. Len(w) \in Nat
    OBVIOUS
  <1>2. v \in Seq(Positions) /\ Len(v) = a /\ \A k \in 1..a : v[k] = w[k]
    BY <1>1
  <1>3. u \in Seq(Positions) /\ Len(u) = Len(w) - a /\ \A k \in 1..(Len(w) - a) : u[k] = w[a + k]
    BY <1>1
  <1> HIDE DEF v, u
  <1>4. /\ v \o u \in Seq(Positions) /\ Len(v \o u) = Len(v) + Len(u)
        /\ \A k \in 1..Len(v) : (v \o u)[k] = v[k]
        /\ \A k \in 1..Len(u) : (v \o u)[Len(v) + k] = u[k]
    BY <1>2, <1>3, Joined
  <1>5. ASSUME NEW k \in 1..Len(w) PROVE (v \o u)[k] = w[k]
    <2>1. CASE k <= a
      <3>1. k \in 1..a
        BY <2>1
      <3> QED  BY <1>2, <1>4, <3>1
    <2>2. CASE k > a
      <3> DEFINE i == k - a
      <3>1. i \in 1..(Len(w) - a) /\ k = a + i
        BY <1>1, <2>2
      <3> HIDE DEF i
      <3> QED  BY <1>2, <1>3, <1>4, <3>1
    <2>3. k <= a \/ k > a
      BY <1>1
    <2> QED  BY <2>1, <2>2, <2>3
  <1>6. Len(v \o u) = Len(w)
    BY <1>1, <1>2, <1>3, <1>4
  <1>7. w = v \o u
    BY <1>4, <1>5, <1>6, SeqEqual
  <1> QED  BY <1>2, <1>3, <1>7

Parts(w, H, v, u) ==
    /\ v \in Seq(Positions) /\ u \in Seq(Positions) /\ w = v \o u
    /\ IsHeight(w, H)

LEMMA PartsAre ==
    ASSUME NEW w, NEW H, NEW v, NEW u, Parts(w, H, v, u)
    PROVE  /\ w \in Seq(Positions) /\ Len(w) = Len(v) + Len(u) /\ Len(v) \in Nat /\ Len(u) \in Nat
           /\ \A k \in 1..Len(v) : w[k] = v[k] /\ k \in 1..Len(w)
           /\ \A k \in 1..Len(u) : w[Len(v) + k] = u[k] /\ Len(v) + k \in 1..Len(w)
           /\ IsHeight(v, H) /\ IsHeight(u, After(H, Len(v), Len(u)))
           /\ \A k \in 1..Len(u) : \A c \in 1..(k - 1) :
                Partner(After(H, Len(v), Len(u)), c, k) <=> Partner(H, Len(v) + c, Len(v) + k)
           /\ \A k \in 0..Len(u) : \A c \in 1..k :
                OpenCall(After(H, Len(v), Len(u)), c, k) <=> OpenCall(H, Len(v) + c, Len(v) + k)
  <1> DEFINE a == Len(v)
             M == Len(u)
             N == Len(w)
             G == After(H, a, M)
  <1>1. /\ w \in Seq(Positions) /\ N = a + M /\ a \in Nat /\ M \in Nat
        /\ \A k \in 1..a : w[k] = v[k]
        /\ \A k \in 1..M : w[a + k] = u[k]
    BY Joined DEF Parts
  <1>2. IsHeight(w, H)
    BY DEF Parts
  <1> HIDE DEF a, M, N
  <1>3. \A k \in 1..a : k \in 1..N
    BY <1>1
  <1>4. \A k \in 0..M : a + k \in 0..N
    BY <1>1
  <1>5. \A k \in 1..M : a + k \in 1..N
    BY <1>1
  <1>6. IsHeight(v, H)
    <2>1. \A k \in 0..a : k \in 0..N
      BY <1>1
    <2> QED  BY <1>1, <1>2, <1>3, <2>1 DEF IsHeight, a, N
  <1>7. \A k \in 0..M : G[k] = H[a + k]
    BY DEF After
  <1> HIDE DEF G
  <1>8. IsHeight(u, G)
    <2>1. \A k \in 0..M : G[k] \in Int
      BY <1>2, <1>4, <1>7 DEF IsHeight, N
    <2>2. ASSUME NEW k \in 1..M
          PROVE  /\ u[k].kind = "call" => G[k] = G[k - 1] + 1
                 /\ u[k].kind = "internal" => G[k] = G[k - 1]
                 /\ u[k].kind = "return" => G[k] = G[k - 1] - 1
      <3>1. a + k \in 1..N /\ w[a + k] = u[k] /\ (a + k) - 1 = a + (k - 1) /\ k \in 0..M /\ k - 1 \in 0..M
        BY <1>1, <1>5
      <3>2. G[k] = H[a + k] /\ G[k - 1] = H[(a + k) - 1]
        BY <1>7, <3>1
      <3> QED  BY <1>2, <3>1, <3>2 DEF IsHeight, N
    <2> QED  BY <2>1, <2>2 DEF IsHeight, M
  <1>9. ASSUME NEW k \in 0..M, NEW c \in 1..k
        PROVE  /\ (a + c) - 1 = a + (c - 1) /\ c - 1 \in 0..M /\ k \in 0..M
               /\ \A i \in c..k : i \in 0..M /\ a + i \in (a + c)..(a + k)
               /\ \A i \in (a + c)..(a + k) : i - a \in c..k /\ i - a \in 0..M /\ a + (i - a) = i
    BY <1>1
  <1>10. ASSUME NEW k \in 0..M, NEW c \in 1..k PROVE OpenCall(G, c, k) <=> OpenCall(H, a + c, a + k)
    <2>1. G[c - 1] = H[(a + c) - 1]
      BY <1>7, <1>9
    <2>2. ASSUME \A i \in c..k : G[i] > G[c - 1] PROVE \A i \in (a + c)..(a + k) : H[i] > H[(a + c) - 1]
      <3>1. \A i \in (a + c)..(a + k) : i - a \in c..k /\ G[i - a] = H[i]
        BY <1>7, <1>9
      <3> QED  BY <2>1, <2>2, <3>1
    <2>3. ASSUME \A i \in (a + c)..(a + k) : H[i] > H[(a + c) - 1] PROVE \A i \in c..k : G[i] > G[c - 1]
      <3>1. \A i \in c..k : a + i \in (a + c)..(a + k) /\ G[i] = H[a + i]
        BY <1>7, <1>9
      <3> QED  BY <2>1, <2>3, <3>1
    <2>4. c <= k /\ a + c <= a + k
      BY <1>1
    <2>5. OpenCall(G, c, k) <=> \A i \in c..k : G[i] > G[c - 1]
      BY <2>4 DEF OpenCall
    <2>6. OpenCall(H, a + c, a + k) <=> \A i \in (a + c)..(a + k) : H[i] > H[(a + c) - 1]
      BY <2>4 DEF OpenCall
    <2> QED  BY <2>2, <2>3, <2>5, <2>6
  <1>11. ASSUME NEW k \in 1..M, NEW c \in 1..(k - 1) PROVE Partner(G, c, k) <=> Partner(H, a + c, a + k)
    <2>0. k - 1 \in 0..M /\ k \in 0..M /\ (a + k) - 1 = a + (k - 1)
      BY <1>1
    <2>1. G[c - 1] = H[(a + c) - 1] /\ G[k] = H[a + k]
      BY <1>7, <1>9, <2>0
    <2>2. ASSUME \A i \in c..(k - 1) : G[i] > G[k] PROVE \A i \in (a + c)..((a + k) - 1) : H[i] > H[a + k]
      <3>1. \A i \in (a + c)..((a + k) - 1) : i - a \in c..(k - 1) /\ G[i - a] = H[i]
        BY <1>7, <1>9, <2>0
      <3> QED  BY <2>1, <2>2, <3>1
    <2>3. ASSUME \A i \in (a + c)..((a + k) - 1) : H[i] > H[a + k] PROVE \A i \in c..(k - 1) : G[i] > G[k]
      <3>1. \A i \in c..(k - 1) : a + i \in (a + c)..((a + k) - 1) /\ G[i] = H[a + i]
        BY <1>7, <1>9, <2>0
      <3> QED  BY <2>1, <2>3, <3>1
    <2>4. c < k /\ a + c < a + k
      BY <1>1
    <2>5. Partner(G, c, k) <=> G[c - 1] = G[k] /\ \A i \in c..(k - 1) : G[i] > G[k]
      BY <2>4 DEF Partner
    <2>6. Partner(H, a + c, a + k) <=> H[(a + c) - 1] = H[a + k] /\ \A i \in (a + c)..((a + k) - 1) : H[i] > H[a + k]
      BY <2>4 DEF Partner
    <2> QED  BY <2>1, <2>2, <2>3, <2>5, <2>6
  <1> QED  BY <1>1, <1>3, <1>5, <1>6, <1>8, <1>10, <1>11 DEF a, M, N, G

-----------------------------------------------------------------------------
(* Concatenation. *)
Links(n, m) == {Edge(f, EPSILON, i) : f \in n.final, i \in m.initial}
Repopped(n, m) ==
    {Return(t.from, c.from, t.sym, t.to) : t \in {u \in m.returns : u.pred \in m.initial}, c \in n.calls}
IsConcat(b, n, m) ==
    /\ Finite(b) /\ b.states = n.states \cup m.states /\ b.initial = n.initial /\ b.final = m.final
    /\ b.calls = n.calls \cup m.calls
    /\ b.internals = n.internals \cup m.internals \cup Links(n, m)
    /\ b.returns = n.returns \cup m.returns \cup Repopped(n, m)

LEMMA ConcatFields ==
    ASSUME NEW n, NEW m, Sound(n), Sound(m)
    PROVE  IsConcat(concat(n, m), n, m)
  <1> DEFINE one == [combineWith(n, m) EXCEPT !.initial = n.initial]
             both == [one EXCEPT !.final = m.final]
             L == Links(n, m)
             R == Repopped(n, m)
             b == addInternals(both, L)
             z == concat(n, m)
  <1>0. WellFormed(n) /\ WellFormed(m) /\ IsFiniteSet(n.states) /\ IsFiniteSet(m.states)
    BY DEF Sound, Finite
  <1>1. z = addReturns(b, R)
    BY DEF concat, Links, Repopped
  <1>2. WellFormed(z)
    BY <1>0, Concatenated
  <1>3. WellFormed(both)
    BY <1>0, Combining, Zenon
  <1>4. Whole(combineWith(n, m))
    BY Fields DEF combineWith
  <1>5. Touched(L) \subseteq n.states \cup m.states
    <2>1. ASSUME NEW e \in L PROVE Ends(e) \subseteq n.states \cup m.states
      <3>1. PICK f \in n.final, i \in m.initial : e = Edge(f, EPSILON, i)
        BY DEF Links
      <3> QED  BY <3>1, EdgeEnds, StatesOf
    <2> QED  BY <2>1 DEF Touched
  <1>6. Touched(R) \subseteq n.states \cup m.states
    <2>1. ASSUME NEW e \in R PROVE Ends(e) \subseteq n.states \cup m.states
      <3>1. PICK t \in m.returns, c \in n.calls : e = Return(t.from, c.from, t.sym, t.to)
        BY DEF Repopped
      <3> QED  BY <3>1, ReturnEnds, StatesOf
    <2> QED  BY <2>1 DEF Touched
  <1> HIDE DEF L, R, z
  <1>7. Whole(one) /\ one.states = n.states \cup m.states /\ one.initial = n.initial
        /\ one.calls = n.calls \cup m.calls /\ one.internals = n.internals \cup m.internals
        /\ one.returns = n.returns \cup m.returns
    <2> DEFINE c == combineWith(n, m)
    <2>1. one = Automaton(c.states, c.symbols, n.initial, c.final, c.calls, c.internals, c.returns)
      BY <1>4, Replaced
    <2> HIDE DEF c, one
    <2>2. Whole(one) /\ one.states = c.states /\ one.initial = n.initial /\ one.calls = c.calls
          /\ one.internals = c.internals /\ one.returns = c.returns
      BY <2>1, Fields
    <2> QED  BY <2>2, Combined2 DEF c
  <1>8. both.states = n.states \cup m.states /\ both.initial = n.initial /\ both.final = m.final
        /\ both.calls = n.calls \cup m.calls /\ both.internals = n.internals \cup m.internals
        /\ both.returns = n.returns \cup m.returns
    <2> HIDE DEF one
    <2>1. both = Automaton(one.states, one.symbols, one.initial, m.final, one.calls, one.internals, one.returns)
      BY <1>7, Replaced
    <2> HIDE DEF both
    <2>2. both.states = one.states /\ both.initial = one.initial /\ both.final = m.final /\ both.calls = one.calls
          /\ both.internals = one.internals /\ both.returns = one.returns
      BY <2>1, Fields
    <2> QED  BY <1>7, <2>2
  <1> HIDE DEF both
  <1>9. Whole(both)
    BY <1>3 DEF WellFormed, Whole
  <1>10. AddedTo(b, both, L, both.calls, both.internals \cup L, both.returns)
    BY <1>9, AddedFields
  <1> HIDE DEF b
  <1>11. Whole(b)
    BY <1>10 DEF AddedTo
  <1>12. AddedTo(z, b, R, b.calls, b.internals, b.returns \cup R)
    BY <1>1, <1>11, AddedFields
  <1>13. /\ z.states = n.states \cup m.states /\ z.initial = n.initial /\ z.final = m.final
         /\ z.calls = n.calls \cup m.calls /\ z.internals = n.internals \cup m.internals \cup L
         /\ z.returns = n.returns \cup m.returns \cup R
    BY <1>5, <1>6, <1>8, <1>10, <1>12 DEF AddedTo, Reached
  <1>14. IsFiniteSet(z.states)
    <2>1. IsFiniteSet(n.states \cup m.states)
      BY <1>0, FS_Union
    <2> QED  BY <1>13, <2>1
  <1> QED  BY <1>2, <1>13, <1>14 DEF IsConcat, Finite, z, L, R

LEMMA LinkIs ==
    ASSUME NEW n, NEW m, NEW t
    PROVE  t \in Links(n, m) => t.from \in n.final /\ t.sym = EPSILON /\ t.to \in m.initial
  <1>1. ASSUME t \in Links(n, m) PROVE t.from \in n.final /\ t.sym = EPSILON /\ t.to \in m.initial
    <2>1. PICK f \in n.final, i \in m.initial : t = Edge(f, EPSILON, i)
      BY <1>1 DEF Links
    <2> QED  BY <2>1, EdgeParts
  <1> QED  BY <1>1

LEMMA RepoppedIs ==
    ASSUME NEW n, NEW m, NEW e \in Repopped(n, m)
    PROVE  \E t \in m.returns, c \in n.calls :
             t.pred \in m.initial /\ e.from = t.from /\ e.pred = c.from /\ e.sym = t.sym /\ e.to = t.to
  <1>1. PICK t \in {u \in m.returns : u.pred \in m.initial}, c \in n.calls : e = Return(t.from, c.from, t.sym, t.to)
    BY DEF Repopped
  <1>2. e.from = t.from /\ e.pred = c.from /\ e.sym = t.sym /\ e.to = t.to
    BY <1>1, ReturnParts
  <1> QED  BY <1>2

(* Where EPSILON leads in a concatenation. *)
Past(n, m, q, g) == (\E f \in epsilonClosure(n, q) : f \in n.final) /\ RunStart(m, g)

LEMMA ConcatSecond ==
    ASSUME NEW n, NEW m, NEW b, Sound(n), Sound(m), Disjoint(n, m), IsConcat(b, n, m), NEW q \in m.states
    PROVE  epsilonClosure(b, q) = epsilonClosure(m, q)
  <1>0. WellFormed(n) /\ WellFormed(m) /\ WellFormed(b) /\ IsFiniteSet(m.states) /\ IsFiniteSet(b.states) /\ q \in b.states
    BY DEF Sound, Finite, IsConcat
  <1>1. EpsClosed(m, epsilonClosure(b, q))
    BY <1>0, ClosureFacts DEF EpsClosed, IsConcat
  <1>2. EpsClosed(b, epsilonClosure(m, q))
    <2>1. ASSUME NEW t \in b.internals, t.from \in epsilonClosure(m, q), t.sym = EPSILON
          PROVE  t.to \in epsilonClosure(m, q)
      <3>1. t.from \in m.states
        BY <1>0, <2>1, ClosureFacts
      <3>2. t \notin n.internals
        BY <3>1, StatesOf DEF Disjoint
      <3>3. t \notin Links(n, m)
        BY <3>1, LinkIs, StatesOf DEF Disjoint
      <3>4. t \in m.internals
        BY <3>2, <3>3 DEF IsConcat
      <3> QED  BY <1>0, <2>1, <3>4, ClosureFacts DEF EpsClosed
    <2> QED  BY <2>1 DEF EpsClosed
  <1> QED  BY <1>0, <1>1, <1>2, ClosureFacts

LEMMA ConcatFirst ==
    ASSUME NEW n, NEW m, NEW b, Sound(n), Sound(m), Disjoint(n, m), IsConcat(b, n, m), NEW q \in n.states, NEW g
    PROVE  g \in epsilonClosure(b, q) <=> g \in epsilonClosure(n, q) \/ Past(n, m, q, g)
  <1> DEFINE Z == {x \in b.states : x \in epsilonClosure(n, q) \/ Past(n, m, q, x)}
  <1>0. WellFormed(n) /\ WellFormed(m) /\ WellFormed(b) /\ IsFiniteSet(n.states) /\ IsFiniteSet(m.states)
        /\ IsFiniteSet(b.states) /\ q \in b.states /\ b.states = n.states \cup m.states
    BY DEF Sound, Finite, IsConcat
  <1>1. epsilonClosure(n, q) \subseteq epsilonClosure(b, q)
    <2>1. EpsClosed(n, epsilonClosure(b, q))
      BY <1>0, ClosureFacts DEF EpsClosed, IsConcat
    <2> QED  BY <1>0, <2>1, ClosureFacts
  <1>2. ASSUME NEW x, Past(n, m, q, x) PROVE x \in epsilonClosure(b, q)
    <2>1. PICK f \in epsilonClosure(n, q) : f \in n.final
      BY <1>2 DEF Past
    <2>2. PICK i \in m.initial : x \in epsilonClosure(m, i)
      BY <1>2 DEF Past, RunStart
    <2> DEFINE t == Edge(f, EPSILON, i)
    <2>3. t.from = f /\ t.sym = EPSILON /\ t.to = i
      BY EdgeParts
    <2>4. t \in b.internals
      BY <2>1, <2>2 DEF IsConcat, Links
    <2> HIDE DEF t
    <2>5. i \in epsilonClosure(b, q)
      BY <1>0, <1>1, <2>1, <2>3, <2>4, ClosureFacts DEF EpsClosed
    <2>6. EpsClosed(m, epsilonClosure(b, q))
      BY <1>0, ClosureFacts DEF EpsClosed, IsConcat
    <2>7. i \in m.states
      BY StatesOf
    <2> QED  BY <1>0, <2>2, <2>5, <2>6, <2>7, ClosureFacts
  <1>3. EpsClosed(b, Z)
    <2>1. ASSUME NEW t \in b.internals, t.from \in Z, t.sym = EPSILON PROVE t.to \in Z
      <3>0. t.to \in b.states
        BY TransEnds DEF IsConcat, Finite
      <3>1. CASE t \in n.internals
        <4>1. t.from \in n.states
          BY <3>1, StatesOf
        <4>2. ~RunStart(m, t.from)
          BY <1>0, <4>1, ClosureFacts, StatesOf DEF RunStart, Disjoint
        <4>3. t.from \in epsilonClosure(n, q)
          BY <2>1, <4>2 DEF Past
        <4> QED  BY <1>0, <2>1, <3>0, <3>1, <4>3, ClosureFacts DEF EpsClosed
      <3>2. CASE t \in m.internals
        <4>1. t.from \in m.states
          BY <3>2, StatesOf
        <4>2. t.from \notin epsilonClosure(n, q)
          BY <1>0, <4>1, ClosureFacts DEF Disjoint
        <4>3. Past(n, m, q, t.from)
          BY <2>1, <4>2
        <4>4. PICK i \in m.initial : t.from \in epsilonClosure(m, i)
          BY <4>3 DEF Past, RunStart
        <4>5. t.to \in epsilonClosure(m, i)
          BY <1>0, <2>1, <3>2, <4>4, ClosureFacts, StatesOf DEF EpsClosed
        <4>6. Past(n, m, q, t.to)
          BY <4>3, <4>5 DEF Past, RunStart
        <4> QED  BY <3>0, <4>6
      <3>3. CASE t \in Links(n, m)
        <4>1. t.from \in n.final /\ t.to \in m.initial
          BY <3>3, LinkIs
        <4>2. ~RunStart(m, t.from)
          BY <1>0, <4>1, ClosureFacts, StatesOf DEF RunStart, Disjoint
        <4>3. t.from \in epsilonClosure(n, q)
          BY <2>1, <4>2 DEF Past
        <4>4. t.to \in epsilonClosure(m, t.to)
          BY <1>0, <4>1, ClosureFacts, StatesOf
        <4>5. Past(n, m, q, t.to)
          BY <4>1, <4>3, <4>4 DEF Past, RunStart
        <4> QED  BY <3>0, <4>5
      <3> QED  BY <3>1, <3>2, <3>3 DEF IsConcat
    <2> HIDE DEF Z
    <2> QED  BY <2>1 DEF EpsClosed
  <1>4. q \in Z
    BY <1>0, ClosureFacts
  <1>5. epsilonClosure(b, q) \subseteq Z
    BY <1>0, <1>3, <1>4, ClosureFacts
  <1> QED  BY <1>1, <1>2, <1>5

-----------------------------------------------------------------------------
(* A step of a run, up to where EPSILON leads from the end of a transition. *)
EdgeTo(T, x, a, y) == \E t \in T : t.from = a /\ t.sym \in {x, WILD} /\ t.to = y
ReturnTo(n, H, x, s, k, y) ==
    \E t \in n.returns : t.from = s[k - 1] /\ t.sym \in {x, WILD} /\ t.to = y /\ RunPops(n, H, s, k, t.pred)
StepTo(n, w, H, s, k, y) ==
    \/ w[k].kind = "call" /\ EdgeTo(n.calls, w[k].sym, s[k - 1], y)
    \/ w[k].kind = "internal" /\ EdgeTo(n.internals, w[k].sym, s[k - 1], y)
    \/ w[k].kind = "return" /\ ReturnTo(n, H, w[k].sym, s, k, y)

LEMMA StepVia ==
    ASSUME NEW n, NEW w, NEW H, NEW s, NEW k
    PROVE  RunStep(n, w, H, s, k) <=> \E y : StepTo(n, w, H, s, k, y) /\ s[k] \in epsilonClosure(n, y)
  <1>1. \A T : RunEdge(n, T, w[k].sym, s[k - 1], s[k])
                 <=> \E y : EdgeTo(T, w[k].sym, s[k - 1], y) /\ s[k] \in epsilonClosure(n, y)
    BY DEF RunEdge, EdgeTo
  <1>2. RunReturn(n, H, w[k].sym, s, k)
          <=> \E y : ReturnTo(n, H, w[k].sym, s, k, y) /\ s[k] \in epsilonClosure(n, y)
    BY DEF RunReturn, ReturnTo
  <1> QED  BY <1>1, <1>2 DEF RunStep, StepTo

LEMMA StepToAgrees ==
    ASSUME NEW n, NEW w, NEW v, NEW H, NEW k \in Nat, k > 0, w[k] = v[k], NEW s, NEW r, Agree(s, r, k - 1),
           NEW y, StepTo(n, w, H, s, k, y)
    PROVE  StepTo(n, v, H, r, k, y)
  <1>1. \A c \in 1..k : c - 1 \in 0..(k - 1) /\ s[c - 1] = r[c - 1]
    BY DEF Agree
  <1>2. s[k - 1] = r[k - 1]
    BY <1>1
  <1>3. ASSUME NEW q, RunPops(n, H, s, k, q) PROVE RunPops(n, H, r, k, q)
    <2>1. \A c \in 1..(k - 1) : s[c - 1] = r[c - 1]
      BY <1>1
    <2> QED  BY <1>3, <2>1 DEF RunPops
  <1> QED  BY <1>2, <1>3 DEF StepTo, ReturnTo

LEMMA StepToIn ==
    ASSUME NEW n, Sound(n), NEW w, NEW H, NEW s, NEW k, NEW y, StepTo(n, w, H, s, k, y)
    PROVE  y \in n.states /\ s[k - 1] \in n.states
  BY StatesOf DEF StepTo, EdgeTo, ReturnTo

LEMMA ConcatStepFirst ==
    ASSUME NEW n, NEW m, NEW b, Sound(n), Sound(m), Disjoint(n, m), IsConcat(b, n, m),
           NEW w \in Seq(Positions), NEW H, IsHeight(w, H), NEW s, NEW k \in 1..Len(w), s[k - 1] \in n.states,
           NEW y, StepTo(b, w, H, s, k, y)
    PROVE  StepTo(n, w, H, s, k, y)
  <1>1. \A t \in m.calls \cup m.internals \cup m.returns : t.from # s[k - 1]
    BY StatesOf DEF Disjoint
  <1>2. \A t \in Links(n, m) : t.sym \notin {w[k].sym, WILD}
    <2>1. w[k].sym \in Alphabet
      BY HeightAt
    <2>2. w[k].sym # EPSILON /\ WILD # EPSILON
      BY <2>1, AlphabetAssumption, MetaSymbols DEF Letters
    <2> QED  BY <2>2, LinkIs
  <1>3. \A t \in Repopped(n, m) : t.from # s[k - 1]
    BY <1>1, RepoppedIs
  <1>4. \A q : RunPops(b, H, s, k, q) => RunPops(n, H, s, k, q)
    BY DEF RunPops, IsConcat
  <1> QED  BY <1>1, <1>2, <1>3, <1>4 DEF StepTo, EdgeTo, ReturnTo, IsConcat

(* The states of the second part of a run. *)
From(s, a, M) == [k \in 0..M |-> s[a + k]]

LEMMA ConcatStepSecond ==
    ASSUME NEW n, NEW m, NEW b, Sound(n), Sound(m), Disjoint(n, m), IsConcat(b, n, m),
           NEW w, NEW H, NEW v, NEW u, Parts(w, H, v, u), NEW s, NEW k \in 1..Len(u),
           \A i \in 0..(Len(v) - 1) : s[i] \in n.states,
           \A i \in 0..(k - 1) : s[Len(v) + i] \in m.states,
           NEW y, StepTo(b, w, H, s, Len(v) + k, y)
    PROVE  StepTo(m, u, After(H, Len(v), Len(u)), From(s, Len(v), Len(u)), k, y)
  <1> DEFINE a == Len(v)
             M == Len(u)
             G == After(H, a, M)
             z == From(s, a, M)
  <1>0. /\ a \in Nat /\ M \in Nat /\ w[a + k] = u[k]
        /\ \A c \in 1..(k - 1) : Partner(G, c, k) <=> Partner(H, a + c, a + k)
    BY PartsAre
  <1>1. k \in Nat /\ k - 1 \in 0..(k - 1) /\ (a + k) - 1 = a + (k - 1)
    BY <1>0
  <1>2. \A i \in 0..M : z[i] = s[a + i]
    BY DEF From
  <1> HIDE DEF a, M, G, z
  <1>3. z[k - 1] = s[(a + k) - 1] /\ z[k - 1] \in m.states
    <2>1. k - 1 \in 0..M
      BY <1>0, <1>1 DEF M
    <2> QED  BY <1>1, <1>2, <2>1 DEF a
  <1>4. \A t \in n.calls \cup n.internals \cup n.returns \cup Links(n, m) : t.from # z[k - 1]
    BY <1>3, LinkIs, StatesOf DEF Disjoint
  <1>5. \A c \in 1..(k - 1) : z[c - 1] = s[(a + c) - 1] /\ a + c \in 1..((a + k) - 1) /\ z[c - 1] \in m.states
    <2>1. \A c \in 1..(k - 1) : c - 1 \in 0..M /\ c - 1 \in 0..(k - 1) /\ (a + c) - 1 = a + (c - 1) /\ a + c \in 1..((a + k) - 1)
      BY <1>0, <1>1 DEF M
    <2> QED  BY <1>2, <2>1 DEF a
  <1>6. ASSUME NEW q, RunPops(b, H, s, a + k, q) PROVE \A c \in 1..(k - 1) : Partner(G, c, k) => q = z[c - 1]
    BY <1>0, <1>5, <1>6 DEF RunPops
  <1>7. ASSUME NEW q \in m.states, RunPops(b, H, s, a + k, q) PROVE Partnered(G, k)
    <2>1. q \notin b.initial
      BY <1>7, StatesOf DEF IsConcat, Disjoint
    <2>2. PICK c \in 1..((a + k) - 1) : Partner(H, c, a + k)
      BY <1>7, <2>1 DEF RunPops, Partnered
    <2>3. q = s[c - 1]
      BY <1>7, <2>2 DEF RunPops
    <2>4. ~(c <= a)
      <3>1. ASSUME c <= a PROVE c - 1 \in 0..(a - 1)
        BY <1>0, <3>1
      <3> QED  BY <1>7, <2>3, <3>1 DEF Disjoint, a
    <2> DEFINE d == c - a
    <2>5. d \in 1..(k - 1) /\ c = a + d
      BY <1>0, <1>1, <2>4
    <2> HIDE DEF d
    <2>6. Partner(G, d, k)
      BY <1>0, <2>2, <2>5
    <2> QED  BY <2>5, <2>6 DEF Partnered
  <1>8. ASSUME NEW q \in n.states, RunPops(b, H, s, a + k, q) PROVE ~Partnered(G, k)
    BY <1>5, <1>6, <1>8 DEF Partnered, Disjoint
  <1>9. ASSUME NEW x, ReturnTo(b, H, x, s, a + k, y) PROVE ReturnTo(m, G, x, z, k, y)
    <2>1. PICK t \in b.returns : t.from = z[k - 1] /\ t.sym \in {x, WILD} /\ t.to = y /\ RunPops(b, H, s, a + k, t.pred)
      BY <1>3, <1>9 DEF ReturnTo
    <2>2. CASE t \in m.returns
      <3>1. t.pred \in m.states
        BY <2>2, StatesOf
      <3>2. RunPops(m, G, z, k, t.pred)
        BY <1>6, <1>7, <2>1, <3>1 DEF RunPops
      <3> QED  BY <2>1, <2>2, <3>2 DEF ReturnTo
    <2>3. CASE t \in Repopped(n, m)
      <3>1. PICK r \in m.returns, c \in n.calls :
              r.pred \in m.initial /\ t.from = r.from /\ t.pred = c.from /\ t.sym = r.sym /\ t.to = r.to
        BY <2>3, RepoppedIs
      <3>2. t.pred \in n.states
        BY <3>1, StatesOf
      <3>3. ~Partnered(G, k)
        BY <1>8, <2>1, <3>2
      <3>4. RunPops(m, G, z, k, r.pred)
        BY <3>1, <3>3 DEF RunPops, Partnered
      <3> QED  BY <2>1, <3>1, <3>4 DEF ReturnTo
    <2> QED  BY <1>4, <2>1, <2>2, <2>3 DEF IsConcat
  <1>10. ASSUME NEW x, EdgeTo(b.calls, x, s[(a + k) - 1], y) PROVE EdgeTo(m.calls, x, z[k - 1], y)
    BY <1>3, <1>4, <1>10 DEF EdgeTo, IsConcat
  <1>11. ASSUME NEW x, EdgeTo(b.internals, x, s[(a + k) - 1], y) PROVE EdgeTo(m.internals, x, z[k - 1], y)
    BY <1>3, <1>4, <1>11 DEF EdgeTo, IsConcat
  <1>12. StepTo(b, w, H, s, a + k, y)
    BY DEF a
  <1>13. StepTo(m, u, G, z, k, y)
    BY <1>0, <1>9, <1>10, <1>11, <1>12 DEF StepTo
  <1> QED  BY <1>13 DEF a, M, G, z

(* The second part of a run of the concatenation, if no return pends. *)
LEMMA ConcatStepOn ==
    ASSUME NEW n, NEW m, NEW b, Sound(n), Sound(m), IsConcat(b, n, m),
           NEW w, NEW H, NEW v, NEW u, Parts(w, H, v, u), NEW s, NEW r, NEW k \in 1..Len(u),
           \A i \in 0..(Len(v) - 1) : s[i] = r[i],
           \A i \in 1..Len(v) : RunStep(n, v, H, r, i),
           u[k].kind = "return" => Partnered(H, Len(v) + k),
           NEW y, StepTo(m, u, After(H, Len(v), Len(u)), From(s, Len(v), Len(u)), k, y)
    PROVE  StepTo(b, w, H, s, Len(v) + k, y)
  <1> DEFINE a == Len(v)
             M == Len(u)
             G == After(H, a, M)
             z == From(s, a, M)
  <1>0. /\ a \in Nat /\ M \in Nat /\ w[a + k] = u[k] /\ w \in Seq(Positions) /\ IsHeight(w, H) /\ a + k \in 1..Len(w)
        /\ \A c \in 1..(k - 1) : Partner(G, c, k) <=> Partner(H, a + c, a + k)
        /\ \A i \in 1..a : w[i] = v[i]
    <2>1. IsHeight(w, H)
      BY DEF Parts
    <2> QED  BY <2>1, PartsAre
  <1>1. k \in Nat /\ k - 1 \in 0..(k - 1) /\ (a + k) - 1 = a + (k - 1)
    BY <1>0
  <1>2. \A i \in 0..M : z[i] = s[a + i]
    BY DEF From
  <1> HIDE DEF a, M, G, z
  <1>3. z[k - 1] = s[(a + k) - 1]
    <2>1. k - 1 \in 0..M
      BY <1>0, <1>1 DEF M
    <2> QED  BY <1>1, <1>2, <2>1
  <1>4. ASSUME NEW x, u[k].kind = "return", ReturnTo(m, G, x, z, k, y) PROVE ReturnTo(b, H, x, s, a + k, y)
    <2>1. PICK t \in m.returns : t.from = s[(a + k) - 1] /\ t.sym \in {x, WILD} /\ t.to = y /\ RunPops(m, G, z, k, t.pred)
      BY <1>3, <1>4 DEF ReturnTo
    <2>2. PICK c \in 1..((a + k) - 1) : Partner(H, c, a + k)
      BY <1>4 DEF Partnered, a
    <2>3. \A d \in 1..((a + k) - 1) : Partner(H, d, a + k) => d = c
      BY <1>0, <2>2, OnePartner
    <2>4. CASE c > a
      <3> DEFINE d == c - a
      <3>a. d \in 1..(k - 1) /\ c = a + d
        BY <1>0, <1>1, <2>4, SMTT(30)
      <3>b. k <= M
        BY <1>0 DEF M
      <3>1. d \in 1..(k - 1) /\ c = a + d /\ d - 1 \in 0..M /\ a + (d - 1) = c - 1
        <4> HIDE DEF d
        <4> QED  BY <1>0, <1>1, <3>a, <3>b
      <3> HIDE DEF d
      <3>2. t.pred = z[d - 1]
        BY <1>0, <2>1, <2>2, <3>1 DEF RunPops
      <3>3. t.pred = s[c - 1]
        BY <1>2, <3>1, <3>2
      <3>4. RunPops(b, H, s, a + k, t.pred)
        BY <2>2, <2>3, <3>3 DEF RunPops, Partnered
      <3> QED  BY <2>1, <3>4 DEF ReturnTo, IsConcat
    <2>5. CASE c <= a
      <3>1. c \in 1..a /\ c - 1 \in 0..(a - 1)
        BY <1>0, <2>5
      <3>2. ~Partnered(G, k)
        <4>1. ASSUME NEW d \in 1..(k - 1), Partner(G, d, k) PROVE FALSE
          <5>1. Partner(H, a + d, a + k) /\ a + d \in 1..((a + k) - 1) /\ a + d # c
            BY <1>0, <1>1, <3>1, <4>1
          <5> QED  BY <2>3, <5>1
        <4> QED  BY <4>1 DEF Partnered
      <3>3. t.pred \in m.initial
        BY <2>1, <3>2 DEF RunPops
      <3>4. w[c].kind = "call"
        BY <1>0, <2>2, PartnerIsCall
      <3>5. RunStep(n, v, H, r, c) /\ v[c].kind = "call"
        BY <1>0, <3>1, <3>4 DEF a
      <3>6. PICK e \in n.calls : e.from = r[c - 1]
        BY <3>5 DEF RunStep, RunEdge
      <3>7. e.from = s[c - 1]
        BY <3>1, <3>6 DEF a
      <3> DEFINE g == Return(t.from, e.from, t.sym, t.to)
      <3>8. g.from = t.from /\ g.pred = e.from /\ g.sym = t.sym /\ g.to = t.to
        BY ReturnParts
      <3>9. g \in b.returns
        BY <3>3 DEF IsConcat, Repopped
      <3> HIDE DEF g
      <3>10. RunPops(b, H, s, a + k, g.pred)
        BY <2>2, <2>3, <3>7, <3>8 DEF RunPops, Partnered
      <3> QED  BY <2>1, <3>8, <3>9, <3>10 DEF ReturnTo
    <2>6. c > a \/ c <= a
      BY <1>0
    <2> QED  BY <2>4, <2>5, <2>6
  <1>5. ASSUME NEW x, EdgeTo(m.calls, x, z[k - 1], y) PROVE EdgeTo(b.calls, x, s[(a + k) - 1], y)
    BY <1>3, <1>5 DEF EdgeTo, IsConcat
  <1>6. ASSUME NEW x, EdgeTo(m.internals, x, z[k - 1], y) PROVE EdgeTo(b.internals, x, s[(a + k) - 1], y)
    BY <1>3, <1>6 DEF EdgeTo, IsConcat
  <1>7. StepTo(m, u, G, z, k, y)
    BY DEF a, M, G, z
  <1>8. StepTo(b, w, H, s, a + k, y)
    BY <1>0, <1>4, <1>5, <1>6, <1>7 DEF StepTo
  <1> QED  BY <1>8 DEF a

LEMMA ConcatTogether ==
    ASSUME NEW n, NEW m, NEW b, Sound(n), Sound(m), Disjoint(n, m), IsConcat(b, n, m),
           NEW v \in Words(n), NEW u \in Words(m), v \o u \in AllWords, ~PendingReturn(v \o u)
    PROVE  v \o u \in Words(b)
  <1> DEFINE w == v \o u
             a == Len(v)
             M == Len(u)
             N == Len(w)
  <1>1. v \in Seq(Positions) /\ u \in Seq(Positions) /\ Accepts(n, v, {WILD}) /\ Accepts(m, u, {WILD}) /\ w \in Seq(Positions)
    BY WordsAre, AllWordsAre
  <1>2. PICK H : IsHeight(w, H)
    BY <1>1, HeightExists
  <1>3. Parts(w, H, v, u)
    BY <1>1, <1>2 DEF Parts
  <1> DEFINE G == After(H, a, M)
  <1>4. /\ N = a + M /\ a \in Nat /\ M \in Nat /\ IsHeight(v, H) /\ IsHeight(u, G)
        /\ \A k \in 1..a : w[k] = v[k] /\ k \in 1..N
        /\ \A k \in 1..M : w[a + k] = u[k] /\ a + k \in 1..N
    BY <1>3, PartsAre
  <1>5. Finite(n) /\ Finite(m) /\ Finite(b)
    BY DEF Sound, IsConcat
  <1>6. PICK r : IsRun(n, v, H, r) /\ r[a] \in n.final
    BY <1>1, <1>4, <1>5, AcceptsRun
  <1>7. PICK t : IsRun(m, u, G, t) /\ t[M] \in m.final
    <2> HIDE DEF G
    <2> QED  BY <1>1, <1>4, <1>5, AcceptsRun
  <1> DEFINE s == [k \in 0..N |-> IF k < a THEN r[k] ELSE t[k - a]]
  <1> HIDE DEF w, a, M, N, G
  <1>8. /\ \A k \in 0..(a - 1) : s[k] = r[k] /\ k \in 0..N
        /\ \A k \in 0..M : s[a + k] = t[k] /\ a + k \in 0..N
    <2>1. \A k \in 0..(a - 1) : k \in 0..N /\ k < a
      BY <1>4
    <2>2. \A k \in 0..M : a + k \in 0..N /\ ~(a + k < a) /\ (a + k) - a = k
      BY <1>4
    <2> QED  BY <2>1, <2>2
  <1>9. \A k \in 0..N : s[k] \in b.states
    <2>1. \A k \in 0..a : r[k] \in n.states
      BY <1>6 DEF IsRun, a
    <2>2. \A k \in 0..M : t[k] \in m.states
      BY <1>7 DEF IsRun, M
    <2>3. ASSUME NEW k \in 0..N PROVE s[k] \in n.states \cup m.states
      <3>1. CASE k < a
        BY <1>4, <2>1, <3>1
      <3>2. CASE ~(k < a)
        <4>1. k - a \in 0..M
          BY <1>4, <3>2
        <4> QED  BY <2>2, <3>2, <4>1
      <3> QED  BY <3>1, <3>2
    <2> QED  BY <2>3 DEF IsConcat
  <1> HIDE DEF s
  <1>10. s[a] = t[0] /\ RunStart(m, s[a])
    <2>1. 0 \in 0..M /\ a + 0 = a
      BY <1>4
    <2> QED  BY <1>7, <1>8, <2>1 DEF IsRun
  (* Through the end of v. *)
  <1>11. ASSUME NEW k \in 0..a, NEW q \in n.states, r[k] \in epsilonClosure(n, q) PROVE s[k] \in epsilonClosure(b, q)
    <2>1. CASE k = a
      <3>1. Past(n, m, q, s[k])
        BY <1>6, <1>10, <1>11, <2>1 DEF Past
      <3> QED  BY <3>1, ConcatFirst
    <2>2. CASE k # a
      <3>1. s[k] = r[k]
        BY <1>4, <1>8, <2>2
      <3> QED  BY <1>11, <3>1, ConcatFirst
    <2> QED  BY <2>1, <2>2
  <1>12. RunStart(b, s[0])
    <2>1. PICK i \in n.initial : r[0] \in epsilonClosure(n, i)
      BY <1>6 DEF IsRun, RunStart
    <2>2. s[0] \in epsilonClosure(b, i)
      BY <1>4, <1>11, <2>1, StatesOf
    <2> QED  BY <2>1, <2>2 DEF RunStart, IsConcat
  <1>13. ASSUME NEW k \in 1..a PROVE RunStep(b, w, H, s, k)
    <2>0. k \in Nat /\ k > 0 /\ k \in 0..a
      BY <1>4
    <2>1. PICK y : StepTo(n, v, H, r, k, y) /\ r[k] \in epsilonClosure(n, y)
      BY <1>6, StepVia DEF IsRun, a
    <2>2. Agree(r, s, k - 1)
      <3>1. \A i \in 0..(k - 1) : i \in 0..(a - 1)
        BY <1>4
      <3> QED  BY <1>8, <3>1 DEF Agree
    <2>3. StepTo(n, w, H, s, k, y)
      BY <1>4, <2>0, <2>1, <2>2, StepToAgrees
    <2>4. StepTo(b, w, H, s, k, y)
      <3>1. \A q : RunPops(n, H, s, k, q) => RunPops(b, H, s, k, q)
        BY DEF RunPops, IsConcat
      <3> QED  BY <2>3, <3>1 DEF StepTo, EdgeTo, ReturnTo, IsConcat
    <2>5. y \in n.states
      BY <2>1, StepToIn
    <2>6. s[k] \in epsilonClosure(b, y)
      BY <1>11, <2>0, <2>1, <2>5
    <2> QED  BY <2>4, <2>6, StepVia
  <1>14. ASSUME NEW k \in 1..M PROVE RunStep(b, w, H, s, a + k)
    <2>1. PICK y : StepTo(m, u, G, t, k, y) /\ t[k] \in epsilonClosure(m, y)
      BY <1>7, StepVia DEF IsRun, M
    <2>2. Agree(t, From(s, a, M), k - 1)
      <3>1. \A i \in 0..(k - 1) : i \in 0..M
        BY <1>4
      <3> QED  BY <1>8, <3>1 DEF Agree, From
    <2>3. k \in Nat /\ k > 0 /\ k \in 0..M
      BY <1>4
    <2>4. StepTo(m, u, G, From(s, a, M), k, y)
      BY <2>1, <2>2, <2>3, StepToAgrees
    <2>5. u[k].kind = "return" => Partnered(H, a + k)
      <3>1. w[a + k] = u[k] /\ a + k \in 1..N
        BY <1>4
      <3>2. ~PendingReturn(w)
        BY DEF w
      <3> QED  BY <1>1, <1>2, <3>1, <3>2, PendingReturns DEF N
    <2>6. \A i \in 0..(Len(v) - 1) : s[i] = r[i]
      BY <1>8 DEF a
    <2>7. \A i \in 1..Len(v) : RunStep(n, v, H, r, i)
      BY <1>6 DEF IsRun
    <2>8. StepTo(b, w, H, s, a + k, y)
      BY <1>3, <2>4, <2>5, <2>6, <2>7, ConcatStepOn DEF a, M, G
    <2>9. y \in m.states
      BY <2>1, StepToIn
    <2>10. s[a + k] \in epsilonClosure(b, y)
      BY <1>8, <2>1, <2>3, <2>9, ConcatSecond
    <2> QED  BY <2>8, <2>10, StepVia
  <1>15. IsRun(b, w, H, s)
    <2>1. ASSUME NEW k \in 1..N PROVE RunStep(b, w, H, s, k)
      <3>1. CASE k <= a
        <4>1. k \in 1..a
          BY <1>4, <3>1
        <4> QED  BY <1>13, <4>1
      <3>2. CASE k > a
        <4> DEFINE i == k - a
        <4>1. i \in 1..M /\ k = a + i
          BY <1>4, <3>2
        <4> HIDE DEF i
        <4> QED  BY <1>14, <4>1
      <3>3. k <= a \/ k > a
        BY <1>4
      <3> QED  BY <3>1, <3>2, <3>3
    <2> QED  BY <1>9, <1>12, <2>1 DEF IsRun, N
  <1>16. s[N] \in b.final
    <2>1. M \in 0..M /\ N = a + M
      BY <1>4
    <2> QED  BY <1>7, <1>8, <2>1 DEF IsConcat
  <1>17. Accepts(b, w, {WILD})
    BY <1>1, <1>2, <1>5, <1>15, <1>16, AcceptsRun DEF N
  <1>18. w \in AllWords
    BY DEF w
  <1> QED  BY <1>17, <1>18, WordsAre DEF w

LEMMA ConcatApart ==
    ASSUME NEW n, NEW m, NEW b, Sound(n), Sound(m), Disjoint(n, m), IsConcat(b, n, m), NEW w \in Words(b)
    PROVE  \E v \in Words(n), u \in Words(m) : w = v \o u
  <1> DEFINE N == Len(w)
  <1>1. w \in AllWords /\ w \in Seq(Positions) /\ N <= MaxLength /\ Accepts(b, w, {WILD}) /\ N \in Nat
    BY WordsAre, AllWordsAre, WordTyped
  <1>2. PICK H : IsHeight(w, H)
    BY <1>1, HeightExists
  <1>3. Finite(n) /\ Finite(m) /\ Finite(b) /\ b.states = n.states \cup m.states
    BY DEF Sound, IsConcat
  <1>4. PICK s : IsRun(b, w, H, s) /\ s[N] \in b.final
    BY <1>1, <1>2, <1>3, AcceptsRun
  <1> HIDE DEF N
  <1>5. \A k \in 0..N : s[k] \in n.states \cup m.states
    BY <1>3, <1>4 DEF IsRun, N
  <1>6. PICK a \in 0..N : s[a] \in m.states /\ \A k \in 0..N : s[k] \in m.states => a <= k
    <2> DEFINE D == {k \in 0..N : s[k] \in m.states}
    <2>1. N \in D
      BY <1>1, <1>4, StatesOf DEF IsConcat
    <2>2. D \subseteq Nat /\ D # {}
      BY <1>1, <2>1
    <2>3. PICK x \in D : \A y \in D : x <= y
      BY <2>2, LeastNat
    <2> QED  BY <2>3
  <1>7. \A k \in 0..(a - 1) : s[k] \in n.states /\ k \in 0..N
    BY <1>1, <1>5, <1>6
  <1>8. PICK v, u : v \in Seq(Positions) /\ u \in Seq(Positions) /\ w = v \o u /\ Len(v) = a
    BY <1>1, Parted DEF N
  <1>9. Parts(w, H, v, u)
    BY <1>2, <1>8 DEF Parts
  <1> DEFINE M == Len(u)
             G == After(H, a, M)
  <1>10. /\ N = a + M /\ a \in Nat /\ M \in Nat /\ IsHeight(v, H) /\ IsHeight(u, G)
         /\ \A k \in 1..a : w[k] = v[k] /\ k \in 1..N
         /\ \A k \in 1..M : w[a + k] = u[k] /\ a + k \in 1..N
    <2>1. LET d == Len(v)
          IN  /\ Len(w) = d + Len(u) /\ d \in Nat /\ Len(u) \in Nat /\ IsHeight(v, H) /\ IsHeight(u, After(H, d, Len(u)))
              /\ \A k \in 1..d : w[k] = v[k] /\ k \in 1..Len(w)
              /\ \A k \in 1..Len(u) : w[d + k] = u[k] /\ d + k \in 1..Len(w)
      BY <1>9, PartsAre
    <2> QED  BY <1>8, <2>1 DEF N
  <1> HIDE DEF M, G
  (* The second part stays in m. *)
  <1> DEFINE z == From(s, a, M)
  <1>11. \A k \in 0..M : z[k] = s[a + k]
    BY DEF From
  <1> HIDE DEF z
  <1>12. ASSUME NEW k \in 1..M, \A i \in 0..(k - 1) : s[a + i] \in m.states
         PROVE  s[a + k] \in m.states /\ \E y : StepTo(m, u, G, z, k, y) /\ s[a + k] \in epsilonClosure(m, y)
    <2>1. RunStep(b, w, H, s, a + k)
      BY <1>4, <1>10 DEF IsRun, N
    <2>2. PICK y : StepTo(b, w, H, s, a + k, y) /\ s[a + k] \in epsilonClosure(b, y)
      BY <2>1, StepVia
    <2>3. StepTo(m, u, G, z, k, y)
      BY <1>7, <1>8, <1>9, <1>12, <2>2, ConcatStepSecond DEF M, G, z
    <2>4. y \in m.states
      BY <2>3, StepToIn
    <2>5. s[a + k] \in epsilonClosure(m, y)
      BY <2>2, <2>4, ConcatSecond
    <2>6. s[a + k] \in m.states
      BY <2>4, <2>5, ClosureFacts DEF Sound, Finite
    <2> QED  BY <2>3, <2>5, <2>6
  <1>13. \A k \in 0..M : s[a + k] \in m.states
    <2> DEFINE T == {k \in Nat : \A i \in 0..k : s[a + i] \in m.states}
    <2>1. 0 \in T
      <3>1. \A i \in 0..0 : a + i = a
        BY <1>10
      <3> QED  BY <1>6, <3>1
    <2>2. ASSUME NEW k \in 1..M, k - 1 \in T PROVE k \in T
      <3>1. s[a + k] \in m.states
        BY <1>12, <2>2
      <3>2. k \in Nat /\ \A i \in 0..k : i \in 0..(k - 1) \/ i = k
        BY <1>10
      <3> QED  BY <2>2, <3>1, <3>2
    <2>3. 0..M \subseteq T
      <3> HIDE DEF T
      <3> QED  BY <1>10, <2>1, <2>2, UpTo
    <2>4. \A k \in 0..M : k \in 0..k
      BY <1>10
    <2> QED  BY <2>3, <2>4
  <1>14. IsRun(m, u, G, z) /\ z[M] \in m.final
    <2>1. \A k \in 0..M : z[k] \in m.states
      BY <1>11, <1>13
    <2>2. 0 \in 0..M /\ a + 0 = a /\ M \in 0..M
      BY <1>10
    <2>3. ASSUME NEW k \in 1..M PROVE RunStep(m, u, G, z, k)
      <3>1. k \in 0..M /\ \A i \in 0..(k - 1) : i \in 0..M
        BY <1>10
      <3>2. PICK y : StepTo(m, u, G, z, k, y) /\ s[a + k] \in epsilonClosure(m, y)
        BY <1>12, <1>13, <3>1
      <3> QED  BY <1>11, <3>1, <3>2, StepVia
    <2>4. RunStart(m, z[0])
      <3>1. z[0] = s[a] /\ s[a] \notin n.states
        BY <1>6, <1>11, <2>2 DEF Disjoint
      <3>2. ASSUME NEW q \in n.states, s[a] \in epsilonClosure(b, q) PROVE RunStart(m, s[a])
        <4>1. s[a] \notin epsilonClosure(n, q)
          BY <3>1, ClosureFacts DEF Sound, Finite
        <4> QED  BY <3>2, <4>1, ConcatFirst DEF Past
      <3>3. CASE a = 0
        <4>1. PICK i \in n.initial : s[0] \in epsilonClosure(b, i)
          BY <1>4 DEF IsRun, RunStart, IsConcat
        <4> QED  BY <3>1, <3>2, <3>3, <4>1, StatesOf
      <3>4. CASE a # 0
        <4>1. a \in 1..Len(w) /\ a - 1 \in 0..(a - 1)
          BY <1>10, <3>4 DEF N
        <4>2. PICK y : StepTo(b, w, H, s, a, y) /\ s[a] \in epsilonClosure(b, y)
          BY <1>4, <4>1, StepVia DEF IsRun
        <4>3. StepTo(n, w, H, s, a, y)
          BY <1>1, <1>2, <1>7, <4>1, <4>2, ConcatStepFirst
        <4>4. y \in n.states
          BY <4>3, StepToIn
        <4> QED  BY <3>1, <3>2, <4>2, <4>4
      <3> QED  BY <3>3, <3>4
    <2>5. z[M] \in m.final
      BY <1>4, <1>10, <1>11, <2>2 DEF IsConcat
    <2> QED  BY <2>1, <2>3, <2>4, <2>5 DEF IsRun, M
  (* The first part ends in a final state that EPSILON transitions lead to. *)
  <1>15. ASSUME NEW q \in n.states, s[a] \in epsilonClosure(b, q) PROVE \E f \in n.final : f \in epsilonClosure(n, q)
    <2>1. s[a] \notin epsilonClosure(n, q)
      BY <1>6, ClosureFacts DEF Sound, Finite, Disjoint
    <2> QED  BY <1>15, <2>1, ConcatFirst DEF Past
  <1>16. ASSUME NEW k \in 1..a PROVE \E y \in n.states : StepTo(n, w, H, s, k, y) /\ s[k] \in epsilonClosure(b, y)
    <2>1. k \in 1..Len(w) /\ k - 1 \in 0..(a - 1)
      BY <1>10 DEF N
    <2>2. PICK y : StepTo(b, w, H, s, k, y) /\ s[k] \in epsilonClosure(b, y)
      BY <1>4, <2>1, StepVia DEF IsRun
    <2>3. StepTo(n, w, H, s, k, y)
      BY <1>1, <1>2, <1>7, <2>1, <2>2, ConcatStepFirst
    <2> QED  BY <2>2, <2>3, StepToIn
  (* The state the first part ends in, in place of the one after it. *)
  <1>17. \E f \in n.final :
           /\ a = 0 => RunStart(n, f)
           /\ a > 0 => \E y : StepTo(n, w, H, s, a, y) /\ f \in epsilonClosure(n, y)
    <2>1. CASE a = 0
      <3>1. PICK i \in n.initial : s[0] \in epsilonClosure(b, i)
        BY <1>4 DEF IsRun, RunStart, IsConcat
      <3>2. PICK f \in n.final : f \in epsilonClosure(n, i)
        BY <1>15, <2>1, <3>1, StatesOf
      <3> QED  BY <2>1, <3>1, <3>2 DEF RunStart
    <2>2. CASE a > 0
      <3>1. a \in 1..a
        BY <1>10, <2>2
      <3>2. PICK y \in n.states : StepTo(n, w, H, s, a, y) /\ s[a] \in epsilonClosure(b, y)
        BY <1>16, <3>1
      <3>3. PICK f \in n.final : f \in epsilonClosure(n, y)
        BY <1>15, <3>2
      <3> QED  BY <2>2, <3>2, <3>3
    <2> QED  BY <1>10, <2>1, <2>2
  <1>18. PICK f \in n.final :
           /\ a = 0 => RunStart(n, f)
           /\ a > 0 => \E y : StepTo(n, w, H, s, a, y) /\ f \in epsilonClosure(n, y)
    BY <1>17
  <1> DEFINE r == [k \in 0..a |-> IF k = a THEN f ELSE s[k]]
  <1>19. r[a] = f /\ a \in 0..a /\ \A k \in 0..(a - 1) : r[k] = s[k]
    <2>1. a \in 0..a /\ \A k \in 0..(a - 1) : k \in 0..a /\ k # a
      BY <1>10
    <2> QED  BY <2>1
  <1>20. \A k \in 0..a : r[k] \in n.states
    <2>1. \A k \in 0..a : k = a \/ k \in 0..(a - 1)
      BY <1>10
    <2> QED  BY <1>7, <1>19, <2>1, StatesOf
  <1> HIDE DEF r
  <1>21. \A g \in n.states : ~RunStart(m, g)
    BY <1>3, ClosureFacts, StatesOf DEF RunStart, Sound, Finite, Disjoint
  <1>22. RunStart(n, r[0])
    <2>1. CASE a = 0
      BY <1>18, <1>19, <2>1
    <2>2. CASE a > 0
      <3>1. 0 \in 0..(a - 1)
        BY <1>10, <2>2
      <3>2. PICK i \in n.initial : s[0] \in epsilonClosure(b, i)
        BY <1>4 DEF IsRun, RunStart, IsConcat
      <3>3. i \in n.states /\ ~Past(n, m, i, s[0])
        BY <1>7, <1>21, <3>1, StatesOf DEF Past
      <3>4. s[0] \in epsilonClosure(n, i)
        BY <3>2, <3>3, ConcatFirst
      <3> QED  BY <1>19, <3>1, <3>4 DEF RunStart
    <2> QED  BY <1>10, <2>1, <2>2
  <1>23. ASSUME NEW k \in 1..a PROVE \E y : StepTo(n, w, H, s, k, y) /\ r[k] \in epsilonClosure(n, y)
    <2>1. CASE k = a
      BY <1>10, <1>18, <1>19, <2>1
    <2>2. CASE k # a
      <3>1. k \in 0..(a - 1)
        BY <1>10, <2>2
      <3>2. PICK y \in n.states : StepTo(n, w, H, s, k, y) /\ s[k] \in epsilonClosure(b, y)
        BY <1>16
      <3>3. ~Past(n, m, y, s[k])
        BY <1>7, <1>21, <3>1 DEF Past
      <3>4. s[k] \in epsilonClosure(n, y)
        BY <3>2, <3>3, ConcatFirst
      <3> QED  BY <1>19, <3>1, <3>2, <3>4
    <2> QED  BY <2>1, <2>2
  <1>24. IsRun(n, v, H, r) /\ r[Len(v)] \in n.final
    <2>1. ASSUME NEW k \in 1..a PROVE RunStep(n, v, H, r, k)
      <3>1. PICK y : StepTo(n, w, H, s, k, y) /\ r[k] \in epsilonClosure(n, y)
        BY <1>23
      <3>2. k \in Nat /\ k > 0 /\ w[k] = v[k]
        BY <1>10
      <3>3. Agree(s, r, k - 1)
        <4>1. \A i \in 0..(k - 1) : i \in 0..(a - 1)
          BY <1>10
        <4> QED  BY <1>19, <4>1 DEF Agree
      <3>4. StepTo(n, v, H, r, k, y)
        BY <3>1, <3>2, <3>3, StepToAgrees
      <3> QED  BY <3>1, <3>4, StepVia
    <2> QED  BY <1>8, <1>19, <1>20, <1>22, <2>1 DEF IsRun
  <1>25. Accepts(n, v, {WILD}) /\ Accepts(m, u, {WILD})
    <2>1. z[Len(u)] \in m.final
      BY <1>14 DEF M
    <2> QED  BY <1>3, <1>8, <1>10, <1>14, <1>24, <2>1, AcceptsRun
  <1>26. v \in AllWords /\ u \in AllWords
    <2>1. Len(v) <= MaxLength /\ Len(u) <= MaxLength
      BY <1>1, <1>8, <1>10, AlphabetAssumption DEF M
    <2> QED  BY <1>8, <2>1, AllWordsAre
  <1> QED  BY <1>8, <1>25, <1>26, WordsAre

LEMMA ConcatWords ==
    ASSUME NEW n, NEW m, Sound(n), Sound(m), Disjoint(n, m)
    PROVE  /\ Words(concat(n, m)) \subseteq Catenations(Words(n), Words(m))
           /\ NoPendingReturn(Words(concat(n, m))) = NoPendingReturn(Catenations(Words(n), Words(m)))
  <1> DEFINE b == concat(n, m)
             V == Words(n)
             W == Words(m)
  <1>1. IsConcat(b, n, m)
    BY ConcatFields
  <1> HIDE DEF b
  <1>2. ASSUME NEW w \in Words(b) PROVE w \in Catenations(V, W)
    <2>1. \E v \in V, u \in W : w = v \o u
      BY <1>1, ConcatApart
    <2>2. Len(w) <= MaxLength
      BY WordsAre, AllWordsAre
    <2> QED  BY <2>1, <2>2 DEF Catenations, Short
  <1>3. ASSUME NEW w \in Catenations(V, W), ~PendingReturn(w) PROVE w \in Words(b)
    <2>1. PICK v \in V, u \in W : w = v \o u
      BY DEF Catenations
    <2>2. v \in Seq(Positions) /\ u \in Seq(Positions) /\ Len(w) <= MaxLength
      BY WordsAre, AllWordsAre DEF Catenations, Short
    <2>3. w \in AllWords
      <3>1. w \in Seq(Positions)
        BY <2>1, <2>2, ConcatProperties
      <3> QED  BY <2>2, <3>1, AllWordsAre
    <2> QED  BY <1>1, <1>3, <2>1, <2>3, ConcatTogether
  <1> QED  BY <1>2, <1>3 DEF NoPendingReturn, b

-----------------------------------------------------------------------------
(* Positions inside an open call. *)
Inside(H, k) == \E c \in 1..k : OpenCall(H, c, k)

LEMMA InsideNone ==
    ASSUME NEW H
    PROVE  ~Inside(H, 0)
  BY DEF Inside

LEMMA InsideCall ==
    ASSUME NEW w \in Seq(Positions), NEW H, IsHeight(w, H), NEW k \in 1..Len(w), w[k].kind = "call"
    PROVE  Inside(H, k)
  <1>1. k \in 1..k
    BY HeightAt
  <1> QED  BY <1>1, OpenAtCall DEF Inside

LEMMA InsideInternal ==
    ASSUME NEW w \in Seq(Positions), NEW H, IsHeight(w, H), NEW k \in 1..Len(w), w[k].kind = "internal"
    PROVE  Inside(H, k) <=> Inside(H, k - 1)
  <1>1. \A c \in 1..k : c \in 1..(k - 1) \/ c = k
    BY HeightAt
  <1>2. \A c \in 1..(k - 1) : c \in 1..k
    BY HeightAt
  <1>3. ~OpenCall(H, k, k) /\ \A c \in 1..(k - 1) : OpenCall(H, c, k) <=> OpenCall(H, c, k - 1)
    BY OpenAtInternal
  <1> QED  BY <1>1, <1>2, <1>3 DEF Inside

(* A return is partnered where a call is open, and where it leads is inside *)
(* exactly if its call left from inside another.                            *)
LEMMA InsideReturn ==
    ASSUME NEW w \in Seq(Positions), NEW H, IsHeight(w, H), NEW k \in 1..Len(w), w[k].kind = "return"
    PROVE  /\ Inside(H, k - 1) <=> Partnered(H, k)
           /\ ~Inside(H, k - 1) => ~Inside(H, k)
           /\ \A c \in 1..(k - 1) : Partner(H, c, k) => (Inside(H, k) <=> Inside(H, c - 1))
  <1>0. k \in Nat /\ k - 1 \in 0..Len(w) /\ \A i \in 0..k : H[i] \in Int
    BY HeightAt
  <1>1. \A c \in 1..k : c \in 1..(k - 1) \/ c = k
    BY <1>0
  <1>2. /\ ~OpenCall(H, k, k)
        /\ \A c \in 1..(k - 1) : OpenCall(H, c, k) => OpenCall(H, c, k - 1)
        /\ \A c \in 1..(k - 1) : Partner(H, c, k) <=> OpenCall(H, c, k - 1) /\ H[c - 1] = H[k]
    BY OpenAtReturn
  <1>3. ASSUME Inside(H, k - 1) PROVE Partnered(H, k)
    <2>1. PICK p : OpenCalls(H, k - 1, p) /\ Len(p) = Opens(w)[k - 1]
      BY <1>0, OpensAre
    <2>2. p # <<>>
      <3>1. PICK c \in 1..(k - 1) : OpenCall(H, c, k - 1)
        BY <1>3 DEF Inside
      <3>2. PICK i \in 1..Len(p) : p[i] = c
        BY <2>1, <3>1 DEF OpenCalls
      <3> QED  BY <3>2
    <2>3. p[1] \in 1..(k - 1) /\ Partner(H, p[1], k)
      BY <2>1, <2>2, OpenCallsReturn
    <2> QED  BY <2>3 DEF Partnered
  <1>4. ASSUME Partnered(H, k) PROVE Inside(H, k - 1)
    BY <1>2, <1>4 DEF Partnered, Inside
  <1>5. ASSUME Inside(H, k) PROVE Inside(H, k - 1)
    BY <1>1, <1>2, <1>5 DEF Inside
  <1>6. ASSUME NEW c \in 1..(k - 1), Partner(H, c, k), Inside(H, k) PROVE Inside(H, c - 1)
    <2>1. PICK d \in 1..k : OpenCall(H, d, k)
      BY <1>6 DEF Inside
    <2>2. H[k] > H[d - 1] /\ d - 1 \in 0..k /\ H[c - 1] = H[k]
      <3>1. k \in d..k
        BY <1>0
      <3> QED  BY <1>0, <1>6, <2>1, <3>1 DEF OpenCall, Partner
    <2>3. ~(d > c)
      <3>1. ASSUME d > c PROVE FALSE
        <4>1. d - 1 \in c..(k - 1)
          BY <1>0, <3>1
        <4>2. H[d - 1] > H[k] /\ H[d - 1] \in Int /\ H[k] \in Int
          BY <1>0, <1>6, <2>2, <4>1 DEF Partner
        <4> QED  BY <2>2, <4>2
      <3> QED  BY <3>1
    <2>4. d # c
      BY <1>0, <2>2
    <2>5. d \in 1..(c - 1) /\ \A i \in d..(c - 1) : i \in d..k
      BY <1>0, <2>3, <2>4
    <2>6. OpenCall(H, d, c - 1)
      BY <2>1, <2>5 DEF OpenCall
    <2> QED  BY <2>5, <2>6 DEF Inside
  <1>7. ASSUME NEW c \in 1..(k - 1), Partner(H, c, k), Inside(H, c - 1) PROVE Inside(H, k)
    <2>1. PICK d \in 1..(c - 1) : OpenCall(H, d, c - 1)
      BY <1>7 DEF Inside
    <2>2. H[c - 1] > H[d - 1] /\ H[c - 1] = H[k] /\ H[d - 1] \in Int /\ H[k] \in Int /\ d \in 1..k /\ d <= k
      <3>1. c - 1 \in d..(c - 1) /\ d - 1 \in 0..k /\ d \in 1..k
        BY <1>0
      <3> QED  BY <1>0, <1>7, <2>1, <3>1 DEF OpenCall, Partner
    <2>3. ASSUME NEW i \in d..k PROVE H[i] > H[d - 1]
      <3>1. i \in d..(c - 1) \/ i \in c..(k - 1) \/ i = k
        BY <1>0
      <3>2. ASSUME i \in c..(k - 1) PROVE H[i] > H[d - 1]
        <4>1. H[i] > H[k] /\ H[i] \in Int
          BY <1>0, <1>7, <3>2 DEF Partner
        <4> DEFINE x == H[i]
                   y == H[k]
                   z == H[d - 1]
        <4>2. x \in Int /\ y \in Int /\ z \in Int /\ x > y /\ y > z
          BY <2>2, <4>1
        <4> HIDE DEF x, y, z
        <4>3. x > z
          BY <4>2
        <4> QED  BY <4>3 DEF x, z
      <3> QED  BY <2>1, <2>2, <3>1, <3>2 DEF OpenCall
    <2>4. OpenCall(H, d, k)
      BY <2>2, <2>3 DEF OpenCall
    <2> QED  BY <2>2, <2>4 DEF Inside
  <1> QED  BY <1>3, <1>4, <1>5, <1>6, <1>7

-----------------------------------------------------------------------------
(* Repetition. *)
StarLinks(n) == {Edge(starStart, EPSILON, PP(i)) : i \in n.initial}
                \cup {Edge(f, EPSILON, starStart) : f \in n.final \X Sides}
StarInternal(t, k) == Edge(<<t.from, k>>, t.sym, <<t.to, k>>)
StarInternals(n) == {StarInternal(t, k) : t \in n.internals, k \in Sides}
StarCalls(n) == {StarCall(t, k) : t \in n.calls, k \in Sides}
StarMatched(n) == {StarReturn(t, k) : t \in n.returns, k \in Sides}
StarPendings(n) ==
    {StarPending(t, q) : t \in {u \in n.returns : u.pred \in n.initial}, q \in (n.states \X Sides) \cup {starStart}}
IsStar(b, n) ==
    /\ Finite(b) /\ b.states = (n.states \X Sides) \cup {starStart} /\ b.initial = {starStart} /\ b.final = {starStart}
    /\ b.calls = StarCalls(n)
    /\ b.internals = StarLinks(n) \cup StarInternals(n)
    /\ b.returns = StarMatched(n) \cup StarPendings(n)
Marked(n) == plain # prime /\ starStart \notin n.states \X Sides

LEMMA SidesFinite ==
    ASSUME NEW A, IsFiniteSet(A)
    PROVE  IsFiniteSet(A \X Sides)
  <1>1. IsFiniteSet(Sides)
    <2>1. Sides = {plain} \cup {prime} /\ IsFiniteSet({plain}) /\ IsFiniteSet({prime})
      BY FS_Singleton DEF Sides
    <2> QED  BY <2>1, FS_Union
  <1> QED  BY <1>1, FS_Product

LEMMA StarFields ==
    ASSUME NEW n, Sound(n)
    PROVE  IsStar(star(n), n)
  <1> DEFINE all == n.states \X Sides
             Q == all \cup {starStart}
             empty == Automaton(Q, {}, {starStart}, {starStart}, {}, {}, {})
             L == StarLinks(n) \cup StarInternals(n)
             C == StarCalls(n)
             R == StarMatched(n) \cup StarPendings(n)
             b == star(n)
  <1>0. WellFormed(n) /\ IsFiniteSet(n.states)
    BY DEF Sound, Finite
  <1>1. b = Build(empty, L, C, R)
    BY DEF star, Build, StarCall, StarReturn, StarPending, StarLinks, StarInternal, StarInternals, StarCalls, StarMatched, StarPendings
  <1>2. WellFormed(b)
    BY <1>0, Starred
  <1>3. Whole(empty) /\ empty.states = Q /\ empty.initial = {starStart} /\ empty.final = {starStart}
        /\ empty.calls = {} /\ empty.internals = {} /\ empty.returns = {}
    BY Fields
  <1>4. plain \in Sides /\ prime \in Sides /\ starStart \in Q
    BY DEF Sides
  <1>5. \A q \in n.states, k \in Sides : <<q, k>> \in Q
    OBVIOUS
  <1>6. Touched(L) \subseteq Q
    <2>1. ASSUME NEW e \in L PROVE Ends(e) \subseteq Q
      <3>1. CASE e \in StarInternals(n)
        <4>1. PICK t \in n.internals, k \in Sides : e = StarInternal(t, k)
          BY <3>1 DEF StarInternals
        <4>2. t.from \in n.states /\ t.to \in n.states
          BY StatesOf
        <4> QED  BY <1>5, <4>1, <4>2, EdgeEnds DEF StarInternal
      <3>2. CASE \E i \in n.initial : e = Edge(starStart, EPSILON, PP(i))
        <4>1. PICK i \in n.initial : e = Edge(starStart, EPSILON, PP(i))
          BY <3>2
        <4>2. PP(i) \in Q
          BY <1>4, <1>5, StatesOf DEF PP
        <4> QED  BY <1>4, <4>1, <4>2, EdgeEnds
      <3>3. CASE \E f \in n.final \X Sides : e = Edge(f, EPSILON, starStart)
        <4>1. PICK f \in n.final \X Sides : e = Edge(f, EPSILON, starStart)
          BY <3>3
        <4>2. f \in Q
          BY <4>1, StatesOf
        <4> QED  BY <1>4, <4>1, <4>2, EdgeEnds
      <3> QED  BY <3>1, <3>2, <3>3 DEF StarLinks
    <2> QED  BY <2>1 DEF Touched
  <1>7. Touched(C) \subseteq Q
    <2>1. ASSUME NEW e \in C PROVE Ends(e) \subseteq Q
      <3>1. PICK t \in n.calls, k \in Sides : e = StarCall(t, k)
        BY DEF StarCalls
      <3>2. t.from \in n.states /\ t.to \in n.states
        BY StatesOf
      <3>3. <<t.from, k>> \in Q /\ P(t.to) \in Q
        BY <1>4, <1>5, <3>2 DEF P
      <3> QED  BY <3>1, <3>3, EdgeEnds DEF StarCall
    <2> QED  BY <2>1 DEF Touched
  <1>8. Touched(R) \subseteq Q
    <2>1. ASSUME NEW e \in R PROVE Ends(e) \subseteq Q
      <3>1. CASE e \in StarMatched(n)
        <4>1. PICK t \in n.returns, k \in Sides : e = StarReturn(t, k)
          BY <3>1 DEF StarMatched
        <4>2. t.from \in n.states /\ t.to \in n.states /\ t.pred \in n.states
          BY StatesOf
        <4>3. P(t.from) \in Q /\ <<t.pred, k>> \in Q /\ <<t.to, k>> \in Q
          BY <1>4, <1>5, <4>2 DEF P
        <4> QED  BY <4>1, <4>3, ReturnEnds DEF StarReturn
      <3>2. CASE e \in StarPendings(n)
        <4>1. PICK t \in {u \in n.returns : u.pred \in n.initial}, q \in Q : e = StarPending(t, q)
          BY <3>2 DEF StarPendings
        <4>2. t.from \in n.states /\ t.to \in n.states
          BY StatesOf
        <4>3. PP(t.from) \in Q /\ PP(t.to) \in Q
          BY <1>4, <1>5, <4>2 DEF PP
        <4> QED  BY <4>1, <4>3, ReturnEnds DEF StarPending
      <3> QED  BY <3>1, <3>2
    <2> QED  BY <2>1 DEF Touched
  <1>9. IsFiniteSet(Q)
    <2>1. IsFiniteSet(all) /\ IsFiniteSet({starStart})
      BY <1>0, SidesFinite, FS_Singleton
    <2> HIDE DEF all
    <2> QED  BY <2>1, FS_Union
  <1> HIDE DEF L, C, R, empty, b, Q
  <1>10. AddedTo(addInternals(empty, L), empty, L, {}, L, {})
    BY <1>3, AddedFields
  <1> DEFINE l == addInternals(empty, L)
             c == addCalls(l, C)
  <1> HIDE DEF l, c
  <1>11. l.states = Q /\ l.initial = {starStart} /\ l.final = {starStart} /\ Whole(l)
         /\ l.calls = {} /\ l.internals = L /\ l.returns = {}
    BY <1>3, <1>6, <1>10 DEF AddedTo, Reached, l
  <1>12. AddedTo(c, l, C, C, L, {})
    BY <1>11, AddedFields DEF c
  <1>13. c.states = Q /\ c.initial = {starStart} /\ c.final = {starStart} /\ Whole(c)
         /\ c.calls = C /\ c.internals = L /\ c.returns = {}
    BY <1>7, <1>11, <1>12 DEF AddedTo, Reached
  <1>14. AddedTo(addReturns(c, R), c, R, C, L, R)
    BY <1>13, AddedFields
  <1>15. b = addReturns(c, R)
    BY <1>1 DEF Build, c, l
  <1>16. b.states = Q /\ b.initial = {starStart} /\ b.final = {starStart}
         /\ b.calls = C /\ b.internals = L /\ b.returns = R
    BY <1>8, <1>13, <1>14, <1>15 DEF AddedTo, Reached
  <1> QED  BY <1>2, <1>9, <1>16 DEF IsStar, Finite, b, C, L, R, Q

(* Where EPSILON leads in a repetition. *)
MayEnd(n, q) == \E f \in epsilonClosure(n, q) : f \in n.final
StarOpen(n, x) == x = starStart \/ \E q : RunStart(n, q) /\ x = <<q, prime>>
StarOn(n, q, k, x) == (\E g \in epsilonClosure(n, q) : x = <<g, k>>) \/ (MayEnd(n, q) /\ StarOpen(n, x))
InternalCopy(n, e) == \E t \in n.internals, k \in Sides : e.from = <<t.from, k>> /\ e.sym = t.sym /\ e.to = <<t.to, k>>

LEMMA InternalCopies ==
    ASSUME NEW n, NEW e \in StarInternals(n)
    PROVE  InternalCopy(n, e)
  <1>1. PICK t \in n.internals, k \in Sides : e = StarInternal(t, k)
    BY DEF StarInternals
  <1>2. e.from = <<t.from, k>> /\ e.sym = t.sym /\ e.to = <<t.to, k>>
    BY <1>1, EdgeParts DEF StarInternal
  <1> QED  BY <1>2 DEF InternalCopy

StarLink(n, e) ==
    /\ e.sym = EPSILON
    /\ \/ \E i \in n.initial : e.from = starStart /\ e.to = <<i, prime>>
       \/ \E f \in n.final, k \in Sides : e.from = <<f, k>> /\ e.to = starStart

LEMMA StarLinked ==
    ASSUME NEW n, NEW e \in StarLinks(n)
    PROVE  StarLink(n, e)
  <1>1. CASE \E i \in n.initial : e = Edge(starStart, EPSILON, PP(i))
    BY <1>1, EdgeParts DEF StarLink, PP
  <1>2. CASE \E f \in n.final \X Sides : e = Edge(f, EPSILON, starStart)
    <2>1. PICK f \in n.final, k \in Sides : e = Edge(<<f, k>>, EPSILON, starStart)
      BY <1>2
    <2> QED  BY <2>1, EdgeParts DEF StarLink
  <1> QED  BY <1>1, <1>2 DEF StarLinks

LEMMA StarCopies ==
    ASSUME NEW n, Sound(n), NEW b, IsStar(b, n), NEW Z, EpsClosed(b, Z), NEW q \in n.states, NEW k \in Sides, <<q, k>> \in Z,
           NEW g \in epsilonClosure(n, q)
    PROVE  <<g, k>> \in Z
  <1> DEFINE Y == {x \in n.states : <<x, k>> \in Z}
  <1>1. WellFormed(n) /\ IsFiniteSet(n.states)
    BY DEF Sound, Finite
  <1>2. EpsClosed(n, Y)
    <2>1. ASSUME NEW t \in n.internals, t.from \in Y, t.sym = EPSILON PROVE t.to \in Y
      <3> DEFINE e == StarInternal(t, k)
      <3>1. e.from = <<t.from, k>> /\ e.sym = t.sym /\ e.to = <<t.to, k>>
        BY EdgeParts DEF StarInternal
      <3>2. e \in b.internals
        BY DEF IsStar, StarInternals
      <3> HIDE DEF e
      <3>3. e.to \in Z
        BY <2>1, <3>1, <3>2 DEF EpsClosed
      <3> QED  BY <3>1, <3>3, StatesOf
    <2> HIDE DEF Y
    <2> QED  BY <2>1 DEF EpsClosed
  <1>3. q \in Y
    OBVIOUS
  <1> HIDE DEF Y
  <1>4. g \in Y
    BY <1>1, <1>2, <1>3, ClosureFacts
  <1> QED  BY <1>4 DEF Y

LEMMA StarAtStart ==
    ASSUME NEW n, Sound(n), Marked(n), NEW b, IsStar(b, n), NEW x
    PROVE  x \in epsilonClosure(b, starStart) <=> StarOpen(n, x)
  <1> DEFINE Z == {y \in b.states : StarOpen(n, y)}
             E == epsilonClosure(b, starStart)
  <1>0. WellFormed(n) /\ IsFiniteSet(n.states) /\ WellFormed(b) /\ IsFiniteSet(b.states) /\ starStart \in b.states
        /\ prime \in Sides /\ plain # prime /\ \A q \in n.states, k \in Sides : <<q, k>> # starStart /\ <<q, k>> \in b.states
    BY DEF Sound, Finite, IsStar, Marked, Sides
  <1>1. EpsClosed(b, Z)
    <2>1. ASSUME NEW e \in b.internals, e.from \in Z, e.sym = EPSILON PROVE e.to \in Z
      <3>0. e.to \in b.states
        BY <1>0, TransEnds
      <3>1. CASE e \in StarInternals(n)
        <4>1. PICK t \in n.internals, k \in Sides : e.from = <<t.from, k>> /\ e.sym = t.sym /\ e.to = <<t.to, k>>
          BY <3>1, InternalCopies DEF InternalCopy
        <4>2. t.from \in n.states
          BY StatesOf
        <4>3. PICK q : RunStart(n, q) /\ <<t.from, k>> = <<q, prime>>
          BY <1>0, <2>1, <4>1, <4>2 DEF StarOpen
        <4>4. RunStart(n, t.from) /\ k = prime
          BY <4>3
        <4>5. RunStart(n, t.to)
          BY <1>0, <2>1, <4>1, <4>4, ClosureFacts, StatesOf DEF RunStart, EpsClosed
        <4> QED  BY <3>0, <4>1, <4>4, <4>5 DEF StarOpen
      <3>2. CASE e \in StarLinks(n)
        <4>1. CASE \E i \in n.initial : e.to = <<i, prime>>
          <5>1. PICK i \in n.initial : e.to = <<i, prime>>
            BY <4>1
          <5>2. RunStart(n, i)
            BY <1>0, ClosureFacts, StatesOf DEF RunStart
          <5> QED  BY <3>0, <5>1, <5>2 DEF StarOpen
        <4>2. CASE e.to = starStart
          BY <3>0, <4>2 DEF StarOpen
        <4> QED  BY <3>2, <4>1, <4>2, StarLinked DEF StarLink
      <3> QED  BY <3>1, <3>2 DEF IsStar
    <2> HIDE DEF Z
    <2> QED  BY <2>1 DEF EpsClosed
  <1>2. starStart \in Z
    BY <1>0 DEF StarOpen
  <1>3. E \subseteq Z
    <2> HIDE DEF Z
    <2> QED  BY <1>0, <1>1, <1>2, ClosureFacts
  <1>4. starStart \in E /\ EpsClosed(b, E)
    BY <1>0, ClosureFacts
  <1> HIDE DEF E
  <1>5. ASSUME NEW q, RunStart(n, q) PROVE <<q, prime>> \in E
    <2>1. PICK i \in n.initial : q \in epsilonClosure(n, i)
      BY <1>5 DEF RunStart
    <2> DEFINE e == Edge(starStart, EPSILON, PP(i))
    <2>2. e.from = starStart /\ e.sym = EPSILON /\ e.to = <<i, prime>>
      BY EdgeParts DEF PP
    <2>3. e \in b.internals
      BY DEF IsStar, StarLinks
    <2> HIDE DEF e
    <2>4. <<i, prime>> \in E
      BY <1>4, <2>2, <2>3 DEF EpsClosed
    <2> QED  BY <1>0, <1>4, <2>1, <2>4, StarCopies, StatesOf
  <1> QED  BY <1>3, <1>4, <1>5 DEF StarOpen, E

LEMMA StarClosure ==
    ASSUME NEW n, Sound(n), Marked(n), NEW b, IsStar(b, n), NEW q \in n.states, NEW k \in Sides, NEW x
    PROVE  x \in epsilonClosure(b, <<q, k>>) <=> StarOn(n, q, k, x)
  <1> DEFINE p == <<q, k>>
             Z == {y \in b.states : StarOn(n, q, k, y)}
             E == epsilonClosure(b, p)
  <1>0. WellFormed(n) /\ IsFiniteSet(n.states) /\ WellFormed(b) /\ IsFiniteSet(b.states) /\ starStart \in b.states
        /\ prime \in Sides /\ plain # prime /\ \A g \in n.states, j \in Sides : <<g, j>> # starStart /\ <<g, j>> \in b.states
    BY DEF Sound, Finite, IsStar, Marked, Sides
  <1>a. p \in b.states
    BY <1>0
  <1>b. EpsClosed(b, epsilonClosure(b, starStart)) /\ \A y : y \in epsilonClosure(b, starStart) <=> StarOpen(n, y)
    BY <1>0, ClosureFacts, StarAtStart
  <1>1. EpsClosed(b, Z)
    <2>1. ASSUME NEW e \in b.internals, e.from \in Z, e.sym = EPSILON PROVE e.to \in Z
      <3>0. e.to \in b.states
        BY <1>0, TransEnds
      <3>1. CASE MayEnd(n, q) /\ StarOpen(n, e.from)
        <4>1. StarOpen(n, e.to)
          BY <1>b, <2>1, <3>1 DEF EpsClosed
        <4> QED  BY <3>0, <3>1, <4>1 DEF StarOn
      <3>2. CASE \E g \in epsilonClosure(n, q) : e.from = <<g, k>>
        <4>1. PICK g \in epsilonClosure(n, q) : e.from = <<g, k>>
          BY <3>2
        <4>2. g \in n.states
          BY <1>0, ClosureFacts
        <4>3. CASE e \in StarInternals(n)
          <5>1. PICK t \in n.internals, j \in Sides : e.from = <<t.from, j>> /\ e.sym = t.sym /\ e.to = <<t.to, j>>
            BY <4>3, InternalCopies DEF InternalCopy
          <5>2. t.from = g /\ j = k
            BY <4>1, <5>1
          <5>3. t.to \in epsilonClosure(n, q)
            BY <1>0, <2>1, <5>1, <5>2, ClosureFacts DEF EpsClosed
          <5> QED  BY <3>0, <5>1, <5>2, <5>3 DEF StarOn
        <4>4. CASE e \in StarLinks(n)
          <5>1. e.from # starStart
            BY <1>0, <4>1, <4>2
          <5>2. PICK f \in n.final, j \in Sides : e.from = <<f, j>> /\ e.to = starStart
            BY <4>4, <5>1, StarLinked DEF StarLink
          <5>3. f = g
            BY <4>1, <5>2
          <5> QED  BY <3>0, <5>2, <5>3 DEF StarOn, MayEnd, StarOpen
        <4> QED  BY <4>3, <4>4 DEF IsStar
      <3> QED  BY <2>1, <3>1, <3>2 DEF StarOn
    <2> HIDE DEF Z
    <2> QED  BY <2>1 DEF EpsClosed
  <1>2. p \in Z
    BY <1>0, <1>a, ClosureFacts DEF StarOn
  <1>3. E \subseteq Z
    <2> HIDE DEF Z, p
    <2> QED  BY <1>0, <1>a, <1>1, <1>2, ClosureFacts
  <1>4. p \in E /\ EpsClosed(b, E)
    <2> HIDE DEF p
    <2> QED  BY <1>0, <1>a, ClosureFacts
  <1> HIDE DEF E
  <1>5. ASSUME NEW g \in epsilonClosure(n, q) PROVE <<g, k>> \in E
    BY <1>4, StarCopies
  <1>6. ASSUME MayEnd(n, q) PROVE epsilonClosure(b, starStart) \subseteq E
    <2>1. PICK f \in n.final : f \in epsilonClosure(n, q)
      BY <1>6 DEF MayEnd
    <2> DEFINE e == Edge(<<f, k>>, EPSILON, starStart)
    <2>2. e.from = <<f, k>> /\ e.sym = EPSILON /\ e.to = starStart
      BY EdgeParts
    <2>3. e \in b.internals
      BY DEF IsStar, StarLinks
    <2> HIDE DEF e
    <2>4. starStart \in E
      BY <1>4, <1>5, <2>1, <2>2, <2>3 DEF EpsClosed
    <2> QED  BY <1>0, <1>4, <2>4, ClosureFacts
  <1> QED  BY <1>3, <1>5, <1>6, <1>b DEF StarOn, E

-----------------------------------------------------------------------------
(* A word cut at a position. *)
Cut(w, H, a, v, u) ==
    /\ v \in Seq(Positions) /\ u \in Seq(Positions) /\ w \in Seq(Positions) /\ w = v \o u
    /\ Len(v) = a /\ Len(w) = a + Len(u) /\ a \in Nat /\ Len(u) \in Nat
    /\ IsHeight(w, H) /\ IsHeight(v, H) /\ IsHeight(u, After(H, a, Len(u)))
    /\ \A k \in 1..a : w[k] = v[k] /\ k \in 1..Len(w)
    /\ \A k \in 1..Len(u) : w[a + k] = u[k] /\ a + k \in 1..Len(w)
    /\ \A k \in 1..Len(u) : \A c \in 1..(k - 1) :
         Partner(After(H, a, Len(u)), c, k) <=> Partner(H, a + c, a + k)

LEMMA PartsCut ==
    ASSUME NEW w, NEW H, NEW v, NEW u, Parts(w, H, v, u)
    PROVE  Cut(w, H, Len(v), v, u)
  <1>1. v \in Seq(Positions) /\ u \in Seq(Positions) /\ w = v \o u /\ IsHeight(w, H)
    BY DEF Parts
  <1> QED  BY <1>1, PartsAre DEF Cut

LEMMA CutAt ==
    ASSUME NEW w \in Seq(Positions), NEW H, IsHeight(w, H), NEW a \in 0..Len(w)
    PROVE  \E v, u : Cut(w, H, a, v, u)
  <1>1. PICK v, u : v \in Seq(Positions) /\ u \in Seq(Positions) /\ w = v \o u /\ Len(v) = a
    BY Parted
  <1>2. Parts(w, H, v, u)
    BY <1>1 DEF Parts
  <1>3. Cut(w, H, a, v, u)
    BY <1>1, <1>2, PartsCut
  <1> QED  BY <1>3

(* A step of a repetition. *)
SideAt(H, k) == IF Inside(H, k) THEN plain ELSE prime
StarStep(n, b, w, H, s, k, y) ==
    \E q \in n.states, j \in Sides :
      /\ s[k - 1] = <<q, j>>
      /\ \/ w[k].kind = "call" /\ \E g : y = <<g, plain>> /\ EdgeTo(n.calls, w[k].sym, q, g)
         \/ w[k].kind = "internal" /\ \E g : y = <<g, j>> /\ EdgeTo(n.internals, w[k].sym, q, g)
         \/ /\ w[k].kind = "return" /\ j = plain
            /\ \E t \in n.returns, i \in Sides : /\ t.from = q /\ t.sym \in {w[k].sym, WILD} /\ y = <<t.to, i>>
                                                 /\ RunPops(b, H, s, k, <<t.pred, i>>)
         \/ /\ w[k].kind = "return" /\ j = prime
            /\ \E t \in n.returns : t.pred \in n.initial /\ t.from = q /\ t.sym \in {w[k].sym, WILD} /\ y = <<t.to, prime>>

LEMMA StarCallIs ==
    ASSUME NEW n, NEW e \in StarCalls(n)
    PROVE  \E t \in n.calls, k \in Sides : e.from = <<t.from, k>> /\ e.sym = t.sym /\ e.to = <<t.to, plain>>
  <1>1. PICK t \in n.calls, k \in Sides : e = StarCall(t, k)
    BY DEF StarCalls
  <1>2. e.from = <<t.from, k>> /\ e.sym = t.sym /\ e.to = <<t.to, plain>>
    BY <1>1, EdgeParts DEF StarCall, P
  <1> QED  BY <1>2

LEMMA StarMatchedIs ==
    ASSUME NEW n, NEW e \in StarMatched(n)
    PROVE  \E t \in n.returns, k \in Sides :
             e.from = <<t.from, plain>> /\ e.pred = <<t.pred, k>> /\ e.sym = t.sym /\ e.to = <<t.to, k>>
  <1>1. PICK t \in n.returns, k \in Sides : e = StarReturn(t, k)
    BY DEF StarMatched
  <1>2. e.from = <<t.from, plain>> /\ e.pred = <<t.pred, k>> /\ e.sym = t.sym /\ e.to = <<t.to, k>>
    BY <1>1, ReturnParts DEF StarReturn, P
  <1> QED  BY <1>2

LEMMA StarPendingIs ==
    ASSUME NEW n, NEW e \in StarPendings(n)
    PROVE  \E t \in n.returns : t.pred \in n.initial /\ e.from = <<t.from, prime>> /\ e.sym = t.sym /\ e.to = <<t.to, prime>>
  <1> DEFINE Q == (n.states \X Sides) \cup {starStart}
             R == {u \in n.returns : u.pred \in n.initial}
  <1>1. StarPendings(n) = {StarPending(t, q) : t \in R, q \in Q}
    BY DEF StarPendings
  <1> HIDE DEF Q, R
  <1>2. PICK t \in R, q \in Q : e = StarPending(t, q)
    BY <1>1
  <1>3. e.from = <<t.from, prime>> /\ e.sym = t.sym /\ e.to = <<t.to, prime>>
    BY <1>2, ReturnParts DEF StarPending, PP
  <1> QED  BY <1>3 DEF R

LEMMA StarStepIs ==
    ASSUME NEW n, Sound(n), Marked(n), NEW b, IsStar(b, n), NEW w \in Seq(Positions), NEW H, IsHeight(w, H),
           NEW s, NEW k \in 1..Len(w), NEW y, StepTo(b, w, H, s, k, y)
    PROVE  StarStep(n, b, w, H, s, k, y)
  <1>1. plain \in Sides /\ prime \in Sides /\ plain # prime /\ w[k].sym \in Alphabet
    BY HeightAt DEF Sides, Marked
  <1>2. w[k].sym # EPSILON /\ WILD # EPSILON
    BY <1>1, AlphabetAssumption, MetaSymbols DEF Letters
  <1>3. ASSUME w[k].kind = "call", NEW e \in b.calls, e.from = s[k - 1], e.sym \in {w[k].sym, WILD}, e.to = y
        PROVE  StarStep(n, b, w, H, s, k, y)
    <2>1. PICK t \in n.calls, j \in Sides : e.from = <<t.from, j>> /\ e.sym = t.sym /\ e.to = <<t.to, plain>>
      BY StarCallIs DEF IsStar
    <2>2. EdgeTo(n.calls, w[k].sym, t.from, t.to) /\ t.from \in n.states
      BY <1>3, <2>1, StatesOf DEF EdgeTo
    <2> QED  BY <1>3, <2>1, <2>2 DEF StarStep
  <1>4. ASSUME w[k].kind = "internal", NEW e \in b.internals, e.from = s[k - 1], e.sym \in {w[k].sym, WILD}, e.to = y
        PROVE  StarStep(n, b, w, H, s, k, y)
    <2>0. e \in StarInternals(n)
      BY <1>2, <1>4, StarLinked DEF IsStar, StarLink
    <2>1. PICK t \in n.internals, j \in Sides : e.from = <<t.from, j>> /\ e.sym = t.sym /\ e.to = <<t.to, j>>
      BY <2>0, InternalCopies DEF InternalCopy
    <2>2. EdgeTo(n.internals, w[k].sym, t.from, t.to) /\ t.from \in n.states
      BY <1>4, <2>1, StatesOf DEF EdgeTo
    <2> QED  BY <1>4, <2>1, <2>2 DEF StarStep
  <1>5. ASSUME w[k].kind = "return", NEW e \in b.returns, e.from = s[k - 1], e.sym \in {w[k].sym, WILD}, e.to = y,
               RunPops(b, H, s, k, e.pred)
        PROVE  StarStep(n, b, w, H, s, k, y)
    <2>1. CASE e \in StarMatched(n)
      <3>1. PICK t \in n.returns, i \in Sides :
              e.from = <<t.from, plain>> /\ e.pred = <<t.pred, i>> /\ e.sym = t.sym /\ e.to = <<t.to, i>>
        BY <2>1, StarMatchedIs
      <3>2. t.from \in n.states
        BY StatesOf
      <3> QED  BY <1>1, <1>5, <3>1, <3>2 DEF StarStep
    <2>2. CASE e \in StarPendings(n)
      <3>1. PICK t \in n.returns : t.pred \in n.initial /\ e.from = <<t.from, prime>> /\ e.sym = t.sym /\ e.to = <<t.to, prime>>
        BY <2>2, StarPendingIs
      <3>2. t.from \in n.states
        BY StatesOf
      <3> QED  BY <1>1, <1>5, <3>1, <3>2 DEF StarStep
    <2> QED  BY <1>5, <2>1, <2>2 DEF IsStar
  <1> QED  BY <1>3, <1>4, <1>5 DEF StepTo, EdgeTo, ReturnTo

(* The positions of the last iteration, beside a run of the automaton. *)
Sided(s, a, z, G, k) == \A j \in 0..k : s[a + j] = <<z[j], SideAt(G, j)>>

(* A return within the part closes the call it closes in the whole word.   *)
PopsAlong(H, G, a, k, s, z) ==
    \A c \in 1..(k - 1) : Partner(G, c, k) =>
       /\ Partner(H, a + c, a + k) /\ a + c \in 1..((a + k) - 1)
       /\ s[(a + c) - 1] = <<z[c - 1], SideAt(G, c - 1)>>

LEMMA CutPopped ==
    ASSUME NEW w, NEW H, NEW a, NEW v, NEW u, Cut(w, H, a, v, u), NEW G, G = After(H, a, Len(u)),
           NEW k \in 1..Len(u), NEW s, NEW z, Sided(s, a, z, G, k - 1)
    PROVE  PopsAlong(H, G, a, k, s, z)
  <1> SUFFICES ASSUME NEW c \in 1..(k - 1), Partner(G, c, k)
               PROVE  /\ Partner(H, a + c, a + k) /\ a + c \in 1..((a + k) - 1)
                      /\ s[(a + c) - 1] = <<z[c - 1], SideAt(G, c - 1)>>
    BY DEF PopsAlong
  <1>1. a \in Nat /\ k \in Nat /\ c \in Nat
    BY DEF Cut
  <1>2. Partner(H, a + c, a + k)
    BY DEF Cut
  <1>3. a + c \in 1..((a + k) - 1) /\ (a + c) - 1 = a + (c - 1) /\ c - 1 \in 0..(k - 1)
    BY <1>1
  <1> QED  BY <1>2, <1>3 DEF Sided

LEMMA StarStepDown ==
    ASSUME NEW n, Sound(n), Marked(n), NEW b, IsStar(b, n),
           NEW w, NEW H, NEW a, NEW v, NEW u, Cut(w, H, a, v, u), NEW G, G = After(H, a, Len(u)),
           NEW k \in 1..Len(u), NEW s, NEW z, Sided(s, a, z, G, k - 1),
           NEW y, StepTo(b, w, H, s, a + k, y)
    PROVE  \E g : y = <<g, SideAt(G, k)>> /\ StepTo(n, u, G, z, k, g)
  <1>1. /\ a \in Nat /\ k \in Nat /\ w \in Seq(Positions) /\ IsHeight(w, H) /\ a + k \in 1..Len(w)
        /\ u \in Seq(Positions) /\ IsHeight(u, G) /\ w[a + k] = u[k] /\ plain # prime
    <2>1. plain # prime
      BY DEF Marked
    <2> QED  BY <2>1 DEF Cut
  <1>2. (a + k) - 1 = a + (k - 1) /\ k - 1 \in 0..(k - 1)
    BY <1>1
  <1>3. s[(a + k) - 1] = <<z[k - 1], SideAt(G, k - 1)>>
    BY <1>2 DEF Sided
  <1>4. StarStep(n, b, w, H, s, a + k, y)
    BY <1>1, StarStepIs
  <1>5. PICK q \in n.states, j \in Sides :
      /\ s[(a + k) - 1] = <<q, j>>
      /\ \/ u[k].kind = "call" /\ \E g : y = <<g, plain>> /\ EdgeTo(n.calls, u[k].sym, q, g)
         \/ u[k].kind = "internal" /\ \E g : y = <<g, j>> /\ EdgeTo(n.internals, u[k].sym, q, g)
         \/ /\ u[k].kind = "return" /\ j = plain
            /\ \E t \in n.returns, i \in Sides : /\ t.from = q /\ t.sym \in {u[k].sym, WILD} /\ y = <<t.to, i>>
                                                 /\ RunPops(b, H, s, a + k, <<t.pred, i>>)
         \/ /\ u[k].kind = "return" /\ j = prime
            /\ \E t \in n.returns : t.pred \in n.initial /\ t.from = q /\ t.sym \in {u[k].sym, WILD} /\ y = <<t.to, prime>>
    BY <1>1, <1>4 DEF StarStep
  <1>6. q = z[k - 1] /\ j = SideAt(G, k - 1)
    BY <1>3, <1>5
  <1>7. CASE u[k].kind = "call"
    <2>1. SideAt(G, k) = plain
      BY <1>1, <1>7, InsideCall DEF SideAt
    <2>2. PICK g : y = <<g, plain>> /\ EdgeTo(n.calls, u[k].sym, q, g)
      BY <1>5, <1>7
    <2> QED  BY <1>6, <1>7, <2>1, <2>2 DEF StepTo
  <1>8. CASE u[k].kind = "internal"
    <2>1. SideAt(G, k) = SideAt(G, k - 1)
      BY <1>1, <1>8, InsideInternal DEF SideAt
    <2>2. PICK g : y = <<g, j>> /\ EdgeTo(n.internals, u[k].sym, q, g)
      BY <1>5, <1>8
    <2> QED  BY <1>6, <1>8, <2>1, <2>2 DEF StepTo
  <1>9. CASE u[k].kind = "return" /\ j = plain
    <2>1. PICK t \in n.returns, i \in Sides : /\ t.from = q /\ t.sym \in {u[k].sym, WILD} /\ y = <<t.to, i>>
                                             /\ RunPops(b, H, s, a + k, <<t.pred, i>>)
      BY <1>1, <1>5, <1>9
    <2>2. Inside(G, k - 1)
      BY <1>1, <1>6, <1>9 DEF SideAt
    <2>3. Partnered(G, k)
      BY <1>1, <1>9, <2>2, InsideReturn
    <2>4. PICK c \in 1..(k - 1) : Partner(G, c, k)
      BY <2>3 DEF Partnered
    <2>a. PopsAlong(H, G, a, k, s, z)
      BY CutPopped
    <2>5. Partner(H, a + c, a + k) /\ a + c \in 1..((a + k) - 1) /\ s[(a + c) - 1] = <<z[c - 1], SideAt(G, c - 1)>>
      BY <2>4, <2>a DEF PopsAlong
    <2>6. <<t.pred, i>> = <<z[c - 1], SideAt(G, c - 1)>>
      BY <2>1, <2>5 DEF RunPops
    <2>7. t.pred = z[c - 1] /\ i = SideAt(G, c - 1)
      BY <2>6
    <2>8. SideAt(G, k) = i
      BY <1>1, <1>9, <2>4, <2>7, InsideReturn DEF SideAt
    <2>9. \A d \in 1..(k - 1) : Partner(G, d, k) => d = c
      BY <1>1, <2>4, OnePartner
    <2>10. RunPops(n, G, z, k, t.pred)
      BY <2>3, <2>7, <2>9 DEF RunPops
    <2>11. StepTo(n, u, G, z, k, t.to)
      BY <1>6, <1>9, <2>1, <2>10 DEF StepTo, ReturnTo
    <2> QED  BY <2>1, <2>8, <2>11
  <1>10. CASE u[k].kind = "return" /\ j = prime
    <2>1. PICK t \in n.returns : t.pred \in n.initial /\ t.from = q /\ t.sym \in {u[k].sym, WILD} /\ y = <<t.to, prime>>
      BY <1>1, <1>5, <1>10
    <2>2. ~Inside(G, k - 1)
      BY <1>1, <1>6, <1>10 DEF SideAt
    <2>3. ~Partnered(G, k) /\ ~Inside(G, k)
      BY <1>1, <1>10, <2>2, InsideReturn
    <2>4. RunPops(n, G, z, k, t.pred)
      BY <2>1, <2>3 DEF RunPops, Partnered
    <2>5. StepTo(n, u, G, z, k, t.to)
      BY <1>6, <1>10, <2>1, <2>4 DEF StepTo, ReturnTo
    <2> QED  BY <2>1, <2>3, <2>5 DEF SideAt
  <1> QED  BY <1>5, <1>7, <1>8, <1>9, <1>10

LEMMA StarStepUp ==
    ASSUME NEW n, Sound(n), NEW b, IsStar(b, n),
           NEW w, NEW H, NEW a, NEW v, NEW u, Cut(w, H, a, v, u), NEW G, G = After(H, a, Len(u)),
           NEW k \in 1..Len(u), NEW s, NEW z, Sided(s, a, z, G, k - 1), \A i \in 0..((a + k) - 1) : s[i] \in b.states,
           NEW g, StepTo(n, u, G, z, k, g)
    PROVE  StepTo(b, w, H, s, a + k, <<g, SideAt(G, k)>>)
  <1>1. /\ a \in Nat /\ k \in Nat /\ w \in Seq(Positions) /\ IsHeight(w, H) /\ a + k \in 1..Len(w)
        /\ u \in Seq(Positions) /\ IsHeight(u, G) /\ w[a + k] = u[k]
    BY DEF Cut
  <1>2. (a + k) - 1 = a + (k - 1) /\ k - 1 \in 0..(k - 1)
    BY <1>1
  <1>3. s[(a + k) - 1] = <<z[k - 1], SideAt(G, k - 1)>>
    BY <1>2 DEF Sided
  <1>4. \A i : SideAt(G, i) \in Sides
    BY DEF SideAt, Sides
  <1> DEFINE j == SideAt(G, k - 1)
  <1>5. CASE u[k].kind = "call" /\ EdgeTo(n.calls, u[k].sym, z[k - 1], g)
    <2>1. PICK t \in n.calls : t.from = z[k - 1] /\ t.sym \in {u[k].sym, WILD} /\ t.to = g
      BY <1>5 DEF EdgeTo
    <2>2. SideAt(G, k) = plain
      BY <1>1, <1>5, InsideCall DEF SideAt
    <2> DEFINE e == StarCall(t, j)
    <2>3. e.from = <<t.from, j>> /\ e.sym = t.sym /\ e.to = <<t.to, plain>>
      BY EdgeParts DEF StarCall, P
    <2>4. e \in b.calls
      BY <1>4 DEF IsStar, StarCalls
    <2> HIDE DEF e
    <2>5. EdgeTo(b.calls, u[k].sym, s[(a + k) - 1], <<g, plain>>)
      BY <1>3, <2>1, <2>3, <2>4 DEF EdgeTo
    <2> QED  BY <1>1, <1>5, <2>2, <2>5 DEF StepTo
  <1>6. CASE u[k].kind = "internal" /\ EdgeTo(n.internals, u[k].sym, z[k - 1], g)
    <2>1. PICK t \in n.internals : t.from = z[k - 1] /\ t.sym \in {u[k].sym, WILD} /\ t.to = g
      BY <1>6 DEF EdgeTo
    <2>2. SideAt(G, k) = j
      BY <1>1, <1>6, InsideInternal DEF SideAt
    <2> DEFINE e == StarInternal(t, j)
    <2>3. e.from = <<t.from, j>> /\ e.sym = t.sym /\ e.to = <<t.to, j>>
      BY EdgeParts DEF StarInternal
    <2>4. e \in b.internals
      BY <1>4 DEF IsStar, StarInternals
    <2> HIDE DEF e
    <2>5. EdgeTo(b.internals, u[k].sym, s[(a + k) - 1], <<g, j>>)
      BY <1>3, <2>1, <2>3, <2>4 DEF EdgeTo
    <2> QED  BY <1>1, <1>6, <2>2, <2>5 DEF StepTo
  <1>7. CASE u[k].kind = "return" /\ ReturnTo(n, G, u[k].sym, z, k, g)
    <2>1. PICK t \in n.returns : t.from = z[k - 1] /\ t.sym \in {u[k].sym, WILD} /\ t.to = g /\ RunPops(n, G, z, k, t.pred)
      BY <1>7 DEF ReturnTo
    <2>a. PopsAlong(H, G, a, k, s, z)
      BY CutPopped
    <2>2. CASE Partnered(G, k)
      <3>1. PICK c \in 1..(k - 1) : Partner(G, c, k)
        BY <2>2 DEF Partnered
      <3>a. Partner(H, a + c, a + k) /\ a + c \in 1..((a + k) - 1) /\ s[(a + c) - 1] = <<z[c - 1], SideAt(G, c - 1)>>
        BY <2>a, <3>1 DEF PopsAlong
      <3> DEFINE i == SideAt(G, c - 1)
      <3>b. \A d \in 1..((a + k) - 1) : Partner(H, d, a + k) => d = a + c
        BY <1>1, <3>a, OnePartner
      <3>2. /\ Partner(H, a + c, a + k) /\ a + c \in 1..((a + k) - 1) /\ s[(a + c) - 1] = <<z[c - 1], i>>
            /\ \A d \in 1..((a + k) - 1) : Partner(H, d, a + k) => d = a + c
        BY <3>a, <3>b
      <3>3. SideAt(G, k) = i /\ j = plain
        BY <1>1, <1>7, <2>2, <3>1, InsideReturn DEF SideAt
      <3>4. i \in Sides
        BY <1>4
      <3> HIDE DEF i
      <3> DEFINE e == StarReturn(t, i)
      <3>5. e.from = <<t.from, plain>> /\ e.pred = <<t.pred, i>> /\ e.sym = t.sym /\ e.to = <<t.to, i>>
        BY ReturnParts DEF StarReturn, P
      <3>6. e \in b.returns
        BY <3>4 DEF IsStar, StarMatched
      <3> HIDE DEF e
      <3>7. t.pred = z[c - 1]
        BY <2>1, <3>1 DEF RunPops
      <3>8. RunPops(b, H, s, a + k, e.pred)
        BY <3>2, <3>5, <3>7 DEF RunPops, Partnered
      <3>9. ReturnTo(b, H, u[k].sym, s, a + k, <<g, i>>)
        BY <1>3, <2>1, <3>3, <3>5, <3>6, <3>8 DEF ReturnTo
      <3> QED  BY <1>1, <1>7, <3>3, <3>9 DEF StepTo
    <2>3. CASE ~Partnered(G, k)
      <3>1. ~Inside(G, k - 1) /\ ~Inside(G, k)
        BY <1>1, <1>7, <2>3, InsideReturn
      <3>2. SideAt(G, k) = prime /\ j = prime
        BY <3>1 DEF SideAt
      <3>3. t.pred \in n.initial
        BY <2>1, <2>3 DEF RunPops
      <3>4. \E x \in b.states : RunPops(b, H, s, a + k, x)
        <4>1. CASE Partnered(H, a + k)
          <5>1. PICK c \in 1..((a + k) - 1) : Partner(H, c, a + k)
            BY <4>1 DEF Partnered
          <5>2. \A d \in 1..((a + k) - 1) : Partner(H, d, a + k) => d = c
            BY <1>1, <5>1, OnePartner
          <5>3. c - 1 \in 0..((a + k) - 1)
            <6> DEFINE m == (a + k) - 1
            <6>1. m \in Int /\ c \in 1..m
              BY <1>1
            <6> HIDE DEF m
            <6>2. c - 1 \in 0..m
              BY <6>1
            <6> QED  BY <6>2 DEF m
          <5>4. RunPops(b, H, s, a + k, s[c - 1])
            BY <4>1, <5>2 DEF RunPops
          <5> QED  BY <5>3, <5>4
        <4>2. CASE ~Partnered(H, a + k)
          <5>1. starStart \in b.initial /\ starStart \in b.states
            BY DEF IsStar
          <5>2. RunPops(b, H, s, a + k, starStart)
            BY <4>2, <5>1 DEF RunPops, Partnered
          <5> QED  BY <5>1, <5>2
        <4> QED  BY <4>1, <4>2
      <3>5. PICK x \in b.states : RunPops(b, H, s, a + k, x)
        BY <3>4
      <3> DEFINE e == StarPending(t, x)
      <3>6. e.from = <<t.from, prime>> /\ e.pred = x /\ e.sym = t.sym /\ e.to = <<t.to, prime>>
        BY ReturnParts DEF StarPending, PP
      <3>7. e \in b.returns
        BY <3>3 DEF IsStar, StarPendings
      <3> HIDE DEF e
      <3>8. ReturnTo(b, H, u[k].sym, s, a + k, <<g, prime>>)
        BY <1>3, <2>1, <3>2, <3>5, <3>6, <3>7 DEF ReturnTo
      <3> QED  BY <1>1, <1>7, <3>2, <3>8 DEF StepTo
    <2> QED  BY <2>2, <2>3
  <1> QED  BY <1>5, <1>6, <1>7 DEF StepTo

(* Where an iteration may end and the next begin. *)
Bound(n, b, w, H, s, j) ==
    StarOpen(n, s[j]) /\ (j > 0 => \E y : StepTo(b, w, H, s, j, y) /\ starStart \in epsilonClosure(b, y))

LEMMA StarPrefix ==
    ASSUME NEW n, Sound(n), Marked(n), NEW b, IsStar(b, n),
           NEW w, NEW H, NEW a, NEW v, NEW u, Cut(w, H, a, v, u), a < Len(w), Len(w) <= MaxLength,
           NEW s, IsRun(b, w, H, s), Bound(n, b, w, H, s, a)
    PROVE  v \in Words(b)
  <1>0. /\ a \in Nat /\ w \in Seq(Positions) /\ IsHeight(w, H) /\ v \in Seq(Positions) /\ IsHeight(v, H) /\ Len(v) = a
        /\ \A k \in 1..a : w[k] = v[k] /\ k \in 1..Len(w)
        /\ Len(w) \in Nat
    BY DEF Cut
  <1>1. Finite(b) /\ starStart \in b.states /\ starStart \in b.initial /\ starStart \in b.final
    BY DEF IsStar
  <1> DEFINE r == [k \in 0..a |-> IF k = a THEN starStart ELSE s[k]]
  <1>2. r[a] = starStart /\ a \in 0..a /\ \A k \in 0..(a - 1) : r[k] = s[k]
    <2>1. a \in 0..a /\ \A k \in 0..(a - 1) : k \in 0..a /\ k # a
      BY <1>0
    <2> QED  BY <2>1
  <1>3. \A k \in 0..a : k = a \/ (k \in 0..(a - 1) /\ k \in 0..Len(w))
    BY <1>0
  <1> HIDE DEF r
  <1>4. \A k \in 0..a : r[k] \in b.states
    BY <1>1, <1>2, <1>3 DEF IsRun
  <1>5. RunStart(b, r[0])
    <2>1. CASE a = 0
      <3>1. starStart \in epsilonClosure(b, starStart)
        BY <1>1, ClosureFacts DEF Finite
      <3> QED  BY <1>1, <1>2, <2>1, <3>1 DEF RunStart
    <2>2. CASE a # 0
      <3>1. 0 \in 0..(a - 1)
        BY <1>0, <2>2
      <3> QED  BY <1>2, <3>1 DEF IsRun
    <2> QED  BY <2>1, <2>2
  <1>6. ASSUME NEW k \in 1..a PROVE RunStep(b, v, H, r, k)
    <2>0. k \in Nat /\ k > 0 /\ w[k] = v[k] /\ k \in 1..Len(w)
      BY <1>0
    <2>1. Agree(s, r, k - 1)
      <3>1. \A i \in 0..(k - 1) : i \in 0..(a - 1)
        BY <1>0
      <3> QED  BY <1>2, <3>1 DEF Agree
    <2>2. \E y : StepTo(b, w, H, s, k, y) /\ r[k] \in epsilonClosure(b, y)
      <3>1. CASE k = a
        BY <1>2, <2>0, <3>1 DEF Bound
      <3>2. CASE k # a
        <4>1. r[k] = s[k]
          <5>1. k \in 0..(a - 1)
            BY <1>0, <3>2
          <5> QED  BY <1>2, <5>1
        <4> QED  BY <2>0, <4>1, StepVia DEF IsRun
      <3> QED  BY <3>1, <3>2
    <2>3. PICK y : StepTo(b, w, H, s, k, y) /\ r[k] \in epsilonClosure(b, y)
      BY <2>2
    <2>4. StepTo(b, v, H, r, k, y)
      BY <2>0, <2>1, <2>3, StepToAgrees
    <2> QED  BY <2>3, <2>4, StepVia
  <1>7. IsRun(b, v, H, r) /\ r[Len(v)] \in b.final
    BY <1>0, <1>1, <1>2, <1>4, <1>5, <1>6 DEF IsRun
  <1>8. Accepts(b, v, {WILD})
    BY <1>0, <1>1, <1>7, AcceptsRun
  <1>9. v \in AllWords
    <2>1. Len(v) <= MaxLength
      BY <1>0, AlphabetAssumption
    <2> QED  BY <1>0, <2>1, AllWordsAre
  <1> QED  BY <1>8, <1>9, WordsAre

LEMMA StarLast ==
    ASSUME NEW n, Sound(n), Marked(n), NEW b, IsStar(b, n),
           NEW w, NEW H, NEW a, NEW v, NEW u, Cut(w, H, a, v, u), a < Len(w), Len(w) <= MaxLength,
           NEW s, IsRun(b, w, H, s), s[Len(w)] = starStart, Bound(n, b, w, H, s, a),
           \A j \in (a + 1)..(Len(w) - 1) : ~Bound(n, b, w, H, s, j)
    PROVE  u \in Words(n)
  <1> DEFINE M == Len(u)
             G == After(H, a, M)
             d == [i \in 0..M |-> s[a + i][1]]
  <1>0. /\ a \in Nat /\ M \in Nat /\ w \in Seq(Positions) /\ IsHeight(w, H) /\ u \in Seq(Positions) /\ IsHeight(u, G)
        /\ Len(w) = a + M
        /\ \A k \in 1..M : w[a + k] = u[k] /\ a + k \in 1..Len(w)
    BY DEF Cut
  <1>1. M > 0 /\ M \in 1..M /\ M - 1 \in Nat
    BY <1>0
  <1>2. \A i \in 0..M : d[i] = s[a + i][1]
    OBVIOUS
  <1> HIDE DEF M, G, d
  <1>3. WellFormed(n) /\ IsFiniteSet(n.states) /\ \A q \in n.states, k \in Sides : <<q, k>> # starStart
    BY DEF Sound, Finite, Marked
  (* Every position but the last stands on the side of its open calls. *)
  <1> DEFINE Good(i) == s[a + i] = <<d[i], SideAt(G, i)>> /\ d[i] \in n.states
             T == {k \in Nat : k < M /\ \A i \in 0..k : Good(i)}
  <1>4. ASSUME NEW k \in 1..M, \A i \in 0..(k - 1) : Good(i)
        PROVE  \E g : StepTo(b, w, H, s, a + k, <<g, SideAt(G, k)>>) /\ s[a + k] \in epsilonClosure(b, <<g, SideAt(G, k)>>)
                      /\ StepTo(n, u, G, d, k, g) /\ g \in n.states
    <2>1. RunStep(b, w, H, s, a + k)
      BY <1>0 DEF IsRun
    <2>2. PICK y : StepTo(b, w, H, s, a + k, y) /\ s[a + k] \in epsilonClosure(b, y)
      BY <2>1, StepVia
    <2>3. Sided(s, a, d, G, k - 1)
      BY <1>4 DEF Sided
    <2>4. PICK g : y = <<g, SideAt(G, k)>> /\ StepTo(n, u, G, d, k, g)
      BY <2>2, <2>3, StarStepDown DEF G, M
    <2>5. g \in n.states
      BY <2>4, StepToIn
    <2> QED  BY <2>2, <2>4, <2>5
  <1>5. Good(0) /\ RunStart(n, d[0])
    <2>1. a + 1 \in 1..Len(w) /\ (a + 1) - 1 = a /\ a + 0 = a /\ 0 \in 0..M
      BY <1>0, <1>1
    <2>2. PICK y : StepTo(b, w, H, s, a + 1, y)
      BY <2>1, StepVia DEF IsRun
    <2>3. StarStep(n, b, w, H, s, a + 1, y)
      BY <1>0, <2>1, <2>2, StarStepIs
    <2>4. s[a] # starStart
      BY <1>3, <2>1, <2>3 DEF StarStep
    <2>5. PICK q : RunStart(n, q) /\ s[a] = <<q, prime>>
      BY <2>4 DEF Bound, StarOpen
    <2>6. d[0] = q /\ SideAt(G, 0) = prime
      BY <1>2, <2>1, <2>5, InsideNone DEF SideAt
    <2>7. q \in n.states
      BY <1>3, <2>5, ClosureFacts, StatesOf DEF RunStart
    <2> QED  BY <2>1, <2>5, <2>6, <2>7
  <1>6. 0 \in T
    <2>1. \A i \in 0..0 : i = 0
      OBVIOUS
    <2> HIDE DEF Good
    <2> QED  BY <1>1, <1>5, <2>1
  <1>7. ASSUME NEW k \in 1..(M - 1), NEW g \in n.states,
               StepTo(b, w, H, s, a + k, <<g, SideAt(G, k)>>), s[a + k] \in epsilonClosure(b, <<g, SideAt(G, k)>>)
        PROVE  s[a + k] = <<d[k], SideAt(G, k)>> /\ d[k] \in epsilonClosure(n, g)
    <2>0. k \in 0..M /\ a + k \in (a + 1)..(Len(w) - 1) /\ a + k > 0 /\ SideAt(G, k) \in Sides
      BY <1>0, <1>1 DEF SideAt, Sides
    <2>1. ~Bound(n, b, w, H, s, a + k)
      BY <2>0
    <2>2. StarOn(n, g, SideAt(G, k), s[a + k])
      BY <1>7, <2>0, StarClosure
    <2>3. ~(MayEnd(n, g) /\ StarOpen(n, s[a + k]))
      <3>1. ASSUME MayEnd(n, g), StarOpen(n, s[a + k]) PROVE FALSE
        <4>1. StarOn(n, g, SideAt(G, k), starStart)
          BY <3>1 DEF StarOn, StarOpen
        <4>2. starStart \in epsilonClosure(b, <<g, SideAt(G, k)>>)
          BY <2>0, <4>1, StarClosure
        <4> QED  BY <1>7, <2>1, <3>1, <4>2 DEF Bound
      <3> QED  BY <3>1
    <2>4. PICK q \in epsilonClosure(n, g) : s[a + k] = <<q, SideAt(G, k)>>
      BY <2>2, <2>3 DEF StarOn
    <2>5. d[k] = q
      BY <1>2, <2>0, <2>4
    <2> QED  BY <2>4, <2>5
  <1>8. ASSUME NEW k \in 1..(M - 1), k - 1 \in T PROVE k \in T
    <2>0. k \in 1..M /\ k \in Nat /\ k < M /\ \A i \in 0..k : i \in 0..(k - 1) \/ i = k
      BY <1>0
    <2>1. \A i \in 0..(k - 1) : Good(i)
      BY <1>8
    <2>2. Good(k)
      <3>1. PICK g : StepTo(b, w, H, s, a + k, <<g, SideAt(G, k)>>) /\ s[a + k] \in epsilonClosure(b, <<g, SideAt(G, k)>>)
                     /\ g \in n.states
        BY <1>4, <2>0, <2>1
      <3>2. s[a + k] = <<d[k], SideAt(G, k)>> /\ d[k] \in epsilonClosure(n, g)
        BY <1>7, <3>1
      <3> QED  BY <1>3, <3>1, <3>2, ClosureFacts
    <2> HIDE DEF Good
    <2> QED  BY <2>0, <2>1, <2>2
  <1>9. \A i \in 0..(M - 1) : Good(i)
    <2>1. 0..(M - 1) \subseteq T
      <3> HIDE DEF T
      <3> QED  BY <1>1, <1>6, <1>8, UpTo
    <2>2. M - 1 \in T
      BY <1>1, <2>1
    <2> HIDE DEF Good
    <2> QED  BY <2>2
  (* The last step goes on to a final state. *)
  <1>10. PICK g : s[a + M] \in epsilonClosure(b, <<g, SideAt(G, M)>>) /\ StepTo(n, u, G, d, M, g) /\ g \in n.states
    <2> HIDE DEF Good
    <2> QED  BY <1>1, <1>4, <1>9
  <1>11. MayEnd(n, g)
    <2>1. SideAt(G, M) \in Sides
      BY DEF SideAt, Sides
    <2>2. StarOn(n, g, SideAt(G, M), starStart)
      BY <1>0, <1>10, <2>1, StarClosure
    <2>3. \A f \in epsilonClosure(n, g) : <<f, SideAt(G, M)>> # starStart
      BY <1>3, <1>10, <2>1, ClosureFacts
    <2> QED  BY <2>2, <2>3 DEF StarOn
  <1>12. PICK f \in n.final : f \in epsilonClosure(n, g)
    BY <1>11 DEF MayEnd
  <1> DEFINE z == [i \in 0..M |-> IF i = M THEN f ELSE d[i]]
  <1>13. z[M] = f /\ \A i \in 0..(M - 1) : z[i] = d[i]
    <2>1. M \in 0..M /\ \A i \in 0..(M - 1) : i \in 0..M /\ i # M
      BY <1>0
    <2> QED  BY <2>1
  <1> HIDE DEF z
  <1>14. \A i \in 0..M : z[i] \in n.states
    <2>1. \A i \in 0..M : i = M \/ i \in 0..(M - 1)
      BY <1>0
    <2> QED  BY <1>9, <1>13, <2>1, StatesOf
  <1>15. RunStart(n, z[0])
    <2>1. 0 \in 0..(M - 1)
      BY <1>1
    <2> QED  BY <1>5, <1>13, <2>1
  <1>16. ASSUME NEW k \in 1..M PROVE RunStep(n, u, G, z, k)
    <2>0. k \in Nat /\ k > 0
      BY <1>0
    <2>1. Agree(d, z, k - 1)
      <3>1. \A i \in 0..(k - 1) : i \in 0..(M - 1)
        BY <1>0
      <3> QED  BY <1>13, <3>1 DEF Agree
    <2>2. \E y : StepTo(n, u, G, d, k, y) /\ z[k] \in epsilonClosure(n, y)
      <3>1. CASE k = M
        BY <1>10, <1>12, <1>13, <3>1
      <3>2. CASE k # M
        <4>1. k \in 1..(M - 1) /\ k \in 0..(M - 1) /\ \A i \in 0..(k - 1) : i \in 0..(M - 1)
          BY <1>0, <3>2
        <4>2. \A i \in 0..(k - 1) : Good(i)
          <5> HIDE DEF Good
          <5> QED  BY <1>9, <4>1
        <4>3. PICK y : StepTo(b, w, H, s, a + k, <<y, SideAt(G, k)>>) /\ s[a + k] \in epsilonClosure(b, <<y, SideAt(G, k)>>)
                       /\ StepTo(n, u, G, d, k, y) /\ y \in n.states
          <5> HIDE DEF Good
          <5> QED  BY <1>4, <4>2
        <4>4. d[k] \in epsilonClosure(n, y)
          BY <1>7, <4>1, <4>3
        <4> QED  BY <1>13, <4>1, <4>3, <4>4
      <3> QED  BY <3>1, <3>2
    <2>3. PICK y : StepTo(n, u, G, d, k, y) /\ z[k] \in epsilonClosure(n, y)
      BY <2>2
    <2>4. StepTo(n, u, G, z, k, y)
      BY <2>0, <2>1, <2>3, StepToAgrees
    <2> QED  BY <2>3, <2>4, StepVia
  <1>17. IsRun(n, u, G, z) /\ z[Len(u)] \in n.final
    BY <1>13, <1>14, <1>15, <1>16 DEF IsRun, M
  <1>18. Accepts(n, u, {WILD})
    BY <1>0, <1>17, AcceptsRun DEF Sound
  <1>19. u \in AllWords
    <2>1. Len(u) <= MaxLength
      BY <1>0, AlphabetAssumption DEF M
    <2> QED  BY <1>0, <2>1, AllWordsAre
  <1> QED  BY <1>18, <1>19, WordsAre

LEMMA StarApart ==
    ASSUME NEW n, Sound(n), Marked(n), NEW b, IsStar(b, n), NEW w \in Words(b), Len(w) > 0
    PROVE  \E v \in Words(b), u \in Words(n) : w = v \o u /\ Len(v) < Len(w)
  <1> DEFINE N == Len(w)
  <1>1. w \in AllWords /\ w \in Seq(Positions) /\ N <= MaxLength /\ Accepts(b, w, {WILD}) /\ N \in Nat
    BY WordsAre, AllWordsAre, WordTyped
  <1>2. PICK H : IsHeight(w, H)
    BY <1>1, HeightExists
  <1>3. Finite(b) /\ starStart \in b.states
    BY DEF IsStar
  <1>4. PICK s : IsRun(b, w, H, s) /\ s[N] \in b.final
    BY <1>1, <1>2, <1>3, AcceptsRun
  <1>5. s[N] = starStart
    BY <1>4 DEF IsStar
  <1> HIDE DEF N
  <1>6. Bound(n, b, w, H, s, 0)
    <2>1. RunStart(b, s[0])
      BY <1>4 DEF IsRun
    <2>2. s[0] \in epsilonClosure(b, starStart)
      BY <2>1 DEF RunStart, IsStar
    <2>3. StarOpen(n, s[0])
      BY <2>2, StarAtStart
    <2> QED  BY <2>3 DEF Bound
  <1>7. PICK a \in 0..(N - 1) : Bound(n, b, w, H, s, a) /\ \A j \in (a + 1)..(N - 1) : ~Bound(n, b, w, H, s, j)
    <2> DEFINE D == {x \in Nat : x < N /\ Bound(n, b, w, H, s, N - 1 - x)}
    <2>0. N > 0
      BY DEF N
    <2>1. N - 1 \in D
      <3>1. N - 1 \in Nat /\ N - 1 < N /\ N - 1 - (N - 1) = 0
        BY <1>1, <2>0
      <3> QED  BY <1>6, <3>1
    <2>2. PICK x \in D : \A y \in D : x <= y
      <3>1. D \subseteq Nat /\ D # {}
        BY <2>1
      <3> HIDE DEF D
      <3> QED  BY <3>1, LeastNat
    <2>3. N - 1 - x \in 0..(N - 1) /\ Bound(n, b, w, H, s, N - 1 - x) /\ x \in Nat
      BY <1>1
    <2>4. ASSUME NEW j \in ((N - 1 - x) + 1)..(N - 1), Bound(n, b, w, H, s, j) PROVE FALSE
      <3> DEFINE y == N - 1 - j
      <3>1. y \in Nat /\ y < N /\ y < x /\ N - 1 - y = j
        BY <1>1, <2>3
      <3>2. y \in D
        BY <2>4, <3>1
      <3> QED  BY <2>2, <2>3, <3>1, <3>2
    <2> QED  BY <2>3, <2>4
  <1>8. a \in 0..Len(w) /\ a < Len(w) /\ Len(w) <= MaxLength
    BY <1>1 DEF N
  <1>9. PICK v, u : Cut(w, H, a, v, u)
    BY <1>1, <1>2, <1>8, CutAt
  <1>10. v \in Words(b)
    BY <1>4, <1>7, <1>8, <1>9, StarPrefix
  <1>11. u \in Words(n)
    BY <1>4, <1>5, <1>7, <1>8, <1>9, StarLast DEF N
  <1>12. w = v \o u /\ Len(v) = a
    BY <1>9 DEF Cut
  <1> QED  BY <1>8, <1>10, <1>11, <1>12

LEMMA StarNothing ==
    ASSUME NEW n, NEW b, IsStar(b, n)
    PROVE  <<>> \in Words(b)
  <1>1. <<>> \in Seq(Positions) /\ Len(<<>>) = 0 /\ 0 <= MaxLength
    BY AlphabetAssumption
  <1>2. PICK H : IsHeight(<<>>, H)
    BY <1>1, HeightExists
  <1> DEFINE s == [k \in 0..0 |-> starStart]
  <1>3. Finite(b) /\ starStart \in b.states /\ starStart \in b.initial /\ starStart \in b.final
    BY DEF IsStar
  <1>4. s[0] = starStart /\ \A k \in 0..0 : s[k] = starStart
    OBVIOUS
  <1> HIDE DEF s
  <1>5. RunStart(b, starStart)
    BY <1>3, ClosureFacts DEF RunStart, Finite
  <1>6. \A k \in 1..0 : RunStep(b, <<>>, H, s, k)
    OBVIOUS
  <1>7. IsRun(b, <<>>, H, s)
    BY <1>1, <1>3, <1>4, <1>5, <1>6 DEF IsRun
  <1>8. Accepts(b, <<>>, {WILD})
    BY <1>1, <1>2, <1>3, <1>4, <1>7, AcceptsRun
  <1> QED  BY <1>1, <1>8, AllWordsAre, WordsAre

LEMMA StarTogether ==
    ASSUME NEW n, Sound(n), Marked(n), NEW b, IsStar(b, n),
           NEW v \in Words(b), NEW u \in Words(n), v \o u \in AllWords
    PROVE  v \o u \in Words(b)
  <1> DEFINE w == v \o u
             a == Len(v)
             M == Len(u)
  <1>1. v \in Seq(Positions) /\ u \in Seq(Positions) /\ Accepts(b, v, {WILD}) /\ Accepts(n, u, {WILD}) /\ w \in Seq(Positions)
    BY WordsAre, AllWordsAre
  <1>2. CASE u = <<>>
    <2>1. v \o u = v
      BY <1>1, <1>2, ConcatEmptySeq
    <2> QED  BY <2>1
  <1>3. CASE u # <<>>
    <2>1. PICK H : IsHeight(w, H)
      BY <1>1, HeightExists
    <2>2. Cut(w, H, a, v, u)
      <3>1. Parts(w, H, v, u)
        BY <1>1, <2>1 DEF Parts
      <3> HIDE DEF w
      <3> QED  BY <3>1, PartsCut
    <2> DEFINE G == After(H, a, M)
    <2>3. /\ a \in Nat /\ M \in Nat /\ Len(w) = a + M /\ IsHeight(v, H) /\ IsHeight(u, G) /\ IsHeight(w, H) /\ w \in Seq(Positions)
          /\ \A k \in 1..a : w[k] = v[k] /\ k \in 1..Len(w)
          /\ \A k \in 1..M : w[a + k] = u[k] /\ a + k \in 1..Len(w)
      <3> HIDE DEF w
      <3> QED  BY <2>2 DEF Cut
    <2>4. M > 0
      <3>1. Len(u) # 0
        BY <1>1, <1>3
      <3> QED  BY <2>3, <3>1
    <2>5. Finite(n) /\ Finite(b) /\ starStart \in b.states /\ starStart \in b.final
          /\ \A q \in n.states, k \in Sides : <<q, k>> \in b.states
      BY DEF Sound, IsStar
    <2>6. PICK t : IsRun(b, v, H, t) /\ t[a] \in b.final
      <3> HIDE DEF w
      <3> QED  BY <1>1, <2>3, <2>5, AcceptsRun
    <2>7. t[a] = starStart
      BY <2>6 DEF IsStar
    <2>8. PICK z : IsRun(n, u, G, z) /\ z[M] \in n.final
      <3> HIDE DEF G
      <3> QED  BY <1>1, <2>3, <2>5, AcceptsRun
    <2> DEFINE N == a + M
               s == [k \in 0..N |-> IF k < a THEN t[k] ELSE IF k = N THEN starStart ELSE <<z[k - a], SideAt(G, k - a)>>]
    <2> HIDE DEF w, a, M, G
    <2>9. /\ \A k \in 0..(a - 1) : s[k] = t[k] /\ k \in 0..N
          /\ \A k \in 0..(M - 1) : s[a + k] = <<z[k], SideAt(G, k)>> /\ a + k \in 0..N
          /\ s[N] = starStart /\ N \in 0..N
      <3>1. \A k \in 0..(a - 1) : k \in 0..N /\ k < a
        BY <2>3
      <3>2. \A k \in 0..(M - 1) : a + k \in 0..N /\ ~(a + k < a) /\ a + k # N /\ (a + k) - a = k
        BY <2>3
      <3>3. N \in 0..N /\ ~(N < a)
        BY <2>3
      <3> QED  BY <3>1, <3>2, <3>3
    <2>10. \A k \in 0..N : s[k] \in b.states
      <3>1. \A k \in 0..a : t[k] \in b.states
        BY <2>6 DEF IsRun, a
      <3>2. \A k \in 0..M : z[k] \in n.states
        BY <2>8 DEF IsRun, M
      <3>3. \A k : SideAt(G, k) \in Sides
        BY DEF SideAt, Sides
      <3>4. ASSUME NEW k \in 0..N PROVE s[k] \in b.states
        <4>1. CASE k < a
          BY <2>3, <3>1, <4>1
        <4>2. CASE k = N
          BY <2>5, <2>9, <4>2
        <4>3. CASE ~(k < a) /\ k # N
          <5>1. k - a \in 0..M
            BY <2>3, <4>3
          <5> QED  BY <2>5, <3>2, <3>3, <4>3, <5>1
        <4> QED  BY <4>1, <4>2, <4>3
      <3> QED  BY <3>4
    <2> HIDE DEF s
    (* The iteration starts where v ends. *)
    <2>11. s[a] \in epsilonClosure(b, starStart)
      <3>1. 0 \in 0..(M - 1) /\ a + 0 = a
        BY <2>3, <2>4
      <3>2. s[a] = <<z[0], prime>>
        BY <2>9, <3>1, InsideNone DEF SideAt
      <3>3. RunStart(n, z[0])
        BY <2>8 DEF IsRun
      <3> QED  BY <3>2, <3>3, StarAtStart DEF StarOpen
    <2>12. \A x \in b.states : starStart \in epsilonClosure(b, x) => s[a] \in epsilonClosure(b, x)
      <3>1. ASSUME NEW x \in b.states, starStart \in epsilonClosure(b, x) PROVE s[a] \in epsilonClosure(b, x)
        <4>1. EpsClosed(b, epsilonClosure(b, x))
          BY <2>5, ClosureFacts DEF Finite
        <4> QED  BY <2>5, <2>11, <3>1, <4>1, ClosureFacts DEF Finite
      <3> QED  BY <3>1
    <2>13. ASSUME NEW k \in 0..a, NEW x \in b.states, t[k] \in epsilonClosure(b, x) PROVE s[k] \in epsilonClosure(b, x)
      <3>1. CASE k = a
        BY <2>7, <2>12, <2>13, <3>1
      <3>2. CASE k # a
        <4>1. k \in 0..(a - 1)
          BY <2>3, <3>2
        <4> QED  BY <2>9, <2>13, <4>1
      <3> QED  BY <3>1, <3>2
    <2>14. RunStart(b, s[0])
      <3>1. PICK i \in b.initial : t[0] \in epsilonClosure(b, i)
        BY <2>6 DEF IsRun, RunStart
      <3>2. i \in b.states /\ 0 \in 0..a
        BY <2>3, <2>5, TransEnds DEF Finite
      <3> QED  BY <2>13, <3>1, <3>2 DEF RunStart
    <2>15. ASSUME NEW k \in 1..a PROVE RunStep(b, w, H, s, k)
      <3>0. k \in Nat /\ k > 0 /\ k \in 0..a
        BY <2>3
      <3>1. PICK y : StepTo(b, v, H, t, k, y) /\ t[k] \in epsilonClosure(b, y)
        BY <2>6, StepVia DEF IsRun, a
      <3>2. Agree(t, s, k - 1)
        <4>1. \A i \in 0..(k - 1) : i \in 0..(a - 1)
          BY <2>3
        <4> QED  BY <2>9, <4>1 DEF Agree
      <3>3. StepTo(b, w, H, s, k, y)
        BY <2>3, <3>0, <3>1, <3>2, StepToAgrees
      <3>4. y \in b.states
        BY <2>5, <3>1, TransEnds DEF StepTo, EdgeTo, ReturnTo, Finite
      <3>5. s[k] \in epsilonClosure(b, y)
        BY <2>13, <3>0, <3>1, <3>4
      <3> QED  BY <3>3, <3>5, StepVia
    <2>16. ASSUME NEW k \in 1..M PROVE RunStep(b, w, H, s, a + k)
      <3>1. PICK g : StepTo(n, u, G, z, k, g) /\ z[k] \in epsilonClosure(n, g)
        BY <2>8, StepVia DEF IsRun, M
      <3>2. Sided(s, a, z, G, k - 1)
        <4>1. \A i \in 0..(k - 1) : i \in 0..(M - 1)
          BY <2>3
        <4> QED  BY <2>9, <4>1 DEF Sided
      <3>3. \A i \in 0..((a + k) - 1) : s[i] \in b.states
        <4>1. \A i \in 0..((a + k) - 1) : i \in 0..N
          BY <2>3
        <4> QED  BY <2>10, <4>1
      <3>4. StepTo(b, w, H, s, a + k, <<g, SideAt(G, k)>>)
        BY <2>2, <3>1, <3>2, <3>3, StarStepUp DEF G, M
      <3>5. g \in n.states /\ SideAt(G, k) \in Sides
        BY <3>1, StepToIn DEF SideAt, Sides
      <3>6. StarOn(n, g, SideAt(G, k), s[a + k])
        <4>1. CASE k = M
          <5>1. MayEnd(n, g)
            BY <2>8, <3>1, <4>1 DEF MayEnd
          <5>2. s[a + k] = starStart
            BY <2>9, <4>1
          <5> QED  BY <5>1, <5>2 DEF StarOn, StarOpen
        <4>2. CASE k # M
          <5>1. k \in 0..(M - 1)
            BY <2>3, <4>2
          <5> QED  BY <2>9, <3>1, <5>1 DEF StarOn
        <4> QED  BY <4>1, <4>2
      <3>7. s[a + k] \in epsilonClosure(b, <<g, SideAt(G, k)>>)
        BY <3>5, <3>6, StarClosure
      <3> QED  BY <3>4, <3>7, StepVia
    <2>17. ASSUME NEW k \in 1..N PROVE RunStep(b, w, H, s, k)
      <3>1. CASE k <= a
        <4>1. k \in 1..a
          BY <2>3, <3>1
        <4> QED  BY <2>15, <4>1
      <3>2. CASE k > a
        <4> DEFINE i == k - a
        <4>1. i \in 1..M /\ k = a + i
          BY <2>3, <3>2
        <4> HIDE DEF i
        <4> QED  BY <2>16, <4>1
      <3>3. k <= a \/ k > a
        BY <2>3
      <3> QED  BY <3>1, <3>2, <3>3
    <2>18. IsRun(b, w, H, s) /\ s[Len(w)] \in b.final
      BY <2>3, <2>5, <2>9, <2>10, <2>14, <2>17 DEF IsRun
    <2>19. Accepts(b, w, {WILD})
      BY <2>3, <2>5, <2>18, AcceptsRun
    <2> QED  BY <2>19, WordsAre DEF w
  <1> QED  BY <1>2, <1>3

(* What the rounds of Closure come to. *)
RepRound(W, V) == V \cup Catenations(V, W)
RepRounds(W) == [V \in SUBSET Seq(Positions) |-> RepRound(W, V)]
RepIterates(W, f) ==
    f = [V \in SUBSET Seq(Positions) |-> IF RepRound(W, V) = V THEN V ELSE f[RepRound(W, V)]]

JoinOf(v, u) == v \o u
LEMMA Joining ==
    ASSUME NEW V, NEW W, NEW x, Short(x), \E v \in V, u \in W : x = v \o u
    PROVE  x \in Catenations(V, W)
  <1> DEFINE J == {JoinOf(v, u) : v \in V, u \in W}
  <1>1. \E v \in V, u \in W : x = JoinOf(v, u)
    BY DEF JoinOf
  <1>2. x \in J
    BY <1>1
  <1>3. Catenations(V, W) = {w \in J : Short(w)}
    BY DEF Catenations, JoinOf
  <1> HIDE DEF J
  <1> QED  BY <1>2, <1>3

LEMMA CatenationsGrow ==
    ASSUME NEW V, NEW U, V \subseteq U, NEW W
    PROVE  Catenations(V, W) \subseteq Catenations(U, W)
  <1>1. ASSUME NEW x \in Catenations(V, W) PROVE x \in Catenations(U, W)
    <2>1. PICK v \in V, u \in W : x = v \o u
      BY DEF Catenations
    <2>2. Short(x)
      BY DEF Catenations
    <2>3. \E y \in U, z \in W : x = y \o z
      BY <2>1
    <2> QED  BY <2>2, <2>3, Joining
  <1> QED  BY <1>1

LEMMA RepIterated ==
    ASSUME NEW W, W \subseteq Seq(Positions)
    PROVE  \E f : RepIterates(W, f) /\ Closure(W) = f[{<<>>}]
  <1> DEFINE S == Seq(Positions)
             R == RepRounds(W)
             from == CHOOSE f : RepIterates(W, f)
  <1>1. \A V \in SUBSET S : RepRound(W, V) \in SUBSET S
    <2>1. ASSUME NEW V \in SUBSET S, NEW x \in Catenations(V, W) PROVE x \in S
      <3>1. PICK v \in V, u \in W : x = v \o u
        BY DEF Catenations
      <3>2. v \in S /\ u \in S
        BY <2>1
      <3> QED  BY <3>1, <3>2, ConcatProperties
    <2> QED  BY <2>1 DEF RepRound
  <1>2. \A V \in SUBSET S : V \subseteq RepRound(W, V)
    BY DEF RepRound
  <1>3. \A V \in SUBSET S, U \in SUBSET S : V \subseteq U => RepRound(W, V) \subseteq RepRound(W, U)
    BY CatenationsGrow DEF RepRound
  <1>4. \A V \in SUBSET S : R[V] = RepRound(W, V)
    BY DEF RepRounds
  <1>5. R \in [SUBSET S -> SUBSET S]
    BY <1>1 DEF RepRounds
  <1> HIDE DEF S, R
  <1>6. Adds(R, S)
    BY <1>2, <1>3, <1>4, <1>5 DEF Adds
  <1>7. PICK f : Iterates(f, R, S)
    BY <1>6, RoundsExist
  <1>8. RepIterates(W, f)
    <2>1. f = [V \in SUBSET S |-> IF RepRound(W, V) = V THEN V ELSE f[RepRound(W, V)]]
      BY <1>4, <1>7 DEF Iterates
    <2> QED  BY <2>1 DEF RepIterates, S
  <1>9. RepIterates(W, from)
    BY <1>8
  <1>10. Closure(W) = from[{<<>>}]
    BY DEF Closure, Fix, RepIterates, RepRound
  <1> QED  BY <1>9, <1>10

(* A set of words that grow out of shorter ones is what they come to. *)
LEMMA ClosureIs ==
    ASSUME NEW W, W \subseteq Seq(Positions), NEW X, X \subseteq AllWords, <<>> \in X, Catenations(X, W) \subseteq X,
           \A w \in X : Len(w) > 0 => \E v \in X, u \in W : w = v \o u /\ Len(v) < Len(w)
    PROVE  X = Closure(W)
  <1> DEFINE S == Seq(Positions)
  <1>1. PICK f : RepIterates(W, f) /\ Closure(W) = f[{<<>>}]
    BY RepIterated
  <1>2. X \subseteq S /\ MaxLength \in Nat /\ \A w \in X : Len(w) \in Nat /\ Len(w) <= MaxLength
    BY AllWordsAre, AlphabetAssumption
  <1>3. \A V \in SUBSET X : f[V] = IF RepRound(W, V) = V THEN V ELSE f[RepRound(W, V)]
    <2>1. \A V \in SUBSET X : V \in SUBSET S
      BY <1>2
    <2> QED  BY <1>1, <2>1 DEF RepIterates
  <1>4. \A V \in SUBSET X : V \subseteq RepRound(W, V) /\ RepRound(W, V) \in SUBSET X
    BY CatenationsGrow DEF RepRound
  <1> DEFINE Covers(V, k) == \A w \in X : Len(w) + k <= MaxLength => w \in V
             U == {k \in Nat : \A V \in SUBSET X : <<>> \in V /\ Covers(V, k) => f[V] = X}
  <1>5. 0 \in U
    <2>1. ASSUME NEW V \in SUBSET X, Covers(V, 0) PROVE f[V] = X
      <3>1. V = X
        <4>1. \A w \in X : Len(w) + 0 <= MaxLength
          BY <1>2
        <4> QED  BY <2>1, <4>1
      <3>2. RepRound(W, V) = V
        BY <1>4, <3>1
      <3> QED  BY <1>3, <3>1, <3>2
    <2> QED  BY <2>1
  <1>6. ASSUME NEW k \in Nat, k \in U PROVE k + 1 \in U
    <2>1. ASSUME NEW V \in SUBSET X, <<>> \in V, Covers(V, k + 1) PROVE f[V] = X
      <3> DEFINE V2 == RepRound(W, V)
      <3>1. ASSUME NEW w \in X, Len(w) + k <= MaxLength PROVE w \in V2
        <4>1. CASE Len(w) = 0
          <5>1. w = <<>>
            BY <1>2, <4>1, EmptySeq
          <5> QED  BY <1>4, <2>1, <5>1
        <4>2. CASE Len(w) # 0
          <5>1. Len(w) > 0
            BY <1>2, <4>2
          <5>2. PICK v \in X, u \in W : w = v \o u /\ Len(v) < Len(w)
            BY <5>1
          <5>3. Len(v) + (k + 1) <= MaxLength
            BY <1>2, <3>1, <5>2
          <5>4. v \in V
            BY <2>1, <5>3
          <5>5. w \in Catenations(V, W)
            <6>1. Short(w)
              BY <1>2 DEF Short
            <6>2. \E y \in V, x \in W : w = y \o x
              BY <5>2, <5>4
            <6> QED  BY <6>1, <6>2, Joining
          <5> QED  BY <5>5 DEF RepRound
        <4> QED  BY <4>1, <4>2
      <3>2. V2 \in SUBSET X /\ <<>> \in V2 /\ Covers(V2, k)
        BY <1>4, <2>1, <3>1
      <3>3. f[V2] = X
        BY <1>6, <3>2
      <3>4. f[V] = IF V2 = V THEN V ELSE f[V2]
        BY <1>3
      <3> QED  BY <3>3, <3>4
    <2> QED  BY <2>1
  <1>7. Nat \subseteq U
    <2> HIDE DEF U
    <2> QED  BY <1>5, <1>6, NatInd
  <1>8. MaxLength + 1 \in U
    <2>1. MaxLength + 1 \in Nat
      BY <1>2
    <2> HIDE DEF U
    <2> QED  BY <1>7, <2>1
  <1>9. {<<>>} \in SUBSET X /\ <<>> \in {<<>>} /\ Covers({<<>>}, MaxLength + 1)
    <2>1. \A w \in X : ~(Len(w) + (MaxLength + 1) <= MaxLength)
      BY <1>2
    <2> QED  BY <2>1
  <1>10. f[{<<>>}] = X
    BY <1>8, <1>9
  <1> QED  BY <1>1, <1>10

LEMMA StarWords ==
    ASSUME NEW n, Sound(n), Marked(n)
    PROVE  Words(star(n)) = Closure(Words(n))
  <1> DEFINE b == star(n)
             X == Words(b)
             W == Words(n)
  <1>1. IsStar(b, n)
    BY StarFields
  <1> HIDE DEF b
  <1>2. W \subseteq Seq(Positions) /\ X \subseteq AllWords /\ X \subseteq Seq(Positions)
    BY WordsAre, AllWordsAre
  <1>3. <<>> \in X
    BY <1>1, StarNothing
  <1>4. Catenations(X, W) \subseteq X
    <2>1. ASSUME NEW w \in Catenations(X, W) PROVE w \in X
      <3>1. PICK v \in X, u \in W : w = v \o u
        BY DEF Catenations
      <3>2. Len(w) <= MaxLength
        BY DEF Catenations, Short
      <3>3. w \in AllWords
        <4>1. v \in Seq(Positions) /\ u \in Seq(Positions)
          BY <1>2
        <4>2. w \in Seq(Positions)
          BY <3>1, <4>1, ConcatProperties
        <4> QED  BY <3>2, <4>2, AllWordsAre
      <3> QED  BY <1>1, <3>1, <3>3, StarTogether
    <2> QED  BY <2>1
  <1>5. \A w \in X : Len(w) > 0 => \E v \in X, u \in W : w = v \o u /\ Len(v) < Len(w)
    BY <1>1, StarApart
  <1> HIDE DEF X, W
  <1>6. X = Closure(W)
    BY <1>2, <1>3, <1>4, <1>5, ClosureIs
  <1> QED  BY <1>6 DEF X, W, b

-----------------------------------------------------------------------------
(* Mirrored words: calls and returns trade places. *)
FlipOf(w) == Reverse([i \in DOMAIN w |-> Flip(w[i])])
IsMirror(w, v) ==
    /\ w \in Seq(Positions) /\ v \in Seq(Positions) /\ Len(v) = Len(w)
    /\ \A k \in 1..Len(w) : v[k] = Flip(w[(Len(w) + 1) - k])

LEMMA Flipped ==
    ASSUME NEW p \in Positions
    PROVE  /\ Flip(p) \in Positions /\ Flip(p).sym = p.sym /\ Flip(Flip(p)) = p
           /\ p.kind = "call" => Flip(p).kind = "return"
           /\ p.kind = "internal" => Flip(p).kind = "internal"
           /\ p.kind = "return" => Flip(p).kind = "call"
  <1>1. PICK x \in {"call", "internal", "return"}, a \in Alphabet : p = [kind |-> x, sym |-> a]
    BY DEF Positions, Kinds
  <1> DEFINE y == CASE x = "call" -> "return" [] x = "internal" -> "internal" [] x = "return" -> "call"
  <1>2. Flip(p) = [kind |-> y, sym |-> a]
    BY <1>1 DEF Flip
  <1>3. y \in {"call", "internal", "return"}
    OBVIOUS
  <1>4. Flip([kind |-> y, sym |-> a]) = p
    BY <1>1 DEF Flip
  <1> QED  BY <1>1, <1>2, <1>3, <1>4 DEF Positions, Kinds

LEMMA MirrorIs ==
    ASSUME NEW w \in Seq(Positions)
    PROVE  IsMirror(w, FlipOf(w))
  <1> DEFINE N == Len(w)
             f == [i \in DOMAIN w |-> Flip(w[i])]
             v == FlipOf(w)
  <1>1. N \in Nat /\ DOMAIN w = 1..N /\ \A i \in 1..N : w[i] \in Positions
    OBVIOUS
  <1>2. f \in Seq(Positions) /\ Len(f) = N /\ \A i \in 1..N : f[i] = Flip(w[i])
    <2>1. f = [i \in 1..N |-> Flip(w[i])] /\ \A i \in 1..N : Flip(w[i]) \in Positions
      BY <1>1, Flipped
    <2> HIDE DEF f
    <2>2. f \in [1..N -> Positions]
      BY <2>1
    <2> QED  BY <1>1, <2>1, <2>2
  <1>3. v = [i \in 1..N |-> f[(N - i) + 1]]
    BY <1>2 DEF FlipOf, Reverse
  <1> HIDE DEF f, v, N
  <1>4. \A i \in 1..N : (N - i) + 1 = (N + 1) - i /\ (N + 1) - i \in 1..N
    BY <1>1
  <1>5. \A i \in 1..N : v[i] = Flip(w[(N + 1) - i]) /\ v[i] \in Positions
    BY <1>1, <1>2, <1>3, <1>4, Flipped
  <1>6. v \in [1..N -> Positions]
    BY <1>3, <1>5
  <1>7. v \in Seq(Positions) /\ Len(v) = N
    BY <1>1, <1>6
  <1> QED  BY <1>5, <1>7 DEF IsMirror, N, v

LEMMA MirrorBack ==
    ASSUME NEW w, NEW v, IsMirror(w, v)
    PROVE  IsMirror(v, w) /\ v = FlipOf(w)
  <1> DEFINE N == Len(w)
  <1>1. N \in Nat /\ w \in Seq(Positions) /\ v \in Seq(Positions) /\ Len(v) = N /\ \A i \in 1..N : w[i] \in Positions
    BY DEF IsMirror
  <1>2. \A k \in 1..N : v[k] = Flip(w[(N + 1) - k])
    BY DEF IsMirror
  <1> HIDE DEF N
  <1>3. \A k \in 1..N : (N + 1) - k \in 1..N /\ (N + 1) - ((N + 1) - k) = k
    BY <1>1
  <1>4. \A k \in 1..N : w[k] = Flip(v[(N + 1) - k])
    BY <1>1, <1>2, <1>3, Flipped
  <1>5. IsMirror(v, w)
    BY <1>1, <1>4 DEF IsMirror, N
  <1>6. IsMirror(w, FlipOf(w))
    BY <1>1, MirrorIs
  <1>7. FlipOf(w) \in Seq(Positions) /\ Len(FlipOf(w)) = N /\ \A k \in 1..N : FlipOf(w)[k] = v[k]
    BY <1>2, <1>6 DEF IsMirror, N
  <1>8. v = FlipOf(w)
    BY <1>1, <1>7, SeqEqual
  <1> QED  BY <1>5, <1>8

(* Heights from behind. *)
Turned(H, N) == [k \in 0..N |-> H[N - k]]
Mirror(w, v, H, G, N) ==
    /\ IsMirror(w, v) /\ IsHeight(w, H) /\ IsHeight(v, G) /\ N = Len(w)
    /\ \A k \in 0..N : G[k] = H[N - k]

LEMMA MirrorKinds ==
    ASSUME NEW w, NEW v, IsMirror(w, v), NEW k \in 1..Len(w)
    PROVE  /\ (Len(w) + 1) - k \in 1..Len(w) /\ v[k].sym = w[(Len(w) + 1) - k].sym
           /\ v[k].kind = "call" <=> w[(Len(w) + 1) - k].kind = "return"
           /\ v[k].kind = "internal" <=> w[(Len(w) + 1) - k].kind = "internal"
           /\ v[k].kind = "return" <=> w[(Len(w) + 1) - k].kind = "call"
  <1> DEFINE j == (Len(w) + 1) - k
  <1>1. Len(w) \in Nat /\ w \in Seq(Positions) /\ v[k] = Flip(w[j])
    BY DEF IsMirror
  <1>2. j \in 1..Len(w)
    BY <1>1
  <1> HIDE DEF j
  <1>3. w[j] \in Positions
    BY <1>1, <1>2
  <1>4. w[j].kind \in {"call", "internal", "return"}
    BY <1>3 DEF Positions, Kinds
  <1>5. /\ v[k].sym = w[j].sym
        /\ w[j].kind = "call" => v[k].kind = "return"
        /\ w[j].kind = "internal" => v[k].kind = "internal"
        /\ w[j].kind = "return" => v[k].kind = "call"
    BY <1>1, <1>3, Flipped
  <1>6. /\ v[k].kind = "call" <=> w[j].kind = "return"
        /\ v[k].kind = "internal" <=> w[j].kind = "internal"
        /\ v[k].kind = "return" <=> w[j].kind = "call"
    BY <1>4, <1>5
  <1> QED  BY <1>2, <1>5, <1>6 DEF j

Flips(x, y) ==
    /\ x.sym = y.sym
    /\ x.kind = "call" <=> y.kind = "return"
    /\ x.kind = "internal" <=> y.kind = "internal"
    /\ x.kind = "return" <=> y.kind = "call"
LEMMA KindsFlip ==
    ASSUME NEW w, NEW v, IsMirror(w, v), NEW N, N = Len(w), NEW k \in 1..N
    PROVE  Flips(v[k], w[(N + 1) - k])
  <1>1. k \in 1..Len(w)
    OBVIOUS
  <1>2. Flips(v[k], w[(Len(w) + 1) - k])
    BY <1>1, MirrorKinds DEF Flips
  <1> QED  BY <1>2

LEMMA MirrorHeight ==
    ASSUME NEW w, NEW v, IsMirror(w, v), NEW H, IsHeight(w, H)
    PROVE  Mirror(w, v, H, Turned(H, Len(w)), Len(w))
  <1> DEFINE N == Len(w)
             G == Turned(H, N)
  <1>1. N \in Nat /\ Len(v) = N /\ w \in Seq(Positions)
    BY DEF IsMirror
  <1>2. \A k \in 0..N : G[k] = H[N - k]
    BY DEF Turned
  <1> HIDE DEF G, N
  <1>3. \A k \in 0..N : N - k \in 0..N /\ H[N - k] \in Int
    <2>1. \A k \in 0..N : N - k \in 0..N
      BY <1>1
    <2> QED  BY <2>1 DEF IsHeight, N
  <1>4. ASSUME NEW k \in 1..N
        PROVE  /\ v[k].kind = "call" => G[k] = G[k - 1] + 1
               /\ v[k].kind = "internal" => G[k] = G[k - 1]
               /\ v[k].kind = "return" => G[k] = G[k - 1] - 1
    <2> DEFINE j == (N + 1) - k
    <2>1. j \in 1..N /\ j - 1 = N - k /\ N - (k - 1) = j /\ k \in 0..N /\ k - 1 \in 0..N /\ j \in 0..N /\ j - 1 \in 0..N
      BY <1>1
    <2>2. G[k] = H[j - 1] /\ G[k - 1] = H[j]
      BY <1>2, <2>1
    <2>3. /\ v[k].kind = "call" => w[j].kind = "return"
          /\ v[k].kind = "internal" => w[j].kind = "internal"
          /\ v[k].kind = "return" => w[j].kind = "call"
      BY MirrorKinds DEF N
    <2> HIDE DEF j
    <2>4. H[j] \in Int /\ H[j - 1] \in Int
      BY <2>1 DEF IsHeight, N
    <2>5. /\ w[j].kind = "call" => H[j] = H[j - 1] + 1
          /\ w[j].kind = "internal" => H[j] = H[j - 1]
          /\ w[j].kind = "return" => H[j] = H[j - 1] - 1
      BY <2>1 DEF IsHeight, N
    <2> DEFINE x == H[j]
               y == H[j - 1]
    <2>6. /\ x \in Int /\ y \in Int
          /\ w[j].kind = "call" => y = x - 1
          /\ w[j].kind = "return" => y = x + 1
      <3>1. x \in Int /\ y \in Int /\ (w[j].kind = "call" => x = y + 1) /\ (w[j].kind = "return" => x = y - 1)
        BY <2>4, <2>5
      <3> HIDE DEF x, y
      <3> QED  BY <3>1
    <2> QED  BY <2>2, <2>3, <2>5, <2>6
  <1>5. IsHeight(v, G)
    BY <1>1, <1>2, <1>3, <1>4 DEF IsHeight
  <1> QED  BY <1>2, <1>5 DEF Mirror, G, N

LEMMA MirrorTurns ==
    ASSUME NEW w, NEW v, NEW H, NEW G, NEW N, Mirror(w, v, H, G, N)
    PROVE  Mirror(v, w, G, H, N)
  <1>0. IsMirror(w, v) /\ N = Len(w)
    BY DEF Mirror
  <1>1. N \in Nat /\ Len(v) = N /\ IsMirror(v, w)
    <2>1. IsMirror(v, w)
      BY <1>0, MirrorBack
    <2>2. w \in Seq(Positions) /\ Len(v) = N
      BY <1>0 DEF IsMirror
    <2> QED  BY <1>0, <2>1, <2>2
  <1>2. ASSUME NEW k \in 0..N PROVE H[k] = G[N - k]
    <2>1. N - k \in 0..N /\ N - (N - k) = k
      BY <1>1
    <2>2. G[N - k] = H[N - (N - k)]
      BY <2>1 DEF Mirror
    <2> QED  BY <2>1, <2>2
  <1> QED  BY <1>1, <1>2 DEF Mirror

LEMMA MirrorPartner ==
    ASSUME NEW w, NEW v, NEW H, NEW G, NEW N, Mirror(w, v, H, G, N),
           NEW k \in 1..N, NEW c \in 1..(k - 1), Partner(G, c, k)
    PROVE  /\ Partner(H, (N + 1) - k, (N + 1) - c)
           /\ (N + 1) - k \in 1..N /\ (N + 1) - c \in 1..N /\ (N + 1) - k \in 1..(((N + 1) - c) - 1)
  <1> DEFINE p == (N + 1) - k
             r == (N + 1) - c
  <1>1. N \in Nat /\ k \in Nat /\ c \in Nat /\ c < k /\ c \in 1..N
    BY DEF Mirror, IsMirror
  <1>2. p \in 1..N /\ r \in 1..N /\ p < r /\ p - 1 = N - k /\ r = N - (c - 1) /\ c - 1 \in 0..N /\ k \in 0..N /\ p \in 1..(r - 1)
    BY <1>1
  <1>3. \A i \in 0..N : G[i] = H[N - i]
    BY DEF Mirror
  <1>4. H[p - 1] = H[r] /\ H[r] = G[k]
    BY <1>2, <1>3 DEF Partner
  <1>5. ASSUME NEW i \in p..(r - 1) PROVE H[i] > H[r]
    <2>1. N - i \in c..(k - 1) /\ N - i \in 0..N /\ N - (N - i) = i
      BY <1>1
    <2>2. G[N - i] = H[i]
      BY <1>3, <2>1
    <2>3. G[N - i] > G[k]
      BY <2>1 DEF Partner
    <2> QED  BY <1>4, <2>2, <2>3
  <1> HIDE DEF p, r
  <1>6. Partner(H, p, r)
    BY <1>2, <1>4, <1>5 DEF Partner
  <1> QED  BY <1>2, <1>6 DEF p, r

-----------------------------------------------------------------------------
(* Words in which every call and every return has its partner. *)
AllMatched(w, H) ==
    \A k \in 1..Len(w) :
      /\ w[k].kind = "return" => \E c \in 1..(k - 1) : Partner(H, c, k)
      /\ w[k].kind = "call" => \E r \in (k + 1)..Len(w) : Partner(H, k, r)

LEMMA CallClosed ==
    ASSUME NEW w \in Seq(Positions), NEW H, IsHeight(w, H), NEW c \in 1..Len(w), w[c].kind = "call",
           ~OpenCall(H, c, Len(w))
    PROVE  \E r \in (c + 1)..Len(w) : Partner(H, c, r)
  <1> DEFINE N == Len(w)
             D == {i \in Nat : i \in c..N /\ ~(H[i] > H[c - 1])}
  <1>1. N \in Nat /\ c \in Nat /\ c >= 1 /\ c <= N /\ H[c] = H[c - 1] + 1 /\ H[c - 1] \in Int /\ \A i \in 0..N : H[i] \in Int
    BY HeightAt
  <1>2. D # {} /\ D \subseteq Nat
    <2>1. \E i \in c..N : ~(H[i] > H[c - 1])
      BY <1>1 DEF OpenCall
    <2>2. \A i \in c..N : i \in Nat
      BY <1>1
    <2> QED  BY <2>1, <2>2
  <1>3. PICK r \in D : \A y \in D : r <= y
    <2> HIDE DEF D
    <2> QED  BY <1>2, LeastNat
  <1>4. r \in c..N /\ ~(H[r] > H[c - 1]) /\ r \in Nat
    OBVIOUS
  <1>5. \A i \in c..(r - 1) : H[i] > H[c - 1]
    <2>1. ASSUME NEW i \in c..(r - 1), ~(H[i] > H[c - 1]) PROVE FALSE
      <3>1. i \in D /\ i < r
        BY <1>1, <1>4, <2>1
      <3> QED  BY <1>3, <1>4, <3>1
    <2> QED  BY <2>1
  <1> HIDE DEF D, N
  <1>6. r # c
    BY <1>1, <1>4
  <1>7. r \in (c + 1)..N /\ r - 1 \in c..(r - 1) /\ r \in 1..N /\ r - 1 \in 0..N /\ r \in 0..N
    BY <1>1, <1>4, <1>6
  <1>8. H[r] = H[c - 1]
    <2>1. H[r - 1] > H[c - 1]
      BY <1>5, <1>7
    <2>2. H[r] = H[r - 1] + 1 \/ H[r] = H[r - 1] \/ H[r] = H[r - 1] - 1
      BY <1>7, HeightAt DEF N
    <2> DEFINE x == H[r]
               y == H[r - 1]
               z == H[c - 1]
    <2>3. x \in Int /\ y \in Int /\ z \in Int /\ y > z /\ ~(x > z) /\ (x = y + 1 \/ x = y \/ x = y - 1)
      BY <1>1, <1>4, <1>7, <2>1, <2>2
    <2> HIDE DEF x, y, z
    <2>4. x = z
      BY <2>3
    <2> QED  BY <2>4 DEF x, z
  <1>9. Partner(H, c, r)
    BY <1>1, <1>5, <1>7, <1>8 DEF Partner
  <1> QED  BY <1>7, <1>9 DEF N

LEMMA BalancedMatched ==
    ASSUME NEW w \in Seq(Positions), NEW H, IsHeight(w, H), Balanced(w)
    PROVE  AllMatched(w, H)
  <1>1. Len(w) \in Nat
    BY HeightAt
  <1>2. \A k \in 1..Len(w) : w[k].kind = "return" => Partnered(H, k)
    BY PendingReturns DEF Balanced
  <1>3. \A c \in 1..Len(w) : ~OpenCall(H, c, Len(w))
    BY PendingCalls DEF Balanced
  <1> QED  BY <1>2, <1>3, CallClosed DEF AllMatched, Partnered

LEMMA MatchedTurns ==
    ASSUME NEW w, NEW v, NEW H, NEW G, NEW N, Mirror(w, v, H, G, N), AllMatched(v, G)
    PROVE  AllMatched(w, H)
  <1>0. N \in Nat /\ N = Len(w) /\ N = Len(v) /\ IsMirror(w, v) /\ IsMirror(v, w)
    <2>1. IsMirror(w, v) /\ N = Len(w)
      BY DEF Mirror
    <2>2. w \in Seq(Positions) /\ Len(v) = Len(w) /\ IsMirror(v, w)
      BY <2>1, MirrorBack DEF IsMirror
    <2> QED  BY <2>1, <2>2
  <1>1. ASSUME NEW k \in 1..N, w[k].kind = "return" PROVE \E c \in 1..(k - 1) : Partner(H, c, k)
    <2> DEFINE j == (N + 1) - k
    <2>1. j \in 1..N /\ (N + 1) - j = k
      BY <1>0
    <2>2. v[j].kind = "call"
      BY <1>0, <1>1, MirrorKinds
    <2> HIDE DEF j
    <2>3. PICK r \in (j + 1)..N : Partner(G, j, r)
      BY <1>0, <2>1, <2>2 DEF AllMatched
    <2>4. r \in 1..N /\ j \in 1..(r - 1)
      BY <1>0, <2>1
    <2>5. Partner(H, (N + 1) - r, (N + 1) - j) /\ (N + 1) - r \in 1..(((N + 1) - j) - 1)
      BY <2>3, <2>4, MirrorPartner
    <2> QED  BY <2>1, <2>5
  <1>2. ASSUME NEW k \in 1..N, w[k].kind = "call" PROVE \E r \in (k + 1)..N : Partner(H, k, r)
    <2> DEFINE j == (N + 1) - k
    <2>1. j \in 1..N /\ (N + 1) - j = k
      BY <1>0
    <2>2. v[j].kind = "return"
      BY <1>0, <1>2, MirrorKinds
    <2> HIDE DEF j
    <2>3. PICK c \in 1..(j - 1) : Partner(G, c, j)
      BY <1>0, <2>1, <2>2 DEF AllMatched
    <2>4. Partner(H, (N + 1) - j, (N + 1) - c)
      BY <2>1, <2>3, MirrorPartner
    <2>5. (N + 1) - c \in (k + 1)..N
      BY <1>0, <2>1
    <2> QED  BY <2>1, <2>4, <2>5
  <1> QED  BY <1>0, <1>1, <1>2 DEF AllMatched

-----------------------------------------------------------------------------
(* Reversal. *)
Shares(n) == {x \in n.calls \X n.returns : x[1].from = x[2].pred}
BackInternal(t, k) == Edge(<<t.to, k>>, t.sym, <<t.from, k>>)
BackInternals(n) == {BackInternal(t, k) : t \in n.internals, k \in Sides}
BackCalls(n) == {BackCall(x, k) : x \in Shares(n), k \in Sides}
BackMatched(n) == {BackReturn(x, k) : x \in Shares(n), k \in Sides}
BackStarts(n) == {PP(f) : f \in n.final}
BackPendings(n) == {BackPending(x, i) : x \in Shares(n), i \in BackStarts(n)}
IsBack(b, n) ==
    /\ Finite(b) /\ b.states = n.states \X Sides /\ b.initial = BackStarts(n) /\ b.final = n.initial \X Sides
    /\ b.calls = BackCalls(n) /\ b.internals = BackInternals(n) /\ b.returns = BackMatched(n) \cup BackPendings(n)

SharesOne(n, c, r) == c \in n.calls /\ r \in n.returns /\ c.from = r.pred
InternalBack(n, e) == \E t \in n.internals, k \in Sides : e.from = <<t.to, k>> /\ e.sym = t.sym /\ e.to = <<t.from, k>>
CallBack(n, e) == \E c, r, k : /\ SharesOne(n, c, r) /\ k \in Sides
                               /\ e.from = <<r.to, k>> /\ e.sym = r.sym /\ e.to = <<r.from, plain>>
ReturnBack(n, e) == \E c, r, k : /\ SharesOne(n, c, r) /\ k \in Sides
                                 /\ e.from = <<c.to, plain>> /\ e.pred = <<r.to, k>> /\ e.sym = c.sym /\ e.to = <<c.from, k>>
PendingBack(n, e) == \E c, r : /\ SharesOne(n, c, r) /\ e.pred \in BackStarts(n)
                               /\ e.from = <<c.to, prime>> /\ e.sym = c.sym /\ e.to = <<c.from, prime>>

LEMMA BackTransitions ==
    ASSUME NEW n, NEW e
    PROVE  /\ e \in BackInternals(n) => InternalBack(n, e)
           /\ e \in BackCalls(n) => CallBack(n, e)
           /\ e \in BackMatched(n) => ReturnBack(n, e)
           /\ e \in BackPendings(n) => PendingBack(n, e)
  <1>0. \A x \in Shares(n) : SharesOne(n, x[1], x[2])
    BY DEF Shares, SharesOne
  <1>1. ASSUME e \in BackInternals(n) PROVE InternalBack(n, e)
    <2>1. PICK t \in n.internals, k \in Sides : e = BackInternal(t, k)
      BY <1>1 DEF BackInternals
    <2>2. e.from = <<t.to, k>> /\ e.sym = t.sym /\ e.to = <<t.from, k>>
      BY <2>1, EdgeParts DEF BackInternal
    <2> QED  BY <2>2 DEF InternalBack
  <1> DEFINE S == Shares(n)
             I == BackStarts(n)
  <1>2. /\ BackCalls(n) = {BackCall(x, k) : x \in S, k \in Sides}
        /\ BackMatched(n) = {BackReturn(x, k) : x \in S, k \in Sides}
        /\ BackPendings(n) = {BackPending(x, i) : x \in S, i \in I}
    BY DEF BackCalls, BackMatched, BackPendings
  <1> HIDE DEF S, I
  <1>3. ASSUME e \in BackCalls(n) PROVE CallBack(n, e)
    <2>1. PICK x \in S, k \in Sides : e = BackCall(x, k)
      BY <1>2, <1>3
    <2>2. e.from = <<x[2].to, k>> /\ e.sym = x[2].sym /\ e.to = <<x[2].from, plain>>
      BY <2>1, EdgeParts DEF BackCall, P
    <2> QED  BY <1>0, <2>2 DEF CallBack, S
  <1>4. ASSUME e \in BackMatched(n) PROVE ReturnBack(n, e)
    <2>1. PICK x \in S, k \in Sides : e = BackReturn(x, k)
      BY <1>2, <1>4
    <2>2. e.from = <<x[1].to, plain>> /\ e.pred = <<x[2].to, k>> /\ e.sym = x[1].sym /\ e.to = <<x[1].from, k>>
      BY <2>1, ReturnParts DEF BackReturn, P
    <2> QED  BY <1>0, <2>2 DEF ReturnBack, S
  <1>5. ASSUME e \in BackPendings(n) PROVE PendingBack(n, e)
    <2>1. PICK x \in S, i \in I : e = BackPending(x, i)
      BY <1>2, <1>5
    <2>2. e.from = <<x[1].to, prime>> /\ e.pred = i /\ e.sym = x[1].sym /\ e.to = <<x[1].from, prime>>
      BY <2>1, ReturnParts DEF BackPending, PP
    <2> QED  BY <1>0, <2>2 DEF PendingBack, S, I
  <1> QED  BY <1>1, <1>3, <1>4, <1>5

HasBackCall(n, r, k) == \E e \in BackCalls(n) : e.from = <<r.to, k>> /\ e.sym = r.sym /\ e.to = <<r.from, plain>>
HasBackReturn(n, c, r, k) ==
    \E e \in BackMatched(n) : e.from = <<c.to, plain>> /\ e.pred = <<r.to, k>> /\ e.sym = c.sym /\ e.to = <<c.from, k>>

LEMMA BackBuilt ==
    ASSUME NEW n, NEW c \in n.calls, NEW r \in n.returns, c.from = r.pred, NEW k \in Sides
    PROVE  HasBackCall(n, r, k) /\ HasBackReturn(n, c, r, k)
  <1> DEFINE x == <<c, r>>
  <1>1. x[1] = c /\ x[2] = r /\ x \in Shares(n)
    BY DEF Shares
  <1> HIDE DEF x
  <1>2. /\ BackCall(x, k) \in BackCalls(n) /\ BackReturn(x, k) \in BackMatched(n)
    BY <1>1 DEF BackCalls, BackMatched
  <1>3. BackCall(x, k).from = <<r.to, k>> /\ BackCall(x, k).sym = r.sym /\ BackCall(x, k).to = <<r.from, plain>>
    BY <1>1, EdgeParts DEF BackCall, P
  <1>4. /\ BackReturn(x, k).from = <<c.to, plain>> /\ BackReturn(x, k).pred = <<r.to, k>>
        /\ BackReturn(x, k).sym = c.sym /\ BackReturn(x, k).to = <<c.from, k>>
    BY <1>1, ReturnParts DEF BackReturn, P
  <1> QED  BY <1>2, <1>3, <1>4 DEF HasBackCall, HasBackReturn

LEMMA BackFields ==
    ASSUME NEW n, Sound(n)
    PROVE  IsBack(reverse(n), n)
  <1> DEFINE Q == n.states \X Sides
             I == BackStarts(n)
             F == n.initial \X Sides
             empty == Automaton(Q, {}, I, F, {}, {}, {})
             L == BackInternals(n)
             C == BackCalls(n)
             R == BackMatched(n) \cup BackPendings(n)
             b == reverse(n)
  <1>0. WellFormed(n) /\ IsFiniteSet(n.states)
    BY DEF Sound, Finite
  <1>1. b = Build(empty, L, C, R)
    <2> DEFINE pairs == {x \in n.calls \X n.returns : x[1].from = x[2].pred}
               start == Automaton(n.states \X Sides, {}, {PP(f) : f \in n.final}, n.initial \X Sides, {}, {}, {})
               internals == {Edge(<<t.to, k>>, t.sym, <<t.from, k>>) : t \in n.internals, k \in Sides}
               calls == {BackCall(x, k) : x \in pairs, k \in Sides}
               matched == {BackReturn(x, k) : x \in pairs, k \in Sides}
               pending == {BackPending(x, i) : x \in pairs, i \in start.initial}
    <2>1. b = Build(start, internals, calls, matched \cup pending)
      BY DEF reverse, Build, BackCall, BackReturn, BackPending
    <2>2. start = empty /\ start.initial = I
      BY Fields DEF BackStarts
    <2>3. internals = L
      BY DEF BackInternals, BackInternal
    <2>4. pairs = Shares(n)
      BY DEF Shares
    <2> HIDE DEF pairs, start, b, empty, I
    <2>5. calls = C
      BY <2>4 DEF BackCalls
    <2>6. matched = BackMatched(n)
      BY <2>4 DEF BackMatched
    <2>7. I = BackStarts(n)
      BY DEF I
    <2>8. pending = BackPendings(n)
      BY <2>2, <2>4, <2>7 DEF BackPendings
    <2> HIDE DEF calls, matched, pending, internals, L, C
    <2>9. R = matched \cup pending
      BY <2>6, <2>8
    <2> QED  BY <2>1, <2>2, <2>3, <2>5, <2>9
  <1>2. WellFormed(b)
    BY <1>0, Reversed
  <1>3. Whole(empty) /\ empty.states = Q /\ empty.initial = I /\ empty.final = F
        /\ empty.calls = {} /\ empty.internals = {} /\ empty.returns = {}
    BY Fields
  <1>4. plain \in Sides /\ prime \in Sides /\ \A q \in n.states, k \in Sides : <<q, k>> \in Q
    BY DEF Sides
  <1>5. \A c, r : SharesOne(n, c, r) => {c.from, c.to, r.from, r.to} \subseteq n.states
    BY StatesOf DEF SharesOne
  <1>6. I \subseteq Q
    <2>1. \A f \in n.final : PP(f) \in Q
      BY <1>4, StatesOf DEF PP
    <2> QED  BY <2>1 DEF BackStarts
  <1> HIDE DEF Q, I, F, empty, b
  <1>7. \A e \in C : e \in [from : {e.from}, sym : {e.sym}, to : {e.to}] /\ Ends(e) = {e.from, e.to}
    <2>1. ASSUME NEW e \in C PROVE Ends(e) = {e.from, e.to} /\ e \in [from : {e.from}, sym : {e.sym}, to : {e.to}]
      <3>1. PICK x \in Shares(n), k \in Sides : e = BackCall(x, k)
        BY DEF BackCalls
      <3> QED  BY <3>1 DEF BackCall, Edge, Ends
    <2> QED  BY <2>1
  <1>8. Touched(C) \subseteq Q
    <2>1. ASSUME NEW e \in C PROVE Ends(e) \subseteq Q
      <3>1. PICK c, r, k : SharesOne(n, c, r) /\ k \in Sides /\ e.from = <<r.to, k>> /\ e.to = <<r.from, plain>>
        BY BackTransitions DEF CallBack
      <3>2. e.from \in Q /\ e.to \in Q
        BY <1>4, <1>5, <3>1
      <3> QED  BY <1>7, <3>2
    <2> QED  BY <2>1 DEF Touched
  <1>9. Touched(L) \subseteq Q
    <2>1. ASSUME NEW e \in L PROVE Ends(e) \subseteq Q
      <3>1. PICK t \in n.internals, k \in Sides : e = BackInternal(t, k)
        BY DEF BackInternals
      <3>2. <<t.to, k>> \in Q /\ <<t.from, k>> \in Q
        BY <1>4, StatesOf
      <3> QED  BY <3>1, <3>2, EdgeEnds DEF BackInternal
    <2> QED  BY <2>1 DEF Touched
  <1>10. Touched(R) \subseteq Q
    <2>1. ASSUME NEW e \in R PROVE Ends(e) \subseteq Q
      <3>1. Ends(e) = {e.from, e.pred, e.to}
        <4>1. CASE \E x \in Shares(n), k \in Sides : e = BackReturn(x, k)
          BY <4>1, ReturnEnds DEF BackReturn
        <4>2. CASE \E x \in Shares(n), i \in I : e = BackPending(x, i)
          BY <4>2, ReturnEnds DEF BackPending
        <4> QED  BY <4>1, <4>2 DEF BackMatched, BackPendings, I
      <3>2. CASE e \in BackMatched(n)
        <4>1. PICK c, r, k : SharesOne(n, c, r) /\ k \in Sides /\ e.from = <<c.to, plain>> /\ e.pred = <<r.to, k>>
                             /\ e.to = <<c.from, k>>
          BY <3>2, BackTransitions DEF ReturnBack
        <4>2. e.from \in Q /\ e.pred \in Q /\ e.to \in Q
          BY <1>4, <1>5, <4>1
        <4> QED  BY <3>1, <4>2
      <3>3. CASE e \in BackPendings(n)
        <4>1. PICK c, r : SharesOne(n, c, r) /\ e.pred \in I /\ e.from = <<c.to, prime>> /\ e.to = <<c.from, prime>>
          BY <3>3, BackTransitions DEF PendingBack, I
        <4>2. e.from \in Q /\ e.pred \in Q /\ e.to \in Q
          BY <1>4, <1>5, <1>6, <4>1
        <4> QED  BY <3>1, <4>2
      <3> QED  BY <3>2, <3>3
    <2> QED  BY <2>1 DEF Touched
  <1>11. IsFiniteSet(Q)
    BY <1>0, SidesFinite DEF Q
  <1> HIDE DEF L, C, R
  <1>12. AddedTo(addInternals(empty, L), empty, L, {}, L, {})
    BY <1>3, AddedFields
  <1> DEFINE l == addInternals(empty, L)
             c == addCalls(l, C)
  <1> HIDE DEF l, c
  <1>13. l.states = Q /\ l.initial = I /\ l.final = F /\ Whole(l)
         /\ l.calls = {} /\ l.internals = L /\ l.returns = {}
    BY <1>3, <1>9, <1>12 DEF AddedTo, Reached, l
  <1>14. AddedTo(c, l, C, C, L, {})
    BY <1>13, AddedFields DEF c
  <1>15. c.states = Q /\ c.initial = I /\ c.final = F /\ Whole(c)
         /\ c.calls = C /\ c.internals = L /\ c.returns = {}
    BY <1>8, <1>13, <1>14 DEF AddedTo, Reached
  <1>16. AddedTo(addReturns(c, R), c, R, C, L, R)
    BY <1>15, AddedFields
  <1>17. b = addReturns(c, R)
    BY <1>1 DEF Build, c, l
  <1>18. b.states = Q /\ b.initial = I /\ b.final = F
         /\ b.calls = C /\ b.internals = L /\ b.returns = R
    BY <1>10, <1>15, <1>16, <1>17 DEF AddedTo, Reached
  <1> QED  BY <1>2, <1>11, <1>18 DEF IsBack, Finite, b, C, L, R, Q, I, F

(* What leads back over EPSILON to a state is what it leads to from there. *)
BackOn(n, q, k, x) == \E g \in n.states : q \in epsilonClosure(n, g) /\ x = <<g, k>>

LEMMA BackClosure ==
    ASSUME NEW n, Sound(n), NEW b, IsBack(b, n), NEW q \in n.states, NEW k \in Sides, NEW x
    PROVE  x \in epsilonClosure(b, <<q, k>>) <=> BackOn(n, q, k, x)
  <1> DEFINE p == <<q, k>>
             Z == {y \in b.states : BackOn(n, q, k, y)}
             E == epsilonClosure(b, p)
  <1>0. WellFormed(n) /\ IsFiniteSet(n.states) /\ WellFormed(b) /\ IsFiniteSet(b.states)
        /\ \A g \in n.states, j \in Sides : <<g, j>> \in b.states
    BY DEF Sound, Finite, IsBack
  <1>a. p \in b.states
    BY <1>0
  <1>1. EpsClosed(b, Z)
    <2>1. ASSUME NEW e \in b.internals, e.from \in Z, e.sym = EPSILON PROVE e.to \in Z
      <3>0. e.to \in b.states
        BY <1>0, TransEnds
      <3>1. PICK t \in n.internals, j \in Sides : e.from = <<t.to, j>> /\ e.sym = t.sym /\ e.to = <<t.from, j>>
        BY BackTransitions DEF IsBack, InternalBack
      <3>2. PICK g \in n.states : q \in epsilonClosure(n, g) /\ e.from = <<g, k>>
        BY <2>1 DEF BackOn
      <3>3. t.to = g /\ j = k /\ t.sym = EPSILON /\ t.from \in n.states /\ t.to \in n.states
        BY <2>1, <3>1, <3>2, StatesOf
      <3>4. t.to \in epsilonClosure(n, t.from)
        BY <1>0, <3>3, ClosureFacts DEF EpsClosed
      <3>5. q \in epsilonClosure(n, t.from)
        <4>1. EpsClosed(n, epsilonClosure(n, t.from))
          BY <1>0, <3>3, ClosureFacts
        <4> QED  BY <1>0, <3>2, <3>3, <3>4, <4>1, ClosureFacts
      <3> QED  BY <3>0, <3>1, <3>3, <3>5 DEF BackOn
    <2> HIDE DEF Z
    <2> QED  BY <2>1 DEF EpsClosed
  <1>2. p \in Z
    BY <1>0, <1>a, ClosureFacts DEF BackOn
  <1>3. E \subseteq Z
    <2> HIDE DEF Z, p
    <2> QED  BY <1>0, <1>a, <1>1, <1>2, ClosureFacts
  <1>4. ASSUME NEW g \in n.states, q \in epsilonClosure(n, g) PROVE <<g, k>> \in E
    <2> DEFINE Y == {z \in n.states : <<g, k>> \in epsilonClosure(b, <<z, k>>)}
    <2>1. EpsClosed(n, Y)
      <3>1. ASSUME NEW t \in n.internals, t.from \in Y, t.sym = EPSILON PROVE t.to \in Y
        <4> DEFINE e == BackInternal(t, k)
        <4>1. e.from = <<t.to, k>> /\ e.sym = t.sym /\ e.to = <<t.from, k>>
          BY EdgeParts DEF BackInternal
        <4>2. e \in b.internals
          BY DEF IsBack, BackInternals
        <4> HIDE DEF e
        <4>3. t.to \in n.states /\ t.from \in n.states
          BY StatesOf
        <4> DEFINE a == <<t.to, k>>
                   c == <<t.from, k>>
        <4>4. a \in b.states /\ c \in b.states
          BY <1>0, <4>3
        <4>5. <<g, k>> \in epsilonClosure(b, c)
          BY <3>1
        <4> HIDE DEF a, c
        <4>6. a \in epsilonClosure(b, a) /\ EpsClosed(b, epsilonClosure(b, a))
          BY <1>0, <4>4, ClosureFacts
        <4>7. c \in epsilonClosure(b, a)
          BY <3>1, <4>1, <4>2, <4>6 DEF EpsClosed, a, c
        <4>8. epsilonClosure(b, c) \subseteq epsilonClosure(b, a)
          BY <1>0, <4>4, <4>6, <4>7, ClosureFacts
        <4> QED  BY <4>3, <4>5, <4>8 DEF a
      <3> HIDE DEF Y
      <3> QED  BY <3>1 DEF EpsClosed
    <2>2. g \in Y
      <3> DEFINE a == <<g, k>>
      <3>1. a \in b.states
        BY <1>0
      <3> HIDE DEF a
      <3>2. a \in epsilonClosure(b, a)
        BY <1>0, <3>1, ClosureFacts
      <3> QED  BY <3>2 DEF a
    <2> HIDE DEF Y
    <2>3. q \in Y
      BY <1>0, <1>4, <2>1, <2>2, ClosureFacts
    <2> QED  BY <2>3 DEF Y
  <1> QED  BY <1>3, <1>4 DEF BackOn, E

(* A step back, beside the states of the automaton. *)
OnSides(s, z, G, k) == \A j \in 0..k : s[j] = <<z[j], SideAt(G, j)>>
BackMove(n, v, G, z, k, g) ==
    \/ v[k].kind = "call" /\ \E r \in n.returns : r.to = z[k - 1] /\ r.sym \in {v[k].sym, WILD} /\ r.from = g
    \/ v[k].kind = "internal" /\ \E t \in n.internals : t.to = z[k - 1] /\ t.sym \in {v[k].sym, WILD} /\ t.from = g
    \/ /\ v[k].kind = "return"
       /\ \E t \in n.calls :
            /\ t.to = z[k - 1] /\ t.sym \in {v[k].sym, WILD} /\ t.from = g
            /\ \A c \in 1..(k - 1) : Partner(G, c, k) => \E r \in n.returns : r.pred = t.from /\ r.to = z[c - 1]

LEMMA BackStepDown ==
    ASSUME NEW n, Sound(n), plain # prime, NEW b, IsBack(b, n),
           NEW v \in Seq(Positions), NEW G, IsHeight(v, G), AllMatched(v, G),
           NEW k \in 1..Len(v), NEW s, NEW z, OnSides(s, z, G, k - 1), NEW y, StepTo(b, v, G, s, k, y)
    PROVE  \E g \in n.states : y = <<g, SideAt(G, k)>> /\ BackMove(n, v, G, z, k, g)
  <1>1. k \in Nat /\ k - 1 \in 0..(k - 1) /\ v[k].sym \in Alphabet /\ plain \in Sides /\ prime \in Sides
        /\ \A c \in 1..(k - 1) : c - 1 \in 0..(k - 1)
    <2>1. k \in Nat /\ v[k].sym \in Alphabet
      BY HeightAt
    <2>2. k - 1 \in 0..(k - 1) /\ \A c \in 1..(k - 1) : c - 1 \in 0..(k - 1)
      OBVIOUS
    <2> QED  BY <2>1, <2>2 DEF Sides
  <1>2. v[k].sym # EPSILON /\ WILD # EPSILON
    BY <1>1, AlphabetAssumption, MetaSymbols DEF Letters
  <1>3. s[k - 1] = <<z[k - 1], SideAt(G, k - 1)>>
    BY <1>1 DEF OnSides
  <1>4. CASE v[k].kind = "call"
    <2>1. PICK e \in BackCalls(n) : e.from = s[k - 1] /\ e.sym \in {v[k].sym, WILD} /\ e.to = y
      BY <1>4 DEF StepTo, EdgeTo, IsBack
    <2>a. CallBack(n, e)
      BY <2>1, BackTransitions
    <2>2. PICK c, r, j : SharesOne(n, c, r) /\ j \in Sides /\ e.from = <<r.to, j>> /\ e.sym = r.sym /\ e.to = <<r.from, plain>>
      BY <2>a DEF CallBack
    <2>3. r \in n.returns /\ r.to = z[k - 1] /\ r.from \in n.states
      BY <1>3, <2>1, <2>2, StatesOf DEF SharesOne
    <2>4. SideAt(G, k) = plain
      BY <1>4, InsideCall DEF SideAt
    <2>5. BackMove(n, v, G, z, k, r.from)
      BY <1>4, <2>1, <2>2, <2>3 DEF BackMove
    <2> QED  BY <2>1, <2>2, <2>3, <2>4, <2>5
  <1>5. CASE v[k].kind = "internal"
    <2>1. PICK e \in BackInternals(n) : e.from = s[k - 1] /\ e.sym \in {v[k].sym, WILD} /\ e.to = y
      BY <1>5 DEF StepTo, EdgeTo, IsBack
    <2>a. InternalBack(n, e)
      BY <2>1, BackTransitions
    <2>2. PICK t \in n.internals, j \in Sides : e.from = <<t.to, j>> /\ e.sym = t.sym /\ e.to = <<t.from, j>>
      BY <2>a DEF InternalBack
    <2>3. t.to = z[k - 1] /\ j = SideAt(G, k - 1) /\ t.from \in n.states
      BY <1>3, <2>1, <2>2, StatesOf
    <2>4. SideAt(G, k) = SideAt(G, k - 1)
      BY <1>5, InsideInternal DEF SideAt
    <2>5. BackMove(n, v, G, z, k, t.from)
      BY <1>5, <2>1, <2>2, <2>3 DEF BackMove
    <2> QED  BY <2>1, <2>2, <2>3, <2>4, <2>5
  <1>6. CASE v[k].kind = "return"
    <2>1. PICK e \in b.returns : e.from = s[k - 1] /\ e.sym \in {v[k].sym, WILD} /\ e.to = y /\ RunPops(b, G, s, k, e.pred)
      BY <1>6 DEF StepTo, ReturnTo
    <2>2. PICK c \in 1..(k - 1) : Partner(G, c, k)
      BY <1>6 DEF AllMatched
    <2>3. Inside(G, k - 1) /\ (Inside(G, k) <=> Inside(G, c - 1))
      BY <1>6, <2>2, InsideReturn DEF Partnered
    <2>4. SideAt(G, k - 1) = plain /\ SideAt(G, k) = SideAt(G, c - 1)
      BY <2>3 DEF SideAt
    <2>5. e \notin BackPendings(n)
      <3>1. ASSUME e \in BackPendings(n) PROVE FALSE
        <4>1. PendingBack(n, e)
          BY <3>1, BackTransitions
        <4>2. PICK x : e.from = <<x, prime>>
          BY <4>1 DEF PendingBack
        <4> QED  BY <1>3, <2>1, <2>4, <4>2
      <3> QED  BY <3>1
    <2>a. ReturnBack(n, e)
      BY <2>5, BackTransitions DEF IsBack
    <2>6. PICK t, r, j : /\ SharesOne(n, t, r) /\ j \in Sides
                         /\ e.from = <<t.to, plain>> /\ e.pred = <<r.to, j>> /\ e.sym = t.sym /\ e.to = <<t.from, j>>
      BY <2>a DEF ReturnBack
    <2>7. t \in n.calls /\ r \in n.returns /\ t.from = r.pred /\ t.to = z[k - 1] /\ t.from \in n.states
      BY <1>3, <2>1, <2>6, StatesOf DEF SharesOne
    <2>8. s[c - 1] = <<z[c - 1], SideAt(G, c - 1)>> /\ e.pred = s[c - 1]
      BY <1>1, <2>1, <2>2 DEF OnSides, RunPops
    <2>9. r.to = z[c - 1] /\ j = SideAt(G, c - 1)
      BY <2>6, <2>8
    <2>10. \A d \in 1..(k - 1) : Partner(G, d, k) => d = c
      BY <2>2, OnePartner
    <2>11. BackMove(n, v, G, z, k, t.from)
      BY <1>6, <2>1, <2>6, <2>7, <2>9, <2>10 DEF BackMove
    <2> QED  BY <2>1, <2>4, <2>6, <2>7, <2>9, <2>11
  <1>7. v[k].kind \in {"call", "internal", "return"}
    BY HeightAt
  <1> QED  BY <1>4, <1>5, <1>6, <1>7

LEMMA BackStepUp ==
    ASSUME NEW n, Sound(n), NEW b, IsBack(b, n), NEW w, NEW v, NEW H, NEW G, NEW N, Mirror(w, v, H, G, N),
           AllMatched(w, H), AllMatched(v, G), NEW s, NEW x, \A j \in 1..N : StepTo(n, w, H, s, j, x[j]),
           NEW r, \A j \in 0..N : r[j] = <<x[N - j], SideAt(G, j)>>, NEW k \in 1..N
    PROVE  StepTo(b, v, G, r, k, <<s[N - k], SideAt(G, k)>>)
  <1> DEFINE j == (N + 1) - k
  <1>1. /\ N \in Nat /\ N = Len(w) /\ N = Len(v) /\ w \in Seq(Positions) /\ v \in Seq(Positions) /\ IsMirror(w, v)
        /\ IsHeight(w, H) /\ IsHeight(v, G)
    <2>1. IsMirror(w, v) /\ IsHeight(w, H) /\ IsHeight(v, G) /\ N = Len(w)
      BY DEF Mirror
    <2>2. w \in Seq(Positions) /\ v \in Seq(Positions) /\ Len(v) = Len(w)
      BY <2>1 DEF IsMirror
    <2> QED  BY <2>1, <2>2
  <1>2. k \in Nat /\ j \in Nat /\ j \in 1..N /\ N - k = j - 1 /\ N - (k - 1) = j /\ k - 1 \in 0..N
    BY <1>1
  <1>3. /\ v[k].sym = w[j].sym
        /\ v[k].kind = "call" <=> w[j].kind = "return"
        /\ v[k].kind = "internal" <=> w[j].kind = "internal"
        /\ v[k].kind = "return" <=> w[j].kind = "call"
    <2>1. Flips(v[k], w[j])
      BY <1>1, KindsFlip
    <2> QED  BY <2>1 DEF Flips
  <1> HIDE DEF j
  <1>4. r[k - 1] = <<x[j], SideAt(G, k - 1)>> /\ StepTo(n, w, H, s, j, x[j]) /\ \A i : SideAt(G, i) \in Sides
    BY <1>2 DEF SideAt, Sides
  <1>5. CASE v[k].kind = "internal"
    <2>1. PICK t \in n.internals : t.from = s[j - 1] /\ t.sym \in {w[j].sym, WILD} /\ t.to = x[j]
      BY <1>3, <1>4, <1>5 DEF StepTo, EdgeTo
    <2>2. SideAt(G, k) = SideAt(G, k - 1)
      BY <1>1, <1>5, InsideInternal DEF SideAt
    <2> DEFINE e == BackInternal(t, SideAt(G, k - 1))
    <2>3. e.from = <<t.to, SideAt(G, k - 1)>> /\ e.sym = t.sym /\ e.to = <<t.from, SideAt(G, k - 1)>>
      BY EdgeParts DEF BackInternal
    <2>4. e \in b.internals
      BY <1>4 DEF IsBack, BackInternals
    <2> HIDE DEF e
    <2> QED  BY <1>2, <1>3, <1>4, <1>5, <2>1, <2>2, <2>3, <2>4 DEF StepTo, EdgeTo
  <1>6. CASE v[k].kind = "call"
    <2>1. PICK t \in n.returns : t.from = s[j - 1] /\ t.sym \in {w[j].sym, WILD} /\ t.to = x[j] /\ RunPops(n, H, s, j, t.pred)
      BY <1>3, <1>4, <1>6 DEF StepTo, ReturnTo
    <2>2. PICK c \in 1..(j - 1) : Partner(H, c, j)
      BY <1>1, <1>2, <1>3, <1>6 DEF AllMatched
    <2>3. c \in 1..N /\ w[c].kind = "call"
      <3>1. c \in 1..N
        BY <1>1, <1>2
      <3> QED  BY <1>1, <1>2, <2>2, <3>1, PartnerIsCall
    <2>4. t.pred = s[c - 1]
      BY <2>1, <2>2 DEF RunPops
    <2>5. PICK u \in n.calls : u.from = s[c - 1]
      BY <2>3 DEF StepTo, EdgeTo
    <2> DEFINE K == SideAt(G, k - 1)
    <2>6. K \in Sides /\ u.from = t.pred
      BY <1>4, <2>4, <2>5
    <2> HIDE DEF K
    <2>a. HasBackCall(n, t, K)
      BY <2>6, BackBuilt
    <2>7. PICK e \in BackCalls(n) : e.from = <<t.to, K>> /\ e.sym = t.sym /\ e.to = <<t.from, plain>>
      BY <2>a DEF HasBackCall
    <2>8. SideAt(G, k) = plain
      BY <1>1, <1>6, InsideCall DEF SideAt
    <2> QED  BY <1>2, <1>3, <1>4, <1>6, <2>1, <2>7, <2>8 DEF StepTo, EdgeTo, IsBack, K
  <1>7. CASE v[k].kind = "return"
    <2>1. PICK u \in n.calls : u.from = s[j - 1] /\ u.sym \in {w[j].sym, WILD} /\ u.to = x[j]
      BY <1>3, <1>4, <1>7 DEF StepTo, EdgeTo
    <2>2. PICK c \in 1..(k - 1) : Partner(G, c, k)
      BY <1>1, <1>7 DEF AllMatched
    <2> DEFINE p == (N + 1) - c
    <2>3. c \in 1..N /\ N - (c - 1) = p /\ c - 1 \in 0..N
      BY <1>1, <1>2
    <2>4. Partner(H, j, p) /\ p \in 1..N /\ j \in 1..(p - 1)
      BY <2>2, MirrorPartner DEF j
    <2>5. w[p].kind = "return"
      <3>1. v[c].kind = "call"
        BY <1>1, <1>2, <2>2, <2>3, PartnerIsCall
      <3>2. Flips(v[c], w[p])
        BY <1>1, <2>3, KindsFlip
      <3> QED  BY <3>1, <3>2 DEF Flips
    <2> HIDE DEF p
    <2>6. StepTo(n, w, H, s, p, x[p])
      BY <2>4
    <2>7. PICK t \in n.returns : t.to = x[p] /\ RunPops(n, H, s, p, t.pred)
      BY <2>5, <2>6 DEF StepTo, ReturnTo
    <2>8. t.pred = s[j - 1]
      BY <2>4, <2>7 DEF RunPops
    <2>9. Inside(G, k - 1) /\ (Inside(G, k) <=> Inside(G, c - 1))
      BY <1>1, <1>7, <2>2, InsideReturn DEF Partnered
    <2>10. SideAt(G, k - 1) = plain /\ SideAt(G, k) = SideAt(G, c - 1)
      BY <2>9 DEF SideAt
    <2> DEFINE K == SideAt(G, k)
    <2>11. K \in Sides /\ u.from = t.pred
      BY <1>4, <2>1, <2>8
    <2> HIDE DEF K
    <2>a. HasBackReturn(n, u, t, K)
      BY <2>11, BackBuilt
    <2>12. PICK e \in BackMatched(n) :
             e.from = <<u.to, plain>> /\ e.pred = <<t.to, K>> /\ e.sym = u.sym /\ e.to = <<u.from, K>>
      BY <2>a DEF HasBackReturn
    <2>13. e.pred = r[c - 1]
      BY <2>3, <2>7, <2>10, <2>12 DEF K
    <2>14. \A d \in 1..(k - 1) : Partner(G, d, k) => d = c
      BY <1>1, <2>2, OnePartner
    <2>15. RunPops(b, G, r, k, e.pred)
      BY <2>2, <2>13, <2>14 DEF RunPops, Partnered
    <2> QED  BY <1>2, <1>3, <1>4, <1>7, <2>1, <2>10, <2>12, <2>15 DEF StepTo, ReturnTo, IsBack, K
  <1>8. v[k].kind \in {"call", "internal", "return"}
    BY <1>1, HeightAt
  <1> QED  BY <1>5, <1>6, <1>7, <1>8

LEMMA MirrorTyped ==
    ASSUME NEW w, NEW v, NEW H, NEW G, NEW N, Mirror(w, v, H, G, N)
    PROVE  /\ N \in Nat /\ N = Len(w) /\ N = Len(v) /\ w \in Seq(Positions) /\ v \in Seq(Positions) /\ IsMirror(w, v)
           /\ IsHeight(w, H) /\ IsHeight(v, G)
  <1>1. IsMirror(w, v) /\ IsHeight(w, H) /\ IsHeight(v, G) /\ N = Len(w)
    BY DEF Mirror
  <1>2. w \in Seq(Positions) /\ v \in Seq(Positions) /\ Len(v) = Len(w)
    BY <1>1 DEF IsMirror
  <1> QED  BY <1>1, <1>2

LEMMA BackMoveUp ==
    ASSUME NEW n, OneCallPerReturn(n), NEW w, NEW v, NEW H, NEW G, NEW N, Mirror(v, w, G, H, N), AllMatched(w, H),
           NEW z, NEW g, \A k \in 1..N : BackMove(n, v, G, z, k, g[k]),
           NEW s, \A j \in 0..N : s[j] = g[N - j], NEW j \in 1..N
    PROVE  StepTo(n, w, H, s, j, z[N - j])
  <1> DEFINE k == (N + 1) - j
  <1>1. /\ N \in Nat /\ N = Len(w) /\ N = Len(v) /\ w \in Seq(Positions) /\ v \in Seq(Positions) /\ IsMirror(v, w)
        /\ IsHeight(w, H) /\ IsHeight(v, G)
    BY MirrorTyped
  <1>2. j \in Nat /\ k \in Nat /\ k \in 1..N /\ N - j = k - 1 /\ N - (j - 1) = k /\ j - 1 \in 0..N /\ (N + 1) - k = j
    BY <1>1
  <1>3. Flips(w[j], v[k])
    BY <1>1, KindsFlip
  <1> HIDE DEF k
  <1>4. BackMove(n, v, G, z, k, g[k]) /\ s[j - 1] = g[k]
    BY <1>2
  <1>5. CASE w[j].kind = "internal"
    <2>1. PICK t \in n.internals : t.to = z[k - 1] /\ t.sym \in {v[k].sym, WILD} /\ t.from = g[k]
      BY <1>3, <1>4, <1>5 DEF BackMove, Flips
    <2> QED  BY <1>2, <1>3, <1>4, <1>5, <2>1 DEF StepTo, EdgeTo, Flips
  <1>6. CASE w[j].kind = "call"
    <2>1. PICK t \in n.calls : t.to = z[k - 1] /\ t.sym \in {v[k].sym, WILD} /\ t.from = g[k]
      BY <1>3, <1>4, <1>6 DEF BackMove, Flips
    <2> QED  BY <1>2, <1>3, <1>4, <1>6, <2>1 DEF StepTo, EdgeTo, Flips
  <1>7. CASE w[j].kind = "return"
    <2>1. PICK r \in n.returns : r.to = z[k - 1] /\ r.sym \in {v[k].sym, WILD} /\ r.from = g[k]
      BY <1>3, <1>4, <1>7 DEF BackMove, Flips
    <2>2. ASSUME NEW c \in 1..(j - 1), Partner(H, c, j) PROVE r.pred = s[c - 1]
      <3> DEFINE p == (N + 1) - c
      <3>1. c \in 1..N /\ N - (c - 1) = p /\ c - 1 \in 0..N /\ (N + 1) - p = c
        <4>1. N \in Nat /\ j \in Nat /\ j <= N /\ c \in Nat /\ 1 <= c /\ c <= j - 1
          BY <1>1, <1>2
        <4>2. p = (N + 1) - c
          OBVIOUS
        <4> HIDE DEF p
        <4> QED  BY ONLY <4>1, <4>2
      <3>a. Mirror(v, w, G, H, N) /\ j \in 1..N
        OBVIOUS
      <3>2. Partner(G, k, p) /\ p \in 1..N /\ k \in 1..(p - 1)
        BY <2>2, <3>a, MirrorPartner DEF k
      <3>3. w[c].kind = "call"
        BY <1>1, <2>2, PartnerIsCall
      <3>4. Flips(w[c], v[p])
        BY <1>1, <3>1, KindsFlip
      <3> HIDE DEF p
      <3>5. v[p].kind = "return" /\ BackMove(n, v, G, z, p, g[p])
        BY <3>2, <3>3, <3>4 DEF Flips
      <3>6. PICK t \in n.calls :
              /\ t.from = g[p]
              /\ \A d \in 1..(p - 1) : Partner(G, d, p) => \E u \in n.returns : u.pred = t.from /\ u.to = z[d - 1]
        BY <3>5 DEF BackMove
      <3>7. PICK u \in n.returns : u.pred = g[p] /\ u.to = z[k - 1]
        BY <3>2, <3>6
      <3>8. r.pred = g[p]
        BY <2>1, <3>7 DEF OneCallPerReturn
      <3> QED  BY <3>1, <3>8
    <2>3. Partnered(H, j)
      BY <1>1, <1>7 DEF AllMatched, Partnered
    <2>4. RunPops(n, H, s, j, r.pred)
      BY <2>2, <2>3 DEF RunPops
    <2> QED  BY <1>2, <1>3, <1>4, <1>7, <2>1, <2>4 DEF StepTo, ReturnTo, Flips
  <1>8. w[j].kind \in {"call", "internal", "return"}
    BY <1>1, HeightAt
  <1> QED  BY <1>5, <1>6, <1>7, <1>8

LEMMA BackHas ==
    ASSUME NEW n, Sound(n), NEW b, IsBack(b, n), NEW w \in Words(n), NEW v, IsMirror(w, v), Balanced(v)
    PROVE  v \in Words(b)
  <1> DEFINE N == Len(w)
  <1>1. w \in Seq(Positions) /\ v \in Seq(Positions) /\ N \in Nat /\ Len(v) = N /\ v \in AllWords /\ Accepts(n, w, {WILD})
    <2>1. w \in AllWords /\ Accepts(n, w, {WILD})
      BY WordsAre
    <2>2. w \in Seq(Positions) /\ v \in Seq(Positions) /\ Len(v) = N
      BY DEF IsMirror
    <2>3. N <= MaxLength
      BY <2>1, AllWordsAre
    <2>4. v \in AllWords
      BY <2>2, <2>3, AllWordsAre
    <2> QED  BY <2>1, <2>2, <2>4
  <1>2. PICK H : IsHeight(w, H)
    BY <1>1, HeightExists
  <1> DEFINE G == Turned(H, N)
  <1>3. Mirror(w, v, H, G, N)
    BY <1>2, MirrorHeight
  <1> HIDE DEF G
  <1>4. IsHeight(v, G) /\ AllMatched(v, G)
    BY <1>1, <1>3, MirrorTyped, BalancedMatched
  <1>5. AllMatched(w, H)
    BY <1>3, <1>4, MatchedTurns
  <1>6. Finite(n) /\ Finite(b) /\ WellFormed(n) /\ IsFiniteSet(n.states)
    BY DEF Sound, Finite, IsBack
  <1>7. PICK s : IsRun(n, w, H, s) /\ s[N] \in n.final
    BY <1>1, <1>2, <1>6, AcceptsRun
  <1> DEFINE goes(j, y) == /\ y \in n.states /\ s[j] \in epsilonClosure(n, y)
                           /\ j = 0 => y \in n.initial
                           /\ j # 0 => StepTo(n, w, H, s, j, y)
             x == [j \in 0..N |-> CHOOSE y : goes(j, y)]
  <1>8. ASSUME NEW j \in 0..N PROVE goes(j, x[j])
    <2>1. \E y : goes(j, y)
      <3>1. CASE j = 0
        <4>1. PICK i \in n.initial : s[0] \in epsilonClosure(n, i)
          BY <1>7 DEF IsRun, RunStart
        <4>2. i \in n.states
          BY StatesOf
        <4> QED  BY <3>1, <4>1, <4>2
      <3>2. CASE j # 0
        <4>1. j \in 1..N
          BY <1>1, <3>2
        <4>2. RunStep(n, w, H, s, j)
          BY <1>7, <4>1 DEF IsRun
        <4>3. PICK y : StepTo(n, w, H, s, j, y) /\ s[j] \in epsilonClosure(n, y)
          BY <4>2, StepVia
        <4>4. y \in n.states
          BY <4>3, StepToIn
        <4> QED  BY <3>2, <4>3, <4>4
      <3> QED  BY <3>1, <3>2
    <2>2. x[j] = CHOOSE y : goes(j, y)
      OBVIOUS
    <2> HIDE DEF goes, x
    <2> QED  BY <2>1, <2>2
  <1> HIDE DEF x, N
  <1>9. \A j \in 0..N : x[j] \in n.states /\ s[j] \in epsilonClosure(n, x[j])
    BY <1>8
  <1>10. ASSUME NEW j \in 1..N PROVE StepTo(n, w, H, s, j, x[j])
    <2>1. j \in 0..N /\ j # 0
      BY <1>1
    <2> QED  BY <1>8, <2>1
  <1>11. x[0] \in n.initial
    <2>1. 0 \in 0..N
      BY <1>1
    <2> QED  BY <1>8, <2>1
  <1> HIDE DEF goes
  <1> DEFINE r == [j \in 0..N |-> <<x[N - j], SideAt(G, j)>>]
  <1>12. \A j \in 0..N : r[j] = <<x[N - j], SideAt(G, j)>>
    OBVIOUS
  <1> HIDE DEF r
  <1>13. \A j \in 0..N : N - j \in 0..N /\ SideAt(G, j) \in Sides
    <2>1. \A j \in 0..N : N - j \in 0..N
      BY <1>1
    <2> QED  BY <2>1 DEF SideAt, Sides
  <1>14. \A j \in 0..N : s[j] \in n.states
    BY <1>7 DEF IsRun, N
  <1>15. \A j \in 0..N : r[j] \in b.states
    BY <1>9, <1>12, <1>13, ZenonT(30) DEF IsBack
  <1>16. RunStart(b, r[0])
    <2>1. r[0] = <<x[N], prime>> /\ N \in 0..N /\ prime \in Sides
      <3>1. 0 \in 0..N /\ N - 0 = N /\ N \in 0..N
        BY <1>1
      <3> QED  BY <1>12, <3>1, InsideNone DEF SideAt, Sides
    <2>2. BackOn(n, s[N], prime, r[0])
      BY <1>9, <2>1 DEF BackOn
    <2>3. r[0] \in epsilonClosure(b, <<s[N], prime>>)
      BY <1>14, <2>1, <2>2, BackClosure
    <2>4. <<s[N], prime>> \in b.initial
      BY <1>7 DEF IsBack, BackStarts, PP, N
    <2> QED  BY <2>3, <2>4 DEF RunStart
  <1>17. ASSUME NEW k \in 1..N PROVE RunStep(b, v, G, r, k)
    <2>1. k \in 0..N /\ N - k \in 0..N
      BY <1>1
    <2> DEFINE K == SideAt(G, k)
               a == s[N - k]
    <2>2. StepTo(b, v, G, r, k, <<a, K>>)
      BY <1>3, <1>4, <1>5, <1>10, <1>12, BackStepUp, SMTT(30)
    <2>3. a \in n.states /\ K \in Sides /\ r[k] = <<x[N - k], K>> /\ x[N - k] \in n.states /\ a \in epsilonClosure(n, x[N - k])
      BY <1>9, <1>12, <1>13, <1>14, <2>1
    <2> HIDE DEF K, a
    <2>4. BackOn(n, a, K, r[k])
      BY <2>3 DEF BackOn
    <2>5. r[k] \in epsilonClosure(b, <<a, K>>)
      BY <2>3, <2>4, BackClosure
    <2> QED  BY <2>2, <2>5, StepVia
  <1>18. r[N] \in b.final
    <2>1. N \in 0..N /\ N - N = 0
      BY <1>1
    <2> QED  BY <1>11, <1>12, <1>13, <2>1 DEF IsBack
  <1>19. IsRun(b, v, G, r)
    BY <1>1, <1>15, <1>16, <1>17 DEF IsRun
  <1>20. Accepts(b, v, {WILD})
    BY <1>1, <1>4, <1>6, <1>18, <1>19, AcceptsRun
  <1> QED  BY <1>1, <1>20, WordsAre

LEMMA BackOnSides ==
    ASSUME NEW n, Sound(n), plain # prime, NEW b, IsBack(b, n), NEW v \in Seq(Positions), NEW G, IsHeight(v, G),
           AllMatched(v, G), NEW r, IsRun(b, v, G, r), NEW z, \A k \in 0..Len(v) : z[k] = r[k][1]
    PROVE  \A k \in 0..Len(v) : OnSides(r, z, G, k)
  <1> DEFINE N == Len(v)
             T == {k \in Nat : OnSides(r, z, G, k)}
  <1>0. N \in Nat /\ plain \in Sides /\ prime \in Sides
    BY HeightAt DEF Sides
  <1>1. 0 \in T
    <2>1. PICK i \in b.initial : r[0] \in epsilonClosure(b, i)
      BY DEF IsRun, RunStart
    <2>2. PICK f \in n.final : i = <<f, prime>>
      BY <2>1 DEF IsBack, BackStarts, PP
    <2>3. BackOn(n, f, prime, r[0])
      BY <1>0, <2>1, <2>2, BackClosure, StatesOf
    <2>4. PICK g : r[0] = <<g, prime>>
      BY <2>3 DEF BackOn
    <2>5. 0 \in 0..N
      BY <1>0
    <2>6. z[0] = g
      BY <2>4, <2>5
    <2>7. r[0] = <<z[0], SideAt(G, 0)>>
      BY <2>4, <2>6, InsideNone DEF SideAt
    <2>8. \A j \in 0..0 : j = 0
      OBVIOUS
    <2> QED  BY <2>7, <2>8 DEF OnSides
  <1>2. ASSUME NEW k \in 1..N, k - 1 \in T PROVE k \in T
    <2>1. k \in 0..N /\ k \in Nat
      BY <1>0
    <2>2. PICK y : StepTo(b, v, G, r, k, y) /\ r[k] \in epsilonClosure(b, y)
      BY <2>1, StepVia DEF IsRun
    <2>3. OnSides(r, z, G, k - 1)
      BY <1>2, <2>1
    <2>4. PICK g \in n.states : y = <<g, SideAt(G, k)>>
      BY <2>1, <2>2, <2>3, BackStepDown, SMTT(30)
    <2>5. SideAt(G, k) \in Sides
      BY <1>0 DEF SideAt
    <2>6. BackOn(n, g, SideAt(G, k), r[k])
      BY <2>2, <2>4, <2>5, BackClosure
    <2>7. PICK h : r[k] = <<h, SideAt(G, k)>>
      BY <2>6 DEF BackOn
    <2>8. z[k] = h
      BY <2>1, <2>7
    <2>9. \A j \in 0..k : j = k \/ j \in 0..(k - 1)
      OBVIOUS
    <2> QED  BY <1>2, <2>1, <2>7, <2>8, <2>9 DEF OnSides
  <1>3. 0..N \subseteq T
    <2> HIDE DEF T
    <2> QED  BY <1>0, <1>1, <1>2, UpTo
  <1> QED  BY <1>3

LEMMA BackOnly ==
    ASSUME NEW n, Sound(n), plain # prime, OneCallPerReturn(n), NEW b, IsBack(b, n), NEW v \in Words(b), Balanced(v),
           NEW w, IsMirror(v, w)
    PROVE  w \in Words(n)
  <1> DEFINE N == Len(v)
  <1>1. w \in Seq(Positions) /\ v \in Seq(Positions) /\ N \in Nat /\ Len(w) = N /\ w \in AllWords /\ Accepts(b, v, {WILD})
    <2>1. v \in AllWords /\ Accepts(b, v, {WILD})
      BY WordsAre
    <2>2. w \in Seq(Positions) /\ v \in Seq(Positions) /\ Len(w) = N
      BY DEF IsMirror
    <2>3. N <= MaxLength
      BY <2>1, AllWordsAre
    <2>4. w \in AllWords
      BY <2>2, <2>3, AllWordsAre
    <2> QED  BY <2>1, <2>2, <2>4
  <1>2. PICK G : IsHeight(v, G)
    BY <1>1, HeightExists
  <1> DEFINE H == Turned(G, N)
  <1>3. Mirror(v, w, G, H, N)
    BY <1>2, MirrorHeight
  <1> HIDE DEF H
  <1>4. AllMatched(v, G)
    BY <1>1, <1>2, BalancedMatched
  <1>5. Mirror(w, v, H, G, N)
    BY <1>3, MirrorTurns
  <1>6. AllMatched(w, H) /\ IsHeight(w, H)
    BY <1>4, <1>5, MatchedTurns, MirrorTyped
  <1>7. Finite(n) /\ Finite(b) /\ WellFormed(n) /\ IsFiniteSet(n.states) /\ prime \in Sides /\ \A k : SideAt(G, k) \in Sides
    BY DEF Sound, Finite, IsBack, SideAt, Sides
  <1>8. PICK r : IsRun(b, v, G, r) /\ r[N] \in b.final
    BY <1>1, <1>2, <1>7, AcceptsRun
  <1> DEFINE z == [k \in 0..N |-> r[k][1]]
  <1>9. \A k \in 0..N : z[k] = r[k][1]
    OBVIOUS
  <1> HIDE DEF z
  <1>10. \A k \in 0..N : OnSides(r, z, G, k)
    BY <1>1, <1>2, <1>4, <1>8, <1>9, BackOnSides
  <1>11. \A k \in 0..N : r[k] = <<z[k], SideAt(G, k)>>
    <2>1. N \in 0..N
      BY <1>1
    <2> QED  BY <1>10, <2>1 DEF OnSides
  <1> DEFINE goes(k, y) == /\ y \in n.states /\ y \in epsilonClosure(n, z[k])
                           /\ k = 0 => y \in n.final
                           /\ k # 0 => BackMove(n, v, G, z, k, y)
             g == [k \in 0..N |-> CHOOSE y : goes(k, y)]
  <1>12. ASSUME NEW k \in 0..N PROVE goes(k, g[k])
    <2>1. \E y : goes(k, y)
      <3>1. CASE k = 0
        <4>1. PICK i \in b.initial : r[0] \in epsilonClosure(b, i)
          BY <1>8 DEF IsRun, RunStart
        <4>2. PICK f \in n.final : i = <<f, prime>>
          BY <4>1 DEF IsBack, BackStarts, PP
        <4>3. f \in n.states /\ BackOn(n, f, prime, r[0])
          BY <1>7, <4>1, <4>2, BackClosure, StatesOf
        <4>4. PICK h \in n.states : f \in epsilonClosure(n, h) /\ r[0] = <<h, prime>>
          BY <4>3 DEF BackOn
        <4>5. z[0] = h
          BY <1>9, <3>1, <4>4
        <4> QED  BY <3>1, <4>3, <4>4, <4>5
      <3>2. CASE k # 0
        <4>1. k \in 1..N /\ k - 1 \in 0..N
          BY <1>1, <3>2
        <4>2. PICK y : StepTo(b, v, G, r, k, y) /\ r[k] \in epsilonClosure(b, y)
          BY <1>8, <4>1, StepVia DEF IsRun
        <4>3. OnSides(r, z, G, k - 1)
          BY <1>10, <4>1
        <4>4. PICK a \in n.states : y = <<a, SideAt(G, k)>> /\ BackMove(n, v, G, z, k, a)
          BY <1>1, <1>2, <1>4, <4>1, <4>2, <4>3, BackStepDown
        <4>5. BackOn(n, a, SideAt(G, k), r[k])
          BY <1>7, <4>2, <4>4, BackClosure
        <4>6. PICK h : a \in epsilonClosure(n, h) /\ r[k] = <<h, SideAt(G, k)>>
          BY <4>5 DEF BackOn
        <4>7. z[k] = h
          BY <1>9, <4>6
        <4> QED  BY <3>2, <4>4, <4>6, <4>7
      <3> QED  BY <3>1, <3>2
    <2>2. g[k] = CHOOSE y : goes(k, y)
      OBVIOUS
    <2> HIDE DEF goes, g
    <2> QED  BY <2>1, <2>2
  <1> HIDE DEF g, N
  <1>13. \A k \in 0..N : g[k] \in n.states /\ g[k] \in epsilonClosure(n, z[k])
    BY <1>12
  <1>14. ASSUME NEW k \in 1..N PROVE BackMove(n, v, G, z, k, g[k])
    <2>1. k \in 0..N /\ k # 0
      BY <1>1
    <2> QED  BY <1>12, <2>1
  <1>15. g[0] \in n.final
    <2>1. 0 \in 0..N
      BY <1>1
    <2> QED  BY <1>12, <2>1
  <1> HIDE DEF goes
  <1> DEFINE s == [j \in 0..N |-> g[N - j]]
  <1>16. \A j \in 0..N : s[j] = g[N - j]
    OBVIOUS
  <1> HIDE DEF s
  <1>17. \A j \in 0..N : N - j \in 0..N
    BY <1>1
  <1>18. RunStart(n, s[0])
    <2>1. 0 \in 0..N /\ N - 0 = N /\ N \in 0..N
      BY <1>1
    <2>2. s[0] \in epsilonClosure(n, z[N])
      BY <1>13, <1>16, <2>1
    <2>3. r[N] \in n.initial \X Sides
      BY <1>8 DEF IsBack
    <2>4. z[N] \in n.initial
      BY <1>11, <2>1, <2>3
    <2> QED  BY <2>2, <2>4 DEF RunStart
  <1>19. ASSUME NEW j \in 1..N PROVE RunStep(n, w, H, s, j)
    <2>1. j \in 0..N /\ N - j \in 0..N
      BY <1>1
    <2>2. StepTo(n, w, H, s, j, z[N - j])
      BY <1>3, <1>6, <1>14, <1>16, BackMoveUp
    <2>3. s[j] \in epsilonClosure(n, z[N - j])
      BY <1>13, <1>16, <2>1
    <2> QED  BY <2>2, <2>3, StepVia
  <1>20. s[N] \in n.final
    <2>1. N \in 0..N /\ N - N = 0
      BY <1>1
    <2> QED  BY <1>15, <1>16, <2>1
  <1>21. IsRun(n, w, H, s)
    <2>1. \A j \in 0..N : s[j] \in n.states
      BY <1>13, <1>16, <1>17
    <2> QED  BY <1>1, <1>18, <1>19, <2>1 DEF IsRun
  <1>22. Accepts(n, w, {WILD})
    BY <1>1, <1>6, <1>7, <1>20, <1>21, AcceptsRun
  <1> QED  BY <1>1, <1>22, WordsAre

LEMMA MirroredAre ==
    ASSUME NEW W, NEW x
    PROVE  x \in Mirrored(W) <=> \E w \in W : x = FlipOf(w)
  BY DEF Mirrored, FlipOf

LEMMA ReverseWords ==
    ASSUME NEW n, Sound(n), plain # prime
    PROVE  /\ {v \in Mirrored(Words(n)) : Balanced(v)} \subseteq {v \in Words(reverse(n)) : Balanced(v)}
           /\ OneCallPerReturn(n) =>
                {v \in Words(reverse(n)) : Balanced(v)} = {v \in Mirrored(Words(n)) : Balanced(v)}
  <1> DEFINE b == reverse(n)
  <1>1. IsBack(b, n)
    BY BackFields
  <1> HIDE DEF b
  <1>2. ASSUME NEW v \in Mirrored(Words(n)), Balanced(v) PROVE v \in Words(b)
    <2>1. PICK w \in Words(n) : v = FlipOf(w)
      BY MirroredAre
    <2>2. w \in Seq(Positions)
      BY WordsAre, AllWordsAre
    <2>3. IsMirror(w, v)
      BY <2>1, <2>2, MirrorIs
    <2> QED  BY <1>1, <1>2, <2>3, BackHas
  <1>3. ASSUME OneCallPerReturn(n), NEW v \in Words(b), Balanced(v) PROVE v \in Mirrored(Words(n))
    <2> DEFINE w == FlipOf(v)
    <2>1. v \in Seq(Positions)
      BY WordsAre, AllWordsAre
    <2>2. IsMirror(v, w)
      BY <2>1, MirrorIs
    <2> HIDE DEF w
    <2>3. w \in Words(n)
      BY <1>1, <1>3, <2>2, BackOnly
    <2>4. IsMirror(w, v)
      BY <2>2, MirrorBack
    <2>5. v = FlipOf(w)
      BY <2>4, MirrorBack
    <2> QED  BY <2>3, <2>5, MirroredAre
  <1> QED  BY <1>2, <1>3 DEF b

-----------------------------------------------------------------------------
(* The inductive invariant of the constructions: beside that of the        *)
(* session, the keys of the edited automaton are the ones the client has,  *)
(* so that none is the key star starts from; the other automaton is the    *)
(* one the session began with; and the two of a union or a concatenation   *)
(* share no state, as the assertion before them found out.                 *)
BuildInv ==
    /\ SessionInv /\ Shaped(nwa) /\ arg \in Args
    /\ nwa.states \subseteq StateKeys
    /\ op \in {"union", "concat"} => Disjoint(nwa, arg)

LEMMA EditedKeys ==
    ASSUME WellFormed(nwa), nwa.states \subseteq StateKeys, Keeping \/ Changing
    PROVE  nwa'.states \subseteq StateKeys
  <1>1. Fresh \in StateKeys /\ \A t \in Calls \cup Internals \cup Returns : Ends(t) \subseteq StateKeys
    <2>1. ASSUME NEW t \in Calls \cup Internals \cup Returns PROVE Ends(t) \subseteq StateKeys
      BY DEF StateKeys
    <2> QED  BY <2>1 DEF StateKeys
  <1> QED  BY <1>1, EditReach

LEMMA BuildStep ==
    ASSUME BuildInv, [Next]_vars
    PROVE  BuildInv'
  <1>1. SessionInv /\ Shaped(nwa) /\ WellFormed(nwa) /\ Sound(nwa) /\ arg \in Args /\ nwa.states \subseteq StateKeys
    BY DEF BuildInv, SessionInv, Finite, Sound
  <1>2. SessionInv'
    BY <1>1, SessionStep
  <1>3. CASE Keeping \/ Changing
    <2>1. op = "none" /\ op' = op /\ arg' = arg
      BY <1>3 DEF Keeping, Changing, Duplicate, Realize, RemoveImplicit, Prune, AddTrans, RemoveTrans,
                  RemoveState, RemoveSymbol, Edit
    <2>2. Shaped(nwa')
      BY <1>1, <1>3, KeepingWords, ChangingShaped DEF Keeping
    <2>3. nwa'.states \subseteq StateKeys
      BY <1>1, <1>3, EditedKeys
    <2> QED  BY <1>1, <1>2, <2>1, <2>2, <2>3 DEF BuildInv
  <1>4. CASE Building \/ Drop \/ UNCHANGED vars
    <2>1. nwa' = nwa /\ arg' = arg
      BY <1>4 DEF Building, Union, Concat, Star, Reversal, Determinization, Complementation, Intersection, Quotient,
                  Construct, Drop, vars
    <2>2. op' \in {"union", "concat"} => Disjoint(nwa, arg)
      BY <1>4 DEF BuildInv, Building, Union, Concat, Star, Reversal, Determinization, Complementation, Intersection,
                  Quotient, Construct, Drop, vars, Disjoint, statesOverlap
    <2> QED  BY <1>1, <1>2, <2>1, <2>2 DEF BuildInv
  <1> QED  BY <1>3, <1>4 DEF Next, Building

LEMMA BuildAlways == Spec => []BuildInv
  <1>1. Init => SessionInv
    <2>1. Init => TypeOK
      BY SessionAssumption, NoNwaWellFormed DEF Init, TypeOK
    <2>2. Init => Finite(nwa) /\ Finite(arg) /\ ResultOf
      BY SessionAssumption DEF Init, Finite, ResultOf
    <2> QED  BY <2>1, <2>2 DEF SessionInv
  <1>2. Init => BuildInv
    BY <1>1, SessionAssumption DEF Init, BuildInv, StateKeys
  <1>3. BuildInv /\ [Next]_vars => BuildInv'
    BY BuildStep
  <1> QED  BY <1>2, <1>3, PTL DEF Spec

(* For all automata and words up to any length: a union, concatenation,    *)
(* star, intersection, reversal or quotient has the language it is named   *)
(* for, but for the words with a pending call or return that               *)
(* BuildsItsLanguage excepts.                                              *)
THEOREM NwaBuildsItsLanguage == Spec => []BuildsItsLanguage
  <1>1. BuildInv => BuildsItsLanguage
    <2> SUFFICES ASSUME BuildInv PROVE BuildsItsLanguage
      OBVIOUS
    <2>1. Sound(nwa) /\ Sound(arg) /\ ResultOf
      BY SessionAssumption DEF BuildInv, SessionInv, Sound
    <2>2. Marked(nwa)
      BY KeyAssumption DEF BuildInv, Marked
    <2>3. op \in {"union", "concat"} => Disjoint(nwa, arg)
      BY DEF BuildInv
    <2> DEFINE V == Words(nwa)
               W == Words(arg)
               X == Words(out)
    <2>4. CASE op = "union"
      <3>1. X = V \cup W
        BY <2>1, <2>3, <2>4, UnionWords DEF ResultOf
      <3> HIDE DEF V, W, X
      <3>2. Combined(V, W, X)
        BY <2>4, <3>1 DEF Combined
      <3> QED  BY <3>2 DEF BuildsItsLanguage, V, W, X
    <2>5. CASE op = "concat"
      <3>1. X \subseteq Catenations(V, W) /\ NoPendingReturn(X) = NoPendingReturn(Catenations(V, W))
        BY <2>1, <2>3, <2>5, ConcatWords DEF ResultOf
      <3> HIDE DEF V, W, X
      <3>2. Combined(V, W, X)
        BY <2>5, <3>1 DEF Combined
      <3> QED  BY <3>2 DEF BuildsItsLanguage, V, W, X
    <2>6. CASE op = "star"
      <3>1. X = Closure(V)
        BY <2>1, <2>2, <2>6, StarWords DEF ResultOf
      <3> HIDE DEF V, W, X
      <3>2. Combined(V, W, X)
        BY <2>6, <3>1 DEF Combined
      <3> QED  BY <3>2 DEF BuildsItsLanguage, V, W, X
    <2>7. CASE op = "intersect"
      <3>1. /\ V \cap W \subseteq X /\ NoPendingReturn(X) \subseteq V \cap W
            /\ StartsClosed(nwa) /\ StartsClosed(arg) => X = V \cap W
        BY <2>1, <2>7, IntersectWords DEF ResultOf
      <3> HIDE DEF V, W, X
      <3>2. Combined(V, W, X)
        BY <2>7, <3>1 DEF Combined
      <3> QED  BY <3>2 DEF BuildsItsLanguage, V, W, X
    <2>8. CASE op = "reverse"
      <3>1. /\ {w \in Mirrored(V) : Balanced(w)} \subseteq {w \in X : Balanced(w)}
            /\ OneCallPerReturn(nwa) => {w \in X : Balanced(w)} = {w \in Mirrored(V) : Balanced(w)}
        BY <2>1, <2>2, <2>8, ReverseWords DEF ResultOf, Marked
      <3> HIDE DEF V, W, X
      <3>2. Combined(V, W, X)
        BY <2>8, <3>1 DEF Combined
      <3> QED  BY <3>2 DEF BuildsItsLanguage, V, W, X
    <2>9. CASE op = "quotient"
      <3>1. V \subseteq X
        BY <2>1, <2>9, QuotientWords DEF ResultOf
      <3> HIDE DEF V, W, X
      <3>2. Combined(V, W, X)
        BY <2>9, <3>1 DEF Combined
      <3> QED  BY <3>2 DEF BuildsItsLanguage, V, W, X
    <2>10. CASE op \in {"none", "determinize", "complement"}
      BY <2>10 DEF BuildsItsLanguage, Combined
    <2> QED  BY <2>1, <2>4, <2>5, <2>6, <2>7, <2>8, <2>9, <2>10 DEF ResultOf
  <1> QED  BY <1>1, BuildAlways, PTL
==============================================================================
