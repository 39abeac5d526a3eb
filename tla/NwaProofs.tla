----------------------------- MODULE NwaProofs -----------------------------
(***************************************************************************)
(* Proofs about opennwa, for any automata with finitely many states and    *)
(* words up to any length: every operation returns an automaton, what      *)
(* determinize and complement return is deterministic and has the language *)
(* it is named for, and so have the automata the edits return.             *)
(*                                                                         *)
(* A closure and a saturation are rounds that only add, and come to the    *)
(* least set no round adds to.  The run on a word is a set of              *)
(* configurations after each number of positions, so what holds of runs    *)
(* is shown by induction on the positions: an automaton simulates another  *)
(* when its configurations follow those of the other step by step.         *)
(***************************************************************************)
EXTENDS NwaSession, TLAPS, FiniteSetTheorems, WellFoundedInduction, SequenceTheorems

LEMMA WithinMore ==
    ASSUME NEW T, NEW Q, NEW S, Within(T, Q, S), NEW Q2, NEW S2, Q \subseteq Q2, S \subseteq S2
    PROVE  Within(T, Q2, S2)
  BY DEF Within

LEMMA WithinNew ==
    ASSUME NEW T, NEW Q, NEW S
    PROVE  Within(T, Q \cup UNION {Ends(t) : t \in T}, S \cup Letters({t.sym : t \in T}))
  BY DEF Within, Letters

LEMMA AutomatonWellFormed ==
    ASSUME NEW Q, NEW S, NEW I, NEW F, NEW C, NEW L, NEW R,
           I \subseteq Q, F \subseteq Q, S \cap {EPSILON, WILD} = {},
           Within(C, Q, S), Within(L, Q, S), Within(R, Q, S), Visible(C), Visible(R)
    PROVE  WellFormed(Automaton(Q, S, I, F, C, L, R))
  <1> DEFINE n == Automaton(Q, S, I, F, C, L, R)
  <1>1. /\ n.states = Q /\ n.symbols = S /\ n.initial = I /\ n.final = F
        /\ n.calls = C /\ n.internals = L /\ n.returns = R
    BY DEF Automaton
  <1>2. Within(C \cup L \cup R, Q, S) /\ Visible(C \cup R)
    BY DEF Within, Visible
  <1> HIDE DEF n
  <1>3. n = Automaton(n.states, n.symbols, n.initial, n.final, n.calls, n.internals, n.returns)
    BY <1>1 DEF n
  <1>4. WellFormed(n)
    BY <1>1, <1>2, <1>3 DEF WellFormed
  <1> QED  BY <1>4 DEF n

LEMMA WellFormedParts ==
    ASSUME NEW n, WellFormed(n)
    PROVE  /\ n = Automaton(n.states, n.symbols, n.initial, n.final, n.calls, n.internals, n.returns)
           /\ n.initial \subseteq n.states /\ n.final \subseteq n.states
           /\ n.symbols \cap {EPSILON, WILD} = {}
           /\ Within(n.calls, n.states, n.symbols)
           /\ Within(n.internals, n.states, n.symbols)
           /\ Within(n.returns, n.states, n.symbols)
           /\ Visible(n.calls) /\ Visible(n.returns)
  BY DEF WellFormed, Within, Visible

LEMMA NoNwaWellFormed == WellFormed(NoNwa)
  BY AutomatonWellFormed DEF NoNwa, Automaton, Within, Visible

(* An automaton with one field replaced. *)
Whole(n) == n = Automaton(n.states, n.symbols, n.initial, n.final, n.calls, n.internals, n.returns)

LEMMA Fields ==
    ASSUME NEW Q, NEW S, NEW I, NEW F, NEW C, NEW L, NEW R, NEW n, n = Automaton(Q, S, I, F, C, L, R)
    PROVE  /\ n.states = Q /\ n.symbols = S /\ n.initial = I /\ n.final = F
           /\ n.calls = C /\ n.internals = L /\ n.returns = R
           /\ Whole(n)
  BY DEF Automaton, Whole

LEMMA Replaced ==
    ASSUME NEW n, Whole(n), NEW X
    PROVE  /\ [n EXCEPT !.states = X] = Automaton(X, n.symbols, n.initial, n.final, n.calls, n.internals, n.returns)
           /\ [n EXCEPT !.symbols = X] = Automaton(n.states, X, n.initial, n.final, n.calls, n.internals, n.returns)
           /\ [n EXCEPT !.initial = X] = Automaton(n.states, n.symbols, X, n.final, n.calls, n.internals, n.returns)
           /\ [n EXCEPT !.final = X] = Automaton(n.states, n.symbols, n.initial, X, n.calls, n.internals, n.returns)
  <1> DEFINE Q == n.states
             S == n.symbols
             I == n.initial
             F == n.final
             C == n.calls
             L == n.internals
             R == n.returns
  <1>1. n = Automaton(Q, S, I, F, C, L, R)
    BY DEF Whole
  <1> HIDE DEF Q, S, I, F, C, L, R
  <1>2. /\ [n EXCEPT !.states = X] = Automaton(X, S, I, F, C, L, R)
        /\ [n EXCEPT !.symbols = X] = Automaton(Q, X, I, F, C, L, R)
        /\ [n EXCEPT !.initial = X] = Automaton(Q, S, X, F, C, L, R)
        /\ [n EXCEPT !.final = X] = Automaton(Q, S, I, X, C, L, R)
    BY <1>1 DEF Automaton
  <1> QED  BY <1>2 DEF Q, S, I, F, C, L, R

LEMMA ReplacedTrans ==
    ASSUME NEW n, Whole(n), NEW X
    PROVE  /\ [n EXCEPT !.calls = X]
                = Automaton(n.states, n.symbols, n.initial, n.final, X, n.internals, n.returns)
           /\ [n EXCEPT !.internals = X]
                = Automaton(n.states, n.symbols, n.initial, n.final, n.calls, X, n.returns)
           /\ [n EXCEPT !.returns = X]
                = Automaton(n.states, n.symbols, n.initial, n.final, n.calls, n.internals, X)
  <1> DEFINE Q == n.states
             S == n.symbols
             I == n.initial
             F == n.final
             C == n.calls
             L == n.internals
             R == n.returns
  <1>1. n = Automaton(Q, S, I, F, C, L, R)
    BY DEF Whole
  <1> HIDE DEF Q, S, I, F, C, L, R
  <1>2. /\ [n EXCEPT !.calls = X] = Automaton(Q, S, I, F, X, L, R)
        /\ [n EXCEPT !.internals = X] = Automaton(Q, S, I, F, C, X, R)
        /\ [n EXCEPT !.returns = X] = Automaton(Q, S, I, F, C, L, X)
    BY <1>1 DEF Automaton
  <1> QED  BY <1>2 DEF Q, S, I, F, C, L, R

(* The three ways to add transitions. *)
Touched(T) == UNION {Ends(t) : t \in T}
Reached(n, T) == n.states \cup Touched(T)
Learned(n, T) == n.symbols \cup Letters({t.sym : t \in T})

LEMMA Adding ==
    ASSUME NEW n, Whole(n), NEW T
    PROVE  /\ addCalls(n, T) = Automaton(Reached(n, T), Learned(n, T), n.initial, n.final,
                                         n.calls \cup T, n.internals, n.returns)
           /\ addInternals(n, T) = Automaton(Reached(n, T), Learned(n, T), n.initial, n.final,
                                             n.calls, n.internals \cup T, n.returns)
           /\ addReturns(n, T) = Automaton(Reached(n, T), Learned(n, T), n.initial, n.final,
                                           n.calls, n.internals, n.returns \cup T)
  <1> DEFINE m == addStates(n, UNION {Ends(t) : t \in T})
             l == WithEnds(n, T)
             Q == Reached(n, T)
             S == Learned(n, T)
  <1>1. /\ m = [n EXCEPT !.states = Q]
        /\ l = [m EXCEPT !.symbols = m.symbols \cup Letters({t.sym : t \in T})]
    BY DEF addStates, WithEnds, Reached, Touched
  <1>2. addCalls(n, T) = [l EXCEPT !.calls = l.calls \cup T]
    BY DEF addCalls
  <1>3. addInternals(n, T) = [l EXCEPT !.internals = l.internals \cup T]
    BY DEF addInternals
  <1>4. addReturns(n, T) = [l EXCEPT !.returns = l.returns \cup T]
    BY DEF addReturns
  <1> HIDE DEF m, l, Q, S
  <1>5. m = Automaton(Q, n.symbols, n.initial, n.final, n.calls, n.internals, n.returns)
    BY <1>1, Replaced
  <1>6. /\ Whole(m) /\ m.states = Q /\ m.symbols = n.symbols /\ m.initial = n.initial /\ m.final = n.final
        /\ m.calls = n.calls /\ m.internals = n.internals /\ m.returns = n.returns
    BY <1>5, Fields
  <1>7. l = Automaton(Q, S, n.initial, n.final, n.calls, n.internals, n.returns)
    <2>1. l = [m EXCEPT !.symbols = S]
      BY <1>1, <1>6 DEF S, Learned
    <2>2. [m EXCEPT !.symbols = S]
            = Automaton(m.states, S, m.initial, m.final, m.calls, m.internals, m.returns)
      BY <1>6, Replaced
    <2> QED  BY <2>1, <2>2, <1>6
  <1>8. /\ Whole(l) /\ l.states = Q /\ l.symbols = S /\ l.initial = n.initial /\ l.final = n.final
        /\ l.calls = n.calls /\ l.internals = n.internals /\ l.returns = n.returns
    BY <1>7, Fields
  <1>9. addCalls(n, T) = Automaton(Q, S, n.initial, n.final, n.calls \cup T, n.internals, n.returns)
    <2>1. addCalls(n, T) = [l EXCEPT !.calls = n.calls \cup T]
      BY <1>2, <1>8
    <2>2. [l EXCEPT !.calls = n.calls \cup T]
            = Automaton(l.states, l.symbols, l.initial, l.final, n.calls \cup T, l.internals, l.returns)
      BY <1>8, ReplacedTrans
    <2> QED  BY <2>1, <2>2, <1>8
  <1>10. addInternals(n, T) = Automaton(Q, S, n.initial, n.final, n.calls, n.internals \cup T, n.returns)
    <2>1. addInternals(n, T) = [l EXCEPT !.internals = n.internals \cup T]
      BY <1>3, <1>8
    <2>2. [l EXCEPT !.internals = n.internals \cup T]
            = Automaton(l.states, l.symbols, l.initial, l.final, l.calls, n.internals \cup T, l.returns)
      BY <1>8, ReplacedTrans
    <2> QED  BY <2>1, <2>2, <1>8
  <1>11. addReturns(n, T) = Automaton(Q, S, n.initial, n.final, n.calls, n.internals, n.returns \cup T)
    <2>1. addReturns(n, T) = [l EXCEPT !.returns = n.returns \cup T]
      BY <1>4, <1>8
    <2>2. [l EXCEPT !.returns = n.returns \cup T]
            = Automaton(l.states, l.symbols, l.initial, l.final, l.calls, l.internals, n.returns \cup T)
      BY <1>8, ReplacedTrans
    <2> QED  BY <2>1, <2>2, <1>8
  <1> QED  BY <1>9, <1>10, <1>11 DEF Q, S

LEMMA Added ==
    ASSUME NEW n, WellFormed(n), NEW T
    PROVE  /\ Visible(T) => WellFormed(addCalls(n, T))
           /\ WellFormed(addInternals(n, T))
           /\ Visible(T) => WellFormed(addReturns(n, T))
  <1> DEFINE Q == Reached(n, T)
             S == Learned(n, T)
  <1>1. Whole(n)
    BY DEF WellFormed, Whole
  <1>2. /\ n.initial \subseteq Q /\ n.final \subseteq Q /\ S \cap {EPSILON, WILD} = {}
        /\ Within(T, Q, S) /\ n.states \subseteq Q /\ n.symbols \subseteq S
    BY WellFormedParts, WithinNew DEF Letters, Reached, Touched, Learned
  <1> HIDE DEF Q, S
  <1>3. /\ addCalls(n, T) = Automaton(Q, S, n.initial, n.final, n.calls \cup T, n.internals, n.returns)
        /\ addInternals(n, T) = Automaton(Q, S, n.initial, n.final, n.calls, n.internals \cup T, n.returns)
        /\ addReturns(n, T) = Automaton(Q, S, n.initial, n.final, n.calls, n.internals, n.returns \cup T)
    BY <1>1, Adding DEF Q, S
  <1>4. /\ Within(n.calls, Q, S) /\ Within(n.internals, Q, S) /\ Within(n.returns, Q, S)
        /\ Visible(n.calls) /\ Visible(n.returns)
    BY <1>2, WellFormedParts, WithinMore
  <1>5. /\ Within(n.calls \cup T, Q, S) /\ Within(n.internals \cup T, Q, S) /\ Within(n.returns \cup T, Q, S)
        /\ Visible(T) => Visible(n.calls \cup T) /\ Visible(n.returns \cup T)
    BY <1>2, <1>4 DEF Within, Visible
  <1> QED  BY <1>2, <1>3, <1>4, <1>5, AutomatonWellFormed

(* Adding states, removing, and marking others final. *)
LEMMA States ==
    ASSUME NEW n, WellFormed(n), NEW Q
    PROVE  /\ WellFormed(addStates(n, Q)) /\ WellFormed(addInitialStates(n, Q)) /\ WellFormed(addFinalStates(n, Q))
           /\ \A m \in {addStates(n, Q), addInitialStates(n, Q), addFinalStates(n, Q)} :
                m.calls = n.calls /\ m.internals = n.internals /\ m.returns = n.returns
           /\ \A m \in {addStates(n, Q), addInitialStates(n, Q), addFinalStates(n, Q)} :
                m.states = n.states \cup Q /\ m.symbols = n.symbols
           /\ addStates(n, Q).initial = n.initial /\ addFinalStates(n, Q).initial = n.initial
           /\ addInitialStates(n, Q).initial = n.initial \cup Q
           /\ addStates(n, Q).final = n.final /\ addInitialStates(n, Q).final = n.final
           /\ addFinalStates(n, Q).final = n.final \cup Q
  <1> DEFINE m == addStates(n, Q)
  <1>1. m = Automaton(n.states \cup Q, n.symbols, n.initial, n.final, n.calls, n.internals, n.returns)
    <2>1. m = [n EXCEPT !.states = n.states \cup Q]
      BY DEF addStates
    <2>2. Whole(n)
      BY DEF WellFormed, Whole
    <2> QED  BY <2>1, <2>2, Replaced
  <1>2. /\ Whole(m) /\ m.states = n.states \cup Q /\ m.symbols = n.symbols
        /\ m.initial = n.initial /\ m.final = n.final
        /\ m.calls = n.calls /\ m.internals = n.internals /\ m.returns = n.returns
    BY <1>1, Fields
  <1>3. /\ addInitialStates(n, Q) = [m EXCEPT !.initial = m.initial \cup Q]
        /\ addFinalStates(n, Q) = [m EXCEPT !.final = m.final \cup Q]
    BY DEF addInitialStates, addFinalStates
  <1> HIDE DEF m
  <1>4. /\ Within(n.calls, n.states \cup Q, n.symbols) /\ Within(n.internals, n.states \cup Q, n.symbols)
        /\ Within(n.returns, n.states \cup Q, n.symbols)
    BY WellFormedParts, WithinMore
  <1>5. WellFormed(m)
    BY <1>1, <1>4, WellFormedParts, AutomatonWellFormed
  <1>6. addInitialStates(n, Q) = Automaton(n.states \cup Q, n.symbols, n.initial \cup Q, n.final,
                                           n.calls, n.internals, n.returns)
    <2>1. addInitialStates(n, Q) = [m EXCEPT !.initial = n.initial \cup Q]
      BY <1>2, <1>3
    <2>2. [m EXCEPT !.initial = n.initial \cup Q]
            = Automaton(m.states, m.symbols, n.initial \cup Q, m.final, m.calls, m.internals, m.returns)
      BY <1>2, Replaced
    <2> QED  BY <2>1, <2>2, <1>2
  <1>7. addFinalStates(n, Q) = Automaton(n.states \cup Q, n.symbols, n.initial, n.final \cup Q,
                                         n.calls, n.internals, n.returns)
    <2>1. addFinalStates(n, Q) = [m EXCEPT !.final = n.final \cup Q]
      BY <1>2, <1>3
    <2>2. [m EXCEPT !.final = n.final \cup Q]
            = Automaton(m.states, m.symbols, m.initial, n.final \cup Q, m.calls, m.internals, m.returns)
      BY <1>2, Replaced
    <2> QED  BY <2>1, <2>2, <1>2
  <1>8. WellFormed(addInitialStates(n, Q))
    BY <1>4, <1>6, WellFormedParts, AutomatonWellFormed
  <1>9. WellFormed(addFinalStates(n, Q))
    BY <1>4, <1>7, WellFormedParts, AutomatonWellFormed
  <1>10. /\ addInitialStates(n, Q).states = n.states \cup Q /\ addInitialStates(n, Q).symbols = n.symbols
         /\ addInitialStates(n, Q).final = n.final
         /\ addInitialStates(n, Q).initial = n.initial \cup Q /\ addInitialStates(n, Q).calls = n.calls
         /\ addInitialStates(n, Q).internals = n.internals /\ addInitialStates(n, Q).returns = n.returns
    BY <1>6, Fields
  <1>11. /\ addFinalStates(n, Q).states = n.states \cup Q /\ addFinalStates(n, Q).symbols = n.symbols
         /\ addFinalStates(n, Q).final = n.final \cup Q
         /\ addFinalStates(n, Q).initial = n.initial /\ addFinalStates(n, Q).calls = n.calls
         /\ addFinalStates(n, Q).internals = n.internals /\ addFinalStates(n, Q).returns = n.returns
    BY <1>7, Fields
  <1> QED  BY <1>2, <1>5, <1>8, <1>9, <1>10, <1>11 DEF m

LEMMA Fewer ==
    ASSUME NEW n, WellFormed(n), NEW C \in SUBSET n.calls, NEW L \in SUBSET n.internals, NEW R \in SUBSET n.returns
    PROVE  WellFormed(Automaton(n.states, n.symbols, n.initial, n.final, C, L, R))
  <1>1. /\ Within(C, n.states, n.symbols) /\ Within(L, n.states, n.symbols) /\ Within(R, n.states, n.symbols)
        /\ Visible(C) /\ Visible(R)
    BY WellFormedParts DEF Within, Visible
  <1> QED  BY <1>1, WellFormedParts, AutomatonWellFormed

LEMMA TransRemoved ==
    ASSUME NEW n, WellFormed(n), NEW t
    PROVE  /\ WellFormed([n EXCEPT !.calls = @ \ {t}])
           /\ WellFormed([n EXCEPT !.internals = @ \ {t}])
           /\ WellFormed([n EXCEPT !.returns = @ \ {t}])
  <1>1. Whole(n)
    BY DEF WellFormed, Whole
  <1>2. [n EXCEPT !.calls = n.calls \ {t}]
          = Automaton(n.states, n.symbols, n.initial, n.final, n.calls \ {t}, n.internals, n.returns)
    BY <1>1, ReplacedTrans
  <1>3. [n EXCEPT !.internals = n.internals \ {t}]
          = Automaton(n.states, n.symbols, n.initial, n.final, n.calls, n.internals \ {t}, n.returns)
    BY <1>1, ReplacedTrans
  <1>4. [n EXCEPT !.returns = n.returns \ {t}]
          = Automaton(n.states, n.symbols, n.initial, n.final, n.calls, n.internals, n.returns \ {t})
    BY <1>1, ReplacedTrans
  <1>5. WellFormed(Automaton(n.states, n.symbols, n.initial, n.final, n.calls \ {t}, n.internals, n.returns))
    BY Fewer
  <1>6. WellFormed(Automaton(n.states, n.symbols, n.initial, n.final, n.calls, n.internals \ {t}, n.returns))
    BY Fewer
  <1>7. WellFormed(Automaton(n.states, n.symbols, n.initial, n.final, n.calls, n.internals, n.returns \ {t}))
    BY Fewer
  <1> QED  BY <1>2, <1>3, <1>4, <1>5, <1>6, <1>7

LEMMA StatesRemoved ==
    ASSUME NEW n, WellFormed(n), NEW Q
    PROVE  WellFormed(removeStates(n, Q))
  <1> DEFINE without(T) == {t \in T : Ends(t) \cap Q = {}}
  <1>1. ASSUME NEW T, Within(T, n.states, n.symbols)
        PROVE  Within(without(T), n.states \ Q, n.symbols)
    BY <1>1 DEF Within
  <1>2. /\ Within(without(n.calls), n.states \ Q, n.symbols)
        /\ Within(without(n.internals), n.states \ Q, n.symbols)
        /\ Within(without(n.returns), n.states \ Q, n.symbols)
    BY <1>1, WellFormedParts
  <1>3. Visible(without(n.calls)) /\ Visible(without(n.returns))
    BY WellFormedParts DEF Visible
  <1>4. /\ n.initial \ Q \subseteq n.states \ Q /\ n.final \ Q \subseteq n.states \ Q
        /\ n.symbols \cap {EPSILON, WILD} = {}
    BY WellFormedParts
  <1> HIDE DEF without
  <1>5. WellFormed(Automaton(n.states \ Q, n.symbols, n.initial \ Q, n.final \ Q,
                             without(n.calls), without(n.internals), without(n.returns)))
    BY <1>2, <1>3, <1>4, AutomatonWellFormed
  <1> QED  BY <1>5 DEF removeStates, without

LEMMA SymbolRemoved ==
    ASSUME NEW n, WellFormed(n), NEW s
    PROVE  WellFormed(removeSymbol(n, s))
  <1> DEFINE without(T) == {t \in T : t.sym # s}
  <1>1. ASSUME NEW T, Within(T, n.states, n.symbols)
        PROVE  Within(without(T), n.states, n.symbols \ {s})
    BY <1>1 DEF Within
  <1>2. /\ Within(without(n.calls), n.states, n.symbols \ {s})
        /\ Within(without(n.internals), n.states, n.symbols \ {s})
        /\ Within(without(n.returns), n.states, n.symbols \ {s})
    BY <1>1, WellFormedParts
  <1>3. Visible(without(n.calls)) /\ Visible(without(n.returns))
    BY WellFormedParts DEF Visible
  <1>4. (n.symbols \ {s}) \cap {EPSILON, WILD} = {}
    BY WellFormedParts
  <1> HIDE DEF without
  <1>5. WellFormed(Automaton(n.states, n.symbols \ {s}, n.initial, n.final,
                             without(n.calls), without(n.internals), without(n.returns)))
    BY <1>2, <1>3, <1>4, WellFormedParts, AutomatonWellFormed
  <1>6. CASE s \in n.symbols
    BY <1>5, <1>6 DEF removeSymbol, without
  <1>7. CASE s \notin n.symbols
    BY <1>7 DEF removeSymbol
  <1> QED  BY <1>6, <1>7

LEMMA EdgeEnds ==
    ASSUME NEW x, NEW s, NEW z
    PROVE  /\ Ends(Edge(x, s, z)) = {x, z} /\ Edge(x, s, z).sym = s
           /\ Edge(x, s, z).from = x /\ Edge(x, s, z).to = z
  BY DEF Ends, Edge

LEMMA ReturnEnds ==
    ASSUME NEW x, NEW y, NEW s, NEW z
    PROVE  /\ Ends(Return(x, y, s, z)) = {x, y, z} /\ Return(x, y, s, z).sym = s
           /\ Return(x, y, s, z).from = x /\ Return(x, y, s, z).pred = y /\ Return(x, y, s, z).to = z
  BY DEF Ends, Return

(* A copy of a state, and of the transitions that mention it. *)
LEMMA CopiesWithin ==
    ASSUME NEW T, NEW Q, NEW S, Within(T, Q, S), NEW orig \in Q, NEW dup, NEW fields
    PROVE  /\ Within(Copied(T, orig, dup, fields), Q \cup {dup}, S)
           /\ Visible(T) => Visible(Copied(T, orig, dup, fields))
  <1> DEFINE as(q, f) == IF q = orig /\ f \in fields THEN {orig, dup} ELSE {q}
             rets(t) == {Return(x, y, t.sym, z) : x \in as(t.from, "from"),
                           y \in as(t.pred, "pred"), z \in as(t.to, "to")}
             edges(t) == {Edge(x, t.sym, z) : x \in as(t.from, "from"), z \in as(t.to, "to")}
             copies(t) == IF "pred" \in DOMAIN t THEN rets(t) ELSE edges(t)
  <1>1. ASSUME NEW t \in T, NEW c \in copies(t)
        PROVE  Ends(c) \subseteq Q \cup {dup} /\ c.sym = t.sym
    <2> DEFINE A == as(t.from, "from")
               B == as(t.pred, "pred")
               C == as(t.to, "to")
    <2>1. t.from \in Q /\ t.to \in Q
      BY DEF Within, Ends
    <2>2. A \in SUBSET (Q \cup {dup}) /\ C \in SUBSET (Q \cup {dup})
      BY <2>1
    <2>3. CASE "pred" \in DOMAIN t
      <3>1. t.pred \in Q
        BY <2>3 DEF Within, Ends
      <3>2. B \in SUBSET (Q \cup {dup})
        BY <3>1
      <3>3. c \in {Return(x, y, t.sym, z) : x \in A, y \in B, z \in C}
        BY <1>1, <2>3
      <3> HIDE DEF A, B, C
      <3>4. PICK x \in A, y \in B, z \in C : c = Return(x, y, t.sym, z)
        BY <3>3
      <3> QED  BY <2>2, <3>2, <3>4, ReturnEnds
    <2>4. CASE "pred" \notin DOMAIN t
      <3>1. c \in {Edge(x, t.sym, z) : x \in A, z \in C}
        BY <1>1, <2>4
      <3> HIDE DEF A, C
      <3>2. PICK x \in A, z \in C : c = Edge(x, t.sym, z)
        BY <3>1
      <3> QED  BY <2>2, <3>2, EdgeEnds
    <2> QED  BY <2>3, <2>4
  <1>2. Copied(T, orig, dup, fields) = UNION {copies(t) : t \in T}
    BY DEF Copied
  <1> HIDE DEF copies
  <1> QED  BY <1>1, <1>2 DEF Within, Visible

LEMMA Duplication ==
    ASSUME NEW n, WellFormed(n), NEW orig \in n.states, NEW dup, NEW fields
    PROVE  WellFormed(Duplicated(n, orig, dup, fields))
  <1> DEFINE as(Q) == IF orig \in Q THEN Q \cup {dup} ELSE Q
             copied(T) == Copied(T, orig, dup, fields)
  <1>1. /\ Within(copied(n.calls), n.states \cup {dup}, n.symbols)
        /\ Within(copied(n.internals), n.states \cup {dup}, n.symbols)
        /\ Within(copied(n.returns), n.states \cup {dup}, n.symbols)
        /\ Visible(copied(n.calls)) /\ Visible(copied(n.returns))
    BY WellFormedParts, CopiesWithin
  <1>2. /\ as(n.initial) \subseteq n.states \cup {dup} /\ as(n.final) \subseteq n.states \cup {dup}
        /\ n.symbols \cap {EPSILON, WILD} = {}
    BY WellFormedParts
  <1> HIDE DEF as, copied
  <1>3. WellFormed(Automaton(n.states \cup {dup}, n.symbols, as(n.initial), as(n.final),
                             copied(n.calls), copied(n.internals), copied(n.returns)))
    BY <1>1, <1>2, AutomatonWellFormed
  <1> QED  BY <1>3 DEF Duplicated, as, copied

(* The implicit transitions. *)
LEMMA Realized ==
    ASSUME NEW n, WellFormed(n), NEW stuck, NEW met, NEW early
    PROVE  WellFormed(realizeImplicitTrans(n, stuck, met, early))
  <1> DEFINE all == n.states \cup {stuck}
             pairs == (IF met THEN all ELSE n.states) \X n.symbols
             into(T) == {Edge(x[1], x[2], stuck) : x \in {y \in pairs : ~Has(T, y)}}
             preds(x) == Called(n, x, IF x \in early THEN n.states ELSE all)
             returns == UNION {{Return(x[1], p, x[2], stuck) : p \in preds(x)} : x \in pairs}
  <1>1. \A x \in pairs : x[2] # EPSILON
    BY WellFormedParts
  <1>2. \A T : Visible(into(T))
    BY <1>1, EdgeEnds DEF Visible
  <1>3. Visible(returns)
    BY <1>1, ReturnEnds DEF Visible
  <1>4. realizeImplicitTrans(n, stuck, met, early)
          = addReturns(addInternals(addCalls(n, into(n.calls)), into(n.internals)), returns)
    BY DEF realizeImplicitTrans
  <1> HIDE DEF into, returns
  <1> QED  BY <1>2, <1>3, <1>4, Added

(* The constructions. *)
LEMMA Combining ==
    ASSUME NEW n, WellFormed(n), NEW m, WellFormed(m)
    PROVE  /\ WellFormed(combineWith(n, m))
           /\ WellFormed([[combineWith(n, m) EXCEPT !.initial = n.initial] EXCEPT !.final = m.final])
  <1> DEFINE Q == n.states \cup m.states
             S == n.symbols \cup m.symbols
             I == n.initial \cup m.initial
             F == n.final \cup m.final
             C == n.calls \cup m.calls
             L == n.internals \cup m.internals
             R == n.returns \cup m.returns
             both == combineWith(n, m)
             from == [both EXCEPT !.initial = n.initial]
  <1>1. /\ Within(n.calls, Q, S) /\ Within(n.internals, Q, S) /\ Within(n.returns, Q, S)
        /\ Within(m.calls, Q, S) /\ Within(m.internals, Q, S) /\ Within(m.returns, Q, S)
    BY WellFormedParts, WithinMore
  <1>2. Within(C, Q, S) /\ Within(L, Q, S) /\ Within(R, Q, S)
    BY <1>1 DEF Within
  <1>3. Visible(C) /\ Visible(R)
    BY WellFormedParts DEF Visible
  <1>4. I \subseteq Q /\ F \subseteq Q /\ n.initial \subseteq Q /\ m.final \subseteq Q /\ S \cap {EPSILON, WILD} = {}
    BY WellFormedParts
  <1>5. both = Automaton(Q, S, I, F, C, L, R)
    BY DEF combineWith
  <1> HIDE DEF Q, S, I, F, C, L, R, both
  <1>6. /\ Whole(both) /\ both.states = Q /\ both.symbols = S /\ both.initial = I /\ both.final = F
        /\ both.calls = C /\ both.internals = L /\ both.returns = R
    BY <1>5, Fields
  <1>7. from = Automaton(both.states, both.symbols, n.initial, both.final, both.calls, both.internals, both.returns)
    BY <1>6, Replaced
  <1> HIDE DEF from
  <1>8. /\ Whole(from) /\ from.states = Q /\ from.symbols = S /\ from.initial = n.initial
        /\ from.calls = C /\ from.internals = L /\ from.returns = R
    BY <1>6, <1>7, Fields
  <1>9. [from EXCEPT !.final = m.final]
          = Automaton(from.states, from.symbols, from.initial, m.final, from.calls, from.internals, from.returns)
    BY <1>8, Replaced
  <1>10. WellFormed(Automaton(Q, S, I, F, C, L, R)) /\ WellFormed(Automaton(Q, S, n.initial, m.final, C, L, R))
    BY <1>2, <1>3, <1>4, AutomatonWellFormed
  <1> QED  BY <1>5, <1>8, <1>9, <1>10 DEF both, from

LEMMA Concatenated ==
    ASSUME NEW n, WellFormed(n), NEW m, WellFormed(m)
    PROVE  WellFormed(concat(n, m))
  <1> DEFINE both == [[combineWith(n, m) EXCEPT !.initial = n.initial] EXCEPT !.final = m.final]
             links == {Edge(f, EPSILON, i) : f \in n.final, i \in m.initial}
             pending == {t \in m.returns : t.pred \in m.initial}
             matched == {Return(t.from, c.from, t.sym, t.to) : t \in pending, c \in n.calls}
  <1>1. Visible(matched)
    <2>1. SUFFICES ASSUME NEW r \in matched PROVE r.sym # EPSILON
      BY DEF Visible
    <2>2. PICK t \in pending, c \in n.calls : r = Return(t.from, c.from, t.sym, t.to)
      OBVIOUS
    <2> QED  BY <2>2, WellFormedParts, ReturnEnds DEF Visible
  <1>2. concat(n, m) = addReturns(addInternals(both, links), matched)
    BY DEF concat
  <1> HIDE DEF links, matched
  <1>3. WellFormed(addInternals(both, links))
    BY Combining, Added
  <1> QED  BY <1>1, <1>2, <1>3, Added

(* What a construction does with the automaton it starts from. *)
Extends(b, n, L, C, R) ==
    /\ b.initial = n.initial /\ b.final = n.final
    /\ b.states = n.states \cup Touched(L) \cup Touched(C) \cup Touched(R)
    /\ b.calls = n.calls \cup C /\ b.internals = n.internals \cup L /\ b.returns = n.returns \cup R
Build(n, L, C, R) == addReturns(addCalls(addInternals(n, L), C), R)

LEMMA BuiltFields ==
    ASSUME NEW n, WellFormed(n), NEW L, NEW C, Visible(C), NEW R, Visible(R), NEW b, b = Build(n, L, C, R)
    PROVE  WellFormed(b) /\ Extends(b, n, L, C, R)
  <1> DEFINE l == addInternals(n, L)
             c == addCalls(l, C)
             m == addReturns(c, R)
  <1>1. WellFormed(l) /\ l.states = Reached(n, L) /\ l.initial = n.initial /\ l.final = n.final
        /\ l.calls = n.calls /\ l.internals = n.internals \cup L
        /\ l.returns = n.returns
    <2>1. l = Automaton(Reached(n, L), Learned(n, L), n.initial, n.final, n.calls, n.internals \cup L, n.returns)
      BY Adding DEF WellFormed, Whole
    <2> QED  BY <2>1, Fields, Added
  <1> HIDE DEF l
  <1>2. WellFormed(c) /\ c.states = Reached(l, C) /\ c.initial = l.initial /\ c.final = l.final
        /\ c.calls = l.calls \cup C /\ c.internals = l.internals
        /\ c.returns = l.returns
    <2>1. c = Automaton(Reached(l, C), Learned(l, C), l.initial, l.final, l.calls \cup C, l.internals, l.returns)
      BY <1>1, Adding DEF WellFormed, Whole
    <2> QED  BY <1>1, <2>1, Fields, Added
  <1> HIDE DEF c
  <1>3. WellFormed(m) /\ m.states = Reached(c, R) /\ m.initial = c.initial /\ m.final = c.final
        /\ m.calls = c.calls /\ m.internals = c.internals
        /\ m.returns = c.returns \cup R
    <2>1. m = Automaton(Reached(c, R), Learned(c, R), c.initial, c.final, c.calls, c.internals, c.returns \cup R)
      BY <1>2, Adding DEF WellFormed, Whole
    <2> QED  BY <1>2, <2>1, Fields, Added
  <1> HIDE DEF m
  <1>4. /\ m.states = n.states \cup Touched(L) \cup Touched(C) \cup Touched(R)
        /\ m.initial = n.initial /\ m.final = n.final
    BY <1>1, <1>2, <1>3 DEF Reached
  <1>5. m.calls = n.calls \cup C /\ m.internals = n.internals \cup L /\ m.returns = n.returns \cup R
    BY <1>1, <1>2, <1>3
  <1> QED  BY <1>3, <1>4, <1>5 DEF Build, Extends, l, c, m

LEMMA Built ==
    ASSUME NEW n, WellFormed(n), NEW L, NEW C, Visible(C), NEW R, Visible(R), NEW m, m = Build(n, L, C, R)
    PROVE  WellFormed(m)
  BY BuiltFields

LEMMA BareWellFormed ==
    ASSUME NEW Q, NEW I \in SUBSET Q, NEW F \in SUBSET Q
    PROVE  WellFormed(Automaton(Q, {}, I, F, {}, {}, {}))
  <1>1. Within({}, Q, {}) /\ Visible({}) /\ {} \cap {EPSILON, WILD} = {}
    BY DEF Within, Visible
  <1> QED  BY <1>1, AutomatonWellFormed

StarCall(t, k) == Edge(<<t.from, k>>, t.sym, P(t.to))
StarReturn(t, k) == Return(P(t.from), <<t.pred, k>>, t.sym, <<t.to, k>>)
StarPending(t, q) == Return(PP(t.from), q, t.sym, PP(t.to))

LEMMA StarSymbols ==
    ASSUME NEW t, NEW k
    PROVE  StarCall(t, k).sym = t.sym /\ StarReturn(t, k).sym = t.sym /\ StarPending(t, k).sym = t.sym
  BY EdgeEnds, ReturnEnds DEF StarCall, StarReturn, StarPending

LEMMA Starred ==
    ASSUME NEW n, WellFormed(n)
    PROVE  WellFormed(star(n))
  <1> DEFINE all == n.states \X Sides
             popped == all \cup {starStart}
             empty == Automaton(all \cup {starStart}, {}, {starStart}, {starStart}, {}, {}, {})
             links == {Edge(starStart, EPSILON, PP(i)) : i \in n.initial}
                      \cup {Edge(f, EPSILON, starStart) : f \in n.final \X Sides}
             internals == {Edge(<<t.from, k>>, t.sym, <<t.to, k>>) : t \in n.internals, k \in Sides}
             calls == {StarCall(t, k) : t \in n.calls, k \in Sides}
             matched == {StarReturn(t, k) : t \in n.returns, k \in Sides}
             pending == {StarPending(t, q) : t \in {u \in n.returns : u.pred \in n.initial}, q \in popped}
  <1>1. star(n) = Build(empty, links \cup internals, calls, matched \cup pending)
    BY DEF star, Build, StarCall, StarReturn, StarPending
  <1>2. Visible(calls)
    <2>1. \A r : r \in calls => \E t \in n.calls, k \in Sides : r = StarCall(t, k)
      OBVIOUS
    <2> HIDE DEF calls
    <2>2. \A r \in calls : \E t \in n.calls : r.sym = t.sym
      BY <2>1, StarSymbols
    <2> QED  BY <2>2, WellFormedParts DEF Visible
  <1> HIDE DEF popped
  <1>4. Visible(matched)
    <2>1. \A r : r \in matched => \E t \in n.returns, k \in Sides : r = StarReturn(t, k)
      OBVIOUS
    <2> HIDE DEF matched
    <2>2. \A r \in matched : \E t \in n.returns : r.sym = t.sym
      BY <2>1, StarSymbols
    <2> QED  BY <2>2, WellFormedParts DEF Visible
  <1>7. Visible(pending)
    <2>1. \A r : r \in pending => \E t \in n.returns, q \in popped : r = StarPending(t, q)
      OBVIOUS
    <2> HIDE DEF pending
    <2>2. \A r \in pending : \E t \in n.returns : r.sym = t.sym
      BY <2>1, StarSymbols
    <2> QED  BY <2>2, WellFormedParts DEF Visible
  <1>5. WellFormed(empty)
    BY BareWellFormed
  <1> HIDE DEF empty, links, internals, calls, matched, pending
  <1>6. Visible(matched \cup pending)
    BY <1>4, <1>7 DEF Visible
  <1> QED  BY <1>1, <1>2, <1>5, <1>6, Built

BackCall(x, k) == Edge(<<x[2].to, k>>, x[2].sym, P(x[2].from))
BackReturn(x, k) == Return(P(x[1].to), <<x[2].to, k>>, x[1].sym, <<x[1].from, k>>)
BackPending(x, i) == Return(PP(x[1].to), i, x[1].sym, PP(x[1].from))

LEMMA BackSymbols ==
    ASSUME NEW x, NEW k
    PROVE  BackCall(x, k).sym = x[2].sym /\ BackReturn(x, k).sym = x[1].sym /\ BackPending(x, k).sym = x[1].sym
  BY EdgeEnds, ReturnEnds DEF BackCall, BackReturn, BackPending

LEMMA Reversed ==
    ASSUME NEW n, WellFormed(n)
    PROVE  WellFormed(reverse(n))
  <1> DEFINE pairs == {x \in n.calls \X n.returns : x[1].from = x[2].pred}
             empty == Automaton(n.states \X Sides, {}, {PP(f) : f \in n.final},
                                n.initial \X Sides, {}, {}, {})
             internals == {Edge(<<t.to, k>>, t.sym, <<t.from, k>>) : t \in n.internals, k \in Sides}
             calls == {BackCall(x, k) : x \in pairs, k \in Sides}
             matched == {BackReturn(x, k) : x \in pairs, k \in Sides}
             pending == {BackPending(x, i) : x \in pairs, i \in empty.initial}
  <1>1. reverse(n) = Build(empty, internals, calls, matched \cup pending)
    BY DEF reverse, Build, BackCall, BackReturn, BackPending
  <1>2. \A x \in pairs : x[1].sym # EPSILON /\ x[2].sym # EPSILON
    BY WellFormedParts DEF Visible
  <1>3. WellFormed(empty)
    <2>1. {PP(f) : f \in n.final} \subseteq n.states \X Sides
      BY WellFormedParts DEF PP, Sides
    <2>2. n.initial \X Sides \subseteq n.states \X Sides
      BY WellFormedParts
    <2> QED  BY <2>1, <2>2, BareWellFormed
  <1> HIDE DEF pairs, empty
  <1>4. Visible(calls)
    <2>1. \A r : r \in calls => \E x \in pairs, k \in Sides : r = BackCall(x, k)
      OBVIOUS
    <2> HIDE DEF calls
    <2>2. \A r \in calls : \E x \in pairs : r.sym = x[2].sym
      BY <2>1, BackSymbols
    <2> QED  BY <1>2, <2>2 DEF Visible
  <1>5. Visible(matched)
    <2>1. \A r : r \in matched => \E x \in pairs, k \in Sides : r = BackReturn(x, k)
      OBVIOUS
    <2> HIDE DEF matched
    <2>2. \A r \in matched : \E x \in pairs : r.sym = x[1].sym
      BY <2>1, BackSymbols
    <2> QED  BY <1>2, <2>2 DEF Visible
  <1>6. Visible(pending)
    <2>1. \A r : r \in pending => \E x \in pairs, i \in empty.initial : r = BackPending(x, i)
      OBVIOUS
    <2> HIDE DEF pending
    <2>2. \A r \in pending : \E x \in pairs : r.sym = x[1].sym
      BY <2>1, BackSymbols
    <2> QED  BY <1>2, <2>2 DEF Visible
  <1> HIDE DEF internals, calls, matched, pending
  <1>7. Visible(matched \cup pending)
    BY <1>5, <1>6 DEF Visible
  <1> QED  BY <1>1, <1>3, <1>4, <1>7, Built

LEMMA Quotiented ==
    ASSUME NEW n, WellFormed(n), NEW partition
    PROVE  WellFormed(quotient(n, partition))
  <1> DEFINE of(q) == CHOOSE B \in partition : q \in B
             edges(T) == {Edge(of(t.from), t.sym, of(t.to)) : t \in T}
             returns == {Return(of(t.from), of(t.pred), t.sym, of(t.to)) : t \in n.returns}
             I == {of(q) : q \in n.initial}
             F == {of(q) : q \in n.final}
  <1>1. \A r \in edges(n.calls) : \E t \in n.calls : r.sym = t.sym
    BY EdgeEnds
  <1>2. \A r \in returns : \E t \in n.returns : r.sym = t.sym
    BY ReturnEnds
  <1>3. quotient(n, partition)
          = Build(addFinalStates(addInitialStates(NoNwa, I), F), edges(n.internals), edges(n.calls), returns)
    BY DEF quotient, Build
  <1> HIDE DEF edges, returns, I, F
  <1>4. Visible(edges(n.calls)) /\ Visible(returns)
    BY <1>1, <1>2, WellFormedParts DEF Visible
  <1>5. WellFormed(addInitialStates(NoNwa, I))
    BY NoNwaWellFormed, States
  <1>6. WellFormed(addFinalStates(addInitialStates(NoNwa, I), F))
    BY <1>5, States
  <1> QED  BY <1>3, <1>4, <1>6, Built

DetCall(n, close, x) == Edge(x[1], x[2], OnCall(n, close, x[1], x[2]))
DetInternal(n, close, x) == Edge(x[1], x[2], OnInternal(n, close, x[1], x[2]))
DetReturn(n, close, x, V) == Return(x[1], V, x[2], OnReturn(n, close, x[1], V, x[2]))

LEMMA DetFields ==
    ASSUME NEW n, NEW close, NEW x, NEW V
    PROVE  /\ DetCall(n, close, x).sym = x[2] /\ DetCall(n, close, x).from = x[1]
           /\ DetInternal(n, close, x).sym = x[2] /\ DetInternal(n, close, x).from = x[1]
           /\ DetReturn(n, close, x, V).sym = x[2] /\ DetReturn(n, close, x, V).from = x[1]
           /\ DetReturn(n, close, x, V).pred = V
  BY EdgeEnds, ReturnEnds DEF DetCall, DetInternal, DetReturn

(* A determinized automaton, whatever states it has. *)
LEMMA DeterminizedWellFormed ==
    ASSUME NEW n, WellFormed(n), NEW close, NEW start, NEW D
    PROVE  WellFormed(Determinized(n, close, start, D))
  <1> DEFINE all == D \X n.symbols
             finals == {R \in D : \E x \in R : x[2] \in n.final}
             empty == addFinalStates(addInitialStates(addStates(NoNwa, D), {start}), finals)
             internals == {DetInternal(n, close, x) : x \in all}
             calls == {DetCall(n, close, x) : x \in all}
             returns == {DetReturn(n, close, x, V) : x \in all, V \in D}
  <1>1. Determinized(n, close, start, D) = Build(empty, internals, calls, returns)
    BY DEF Determinized, Build, DetInternal, DetCall, DetReturn
  <1>2. \A x \in all : x[2] # EPSILON
    BY WellFormedParts
  <1> HIDE DEF all
  <1>3. Visible(calls)
    BY <1>2, DetFields DEF Visible
  <1>4. Visible(returns)
    <2>1. \A r : r \in returns => \E x \in all, V \in D : r = DetReturn(n, close, x, V)
      OBVIOUS
    <2> HIDE DEF returns
    <2> QED  BY <1>2, <2>1, DetFields DEF Visible
  <1> HIDE DEF internals, calls, returns, finals
  <1>5. WellFormed(addInitialStates(addStates(NoNwa, D), {start}))
    BY NoNwaWellFormed, States
  <1>6. WellFormed(empty)
    BY <1>5, States
  <1> HIDE DEF empty
  <1> QED  BY <1>1, <1>3, <1>4, <1>6, Built

LEMMA Shared ==
    ASSUME NEW s, NEW t
    PROVE  \A a \in transitionIntersect(s, t) : a # EPSILON
  BY DEF transitionIntersect

ProdEdge(x, s, q) == Edge(<<x[1].from, x[2].from>>, s, q)
ProdReturn(x, s, q) == Return(<<x[1].from, x[2].from>>, <<x[1].pred, x[2].pred>>, s, q)

ProdEdges(n, m, x) ==
    {ProdEdge(x, s, q) : s \in transitionIntersect(x[1].sym, x[2].sym), q \in Both(n, m, <<x[1].to, x[2].to>>)}
ProdReturns(n, m, x) ==
    {ProdReturn(x, s, q) : s \in transitionIntersect(x[1].sym, x[2].sym), q \in Both(n, m, <<x[1].to, x[2].to>>)}

LEMMA ProdVisible ==
    ASSUME NEW n, NEW m, NEW x
    PROVE  Visible(ProdEdges(n, m, x)) /\ Visible(ProdReturns(n, m, x))
  <1> DEFINE A == transitionIntersect(x[1].sym, x[2].sym)
             B == Both(n, m, <<x[1].to, x[2].to>>)
  <1>1. \A s \in A : s # EPSILON
    BY Shared
  <1>2. /\ ProdEdges(n, m, x) = {ProdEdge(x, s, q) : s \in A, q \in B}
        /\ ProdReturns(n, m, x) = {ProdReturn(x, s, q) : s \in A, q \in B}
    BY DEF ProdEdges, ProdReturns
  <1> HIDE DEF A, B
  <1>3. /\ \A r : r \in ProdEdges(n, m, x) => \E s \in A, q \in B : r = ProdEdge(x, s, q)
        /\ \A r : r \in ProdReturns(n, m, x) => \E s \in A, q \in B : r = ProdReturn(x, s, q)
    BY <1>2
  <1>4. \A s, q : ProdEdge(x, s, q).sym = s /\ ProdReturn(x, s, q).sym = s
    BY EdgeEnds, ReturnEnds DEF ProdEdge, ProdReturn
  <1> QED  BY <1>1, <1>3, <1>4 DEF Visible

(* A product, whatever states it has. *)
LEMMA ProductWellFormed ==
    ASSUME NEW n, NEW m, NEW start, NEW V
    PROVE  WellFormed(Product(n, m, start, V))
  <1> DEFINE finals == V \cap (n.final \X m.final)
             empty == addFinalStates(addInitialStates(addStates(NoNwa, V), start), finals)
             internals == EdgesOf(n, m, n.internals, m.internals, V)
             calls == EdgesOf(n, m, n.calls, m.calls, V)
             returns == ReturnsOf(n, m, V)
  <1>1. Product(n, m, start, V) = Build(empty, internals, calls, returns)
    BY DEF Product, Build
  <1>2. Visible(calls)
    <2> DEFINE pairs == {y \in n.calls \X m.calls : <<y[1].from, y[2].from>> \in V}
    <2>1. calls = UNION {ProdEdges(n, m, x) : x \in pairs}
      BY DEF EdgesOf, ProdEdges, ProdEdge
    <2> HIDE DEF pairs, calls
    <2> QED  BY <2>1, ProdVisible DEF Visible
  <1>3. Visible(returns)
    <2> DEFINE pairs == {y \in n.returns \X m.returns :
                           {<<y[1].from, y[2].from>>, <<y[1].pred, y[2].pred>>} \subseteq V}
    <2>1. returns = UNION {ProdReturns(n, m, x) : x \in pairs}
      BY DEF ReturnsOf, ProdReturns, ProdReturn
    <2> HIDE DEF pairs, returns
    <2> QED  BY <2>1, ProdVisible DEF Visible
  <1> HIDE DEF internals, calls, returns, finals
  <1>4. WellFormed(addInitialStates(addStates(NoNwa, V), start))
    BY NoNwaWellFormed, States
  <1>5. WellFormed(empty)
    BY <1>4, States
  <1> HIDE DEF empty
  <1> QED  BY <1>1, <1>2, <1>3, <1>5, Built

(* One way on from each state through each symbol. *)
LEMMA One == ASSUME NEW T, NEW e, T \subseteq {e} PROVE AtMostOne(T)
  <1>1. Cardinality({}) = 0 /\ Cardinality({e}) = 1
    BY FS_EmptySet, FS_Singleton
  <1>2. T = {} \/ T = {e}
    OBVIOUS
  <1>3. Cardinality(T) \in {0, 1}
    BY <1>1, <1>2
  <1>4. Cardinality(T) <= 1
    BY <1>3
  <1> QED  BY <1>4 DEF AtMostOne

LEMMA DeterminizedDeterministic ==
    ASSUME NEW n, WellFormed(n), NEW close, NEW start, NEW D
    PROVE  isDeterministic(Determinized(n, close, start, D))
  <1> DEFINE all == D \X n.symbols
             finals == {R \in D : \E x \in R : x[2] \in n.final}
             start1 == addStates(NoNwa, D)
             start2 == addInitialStates(start1, {start})
             empty == addFinalStates(start2, finals)
             internals == {DetInternal(n, close, x) : x \in all}
             calls == {DetCall(n, close, x) : x \in all}
             returns == {DetReturn(n, close, x, V) : x \in all, V \in D}
             m == Determinized(n, close, start, D)
  <1>1. m = Build(empty, internals, calls, returns)
    BY DEF Determinized, Build, DetInternal, DetCall, DetReturn
  <1>2. \A x \in all : x[2] # EPSILON /\ x[2] # WILD
    BY WellFormedParts
  <1>a. \A x \in all : x = <<x[1], x[2]>>
    OBVIOUS
  <1> HIDE DEF all
  <1>3. \A r \in internals : \E x \in all : r = DetInternal(n, close, x)
    OBVIOUS
  <1>4. \A r \in calls : \E x \in all : r = DetCall(n, close, x)
    OBVIOUS
  <1>5. \A r : r \in returns => \E x \in all, V \in D : r = DetReturn(n, close, x, V)
    OBVIOUS
  <1> HIDE DEF internals, calls, returns, finals
  <1>6. Visible(calls) /\ Visible(returns) /\ Visible(internals)
    <2>1. Visible(calls)
      BY <1>2, <1>4, DetFields DEF Visible
    <2>2. Visible(internals)
      BY <1>2, <1>3, DetFields DEF Visible
    <2>3. Visible(returns)
      BY <1>2, <1>5, DetFields DEF Visible
    <2> QED  BY <2>1, <2>2, <2>3
  <1>7. /\ WellFormed(empty) /\ empty.initial = {start}
        /\ empty.calls = {} /\ empty.internals = {} /\ empty.returns = {}
    <2>1. /\ NoNwa.initial = {} /\ NoNwa.calls = {} /\ NoNwa.internals = {} /\ NoNwa.returns = {}
      BY DEF NoNwa, Automaton
    <2>2. /\ WellFormed(start1) /\ start1.initial = NoNwa.initial
          /\ start1.calls = NoNwa.calls /\ start1.internals = NoNwa.internals /\ start1.returns = NoNwa.returns
      BY NoNwaWellFormed, States
    <2> HIDE DEF start1
    <2>3. /\ WellFormed(start2) /\ start2.initial = start1.initial \cup {start}
          /\ start2.calls = start1.calls /\ start2.internals = start1.internals /\ start2.returns = start1.returns
      BY <2>2, States
    <2> HIDE DEF start2
    <2>4. /\ WellFormed(empty) /\ empty.initial = start2.initial
          /\ empty.calls = start2.calls /\ empty.internals = start2.internals /\ empty.returns = start2.returns
      BY <2>3, States
    <2> QED  BY <2>1, <2>2, <2>3, <2>4
  <1> HIDE DEF empty
  <1>8. /\ WellFormed(m) /\ m.initial = {start}
        /\ m.calls = calls /\ m.internals = internals /\ m.returns = returns
    <2> HIDE DEF m
    <2>1. WellFormed(m) /\ Extends(m, empty, internals, calls, returns)
      BY <1>1, <1>6, <1>7, BuiltFields
    <2>2. /\ m.initial = empty.initial /\ m.calls = empty.calls \cup calls
          /\ m.internals = empty.internals \cup internals /\ m.returns = empty.returns \cup returns
      BY <2>1 DEF Extends
    <2> QED  BY <1>7, <2>1, <2>2
  <1> HIDE DEF m
  <1>9. AtMostOne(m.initial)
    BY <1>8, One
  <1>10. \A t \in m.internals : t.sym # EPSILON
    BY <1>6, <1>8 DEF Visible
  <1>11. ASSUME NEW s \in m.symbols, NEW q \in m.states
         PROVE  /\ AtMostOne({t \in m.calls : t.from = q /\ t.sym \in {s, WILD}})
                /\ AtMostOne({t \in m.internals : t.from = q /\ t.sym \in {s, WILD}})
                /\ \A p \in m.states :
                     AtMostOne({t \in m.returns : t.from = q /\ t.pred = p /\ t.sym \in {s, WILD}})
    <2>1. \A x \in all : x[1] = q /\ x[2] \in {s, WILD} => x = <<q, s>>
      BY <1>2, <1>a
    <2>2. {t \in m.calls : t.from = q /\ t.sym \in {s, WILD}} \subseteq {DetCall(n, close, <<q, s>>)}
      <3>1. SUFFICES ASSUME NEW t \in calls, t.from = q, t.sym \in {s, WILD}
                     PROVE  t = DetCall(n, close, <<q, s>>)
        BY <1>8
      <3>2. PICK x \in all : t = DetCall(n, close, x)
        BY <1>4
      <3>3. t.from = x[1] /\ t.sym = x[2]
        BY <3>2, DetFields
      <3>4. x = <<q, s>>
        BY <2>1, <3>1, <3>3
      <3> QED  BY <3>2, <3>4
    <2>3. {t \in m.internals : t.from = q /\ t.sym \in {s, WILD}} \subseteq {DetInternal(n, close, <<q, s>>)}
      <3>1. SUFFICES ASSUME NEW t \in internals, t.from = q, t.sym \in {s, WILD}
                     PROVE  t = DetInternal(n, close, <<q, s>>)
        BY <1>8
      <3>2. PICK x \in all : t = DetInternal(n, close, x)
        BY <1>3
      <3>3. t.from = x[1] /\ t.sym = x[2]
        BY <3>2, DetFields
      <3>4. x = <<q, s>>
        BY <2>1, <3>1, <3>3
      <3> QED  BY <3>2, <3>4
    <2>4. ASSUME NEW p \in m.states
          PROVE  {t \in m.returns : t.from = q /\ t.pred = p /\ t.sym \in {s, WILD}}
                   \subseteq {DetReturn(n, close, <<q, s>>, p)}
      <3>1. SUFFICES ASSUME NEW t \in returns, t.from = q, t.pred = p, t.sym \in {s, WILD}
                     PROVE  t = DetReturn(n, close, <<q, s>>, p)
        BY <1>8
      <3>2. PICK x \in all, V \in D : t = DetReturn(n, close, x, V)
        BY <1>5
      <3>3. t.from = x[1] /\ t.pred = V /\ t.sym = x[2]
        BY <3>2, DetFields
      <3>4. x = <<q, s>>
        BY <2>1, <3>1, <3>3
      <3> QED  BY <3>1, <3>2, <3>3, <3>4
    <2> QED  BY <2>2, <2>3, <2>4, One, ZenonT(60)
  <1> QED  BY <1>9, <1>10, <1>11 DEF isDeterministic, m

LEMMA Determinizing ==
    ASSUME NEW n, WellFormed(n)
    PROVE  WellFormed(determinize(n)) /\ isDeterministic(determinize(n))
  <1> DEFINE close == Close(n)
             start == Compose(n.initial \X n.initial, close)
             D == Fix(LAMBDA E : Discovered(n, close, E), SUBSET SUBSET (n.states \X n.states), {start})
  <1>1. determinize(n) = Determinized(n, close, start, D)
    BY DEF determinize, Determinize
  <1> HIDE DEF close, start, D
  <1> QED  BY <1>1, DeterminizedWellFormed, DeterminizedDeterministic

LEMMA Complementing ==
    ASSUME NEW n, WellFormed(n), isDeterministic(n)
    PROVE  WellFormed(Complemented(n)) /\ isDeterministic(Complemented(n))
  <1> DEFINE m == Complemented(n)
  <1>1. Whole(n)
    BY DEF WellFormed, Whole
  <1>2. m = [n EXCEPT !.final = n.states \ n.final]
    BY DEF Complemented
  <1>3. m = Automaton(n.states, n.symbols, n.initial, n.states \ n.final, n.calls, n.internals, n.returns)
    BY <1>1, <1>2, Replaced
  <1>4. WellFormed(m)
    BY <1>3, WellFormedParts, AutomatonWellFormed
  <1>5. /\ m.states = n.states /\ m.symbols = n.symbols /\ m.initial = n.initial
        /\ m.calls = n.calls /\ m.internals = n.internals /\ m.returns = n.returns
    BY <1>3, Fields
  <1> HIDE DEF m
  <1>6. ASSUME NEW s \in m.symbols, NEW q \in m.states
        PROVE  /\ AtMostOne({t \in m.calls : t.from = q /\ t.sym \in {s, WILD}})
               /\ AtMostOne({t \in m.internals : t.from = q /\ t.sym \in {s, WILD}})
               /\ \A p \in m.states :
                    AtMostOne({t \in m.returns : t.from = q /\ t.pred = p /\ t.sym \in {s, WILD}})
    <2>1. s \in n.symbols /\ q \in n.states
      BY <1>5
    <2>2. /\ AtMostOne({t \in n.calls : t.from = q /\ t.sym \in {s, WILD}})
          /\ AtMostOne({t \in n.internals : t.from = q /\ t.sym \in {s, WILD}})
          /\ \A p \in n.states :
               AtMostOne({t \in n.returns : t.from = q /\ t.pred = p /\ t.sym \in {s, WILD}})
      BY <2>1 DEF isDeterministic
    <2> QED  BY <1>5, <2>2
  <1>7. isDeterministic(m)
    <2>1. AtMostOne(m.initial) /\ \A t \in m.internals : t.sym # EPSILON
      BY <1>5 DEF isDeterministic
    <2> QED  BY <1>6, <2>1 DEF isDeterministic
  <1> QED  BY <1>4, <1>7 DEF m

(* What an edit leaves, and what a construction returns. *)
LEMMA EditTyped ==
    ASSUME TypeOK, NEW n, WellFormed(n), Edit(n)
    PROVE  TypeOK'
  BY DEF TypeOK, Edit

LEMMA ConstructTyped ==
    ASSUME TypeOK, NEW n, WellFormed(n), NEW name, name # "none", Construct(name, n)
    PROVE  TypeOK'
  BY DEF TypeOK, Construct

LEMMA Projected ==
    ASSUME NEW n, WellFormed(n), NEW Q
    PROVE  /\ WellFormed(removeImplicitTransitions(n))
           /\ WellFormed(pruneUnreachableForward(n, Q)) /\ WellFormed(pruneUnreachableBackward(n, Q))
  BY StatesRemoved DEF removeImplicitTransitions, pruneUnreachableForward, pruneUnreachableBackward, projectStates

LEMMA KeepingTyped ==
    ASSUME TypeOK, Keeping
    PROVE  TypeOK'
  <1>1. WellFormed(nwa)
    BY DEF TypeOK
  <1>2. CASE Duplicate
    <2>1. ASSUME NEW q \in nwa.states
          PROVE  WellFormed(duplicateState(nwa, q, Fresh)) /\ WellFormed(duplicateStateOutgoing(nwa, q, Fresh))
      BY <1>1, Duplication DEF duplicateState, duplicateStateOutgoing
    <2> QED  BY <1>2, <2>1, EditTyped DEF Duplicate
  <1>3. CASE Realize
    BY <1>1, <1>3, Realized, EditTyped DEF Realize
  <1>4. CASE RemoveImplicit
    BY <1>1, <1>4, Projected, EditTyped DEF RemoveImplicit
  <1>5. CASE Prune
    <2>1. /\ WellFormed(pruneUnreachableForward(nwa, nwa.initial))
          /\ WellFormed(pruneUnreachableBackward(nwa, nwa.final))
      BY <1>1, Projected
    <2>2. WellFormed(chop(nwa))
      BY <2>1, Projected DEF chop
    <2> QED  BY <1>5, <2>1, <2>2, EditTyped DEF Prune
  <1> QED  BY <1>2, <1>3, <1>4, <1>5 DEF Keeping

LEMMA ChangingTyped ==
    ASSUME TypeOK, Changing
    PROVE  TypeOK'
  <1>1. WellFormed(nwa)
    BY DEF TypeOK
  <1>2. CASE AddTrans
    <2>1. \A t \in Calls \cup Returns : Visible({t})
      BY SessionAssumption DEF Visible
    <2>2. /\ \A t \in Calls : WellFormed(addCalls(nwa, {t}))
          /\ \A t \in Internals : WellFormed(addInternals(nwa, {t}))
          /\ \A t \in Returns : WellFormed(addReturns(nwa, {t}))
      BY <1>1, <2>1, Added
    <2> QED  BY <1>2, <2>2, EditTyped DEF AddTrans
  <1>3. CASE RemoveTrans
    <2>1. \A t : /\ WellFormed(removeCall(nwa, t)) /\ WellFormed(removeInternal(nwa, t))
                 /\ WellFormed(removeReturn(nwa, t))
      BY <1>1, TransRemoved DEF removeCall, removeInternal, removeReturn
    <2>2. \A e : \A n \in removeReturnsOf(nwa, e) : WellFormed(n)
      <3> SUFFICES ASSUME NEW e, NEW n \in removeReturnsOf(nwa, e)
                   PROVE  WellFormed(n)
        OBVIOUS
      <3>1. CASE n = nwa
        BY <1>1, <3>1
      <3>2. CASE n # nwa
        <4>1. PICK t : n = [nwa EXCEPT !.returns = @ \ {t}]
          BY <3>2 DEF removeReturnsOf
        <4>2. WellFormed([nwa EXCEPT !.returns = @ \ {t}])
          BY <1>1, TransRemoved
        <4> QED  BY <4>1, <4>2
      <3> QED  BY <3>1, <3>2
    <2> QED  BY <1>3, <2>1, <2>2, EditTyped DEF RemoveTrans
  <1>4. CASE RemoveState
    BY <1>1, <1>4, StatesRemoved, EditTyped DEF RemoveState
  <1>5. CASE RemoveSymbol
    BY <1>1, <1>5, SymbolRemoved, EditTyped DEF RemoveSymbol
  <1> QED  BY <1>2, <1>3, <1>4, <1>5 DEF Changing

Building == Union \/ Concat \/ Star \/ Reversal \/ Determinization \/ Complementation \/ Intersection \/ Quotient

LEMMA BuildingTyped ==
    ASSUME TypeOK, Building
    PROVE  TypeOK'
  <1>1. WellFormed(nwa) /\ WellFormed(arg)
    BY DEF TypeOK
  <1>2. CASE Union
    <2>1. WellFormed(unionNwa(nwa, arg))
      BY <1>1, Combining DEF unionNwa
    <2> QED  BY <1>2, <2>1, ConstructTyped DEF Union
  <1>3. CASE Concat
    BY <1>1, <1>3, Concatenated, ConstructTyped DEF Concat
  <1>4. CASE Star
    BY <1>1, <1>4, Starred, ConstructTyped DEF Star
  <1>5. CASE Reversal
    BY <1>1, <1>5, Reversed, ConstructTyped DEF Reversal
  <1>6. CASE Determinization
    BY <1>1, <1>6, Determinizing, ConstructTyped DEF Determinization
  <1>7. CASE Complementation
    <2>1. WellFormed(complement(nwa))
      BY <1>1, Determinizing, Complementing DEF complement
    <2> QED  BY <1>7, <2>1, ConstructTyped DEF Complementation
  <1>8. CASE Intersection
    <2>1. WellFormed(intersect(nwa, arg))
      BY ProductWellFormed DEF intersect, Intersect
    <2> QED  BY <1>8, <2>1, ConstructTyped DEF Intersection
  <1>9. CASE Quotient
    BY <1>1, <1>9, Quotiented, ConstructTyped DEF Quotient
  <1> QED  BY <1>2, <1>3, <1>4, <1>5, <1>6, <1>7, <1>8, <1>9 DEF Building

LEMMA NextTyped ==
    ASSUME TypeOK, [Next]_vars
    PROVE  TypeOK'
  <1>1. CASE Drop
    BY <1>1, NoNwaWellFormed DEF Drop, TypeOK
  <1>2. CASE UNCHANGED vars
    BY <1>2 DEF vars, TypeOK
  <1> QED  BY <1>1, <1>2, KeepingTyped, ChangingTyped, BuildingTyped DEF Next, Building

(* Whatever a client does, what it has and what it is returned are          *)
(* automata: every transition runs between states over the alphabet, and   *)
(* only an internal one has no symbol.                                     *)
THEOREM NwaTyped == Spec => []TypeOK
  <1>1. Init => TypeOK
    BY SessionAssumption, NoNwaWellFormed DEF Init, TypeOK
  <1>2. TypeOK /\ [Next]_vars => TypeOK'
    BY NextTyped
  <1> QED  BY <1>1, <1>2, PTL DEF Spec

(* What determinize and complement return has one way on from each state   *)
(* through each symbol, WILD counted, and one initial state.               *)
THEOREM NwaDeterministic == Spec => []Deterministic
  <1>1. Init => Deterministic
    BY DEF Init, Deterministic
  <1>2. TypeOK /\ Deterministic /\ [Next]_vars => Deterministic'
    <2> SUFFICES ASSUME TypeOK, Deterministic, [Next]_vars
                 PROVE  Deterministic'
      OBVIOUS
    <2>1. WellFormed(nwa)
      BY DEF TypeOK
    <2>2. CASE Keeping \/ Changing
      <3>1. op' = op /\ out' = out
        BY <2>2 DEF Keeping, Changing, Duplicate, Realize, RemoveImplicit, Prune, AddTrans, RemoveTrans,
                    RemoveState, RemoveSymbol, Edit
      <3> QED  BY <3>1 DEF Deterministic
    <2>3. CASE Determinization
      <3>1. out' = determinize(nwa)
        BY <2>3 DEF Determinization, Construct
      <3> QED  BY <2>1, <3>1, Determinizing DEF Deterministic
    <2>4. CASE Complementation
      <3>1. out' = Complemented(determinize(nwa))
        BY <2>4 DEF Complementation, Construct, complement
      <3> QED  BY <2>1, <3>1, Determinizing, Complementing DEF Deterministic
    <2>5. CASE Union \/ Concat \/ Star \/ Reversal \/ Intersection \/ Quotient \/ Drop
      <3>1. op' \notin {"determinize", "complement"}
        BY <2>5 DEF Union, Concat, Star, Reversal, Intersection, Quotient, Drop, Construct
      <3> QED  BY <3>1 DEF Deterministic
    <2>6. CASE UNCHANGED vars
      BY <2>6 DEF vars, Deterministic
    <2> QED  BY <2>2, <2>3, <2>4, <2>5, <2>6 DEF Next
  <1>3. Spec => []TypeOK
    BY NwaTyped
  <1> QED  BY <1>1, <1>2, <1>3, PTL DEF Spec

(* Induction over the natural numbers, for a set. *)
Below == {ss \in Nat \X Nat : ss[1] < ss[2]}

LEMMA LeastNat ==
    ASSUME NEW T, T \subseteq Nat, T # {}
    PROVE  \E x \in T : \A y \in T : x <= y
  <1>1. IsWellFoundedOn(Below, Nat)
    BY NatLessThanWellFounded DEF OpToRel, Below
  <1>2. PICK x \in T : \A y \in T : ~(<<y, x>> \in Below)
    BY <1>1, WFMin
  <1>3. ASSUME NEW y \in T PROVE x <= y
    <2>1. ~(<<y, x>> \in Below)
      BY <1>2
    <2>2. ~(y < x)
      BY <2>1 DEF Below
    <2> QED  BY <2>2
  <1> QED  BY <1>3

LEMMA NatInd ==
    ASSUME NEW T, 0 \in T, \A k \in Nat : k \in T => k + 1 \in T
    PROVE  Nat \subseteq T
  <1> DEFINE U == Nat \ T
  <1> SUFFICES ASSUME U # {} PROVE FALSE
    OBVIOUS
  <1>1. PICK x \in U : \A y \in U : x <= y
    BY LeastNat
  <1>2. x # 0
    BY <1>1
  <1>3. x - 1 \in Nat /\ x - 1 \notin U
    BY <1>1, <1>2
  <1>4. (x - 1) + 1 \in T
    BY <1>3
  <1> QED  BY <1>1, <1>4

(* The same up to a bound. *)
LEMMA UpTo ==
    ASSUME NEW N \in Nat, NEW T, 0 \in T, \A k \in 1..N : k - 1 \in T => k \in T
    PROVE  0..N \subseteq T
  <1> DEFINE U == {k \in Nat : k <= N => k \in T}
  <1>1. 0 \in U
    OBVIOUS
  <1>2. ASSUME NEW k \in Nat, k \in U PROVE k + 1 \in U
    <2>1. SUFFICES ASSUME k + 1 <= N PROVE k + 1 \in T
      OBVIOUS
    <2>2. k + 1 \in 1..N /\ (k + 1) - 1 = k /\ k <= N
      BY <2>1
    <2>3. k \in T
      BY <1>2, <2>2
    <2> QED  BY <2>2, <2>3
  <1> HIDE DEF U
  <1>3. Nat \subseteq U
    BY <1>1, <1>2, NatInd
  <1> QED  BY <1>3 DEF U

(* What a round that only adds comes to in a finite set. *)
Adds(R, X) ==
    /\ R \in [SUBSET X -> SUBSET X]
    /\ \A W \in SUBSET X : W \subseteq R[W]
    /\ \A V \in SUBSET X, W \in SUBSET X : V \subseteq W => R[V] \subseteq R[W]
Iterates(f, R, X) == f = [W \in SUBSET X |-> IF R[W] = W THEN W ELSE f[R[W]]]
Settled(R, X, V) == {Z \in SUBSET X : V \subseteq Z /\ R[Z] = Z}
Least(R, X, V) == {x \in X : \A Z \in Settled(R, X, V) : x \in Z}

LEMMA LeastFacts ==
    ASSUME NEW X, NEW R, Adds(R, X), NEW V \in SUBSET X
    PROVE  /\ Least(R, X, V) \in SUBSET X
           /\ V \subseteq Least(R, X, V)
           /\ R[Least(R, X, V)] = Least(R, X, V)
           /\ \A Z \in SUBSET X : V \subseteq Z /\ R[Z] = Z => Least(R, X, V) \subseteq Z
  <1> DEFINE L == Least(R, X, V)
  <1>1. L \in SUBSET X /\ V \subseteq L
    BY DEF Least, Settled
  <1>2. ASSUME NEW Z \in SUBSET X, V \subseteq Z, R[Z] = Z
        PROVE  L \subseteq Z
    BY <1>2 DEF Least, Settled
  <1> HIDE DEF L
  <1>3. ASSUME NEW Z \in Settled(R, X, V)
        PROVE  R[L] \subseteq Z
    <2>1. Z \in SUBSET X /\ V \subseteq Z /\ R[Z] = Z
      BY DEF Settled
    <2>2. L \subseteq Z
      BY <1>2, <2>1
    <2>3. R[L] \subseteq R[Z]
      BY <1>1, <2>1, <2>2 DEF Adds
    <2> QED  BY <2>1, <2>3
  <1>4. R[L] \subseteq X /\ L \subseteq R[L]
    BY <1>1 DEF Adds
  <1>5. R[L] \subseteq L
    BY <1>3, <1>4 DEF L, Least
  <1> QED  BY <1>1, <1>2, <1>4, <1>5 DEF L

LEMMA LeastStep ==
    ASSUME NEW X, NEW R, Adds(R, X), NEW V \in SUBSET X
    PROVE  Least(R, X, V) = IF R[V] = V THEN V ELSE Least(R, X, R[V])
  <1>1. R[V] \in SUBSET X /\ V \subseteq R[V]
    BY DEF Adds
  <1>2. CASE R[V] = V
    <2>1. V \subseteq Least(R, X, V)
      BY LeastFacts
    <2>2. Least(R, X, V) \subseteq V
      BY <1>2, LeastFacts
    <2> QED  BY <1>2, <2>1, <2>2
  <1>3. ASSUME R[V] # V PROVE Least(R, X, V) = Least(R, X, R[V])
    <2> DEFINE L == Least(R, X, V)
               M == Least(R, X, R[V])
    <2>1. /\ L \in SUBSET X /\ V \subseteq L /\ R[L] = L
          /\ \A Z \in SUBSET X : V \subseteq Z /\ R[Z] = Z => L \subseteq Z
      BY LeastFacts
    <2>2. /\ M \in SUBSET X /\ R[V] \subseteq M /\ R[M] = M
          /\ \A Z \in SUBSET X : R[V] \subseteq Z /\ R[Z] = Z => M \subseteq Z
      BY <1>1, LeastFacts
    <2> HIDE DEF L, M
    <2>3. L \subseteq M
      BY <1>1, <2>1, <2>2
    <2>4. R[V] \subseteq R[L]
      BY <2>1 DEF Adds
    <2>5. M \subseteq L
      BY <2>1, <2>2, <2>4
    <2>6. L = M
      BY <2>3, <2>5
    <2> QED  BY <2>6 DEF L, M
  <1> QED  BY <1>2, <1>3

(* Some function iterates the rounds, and any that does comes to the least. *)
LEMMA RoundsExist ==
    ASSUME NEW X, NEW R, Adds(R, X)
    PROVE  \E f : Iterates(f, R, X)
  <1> DEFINE g == [W \in SUBSET X |-> Least(R, X, W)]
  <1>1. g = [W \in SUBSET X |-> IF R[W] = W THEN W ELSE g[R[W]]]
    <2>1. ASSUME NEW W \in SUBSET X
          PROVE  g[W] = IF R[W] = W THEN W ELSE g[R[W]]
      <3>1. R[W] \in SUBSET X
        BY DEF Adds
      <3>2. g[R[W]] = Least(R, X, R[W]) /\ g[W] = Least(R, X, W)
        BY <3>1
      <3>3. Least(R, X, W) = IF R[W] = W THEN W ELSE Least(R, X, R[W])
        BY LeastStep
      <3> QED  BY <3>2, <3>3
    <2> QED  BY <2>1
  <1> HIDE DEF g
  <1>2. Iterates(g, R, X)
    BY <1>1 DEF Iterates
  <1> QED  BY <1>2

LEMMA RoundsLeast ==
    ASSUME NEW X, IsFiniteSet(X), NEW R, Adds(R, X), NEW V \in SUBSET X,
           NEW f, \A W \in SUBSET X : f[W] = IF R[W] = W THEN W ELSE f[R[W]]
    PROVE  f[V] = Least(R, X, V)
  <1> DEFINE left(W) == Cardinality(X \ W)
             T == {k \in Nat : \A W \in SUBSET X : left(W) <= k => f[W] = Least(R, X, W)}
  <1>1. ASSUME NEW W \in SUBSET X
        PROVE  /\ R[W] \in SUBSET X /\ left(W) \in Nat /\ left(R[W]) \in Nat
               /\ f[W] = IF R[W] = W THEN W ELSE f[R[W]]
               /\ Least(R, X, W) = IF R[W] = W THEN W ELSE Least(R, X, R[W])
               /\ R[W] # W => left(R[W]) < left(W)
    <2>1. R[W] \in SUBSET X /\ W \subseteq R[W]
      BY DEF Adds
    <2>2. IsFiniteSet(X \ W) /\ IsFiniteSet(X \ R[W])
      BY FS_Subset
    <2>3. left(W) \in Nat /\ left(R[W]) \in Nat
      BY <2>2, FS_CardinalityType
    <2>4. ASSUME R[W] # W PROVE left(R[W]) < left(W)
      <3>1. PICK x \in R[W] : x \notin W
        BY <2>1, <2>4
      <3>2. X \ R[W] \subseteq X \ W /\ x \in X \ W /\ x \notin X \ R[W]
        BY <2>1, <3>1
      <3>3. X \ R[W] # X \ W
        BY <3>2
      <3>4. left(R[W]) <= left(W) /\ (left(W) = left(R[W]) => X \ W = X \ R[W])
        BY <2>2, <3>2, FS_Subset
      <3>5. left(R[W]) # left(W)
        BY <3>3, <3>4
      <3> HIDE DEF left
      <3> QED  BY ONLY <2>3, <3>4, <3>5
    <2>5. f[W] = IF R[W] = W THEN W ELSE f[R[W]]
      OBVIOUS
    <2>6. Least(R, X, W) = IF R[W] = W THEN W ELSE Least(R, X, R[W])
      BY LeastStep
    <2> QED  BY <2>1, <2>3, <2>4, <2>5, <2>6
  <1> HIDE DEF left
  <1>2. 0 \in T
    <2>1. ASSUME NEW W \in SUBSET X, left(W) <= 0 PROVE f[W] = Least(R, X, W)
      <3>1. R[W] = W
        BY <1>1, <2>1
      <3> QED  BY <1>1, <3>1
    <2> QED  BY <2>1
  <1>3. ASSUME NEW k \in Nat, k \in T PROVE k + 1 \in T
    <2>1. ASSUME NEW W \in SUBSET X, left(W) <= k + 1 PROVE f[W] = Least(R, X, W)
      <3>1. CASE R[W] = W
        BY <1>1, <3>1
      <3>2. CASE R[W] # W
        <4>1. left(R[W]) <= k /\ R[W] \in SUBSET X
          BY <1>1, <2>1, <3>2
        <4>2. f[R[W]] = Least(R, X, R[W])
          BY <1>3, <4>1
        <4> QED  BY <1>1, <3>2, <4>2
      <3> QED  BY <3>1, <3>2
    <2> QED  BY <2>1
  <1>4. Nat \subseteq T
    <2> HIDE DEF T
    <2> QED  BY <1>2, <1>3, NatInd
  <1>5. left(V) \in T
    BY <1>1, <1>4
  <1>6. left(V) <= left(V)
    BY <1>1
  <1>7. f[V] = Least(R, X, V)
    BY <1>5, <1>6
  <1> QED  BY <1>7

(* Where EPSILON leads. *)
EpsRound(n, Q) == Q \cup {t.to : t \in {u \in n.internals : u.from \in Q /\ u.sym = EPSILON}}
EpsIterates(n, f) ==
    f = [W \in SUBSET n.states |-> IF EpsRound(n, W) = W THEN W ELSE f[EpsRound(n, W)]]
EpsRounds(n) == [Q \in SUBSET n.states |-> EpsRound(n, Q)]

LEMMA EpsRoundsAdd ==
    ASSUME NEW n, WellFormed(n)
    PROVE  Adds(EpsRounds(n), n.states)
  <1>1. \A t \in n.internals : t.to \in n.states
    BY WellFormedParts DEF Within, Ends
  <1>2. \A Q \in SUBSET n.states : EpsRound(n, Q) \in SUBSET n.states /\ Q \subseteq EpsRound(n, Q)
    BY <1>1 DEF EpsRound
  <1>3. \A V \in SUBSET n.states, W \in SUBSET n.states : V \subseteq W => EpsRound(n, V) \subseteq EpsRound(n, W)
    BY DEF EpsRound
  <1> HIDE DEF EpsRound
  <1>4. \A Q \in SUBSET n.states : EpsRounds(n)[Q] = EpsRound(n, Q)
    BY DEF EpsRounds
  <1>5. EpsRounds(n) \in [SUBSET n.states -> SUBSET n.states]
    BY <1>2 DEF EpsRounds
  <1> QED  BY <1>2, <1>3, <1>4, <1>5 DEF Adds

LEMMA ClosureIterates ==
    ASSUME NEW n, WellFormed(n)
    PROVE  \E f : EpsIterates(n, f) /\ \A q : epsilonClosure(n, q) = f[{q}]
  <1> DEFINE from == CHOOSE f : EpsIterates(n, f)
  <1>1. \E f : EpsIterates(n, f)
    <2>1. Adds(EpsRounds(n), n.states)
      BY EpsRoundsAdd
    <2>2. PICK f : Iterates(f, EpsRounds(n), n.states)
      BY <2>1, RoundsExist
    <2>3. \A Q \in SUBSET n.states : EpsRounds(n)[Q] = EpsRound(n, Q)
      BY DEF EpsRounds
    <2>4. f = [W \in SUBSET n.states |-> IF EpsRound(n, W) = W THEN W ELSE f[EpsRound(n, W)]]
      <3> HIDE DEF EpsRound, EpsRounds
      <3> QED  BY <2>2, <2>3 DEF Iterates
    <2> QED  BY <2>4 DEF EpsIterates
  <1>2. EpsIterates(n, from)
    BY <1>1
  <1>3. \A q : epsilonClosure(n, q) = from[{q}]
    BY DEF epsilonClosure, Fix, EpsIterates, EpsRound
  <1> QED  BY <1>2, <1>3

EpsClosed(n, Z) == \A t \in n.internals : t.from \in Z /\ t.sym = EPSILON => t.to \in Z

LEMMA ClosureFacts ==
    ASSUME NEW n, WellFormed(n), IsFiniteSet(n.states), NEW q \in n.states
    PROVE  /\ q \in epsilonClosure(n, q) /\ epsilonClosure(n, q) \subseteq n.states
           /\ EpsClosed(n, epsilonClosure(n, q))
           /\ \A Z : q \in Z /\ EpsClosed(n, Z) => epsilonClosure(n, q) \subseteq Z
  <1> DEFINE R == EpsRounds(n)
             X == n.states
             V == {q}
             L == Least(R, X, V)
  <1>1. PICK f : EpsIterates(n, f) /\ \A p : epsilonClosure(n, p) = f[{p}]
    BY ClosureIterates
  <1>2. Adds(R, X)
    BY EpsRoundsAdd
  <1>3. \A W \in SUBSET X : R[W] = EpsRound(n, W)
    BY DEF EpsRounds
  <1>4. \A W \in SUBSET X : f[W] = IF R[W] = W THEN W ELSE f[R[W]]
    <2> HIDE DEF R
    <2>1. f = [W \in SUBSET X |-> IF EpsRound(n, W) = W THEN W ELSE f[EpsRound(n, W)]]
      BY <1>1 DEF EpsIterates
    <2> QED  BY <1>3, <2>1
  <1>5. V \in SUBSET X /\ IsFiniteSet(X)
    OBVIOUS
  <1> HIDE DEF R, X, V
  <1>6. f[V] = L
    BY <1>2, <1>4, <1>5, RoundsLeast
  <1>7. /\ L \in SUBSET X /\ V \subseteq L /\ R[L] = L
        /\ \A Z \in SUBSET X : V \subseteq Z /\ R[Z] = Z => L \subseteq Z
    BY <1>2, <1>5, LeastFacts
  <1>8. epsilonClosure(n, q) = L
    BY <1>1, <1>6 DEF V
  <1> HIDE DEF L
  <1>9. EpsClosed(n, L)
    <2>1. EpsRound(n, L) = L
      BY <1>3, <1>7
    <2> QED  BY <2>1 DEF EpsClosed, EpsRound
  <1>10. ASSUME NEW Z, q \in Z, EpsClosed(n, Z)
         PROVE  L \subseteq Z
    <2> DEFINE Y == Z \cap X
    <2>1. \A t \in n.internals : t.to \in n.states
      BY WellFormedParts DEF Within, Ends
    <2>2. Y \in SUBSET X /\ V \subseteq Y /\ EpsClosed(n, Y)
      BY <1>10, <2>1 DEF EpsClosed, X, V
    <2> HIDE DEF Y
    <2>3. EpsRound(n, Y) = Y
      BY <2>2 DEF EpsClosed, EpsRound
    <2>4. L \subseteq Y
      BY <1>3, <1>7, <2>2, <2>3
    <2> QED  BY <2>4 DEF Y
  <1> QED  BY <1>7, <1>8, <1>9, <1>10 DEF X, V

(* Without EPSILON nothing is closed over. *)
LEMMA ClosureNone ==
    ASSUME NEW n, WellFormed(n), Visible(n.internals), NEW q \in n.states
    PROVE  epsilonClosure(n, q) = {q}
  <1>1. PICK f : EpsIterates(n, f) /\ \A p : epsilonClosure(n, p) = f[{p}]
    BY ClosureIterates
  <1>2. EpsRound(n, {q}) = {q}
    BY DEF EpsRound, Visible
  <1>3. f[{q}] = IF EpsRound(n, {q}) = {q} THEN {q} ELSE f[EpsRound(n, {q})]
    BY <1>1 DEF EpsIterates
  <1> QED  BY <1>1, <1>2, <1>3

(* The configurations of a run, one position after the other. *)
ReadAt(n, w, wild, C, k) == Read(n, Closed(n, C), w[k].kind, {w[k].sym} \cup wild)
RunsOver(n, w, wild, N, f) ==
    f = [k \in 0..N |-> IF k = 0 THEN Start(n) ELSE ReadAt(n, w, wild, f[k - 1], k)]

LEMMA RunExists ==
    ASSUME NEW n, NEW w, NEW wild, NEW N \in Nat
    PROVE  \E f : RunsOver(n, w, wild, N, f)
  <1> DEFINE T == {m \in Nat : \E f : RunsOver(n, w, wild, m, f)}
  <1>1. 0 \in T
    <2> DEFINE f == [k \in 0..0 |-> Start(n)]
    <2>1. f = [k \in 0..0 |-> IF k = 0 THEN Start(n) ELSE ReadAt(n, w, wild, f[k - 1], k)]
      OBVIOUS
    <2>2. RunsOver(n, w, wild, 0, f)
      BY <2>1 DEF RunsOver
    <2> QED  BY <2>2
  <1>2. ASSUME NEW m \in Nat, m \in T PROVE m + 1 \in T
    <2>1. PICK f : RunsOver(n, w, wild, m, f)
      BY <1>2
    <2> DEFINE g == [k \in 0..(m + 1) |-> IF k = m + 1 THEN ReadAt(n, w, wild, f[m], m + 1) ELSE f[k]]
               h(k) == IF k = 0 THEN Start(n) ELSE ReadAt(n, w, wild, g[k - 1], k)
    <2>2. ASSUME NEW k \in 0..(m + 1) PROVE g[k] = h(k)
      <3>1. CASE k = m + 1
        <4>1. g[k] = ReadAt(n, w, wild, f[m], k)
          BY <3>1
        <4>2. k # 0 /\ k - 1 = m /\ m \in 0..(m + 1) /\ m # m + 1
          BY <3>1
        <4>3. g[k - 1] = f[m]
          BY <4>2
        <4> HIDE DEF g
        <4> QED  BY <4>1, <4>2, <4>3
      <3>2. CASE k # m + 1
        <4>1. k \in 0..m /\ g[k] = f[k]
          BY <3>2
        <4>2. f[k] = IF k = 0 THEN Start(n) ELSE ReadAt(n, w, wild, f[k - 1], k)
          BY <2>1, <4>1 DEF RunsOver
        <4>3. CASE k = 0
          BY <4>1, <4>2, <4>3
        <4>4. CASE k # 0
          <5>1. k - 1 \in 0..(m + 1) /\ k - 1 # m + 1
            BY <4>1, <4>4
          <5>2. g[k - 1] = f[k - 1]
            BY <5>1
          <5> HIDE DEF g
          <5> QED  BY <4>1, <4>2, <4>4, <5>2
        <4> QED  BY <4>3, <4>4
      <3> QED  BY <3>1, <3>2
    <2>3. g = [k \in 0..(m + 1) |-> h(k)]
      BY <2>2
    <2>4. RunsOver(n, w, wild, m + 1, g)
      <3> HIDE DEF g
      <3> QED  BY <2>3 DEF RunsOver
    <2> HIDE DEF g
    <2> QED  BY <2>4
  <1> HIDE DEF T
  <1>3. N \in T
    BY <1>1, <1>2, NatInd
  <1> QED  BY <1>3 DEF T

LEMMA Run ==
    ASSUME NEW n, NEW w, NEW wild, Len(w) \in Nat
    PROVE  /\ Configurations(n, w, wild)[0] = Start(n)
           /\ \A k \in 1..Len(w) : Configurations(n, w, wild)[k]
                                      = ReadAt(n, w, wild, Configurations(n, w, wild)[k - 1], k)
  <1> DEFINE N == Len(w)
             after == CHOOSE f : RunsOver(n, w, wild, N, f)
  <1>1. \E f : RunsOver(n, w, wild, N, f)
    BY RunExists
  <1>2. RunsOver(n, w, wild, N, after)
    BY <1>1
  <1>3. Configurations(n, w, wild) = after
    BY DEF Configurations, RunsOver, ReadAt
  <1> HIDE DEF after
  <1>4. \A k \in 0..N : after[k] = IF k = 0 THEN Start(n) ELSE ReadAt(n, w, wild, after[k - 1], k)
    BY <1>2 DEF RunsOver
  <1>5. after[0] = Start(n)
    BY <1>4
  <1>6. \A k \in 1..N : k \in 0..N /\ k # 0
    OBVIOUS
  <1>7. \A k \in 1..N : after[k] = ReadAt(n, w, wild, after[k - 1], k)
    BY <1>4, <1>6
  <1> QED  BY <1>3, <1>5, <1>7

(* Stacks. *)
Push(x, s) == <<x>> \o s

LEMMA Pushed ==
    ASSUME NEW A, NEW x \in A, NEW s \in Seq(A)
    PROVE  /\ Push(x, s) \in Seq(A) /\ Push(x, s) # <<>>
           /\ Len(Push(x, s)) = Len(s) + 1
           /\ Push(x, s)[1] = x /\ Head(Push(x, s)) = x /\ Tail(Push(x, s)) = s
           /\ \A i \in 1..Len(s) : Push(x, s)[i + 1] = s[i]
  <1>1. /\ Push(x, s) \in Seq(A) /\ Len(Push(x, s)) = Len(s) + 1
        /\ Push(x, s)[1] = x /\ \A i \in 1..Len(s) : Push(x, s)[i + 1] = s[i]
    BY DEF Push
  <1>2. Push(x, s) # <<>>
    BY <1>1
  <1>3. Head(Push(x, s)) = x /\ Tail(Push(x, s)) = s
    BY HeadTailAppend, <1>1, <1>2 DEF Push
  <1> QED  BY <1>1, <1>2, <1>3

LEMMA PushedTop ==
    ASSUME NEW A, NEW x \in A, NEW s \in Seq(A)
    PROVE  /\ Push(x, s) \in Seq(A) /\ Push(x, s) # <<>> /\ Push(x, s)[1] = x
           /\ Head(Push(x, s)) = x /\ Tail(Push(x, s)) = s
  BY Pushed

LEMMA Popped ==
    ASSUME NEW A, NEW s \in Seq(A), s # <<>>
    PROVE  /\ Tail(s) \in Seq(A) /\ Head(s) \in A /\ Head(s) = s[1]
           /\ Len(s) \in Nat /\ Len(s) > 0 /\ Len(Tail(s)) = Len(s) - 1
           /\ \A i \in 1..(Len(s) - 1) : Tail(s)[i] = s[i + 1]
           /\ s = Push(Head(s), Tail(s))
  <1>1. /\ Tail(s) \in Seq(A) /\ Head(s) \in A /\ Head(s) = s[1]
        /\ Len(s) \in Nat /\ Len(s) > 0 /\ Len(Tail(s)) = Len(s) - 1
        /\ \A i \in 1..(Len(s) - 1) : Tail(s)[i] = s[i + 1]
    OBVIOUS
  <1>2. /\ Push(Head(s), Tail(s)) \in Seq(A) /\ Len(Push(Head(s), Tail(s))) = Len(s)
        /\ Push(Head(s), Tail(s))[1] = s[1]
        /\ \A i \in 1..(Len(s) - 1) : Push(Head(s), Tail(s))[i + 1] = s[i + 1]
    <2>1. Len(s) = Len(Tail(s)) + 1 /\ \A i \in 1..(Len(s) - 1) : i \in 1..Len(Tail(s))
      BY <1>1
    <2>2. /\ Push(Head(s), Tail(s)) \in Seq(A) /\ Len(Push(Head(s), Tail(s))) = Len(Tail(s)) + 1
          /\ Push(Head(s), Tail(s))[1] = Head(s)
          /\ \A i \in 1..Len(Tail(s)) : Push(Head(s), Tail(s))[i + 1] = Tail(s)[i]
      <3> DEFINE h == Head(s)
                 t == Tail(s)
      <3>1. h \in A /\ t \in Seq(A)
        BY <1>1
      <3> HIDE DEF h, t
      <3>2. /\ Push(h, t) \in Seq(A) /\ Len(Push(h, t)) = Len(t) + 1
            /\ Push(h, t)[1] = h /\ \A i \in 1..Len(t) : Push(h, t)[i + 1] = t[i]
        BY <3>1, Pushed
      <3> QED  BY <3>2 DEF h, t
    <2> QED  BY <1>1, <2>1, <2>2
  <1>3. \A j \in 1..Len(s) : Push(Head(s), Tail(s))[j] = s[j]
    <2>1. \A j \in 1..Len(s) : j = 1 \/ ((j - 1) \in 1..(Len(s) - 1) /\ (j - 1) + 1 = j)
      BY <1>1
    <2> QED  BY <1>2, <2>1
  <1>4. s = Push(Head(s), Tail(s))
    BY <1>2, <1>3, SeqEqual
  <1> QED  BY <1>1, <1>4

(* What one position leads to. *)
Matches(n, C, T, as) == {m \in C \X T : m[2].from = m[1][1] /\ m[2].sym \in as}

LEMMA MatchesIn ==
    ASSUME NEW n, NEW C, NEW T, NEW as
    PROVE  /\ \A m \in Matches(n, C, T, as) : m[1] \in C /\ m[2] \in T /\ m[2].from = m[1][1] /\ m[2].sym \in as
           /\ \A c \in C, t \in T : t.from = c[1] /\ t.sym \in as => <<c, t>> \in Matches(n, C, T, as)
  <1>1. ASSUME NEW m \in Matches(n, C, T, as)
        PROVE  m[1] \in C /\ m[2] \in T /\ m[2].from = m[1][1] /\ m[2].sym \in as
    BY DEF Matches
  <1>2. ASSUME NEW c \in C, NEW t \in T, t.from = c[1], t.sym \in as
        PROVE  <<c, t>> \in Matches(n, C, T, as)
    <2> DEFINE x == <<c, t>>
    <2>1. x \in C \X T /\ x[1] = c /\ x[2] = t
      OBVIOUS
    <2>2. x[2].from = x[1][1] /\ x[2].sym \in as
      BY <1>2, <2>1
    <2> HIDE DEF x
    <2>3. x \in Matches(n, C, T, as)
      BY <2>1, <2>2 DEF Matches
    <2> QED  BY <2>3 DEF x
  <1> QED  BY <1>1, <1>2

CallsRead(M) == {<<m[2].to, Push(m[1][1], m[1][2])>> : m \in M}
InternalsRead(M) == {<<m[2].to, m[1][2]>> : m \in M}
Left(s) == IF s = <<>> THEN <<>> ELSE Tail(s)
Popping(n, M) == {x \in M : Pops(n, x[2], x[1][2])}
ReturnsRead(M) == {<<m[2].to, Left(m[1][2])>> : m \in M}

LEMMA ReadCases ==
    ASSUME NEW n, NEW C, NEW as
    PROVE  /\ Read(n, C, "call", as) = CallsRead(Matches(n, C, n.calls, as))
           /\ Read(n, C, "internal", as) = InternalsRead(Matches(n, C, n.internals, as))
           /\ Read(n, C, "return", as) = ReturnsRead(Popping(n, Matches(n, C, n.returns, as)))
  <1>1. Read(n, C, "call", as) = CallsRead(Matches(n, C, n.calls, as))
    BY Zenon DEF Read, CallsRead, Matches, Push
  <1>2. Read(n, C, "internal", as) = InternalsRead(Matches(n, C, n.internals, as))
    BY Zenon DEF Read, InternalsRead, Matches
  <1>3. Read(n, C, "return", as) = ReturnsRead(Popping(n, Matches(n, C, n.returns, as)))
    BY Zenon DEF Read, ReturnsRead, Popping, Matches, Left
  <1> QED  BY <1>1, <1>2, <1>3

(* A transition of one of the three kinds takes e out of C. *)
ByCall(n, C, as, e) ==
    \E c \in C, t \in n.calls : t.from = c[1] /\ t.sym \in as /\ e = <<t.to, Push(c[1], c[2])>>
ByInternal(n, C, as, e) ==
    \E c \in C, t \in n.internals : t.from = c[1] /\ t.sym \in as /\ e = <<t.to, c[2]>>
ByReturn(n, C, as, e) ==
    \E c \in C, t \in n.returns :
      t.from = c[1] /\ t.sym \in as /\ Pops(n, t, c[2]) /\ e = <<t.to, Left(c[2])>>

LEMMA CallRead ==
    ASSUME NEW n, NEW C, NEW as, NEW e
    PROVE  e \in Read(n, C, "call", as) <=> ByCall(n, C, as, e)
  <1> DEFINE M == Matches(n, C, n.calls, as)
  <1>1. /\ \A m \in M : m[1] \in C /\ m[2] \in n.calls /\ m[2].from = m[1][1] /\ m[2].sym \in as
        /\ \A c \in C, t \in n.calls : t.from = c[1] /\ t.sym \in as => <<c, t>> \in M
    BY MatchesIn
  <1> HIDE DEF M
  <1>2. e \in CallsRead(M) <=> \E m \in M : e = <<m[2].to, Push(m[1][1], m[1][2])>>
    BY Zenon DEF CallsRead
  <1>3. Read(n, C, "call", as) = CallsRead(M)
    BY ReadCases DEF M
  <1>4. ASSUME NEW m \in M, e = <<m[2].to, Push(m[1][1], m[1][2])>>
        PROVE  \E c \in C, t \in n.calls : t.from = c[1] /\ t.sym \in as /\ e = <<t.to, Push(c[1], c[2])>>
    BY <1>1, <1>4
  <1>5. ASSUME NEW c \in C, NEW t \in n.calls, t.from = c[1], t.sym \in as, e = <<t.to, Push(c[1], c[2])>>
        PROVE  \E m \in M : e = <<m[2].to, Push(m[1][1], m[1][2])>>
    <2>1. <<c, t>> \in M /\ <<c, t>>[1] = c /\ <<c, t>>[2] = t
      BY <1>1, <1>5
    <2> QED  BY <1>5, <2>1
  <1> QED  BY <1>2, <1>3, <1>4, <1>5 DEF ByCall

LEMMA InternalRead ==
    ASSUME NEW n, NEW C, NEW as, NEW e
    PROVE  e \in Read(n, C, "internal", as) <=> ByInternal(n, C, as, e)
  <1> DEFINE M == Matches(n, C, n.internals, as)
  <1>1. /\ \A m \in M : m[1] \in C /\ m[2] \in n.internals /\ m[2].from = m[1][1] /\ m[2].sym \in as
        /\ \A c \in C, t \in n.internals : t.from = c[1] /\ t.sym \in as => <<c, t>> \in M
    BY MatchesIn
  <1> HIDE DEF M
  <1>2. e \in InternalsRead(M) <=> \E m \in M : e = <<m[2].to, m[1][2]>>
    BY Zenon DEF InternalsRead
  <1>3. Read(n, C, "internal", as) = InternalsRead(M)
    BY ReadCases DEF M
  <1>4. ASSUME NEW m \in M, e = <<m[2].to, m[1][2]>>
        PROVE  \E c \in C, t \in n.internals : t.from = c[1] /\ t.sym \in as /\ e = <<t.to, c[2]>>
    BY <1>1, <1>4
  <1>5. ASSUME NEW c \in C, NEW t \in n.internals, t.from = c[1], t.sym \in as, e = <<t.to, c[2]>>
        PROVE  \E m \in M : e = <<m[2].to, m[1][2]>>
    <2>1. <<c, t>> \in M /\ <<c, t>>[1] = c /\ <<c, t>>[2] = t
      BY <1>1, <1>5
    <2> QED  BY <1>5, <2>1
  <1> QED  BY <1>2, <1>3, <1>4, <1>5 DEF ByInternal

LEMMA ReturnRead ==
    ASSUME NEW n, NEW C, NEW as, NEW e
    PROVE  e \in Read(n, C, "return", as) <=> ByReturn(n, C, as, e)
  <1> DEFINE M == Matches(n, C, n.returns, as)
             N == Popping(n, M)
  <1>1. /\ \A m \in M : m[1] \in C /\ m[2] \in n.returns /\ m[2].from = m[1][1] /\ m[2].sym \in as
        /\ \A c \in C, t \in n.returns : t.from = c[1] /\ t.sym \in as => <<c, t>> \in M
    BY MatchesIn
  <1>2. Read(n, C, "return", as) = ReturnsRead(N)
    BY ReadCases
  <1> HIDE DEF M
  <1>3. \A m : m \in N <=> m \in M /\ Pops(n, m[2], m[1][2])
    BY DEF Popping
  <1> HIDE DEF N
  <1>4. e \in ReturnsRead(N) <=> \E m \in N : e = <<m[2].to, Left(m[1][2])>>
    BY Zenon DEF ReturnsRead
  <1>5. ASSUME NEW m \in N, e = <<m[2].to, Left(m[1][2])>>
        PROVE  \E c \in C, t \in n.returns :
                 t.from = c[1] /\ t.sym \in as /\ Pops(n, t, c[2]) /\ e = <<t.to, Left(c[2])>>
    BY <1>1, <1>3, <1>5
  <1>6. ASSUME NEW c \in C, NEW t \in n.returns, t.from = c[1], t.sym \in as, Pops(n, t, c[2]), e = <<t.to, Left(c[2])>>
        PROVE  \E m \in N : e = <<m[2].to, Left(m[1][2])>>
    <2>1. <<c, t>> \in M /\ <<c, t>>[1] = c /\ <<c, t>>[2] = t
      BY <1>1, <1>6
    <2>2. <<c, t>> \in N
      BY <1>3, <1>6, <2>1
    <2> QED  BY <1>6, <2>1, <2>2
  <1> QED  BY <1>2, <1>4, <1>5, <1>6 DEF ByReturn

(* The configurations that are alive after k positions, and how one leads  *)
(* to the next.                                                            *)
Live(n, w, wild, k) == Closed(n, Configurations(n, w, wild)[k])
Moves(n, c, kind, as, e) ==
    \/ kind = "call" /\ \E t \in n.calls :
         t.from = c[1] /\ t.sym \in as /\ \E q \in epsilonClosure(n, t.to) : e = <<q, Push(c[1], c[2])>>
    \/ kind = "internal" /\ \E t \in n.internals :
         t.from = c[1] /\ t.sym \in as /\ \E q \in epsilonClosure(n, t.to) : e = <<q, c[2]>>
    \/ kind = "return" /\ \E t \in n.returns :
         t.from = c[1] /\ t.sym \in as /\ Pops(n, t, c[2]) /\ \E q \in epsilonClosure(n, t.to) : e = <<q, Left(c[2])>>

LEMMA ClosedIn ==
    ASSUME NEW n, NEW C, NEW e
    PROVE  e \in Closed(n, C) <=> \E c \in C : \E q \in epsilonClosure(n, c[1]) : e = <<q, c[2]>>
  BY DEF Closed

LEMMA LiveAtFirst ==
    ASSUME NEW n, NEW w, NEW wild, Len(w) \in Nat, NEW e
    PROVE  e \in Live(n, w, wild, 0) <=> \E i \in n.initial : \E q \in epsilonClosure(n, i) : e = <<q, <<>>>>
  <1>1. Configurations(n, w, wild)[0] = Start(n)
    BY Run
  <1>2. \A c : c \in Start(n) <=> \E i \in n.initial : c = <<i, <<>>>>
    BY Zenon DEF Start
  <1>3. e \in Closed(n, Start(n)) <=> \E c \in Start(n) : \E q \in epsilonClosure(n, c[1]) : e = <<q, c[2]>>
    BY ClosedIn
  <1>4. ASSUME NEW c \in Start(n), NEW q \in epsilonClosure(n, c[1]), e = <<q, c[2]>>
        PROVE  \E i \in n.initial : \E p \in epsilonClosure(n, i) : e = <<p, <<>>>>
    <2>1. PICK i \in n.initial : c = <<i, <<>>>>
      BY <1>2
    <2>2. c[1] = i /\ c[2] = <<>>
      BY <2>1
    <2> QED  BY <1>4, <2>2
  <1>5. ASSUME NEW i \in n.initial, NEW q \in epsilonClosure(n, i), e = <<q, <<>>>>
        PROVE  \E c \in Start(n) : \E p \in epsilonClosure(n, c[1]) : e = <<p, c[2]>>
    <2>1. <<i, <<>>>> \in Start(n) /\ <<i, <<>>>>[1] = i /\ <<i, <<>>>>[2] = <<>>
      BY <1>2
    <2> QED  BY <1>5, <2>1
  <1> QED  BY <1>1, <1>3, <1>4, <1>5 DEF Live

LEMMA LiveNext ==
    ASSUME NEW n, NEW w, NEW wild, Len(w) \in Nat, NEW k \in 1..Len(w), w[k].kind \in Kinds, NEW e
    PROVE  e \in Live(n, w, wild, k)
             <=> \E c \in Live(n, w, wild, k - 1) : Moves(n, c, w[k].kind, {w[k].sym} \cup wild, e)
  <1> DEFINE C == Live(n, w, wild, k - 1)
             as == {w[k].sym} \cup wild
             kind == w[k].kind
             D == Read(n, C, kind, as)
  <1>0. Configurations(n, w, wild)[k] = ReadAt(n, w, wild, Configurations(n, w, wild)[k - 1], k)
    BY Run
  <1>1. Live(n, w, wild, k) = Closed(n, D)
    BY <1>0 DEF Live, ReadAt
  <1> HIDE DEF C, as, kind, D
  <1>2. e \in Closed(n, D) <=> \E d \in D : \E q \in epsilonClosure(n, d[1]) : e = <<q, d[2]>>
    BY ClosedIn
  <1>3. CASE kind = "call"
    <2>0. D = Read(n, C, "call", as)
      BY <1>3 DEF D
    <2>1. ASSUME NEW d
          PROVE  d \in D <=> \E c \in C, t \in n.calls : t.from = c[1] /\ t.sym \in as /\ d = <<t.to, Push(c[1], c[2])>>
      <3>1. d \in Read(n, C, "call", as) <=> ByCall(n, C, as, d)
        BY CallRead
      <3> QED  BY <2>0, <3>1, Zenon DEF ByCall
    <2>2. ASSUME NEW d \in D, NEW q \in epsilonClosure(n, d[1]), e = <<q, d[2]>>
          PROVE  \E c \in C : Moves(n, c, kind, as, e)
      <3>1. PICK c \in C, t \in n.calls : t.from = c[1] /\ t.sym \in as /\ d = <<t.to, Push(c[1], c[2])>>
        BY <2>1, Zenon
      <3>2. d[1] = t.to /\ d[2] = Push(c[1], c[2])
        BY <3>1
      <3>3. q \in epsilonClosure(n, t.to) /\ e = <<q, Push(c[1], c[2])>>
        BY <2>2, <3>2
      <3>4. Moves(n, c, kind, as, e)
        BY <1>3, <3>1, <3>3, Zenon DEF Moves
      <3> QED  BY <3>4
    <2>3. ASSUME NEW c \in C, Moves(n, c, kind, as, e)
          PROVE  \E d \in D : \E q \in epsilonClosure(n, d[1]) : e = <<q, d[2]>>
      <3>1. PICK t \in n.calls : t.from = c[1] /\ t.sym \in as /\ \E q \in epsilonClosure(n, t.to) : e = <<q, Push(c[1], c[2])>>
        BY <1>3, <2>3 DEF Moves
      <3>2. PICK q \in epsilonClosure(n, t.to) : e = <<q, Push(c[1], c[2])>>
        BY <3>1
      <3> DEFINE d == <<t.to, Push(c[1], c[2])>>
      <3>3. d[1] = t.to /\ d[2] = Push(c[1], c[2])
        OBVIOUS
      <3>4. d \in D
        BY <2>1, <3>1, Zenon
      <3> HIDE DEF d
      <3> QED  BY <3>2, <3>3, <3>4
    <2> QED  BY <1>1, <1>2, <2>2, <2>3 DEF C, as, kind
  <1>4. CASE kind = "internal"
    <2>0. D = Read(n, C, "internal", as)
      BY <1>4 DEF D
    <2>1. ASSUME NEW d
          PROVE  d \in D <=> \E c \in C, t \in n.internals : t.from = c[1] /\ t.sym \in as /\ d = <<t.to, c[2]>>
      <3>1. d \in Read(n, C, "internal", as) <=> ByInternal(n, C, as, d)
        BY InternalRead
      <3> QED  BY <2>0, <3>1, Zenon DEF ByInternal
    <2>2. ASSUME NEW d \in D, NEW q \in epsilonClosure(n, d[1]), e = <<q, d[2]>>
          PROVE  \E c \in C : Moves(n, c, kind, as, e)
      <3>1. PICK c \in C, t \in n.internals : t.from = c[1] /\ t.sym \in as /\ d = <<t.to, c[2]>>
        BY <2>1, Zenon
      <3>2. d[1] = t.to /\ d[2] = c[2]
        BY <3>1
      <3>3. q \in epsilonClosure(n, t.to) /\ e = <<q, c[2]>>
        BY <2>2, <3>2
      <3>4. Moves(n, c, kind, as, e)
        BY <1>4, <3>1, <3>3, Zenon DEF Moves
      <3> QED  BY <3>4
    <2>3. ASSUME NEW c \in C, Moves(n, c, kind, as, e)
          PROVE  \E d \in D : \E q \in epsilonClosure(n, d[1]) : e = <<q, d[2]>>
      <3>1. PICK t \in n.internals : t.from = c[1] /\ t.sym \in as /\ \E q \in epsilonClosure(n, t.to) : e = <<q, c[2]>>
        BY <1>4, <2>3 DEF Moves
      <3>2. PICK q \in epsilonClosure(n, t.to) : e = <<q, c[2]>>
        BY <3>1
      <3> DEFINE d == <<t.to, c[2]>>
      <3>3. d[1] = t.to /\ d[2] = c[2]
        OBVIOUS
      <3>4. d \in D
        BY <2>1, <3>1, Zenon
      <3> HIDE DEF d
      <3> QED  BY <3>2, <3>3, <3>4
    <2> QED  BY <1>1, <1>2, <2>2, <2>3 DEF C, as, kind
  <1>5. CASE kind = "return"
    <2>0. D = Read(n, C, "return", as)
      BY <1>5 DEF D
    <2>1. ASSUME NEW d
          PROVE  d \in D <=> \E c \in C, t \in n.returns : t.from = c[1] /\ t.sym \in as /\ Pops(n, t, c[2]) /\ d = <<t.to, Left(c[2])>>
      <3>1. d \in Read(n, C, "return", as) <=> ByReturn(n, C, as, d)
        BY ReturnRead
      <3> QED  BY <2>0, <3>1, Zenon DEF ByReturn
    <2>2. ASSUME NEW d \in D, NEW q \in epsilonClosure(n, d[1]), e = <<q, d[2]>>
          PROVE  \E c \in C : Moves(n, c, kind, as, e)
      <3>1. PICK c \in C, t \in n.returns : t.from = c[1] /\ t.sym \in as /\ Pops(n, t, c[2]) /\ d = <<t.to, Left(c[2])>>
        BY <2>1, Zenon
      <3>2. d[1] = t.to /\ d[2] = Left(c[2])
        BY <3>1
      <3>3. q \in epsilonClosure(n, t.to) /\ e = <<q, Left(c[2])>>
        BY <2>2, <3>2
      <3>4. Moves(n, c, kind, as, e)
        BY <1>5, <3>1, <3>3, Zenon DEF Moves
      <3> QED  BY <3>4
    <2>3. ASSUME NEW c \in C, Moves(n, c, kind, as, e)
          PROVE  \E d \in D : \E q \in epsilonClosure(n, d[1]) : e = <<q, d[2]>>
      <3>1. PICK t \in n.returns : t.from = c[1] /\ t.sym \in as /\ Pops(n, t, c[2]) /\ \E q \in epsilonClosure(n, t.to) : e = <<q, Left(c[2])>>
        BY <1>5, <2>3 DEF Moves
      <3>2. PICK q \in epsilonClosure(n, t.to) : e = <<q, Left(c[2])>>
        BY <3>1
      <3> DEFINE d == <<t.to, Left(c[2])>>
      <3>3. d[1] = t.to /\ d[2] = Left(c[2])
        OBVIOUS
      <3>4. d \in D
        BY <2>1, <3>1, Zenon
      <3> HIDE DEF d
      <3> QED  BY <3>2, <3>3, <3>4
    <2> QED  BY <1>1, <1>2, <2>2, <2>3 DEF C, as, kind
  <1> QED  BY <1>3, <1>4, <1>5 DEF Kinds, kind

LEMMA AcceptsLive ==
    ASSUME NEW n, NEW w, NEW wild
    PROVE  Accepts(n, w, wild) <=> \E c \in Live(n, w, wild, Len(w)) : c[1] \in n.final
  BY DEF Accepts, Accepting, Live

(* What a run passes through: a state, and a stack of states as high as    *)
(* the calls that are open.                                                *)
Confs(n) == n.states \X Seq(n.states)

LEMMA MovesTyped ==
    ASSUME NEW n, WellFormed(n), IsFiniteSet(n.states), NEW c \in Confs(n), NEW kind, NEW as, NEW e,
           Moves(n, c, kind, as, e)
    PROVE  e \in Confs(n)
  <1>1. c[1] \in n.states /\ c[2] \in Seq(n.states)
    BY DEF Confs
  <1>2. \A t \in n.calls \cup n.internals \cup n.returns : t.to \in n.states
    BY WellFormedParts DEF Within, Ends
  <1>3. \A t \in n.calls \cup n.internals \cup n.returns : epsilonClosure(n, t.to) \subseteq n.states
    BY <1>2, ClosureFacts
  <1>4. Push(c[1], c[2]) \in Seq(n.states)
    BY <1>1, Pushed
  <1>5. Left(c[2]) \in Seq(n.states)
    <2>1. CASE c[2] = <<>>
      BY <1>1, <2>1 DEF Left
    <2>2. CASE c[2] # <<>>
      BY <1>1, <2>2, Popped DEF Left
    <2> QED  BY <2>1, <2>2
  <1>6. PICK q \in n.states : e \in {<<q, Push(c[1], c[2])>>, <<q, c[2]>>, <<q, Left(c[2])>>}
    BY <1>3 DEF Moves
  <1> QED  BY <1>1, <1>4, <1>5, <1>6 DEF Confs

LEMMA WordTyped ==
    ASSUME NEW w \in Seq(Positions)
    PROVE  /\ Len(w) \in Nat
           /\ \A k \in 1..Len(w) : /\ w[k] \in Positions /\ w[k].kind \in Kinds /\ w[k].sym \in Alphabet
                                   /\ k - 1 \in 0..Len(w)
  <1>1. \A k \in 1..Len(w) : w[k] \in Positions
    OBVIOUS
  <1> QED  BY <1>1 DEF Positions

LEMMA LiveBack ==
    ASSUME NEW n, NEW w \in Seq(Positions), NEW wild, NEW k \in 1..Len(w), NEW e \in Live(n, w, wild, k)
    PROVE  \E c \in Live(n, w, wild, k - 1) : Moves(n, c, w[k].kind, {w[k].sym} \cup wild, e)
  <1>1. Len(w) \in Nat /\ w[k].kind \in Kinds
    BY WordTyped
  <1> QED  BY <1>1, LiveNext

LEMMA LiveOn ==
    ASSUME NEW n, NEW w \in Seq(Positions), NEW wild, NEW k \in 1..Len(w),
           NEW c \in Live(n, w, wild, k - 1), NEW e, Moves(n, c, w[k].kind, {w[k].sym} \cup wild, e)
    PROVE  e \in Live(n, w, wild, k)
  <1>1. Len(w) \in Nat /\ w[k].kind \in Kinds
    BY WordTyped
  <1> QED  BY <1>1, LiveNext

LEMMA LiveTyped ==
    ASSUME NEW n, WellFormed(n), IsFiniteSet(n.states), NEW w \in Seq(Positions), NEW wild
    PROVE  \A k \in 0..Len(w) : Live(n, w, wild, k) \subseteq Confs(n)
  <1> DEFINE T == {k \in Nat : Live(n, w, wild, k) \subseteq Confs(n)}
  <1>0. Len(w) \in Nat
    BY WordTyped
  <1>1. 0 \in T
    <2>1. ASSUME NEW e \in Live(n, w, wild, 0) PROVE e \in Confs(n)
      <3>1. PICK i \in n.initial : \E q \in epsilonClosure(n, i) : e = <<q, <<>>>>
        BY <1>0, LiveAtFirst
      <3>2. PICK q \in epsilonClosure(n, i) : e = <<q, <<>>>>
        BY <3>1
      <3>3. q \in n.states
        BY <3>2, WellFormedParts, ClosureFacts
      <3>4. <<>> \in Seq(n.states)
        BY EmptySeq
      <3> QED  BY <3>2, <3>3, <3>4 DEF Confs
    <2> QED  BY <2>1
  <1>2. ASSUME NEW k \in 1..Len(w), k - 1 \in T PROVE k \in T
    <2>1. ASSUME NEW e \in Live(n, w, wild, k) PROVE e \in Confs(n)
      <3>1. PICK c \in Live(n, w, wild, k - 1) : Moves(n, c, w[k].kind, {w[k].sym} \cup wild, e)
        BY LiveBack
      <3>2. c \in Confs(n)
        BY <1>2, <3>1
      <3> QED  BY <3>1, <3>2, MovesTyped
    <2>2. k \in Nat
      BY <1>0
    <2> QED  BY <2>1, <2>2
  <1>3. 0..Len(w) \subseteq T
    <2> HIDE DEF T
    <2> QED  BY <1>0, <1>1, <1>2, UpTo
  <1> QED  BY <1>3

(* The number of open calls, one position after the other. *)
OpenAt(o, kind) ==
    CASE kind = "call" -> o + 1
      [] kind = "internal" -> o
      [] kind = "return" -> IF o = 0 THEN 0 ELSE o - 1
OpensOver(w, N, f) == f = [k \in 0..N |-> IF k = 0 THEN 0 ELSE OpenAt(f[k - 1], w[k].kind)]

LEMMA OpensExist ==
    ASSUME NEW w, NEW N \in Nat
    PROVE  \E f : OpensOver(w, N, f)
  <1> DEFINE T == {m \in Nat : \E f : OpensOver(w, m, f)}
  <1>1. 0 \in T
    <2> DEFINE f == [k \in 0..0 |-> 0]
    <2>1. f = [k \in 0..0 |-> IF k = 0 THEN 0 ELSE OpenAt(f[k - 1], w[k].kind)]
      OBVIOUS
    <2>2. OpensOver(w, 0, f)
      BY <2>1 DEF OpensOver
    <2> QED  BY <2>2
  <1>2. ASSUME NEW m \in Nat, m \in T PROVE m + 1 \in T
    <2>1. PICK f : OpensOver(w, m, f)
      BY <1>2
    <2> DEFINE g == [k \in 0..(m + 1) |-> IF k = m + 1 THEN OpenAt(f[m], w[m + 1].kind) ELSE f[k]]
               h(k) == IF k = 0 THEN 0 ELSE OpenAt(g[k - 1], w[k].kind)
    <2>2. ASSUME NEW k \in 0..(m + 1) PROVE g[k] = h(k)
      <3>1. CASE k = m + 1
        <4>1. g[k] = OpenAt(f[m], w[k].kind)
          BY <3>1
        <4>2. k # 0 /\ k - 1 = m /\ m \in 0..(m + 1) /\ m # m + 1
          BY <3>1
        <4>3. g[k - 1] = f[m]
          BY <4>2
        <4> HIDE DEF g
        <4> QED  BY <4>1, <4>2, <4>3
      <3>2. CASE k # m + 1
        <4>1. k \in 0..m /\ g[k] = f[k]
          BY <3>2
        <4>2. f[k] = IF k = 0 THEN 0 ELSE OpenAt(f[k - 1], w[k].kind)
          BY <2>1, <4>1 DEF OpensOver
        <4>3. CASE k = 0
          BY <4>1, <4>2, <4>3
        <4>4. CASE k # 0
          <5>1. k - 1 \in 0..(m + 1) /\ k - 1 # m + 1
            BY <4>1, <4>4
          <5>2. g[k - 1] = f[k - 1]
            BY <5>1
          <5> HIDE DEF g
          <5> QED  BY <4>1, <4>2, <4>4, <5>2
        <4> QED  BY <4>3, <4>4
      <3> QED  BY <3>1, <3>2
    <2>3. g = [k \in 0..(m + 1) |-> h(k)]
      BY <2>2
    <2>4. OpensOver(w, m + 1, g)
      <3> HIDE DEF g
      <3> QED  BY <2>3 DEF OpensOver
    <2> HIDE DEF g
    <2> QED  BY <2>4
  <1> HIDE DEF T
  <1>3. N \in T
    BY <1>1, <1>2, NatInd
  <1> QED  BY <1>3 DEF T

LEMMA OpensStep ==
    ASSUME NEW w \in Seq(Positions)
    PROVE  /\ Opens(w)[0] = 0
           /\ \A k \in 1..Len(w) : Opens(w)[k] = OpenAt(Opens(w)[k - 1], w[k].kind)
           /\ \A k \in 0..Len(w) : Opens(w)[k] \in Nat
  <1> DEFINE N == Len(w)
             open == CHOOSE f : OpensOver(w, N, f)
  <1>0. N \in Nat /\ \A k \in 1..N : w[k].kind \in Kinds
    BY WordTyped
  <1>1. \E f : OpensOver(w, N, f)
    BY <1>0, OpensExist
  <1>2. OpensOver(w, N, open)
    BY <1>1
  <1>3. Opens(w) = open
    BY DEF Opens, OpensOver, OpenAt
  <1> HIDE DEF open
  <1>4. \A k \in 0..N : open[k] = IF k = 0 THEN 0 ELSE OpenAt(open[k - 1], w[k].kind)
    BY <1>2 DEF OpensOver
  <1>5. open[0] = 0
    BY <1>0, <1>4
  <1>6. \A k \in 1..N : k \in 0..N /\ k # 0
    BY <1>0
  <1>7. \A k \in 1..N : open[k] = OpenAt(open[k - 1], w[k].kind)
    BY <1>4, <1>6
  <1> DEFINE T == {k \in Nat : open[k] \in Nat}
  <1>8. 0 \in T
    BY <1>5
  <1>9. ASSUME NEW k \in 1..N, k - 1 \in T PROVE k \in T
    <2>1. open[k - 1] \in Nat /\ w[k].kind \in {"call", "internal", "return"} /\ k \in Nat
      BY <1>0, <1>9 DEF Kinds
    <2>2. OpenAt(open[k - 1], w[k].kind) \in Nat
      BY <2>1 DEF OpenAt
    <2> QED  BY <1>7, <2>1, <2>2
  <1>10. 0..N \subseteq T
    <2> HIDE DEF T
    <2> QED  BY <1>0, <1>8, <1>9, UpTo
  <1> QED  BY <1>3, <1>5, <1>7, <1>10

LEMMA LiveDepth ==
    ASSUME NEW n, WellFormed(n), IsFiniteSet(n.states), NEW w \in Seq(Positions), NEW wild
    PROVE  \A k \in 0..Len(w) : \A e \in Live(n, w, wild, k) : Len(e[2]) = Opens(w)[k]
  <1> DEFINE T == {k \in Nat : \A e \in Live(n, w, wild, k) : Len(e[2]) = Opens(w)[k]}
  <1>0. Len(w) \in Nat /\ \A k \in 1..Len(w) : w[k].kind \in Kinds /\ k - 1 \in 0..Len(w)
    BY WordTyped
  <1>1. 0 \in T
    <2>1. ASSUME NEW e \in Live(n, w, wild, 0) PROVE Len(e[2]) = Opens(w)[0]
      <3>1. PICK i \in n.initial : \E q \in epsilonClosure(n, i) : e = <<q, <<>>>>
        BY <1>0, LiveAtFirst
      <3>2. e[2] = <<>>
        BY <3>1
      <3> QED  BY <3>2, OpensStep
    <2> QED  BY <2>1
  <1>2. ASSUME NEW k \in 1..Len(w), k - 1 \in T PROVE k \in T
    <2>1. ASSUME NEW e \in Live(n, w, wild, k) PROVE Len(e[2]) = Opens(w)[k]
      <3> DEFINE kind == w[k].kind
                 o == Opens(w)[k - 1]
      <3>1. PICK c \in Live(n, w, wild, k - 1) : Moves(n, c, w[k].kind, {w[k].sym} \cup wild, e)
        BY LiveBack
      <3>2. c[1] \in n.states /\ c[2] \in Seq(n.states) /\ Len(c[2]) = o
        BY <1>0, <1>2, <3>1, LiveTyped DEF Confs
      <3>3. Opens(w)[k] = OpenAt(o, kind)
        BY OpensStep
      <3> HIDE DEF o
      <3>4. CASE kind = "call"
        <4>1. e[2] = Push(c[1], c[2])
          BY <3>1, <3>4 DEF Moves
        <4>2. Len(Push(c[1], c[2])) = Len(c[2]) + 1
          <5> DEFINE q == c[1]
                     s == c[2]
          <5>1. q \in n.states /\ s \in Seq(n.states)
            BY <3>2
          <5> HIDE DEF q, s
          <5>2. Len(Push(q, s)) = Len(s) + 1
            BY <5>1, Pushed
          <5> QED  BY <5>2 DEF q, s
        <4>3. Len(e[2]) = o + 1
          BY <3>2, <4>1, <4>2
        <4> QED  BY <3>3, <3>4, <4>3 DEF OpenAt
      <3>5. CASE kind = "internal"
        <4>1. e[2] = c[2]
          BY <3>1, <3>5 DEF Moves
        <4> QED  BY <3>2, <3>3, <3>5, <4>1 DEF OpenAt
      <3>6. CASE kind = "return"
        <4>1. e[2] = Left(c[2])
          BY <3>1, <3>6 DEF Moves
        <4>2. CASE c[2] = <<>>
          <5>1. o = 0 /\ Len(e[2]) = 0
            BY <3>2, <4>1, <4>2 DEF Left
          <5> QED  BY <3>3, <3>6, <5>1 DEF OpenAt
        <4>3. CASE c[2] # <<>>
          <5>1. Len(c[2]) \in Nat /\ Len(c[2]) > 0 /\ Len(Tail(c[2])) = Len(c[2]) - 1
            BY <3>2, <4>3, Popped
          <5>2. o # 0 /\ Len(e[2]) = o - 1
            BY <3>2, <4>1, <4>3, <5>1 DEF Left
          <5> QED  BY <3>3, <3>6, <5>2 DEF OpenAt
        <4> QED  BY <4>2, <4>3
      <3> QED  BY <1>0, <3>4, <3>5, <3>6 DEF Kinds
    <2>2. k \in Nat
      BY <1>0
    <2> QED  BY <2>1, <2>2
  <1>3. 0..Len(w) \subseteq T
    <2> HIDE DEF T
    <2> QED  BY <1>0, <1>1, <1>2, UpTo
  <1> QED  BY <1>3

-----------------------------------------------------------------------------
(* Relations. *)
Pairs(R) == \A x \in R : x = <<x[1], x[2]>>

LEMMA ComposePairs ==
    ASSUME NEW R, NEW S, Pairs(R), Pairs(S)
    PROVE  /\ Pairs(Compose(R, S))
           /\ \A a, b, c : <<a, b>> \in R /\ <<b, c>> \in S => <<a, c>> \in Compose(R, S)
           /\ \A z \in Compose(R, S) : \E b : <<z[1], b>> \in R /\ <<b, z[2]>> \in S
  <1> DEFINE M == {y \in R \X S : y[1][2] = y[2][1]}
  <1>1. \A z : z \in Compose(R, S) <=> \E x \in M : z = <<x[1][1], x[2][2]>>
    BY Zenon DEF Compose
  <1>2. ASSUME NEW z \in Compose(R, S)
        PROVE  z = <<z[1], z[2]>> /\ \E b : <<z[1], b>> \in R /\ <<b, z[2]>> \in S
    <2>1. PICK x \in M : z = <<x[1][1], x[2][2]>>
      BY <1>1
    <2>2. x[1] \in R /\ x[2] \in S /\ x[1][2] = x[2][1]
      OBVIOUS
    <2>3. z[1] = x[1][1] /\ z[2] = x[2][2]
      BY <2>1
    <2>4. <<x[1][1], x[1][2]>> \in R /\ <<x[2][1], x[2][2]>> \in S
      BY <2>2 DEF Pairs
    <2> HIDE DEF M
    <2> QED  BY <2>1, <2>2, <2>3, <2>4
  <1>3. ASSUME NEW a, NEW b, NEW c, <<a, b>> \in R, <<b, c>> \in S
        PROVE  <<a, c>> \in Compose(R, S)
    <2> DEFINE x == <<<<a, b>>, <<b, c>>>>
    <2>1. x[1] = <<a, b>> /\ x[2] = <<b, c>> /\ x[1][2] = x[2][1] /\ x[1][1] = a /\ x[2][2] = c
      OBVIOUS
    <2>2. x \in R \X S
      BY <1>3
    <2> HIDE DEF x
    <2>3. x \in M
      BY <2>1, <2>2
    <2>4. <<a, c>> = <<x[1][1], x[2][2]>>
      BY <2>1
    <2> HIDE DEF M
    <2> QED  BY <1>1, <2>3, <2>4
  <1> HIDE DEF M
  <1>4. Pairs(Compose(R, S))
    BY <1>2 DEF Pairs
  <1> QED  BY <1>2, <1>3, <1>4

LEMMA StepsPairs ==
    ASSUME NEW T, NEW s
    PROVE  /\ Pairs(Steps(T, s))
           /\ \A t \in T : t.sym \in {s, WILD} => <<t.from, t.to>> \in Steps(T, s)
           /\ \A z \in Steps(T, s) : \E t \in T : t.sym \in {s, WILD} /\ z = <<t.from, t.to>>
  BY DEF Steps, Pairs

LEMMA ClosePairs ==
    ASSUME NEW n
    PROVE  /\ Pairs(Close(n))
           /\ \A p \in n.states : \A q \in epsilonClosure(n, p) : <<p, q>> \in Close(n)
           /\ \A z \in Close(n) : z[1] \in n.states /\ z[2] \in epsilonClosure(n, z[1])
  <1>1. \A z : z \in Close(n) <=> \E p \in n.states : z \in {p} \X epsilonClosure(n, p)
    BY Zenon DEF Close
  <1>2. ASSUME NEW z \in Close(n)
        PROVE  z = <<z[1], z[2]>> /\ z[1] \in n.states /\ z[2] \in epsilonClosure(n, z[1])
    <2>1. PICK p \in n.states : z \in {p} \X epsilonClosure(n, p)
      BY <1>1
    <2>2. z = <<z[1], z[2]>> /\ z[1] = p /\ z[2] \in epsilonClosure(n, p)
      BY <2>1
    <2> QED  BY <2>2
  <1>3. ASSUME NEW p \in n.states, NEW q \in epsilonClosure(n, p)
        PROVE  <<p, q>> \in Close(n)
    BY <1>1
  <1>4. Pairs(Close(n))
    BY <1>2 DEF Pairs
  <1> QED  BY <1>2, <1>3, <1>4

MergeSteps(exit, T, s) ==
    {<<t.pred, t.to>> : t \in {u \in T : u.sym \in {s, WILD} /\ <<u.pred, u.from>> \in exit}}

Returning(exit, call, T, s, a, b) ==
    \E t \in T : /\ t.sym \in {s, WILD} /\ <<t.pred, t.from>> \in exit
                 /\ <<a, t.pred>> \in call /\ b = t.to
Merges(exit, call, T, s, X) ==
    /\ Pairs(X)
    /\ \A t \in T : \A a : t.sym \in {s, WILD} /\ <<t.pred, t.from>> \in exit /\ <<a, t.pred>> \in call
         => <<a, t.to>> \in X
    /\ \A z \in X : Returning(exit, call, T, s, z[1], z[2])

LEMMA MergePairs ==
    ASSUME NEW exit, NEW call, NEW T, NEW s, Pairs(call)
    PROVE  Merges(exit, call, T, s, Merge(exit, call, T, s))
  <1> DEFINE M == MergeSteps(exit, T, s)
  <1>1. Merge(exit, call, T, s) = Compose(call, M)
    BY DEF Merge, MergeSteps
  <1>2. /\ Pairs(M)
        /\ \A t \in T : t.sym \in {s, WILD} /\ <<t.pred, t.from>> \in exit => <<t.pred, t.to>> \in M
        /\ \A z \in M : \E t \in T : t.sym \in {s, WILD} /\ <<t.pred, t.from>> \in exit /\ z = <<t.pred, t.to>>
    <2>1. ASSUME NEW z \in M
          PROVE  \E t \in T : t.sym \in {s, WILD} /\ <<t.pred, t.from>> \in exit /\ z = <<t.pred, t.to>>
      BY DEF MergeSteps
    <2>2. ASSUME NEW t \in T, t.sym \in {s, WILD}, <<t.pred, t.from>> \in exit
          PROVE  <<t.pred, t.to>> \in M
      BY <2>2, Zenon DEF MergeSteps
    <2> HIDE DEF M
    <2>3. Pairs(M)
      <3>1. ASSUME NEW z \in M PROVE z = <<z[1], z[2]>>
        <4>1. PICK t \in T : z = <<t.pred, t.to>>
          BY <2>1
        <4> QED  BY <4>1
      <3> QED  BY <3>1 DEF Pairs
    <2> QED  BY <2>1, <2>2, <2>3
  <1> HIDE DEF M
  <1>3. /\ Pairs(Compose(call, M))
        /\ \A a, b, c : <<a, b>> \in call /\ <<b, c>> \in M => <<a, c>> \in Compose(call, M)
        /\ \A z \in Compose(call, M) : \E b : <<z[1], b>> \in call /\ <<b, z[2]>> \in M
    BY <1>2, ComposePairs
  <1>4. ASSUME NEW z \in Compose(call, M)
        PROVE  \E t \in T : /\ t.sym \in {s, WILD} /\ <<t.pred, t.from>> \in exit
                            /\ <<z[1], t.pred>> \in call /\ z[2] = t.to
    <2>1. PICK b : <<z[1], b>> \in call /\ <<b, z[2]>> \in M
      BY <1>3
    <2>2. PICK t \in T : t.sym \in {s, WILD} /\ <<t.pred, t.from>> \in exit /\ <<b, z[2]>> = <<t.pred, t.to>>
      BY <1>2, <2>1
    <2>3. b = t.pred /\ z[2] = t.to
      BY <2>2
    <2> QED  BY <2>1, <2>2, <2>3
  <1>5. ASSUME NEW t \in T, NEW a, t.sym \in {s, WILD}, <<t.pred, t.from>> \in exit, <<a, t.pred>> \in call
        PROVE  <<a, t.to>> \in Compose(call, M)
    <2>1. <<t.pred, t.to>> \in M
      BY <1>2, <1>5
    <2> QED  BY <1>3, <1>5, <2>1
  <1>6. Pairs(Compose(call, M))
    BY <1>3
  <1> DEFINE X == Merge(exit, call, T, s)
  <1>7. X = Compose(call, M)
    BY <1>1
  <1> HIDE DEF X
  <1>8. Pairs(X)
    BY <1>6, <1>7
  <1>9. ASSUME NEW z \in X
        PROVE  Returning(exit, call, T, s, z[1], z[2])
    BY <1>4, <1>7 DEF Returning
  <1>10. ASSUME NEW t \in T, NEW a, t.sym \in {s, WILD}, <<t.pred, t.from>> \in exit, <<a, t.pred>> \in call
         PROVE  <<a, t.to>> \in X
    BY <1>5, <1>7, <1>10
  <1>11. \A z \in X : Returning(exit, call, T, s, z[1], z[2])
    BY <1>9
  <1>12. \A t \in T : \A a : t.sym \in {s, WILD} /\ <<t.pred, t.from>> \in exit /\ <<a, t.pred>> \in call
           => <<a, t.to>> \in X
    BY <1>10
  <1>13. Merges(exit, call, T, s, X)
    BY ONLY <1>8, <1>11, <1>12, Zenon DEF Merges
  <1> QED  BY <1>13 DEF X

(* The relations on the states, and what determinize finds of them. *)
Rel(n) == SUBSET (n.states \X n.states)
StartRel(n) == Compose(n.initial \X n.initial, Close(n))

LEMMA RelPairs == ASSUME NEW n, NEW R \in Rel(n) PROVE Pairs(R)
  BY DEF Rel, Pairs

LEMMA ComposeRel ==
    ASSUME NEW n, NEW R \in Rel(n), NEW S \in Rel(n)
    PROVE  Compose(R, S) \in Rel(n)
  <1>1. ASSUME NEW z \in Compose(R, S) PROVE z \in n.states \X n.states
    <2>1. Pairs(R) /\ Pairs(S)
      BY RelPairs
    <2>2. z = <<z[1], z[2]>>
      BY <2>1, ComposePairs DEF Pairs
    <2>3. PICK b : <<z[1], b>> \in R /\ <<b, z[2]>> \in S
      BY <2>1, ComposePairs
    <2>4. z[1] \in n.states /\ z[2] \in n.states
      BY <2>3 DEF Rel
    <2> QED  BY <2>2, <2>4
  <1> QED  BY <1>1 DEF Rel

LEMMA PartsRel ==
    ASSUME NEW n, WellFormed(n), IsFiniteSet(n.states), NEW s
    PROVE  /\ Steps(n.internals, s) \in Rel(n) /\ Steps(n.calls, s) \in Rel(n) /\ Close(n) \in Rel(n)
           /\ StartRel(n) \in Rel(n)
           /\ \A R \in Rel(n), V \in Rel(n) : Merge(R, V, n.returns, s) \in Rel(n)
  <1>1. \A t \in n.calls \cup n.internals \cup n.returns : t.from \in n.states /\ t.to \in n.states
    BY WellFormedParts DEF Within, Ends
  <1>2. ASSUME NEW T, T \subseteq n.calls \cup n.internals PROVE Steps(T, s) \in Rel(n)
    <2>1. ASSUME NEW z \in Steps(T, s) PROVE z \in n.states \X n.states
      <3>1. PICK t \in T : z = <<t.from, t.to>>
        BY StepsPairs
      <3> QED  BY <1>1, <1>2, <3>1
    <2> QED  BY <2>1 DEF Rel
  <1>3. Close(n) \in Rel(n)
    <2>1. ASSUME NEW z \in Close(n) PROVE z \in n.states \X n.states
      <3>1. z = <<z[1], z[2]>> /\ z[1] \in n.states /\ z[2] \in epsilonClosure(n, z[1])
        BY ClosePairs DEF Pairs
      <3>2. z[2] \in n.states
        BY <3>1, ClosureFacts
      <3> QED  BY <3>1, <3>2
    <2> QED  BY <2>1 DEF Rel
  <1>4. n.initial \X n.initial \in Rel(n)
    BY WellFormedParts DEF Rel
  <1>5. StartRel(n) \in Rel(n)
    BY <1>3, <1>4, ComposeRel DEF StartRel
  <1>6. ASSUME NEW R \in Rel(n), NEW V \in Rel(n) PROVE Merge(R, V, n.returns, s) \in Rel(n)
    <2> DEFINE T == n.returns
               M == Merge(R, V, T, s)
    <2>0. \A t \in T : t.from \in n.states /\ t.to \in n.states
      BY <1>1
    <2> HIDE DEF T
    <2>1. Merges(R, V, T, s, M)
      <3>1. Pairs(V)
        BY RelPairs
      <3> QED  BY <3>1, MergePairs
    <2> HIDE DEF M
    <2>2. ASSUME NEW z \in M PROVE z \in n.states \X n.states
      <3>1. z = <<z[1], z[2]>>
        BY <2>1 DEF Merges, Pairs
      <3>2. PICK t \in T : <<z[1], t.pred>> \in V /\ z[2] = t.to
        BY <2>1 DEF Merges, Returning
      <3>3. z[1] \in n.states /\ z[2] \in n.states
        BY <2>0, <3>2 DEF Rel
      <3> QED  BY <3>1, <3>3
    <2>3. M \in Rel(n)
      BY <2>2 DEF Rel
    <2> QED  BY <2>3 DEF M, T
  <1> QED  BY <1>2, <1>3, <1>5, <1>6

LEMMA OnRel ==
    ASSUME NEW n, WellFormed(n), IsFiniteSet(n.states), NEW R \in Rel(n), NEW V \in Rel(n), NEW s
    PROVE  /\ OnInternal(n, Close(n), R, s) \in Rel(n) /\ OnCall(n, Close(n), R, s) \in Rel(n)
           /\ OnReturn(n, Close(n), R, V, s) \in Rel(n)
  <1>1. /\ Steps(n.internals, s) \in Rel(n) /\ Steps(n.calls, s) \in Rel(n) /\ Close(n) \in Rel(n)
        /\ Merge(R, V, n.returns, s) \in Rel(n)
    BY PartsRel
  <1> QED  BY <1>1, ComposeRel DEF OnInternal, OnCall, OnReturn

DetRound(n, E) == Discovered(n, Close(n), E)
DetRounds(n) == [E \in SUBSET Rel(n) |-> DetRound(n, E)]
DetIterates(n, f) ==
    f = [W \in SUBSET Rel(n) |-> IF DetRound(n, W) = W THEN W ELSE f[DetRound(n, W)]]
OneMove(n, R, E) ==
    \/ \E U \in E, s \in n.symbols : R = OnInternal(n, Close(n), U, s) \/ R = OnCall(n, Close(n), U, s)
    \/ \E U \in E, V \in E, s \in n.symbols : R = OnReturn(n, Close(n), U, V, s)
DetClosed(n, E) == \A R : OneMove(n, R, E) => R \in E

LEMMA DetRoundIn ==
    ASSUME NEW n, NEW E, NEW R
    PROVE  R \in DetRound(n, E) <=> R \in E \/ OneMove(n, R, E)
  <1> DEFINE close == Close(n)
             I(U, s) == OnInternal(n, close, U, s)
             C(U, s) == OnCall(n, close, U, s)
             O(U, V, s) == OnReturn(n, close, U, V, s)
             A == n.symbols
             J == {{I(U, s), C(U, s)} : U \in E, s \in A}
             Out == {O(U, V, s) : U \in E, V \in E, s \in A}
  <1>1. DetRound(n, E) = E \cup (UNION J) \cup Out
    BY DEF DetRound, Discovered
  <1>2. OneMove(n, R, E) <=> \/ \E U \in E, s \in A : R = I(U, s) \/ R = C(U, s)
                             \/ \E U \in E, V \in E, s \in A : R = O(U, V, s)
    BY DEF OneMove
  <1> HIDE DEF close, I, C, O, A
  <1>3. R \in Out <=> \E U \in E, V \in E, s \in A : R = O(U, V, s)
    OBVIOUS
  <1>4. \A Z : Z \in J <=> \E U \in E, s \in A : Z = {I(U, s), C(U, s)}
    OBVIOUS
  <1> HIDE DEF J, Out
  <1>5. ASSUME R \in UNION J PROVE \E U \in E, s \in A : R = I(U, s) \/ R = C(U, s)
    BY <1>4, <1>5
  <1>6. ASSUME NEW U \in E, NEW s \in A, R = I(U, s) \/ R = C(U, s) PROVE R \in UNION J
    <2>1. {I(U, s), C(U, s)} \in J
      BY <1>4
    <2>2. R \in {I(U, s), C(U, s)}
      BY <1>6
    <2> QED  BY <2>1, <2>2
  <1> QED  BY <1>1, <1>2, <1>3, <1>5, <1>6

LEMMA MoveRel ==
    ASSUME NEW n, WellFormed(n), IsFiniteSet(n.states), NEW E \in SUBSET Rel(n), NEW R, OneMove(n, R, E)
    PROVE  R \in Rel(n)
  <1>1. CASE \E U \in E, s \in n.symbols : R = OnInternal(n, Close(n), U, s) \/ R = OnCall(n, Close(n), U, s)
    <2>1. PICK U \in E, s \in n.symbols : R = OnInternal(n, Close(n), U, s) \/ R = OnCall(n, Close(n), U, s)
      BY <1>1
    <2>2. U \in Rel(n)
      OBVIOUS
    <2>3. OnInternal(n, Close(n), U, s) \in Rel(n) /\ OnCall(n, Close(n), U, s) \in Rel(n)
      BY <2>2, OnRel
    <2> QED  BY <2>1, <2>3
  <1>2. CASE \E U \in E, V \in E, s \in n.symbols : R = OnReturn(n, Close(n), U, V, s)
    <2>1. PICK U \in E, V \in E, s \in n.symbols : R = OnReturn(n, Close(n), U, V, s)
      BY <1>2
    <2>2. U \in Rel(n) /\ V \in Rel(n)
      OBVIOUS
    <2>3. OnReturn(n, Close(n), U, V, s) \in Rel(n)
      BY <2>2, OnRel
    <2> QED  BY <2>1, <2>3
  <1> QED  BY <1>1, <1>2 DEF OneMove

LEMMA DetRoundsAdd ==
    ASSUME NEW n, WellFormed(n), IsFiniteSet(n.states)
    PROVE  Adds(DetRounds(n), Rel(n))
  <1>1. ASSUME NEW E \in SUBSET Rel(n) PROVE DetRound(n, E) \in SUBSET Rel(n) /\ E \subseteq DetRound(n, E)
    <2>1. \A R : R \in DetRound(n, E) <=> R \in E \/ OneMove(n, R, E)
      BY DetRoundIn
    <2>2. \A R : OneMove(n, R, E) => R \in Rel(n)
      BY MoveRel
    <2> QED  BY <2>1, <2>2
  <1>2. ASSUME NEW E \in SUBSET Rel(n), NEW F \in SUBSET Rel(n), E \subseteq F
        PROVE  DetRound(n, E) \subseteq DetRound(n, F)
    <2>1. \A R : R \in DetRound(n, E) <=> R \in E \/ OneMove(n, R, E)
      BY DetRoundIn
    <2>2. \A R : R \in DetRound(n, F) <=> R \in F \/ OneMove(n, R, F)
      BY DetRoundIn
    <2>3. \A R : OneMove(n, R, E) => OneMove(n, R, F)
      BY <1>2 DEF OneMove
    <2> QED  BY <1>2, <2>1, <2>2, <2>3
  <1>3. \A E \in SUBSET Rel(n) : DetRounds(n)[E] = DetRound(n, E)
    BY DEF DetRounds
  <1>4. DetRounds(n) \in [SUBSET Rel(n) -> SUBSET Rel(n)]
    BY <1>1 DEF DetRounds
  <1> QED  BY <1>1, <1>2, <1>3, <1>4 DEF Adds

(* The relations determinize finds: the first, and what they lead to. *)
DetStates(n, D) ==
    /\ determinize(n) = Determinized(n, Close(n), StartRel(n), D)
    /\ D \in SUBSET Rel(n) /\ StartRel(n) \in D /\ DetClosed(n, D)

LEMMA DetFacts ==
    ASSUME NEW n, WellFormed(n), IsFiniteSet(n.states)
    PROVE  \E D : DetStates(n, D)
  <1> DEFINE from == CHOOSE f : DetIterates(n, f)
             R == DetRounds(n)
             X == Rel(n)
             V == {StartRel(n)}
             L == Least(R, X, V)
  <1>1. Adds(R, X)
    BY DetRoundsAdd
  <1>2. \A W \in SUBSET X : R[W] = DetRound(n, W)
    BY DEF DetRounds
  <1>3. \E f : DetIterates(n, f)
    <2>1. PICK f : Iterates(f, R, X)
      BY <1>1, RoundsExist
    <2>2. f = [W \in SUBSET X |-> IF DetRound(n, W) = W THEN W ELSE f[DetRound(n, W)]]
      <3> HIDE DEF R, X
      <3> QED  BY <1>2, <2>1 DEF Iterates
    <2> QED  BY <2>2 DEF DetIterates
  <1>4. DetIterates(n, from)
    BY <1>3
  <1>5. determinize(n) = Determinized(n, Close(n), StartRel(n), from[V])
    BY DEF determinize, Determinize, StartRel, Fix, DetIterates, DetRound, Rel
  <1> HIDE DEF from
  <1>6. \A W \in SUBSET X : from[W] = IF R[W] = W THEN W ELSE from[R[W]]
    <2> HIDE DEF R
    <2>1. from = [W \in SUBSET X |-> IF DetRound(n, W) = W THEN W ELSE from[DetRound(n, W)]]
      BY <1>4 DEF DetIterates
    <2> HIDE DEF X
    <2> QED  BY <1>2, <2>1
  <1>7. V \in SUBSET X
    BY PartsRel
  <1>8. IsFiniteSet(X)
    <2>1. IsFiniteSet(n.states \X n.states)
      BY FS_Product
    <2> QED  BY <2>1, FS_SUBSET DEF Rel
  <1> HIDE DEF R, X, V
  <1>9. from[V] = L
    BY <1>1, <1>6, <1>7, <1>8, RoundsLeast
  <1>10. L \in SUBSET X /\ V \subseteq L /\ R[L] = L
    BY <1>1, <1>7, LeastFacts
  <1> HIDE DEF L
  <1>11. DetClosed(n, L)
    <2>1. DetRound(n, L) = L
      BY <1>2, <1>10
    <2>2. \A S : S \in DetRound(n, L) <=> S \in L \/ OneMove(n, S, L)
      BY DetRoundIn
    <2> QED  BY <2>1, <2>2 DEF DetClosed
  <1>12. DetStates(n, L)
    BY <1>5, <1>9, <1>10, <1>11 DEF DetStates, X, V
  <1> QED  BY <1>12

(* What an automaton has to do with the relations D on the states of n to  *)
(* run through them as determinize and complement do.                      *)
Follows(m, n, D) ==
    /\ WellFormed(m) /\ Visible(m.internals) /\ m.initial = {StartRel(n)}
    /\ \A t : t \in m.calls <=> \E R \in D, s \in n.symbols : t = Edge(R, s, OnCall(n, Close(n), R, s))
    /\ \A t : t \in m.internals <=> \E R \in D, s \in n.symbols : t = Edge(R, s, OnInternal(n, Close(n), R, s))
    /\ \A t : t \in m.returns <=> \E R \in D, s \in n.symbols : \E V \in D :
                                    t = Return(R, V, s, OnReturn(n, Close(n), R, V, s))

LEMMA DetShape ==
    ASSUME NEW n, WellFormed(n), NEW D, DetStates(n, D)
    PROVE  /\ Follows(determinize(n), n, D)
           /\ StartRel(n) \in D
           /\ D \subseteq determinize(n).states
           /\ determinize(n).final = {R \in D : \E x \in R : x[2] \in n.final}
  <1> DEFINE close == Close(n)
             start == StartRel(n)
             all == D \X n.symbols
             finals == {R \in D : \E x \in R : x[2] \in n.final}
             start1 == addStates(NoNwa, D)
             start2 == addInitialStates(start1, {start})
             empty == addFinalStates(start2, finals)
             internals == {DetInternal(n, close, x) : x \in all}
             calls == {DetCall(n, close, x) : x \in all}
             returns == {DetReturn(n, close, x, V) : x \in all, V \in D}
             m == determinize(n)
  <1>1. m = Build(empty, internals, calls, returns)
    BY DEF DetStates, Determinized, Build, DetInternal, DetCall, DetReturn
  <1>2. \A x \in all : x[2] # EPSILON /\ x[2] # WILD
    BY WellFormedParts
  <1>a. \A x \in all : x[1] \in D /\ x[2] \in n.symbols /\ x = <<x[1], x[2]>>
    OBVIOUS
  <1>b. \A R \in D, s \in n.symbols : <<R, s>> \in all
    OBVIOUS
  <1> HIDE DEF all
  <1>3. \A r : r \in internals <=> \E x \in all : r = DetInternal(n, close, x)
    OBVIOUS
  <1>4. \A r : r \in calls <=> \E x \in all : r = DetCall(n, close, x)
    OBVIOUS
  <1>5. \A r : r \in returns <=> \E x \in all, V \in D : r = DetReturn(n, close, x, V)
    OBVIOUS
  <1> HIDE DEF internals, calls, returns
  <1>6. Visible(calls) /\ Visible(returns) /\ Visible(internals)
    <2>1. Visible(calls)
      BY <1>2, <1>4, DetFields DEF Visible
    <2>2. Visible(internals)
      BY <1>2, <1>3, DetFields DEF Visible
    <2>3. Visible(returns)
      BY <1>2, <1>5, DetFields DEF Visible
    <2> QED  BY <2>1, <2>2, <2>3
  <1>7. /\ WellFormed(empty) /\ empty.initial = {start} /\ empty.final = finals
        /\ empty.calls = {} /\ empty.internals = {} /\ empty.returns = {} /\ D \subseteq empty.states
    <2> HIDE DEF finals
    <2>1. /\ NoNwa.initial = {} /\ NoNwa.final = {}
          /\ NoNwa.calls = {} /\ NoNwa.internals = {} /\ NoNwa.returns = {}
      BY DEF NoNwa, Automaton
    <2>2. /\ WellFormed(start1) /\ start1.initial = NoNwa.initial /\ start1.final = NoNwa.final
          /\ start1.calls = NoNwa.calls /\ start1.internals = NoNwa.internals /\ start1.returns = NoNwa.returns
          /\ D \subseteq start1.states
      BY NoNwaWellFormed, States
    <2> HIDE DEF start1
    <2>3. /\ WellFormed(start2) /\ start2.initial = start1.initial \cup {start} /\ start2.final = start1.final
          /\ start2.calls = start1.calls /\ start2.internals = start1.internals /\ start2.returns = start1.returns
          /\ D \subseteq start2.states
      BY <2>2, States
    <2> HIDE DEF start2
    <2>4. /\ WellFormed(empty) /\ empty.initial = start2.initial /\ empty.final = start2.final \cup finals
          /\ empty.calls = start2.calls /\ empty.internals = start2.internals /\ empty.returns = start2.returns
          /\ D \subseteq empty.states
      BY <2>3, States
    <2> QED  BY <2>1, <2>2, <2>3, <2>4
  <1> HIDE DEF empty
  <1>8. /\ WellFormed(m) /\ m.initial = {start} /\ m.final = finals
        /\ m.calls = calls /\ m.internals = internals /\ m.returns = returns /\ D \subseteq m.states
    <2> HIDE DEF m
    <2>1. WellFormed(m) /\ Extends(m, empty, internals, calls, returns)
      BY <1>1, <1>6, <1>7, BuiltFields
    <2>2. /\ m.initial = empty.initial /\ m.final = empty.final /\ m.calls = empty.calls \cup calls
          /\ m.internals = empty.internals \cup internals /\ m.returns = empty.returns \cup returns
          /\ empty.states \subseteq m.states
      BY <2>1 DEF Extends
    <2> QED  BY <1>7, <2>1, <2>2
  <1> HIDE DEF m
  <1>9. ASSUME NEW t
        PROVE  /\ t \in calls <=> \E R \in D, s \in n.symbols : t = Edge(R, s, OnCall(n, Close(n), R, s))
               /\ t \in internals <=> \E R \in D, s \in n.symbols : t = Edge(R, s, OnInternal(n, Close(n), R, s))
               /\ t \in returns <=> \E R \in D, s \in n.symbols : \E V \in D :
                                      t = Return(R, V, s, OnReturn(n, Close(n), R, V, s))
    <2> DEFINE call(R, s) == Edge(R, s, OnCall(n, Close(n), R, s))
               internal(R, s) == Edge(R, s, OnInternal(n, Close(n), R, s))
               return(R, V, s) == Return(R, V, s, OnReturn(n, Close(n), R, V, s))
    <2>1. \A x : DetCall(n, close, x) = call(x[1], x[2]) /\ DetInternal(n, close, x) = internal(x[1], x[2])
      BY DEF DetCall, DetInternal
    <2>2. \A x, V : DetReturn(n, close, x, V) = return(x[1], V, x[2])
      BY DEF DetReturn
    <2> HIDE DEF call, internal, return
    <2>3. ASSUME NEW R \in D, NEW s \in n.symbols
          PROVE  \E x \in all : x[1] = R /\ x[2] = s
      <3>1. <<R, s>> \in all /\ <<R, s>>[1] = R /\ <<R, s>>[2] = s
        BY <1>b
      <3> QED  BY <3>1
    <2>4. t \in calls <=> \E R \in D, s \in n.symbols : t = call(R, s)
      BY <1>4, <1>a, <2>1, <2>3
    <2>5. t \in internals <=> \E R \in D, s \in n.symbols : t = internal(R, s)
      BY <1>3, <1>a, <2>1, <2>3
    <2>6. t \in returns <=> \E R \in D, s \in n.symbols : \E V \in D : t = return(R, V, s)
      BY <1>5, <1>a, <2>2, <2>3
    <2> QED  BY <2>4, <2>5, <2>6 DEF call, internal, return
  <1>11. Follows(m, n, D)
    BY <1>6, <1>8, <1>9 DEF Follows
  <1>12. D \subseteq m.states /\ m.final = finals
    BY <1>8
  <1> QED  BY <1>11, <1>12 DEF DetStates, m

(* What is in the relations a position leads to. *)
ViaInternal(n, R, s, a, b) ==
    \E t \in n.internals : t.sym \in {s, WILD} /\ <<a, t.from>> \in R /\ b \in epsilonClosure(n, t.to)
ViaCall(n, s, a, b) ==
    \E t \in n.calls : t.sym \in {s, WILD} /\ t.from = a /\ b \in epsilonClosure(n, t.to)
ViaReturn(n, R, V, s, a, b) ==
    \E t \in n.returns : /\ t.sym \in {s, WILD} /\ <<t.pred, t.from>> \in R
                         /\ <<a, t.pred>> \in V /\ b \in epsilonClosure(n, t.to)

Closing(n, R, a, b) == \E c : <<a, c>> \in R /\ b \in epsilonClosure(n, c)

LEMMA AfterClose ==
    ASSUME NEW n, WellFormed(n), NEW R \in Rel(n), NEW a, NEW b
    PROVE  <<a, b>> \in Compose(R, Close(n)) <=> Closing(n, R, a, b)
  <1> DEFINE S == Close(n)
             T == Compose(R, S)
  <1>1. /\ Pairs(S)
        /\ \A p \in n.states : \A q \in epsilonClosure(n, p) : <<p, q>> \in S
        /\ \A z \in S : z[1] \in n.states /\ z[2] \in epsilonClosure(n, z[1])
    BY ClosePairs
  <1> HIDE DEF S
  <1>2. /\ \A x, y, c : <<x, y>> \in R /\ <<y, c>> \in S => <<x, c>> \in T
        /\ \A z \in T : \E y : <<z[1], y>> \in R /\ <<y, z[2]>> \in S
    BY <1>1, RelPairs, ComposePairs
  <1> HIDE DEF T
  <1>3. ASSUME <<a, b>> \in T
        PROVE  Closing(n, R, a, b)
    <2> DEFINE z == <<a, b>>
    <2>1. z \in T /\ z[1] = a /\ z[2] = b
      BY <1>3
    <2> HIDE DEF z
    <2>2. PICK c : <<a, c>> \in R /\ <<c, b>> \in S
      BY <1>2, <2>1
    <2>3. b \in epsilonClosure(n, c)
      <3> DEFINE y == <<c, b>>
      <3>1. y \in S /\ y[1] = c /\ y[2] = b
        BY <2>2
      <3> HIDE DEF y
      <3> QED  BY <1>1, <3>1
    <2> QED  BY <2>2, <2>3 DEF Closing
  <1>4. ASSUME NEW c, <<a, c>> \in R, b \in epsilonClosure(n, c)
        PROVE  <<a, b>> \in T
    <2>1. c \in n.states
      BY <1>4 DEF Rel
    <2>2. <<c, b>> \in S
      BY <1>1, <1>4, <2>1
    <2> QED  BY <1>2, <1>4, <2>2
  <1>5. Closing(n, R, a, b) => <<a, b>> \in T
    BY <1>4 DEF Closing
  <1>6. <<a, b>> \in T <=> Closing(n, R, a, b)
    BY <1>3, <1>5
  <1> QED  BY ONLY <1>6 DEF T, S

LEMMA ViaFacts ==
    ASSUME NEW n, WellFormed(n), IsFiniteSet(n.states), NEW R \in Rel(n), NEW V \in Rel(n), NEW s,
           NEW a, NEW b
    PROVE  /\ <<a, b>> \in OnInternal(n, Close(n), R, s) <=> ViaInternal(n, R, s, a, b)
           /\ <<a, b>> \in OnCall(n, Close(n), R, s) <=> ViaCall(n, s, a, b)
           /\ <<a, b>> \in OnReturn(n, Close(n), R, V, s) <=> ViaReturn(n, R, V, s, a, b)
  <1> DEFINE L == Steps(n.internals, s)
             C == Steps(n.calls, s)
             M == Merge(R, V, n.returns, s)
             RL == Compose(R, L)
  <1>1. L \in Rel(n) /\ C \in Rel(n) /\ M \in Rel(n) /\ RL \in Rel(n)
    BY PartsRel, ComposeRel
  <1>2. \A x, y : <<x, y>> \in L <=> \E t \in n.internals : t.sym \in {s, WILD} /\ t.from = x /\ t.to = y
    BY Zenon DEF Steps
  <1>3. \A x, y : <<x, y>> \in C <=> \E t \in n.calls : t.sym \in {s, WILD} /\ t.from = x /\ t.to = y
    BY Zenon DEF Steps
  <1>4. \A x, y : <<x, y>> \in M <=> Returning(R, V, n.returns, s, x, y)
    <2> DEFINE T == n.returns
    <2> HIDE DEF M
    <2>1. Merges(R, V, T, s, M)
      BY RelPairs, MergePairs DEF M
    <2> HIDE DEF T
    <2>2. ASSUME NEW x, NEW y, <<x, y>> \in M PROVE Returning(R, V, T, s, x, y)
      <3> DEFINE z == <<x, y>>
      <3>1. z \in M /\ z[1] = x /\ z[2] = y
        BY <2>2
      <3> HIDE DEF z
      <3> QED  BY <2>1, <3>1 DEF Merges
    <2>3. ASSUME NEW x, NEW y, Returning(R, V, T, s, x, y) PROVE <<x, y>> \in M
      BY <2>1, <2>3 DEF Merges, Returning
    <2>4. \A x, y : Returning(R, V, T, s, x, y) => <<x, y>> \in M
      BY <2>3
    <2>5. \A x, y : <<x, y>> \in M => Returning(R, V, T, s, x, y)
      BY <2>2
    <2> QED  BY ONLY <2>4, <2>5, Zenon DEF T
  <1>5. ASSUME NEW e PROVE <<a, e>> \in RL <=> \E t \in n.internals : t.sym \in {s, WILD} /\ <<a, t.from>> \in R /\ t.to = e
    <2> HIDE DEF L
    <2>1. /\ \A x, y, c : <<x, y>> \in R /\ <<y, c>> \in L => <<x, c>> \in RL
          /\ \A z \in RL : \E y : <<z[1], y>> \in R /\ <<y, z[2]>> \in L
      BY <1>1, RelPairs, ComposePairs
    <2> HIDE DEF RL
    <2>2. ASSUME <<a, e>> \in RL PROVE \E y : <<a, y>> \in R /\ <<y, e>> \in L
      <3> DEFINE z == <<a, e>>
      <3>1. z \in RL /\ z[1] = a /\ z[2] = e
        BY <2>2
      <3> HIDE DEF z
      <3> QED  BY <2>1, <3>1
    <2>3. ASSUME <<a, e>> \in RL
          PROVE  \E t \in n.internals : t.sym \in {s, WILD} /\ <<a, t.from>> \in R /\ t.to = e
      <3>1. PICK y : <<a, y>> \in R /\ <<y, e>> \in L
        BY <2>2, <2>3
      <3>2. PICK t \in n.internals : t.sym \in {s, WILD} /\ t.from = y /\ t.to = e
        BY <1>2, <3>1 DEF L
      <3> QED  BY <3>1, <3>2
    <2>4. ASSUME NEW t \in n.internals, t.sym \in {s, WILD}, <<a, t.from>> \in R, t.to = e
          PROVE  <<a, e>> \in RL
      <3>1. <<t.from, e>> \in L
        BY <1>2, <2>4 DEF L
      <3> QED  BY <2>1, <2>4, <3>1
    <2> QED  BY <2>3, <2>4
  <1> HIDE DEF L, C, M, RL
  <1>6. <<a, b>> \in Compose(RL, Close(n)) <=> ViaInternal(n, R, s, a, b)
    <2>1. <<a, b>> \in Compose(RL, Close(n)) <=> Closing(n, RL, a, b)
      BY <1>1, AfterClose
    <2>2. ASSUME Closing(n, RL, a, b) PROVE ViaInternal(n, R, s, a, b)
      <3>1. PICK c : <<a, c>> \in RL /\ b \in epsilonClosure(n, c)
        BY <2>2 DEF Closing
      <3> QED  BY <1>5, <3>1 DEF ViaInternal
    <2>3. ASSUME ViaInternal(n, R, s, a, b) PROVE Closing(n, RL, a, b)
      <3>1. PICK t \in n.internals : t.sym \in {s, WILD} /\ <<a, t.from>> \in R /\ b \in epsilonClosure(n, t.to)
        BY <2>3 DEF ViaInternal
      <3>2. <<a, t.to>> \in RL
        BY <1>5, <3>1
      <3> QED  BY <3>1, <3>2 DEF Closing
    <2> QED  BY <2>1, <2>2, <2>3
  <1>7. <<a, b>> \in Compose(C, Close(n)) <=> ViaCall(n, s, a, b)
    <2>1. <<a, b>> \in Compose(C, Close(n)) <=> Closing(n, C, a, b)
      BY <1>1, AfterClose
    <2>2. ASSUME Closing(n, C, a, b) PROVE ViaCall(n, s, a, b)
      <3>1. PICK c : <<a, c>> \in C /\ b \in epsilonClosure(n, c)
        BY <2>2 DEF Closing
      <3> QED  BY <1>3, <3>1 DEF ViaCall
    <2>3. ASSUME ViaCall(n, s, a, b) PROVE Closing(n, C, a, b)
      <3>1. PICK t \in n.calls : t.sym \in {s, WILD} /\ t.from = a /\ b \in epsilonClosure(n, t.to)
        BY <2>3 DEF ViaCall
      <3>2. <<a, t.to>> \in C
        BY <1>3, <3>1
      <3> QED  BY <3>1, <3>2 DEF Closing
    <2> QED  BY <2>1, <2>2, <2>3
  <1>8. <<a, b>> \in Compose(M, Close(n)) <=> ViaReturn(n, R, V, s, a, b)
    <2>1. <<a, b>> \in Compose(M, Close(n)) <=> Closing(n, M, a, b)
      BY <1>1, AfterClose
    <2>2. ASSUME Closing(n, M, a, b) PROVE ViaReturn(n, R, V, s, a, b)
      <3>1. PICK c : <<a, c>> \in M /\ b \in epsilonClosure(n, c)
        BY <2>2 DEF Closing
      <3>2. Returning(R, V, n.returns, s, a, c)
        BY <1>4, <3>1
      <3> QED  BY <3>1, <3>2 DEF ViaReturn, Returning
    <2>3. ASSUME ViaReturn(n, R, V, s, a, b) PROVE Closing(n, M, a, b)
      <3>1. PICK t \in n.returns : /\ t.sym \in {s, WILD} /\ <<t.pred, t.from>> \in R
                                   /\ <<a, t.pred>> \in V /\ b \in epsilonClosure(n, t.to)
        BY <2>3 DEF ViaReturn
      <3>2. <<a, t.to>> \in M
        BY <1>4, <3>1 DEF Returning
      <3> QED  BY <3>1, <3>2 DEF Closing
    <2> QED  BY <2>1, <2>2, <2>3
  <1> QED  BY <1>6, <1>7, <1>8 DEF OnInternal, OnCall, OnReturn, L, C, M, RL

AtStart(n, a, b) == a \in n.initial /\ \E i \in n.initial : b \in epsilonClosure(n, i)

LEMMA StartFacts ==
    ASSUME NEW n, WellFormed(n), NEW a, NEW b
    PROVE  <<a, b>> \in StartRel(n) <=> AtStart(n, a, b)
  <1> DEFINE R == n.initial \X n.initial
  <1>1. R \in Rel(n)
    BY WellFormedParts DEF Rel
  <1>2. \A x, y : <<x, y>> \in R <=> x \in n.initial /\ y \in n.initial
    OBVIOUS
  <1> HIDE DEF R
  <1>3. <<a, b>> \in Compose(R, Close(n)) <=> Closing(n, R, a, b)
    BY <1>1, AfterClose
  <1> QED  BY <1>2, <1>3 DEF StartRel, R, AtStart, Closing

(* How a configuration of n fits a relation and a stack of relations: each *)
(* state is related to the one the stack has beneath it, or to an initial  *)
(* one.                                                                    *)
Under(n, s) == IF s = <<>> THEN n.initial ELSE {s[1]}
Beneath(n, s, j) == IF j = Len(s) THEN n.initial ELSE {s[j + 1]}
Linked(n, s, S) == Len(s) = Len(S) /\ \A j \in 1..Len(s) : \E a \in Beneath(n, s, j) : <<a, s[j]>> \in S[j]
Fits(n, q, s, R, S) == Linked(n, s, S) /\ \E a \in Under(n, s) : <<a, q>> \in R

LEMMA LinkedEmpty ==
    ASSUME NEW n, NEW A, NEW s \in Seq(A), NEW B, NEW S \in Seq(B), Linked(n, s, S)
    PROVE  s = <<>> <=> S = <<>>
  BY DEF Linked

LEMMA LinkedNone == ASSUME NEW n PROVE Linked(n, <<>>, <<>>)
  BY DEF Linked

LEMMA LinkedPush ==
    ASSUME NEW n, NEW A, NEW p \in A, NEW s \in Seq(A), NEW B, NEW V \in B, NEW S \in Seq(B)
    PROVE  Linked(n, Push(p, s), Push(V, S)) <=> Fits(n, p, s, V, S)
  <1> DEFINE z == Push(p, s)
             Z == Push(V, S)
  <1>1. /\ Len(z) = Len(s) + 1 /\ z[1] = p /\ \A i \in 1..Len(s) : z[i + 1] = s[i]
    BY Pushed
  <1>2. /\ Len(Z) = Len(S) + 1 /\ Z[1] = V /\ \A i \in 1..Len(S) : Z[i + 1] = S[i]
    BY Pushed
  <1>3. Len(s) \in Nat /\ Len(S) \in Nat /\ (s = <<>> <=> Len(s) = 0)
    OBVIOUS
  <1> HIDE DEF z, Z
  <1>4. Beneath(n, z, 1) = Under(n, s)
    <2>1. CASE s = <<>>
      BY <1>1, <1>3, <2>1 DEF Beneath, Under
    <2>2. CASE s # <<>>
      <3>1. 1 \in 1..Len(s) /\ 1 # Len(z)
        BY <1>1, <1>3, <2>2
      <3>2. z[1 + 1] = s[1]
        BY <1>1, <3>1
      <3> QED  BY <2>2, <3>1, <3>2 DEF Beneath, Under
    <2> QED  BY <2>1, <2>2
  <1>5. ASSUME NEW i \in 1..Len(s) PROVE Beneath(n, z, i + 1) = Beneath(n, s, i)
    <2>1. CASE i = Len(s)
      BY <1>1, <2>1 DEF Beneath
    <2>2. CASE i # Len(s)
      <3>1. i + 1 \in 1..Len(s) /\ i + 1 # Len(z)
        BY <1>1, <1>3, <2>2
      <3>2. z[(i + 1) + 1] = s[i + 1]
        BY <1>1, <3>1
      <3> QED  BY <2>2, <3>1, <3>2 DEF Beneath
    <2> QED  BY <2>1, <2>2
  <1>6. ASSUME Linked(n, z, Z) PROVE Fits(n, p, s, V, S)
    <2>1. Len(s) = Len(S)
      BY <1>1, <1>2, <1>3, <1>6 DEF Linked
    <2>2. \A j \in 1..Len(z) : \E a \in Beneath(n, z, j) : <<a, z[j]>> \in Z[j]
      BY <1>6 DEF Linked
    <2>3. 1 \in 1..Len(z)
      BY <1>1, <1>3
    <2>4. \E a \in Under(n, s) : <<a, p>> \in V
      BY <1>1, <1>2, <1>4, <2>2, <2>3
    <2>5. ASSUME NEW i \in 1..Len(s) PROVE \E a \in Beneath(n, s, i) : <<a, s[i]>> \in S[i]
      <3>1. i + 1 \in 1..Len(z) /\ z[i + 1] = s[i] /\ Z[i + 1] = S[i]
        BY <1>1, <1>2, <1>3, <2>1
      <3> QED  BY <1>5, <2>2, <3>1
    <2> QED  BY <2>1, <2>4, <2>5 DEF Fits, Linked
  <1>7. ASSUME Fits(n, p, s, V, S) PROVE Linked(n, z, Z)
    <2>1. Len(s) = Len(S) /\ Len(z) = Len(Z)
      BY <1>1, <1>2, <1>7 DEF Fits, Linked
    <2>2. ASSUME NEW j \in 1..Len(z) PROVE \E a \in Beneath(n, z, j) : <<a, z[j]>> \in Z[j]
      <3>1. CASE j = 1
        BY <1>1, <1>2, <1>4, <1>7, <3>1 DEF Fits
      <3>2. CASE j # 1
        <4> DEFINE i == j - 1
        <4>1. i \in 1..Len(s) /\ i + 1 = j
          BY <1>1, <1>3, <3>2
        <4> HIDE DEF i
        <4>2. z[j] = s[i] /\ Z[j] = S[i] /\ Beneath(n, z, j) = Beneath(n, s, i)
          BY <1>1, <1>2, <1>5, <2>1, <4>1
        <4>3. \E a \in Beneath(n, s, i) : <<a, s[i]>> \in S[i]
          BY <1>7, <4>1 DEF Fits, Linked
        <4> QED  BY <4>2, <4>3
      <3> QED  BY <3>1, <3>2
    <2> QED  BY <2>1, <2>2 DEF Linked
  <1> QED  BY <1>6, <1>7 DEF z, Z

(* The lowest relation starts from every initial state alike. *)
Uniform(n, R) == \A a, b : <<a, b>> \in R => a \in n.initial /\ \A i \in n.initial : <<i, b>> \in R
Bottom(R, S) == IF S = <<>> THEN R ELSE S[Len(S)]

LEMMA BottomPush ==
    ASSUME NEW A, NEW R, NEW V \in A, NEW S \in Seq(A)
    PROVE  Bottom(R, Push(V, S)) = Bottom(V, S)
  <1> DEFINE Z == Push(V, S)
  <1>1. /\ Z # <<>> /\ Len(Z) = Len(S) + 1 /\ Z[1] = V /\ \A i \in 1..Len(S) : Z[i + 1] = S[i]
    BY Pushed
  <1> SUFFICES Bottom(R, Z) = Bottom(V, S)
    OBVIOUS
  <1> HIDE DEF Z
  <1>2. CASE S = <<>>
    <2>1. Len(S) = 0 /\ Z[Len(Z)] = V
      BY <1>1, <1>2
    <2> QED  BY <1>1, <1>2, <2>1 DEF Bottom
  <1>3. CASE S # <<>>
    <2>1. Len(S) \in 1..Len(S)
      BY <1>3
    <2>2. Z[Len(Z)] = S[Len(S)]
      BY <1>1, <2>1
    <2> QED  BY <1>1, <1>3, <2>2 DEF Bottom
  <1> QED  BY <1>2, <1>3

(* One position takes the relation and the stack it has to the next ones.  *)
PoppedBy(n, S) == IF S = <<>> THEN StartRel(n) ELSE Head(S)
DetNext(n, R, S, kind, x) ==
    CASE kind = "call" -> <<OnCall(n, Close(n), R, x), Push(R, S)>>
      [] kind = "internal" -> <<OnInternal(n, Close(n), R, x), S>>
      [] kind = "return" -> <<OnReturn(n, Close(n), R, PoppedBy(n, S), x), Left(S)>>

LEMMA EdgeParts == \A q, s, p : Edge(q, s, p).from = q /\ Edge(q, s, p).sym = s /\ Edge(q, s, p).to = p
  BY DEF Edge
LEMMA ReturnParts ==
    \A q, v, s, p : /\ Return(q, v, s, p).from = q /\ Return(q, v, s, p).pred = v
                    /\ Return(q, v, s, p).sym = s /\ Return(q, v, s, p).to = p
  BY DEF Return

DetMove(m, n, c, kind, as, x, e) == Moves(m, c, kind, as, e) <=> x \in n.symbols /\ e = DetNext(n, c[1], c[2], kind, x)

LEMMA DetMoves ==
    ASSUME NEW n, NEW m, NEW D, Follows(m, n, D), StartRel(n) \in D,
           NEW c, c[1] \in D, c[2] \in Seq(D), NEW x, NEW as, as = {x}, NEW kind \in Kinds, NEW e
    PROVE  DetMove(m, n, c, kind, as, x, e)
  <1> SUFFICES Moves(m, c, kind, as, e) <=> x \in n.symbols /\ e = DetNext(n, c[1], c[2], kind, x)
    BY DEF DetMove
  <1> DEFINE R == c[1]
             S == c[2]
             V == PoppedBy(n, S)
             call == Edge(R, x, OnCall(n, Close(n), R, x))
             internal == Edge(R, x, OnInternal(n, Close(n), R, x))
             return == Return(R, V, x, OnReturn(n, Close(n), R, V, x))
  <1>1. WellFormed(m) /\ Visible(m.internals) /\ m.initial = {StartRel(n)}
    BY DEF Follows
  <1>2. \A t \in m.calls \cup m.internals \cup m.returns : epsilonClosure(m, t.to) = {t.to}
    <2>1. \A t \in m.calls \cup m.internals \cup m.returns : t.to \in m.states
      BY <1>1, WellFormedParts DEF Within, Ends
    <2> QED  BY <1>1, <2>1, ClosureNone
  <1>3. R \in D /\ S \in Seq(D)
    OBVIOUS
  <1>4. V \in D
    <2>1. CASE S = <<>>
      BY <2>1 DEF PoppedBy
    <2>2. CASE S # <<>>
      BY <1>3, <2>2, Popped DEF PoppedBy
    <2> QED  BY <2>1, <2>2
  <1> HIDE DEF R, S, V
  <1>5. /\ call.from = R /\ call.sym = x /\ call.to = OnCall(n, Close(n), R, x)
        /\ internal.from = R /\ internal.sym = x /\ internal.to = OnInternal(n, Close(n), R, x)
        /\ return.from = R /\ return.pred = V /\ return.sym = x /\ return.to = OnReturn(n, Close(n), R, V, x)
    BY EdgeParts, ReturnParts
  <1>6. ASSUME NEW t \in m.calls, t.from = R, t.sym \in as PROVE t = call /\ x \in n.symbols
    <2>1. PICK U \in D, s \in n.symbols : t = Edge(U, s, OnCall(n, Close(n), U, s))
      BY DEF Follows
    <2>2. U = R /\ s = x
      BY <1>6, <2>1, EdgeParts
    <2> QED  BY <2>1, <2>2
  <1>7. ASSUME NEW t \in m.internals, t.from = R, t.sym \in as PROVE t = internal /\ x \in n.symbols
    <2>1. PICK U \in D, s \in n.symbols : t = Edge(U, s, OnInternal(n, Close(n), U, s))
      BY DEF Follows
    <2>2. U = R /\ s = x
      BY <1>7, <2>1, EdgeParts
    <2> QED  BY <2>1, <2>2
  <1>8. ASSUME NEW t \in m.returns, t.from = R, t.sym \in as, Pops(m, t, S) PROVE t = return /\ x \in n.symbols
    <2>1. PICK U \in D, s \in n.symbols : \E W \in D : t = Return(U, W, s, OnReturn(n, Close(n), U, W, s))
      BY DEF Follows
    <2>2. PICK W \in D : t = Return(U, W, s, OnReturn(n, Close(n), U, W, s))
      BY <2>1
    <2>3. U = R /\ s = x /\ t.pred = W
      BY <1>8, <2>2, ReturnParts
    <2>4. W = V
      BY <1>1, <1>8, <2>3 DEF Pops, PoppedBy, V
    <2> QED  BY <2>2, <2>3, <2>4
  <1>9. ASSUME x \in n.symbols PROVE call \in m.calls /\ internal \in m.internals /\ return \in m.returns
    <2>1. call \in m.calls
      BY <1>3, <1>9 DEF Follows
    <2>2. internal \in m.internals
      BY <1>3, <1>9 DEF Follows
    <2>3. return \in m.returns
      BY <1>3, <1>4, <1>9 DEF Follows
    <2> QED  BY <2>1, <2>2, <2>3
  <1>10. Pops(m, return, S)
    BY <1>1, <1>5 DEF Pops, PoppedBy, V
  <1> HIDE DEF call, internal, return
  <1>11. CASE kind = "call"
    <2>1. DetNext(n, R, S, kind, x) = <<OnCall(n, Close(n), R, x), Push(R, S)>>
      BY <1>11 DEF DetNext
    <2>2. Moves(m, c, kind, as, e) <=> \E t \in m.calls :
            t.from = R /\ t.sym \in as /\ \E q \in epsilonClosure(m, t.to) : e = <<q, Push(R, S)>>
      BY <1>11 DEF Moves, R, S
    <2>3. ASSUME Moves(m, c, kind, as, e) PROVE x \in n.symbols /\ e = DetNext(n, R, S, kind, x)
      <3>1. PICK t \in m.calls : t.from = R /\ t.sym \in as /\ \E q \in epsilonClosure(m, t.to) : e = <<q, Push(R, S)>>
        BY <2>2, <2>3
      <3>2. e = <<t.to, Push(R, S)>>
        BY <1>2, <3>1
      <3> QED  BY <1>5, <1>6, <2>1, <3>1, <3>2
    <2>4. ASSUME x \in n.symbols, e = DetNext(n, R, S, kind, x) PROVE Moves(m, c, kind, as, e)
      <3>1. call \in m.calls /\ epsilonClosure(m, call.to) = {call.to}
        BY <1>2, <1>9, <2>4
      <3> QED  BY <1>5, <2>1, <2>2, <2>4, <3>1
    <2> QED  BY <2>3, <2>4 DEF R, S
  <1>12. CASE kind = "internal"
    <2>1. DetNext(n, R, S, kind, x) = <<OnInternal(n, Close(n), R, x), S>>
      BY <1>12 DEF DetNext
    <2>2. Moves(m, c, kind, as, e) <=> \E t \in m.internals :
            t.from = R /\ t.sym \in as /\ \E q \in epsilonClosure(m, t.to) : e = <<q, S>>
      BY <1>12 DEF Moves, R, S
    <2>3. ASSUME Moves(m, c, kind, as, e) PROVE x \in n.symbols /\ e = DetNext(n, R, S, kind, x)
      <3>1. PICK t \in m.internals : t.from = R /\ t.sym \in as /\ \E q \in epsilonClosure(m, t.to) : e = <<q, S>>
        BY <2>2, <2>3
      <3>2. e = <<t.to, S>>
        BY <1>2, <3>1
      <3> QED  BY <1>5, <1>7, <2>1, <3>1, <3>2
    <2>4. ASSUME x \in n.symbols, e = DetNext(n, R, S, kind, x) PROVE Moves(m, c, kind, as, e)
      <3>1. internal \in m.internals /\ epsilonClosure(m, internal.to) = {internal.to}
        BY <1>2, <1>9, <2>4
      <3> QED  BY <1>5, <2>1, <2>2, <2>4, <3>1
    <2> QED  BY <2>3, <2>4 DEF R, S
  <1>13. CASE kind = "return"
    <2>1. DetNext(n, R, S, kind, x) = <<OnReturn(n, Close(n), R, V, x), Left(S)>>
      BY <1>13 DEF DetNext, V
    <2>2. Moves(m, c, kind, as, e) <=> \E t \in m.returns :
            t.from = R /\ t.sym \in as /\ Pops(m, t, S) /\ \E q \in epsilonClosure(m, t.to) : e = <<q, Left(S)>>
      BY <1>13 DEF Moves, R, S
    <2>3. ASSUME Moves(m, c, kind, as, e) PROVE x \in n.symbols /\ e = DetNext(n, R, S, kind, x)
      <3>1. PICK t \in m.returns : t.from = R /\ t.sym \in as /\ Pops(m, t, S) /\ \E q \in epsilonClosure(m, t.to) : e = <<q, Left(S)>>
        BY <2>2, <2>3
      <3>2. e = <<t.to, Left(S)>>
        BY <1>2, <3>1
      <3> QED  BY <1>5, <1>8, <2>1, <3>1, <3>2
    <2>4. ASSUME x \in n.symbols, e = DetNext(n, R, S, kind, x) PROVE Moves(m, c, kind, as, e)
      <3>1. return \in m.returns /\ epsilonClosure(m, return.to) = {return.to}
        BY <1>2, <1>9, <2>4
      <3> QED  BY <1>5, <1>10, <2>1, <2>2, <2>4, <3>1
    <2> QED  BY <2>3, <2>4 DEF R, S
  <1> QED  BY <1>11, <1>12, <1>13 DEF Kinds

(* The configurations C of n are those that fit. *)
Mirrors(n, C, R, S) ==
    \A q \in n.states : \A s \in Seq(n.states) : <<q, s>> \in C <=> Fits(n, q, s, R, S)
Reads(n, C, kind, as, e) == \E c \in C : Moves(n, c, kind, as, e)

LEMMA ViaStates ==
    ASSUME NEW n, WellFormed(n), IsFiniteSet(n.states), NEW t \in n.calls \cup n.internals \cup n.returns
    PROVE  t.from \in n.states /\ t.to \in n.states /\ epsilonClosure(n, t.to) \subseteq n.states
  <1>1. t.from \in n.states /\ t.to \in n.states
    BY WellFormedParts DEF Within, Ends
  <1> QED  BY <1>1, ClosureFacts

LEMMA ViaBoth ==
    ASSUME NEW n, WellFormed(n), IsFiniteSet(n.states), NEW R \in Rel(n), NEW s, NEW a, NEW b
    PROVE  /\ <<a, b>> \in OnInternal(n, Close(n), R, s) <=> ViaInternal(n, R, s, a, b)
           /\ <<a, b>> \in OnCall(n, Close(n), R, s) <=> ViaCall(n, s, a, b)
  <1>1. /\ <<a, b>> \in OnInternal(n, Close(n), R, s) <=> ViaInternal(n, R, s, a, b)
        /\ <<a, b>> \in OnCall(n, Close(n), R, s) <=> ViaCall(n, s, a, b)
        /\ <<a, b>> \in OnReturn(n, Close(n), R, R, s) <=> ViaReturn(n, R, R, s, a, b)
    BY ViaFacts
  <1> QED  BY <1>1

LEMMA MirrorInternal ==
    ASSUME NEW n, WellFormed(n), IsFiniteSet(n.states), NEW R \in Rel(n), NEW S \in Seq(Rel(n)),
           NEW C, C \subseteq Confs(n), Mirrors(n, C, R, S), NEW x,
           NEW q \in n.states, NEW s \in Seq(n.states)
    PROVE  Reads(n, C, "internal", {x, WILD}, <<q, s>>) <=> Fits(n, q, s, OnInternal(n, Close(n), R, x), S)
  <1> DEFINE N == OnInternal(n, Close(n), R, x)
  <1>1. \A a, b : <<a, b>> \in N <=> ViaInternal(n, R, x, a, b)
    <2>1. ASSUME NEW a, NEW b PROVE <<a, b>> \in N <=> ViaInternal(n, R, x, a, b)
      BY ViaBoth
    <2> HIDE DEF N
    <2> QED  BY <2>1, Zenon
  <1> SUFFICES Reads(n, C, "internal", {x, WILD}, <<q, s>>) <=> Fits(n, q, s, N, S)
    OBVIOUS
  <1> HIDE DEF N
  <1>2. ASSUME Reads(n, C, "internal", {x, WILD}, <<q, s>>) PROVE Fits(n, q, s, N, S)
    <2>1. PICK c \in C : Moves(n, c, "internal", {x, WILD}, <<q, s>>)
      BY <1>2 DEF Reads
    <2>2. PICK t \in n.internals : /\ t.from = c[1] /\ t.sym \in {x, WILD}
                                   /\ \E p \in epsilonClosure(n, t.to) : <<q, s>> = <<p, c[2]>>
      BY <2>1 DEF Moves
    <2>3. q \in epsilonClosure(n, t.to) /\ s = c[2]
      BY <2>2
    <2>4. c = <<c[1], c[2]>> /\ c[1] \in n.states /\ c[2] \in Seq(n.states)
      BY DEF Confs
    <2>5. Fits(n, c[1], s, R, S)
      BY <2>3, <2>4 DEF Mirrors
    <2>6. PICK a \in Under(n, s) : <<a, c[1]>> \in R
      BY <2>5 DEF Fits
    <2>7. ViaInternal(n, R, x, a, q)
      BY <2>2, <2>3, <2>6 DEF ViaInternal
    <2> QED  BY <1>1, <2>5, <2>6, <2>7 DEF Fits
  <1>3. ASSUME Fits(n, q, s, N, S) PROVE Reads(n, C, "internal", {x, WILD}, <<q, s>>)
    <2>1. PICK a \in Under(n, s) : <<a, q>> \in N
      BY <1>3 DEF Fits
    <2>2. PICK t \in n.internals : t.sym \in {x, WILD} /\ <<a, t.from>> \in R /\ q \in epsilonClosure(n, t.to)
      BY <1>1, <2>1 DEF ViaInternal
    <2>3. Fits(n, t.from, s, R, S)
      BY <1>3, <2>1, <2>2 DEF Fits
    <2> DEFINE c == <<t.from, s>>
    <2>4. c \in C
      BY <2>3, ViaStates DEF Mirrors
    <2>5. c[1] = t.from /\ c[2] = s
      OBVIOUS
    <2> HIDE DEF c
    <2>6. Moves(n, c, "internal", {x, WILD}, <<q, s>>)
      BY <2>2, <2>5 DEF Moves
    <2> QED  BY <2>4, <2>6 DEF Reads
  <1> QED  BY <1>2, <1>3

LEMMA MirrorCall ==
    ASSUME NEW n, WellFormed(n), IsFiniteSet(n.states), NEW R \in Rel(n), NEW S \in Seq(Rel(n)),
           NEW C, C \subseteq Confs(n), Mirrors(n, C, R, S), NEW x,
           NEW q \in n.states, NEW s \in Seq(n.states)
    PROVE  Reads(n, C, "call", {x, WILD}, <<q, s>>) <=> Fits(n, q, s, OnCall(n, Close(n), R, x), Push(R, S))
  <1> DEFINE N == OnCall(n, Close(n), R, x)
             Z == Push(R, S)
  <1>1. \A a, b : <<a, b>> \in N <=> ViaCall(n, x, a, b)
    <2>1. ASSUME NEW a, NEW b PROVE <<a, b>> \in N <=> ViaCall(n, x, a, b)
      BY ViaBoth
    <2> HIDE DEF N
    <2> QED  BY <2>1, Zenon
  <1> SUFFICES Reads(n, C, "call", {x, WILD}, <<q, s>>) <=> Fits(n, q, s, N, Z)
    OBVIOUS
  <1>a. Z \in Seq(Rel(n)) /\ Z # <<>>
    BY Pushed
  <1>b. \A p \in n.states : \A u \in Seq(n.states) : Linked(n, Push(p, u), Z) <=> Fits(n, p, u, R, S)
    BY LinkedPush
  <1> HIDE DEF N, Z
  <1>2. ASSUME Reads(n, C, "call", {x, WILD}, <<q, s>>) PROVE Fits(n, q, s, N, Z)
    <2>1. PICK c \in C : Moves(n, c, "call", {x, WILD}, <<q, s>>)
      BY <1>2 DEF Reads
    <2>2. PICK t \in n.calls : /\ t.from = c[1] /\ t.sym \in {x, WILD}
                               /\ \E p \in epsilonClosure(n, t.to) : <<q, s>> = <<p, Push(c[1], c[2])>>
      BY <2>1 DEF Moves
    <2> DEFINE p == c[1]
               u == c[2]
    <2>3. q \in epsilonClosure(n, t.to) /\ s = Push(p, u)
      BY <2>2
    <2>4. c = <<p, u>> /\ p \in n.states /\ u \in Seq(n.states) /\ t.from = p
      BY <2>2 DEF Confs
    <2> HIDE DEF p, u
    <2>5. Fits(n, p, u, R, S)
      BY <2>4 DEF Mirrors
    <2>6. Linked(n, s, Z)
      BY <1>b, <2>3, <2>4, <2>5
    <2>7. s # <<>> /\ s[1] = p
      BY <2>3, <2>4, PushedTop
    <2>8. <<p, q>> \in N
      BY <1>1, <2>2, <2>3, <2>4 DEF ViaCall
    <2> QED  BY <2>6, <2>7, <2>8 DEF Fits, Under
  <1>3. ASSUME Fits(n, q, s, N, Z) PROVE Reads(n, C, "call", {x, WILD}, <<q, s>>)
    <2>1. s # <<>>
      BY <1>3, <1>a, LinkedEmpty DEF Fits
    <2> DEFINE p == Head(s)
               u == Tail(s)
    <2>2. p \in n.states /\ u \in Seq(n.states) /\ s = Push(p, u) /\ p = s[1]
      BY <2>1, Popped
    <2> HIDE DEF p, u
    <2>3. Fits(n, p, u, R, S)
      BY <1>3, <1>b, <2>2 DEF Fits
    <2>4. <<p, q>> \in N
      BY <1>3, <2>1, <2>2 DEF Fits, Under
    <2>5. PICK t \in n.calls : t.sym \in {x, WILD} /\ t.from = p /\ q \in epsilonClosure(n, t.to)
      BY <1>1, <2>4 DEF ViaCall
    <2> DEFINE c == <<p, u>>
    <2>6. c \in C
      BY <2>2, <2>3 DEF Mirrors
    <2>7. c[1] = p /\ c[2] = u
      OBVIOUS
    <2> HIDE DEF c
    <2>8. <<q, s>> = <<q, Push(c[1], c[2])>>
      BY <2>2, <2>7
    <2>9. Moves(n, c, "call", {x, WILD}, <<q, s>>)
      BY <2>5, <2>7, <2>8 DEF Moves
    <2> QED  BY <2>6, <2>9 DEF Reads
  <1> QED  BY <1>2, <1>3

LEMMA MirrorReturn ==
    ASSUME NEW n, WellFormed(n), IsFiniteSet(n.states), NEW R \in Rel(n), NEW S \in Seq(Rel(n)),
           NEW C, C \subseteq Confs(n), Mirrors(n, C, R, S), Uniform(n, Bottom(R, S)), NEW x,
           NEW q \in n.states, NEW s \in Seq(n.states)
    PROVE  Reads(n, C, "return", {x, WILD}, <<q, s>>)
             <=> Fits(n, q, s, OnReturn(n, Close(n), R, PoppedBy(n, S), x), Left(S))
  <1> DEFINE V == PoppedBy(n, S)
             N == OnReturn(n, Close(n), R, V, x)
             T == Left(S)
  <1>0. V \in Rel(n) /\ T \in Seq(Rel(n))
    <2>1. CASE S = <<>>
      BY <2>1, PartsRel DEF PoppedBy, Left
    <2>2. CASE S # <<>>
      BY <2>2, Popped DEF PoppedBy, Left
    <2> QED  BY <2>1, <2>2
  <1>1. \A a, b : <<a, b>> \in N <=> ViaReturn(n, R, V, x, a, b)
    <2> HIDE DEF V
    <2>1. ASSUME NEW a, NEW b PROVE <<a, b>> \in N <=> ViaReturn(n, R, V, x, a, b)
      BY <1>0, ViaFacts
    <2> HIDE DEF N
    <2> QED  BY <2>1, Zenon
  <1>2. ASSUME S = <<>>
        PROVE  V = StartRel(n) /\ T = <<>> /\ Uniform(n, R)
    BY <1>2 DEF PoppedBy, Left, Bottom
  <1>3. ASSUME S # <<>>
        PROVE  S = Push(V, T)
    BY <1>3, Popped DEF PoppedBy, Left
  <1> SUFFICES Reads(n, C, "return", {x, WILD}, <<q, s>>) <=> Fits(n, q, s, N, T)
    OBVIOUS
  <1> HIDE DEF V, N, T
  <1>4. ASSUME Reads(n, C, "return", {x, WILD}, <<q, s>>) PROVE Fits(n, q, s, N, T)
    <2>1. PICK c \in C : Moves(n, c, "return", {x, WILD}, <<q, s>>)
      BY <1>4 DEF Reads
    <2>2. PICK t \in n.returns : /\ t.from = c[1] /\ t.sym \in {x, WILD} /\ Pops(n, t, c[2])
                                 /\ \E p \in epsilonClosure(n, t.to) : <<q, s>> = <<p, Left(c[2])>>
      BY <2>1 DEF Moves
    <2> DEFINE p == c[1]
               u == c[2]
    <2>3. q \in epsilonClosure(n, t.to) /\ s = Left(u)
      BY <2>2
    <2>4. c = <<p, u>> /\ p \in n.states /\ u \in Seq(n.states) /\ t.from = p /\ Pops(n, t, u)
      BY <2>2 DEF Confs
    <2> HIDE DEF p, u
    <2>5. Fits(n, p, u, R, S)
      BY <2>4 DEF Mirrors
    <2>6. PICK a \in Under(n, u) : <<a, p>> \in R
      BY <2>5 DEF Fits
    <2>7. u = <<>> <=> S = <<>>
      BY <2>4, <2>5, LinkedEmpty DEF Fits
    <2>8. CASE u = <<>>
      <3>1. V = StartRel(n) /\ T = <<>> /\ Uniform(n, R) /\ s = <<>>
        BY <1>2, <2>3, <2>7, <2>8 DEF Left
      <3>2. t.pred \in n.initial
        BY <2>4, <2>8 DEF Pops
      <3>3. <<t.pred, p>> \in R
        BY <2>6, <3>1, <3>2 DEF Uniform
      <3>4. t.pred \in epsilonClosure(n, t.pred)
        BY <3>2, WellFormedParts, ClosureFacts
      <3>5. <<t.pred, t.pred>> \in V
        BY <3>1, <3>2, <3>4, StartFacts DEF AtStart
      <3>6. <<t.pred, q>> \in N
        BY <1>1, <2>2, <2>3, <2>4, <3>3, <3>5 DEF ViaReturn
      <3> QED  BY <3>1, <3>2, <3>6, LinkedNone DEF Fits, Under
    <2>9. CASE u # <<>>
      <3>1. /\ Head(u) \in n.states /\ Tail(u) \in Seq(n.states) /\ u = Push(Head(u), Tail(u)) /\ Head(u) = u[1]
        BY <2>4, <2>9, Popped
      <3>2. s = Tail(u) /\ t.pred = Head(u)
        BY <2>3, <2>4, <2>9 DEF Left, Pops
      <3>3. u = Push(t.pred, s) /\ t.pred \in n.states /\ a = t.pred
        BY <2>6, <2>9, <3>1, <3>2 DEF Under
      <3>4. Linked(n, Push(t.pred, s), Push(V, T))
        BY <1>3, <2>5, <2>7, <2>9, <3>3 DEF Fits
      <3>5. Fits(n, t.pred, s, V, T)
        <4> DEFINE h == t.pred
        <4> HIDE DEF h
        <4>1. h \in n.states /\ Linked(n, Push(h, s), Push(V, T))
          BY <3>3, <3>4 DEF h
        <4>2. Fits(n, h, s, V, T)
          BY <1>0, <4>1, LinkedPush
        <4> QED  BY <4>2 DEF h
      <3>6. PICK b \in Under(n, s) : <<b, t.pred>> \in V
        BY <3>5 DEF Fits
      <3>7. <<b, q>> \in N
        BY <1>1, <2>2, <2>3, <2>4, <2>6, <3>3, <3>6 DEF ViaReturn
      <3> QED  BY <3>5, <3>6, <3>7 DEF Fits
    <2> QED  BY <2>8, <2>9
  <1>5. ASSUME Fits(n, q, s, N, T) PROVE Reads(n, C, "return", {x, WILD}, <<q, s>>)
    <2>1. PICK a \in Under(n, s) : <<a, q>> \in N
      BY <1>5 DEF Fits
    <2>2. PICK t \in n.returns : /\ t.sym \in {x, WILD} /\ <<t.pred, t.from>> \in R
                                 /\ <<a, t.pred>> \in V /\ q \in epsilonClosure(n, t.to)
      BY <1>1, <2>1 DEF ViaReturn
    <2> DEFINE h == t.pred
               p == t.from
    <2>3. h \in n.states /\ p \in n.states
      BY <2>2 DEF Rel
    <2>4. \E u \in Seq(n.states) : Fits(n, p, u, R, S) /\ Pops(n, t, u) /\ Left(u) = s
      <3>1. CASE S = <<>>
        <4>1. T = <<>> /\ Uniform(n, R)
          BY <1>2, <3>1
        <4>2. s = <<>>
          BY <1>5, <4>1 DEF Fits, Linked
        <4>3. h \in n.initial
          BY <2>2, <4>1 DEF Uniform
        <4>4. Fits(n, p, <<>>, R, S)
          BY <2>2, <3>1, <4>3, LinkedNone DEF Fits, Under
        <4>5. Pops(n, t, <<>>) /\ Left(<<>>) = s
          BY <4>2, <4>3 DEF Pops, Left
        <4> QED  BY <4>2, <4>4, <4>5
      <3>2. CASE S # <<>>
        <4> HIDE DEF h, p
        <4> DEFINE u == Push(h, s)
        <4>1. u \in Seq(n.states) /\ u # <<>> /\ u[1] = h /\ Head(u) = h /\ Tail(u) = s
          BY <2>3, PushedTop
        <4>2. Fits(n, h, s, V, T)
          BY <1>5, <2>1, <2>2 DEF Fits, h
        <4>3. Linked(n, u, S)
          <5>1. Linked(n, Push(h, s), Push(V, T))
            BY <1>0, <2>3, <4>2, LinkedPush
          <5> QED  BY <1>3, <3>2, <5>1
        <4> HIDE DEF u
        <4>4. Fits(n, p, u, R, S)
          BY <2>2, <4>1, <4>3 DEF Fits, Under, h, p
        <4>5. Pops(n, t, u) /\ Left(u) = s
          BY <4>1 DEF Pops, Left, h
        <4> QED  BY <4>1, <4>4, <4>5
      <3> QED  BY <3>1, <3>2
    <2>5. PICK u \in Seq(n.states) : Fits(n, p, u, R, S) /\ Pops(n, t, u) /\ Left(u) = s
      BY <2>4
    <2> DEFINE c == <<p, u>>
    <2>6. c \in C
      BY <2>3, <2>5 DEF Mirrors
    <2>7. c[1] = t.from /\ c[2] = u
      OBVIOUS
    <2> HIDE DEF c, p
    <2>8. <<q, s>> = <<q, Left(c[2])>>
      BY <2>5, <2>7
    <2>9. Moves(n, c, "return", {x, WILD}, <<q, s>>)
      BY <2>2, <2>5, <2>7, <2>8 DEF Moves
    <2> QED  BY <2>6, <2>9 DEF Reads
  <1> QED  BY <1>4, <1>5

LEMMA UniformOn ==
    ASSUME NEW n, WellFormed(n), IsFiniteSet(n.states), NEW R \in Rel(n), NEW V \in Rel(n), NEW s
    PROVE  /\ Uniform(n, StartRel(n))
           /\ Uniform(n, R) => Uniform(n, OnInternal(n, Close(n), R, s))
           /\ Uniform(n, V) => Uniform(n, OnReturn(n, Close(n), R, V, s))
  <1>1. Uniform(n, StartRel(n))
    <2>1. ASSUME NEW a, NEW b, <<a, b>> \in StartRel(n)
          PROVE  a \in n.initial /\ \A i \in n.initial : <<i, b>> \in StartRel(n)
      <3>1. AtStart(n, a, b)
        BY <2>1, StartFacts
      <3>2. \A i \in n.initial : AtStart(n, i, b)
        BY <3>1 DEF AtStart
      <3> QED  BY <3>1, <3>2, StartFacts DEF AtStart
    <2> QED  BY <2>1 DEF Uniform
  <1>2. ASSUME Uniform(n, R) PROVE Uniform(n, OnInternal(n, Close(n), R, s))
    <2> DEFINE N == OnInternal(n, Close(n), R, s)
    <2>1. ASSUME NEW a, NEW b, <<a, b>> \in N
          PROVE  a \in n.initial /\ \A i \in n.initial : <<i, b>> \in N
      <3>1. PICK t \in n.internals : t.sym \in {s, WILD} /\ <<a, t.from>> \in R /\ b \in epsilonClosure(n, t.to)
        BY <2>1, ViaBoth DEF ViaInternal
      <3>2. a \in n.initial /\ \A i \in n.initial : <<i, t.from>> \in R
        BY <1>2, <3>1 DEF Uniform
      <3>3. \A i \in n.initial : ViaInternal(n, R, s, i, b)
        BY <3>1, <3>2 DEF ViaInternal
      <3>4. \A i \in n.initial : <<i, b>> \in N
        BY <3>3, ViaBoth
      <3> QED  BY <3>2, <3>4
    <2> HIDE DEF N
    <2> QED  BY <2>1 DEF Uniform, N
  <1>3. ASSUME Uniform(n, V) PROVE Uniform(n, OnReturn(n, Close(n), R, V, s))
    <2> DEFINE N == OnReturn(n, Close(n), R, V, s)
    <2>1. ASSUME NEW a, NEW b, <<a, b>> \in N
          PROVE  a \in n.initial /\ \A i \in n.initial : <<i, b>> \in N
      <3>1. PICK t \in n.returns : /\ t.sym \in {s, WILD} /\ <<t.pred, t.from>> \in R
                                   /\ <<a, t.pred>> \in V /\ b \in epsilonClosure(n, t.to)
        BY <2>1, ViaFacts DEF ViaReturn
      <3>2. a \in n.initial /\ \A i \in n.initial : <<i, t.pred>> \in V
        BY <1>3, <3>1 DEF Uniform
      <3>3. \A i \in n.initial : ViaReturn(n, R, V, s, i, b)
        BY <3>1, <3>2 DEF ViaReturn
      <3>4. \A i \in n.initial : <<i, b>> \in N
        BY <3>3, ViaFacts
      <3> QED  BY <3>2, <3>4
    <2> HIDE DEF N
    <2> QED  BY <2>1 DEF Uniform, N
  <1> QED  BY <1>1, <1>2, <1>3

(* What a run of the determinized automaton knows after k positions.       *)
TracksAt(n, m, w, k, R, S) ==
    /\ \A e : e \in Live(m, w, {}, k) <=> e = <<R, S>>
    /\ Len(S) = Opens(w)[k]
    /\ Uniform(n, Bottom(R, S))
    /\ Mirrors(n, Live(n, w, {WILD}, k), R, S)
Tracked(n, m, D, w, k) == \E R \in D : \E S \in Seq(D) : TracksAt(n, m, w, k, R, S)

LEMMA TrackedAtFirst ==
    ASSUME NEW n, WellFormed(n), IsFiniteSet(n.states), NEW D, DetStates(n, D), NEW m, Follows(m, n, D),
           NEW w \in Seq(Positions)
    PROVE  Tracked(n, m, D, w, 0)
  <1> DEFINE R == StartRel(n)
  <1>0. Len(w) \in Nat /\ R \in Rel(n) /\ R \in D
    BY WordTyped, PartsRel DEF DetStates
  <1>1. ASSUME NEW e PROVE e \in Live(m, w, {}, 0) <=> e = <<R, <<>>>>
    <2>1. e \in Live(m, w, {}, 0) <=> \E i \in m.initial : \E q \in epsilonClosure(m, i) : e = <<q, <<>>>>
      BY <1>0, LiveAtFirst
    <2>2. WellFormed(m) /\ Visible(m.internals) /\ m.initial = {R} /\ R \in m.states
      BY WellFormedParts DEF Follows
    <2>3. epsilonClosure(m, R) = {R}
      BY <2>2, ClosureNone
    <2> QED  BY <2>1, <2>2, <2>3
  <1>2. <<>> \in Seq(D) /\ <<>> \in Seq(n.states) /\ Len(<<>>) = 0
    BY EmptySeq
  <1>3. Opens(w)[0] = 0
    BY OpensStep
  <1>4. Uniform(n, Bottom(R, <<>>))
    BY <1>0, UniformOn DEF Bottom
  <1>5. ASSUME NEW q \in n.states, NEW s \in Seq(n.states)
        PROVE  <<q, s>> \in Live(n, w, {WILD}, 0) <=> Fits(n, q, s, R, <<>>)
    <2> DEFINE e == <<q, s>>
    <2>1. e \in Live(n, w, {WILD}, 0) <=> \E i \in n.initial : \E p \in epsilonClosure(n, i) : e = <<p, <<>>>>
      BY <1>0, LiveAtFirst
    <2>2. ASSUME e \in Live(n, w, {WILD}, 0) PROVE Fits(n, q, s, R, <<>>)
      <3>1. PICK i \in n.initial : \E p \in epsilonClosure(n, i) : e = <<p, <<>>>>
        BY <2>1, <2>2
      <3>2. q \in epsilonClosure(n, i) /\ s = <<>>
        BY <3>1
      <3>3. <<i, q>> \in R
        BY <3>2, StartFacts DEF AtStart
      <3> QED  BY <3>2, <3>3, LinkedNone DEF Fits, Under
    <2>3. ASSUME Fits(n, q, s, R, <<>>) PROVE e \in Live(n, w, {WILD}, 0)
      <3>1. s = <<>>
        BY <2>3 DEF Fits, Linked
      <3>2. PICK a \in n.initial : <<a, q>> \in R
        BY <2>3, <3>1 DEF Fits, Under
      <3>3. PICK i \in n.initial : q \in epsilonClosure(n, i)
        BY <3>2, StartFacts DEF AtStart
      <3> QED  BY <2>1, <3>1, <3>3
    <2> QED  BY <2>2, <2>3
  <1> HIDE DEF R
  <1>6. TracksAt(n, m, w, 0, R, <<>>)
    BY <1>1, <1>2, <1>3, <1>4, <1>5 DEF TracksAt, Mirrors
  <1> QED  BY <1>0, <1>2, <1>6 DEF Tracked

LEMMA MirrorsBy ==
    ASSUME NEW n, NEW C, NEW L, NEW kind, NEW as, NEW N, NEW Z,
           \A q, s : <<q, s>> \in L <=> Reads(n, C, kind, as, <<q, s>>),
           \A q \in n.states : \A s \in Seq(n.states) : Reads(n, C, kind, as, <<q, s>>) <=> Fits(n, q, s, N, Z)
    PROVE  Mirrors(n, L, N, Z)
  <1>1. ASSUME NEW q \in n.states, NEW s \in Seq(n.states)
        PROVE  <<q, s>> \in L <=> Fits(n, q, s, N, Z)
    <2> DEFINE e == <<q, s>>
    <2>1. e \in L <=> Reads(n, C, kind, as, e)
      OBVIOUS
    <2>2. Reads(n, C, kind, as, e) <=> Fits(n, q, s, N, Z)
      OBVIOUS
    <2> QED  BY <2>1, <2>2
  <1> QED  BY <1>1, Zenon DEF Mirrors

LEMMA TrackedNext ==
    ASSUME NEW n, WellFormed(n), IsFiniteSet(n.states), NEW D, DetStates(n, D), NEW m, Follows(m, n, D),
           NEW w \in Seq(Positions), NEW k \in 1..Len(w), w[k].sym \in n.symbols, Tracked(n, m, D, w, k - 1)
    PROVE  Tracked(n, m, D, w, k)
  <1> DEFINE x == w[k].sym
             kind == w[k].kind
             C == Live(n, w, {WILD}, k - 1)
  <1>0. /\ kind \in Kinds /\ k - 1 \in 0..Len(w) /\ x \in n.symbols /\ D \subseteq Rel(n)
        /\ StartRel(n) \in D /\ C \subseteq Confs(n)
    BY WordTyped, LiveTyped DEF DetStates
  <1>1. PICK R \in D : \E S \in Seq(D) : TracksAt(n, m, w, k - 1, R, S)
    BY DEF Tracked
  <1>2. PICK S \in Seq(D) : TracksAt(n, m, w, k - 1, R, S)
    BY <1>1
  <1> DEFINE V == PoppedBy(n, S)
             T == Left(S)
  <1>3. /\ \A e : e \in Live(m, w, {}, k - 1) <=> e = <<R, S>>
        /\ Len(S) = Opens(w)[k - 1] /\ Uniform(n, Bottom(R, S)) /\ Mirrors(n, C, R, S)
    BY <1>2 DEF TracksAt
  <1>4. S \in Seq(Rel(n)) /\ R \in Rel(n)
    BY <1>0
  <1>5. ASSUME NEW e PROVE e \in Live(m, w, {}, k) <=> e = DetNext(n, R, S, kind, x)
    <2> DEFINE c == <<R, S>>
    <2>1. c[1] = R /\ c[2] = S
      OBVIOUS
    <2> HIDE DEF c
    <2>2. e \in Live(m, w, {}, k) => Moves(m, c, kind, {x} \cup {}, e)
      <3>1. ASSUME e \in Live(m, w, {}, k)
            PROVE  \E d \in Live(m, w, {}, k - 1) : Moves(m, d, kind, {x} \cup {}, e)
        BY <3>1, LiveBack
      <3>2. \A d \in Live(m, w, {}, k - 1) : d = c
        BY <1>3 DEF c
      <3> QED  BY <3>1, <3>2
    <2>3. Moves(m, c, kind, {x} \cup {}, e) => e \in Live(m, w, {}, k)
      <3>1. c \in Live(m, w, {}, k - 1)
        BY <1>3 DEF c
      <3> QED  BY <3>1, LiveOn
    <2>4. Moves(m, c, kind, {x} \cup {}, e) <=> x \in n.symbols /\ e = DetNext(n, c[1], c[2], kind, x)
      <3> DEFINE as == {x} \cup {}
      <3>1. as = {x}
        OBVIOUS
      <3>2. c[1] \in D /\ c[2] \in Seq(D)
        BY <2>1
      <3> HIDE DEF as, x, kind
      <3>3. Moves(m, c, kind, as, e) <=> x \in n.symbols /\ e = DetNext(n, c[1], c[2], kind, x)
        <4>1. StartRel(n) \in D /\ kind \in Kinds
          BY <1>0
        <4> HIDE DEF c
        <4>2. DetMove(m, n, c, kind, as, x, e)
          BY <3>1, <3>2, <4>1, DetMoves, Zenon
        <4> QED  BY <4>2 DEF DetMove
      <3> QED  BY <3>3 DEF as
    <2> QED  BY <1>0, <2>1, <2>2, <2>3, <2>4
  <1>6. ASSUME NEW q, NEW s
        PROVE  <<q, s>> \in Live(n, w, {WILD}, k) <=> Reads(n, C, kind, {x, WILD}, <<q, s>>)
    <2>1. {x} \cup {WILD} = {x, WILD}
      OBVIOUS
    <2>2. <<q, s>> \in Live(n, w, {WILD}, k) => \E c \in C : Moves(n, c, kind, {x} \cup {WILD}, <<q, s>>)
      BY LiveBack
    <2>3. \A c \in C : Moves(n, c, kind, {x} \cup {WILD}, <<q, s>>) => <<q, s>> \in Live(n, w, {WILD}, k)
      BY LiveOn
    <2> QED  BY <2>1, <2>2, <2>3 DEF Reads
  <1>7. Opens(w)[k] = OpenAt(Opens(w)[k - 1], kind)
    BY OpensStep
  <1> HIDE DEF x, C, V, T
  <1>8. CASE kind = "call"
    <2> DEFINE N == OnCall(n, Close(n), R, x)
               Z == Push(R, S)
    <2>1. N \in D
      <3>1. OneMove(n, N, D)
        BY <1>0 DEF OneMove
      <3> QED  BY <3>1 DEF DetStates, DetClosed
    <2>2. Z \in Seq(D) /\ Len(Z) = Len(S) + 1
      BY Pushed
    <2>3. Bottom(N, Z) = Bottom(R, S)
      BY <1>4, BottomPush
    <2>4. \A q \in n.states : \A s \in Seq(n.states) : Reads(n, C, kind, {x, WILD}, <<q, s>>) <=> Fits(n, q, s, N, Z)
      <3>1. ASSUME NEW q \in n.states, NEW s \in Seq(n.states)
            PROVE  Reads(n, C, "call", {x, WILD}, <<q, s>>) <=> Fits(n, q, s, N, Z)
        BY <1>0, <1>3, <1>4, MirrorCall
      <3> HIDE DEF N, Z
      <3> QED  BY <1>8, <3>1, Zenon
    <2>5. DetNext(n, R, S, kind, x) = <<N, Z>>
      BY <1>8 DEF DetNext
    <2> HIDE DEF N, Z
    <2>6. Len(Z) = Opens(w)[k]
      BY <1>3, <1>7, <1>8, <2>2 DEF OpenAt
    <2>7. Mirrors(n, Live(n, w, {WILD}, k), N, Z)
      BY <1>6, <2>4, MirrorsBy
    <2>8. TracksAt(n, m, w, k, N, Z)
      BY <1>3, <1>5, <2>3, <2>5, <2>6, <2>7 DEF TracksAt
    <2> QED  BY <2>1, <2>2, <2>8 DEF Tracked
  <1>9. CASE kind = "internal"
    <2> DEFINE N == OnInternal(n, Close(n), R, x)
    <2>1. N \in D
      <3>1. OneMove(n, N, D)
        BY <1>0 DEF OneMove
      <3> QED  BY <3>1 DEF DetStates, DetClosed
    <2>2. Uniform(n, R) => Uniform(n, N)
      BY <1>4, UniformOn
    <2>3. \A q \in n.states : \A s \in Seq(n.states) : Reads(n, C, kind, {x, WILD}, <<q, s>>) <=> Fits(n, q, s, N, S)
      <3>1. ASSUME NEW q \in n.states, NEW s \in Seq(n.states)
            PROVE  Reads(n, C, "internal", {x, WILD}, <<q, s>>) <=> Fits(n, q, s, N, S)
        BY <1>0, <1>3, <1>4, MirrorInternal
      <3> HIDE DEF N
      <3> QED  BY <1>9, <3>1, Zenon
    <2>4. DetNext(n, R, S, kind, x) = <<N, S>>
      BY <1>9 DEF DetNext
    <2> HIDE DEF N
    <2>5. Uniform(n, Bottom(N, S))
      BY <1>3, <2>2 DEF Bottom
    <2>6. Len(S) = Opens(w)[k]
      BY <1>3, <1>7, <1>9 DEF OpenAt
    <2>7. Mirrors(n, Live(n, w, {WILD}, k), N, S)
      BY <1>6, <2>3, MirrorsBy
    <2>8. TracksAt(n, m, w, k, N, S)
      BY <1>5, <2>4, <2>5, <2>6, <2>7 DEF TracksAt
    <2> QED  BY <2>1, <2>8 DEF Tracked
  <1>10. CASE kind = "return"
    <2> DEFINE N == OnReturn(n, Close(n), R, V, x)
    <2>0. /\ V \in D /\ T \in Seq(D)
          /\ S = <<>> => V = StartRel(n) /\ T = <<>> /\ Opens(w)[k - 1] = 0
          /\ S # <<>> => S = Push(V, T) /\ Len(S) > 0 /\ Len(T) = Len(S) - 1
      <3>1. CASE S = <<>>
        BY <1>0, <1>3, <3>1 DEF V, T, PoppedBy, Left
      <3>2. CASE S # <<>>
        <4>1. /\ Tail(S) \in Seq(D) /\ Head(S) \in D /\ Len(S) > 0 /\ Len(Tail(S)) = Len(S) - 1
              /\ S = Push(Head(S), Tail(S))
          BY <3>2, Popped
        <4> QED  BY <3>2, <4>1 DEF V, T, PoppedBy, Left
      <3> QED  BY <3>1, <3>2
    <2>1. N \in D
      <3>1. OneMove(n, N, D)
        BY <1>0, <2>0 DEF OneMove
      <3> QED  BY <3>1 DEF DetStates, DetClosed
    <2>a. V \in Rel(n) /\ T \in Seq(Rel(n))
      BY <1>0, <2>0
    <2>2. Uniform(n, V) => Uniform(n, N)
      BY <1>4, <2>a, UniformOn
    <2>3. \A q \in n.states : \A s \in Seq(n.states) : Reads(n, C, kind, {x, WILD}, <<q, s>>) <=> Fits(n, q, s, N, T)
      <3>1. ASSUME NEW q \in n.states, NEW s \in Seq(n.states)
            PROVE  Reads(n, C, "return", {x, WILD}, <<q, s>>) <=> Fits(n, q, s, N, T)
        BY <1>0, <1>3, <1>4, MirrorReturn DEF V, T
      <3> HIDE DEF N
      <3> QED  BY <1>10, <3>1, Zenon
    <2>4. DetNext(n, R, S, kind, x) = <<N, T>>
      BY <1>10 DEF DetNext, V, T
    <2> HIDE DEF N
    <2>5. Uniform(n, Bottom(V, T))
      <3>1. CASE S = <<>>
        BY <1>4, <2>0, <3>1, UniformOn DEF Bottom
      <3>2. CASE S # <<>>
        BY <1>3, <2>0, <2>a, <3>2, BottomPush
      <3> QED  BY <3>1, <3>2
    <2>6. Uniform(n, Bottom(N, T))
      BY <2>2, <2>5 DEF Bottom
    <2>7. Len(T) = Opens(w)[k]
      <3>1. CASE S = <<>>
        BY <1>7, <1>10, <2>0, <3>1 DEF OpenAt
      <3>2. CASE S # <<>>
        BY <1>3, <1>7, <1>10, <2>0, <3>2 DEF OpenAt
      <3> QED  BY <3>1, <3>2
    <2>8. Mirrors(n, Live(n, w, {WILD}, k), N, T)
      BY <1>6, <2>3, MirrorsBy
    <2>9. TracksAt(n, m, w, k, N, T)
      BY <1>5, <2>4, <2>6, <2>7, <2>8 DEF TracksAt
    <2> QED  BY <2>0, <2>1, <2>9 DEF Tracked
  <1> QED  BY <1>0, <1>8, <1>9, <1>10 DEF Kinds

LEMMA DetTracked ==
    ASSUME NEW n, WellFormed(n), IsFiniteSet(n.states), NEW D, DetStates(n, D), NEW m, Follows(m, n, D),
           NEW w \in Seq(Positions), \A i \in 1..Len(w) : w[i].sym \in n.symbols
    PROVE  Tracked(n, m, D, w, Len(w))
  <1> DEFINE T == {k \in Nat : Tracked(n, m, D, w, k)}
  <1>0. Len(w) \in Nat
    BY WordTyped
  <1>1. 0 \in T
    BY TrackedAtFirst
  <1>2. \A k \in 1..Len(w) : k - 1 \in T => k \in T
    <2>1. ASSUME NEW k \in 1..Len(w), Tracked(n, m, D, w, k - 1) PROVE Tracked(n, m, D, w, k)
      BY <2>1, TrackedNext
    <2> QED  BY <1>0, <2>1
  <1>3. 0..Len(w) \subseteq T
    <2> HIDE DEF T
    <2> QED  BY <1>0, <1>1, <1>2, UpTo
  <1> QED  BY <1>0, <1>3

(* The determinized automaton ends in a relation R: all it has read ends   *)
(* in R, and all of R has been read if no call pends.                      *)
HasFinal(n, R) == \E r \in R : r[2] \in n.final
DetEnds(n, m, w, R) ==
    /\ isMemberNondet(m, w) <=> R \in m.final
    /\ Accepts(n, w, {WILD}) => HasFinal(n, R)
    /\ ~PendingCall(w) /\ HasFinal(n, R) => Accepts(n, w, {WILD})

LEMMA DetAnswers ==
    ASSUME NEW n, WellFormed(n), IsFiniteSet(n.states), NEW D, DetStates(n, D), NEW m, Follows(m, n, D),
           NEW w \in Seq(Positions), \A i \in 1..Len(w) : w[i].sym \in n.symbols
    PROVE  \E R \in D : DetEnds(n, m, w, R)
  <1> DEFINE k == Len(w)
             C == Live(n, w, {WILD}, k)
  <1>0. k \in 0..Len(w) /\ Len(w) \in Nat /\ D \subseteq Rel(n)
    BY WordTyped DEF DetStates
  <1>1. PICK R \in D : \E S \in Seq(D) : TracksAt(n, m, w, k, R, S)
    BY DetTracked DEF Tracked
  <1>2. PICK S \in Seq(D) : TracksAt(n, m, w, k, R, S)
    BY <1>1
  <1>3. /\ \A e : e \in Live(m, w, {}, k) <=> e = <<R, S>>
        /\ Len(S) = Opens(w)[k] /\ Uniform(n, Bottom(R, S)) /\ Mirrors(n, C, R, S)
    BY <1>2 DEF TracksAt
  <1>4. isMemberNondet(m, w) <=> R \in m.final
    <2>1. isMemberNondet(m, w) <=> \E c \in Live(m, w, {}, k) : c[1] \in m.final
      BY AcceptsLive DEF isMemberNondet
    <2> DEFINE e == <<R, S>>
    <2>2. e \in Live(m, w, {}, k) /\ e[1] = R /\ \A c \in Live(m, w, {}, k) : c = e
      BY <1>3
    <2> HIDE DEF e
    <2> QED  BY <2>1, <2>2
  <1>5. Accepts(n, w, {WILD}) <=> \E c \in C : c[1] \in n.final
    BY AcceptsLive
  <1>6. C \subseteq Confs(n)
    BY <1>0, LiveTyped
  <1> HIDE DEF C
  <1>7. ASSUME Accepts(n, w, {WILD}) PROVE HasFinal(n, R)
    <2>1. PICK c \in C : c[1] \in n.final
      BY <1>5, <1>7
    <2> DEFINE q == c[1]
               s == c[2]
    <2>2. c = <<q, s>> /\ q \in n.states /\ s \in Seq(n.states) /\ q \in n.final
      BY <1>6, <2>1 DEF Confs
    <2> HIDE DEF q, s
    <2>3. Fits(n, q, s, R, S)
      BY <1>3, <2>2 DEF Mirrors
    <2>4. PICK a : <<a, q>> \in R
      BY <2>3 DEF Fits
    <2> QED  BY <2>2, <2>4 DEF HasFinal
  <1>8. ASSUME ~PendingCall(w), HasFinal(n, R) PROVE Accepts(n, w, {WILD})
    <2>1. Len(S) = 0 /\ S = <<>>
      <3>1. Len(S) \in Nat /\ ~(Len(S) > 0)
        BY <1>3, <1>8 DEF PendingCall
      <3> QED  BY <3>1
    <2>2. Uniform(n, R)
      BY <1>3, <2>1 DEF Bottom
    <2>3. PICK r \in R : r[2] \in n.final
      BY <1>8 DEF HasFinal
    <2> DEFINE a == r[1]
               q == r[2]
    <2>a. R \subseteq n.states \X n.states
      BY <1>0 DEF Rel
    <2>b. r = <<r[1], r[2]>> /\ r[2] \in n.states
      BY <2>3, <2>a
    <2>4. <<a, q>> \in R /\ q \in n.states
      BY <2>3, <2>b
    <2>5. a \in n.initial
      BY <2>2, <2>4 DEF Uniform
    <2>6. Fits(n, q, <<>>, R, <<>>)
      BY <2>4, <2>5, LinkedNone DEF Fits, Under
    <2>7. <<q, <<>>>> \in C
      BY <1>3, <2>1, <2>4, <2>6, EmptySeq DEF Mirrors
    <2> QED  BY <1>5, <2>3, <2>7
  <1>9. DetEnds(n, m, w, R)
    BY <1>4, <1>7, <1>8 DEF DetEnds
  <1> QED  BY <1>9

LEMMA DetSymbols ==
    ASSUME NEW n, NEW D, NEW m, Follows(m, n, D), NEW w \in Seq(Positions), isMemberNondet(m, w)
    PROVE  \A i \in 1..Len(w) : w[i].sym \in n.symbols
  <1> DEFINE Spelt(k) == \A i \in 1..k : w[i].sym \in n.symbols
             T == {k \in Nat : Live(m, w, {}, k) # {} => Spelt(k)}
  <1>0. Len(w) \in Nat
    BY WordTyped
  <1>1. 0 \in T
    OBVIOUS
  <1>2. ASSUME NEW k \in 1..Len(w), k - 1 \in T PROVE k \in T
    <2>1. SUFFICES ASSUME NEW e \in Live(m, w, {}, k) PROVE Spelt(k)
      BY <1>0
    <2>2. PICK c \in Live(m, w, {}, k - 1) : Moves(m, c, w[k].kind, {w[k].sym} \cup {}, e)
      BY LiveBack
    <2>3. PICK t \in m.calls \cup m.internals \cup m.returns : t.sym \in {w[k].sym} \cup {}
      BY <2>2 DEF Moves
    <2>4. t.sym = w[k].sym
      BY <2>3
    <2>5. t.sym \in n.symbols
      <3>1. CASE t \in m.calls
        BY <3>1, EdgeEnds DEF Follows
      <3>2. CASE t \in m.internals
        BY <3>2, EdgeEnds DEF Follows
      <3>3. CASE t \in m.returns
        BY <3>3, ReturnEnds DEF Follows
      <3> QED  BY <3>1, <3>2, <3>3
    <2>6. Spelt(k - 1)
      BY <1>2, <2>2
    <2> QED  BY <1>0, <2>4, <2>5, <2>6
  <1>3. 0..Len(w) \subseteq T
    <2> HIDE DEF T
    <2> QED  BY <1>0, <1>1, <1>2, UpTo
  <1>4. Live(m, w, {}, Len(w)) # {}
    BY AcceptsLive DEF isMemberNondet
  <1> QED  BY <1>0, <1>3, <1>4

(* The words a run survives, with all the configurations it ends in. *)
LangAt(n, X, k) == X \cup Extensions(n, {x \in X : Len(x[1]) = k - 1})
LangOver(n, N, f) == f = [k \in 0..N |-> IF k = 0 THEN {<<(<<>>), Start(n)>>} ELSE LangAt(n, f[k - 1], k)]

LEMMA LangExists ==
    ASSUME NEW n, NEW N \in Nat
    PROVE  \E f : LangOver(n, N, f)
  <1> DEFINE T == {m \in Nat : \E f : LangOver(n, m, f)}
             z == {<<(<<>>), Start(n)>>}
  <1>0. \A f, M : LangOver(n, M, f) <=> f = [k \in 0..M |-> IF k = 0 THEN z ELSE LangAt(n, f[k - 1], k)]
    BY Zenon DEF LangOver
  <1> HIDE DEF z
  <1>1. 0 \in T
    <2> DEFINE f == [k \in 0..0 |-> z]
    <2>1. f = [k \in 0..0 |-> IF k = 0 THEN z ELSE LangAt(n, f[k - 1], k)]
      OBVIOUS
    <2>2. LangOver(n, 0, f)
      BY <1>0, <2>1
    <2> QED  BY <2>2
  <1>2. ASSUME NEW m \in Nat, m \in T PROVE m + 1 \in T
    <2>1. PICK f : LangOver(n, m, f)
      BY <1>2
    <2>2. f = [k \in 0..m |-> IF k = 0 THEN z ELSE LangAt(n, f[k - 1], k)]
      BY <1>0, <2>1
    <2> DEFINE g == [k \in 0..(m + 1) |-> IF k = m + 1 THEN LangAt(n, f[m], m + 1) ELSE f[k]]
               h(k) == IF k = 0 THEN z ELSE LangAt(n, g[k - 1], k)
    <2>3. ASSUME NEW k \in 0..(m + 1) PROVE g[k] = h(k)
      <3>1. CASE k = m + 1
        <4>1. g[k] = LangAt(n, f[m], k)
          BY <3>1
        <4>2. k # 0 /\ k - 1 = m /\ m \in 0..(m + 1) /\ m # m + 1
          BY <3>1
        <4>3. g[k - 1] = f[m]
          BY <4>2
        <4> HIDE DEF g
        <4> QED  BY <4>1, <4>2, <4>3
      <3>2. CASE k # m + 1
        <4>1. k \in 0..m /\ g[k] = f[k]
          BY <3>2
        <4>2. f[k] = IF k = 0 THEN z ELSE LangAt(n, f[k - 1], k)
          BY <2>2, <4>1
        <4>3. CASE k = 0
          BY <4>1, <4>2, <4>3
        <4>4. CASE k # 0
          <5>1. k - 1 \in 0..(m + 1) /\ k - 1 # m + 1
            BY <4>1, <4>4
          <5>2. g[k - 1] = f[k - 1]
            BY <5>1
          <5> HIDE DEF g
          <5> QED  BY <4>1, <4>2, <4>4, <5>2
        <4> QED  BY <4>3, <4>4
      <3> QED  BY <3>1, <3>2
    <2>4. g = [k \in 0..(m + 1) |-> h(k)]
      BY <2>3
    <2>5. LangOver(n, m + 1, g)
      <3> HIDE DEF g
      <3> QED  BY <1>0, <2>4
    <2> HIDE DEF g
    <2> QED  BY <2>5
  <1> HIDE DEF T
  <1>3. N \in T
    BY <1>1, <1>2, NatInd
  <1> QED  BY <1>3 DEF T

Conf(n, w) == Configurations(n, w, {WILD})[Len(w)]
Survived(n, x, k) ==
    \E w \in Seq(Positions) : Len(w) <= k /\ x = <<w, Conf(n, w)>> /\ (w = <<>> \/ Conf(n, w) # {})
NextConf(n, C, p) == Read(n, Closed(n, C), p.kind, {p.sym, WILD})
Extends1(n, X, e) ==
    \E y \in X, p \in Positions :
      e = <<Append(y[1], p), NextConf(n, y[2], p)>> /\ e[2] # {}

LEMMA ExtensionsIn ==
    ASSUME NEW n, NEW X, NEW e
    PROVE  e \in Extensions(n, X) <=> Extends1(n, X, e)
  <1> DEFINE ext(y, p) == <<Append(y[1], p), NextConf(n, y[2], p)>>
             S == {ext(y, p) : y \in X, p \in Positions}
  <1>1. e \in Extensions(n, X) <=> e \in S /\ e[2] # {}
    BY DEF Extensions, NextConf
  <1>2. Extends1(n, X, e) <=> (\E y \in X, p \in Positions : e = ext(y, p)) /\ e[2] # {}
    BY DEF Extends1
  <1> HIDE DEF ext
  <1>3. e \in S <=> \E y \in X, p \in Positions : e = ext(y, p)
    OBVIOUS
  <1> QED  BY <1>1, <1>2, <1>3

LEMMA ReadNone ==
    ASSUME NEW n, NEW kind \in Kinds, NEW as
    PROVE  Read(n, Closed(n, {}), kind, as) = {}
  <1> DEFINE C == Closed(n, {})
  <1>1. C = {}
    BY ClosedIn
  <1>2. ASSUME NEW e PROVE e \notin Read(n, C, kind, as)
    <2> HIDE DEF C
    <2>1. e \notin Read(n, C, "call", as)
      <3>1. ~ByCall(n, C, as, e)
        BY <1>1 DEF ByCall
      <3> QED  BY <3>1, CallRead
    <2>2. e \notin Read(n, C, "internal", as)
      <3>1. ~ByInternal(n, C, as, e)
        BY <1>1 DEF ByInternal
      <3> QED  BY <3>1, InternalRead
    <2>3. e \notin Read(n, C, "return", as)
      <3>1. ~ByReturn(n, C, as, e)
        BY <1>1 DEF ByReturn
      <3> QED  BY <3>1, ReturnRead
    <2> QED  BY <2>1, <2>2, <2>3 DEF Kinds
  <1> QED  BY <1>2

LEMMA ConfAppend ==
    ASSUME NEW n, NEW w \in Seq(Positions), NEW p \in Positions
    PROVE  /\ Conf(n, Append(w, p)) = NextConf(n, Conf(n, w), p)
           /\ Conf(n, w) = {} => Conf(n, Append(w, p)) = {}
  <1> DEFINE v == Append(w, p)
             A(k) == Configurations(n, v, {WILD})[k]
             B(k) == Configurations(n, w, {WILD})[k]
             T == {k \in Nat : A(k) = B(k)}
  <1>1. /\ v \in Seq(Positions) /\ Len(v) = Len(w) + 1 /\ Len(w) \in Nat /\ Len(v) \in Nat
        /\ \A i \in 1..Len(w) : v[i] = w[i]
        /\ v[Len(w) + 1] = p
    BY AppendProperties, LenProperties
  <1> HIDE DEF v
  <1>2. 0 \in T
    BY <1>1, Run
  <1>3. ASSUME NEW k \in 1..Len(w), k - 1 \in T PROVE k \in T
    <2>1. A(k) = ReadAt(n, v, {WILD}, A(k - 1), k)
      BY <1>1, Run, SMTT(30)
    <2>2. B(k) = ReadAt(n, w, {WILD}, B(k - 1), k)
      BY <1>1, Run
    <2>3. A(k - 1) = B(k - 1) /\ v[k] = w[k]
      BY <1>1, <1>3
    <2>4. ReadAt(n, v, {WILD}, B(k - 1), k) = ReadAt(n, w, {WILD}, B(k - 1), k)
      BY <2>3 DEF ReadAt
    <2> QED  BY <1>1, <2>1, <2>2, <2>3, <2>4
  <1>4. Len(w) \in T
    <2> HIDE DEF T
    <2>1. 0..Len(w) \subseteq T
      BY <1>1, <1>2, <1>3, UpTo
    <2> QED  BY <1>1, <2>1
  <1>5. A(Len(v)) = ReadAt(n, v, {WILD}, A(Len(w)), Len(v))
    <2>1. Len(v) \in 1..Len(v) /\ Len(v) - 1 = Len(w)
      BY <1>1
    <2> QED  BY <1>1, <2>1, Run
  <1>6. {p.sym} \cup {WILD} = {p.sym, WILD}
    OBVIOUS
  <1>7. Conf(n, v) = NextConf(n, Conf(n, w), p)
    BY <1>1, <1>4, <1>5, <1>6 DEF Conf, ReadAt, NextConf
  <1>8. p.kind \in Kinds
    BY DEF Positions
  <1>9. Conf(n, w) = {} => Conf(n, v) = {}
    BY <1>7, <1>8, ReadNone DEF NextConf
  <1> QED  BY <1>7, <1>9 DEF v

LEMMA LangStep ==
    ASSUME NEW n, NEW k \in Nat, k # 0, NEW X, \A x : x \in X <=> Survived(n, x, k - 1), NEW x
    PROVE  x \in LangAt(n, X, k) <=> Survived(n, x, k)
  <1> DEFINE Y == {y \in X : Len(y[1]) = k - 1}
  <1>1. x \in LangAt(n, X, k) <=> x \in X \/ Extends1(n, Y, x)
    BY ExtensionsIn DEF LangAt
  <1>2. ASSUME x \in X PROVE Survived(n, x, k)
    <2>1. PICK w \in Seq(Positions) : Len(w) <= k - 1 /\ x = <<w, Conf(n, w)>> /\ (w = <<>> \/ Conf(n, w) # {})
      BY <1>2 DEF Survived
    <2>2. Len(w) <= k
      BY <2>1, LenProperties
    <2> QED  BY <2>1, <2>2 DEF Survived
  <1>3. ASSUME Extends1(n, Y, x) PROVE Survived(n, x, k)
    <2>1. PICK y \in Y, p \in Positions :
            x = <<Append(y[1], p), NextConf(n, y[2], p)>> /\ x[2] # {}
      BY <1>3 DEF Extends1
    <2>2. Len(y[1]) = k - 1 /\ Survived(n, y, k - 1)
      OBVIOUS
    <2>3. PICK w \in Seq(Positions) : y = <<w, Conf(n, w)>>
      BY <2>2 DEF Survived
    <2> DEFINE v == Append(w, p)
    <2>4. v \in Seq(Positions) /\ Len(v) = k
      BY <2>2, <2>3, AppendProperties, LenProperties
    <2>5. Conf(n, v) = NextConf(n, Conf(n, w), p)
      BY ConfAppend
    <2>6. x = <<v, Conf(n, v)>> /\ Conf(n, v) # {}
      BY <2>1, <2>3, <2>5
    <2> HIDE DEF v
    <2>7. Len(v) <= k
      BY <2>4
    <2> QED  BY <2>4, <2>6, <2>7 DEF Survived
  <1>4. ASSUME Survived(n, x, k), x \notin X PROVE Extends1(n, Y, x)
    <2>1. PICK w \in Seq(Positions) : Len(w) <= k /\ x = <<w, Conf(n, w)>> /\ (w = <<>> \/ Conf(n, w) # {})
      BY <1>4 DEF Survived
    <2>2. Len(w) = k /\ w # <<>>
      <3>1. ~(Len(w) <= k - 1)
        BY <1>4, <2>1 DEF Survived
      <3> QED  BY <2>1, <3>1, LenProperties
    <2>3. PICK v \in Seq(Positions), p \in Positions : w = Append(v, p)
      BY <2>2, SequenceEmptyOrAppend
    <2>4. Len(v) = k - 1 /\ Len(v) \in Nat
      BY <2>2, <2>3, AppendProperties, LenProperties
    <2>5. /\ Conf(n, w) = NextConf(n, Conf(n, v), p)
          /\ Conf(n, v) # {} /\ Conf(n, w) # {}
      BY <2>1, <2>2, <2>3, ConfAppend
    <2> DEFINE y == <<v, Conf(n, v)>>
    <2>6. Len(v) <= k - 1
      BY <2>4
    <2>7. Survived(n, y, k - 1)
      BY <2>5, <2>6 DEF Survived
    <2>8. y \in Y /\ y[1] = v /\ y[2] = Conf(n, v)
      BY <2>4, <2>7
    <2>9. x = <<Append(y[1], p), NextConf(n, y[2], p)>> /\ x[2] # {}
      BY <2>1, <2>3, <2>5, <2>8
    <2> HIDE DEF y, Y
    <2> QED  BY <2>8, <2>9 DEF Extends1
  <1> QED  BY <1>1, <1>2, <1>3, <1>4

LEMMA RunsAre ==
    ASSUME NEW n, NEW x
    PROVE  x \in Runs(n) <=> Survived(n, x, MaxLength)
  <1> DEFINE N == MaxLength
             runs == CHOOSE f : LangOver(n, N, f)
             T == {k \in Nat : \A y : y \in runs[k] <=> Survived(n, y, k)}
  <1>0. N \in Nat
    BY AlphabetAssumption
  <1>1. \E f : LangOver(n, N, f)
    BY <1>0, LangExists
  <1>2. LangOver(n, N, runs)
    BY <1>1
  <1>3. Runs(n) = runs[N]
    BY DEF Runs, LangOver, LangAt
  <1> HIDE DEF runs
  <1>4. \A k \in 0..N : runs[k] = IF k = 0 THEN {<<(<<>>), Start(n)>>} ELSE LangAt(n, runs[k - 1], k)
    BY <1>2 DEF LangOver
  <1>5. 0 \in T
    <2>1. runs[0] = {<<(<<>>), Start(n)>>}
      BY <1>0, <1>4
    <2>2. <<>> \in Seq(Positions) /\ Len(<<>>) = 0
      BY EmptySeq
    <2>3. Conf(n, <<>>) = Start(n)
      BY <2>2, Run DEF Conf
    <2>4. ASSUME NEW y PROVE y = <<(<<>>), Start(n)>> <=> Survived(n, y, 0)
      <3>1. ASSUME Survived(n, y, 0) PROVE y = <<(<<>>), Start(n)>>
        <4>1. PICK w \in Seq(Positions) : Len(w) <= 0 /\ y = <<w, Conf(n, w)>>
          BY <3>1 DEF Survived
        <4>2. w = <<>>
          BY <4>1
        <4> QED  BY <2>3, <4>1, <4>2
      <3>2. Len(<<>>) <= 0
        BY <2>2
      <3>3. ASSUME y = <<(<<>>), Start(n)>> PROVE Survived(n, y, 0)
        <4>1. y = <<(<<>>), Conf(n, <<>>)>>
          BY <2>3, <3>3
        <4> QED  BY <2>2, <3>2, <4>1, Zenon DEF Survived
      <3> QED  BY <3>1, <3>3
    <2> QED  BY <2>1, <2>4
  <1>6. ASSUME NEW k \in 1..N, k - 1 \in T PROVE k \in T
    <2>1. k \in Nat /\ k # 0 /\ k \in 0..N
      BY <1>0
    <2>2. runs[k] = LangAt(n, runs[k - 1], k)
      BY <1>4, <2>1
    <2> DEFINE X == runs[k - 1]
    <2>3. \A y : y \in X <=> Survived(n, y, k - 1)
      BY <1>6
    <2> HIDE DEF X
    <2>4. ASSUME NEW y PROVE y \in LangAt(n, X, k) <=> Survived(n, y, k)
      BY <2>1, <2>3, LangStep
    <2> QED  BY <2>1, <2>2, <2>4 DEF X
  <1>7. N \in T
    <2> HIDE DEF T
    <2>1. 0..N \subseteq T
      BY <1>0, <1>5, <1>6, UpTo
    <2> QED  BY <1>0, <2>1
  <1> QED  BY <1>3, <1>7

LEMMA AllWordsAre ==
    ASSUME NEW w
    PROVE  w \in AllWords <=> w \in Seq(Positions) /\ Len(w) <= MaxLength
  <1>0. MaxLength \in Nat
    BY AlphabetAssumption
  <1>1. ASSUME w \in AllWords PROVE w \in Seq(Positions) /\ Len(w) <= MaxLength
    <2>1. PICK k \in 0..MaxLength : w \in [1..k -> Positions]
      BY <1>1 DEF AllWords
    <2>2. w \in Seq(Positions) /\ Len(w) = k
      BY <1>0, <2>1
    <2> QED  BY <1>0, <2>2
  <1>2. ASSUME w \in Seq(Positions), Len(w) <= MaxLength PROVE w \in AllWords
    <2>1. Len(w) \in 0..MaxLength /\ w \in [1..Len(w) -> Positions]
      BY <1>0, <1>2, LenProperties
    <2> QED  BY <2>1 DEF AllWords
  <1> QED  BY <1>1, <1>2

(* The words of an automaton are the ones it accepts, up to the bound on   *)
(* their length.                                                           *)
LEMMA WordsAre ==
    ASSUME NEW n, NEW w
    PROVE  w \in Words(n) <=> w \in AllWords /\ Accepts(n, w, {WILD})
  <1>1. w \in Words(n) <=> \E x \in Runs(n) : Accepting(n, x[2]) /\ w = x[1]
    BY Zenon DEF Words
  <1>2. Accepts(n, w, {WILD}) <=> Accepting(n, Conf(n, w))
    BY DEF Accepts, Conf
  <1>3. ASSUME NEW x \in Runs(n), Accepting(n, x[2]), w = x[1]
        PROVE  w \in AllWords /\ Accepting(n, Conf(n, w))
    <2>1. PICK v \in Seq(Positions) : Len(v) <= MaxLength /\ x = <<v, Conf(n, v)>>
      BY <1>3, RunsAre DEF Survived
    <2>2. w = v /\ x[2] = Conf(n, w)
      BY <1>3, <2>1
    <2> QED  BY <1>3, <2>1, <2>2, AllWordsAre
  <1>4. ASSUME w \in AllWords, Accepting(n, Conf(n, w))
        PROVE  \E x \in Runs(n) : Accepting(n, x[2]) /\ w = x[1]
    <2>1. Conf(n, w) # {}
      BY <1>4, ClosedIn DEF Accepting
    <2> DEFINE x == <<w, Conf(n, w)>>
    <2>2. Survived(n, x, MaxLength)
      BY <1>4, <2>1, AllWordsAre DEF Survived
    <2>3. x \in Runs(n) /\ x[1] = w /\ x[2] = Conf(n, w)
      BY <2>2, RunsAre
    <2> QED  BY <1>4, <2>3
  <1> QED  BY <1>1, <1>2, <1>3, <1>4

(* The complement runs as the determinized automaton does, and accepts     *)
(* where that one does not.                                                *)
LEMMA ComplementShape ==
    ASSUME NEW n, WellFormed(n), NEW D, DetStates(n, D)
    PROVE  /\ Follows(complement(n), n, D)
           /\ \A R \in D : R \in complement(n).final <=> R \notin determinize(n).final
  <1> DEFINE m == determinize(n)
             c == complement(n)
  <1>1. WellFormed(m) /\ isDeterministic(m) /\ Follows(m, n, D) /\ D \subseteq m.states
    BY Determinizing, DetShape
  <1>2. c = Complemented(m)
    BY DEF complement
  <1> HIDE DEF m, c
  <1>3. WellFormed(c)
    BY <1>1, <1>2, Complementing
  <1>4. /\ c.calls = m.calls /\ c.internals = m.internals /\ c.returns = m.returns
        /\ c.initial = m.initial /\ c.final = m.states \ m.final
    <2>1. Whole(m)
      BY <1>1 DEF WellFormed, Whole
    <2>2. c = [m EXCEPT !.final = m.states \ m.final]
      BY <1>2 DEF Complemented
    <2>3. c = Automaton(m.states, m.symbols, m.initial, m.states \ m.final, m.calls, m.internals, m.returns)
      BY <2>1, <2>2, Replaced
    <2> QED  BY <2>3, Fields
  <1>5. Follows(c, n, D)
    BY <1>1, <1>3, <1>4 DEF Follows
  <1>6. \A R \in D : R \in c.final <=> R \notin m.final
    BY <1>1, <1>4
  <1> QED  BY <1>5, <1>6 DEF m, c

LEMMA OverIn ==
    ASSUME NEW W, W \subseteq AllWords, NEW S, NEW w
    PROVE  w \in Over(W, S) <=> w \in W /\ w \in Seq(Positions) /\ \A i \in 1..Len(w) : w[i].sym \in S
  <1>1. ASSUME w \in W PROVE w \in Seq(Positions) /\ DOMAIN w = 1..Len(w)
    BY <1>1, AllWordsAre, LenProperties
  <1> QED  BY <1>1 DEF Over

(* What is found of a word by the determinized automaton, and by its       *)
(* complement.                                                             *)
LEMMA DetWord ==
    ASSUME NEW n, WellFormed(n), IsFiniteSet(n.states), NEW w \in AllWords
    PROVE  /\ w \in Over(Words(n), n.symbols) =>
                isMemberNondet(determinize(n), w) /\ ~isMemberNondet(complement(n), w)
           /\ isMemberNondet(determinize(n), w) /\ ~PendingCall(w) => w \in Over(Words(n), n.symbols)
           /\ w \in Over(AllWords, n.symbols) /\ ~PendingCall(w) =>
                w \in Over(Words(n), n.symbols) \/ isMemberNondet(complement(n), w)
  <1> DEFINE m == determinize(n)
             c == complement(n)
             V == Over(Words(n), n.symbols)
             Spelt == \A i \in 1..Len(w) : w[i].sym \in n.symbols
  <1>1. PICK D : DetStates(n, D)
    BY DetFacts
  <1>2. /\ Follows(m, n, D) /\ Follows(c, n, D)
        /\ m.final = {R \in D : \E r \in R : r[2] \in n.final}
        /\ \A R \in D : R \in c.final <=> R \notin m.final
    BY <1>1, DetShape, ComplementShape
  <1>3. w \in Seq(Positions)
    BY AllWordsAre
  <1>4. w \in V <=> Accepts(n, w, {WILD}) /\ Spelt
    <2>1. Words(n) \subseteq AllWords
      BY WordsAre
    <2>2. w \in V <=> w \in Words(n) /\ Spelt
      BY <1>3, <2>1, OverIn
    <2> QED  BY <2>2, WordsAre
  <1>5. w \in Over(AllWords, n.symbols) <=> Spelt
    BY <1>3, OverIn
  <1>6. isMemberNondet(m, w) => Spelt
    BY <1>2, <1>3, DetSymbols
  <1> HIDE DEF m, c, V
  <1>7. \A R \in D : HasFinal(n, R) <=> R \in m.final
    BY <1>2 DEF HasFinal
  <1>8. ASSUME Spelt
        PROVE  /\ Accepts(n, w, {WILD}) => isMemberNondet(m, w) /\ ~isMemberNondet(c, w)
               /\ ~PendingCall(w) /\ isMemberNondet(m, w) => Accepts(n, w, {WILD})
               /\ ~PendingCall(w) => Accepts(n, w, {WILD}) \/ isMemberNondet(c, w)
    <2>1. PICK R \in D : DetEnds(n, m, w, R)
      BY <1>1, <1>2, <1>3, <1>8, DetAnswers
    <2>2. PICK Q \in D : DetEnds(n, c, w, Q)
      BY <1>1, <1>2, <1>3, <1>8, DetAnswers
    <2>3. /\ isMemberNondet(m, w) <=> HasFinal(n, R)
          /\ Accepts(n, w, {WILD}) => HasFinal(n, R)
          /\ ~PendingCall(w) /\ HasFinal(n, R) => Accepts(n, w, {WILD})
      BY <1>7, <2>1 DEF DetEnds
    <2>4. /\ isMemberNondet(c, w) <=> ~HasFinal(n, Q)
          /\ Accepts(n, w, {WILD}) => HasFinal(n, Q)
          /\ ~PendingCall(w) /\ HasFinal(n, Q) => Accepts(n, w, {WILD})
      BY <1>2, <1>7, <2>2 DEF DetEnds
    <2> QED  BY <2>3, <2>4
  <1>9. /\ w \in V => isMemberNondet(m, w) /\ ~isMemberNondet(c, w)
        /\ isMemberNondet(m, w) /\ ~PendingCall(w) => w \in V
        /\ w \in Over(AllWords, n.symbols) /\ ~PendingCall(w) => w \in V \/ isMemberNondet(c, w)
    BY <1>4, <1>5, <1>6, <1>8
  <1> QED  BY <1>9 DEF m, c, V

(* For every automaton: determinize loses no word of its alphabet, and     *)
(* gains none that leaves no call open.                                    *)
THEOREM DeterminizedLanguage ==
    ASSUME NEW n, WellFormed(n), IsFiniteSet(n.states)
    PROVE  LET V == Over(Words(n), n.symbols)
               X == {w \in AllWords : isMemberNondet(determinize(n), w)}
           IN  V \subseteq X /\ NoPendingCall(X) = NoPendingCall(V)
  <1> DEFINE V == Over(Words(n), n.symbols)
             X == {w \in AllWords : isMemberNondet(determinize(n), w)}
  <1>1. V \subseteq AllWords
    BY WordsAre DEF Over
  <1>2. V \subseteq X
    BY <1>1, DetWord
  <1>3. \A w \in X : ~PendingCall(w) => w \in V
    BY DetWord
  <1> HIDE DEF V, X
  <1>4. NoPendingCall(X) = NoPendingCall(V)
    BY <1>2, <1>3 DEF NoPendingCall
  <1> QED  BY <1>2, <1>4 DEF V, X

(* For every automaton: complement has no word that the automaton has, and *)
(* has every other one of its alphabet that leaves no call open.           *)
THEOREM ComplementedLanguage ==
    ASSUME NEW n, WellFormed(n), IsFiniteSet(n.states)
    PROVE  LET V == Over(Words(n), n.symbols)
               X == {w \in AllWords : isMemberNondet(complement(n), w)}
           IN  V \cap X = {} /\ NoPendingCall(Over(AllWords, n.symbols)) \subseteq V \cup X
  <1> DEFINE V == Over(Words(n), n.symbols)
             X == {w \in AllWords : isMemberNondet(complement(n), w)}
             A == Over(AllWords, n.symbols)
  <1>1. V \subseteq AllWords /\ A \subseteq AllWords
    BY WordsAre DEF Over
  <1>2. V \cap X = {}
    BY DetWord
  <1>3. ASSUME NEW w \in A, ~PendingCall(w) PROVE w \in V \cup X
    BY <1>1, <1>3, DetWord
  <1> HIDE DEF V, X, A
  <1>4. NoPendingCall(A) \subseteq V \cup X
    BY <1>3 DEF NoPendingCall
  <1> QED  BY <1>2, <1>4 DEF V, X, A

(* No edit gives the client's automaton infinitely many states. *)
Finite(n) == WellFormed(n) /\ IsFiniteSet(n.states)

LEMMA EndsFinite == ASSUME NEW t PROVE IsFiniteSet(Ends(t))
  <1> DEFINE S == {t.from} \cup {t.to}
             p == IF "pred" \in DOMAIN t THEN {t.pred} ELSE {}
  <1>1. IsFiniteSet({t.from}) /\ IsFiniteSet({t.to}) /\ IsFiniteSet({t.pred}) /\ IsFiniteSet({})
    BY FS_Singleton, FS_EmptySet
  <1>2. IsFiniteSet(S)
    BY <1>1, FS_Union
  <1>3. IsFiniteSet(p)
    BY <1>1
  <1>4. Ends(t) = S \cup p
    BY DEF Ends
  <1> HIDE DEF S, p
  <1> QED  BY <1>2, <1>3, <1>4, FS_Union

LEMMA AddedStates ==
    ASSUME NEW n, Whole(n), NEW T
    PROVE  /\ addCalls(n, T).states = Reached(n, T) /\ Whole(addCalls(n, T))
           /\ addInternals(n, T).states = Reached(n, T) /\ Whole(addInternals(n, T))
           /\ addReturns(n, T).states = Reached(n, T) /\ Whole(addReturns(n, T))
  <1> DEFINE Q == Reached(n, T)
             S == Learned(n, T)
  <1>1. /\ addCalls(n, T) = Automaton(Q, S, n.initial, n.final, n.calls \cup T, n.internals, n.returns)
        /\ addInternals(n, T) = Automaton(Q, S, n.initial, n.final, n.calls, n.internals \cup T, n.returns)
        /\ addReturns(n, T) = Automaton(Q, S, n.initial, n.final, n.calls, n.internals, n.returns \cup T)
    BY Adding
  <1> HIDE DEF Q, S
  <1>2. /\ addCalls(n, T).states = Q /\ Whole(addCalls(n, T))
        /\ addInternals(n, T).states = Q /\ Whole(addInternals(n, T))
        /\ addReturns(n, T).states = Q /\ Whole(addReturns(n, T))
    BY <1>1, Fields
  <1> QED  BY <1>2 DEF Q

LEMMA AddedReach ==
    ASSUME NEW n, WellFormed(n), NEW t
    PROVE  /\ addCalls(n, {t}).states = n.states \cup Ends(t) /\ addInternals(n, {t}).states = n.states \cup Ends(t)
           /\ addReturns(n, {t}).states = n.states \cup Ends(t)
  <1> DEFINE Q == Reached(n, {t})
  <1>1. Q = n.states \cup Ends(t)
    BY DEF Reached, Touched
  <1>2. Whole(n)
    BY DEF WellFormed, Whole
  <1>3. addCalls(n, {t}).states = Q /\ addInternals(n, {t}).states = Q /\ addReturns(n, {t}).states = Q
    BY <1>2, AddedStates
  <1> QED  BY <1>1, <1>3

LEMMA TransRemovedStates ==
    ASSUME NEW n, WellFormed(n), NEW t
    PROVE  /\ [n EXCEPT !.calls = @ \ {t}].states = n.states
           /\ [n EXCEPT !.internals = @ \ {t}].states = n.states
           /\ [n EXCEPT !.returns = @ \ {t}].states = n.states
  <1>1. Whole(n)
    BY DEF WellFormed, Whole
  <1>2. [n EXCEPT !.calls = n.calls \ {t}]
          = Automaton(n.states, n.symbols, n.initial, n.final, n.calls \ {t}, n.internals, n.returns)
    BY <1>1, ReplacedTrans
  <1>3. [n EXCEPT !.internals = n.internals \ {t}]
          = Automaton(n.states, n.symbols, n.initial, n.final, n.calls, n.internals \ {t}, n.returns)
    BY <1>1, ReplacedTrans
  <1>4. [n EXCEPT !.returns = n.returns \ {t}]
          = Automaton(n.states, n.symbols, n.initial, n.final, n.calls, n.internals, n.returns \ {t})
    BY <1>1, ReplacedTrans
  <1> QED  BY <1>2, <1>3, <1>4, Fields

LEMMA FewerStates ==
    ASSUME NEW n, NEW Q, NEW s
    PROVE  /\ removeStates(n, Q).states \subseteq n.states
           /\ projectStates(n, Q).states \subseteq n.states
           /\ removeSymbol(n, s).states \subseteq n.states
           /\ removeImplicitTransitions(n).states \subseteq n.states
           /\ pruneUnreachableForward(n, Q).states \subseteq n.states
           /\ pruneUnreachableBackward(n, Q).states \subseteq n.states
  <1>1. ASSUME NEW X PROVE removeStates(n, X).states \subseteq n.states
    BY Fields DEF removeStates
  <1>2. removeSymbol(n, s).states \subseteq n.states
    BY Fields DEF removeSymbol
  <1> QED  BY <1>1, <1>2 DEF projectStates, removeImplicitTransitions, pruneUnreachableForward, pruneUnreachableBackward

LEMMA RealizedStates ==
    ASSUME NEW n, WellFormed(n), NEW stuck, NEW met, NEW early
    PROVE  realizeImplicitTrans(n, stuck, met, early).states \subseteq n.states \cup {stuck}
  <1> DEFINE all == n.states \cup {stuck}
             pairs == (IF met THEN all ELSE n.states) \X n.symbols
             into(T) == {Edge(x[1], x[2], stuck) : x \in {y \in pairs : ~Has(T, y)}}
             preds(x) == Called(n, x, IF x \in early THEN n.states ELSE all)
             returns == UNION {{Return(x[1], p, x[2], stuck) : p \in preds(x)} : x \in pairs}
             b == addCalls(n, into(n.calls))
             c == addInternals(b, into(n.internals))
             d == addReturns(c, returns)
  <1>1. \A x \in pairs : x[1] \in all /\ x[2] # EPSILON
    BY WellFormedParts
  <1>2. ASSUME NEW T PROVE Touched(into(T)) \subseteq all /\ Visible(into(T))
    BY <1>1, EdgeEnds DEF Touched, Visible
  <1>3. Touched(returns) \subseteq all /\ Visible(returns)
    <2>1. \A x \in pairs : preds(x) \subseteq all
      BY DEF Called
    <2>2. \A r \in returns : \E x \in pairs, p \in all : r = Return(x[1], p, x[2], stuck)
      <3> HIDE DEF all, pairs, preds
      <3> QED  BY <2>1
    <2>3. \A r \in returns : Ends(r) \subseteq all /\ r.sym # EPSILON
      <3> HIDE DEF returns, pairs
      <3> QED  BY <1>1, <2>2, ReturnEnds
    <2> HIDE DEF returns, all
    <2> QED  BY <2>3 DEF Touched, Visible
  <1>4. realizeImplicitTrans(n, stuck, met, early) = d
    BY DEF realizeImplicitTrans
  <1> HIDE DEF into, returns
  <1>5. Whole(n)
    BY DEF WellFormed, Whole
  <1>6. b.states = Reached(n, into(n.calls)) /\ Whole(b)
    BY <1>5, AddedStates
  <1> HIDE DEF b
  <1>7. c.states = Reached(b, into(n.internals)) /\ Whole(c)
    BY <1>6, AddedStates
  <1> HIDE DEF c
  <1>8. d.states = Reached(c, returns)
    BY <1>7, AddedStates
  <1> HIDE DEF d, all
  <1>9. n.states \subseteq all
    BY DEF all
  <1>10. d.states \subseteq all
    BY <1>2, <1>3, <1>6, <1>7, <1>8, <1>9 DEF Reached
  <1> QED  BY <1>4, <1>10 DEF all

LEMMA DuplicatedStates ==
    ASSUME NEW n, NEW orig, NEW dup
    PROVE  /\ duplicateState(n, orig, dup).states = n.states \cup {dup}
           /\ duplicateStateOutgoing(n, orig, dup).states = n.states \cup {dup}
  BY Fields DEF duplicateState, duplicateStateOutgoing, Duplicated

(* An edit brings in at most the fresh state, or the ends of a transition. *)
LEMMA EditReach ==
    ASSUME WellFormed(nwa), Keeping \/ Changing
    PROVE  \/ nwa'.states \subseteq nwa.states \cup {Fresh}
           \/ \E t \in Calls \cup Internals \cup Returns : nwa'.states = nwa.states \cup Ends(t)
  <1>1. CASE Duplicate
    <2>1. PICK q \in nwa.states : Edit(duplicateState(nwa, q, Fresh)) \/ Edit(duplicateStateOutgoing(nwa, q, Fresh))
      BY <1>1 DEF Duplicate
    <2>2. nwa'.states = nwa.states \cup {Fresh}
      BY <2>1, DuplicatedStates DEF Edit
    <2> QED  BY <2>2
  <1>2. CASE Realize
    <2>1. PICK met \in BOOLEAN, early \in EarlyPairs(nwa) : Edit(realizeImplicitTrans(nwa, Fresh, met, early))
      BY <1>2 DEF Realize
    <2>2. nwa'.states \subseteq nwa.states \cup {Fresh}
      BY <2>1, RealizedStates DEF Edit
    <2> QED  BY <2>2
  <1>3. CASE RemoveImplicit \/ Prune \/ RemoveState \/ RemoveSymbol
    <2>1. CASE RemoveImplicit
      BY <2>1, FewerStates DEF RemoveImplicit, Edit
    <2>2. CASE Prune
      <3>1. chop(nwa).states \subseteq nwa.states
        <4> DEFINE fwd == pruneUnreachableForward(nwa, nwa.initial)
        <4>1. fwd.states \subseteq nwa.states /\ pruneUnreachableBackward(fwd, fwd.final).states \subseteq fwd.states
          BY FewerStates
        <4> QED  BY <4>1 DEF chop
      <3>2. nwa'.states \subseteq nwa.states
        BY <2>2, <3>1, FewerStates DEF Prune, Edit
      <3> QED  BY <3>2
    <2>3. CASE RemoveState
      BY <2>3, FewerStates DEF RemoveState, Edit
    <2>4. CASE RemoveSymbol
      BY <2>4, FewerStates DEF RemoveSymbol, Edit
    <2> QED  BY <1>3, <2>1, <2>2, <2>3, <2>4
  <1>4. CASE AddTrans
    <2>1. PICK t \in Calls \cup Internals \cup Returns :
            Edit(addCalls(nwa, {t})) \/ Edit(addInternals(nwa, {t})) \/ Edit(addReturns(nwa, {t}))
      BY <1>4 DEF AddTrans
    <2>2. nwa'.states = nwa.states \cup Ends(t)
      BY <2>1, AddedReach DEF Edit
    <2> QED  BY <2>2
  <1>5. CASE RemoveTrans
    <2>1. ASSUME NEW t
          PROVE  /\ removeCall(nwa, t).states = nwa.states /\ removeInternal(nwa, t).states = nwa.states
                 /\ removeReturn(nwa, t).states = nwa.states
      BY TransRemovedStates DEF removeCall, removeInternal, removeReturn
    <2>2. ASSUME NEW e, NEW n \in removeReturnsOf(nwa, e) PROVE n.states = nwa.states
      <3>1. CASE n = nwa
        BY <3>1
      <3>2. CASE n # nwa
        <4>1. PICK t : n = [nwa EXCEPT !.returns = @ \ {t}]
          BY <2>2, <3>2 DEF removeReturnsOf
        <4>2. [nwa EXCEPT !.returns = @ \ {t}].states = nwa.states
          BY TransRemovedStates
        <4> QED  BY <4>1, <4>2
      <3> QED  BY <3>1, <3>2
    <2>3. nwa'.states = nwa.states
      BY <1>5, <2>1, <2>2 DEF RemoveTrans, Edit
    <2> QED  BY <2>3
  <1> QED  BY <1>1, <1>2, <1>3, <1>4, <1>5 DEF Keeping, Changing

LEMMA EditFinite ==
    ASSUME Finite(nwa), Keeping \/ Changing
    PROVE  IsFiniteSet(nwa'.states)
  <1>1. WellFormed(nwa) /\ IsFiniteSet(nwa.states)
    BY DEF Finite
  <1>2. CASE nwa'.states \subseteq nwa.states \cup {Fresh}
    <2>1. IsFiniteSet(nwa.states \cup {Fresh})
      BY <1>1, FS_AddElement
    <2> QED  BY <1>2, <2>1, FS_Subset
  <1>3. CASE \E t \in Calls \cup Internals \cup Returns : nwa'.states = nwa.states \cup Ends(t)
    BY <1>1, <1>3, EndsFinite, FS_Union
  <1> QED  BY <1>1, <1>2, <1>3, EditReach

(* The inductive invariant of the languages: the automata of the session   *)
(* are well formed and have finitely many states, and a result at hand is  *)
(* what the named construction makes of the two that are still there.      *)
ResultOf ==
    /\ op = "union" => out = unionNwa(nwa, arg)
    /\ op = "concat" => out = concat(nwa, arg)
    /\ op = "star" => out = star(nwa)
    /\ op = "reverse" => out = reverse(nwa)
    /\ op = "determinize" => out = determinize(nwa)
    /\ op = "complement" => out = complement(nwa)
    /\ op = "intersect" => out = intersect(nwa, arg)
    /\ op = "quotient" => out = quotient(nwa, {nwa.states})
    /\ op \in {"none", "union", "concat", "star", "reverse", "determinize", "complement", "intersect", "quotient"}
SessionInv == TypeOK /\ Finite(nwa) /\ Finite(arg) /\ ResultOf

LEMMA SessionStep ==
    ASSUME SessionInv, [Next]_vars
    PROVE  SessionInv'
  <1>1. TypeOK /\ Finite(nwa) /\ Finite(arg) /\ ResultOf
    BY DEF SessionInv
  <1>2. TypeOK'
    BY <1>1, NextTyped
  <1>3. CASE Keeping \/ Changing
    <2>1. op = "none" /\ op' = op /\ arg' = arg
      BY <1>3 DEF Keeping, Changing, Duplicate, Realize, RemoveImplicit, Prune, AddTrans, RemoveTrans,
                  RemoveState, RemoveSymbol, Edit
    <2>2. IsFiniteSet(nwa'.states)
      BY <1>1, <1>3, EditFinite
    <2>3. Finite(nwa)' /\ Finite(arg)'
      BY <1>1, <1>2, <2>1, <2>2 DEF Finite, TypeOK
    <2>4. ResultOf'
      BY <2>1 DEF ResultOf
    <2> QED  BY <1>2, <2>3, <2>4 DEF SessionInv
  <1>4. CASE Building \/ Drop \/ UNCHANGED vars
    <2>1. nwa' = nwa /\ arg' = arg
      BY <1>4 DEF Building, Union, Concat, Star, Reversal, Determinization, Complementation, Intersection, Quotient,
                  Construct, Drop, vars
    <2>2. Finite(nwa)' /\ Finite(arg)'
      BY <1>1, <2>1
    <2>3. ResultOf'
      <3>1. CASE Union
        BY <3>1 DEF Union, Construct, ResultOf
      <3>2. CASE Concat
        BY <3>2 DEF Concat, Construct, ResultOf
      <3>3. CASE Star
        BY <3>3 DEF Star, Construct, ResultOf
      <3>4. CASE Reversal
        BY <3>4 DEF Reversal, Construct, ResultOf
      <3>5. CASE Determinization
        BY <3>5 DEF Determinization, Construct, ResultOf
      <3>6. CASE Complementation
        BY <3>6 DEF Complementation, Construct, ResultOf
      <3>7. CASE Intersection
        BY <3>7 DEF Intersection, Construct, ResultOf
      <3>8. CASE Quotient
        BY <3>8 DEF Quotient, Construct, ResultOf
      <3>9. CASE Drop
        BY <3>9 DEF Drop, ResultOf
      <3>10. CASE UNCHANGED vars
        BY <1>1, <3>10 DEF vars, ResultOf
      <3> QED  BY <1>4, <3>1, <3>2, <3>3, <3>4, <3>5, <3>6, <3>7, <3>8, <3>9, <3>10 DEF Building
    <2> QED  BY <1>2, <2>2, <2>3 DEF SessionInv
  <1> QED  BY <1>3, <1>4 DEF Next, Building

LEMMA SessionAlways == Spec => []SessionInv
  <1>1. Init => SessionInv
    <2>1. Init => TypeOK
      BY SessionAssumption, NoNwaWellFormed DEF Init, TypeOK
    <2>2. Init => Finite(nwa) /\ Finite(arg) /\ ResultOf
      BY SessionAssumption DEF Init, Finite, ResultOf
    <2> QED  BY <2>1, <2>2 DEF SessionInv
  <1>2. SessionInv /\ [Next]_vars => SessionInv'
    BY SessionStep
  <1> QED  BY <1>1, <1>2, PTL DEF Spec

(* For all automata, words up to any length: what determinize returns is   *)
(* deterministic, has every word of the first over its alphabet, and no    *)
(* other that leaves no call open; what complement returns has none of     *)
(* them, and all the others that leave no call open.                       *)
THEOREM NwaDeterminized == Spec => []DeterminizesItsLanguage
  <1>1. SessionInv /\ Deterministic => DeterminizesItsLanguage
    <2> SUFFICES ASSUME SessionInv, Deterministic, op \in {"determinize", "complement"}
                 PROVE  Opposed(Over(Words(nwa), nwa.symbols), {w \in AllWords : isMemberNondet(out, w)})
      BY DEF DeterminizesItsLanguage
    <2>1. WellFormed(nwa) /\ IsFiniteSet(nwa.states) /\ ResultOf
      BY DEF SessionInv, Finite
    <2>2. CASE op = "determinize"
      <3>1. out = determinize(nwa)
        BY <2>1, <2>2 DEF ResultOf
      <3> QED  BY <2>1, <2>2, <3>1, DeterminizedLanguage DEF Opposed
    <2>3. CASE op = "complement"
      <3>1. out = complement(nwa)
        BY <2>1, <2>3 DEF ResultOf
      <3> QED  BY <2>1, <2>3, <3>1, ComplementedLanguage DEF Opposed
    <2> QED  BY <2>2, <2>3
  <1> QED  BY <1>1, SessionAlways, NwaDeterministic, PTL

(* A word read by n can be read by m too: h takes the states of n to those *)
(* of m.  A holds the states that runs of n stay in, and B the ones that   *)
(* a run in one of them has never been outside of; pend says whether a     *)
(* return may be read when no call is open.                                *)
Takes(h, X, Y) == h \in [X -> Y]
Map(h, s) == [i \in 1..Len(s) |-> h[s[i]]]
Alike(u, t, h) == u.from = h[t.from] /\ u.sym \in {t.sym, WILD}
OnTo(m, u, h, q) == h[q] \in epsilonClosure(m, u.to)
Backwards(n, B) ==
    \A t \in n.calls \cup n.internals \cup n.returns :
      \A q \in epsilonClosure(n, t.to) : q \in B => t.from \in B
CarriesStart(n, m, h, A, B) ==
    \A i \in n.initial : \A q \in epsilonClosure(n, i) :
      q \in B => q \in A /\ \E j \in m.initial : h[q] \in epsilonClosure(m, j)
CarriesEdges(n, m, h, A, B, T, U) ==
    \A t \in T : t.from \in A =>
      \A q \in epsilonClosure(n, t.to) :
        q \in B => q \in A /\ \E u \in U : Alike(u, t, h) /\ OnTo(m, u, h, q)
CarriesReturns(n, m, h, A, B) ==
    \A t \in n.returns : t.from \in A /\ t.pred \in A \cap B =>
      \A q \in epsilonClosure(n, t.to) :
        q \in B => q \in A /\ \E u \in m.returns : Alike(u, t, h) /\ u.pred = h[t.pred] /\ OnTo(m, u, h, q)
CarriesPending(n, m, h, A, B) ==
    \A t \in n.returns : t.from \in A /\ t.pred \in n.initial =>
      \A q \in epsilonClosure(n, t.to) :
        q \in B => q \in A /\ \E u \in m.returns : Alike(u, t, h) /\ u.pred \in m.initial /\ OnTo(m, u, h, q)
Carries(n, m, h, A, B, pend) ==
    /\ A \subseteq n.states /\ B \subseteq n.states /\ Takes(h, n.states, m.states)
    /\ Backwards(n, B)
    /\ CarriesStart(n, m, h, A, B)
    /\ CarriesEdges(n, m, h, A, B, n.calls, m.calls)
    /\ CarriesEdges(n, m, h, A, B, n.internals, m.internals)
    /\ CarriesReturns(n, m, h, A, B)
    /\ pend => CarriesPending(n, m, h, A, B)

LEMMA Mapped ==
    ASSUME NEW X, NEW Y, NEW h, Takes(h, X, Y), NEW s \in Seq(X)
    PROVE  /\ Map(h, s) \in Seq(Y) /\ Len(Map(h, s)) = Len(s)
           /\ Map(h, s) = <<>> <=> s = <<>>
           /\ \A p \in X : Map(h, Push(p, s)) = Push(h[p], Map(h, s))
  <1>1. Len(s) \in Nat /\ \A i \in 1..Len(s) : s[i] \in X
    OBVIOUS
  <1>2. Map(h, s) \in Seq(Y) /\ Len(Map(h, s)) = Len(s) /\ \A i \in 1..Len(s) : Map(h, s)[i] = h[s[i]]
    BY <1>1 DEF Map, Takes
  <1>3. ASSUME NEW p \in X PROVE Map(h, Push(p, s)) = Push(h[p], Map(h, s))
    <2> DEFINE u == Push(p, s)
               v == Map(h, s)
               b == h[p]
               z == Push(b, v)
               y == Map(h, u)
    <2>1. u \in Seq(X) /\ Len(u) = Len(s) + 1 /\ u[1] = p /\ \A i \in 1..Len(s) : u[i + 1] = s[i]
      BY Pushed
    <2>2. v \in Seq(Y) /\ Len(v) = Len(s) /\ \A i \in 1..Len(s) : v[i] = h[s[i]]
      BY <1>2
    <2>3. b \in Y
      BY DEF Takes
    <2> HIDE DEF u, v, b
    <2>4. z \in Seq(Y) /\ Len(z) = Len(v) + 1 /\ z[1] = b /\ \A i \in 1..Len(v) : z[i + 1] = v[i]
      BY <2>2, <2>3, Pushed, SMTT(30)
    <2>5. /\ y \in Seq(Y) /\ Len(y) = Len(u) /\ \A i \in 1..Len(u) : y[i] = h[u[i]]
      <3>1. Len(u) \in Nat /\ \A i \in 1..Len(u) : u[i] \in X
        BY <2>1
      <3> QED  BY <3>1 DEF Map, Takes
    <2> HIDE DEF z, y
    <2>7. ASSUME NEW i \in 1..Len(u) PROVE y[i] = z[i]
      <3>1. CASE i = 1
        BY <2>1, <2>4, <2>5, <3>1 DEF b
      <3>2. CASE i # 1
        <4> DEFINE j == i - 1
        <4>1. j \in 1..Len(s) /\ i = j + 1
          BY <1>1, <2>1, <3>2
        <4> HIDE DEF j
        <4>2. u[i] = s[j] /\ z[i] = v[j] /\ v[j] = h[s[j]]
          BY <2>1, <2>2, <2>4, <4>1
        <4> QED  BY <2>5, <4>2
      <3> QED  BY <3>1, <3>2
    <2>8. y = z
      BY <2>1, <2>2, <2>4, <2>5, <2>7, SeqEqual
    <2> QED  BY <2>8 DEF u, v, b, y, z
  <1> QED  BY <1>1, <1>2, <1>3

LEMMA MapNone ==
    ASSUME NEW X, NEW Y, NEW h, Takes(h, X, Y), NEW s \in Seq(X)
    PROVE  Map(h, s) \in Seq(Y) /\ (Map(h, s) = <<>> <=> s = <<>>)
  BY Mapped

LEMMA MapPush ==
    ASSUME NEW X, NEW Y, NEW h, Takes(h, X, Y), NEW s \in Seq(X), NEW p \in X
    PROVE  Map(h, Push(p, s)) = Push(h[p], Map(h, s))
  BY Mapped

Over2(s, X) == \A i \in 1..Len(s) : s[i] \in X

LEMMA CarryEdge ==
    ASSUME NEW n, NEW m, NEW h, NEW A, NEW B, NEW T, NEW U, CarriesEdges(n, m, h, A, B, T, U),
           NEW x, NEW t \in T, t.from \in A, t.sym \in {x, WILD}, NEW q \in epsilonClosure(n, t.to), q \in B
    PROVE  q \in A /\ \E u \in U : u.from = h[t.from] /\ u.sym \in {x, WILD} /\ h[q] \in epsilonClosure(m, u.to)
  BY DEF CarriesEdges, Alike, OnTo

(* The simulating automaton has a return for this one that pops what it popped. *)
ReturnCarried(m, h, t, x, s, q) ==
    \E u \in m.returns : /\ u.from = h[t.from] /\ u.sym \in {x, WILD} /\ Pops(m, u, Map(h, s))
                         /\ h[q] \in epsilonClosure(m, u.to)

LEMMA CarryReturn ==
    ASSUME NEW n, NEW m, NEW h, Takes(h, n.states, m.states), NEW A, NEW B, CarriesReturns(n, m, h, A, B),
           NEW s \in Seq(n.states), Over2(s, A \cap B), s # <<>> \/ CarriesPending(n, m, h, A, B),
           NEW x, NEW t \in n.returns, t.from \in A, t.sym \in {x, WILD}, Pops(n, t, s),
           NEW q \in epsilonClosure(n, t.to), q \in B
    PROVE  q \in A /\ ReturnCarried(m, h, t, x, s, q)
  <1>1. Map(h, s) = <<>> <=> s = <<>>
    BY MapNone
  <1>2. CASE s = <<>>
    <2>1. t.pred \in n.initial /\ CarriesPending(n, m, h, A, B)
      BY <1>2 DEF Pops
    <2>2. q \in A /\ \E u \in m.returns : Alike(u, t, h) /\ u.pred \in m.initial /\ OnTo(m, u, h, q)
      BY <2>1 DEF CarriesPending
    <2>3. PICK u \in m.returns : Alike(u, t, h) /\ u.pred \in m.initial /\ OnTo(m, u, h, q)
      BY <2>2
    <2>4. Pops(m, u, Map(h, s))
      BY <1>1, <1>2, <2>3 DEF Pops
    <2> QED  BY <2>2, <2>3, <2>4 DEF Alike, OnTo, ReturnCarried
  <1>3. CASE s # <<>>
    <2>1. /\ Head(s) \in n.states /\ Tail(s) \in Seq(n.states) /\ s = Push(Head(s), Tail(s)) /\ Head(s) = s[1]
          /\ Len(s) \in Nat /\ Len(s) > 0
      BY <1>3, Popped
    <2>2. t.pred = Head(s) /\ t.pred \in A \cap B
      BY <1>3, <2>1 DEF Pops, Over2
    <2>3. q \in A /\ \E u \in m.returns : Alike(u, t, h) /\ u.pred = h[t.pred] /\ OnTo(m, u, h, q)
      BY <2>2 DEF CarriesReturns
    <2>4. PICK u \in m.returns : Alike(u, t, h) /\ u.pred = h[t.pred] /\ OnTo(m, u, h, q)
      BY <2>3
    <2> DEFINE g == Head(s)
               r == Tail(s)
    <2>5. Map(h, s) = Push(h[g], Map(h, r)) /\ Map(h, r) \in Seq(m.states) /\ h[g] \in m.states
      <3>1. g \in n.states /\ r \in Seq(n.states) /\ s = Push(g, r)
        BY <2>1
      <3> HIDE DEF g, r
      <3>2. Map(h, s) = Push(h[g], Map(h, r))
        BY <3>1, MapPush
      <3>3. Map(h, r) \in Seq(m.states)
        BY <3>1, MapNone
      <3> QED  BY <3>1, <3>2, <3>3 DEF Takes
    <2> DEFINE v == Map(h, r)
               b == h[g]
    <2> HIDE DEF g, r
    <2>6. Head(Map(h, s)) = h[g]
      <3>1. v \in Seq(m.states) /\ b \in m.states /\ Map(h, s) = Push(b, v)
        BY <2>5
      <3> HIDE DEF v, b
      <3>2. Head(Push(b, v)) = b
        BY <3>1, PushedTop
      <3> QED  BY <3>1, <3>2 DEF b
    <2>7. Pops(m, u, Map(h, s))
      BY <1>1, <1>3, <2>2, <2>4, <2>6 DEF Pops, g
    <2> QED  BY <2>3, <2>4, <2>7 DEF Alike, OnTo, ReturnCarried
  <1> QED  BY <1>2, <1>3

LEMMA MapLeft ==
    ASSUME NEW X, NEW Y, NEW h, Takes(h, X, Y), NEW s \in Seq(X), NEW Z, Over2(s, Z)
    PROVE  Left(s) \in Seq(X) /\ Over2(Left(s), Z) /\ Map(h, Left(s)) = Left(Map(h, s))
  <1>1. Map(h, s) = <<>> <=> s = <<>>
    BY MapNone
  <1>2. CASE s = <<>>
    BY <1>1, <1>2 DEF Left
  <1>3. CASE s # <<>>
    <2> DEFINE g == Head(s)
               r == Tail(s)
    <2>1. /\ g \in X /\ r \in Seq(X) /\ s = Push(g, r) /\ Len(r) = Len(s) - 1 /\ Len(s) \in Nat
          /\ \A i \in 1..(Len(s) - 1) : r[i] = s[i + 1]
      BY <1>3, Popped
    <2>2. Left(s) = r
      BY <1>3 DEF Left
    <2> HIDE DEF g, r
    <2>3. Over2(r, Z)
      <3>1. \A i \in 1..Len(r) : i + 1 \in 1..Len(s) /\ r[i] = s[i + 1]
        BY <2>1
      <3> QED  BY <3>1 DEF Over2
    <2> DEFINE v == Map(h, r)
               b == h[g]
    <2>6. b \in Y
      BY <2>1 DEF Takes
    <2>7. v \in Seq(Y)
      BY <2>1, MapNone
    <2>8. Map(h, s) = Push(b, v)
      BY <2>1, MapPush
    <2>4. Map(h, s) = Push(b, v) /\ v \in Seq(Y) /\ b \in Y
      BY <2>6, <2>7, <2>8
    <2>5. Tail(Map(h, s)) = Map(h, r)
      <3> HIDE DEF v, b
      <3>1. Tail(Push(b, v)) = v
        BY <2>4, PushedTop
      <3> QED  BY <2>4, <3>1 DEF v
    <2>9. Left(Map(h, s)) = Map(h, r)
      BY <1>1, <1>3, <2>5 DEF Left
    <2> QED  BY <2>1, <2>2, <2>3, <2>9
  <1> QED  BY <1>2, <1>3

LEMMA PushOver ==
    ASSUME NEW X, NEW s \in Seq(X), NEW p \in X, NEW Z, Over2(s, Z), p \in Z
    PROVE  Over2(Push(p, s), Z)
  <1> DEFINE u == Push(p, s)
  <1>1. Len(u) = Len(s) + 1 /\ u[1] = p /\ \A i \in 1..Len(s) : u[i + 1] = s[i]
    BY Pushed
  <1>a. Len(s) \in Nat
    OBVIOUS
  <1> HIDE DEF u
  <1>2. ASSUME NEW i \in 1..Len(u) PROVE u[i] \in Z
    <2>1. CASE i = 1
      BY <1>1, <2>1
    <2>2. CASE i # 1
      <3> DEFINE j == i - 1
      <3>1. j \in 1..Len(s) /\ i = j + 1
        BY <1>1, <1>a, <2>2
      <3> HIDE DEF j
      <3> QED  BY <1>1, <3>1 DEF Over2
    <2> QED  BY <2>1, <2>2
  <1> QED  BY <1>2 DEF Over2, u

(* What a run of n does, one of m does with the states h leads to. *)
CarriedAt(n, m, h, A, B, w, k) ==
    \A p \in n.states : \A s \in Seq(n.states) :
      <<p, s>> \in Live(n, w, {WILD}, k) /\ p \in B =>
        p \in A /\ Over2(s, A \cap B) /\ <<h[p], Map(h, s)>> \in Live(m, w, {WILD}, k)

LEMMA CarriedFirst ==
    ASSUME NEW n, NEW m, NEW h, NEW A, NEW B, NEW pend, Carries(n, m, h, A, B, pend), NEW w \in Seq(Positions)
    PROVE  CarriedAt(n, m, h, A, B, w, 0)
  <1>0. Len(w) \in Nat
    BY WordTyped
  <1> SUFFICES ASSUME NEW p \in n.states, NEW s \in Seq(n.states), <<p, s>> \in Live(n, w, {WILD}, 0), p \in B
               PROVE  p \in A /\ Over2(s, A \cap B) /\ <<h[p], Map(h, s)>> \in Live(m, w, {WILD}, 0)
    BY DEF CarriedAt
  <1> DEFINE c == <<p, s>>
             e == <<h[p], Map(h, s)>>
  <1>1. PICK i \in n.initial : \E q \in epsilonClosure(n, i) : c = <<q, <<>>>>
    BY <1>0, LiveAtFirst
  <1>2. p \in epsilonClosure(n, i) /\ s = <<>>
    BY <1>1
  <1>3. p \in A /\ \E j \in m.initial : h[p] \in epsilonClosure(m, j)
    BY <1>2 DEF Carries, CarriesStart
  <1>4. Map(h, s) = <<>> /\ Over2(s, A \cap B)
    BY <1>2 DEF Map, Over2
  <1>5. e = <<h[p], <<>>>>
    BY <1>4
  <1>6. e \in Live(m, w, {WILD}, 0)
    <2> HIDE DEF e
    <2> QED  BY <1>0, <1>3, <1>5, LiveAtFirst
  <1> QED  BY <1>3, <1>4, <1>6

LEMMA CarriedNext ==
    ASSUME NEW n, WellFormed(n), IsFiniteSet(n.states), NEW m, NEW h, NEW A, NEW B, NEW pend,
           Carries(n, m, h, A, B, pend), NEW w \in Seq(Positions), pend \/ ~PendingReturn(w),
           NEW k \in 1..Len(w), CarriedAt(n, m, h, A, B, w, k - 1)
    PROVE  CarriedAt(n, m, h, A, B, w, k)
  <1> DEFINE x == w[k].sym
             kind == w[k].kind
             C == Live(n, w, {WILD}, k - 1)
             K == Live(m, w, {WILD}, k - 1)
  <1>0. kind \in Kinds /\ k - 1 \in 0..Len(w) /\ C \subseteq Confs(n) /\ Takes(h, n.states, m.states)
    BY WordTyped, LiveTyped DEF Carries
  <1> SUFFICES ASSUME NEW q \in n.states, NEW r \in Seq(n.states), <<q, r>> \in Live(n, w, {WILD}, k), q \in B
               PROVE  q \in A /\ Over2(r, A \cap B) /\ <<h[q], Map(h, r)>> \in Live(m, w, {WILD}, k)
    BY DEF CarriedAt
  <1> DEFINE e == <<q, r>>
             f == <<h[q], Map(h, r)>>
  <1>1. PICK c \in C : Moves(n, c, kind, {x} \cup {WILD}, e)
    BY LiveBack
  <1> DEFINE p == c[1]
             s == c[2]
             d == <<h[p], Map(h, s)>>
  <1>2. c = <<p, s>> /\ p \in n.states /\ s \in Seq(n.states)
    <2>1. c \in n.states \X Seq(n.states)
      BY <1>0 DEF Confs
    <2> QED  BY <2>1
  <1>3. {x} \cup {WILD} = {x, WILD}
    OBVIOUS
  <1>4. p \in B => p \in A /\ Over2(s, A \cap B) /\ d \in K
    BY <1>1, <1>2 DEF CarriedAt
  <1>5. ASSUME d \in K, Moves(m, d, kind, {x, WILD}, f) PROVE f \in Live(m, w, {WILD}, k)
    BY <1>3, <1>5, LiveOn
  <1>6. d[1] = h[p] /\ d[2] = Map(h, s)
    OBVIOUS
  <1>7. kind = "return" => pend \/ s # <<>>
    <2>1. ASSUME kind = "return", ~pend PROVE s # <<>>
      <3>1. Opens(w)[k - 1] # 0
        BY <2>1, LenProperties DEF PendingReturn
      <3>2. Len(c[2]) = Opens(w)[k - 1]
        BY <1>0, <1>1, LiveDepth
      <3> QED  BY <3>1, <3>2
    <2> QED  BY <2>1
  <1>8. Moves(n, c, kind, {x, WILD}, e)
    BY <1>1, <1>3
  <1> HIDE DEF x, kind, C, K, p, s, d, f
  <1>9. CASE kind = "call"
    <2>1. PICK t \in n.calls : t.from = p /\ t.sym \in {x, WILD} /\ \E y \in epsilonClosure(n, t.to) : e = <<y, Push(p, s)>>
      BY <1>8, <1>9 DEF Moves, p, s
    <2>2. q \in epsilonClosure(n, t.to) /\ r = Push(p, s)
      BY <2>1
    <2>3. p \in B
      BY <2>1, <2>2 DEF Carries, Backwards
    <2>4. p \in A /\ Over2(s, A \cap B) /\ d \in K
      BY <1>4, <2>3
    <2>5. CarriesEdges(n, m, h, A, B, n.calls, m.calls)
      BY DEF Carries
    <2>6. q \in A /\ \E u \in m.calls : u.from = h[t.from] /\ u.sym \in {x, WILD} /\ h[q] \in epsilonClosure(m, u.to)
      BY <2>1, <2>2, <2>4, <2>5, CarryEdge, SMTT(30)
    <2>7. f = <<h[q], Push(d[1], d[2])>>
      <3>1. Map(h, Push(p, s)) = Push(h[p], Map(h, s))
        BY <1>0, <1>2, MapPush
      <3> QED  BY <1>6, <2>2, <3>1 DEF f
    <2>8. Moves(m, d, kind, {x, WILD}, f)
      BY <1>6, <1>9, <2>1, <2>6, <2>7 DEF Moves
    <2>9. Over2(r, A \cap B)
      BY <1>2, <2>2, <2>3, <2>4, PushOver
    <2> QED  BY <1>5, <2>4, <2>6, <2>8, <2>9 DEF f
  <1>10. CASE kind = "internal"
    <2>1. PICK t \in n.internals : t.from = p /\ t.sym \in {x, WILD} /\ \E y \in epsilonClosure(n, t.to) : e = <<y, s>>
      BY <1>8, <1>10 DEF Moves, p, s
    <2>2. q \in epsilonClosure(n, t.to) /\ r = s
      BY <2>1
    <2>3. p \in B
      BY <2>1, <2>2 DEF Carries, Backwards
    <2>4. p \in A /\ Over2(s, A \cap B) /\ d \in K
      BY <1>4, <2>3
    <2>5. CarriesEdges(n, m, h, A, B, n.internals, m.internals)
      BY DEF Carries
    <2>6. q \in A /\ \E u \in m.internals : u.from = h[t.from] /\ u.sym \in {x, WILD} /\ h[q] \in epsilonClosure(m, u.to)
      BY <2>1, <2>2, <2>4, <2>5, CarryEdge, SMTT(30)
    <2>7. f = <<h[q], d[2]>>
      BY <1>6, <2>2 DEF f
    <2>8. Moves(m, d, kind, {x, WILD}, f)
      BY <1>6, <1>10, <2>1, <2>6, <2>7 DEF Moves
    <2> QED  BY <1>5, <2>2, <2>4, <2>6, <2>8 DEF f
  <1>11. CASE kind = "return"
    <2>1. PICK t \in n.returns : t.from = p /\ t.sym \in {x, WILD} /\ Pops(n, t, s)
                                 /\ \E y \in epsilonClosure(n, t.to) : e = <<y, Left(s)>>
      BY <1>8, <1>11 DEF Moves, p, s
    <2>2. q \in epsilonClosure(n, t.to) /\ r = Left(s)
      BY <2>1
    <2>3. p \in B
      BY <2>1, <2>2 DEF Carries, Backwards
    <2>4. p \in A /\ Over2(s, A \cap B) /\ d \in K
      BY <1>4, <2>3
    <2>5. CarriesReturns(n, m, h, A, B) /\ (pend => CarriesPending(n, m, h, A, B))
      BY DEF Carries
    <2>6. q \in A /\ ReturnCarried(m, h, t, x, s, q)
      <3>1. t.from \in A /\ (s # <<>> \/ CarriesPending(n, m, h, A, B)) /\ Takes(h, n.states, m.states)
        BY <1>0, <1>7, <1>11, <2>1, <2>4, <2>5
      <3>2. t \in n.returns /\ t.sym \in {x, WILD} /\ Pops(n, t, s) /\ q \in epsilonClosure(n, t.to)
        BY <2>1, <2>2
      <3>3. CarriesReturns(n, m, h, A, B) /\ Over2(s, A \cap B) /\ s \in Seq(n.states)
        BY <1>2, <2>4, <2>5
      <3> QED  BY <3>1, <3>2, <3>3, CarryReturn
    <2>7. Over2(Left(s), A \cap B) /\ Map(h, Left(s)) = Left(Map(h, s))
      BY <1>0, <1>2, <2>4, MapLeft
    <2>8. f = <<h[q], Left(d[2])>>
      BY <1>6, <2>2, <2>7 DEF f
    <2>9. Moves(m, d, kind, {x, WILD}, f)
      BY <1>6, <1>11, <2>1, <2>6, <2>8 DEF Moves, ReturnCarried
    <2> QED  BY <1>5, <2>2, <2>4, <2>6, <2>7, <2>9 DEF f
  <1> QED  BY <1>0, <1>9, <1>10, <1>11 DEF Kinds

LEMMA Carried ==
    ASSUME NEW n, WellFormed(n), IsFiniteSet(n.states), NEW m, NEW h, NEW A, NEW B, NEW pend,
           Carries(n, m, h, A, B, pend), NEW w \in Seq(Positions), pend \/ ~PendingReturn(w)
    PROVE  /\ CarriedAt(n, m, h, A, B, w, Len(w))
           /\ (\A q \in A \cap B : q \in n.final => h[q] \in m.final) /\ n.final \subseteq B
                /\ Accepts(n, w, {WILD}) => Accepts(m, w, {WILD})
  <1> DEFINE T == {k \in Nat : CarriedAt(n, m, h, A, B, w, k)}
  <1>0. Len(w) \in Nat
    BY WordTyped
  <1>1. 0 \in T
    BY CarriedFirst
  <1>2. ASSUME NEW k \in 1..Len(w), k - 1 \in T PROVE k \in T
    BY <1>0, <1>2, CarriedNext
  <1>3. CarriedAt(n, m, h, A, B, w, Len(w))
    <2> HIDE DEF T
    <2>1. 0..Len(w) \subseteq T
      BY <1>0, <1>1, <1>2, UpTo
    <2> QED  BY <1>0, <2>1 DEF T
  <1>4. ASSUME \A q \in A \cap B : q \in n.final => h[q] \in m.final, n.final \subseteq B, Accepts(n, w, {WILD})
        PROVE  Accepts(m, w, {WILD})
    <2>1. PICK c \in Live(n, w, {WILD}, Len(w)) : c[1] \in n.final
      BY <1>4, AcceptsLive
    <2> DEFINE p == c[1]
               s == c[2]
    <2>2. c = <<p, s>> /\ p \in n.states /\ s \in Seq(n.states) /\ p \in B
      BY <1>0, <1>4, <2>1, LiveTyped DEF Confs
    <2>3. p \in A /\ <<h[p], Map(h, s)>> \in Live(m, w, {WILD}, Len(w))
      BY <1>3, <2>1, <2>2 DEF CarriedAt
    <2>4. h[p] \in m.final
      BY <1>4, <2>1, <2>2, <2>3
    <2> DEFINE d == <<h[p], Map(h, s)>>
    <2>5. d \in Live(m, w, {WILD}, Len(w)) /\ d[1] \in m.final
      BY <2>3, <2>4
    <2> HIDE DEF d
    <2> QED  BY <2>5, AcceptsLive
  <1> QED  BY <1>3, <1>4

(* A map of the states that takes every transition to one, keeps the words. *)
EdgesOnto(T, U, h) == \A t \in T : \E u \in U : u.from = h[t.from] /\ u.sym = t.sym /\ u.to = h[t.to]
ReturnsOnto(n, m, h) ==
    \A t \in n.returns : t.pred \in n.states =>
      \E u \in m.returns : u.from = h[t.from] /\ u.pred = h[t.pred] /\ u.sym = t.sym /\ u.to = h[t.to]
Onto(n, m, h) ==
    /\ Takes(h, n.states, m.states)
    /\ \A q \in n.initial : h[q] \in m.initial
    /\ \A q \in n.final : h[q] \in m.final
    /\ EdgesOnto(n.calls, m.calls, h) /\ EdgesOnto(n.internals, m.internals, h)
    /\ ReturnsOnto(n, m, h)

LEMMA TransEnds ==
    ASSUME NEW n, WellFormed(n)
    PROVE  /\ \A t \in n.calls \cup n.internals \cup n.returns : t.from \in n.states /\ t.to \in n.states
           /\ \A t \in n.returns : "pred" \in DOMAIN t => t.pred \in n.states
           /\ n.initial \subseteq n.states /\ n.final \subseteq n.states
  <1>1. \A t \in n.calls \cup n.internals \cup n.returns : Ends(t) \subseteq n.states
    BY DEF WellFormed, Within
  <1>2. n.initial \subseteq n.states /\ n.final \subseteq n.states
    BY DEF WellFormed
  <1> QED  BY <1>1, <1>2 DEF Ends

LEMMA ClosureOnto ==
    ASSUME NEW n, NEW m, Finite(n), Finite(m), NEW h, Takes(h, n.states, m.states),
           EdgesOnto(n.internals, m.internals, h), NEW q \in n.states, NEW y \in epsilonClosure(n, q)
    PROVE  y \in n.states /\ h[y] \in epsilonClosure(m, h[q])
  <1> DEFINE E == epsilonClosure(m, h[q])
             Z == {z \in n.states : h[z] \in E}
  <1>1. h[q] \in m.states
    BY DEF Takes
  <1>2. h[q] \in E /\ EpsClosed(m, E)
    BY <1>1, ClosureFacts DEF Finite
  <1> HIDE DEF E
  <1>3. q \in Z
    BY <1>2
  <1>4. EpsClosed(n, Z)
    <2>1. ASSUME NEW t \in n.internals, t.from \in Z, t.sym = EPSILON PROVE t.to \in Z
      <3>1. PICK u \in m.internals : u.from = h[t.from] /\ u.sym = t.sym /\ u.to = h[t.to]
        BY DEF EdgesOnto
      <3>2. h[t.to] \in E
        BY <1>2, <2>1, <3>1 DEF EpsClosed
      <3>3. t.to \in n.states
        BY TransEnds DEF Finite
      <3> QED  BY <3>2, <3>3
    <2> QED  BY <2>1 DEF EpsClosed
  <1> HIDE DEF Z
  <1>5. epsilonClosure(n, q) \subseteq Z
    BY <1>3, <1>4, ClosureFacts DEF Finite
  <1> QED  BY <1>5 DEF Z, E

LEMMA OntoCarries ==
    ASSUME NEW n, NEW m, Finite(n), Finite(m), NEW h, Onto(n, m, h)
    PROVE  Carries(n, m, h, n.states, n.states, TRUE)
  <1> DEFINE Q == n.states
  <1>0. WellFormed(n) /\ WellFormed(m) /\ Takes(h, Q, m.states) /\ n.initial \subseteq Q
        /\ \A t \in n.calls \cup n.internals \cup n.returns : t.from \in Q /\ t.to \in Q
    BY TransEnds DEF Finite, Onto
  <1>1. ASSUME NEW q \in Q, NEW y \in epsilonClosure(n, q) PROVE y \in Q /\ h[y] \in epsilonClosure(m, h[q])
    BY ClosureOnto DEF Onto
  <1> HIDE DEF Q
  <1>2. Backwards(n, Q)
    BY <1>0 DEF Backwards
  <1>3. CarriesStart(n, m, h, Q, Q)
    BY <1>0, <1>1 DEF CarriesStart, Onto
  <1>4. ASSUME NEW T, NEW U, T \subseteq n.calls \/ T \subseteq n.internals, EdgesOnto(T, U, h)
        PROVE  CarriesEdges(n, m, h, Q, Q, T, U)
    BY <1>0, <1>1, <1>4 DEF EdgesOnto, CarriesEdges, Alike, OnTo
  <1>5. CarriesEdges(n, m, h, Q, Q, n.calls, m.calls) /\ CarriesEdges(n, m, h, Q, Q, n.internals, m.internals)
    BY <1>4 DEF Onto
  <1>6. CarriesReturns(n, m, h, Q, Q)
    BY <1>0, <1>1 DEF Onto, ReturnsOnto, CarriesReturns, Alike, OnTo, Q
  <1>7. CarriesPending(n, m, h, Q, Q)
    BY <1>0, <1>1 DEF Onto, ReturnsOnto, CarriesPending, Alike, OnTo, Q
  <1> QED  BY <1>0, <1>2, <1>3, <1>5, <1>6, <1>7 DEF Carries, Q

LEMMA OntoWords ==
    ASSUME NEW n, NEW m, Finite(n), Finite(m), NEW h, Onto(n, m, h)
    PROVE  Words(n) \subseteq Words(m)
  <1>1. Carries(n, m, h, n.states, n.states, TRUE)
    BY OntoCarries
  <1>2. \A q \in n.states \cap n.states : q \in n.final => h[q] \in m.final
    BY DEF Onto
  <1>3. n.final \subseteq n.states
    BY TransEnds DEF Finite
  <1>4. ASSUME NEW w \in Words(n) PROVE w \in Words(m)
    <2>1. w \in AllWords /\ Accepts(n, w, {WILD})
      BY WordsAre
    <2>2. w \in Seq(Positions)
      BY <2>1, AllWordsAre
    <2>3. WellFormed(n) /\ IsFiniteSet(n.states)
      BY DEF Finite
    <2>4. Accepts(m, w, {WILD})
      BY <1>1, <1>2, <1>3, <2>1, <2>2, <2>3, Carried, ZenonT(60)
    <2> QED  BY <2>1, <2>4, WordsAre
  <1> QED  BY <1>4

(* The part of an automaton on some of its states. *)
PartOf(p, n, K) ==
    /\ p.states = K /\ p.initial = n.initial \cap K /\ p.final = n.final \cap K
    /\ p.calls = {t \in n.calls : Ends(t) \subseteq K}
    /\ p.internals = {t \in n.internals : Ends(t) \subseteq K}
    /\ p.returns = {t \in n.returns : Ends(t) \subseteq K}
SameStates(Q) == [q \in Q |-> q]

LEMMA ProjectedPart ==
    ASSUME NEW n, Finite(n), NEW K \in SUBSET n.states
    PROVE  PartOf(projectStates(n, K), n, K) /\ Finite(projectStates(n, K))
  <1> DEFINE Q == n.states \ K
             p == removeStates(n, Q)
             without(T) == {t \in T : Ends(t) \cap Q = {}}
  <1>1. p.states = n.states \ Q /\ p.initial = n.initial \ Q /\ p.final = n.final \ Q
        /\ p.calls = without(n.calls) /\ p.internals = without(n.internals) /\ p.returns = without(n.returns)
    BY Fields DEF removeStates
  <1>2. n.states \ Q = K
    OBVIOUS
  <1>3. \A t \in n.calls \cup n.internals \cup n.returns : Ends(t) \subseteq n.states
    BY DEF Finite, WellFormed, Within
  <1>4. n.initial \subseteq n.states /\ n.final \subseteq n.states
    BY DEF Finite, WellFormed
  <1>5. n.initial \ Q = n.initial \cap K /\ n.final \ Q = n.final \cap K
    BY <1>4
  <1>6. ASSUME NEW T, T \subseteq n.calls \cup n.internals \cup n.returns
        PROVE  without(T) = {t \in T : Ends(t) \subseteq K}
    BY <1>3, <1>6
  <1>7. WellFormed(p) /\ IsFiniteSet(p.states)
    <2>1. WellFormed(p)
      BY StatesRemoved DEF Finite
    <2>2. p.states \subseteq n.states
      BY <1>1, <1>2
    <2> QED  BY <2>1, <2>2, FS_Subset DEF Finite
  <1> HIDE DEF without, p
  <1>8. PartOf(p, n, K)
    BY <1>1, <1>2, <1>5, <1>6 DEF PartOf
  <1> QED  BY <1>7, <1>8 DEF Finite, p, Q, projectStates

LEMMA PartOnto ==
    ASSUME NEW n, NEW p, Finite(n), NEW K \in SUBSET n.states, PartOf(p, n, K)
    PROVE  Onto(p, n, SameStates(p.states))
  <1> DEFINE h == SameStates(p.states)
  <1>1. Takes(h, p.states, n.states) /\ \A q \in p.states : h[q] = q
    BY DEF Takes, SameStates, PartOf
  <1>2. \A t \in p.calls \cup p.internals \cup p.returns : t.from \in p.states /\ t.to \in p.states
    BY DEF PartOf, Ends
  <1>3. /\ p.calls \subseteq n.calls /\ p.internals \subseteq n.internals /\ p.returns \subseteq n.returns
        /\ p.initial \subseteq n.initial \cap p.states /\ p.final \subseteq n.final \cap p.states
    BY DEF PartOf
  <1> HIDE DEF h
  <1>4. EdgesOnto(p.calls, n.calls, h) /\ EdgesOnto(p.internals, n.internals, h)
    BY <1>1, <1>2, <1>3 DEF EdgesOnto
  <1>5. ReturnsOnto(p, n, h)
    BY <1>1, <1>2, <1>3 DEF ReturnsOnto
  <1> QED  BY <1>1, <1>3, <1>4, <1>5 DEF Onto, h

LEMMA PartWords ==
    ASSUME NEW n, NEW p, Finite(n), Finite(p), NEW K \in SUBSET n.states, PartOf(p, n, K)
    PROVE  Words(p) \subseteq Words(n)
  BY PartOnto, OntoWords

(* States no transition leaves, or none enters from outside. *)
Sound(n) == Finite(n) /\ Shaped(n)
ForwardClosed(n, K) ==
    /\ n.initial \subseteq K
    /\ \A t \in n.calls \cup n.internals : t.from \in K => t.to \in K
    /\ \A t \in n.returns : t.from \in K /\ t.pred \in K => t.to \in K
BackwardClosed(n, K) == \A t \in n.calls \cup n.internals \cup n.returns : t.to \in K => t.from \in K
PredClosed(n, K) == \A t \in n.returns : t.to \in K => t.pred \in K

LEMMA ShapedEnds ==
    ASSUME NEW n, Shaped(n)
    PROVE  /\ \A t \in n.calls \cup n.internals : Ends(t) = {t.from, t.to}
           /\ \A t \in n.returns : Ends(t) = {t.from, t.pred, t.to}
  <1>1. \A q, s, p : Ends(Edge(q, s, p)) = {q, p}
    BY DEF Ends, Edge
  <1>2. \A q, g, s, p : Ends(Return(q, g, s, p)) = {q, g, p}
    BY DEF Ends, Return
  <1>3. ASSUME NEW t \in n.calls \cup n.internals PROVE Ends(t) = {t.from, t.to}
    <2>1. t = Edge(t.from, t.sym, t.to)
      BY DEF Shaped
    <2> QED  BY <1>1, <2>1
  <1>4. ASSUME NEW t \in n.returns PROVE Ends(t) = {t.from, t.pred, t.to}
    <2>1. t = Return(t.from, t.pred, t.sym, t.to)
      BY DEF Shaped
    <2> QED  BY <1>2, <2>1
  <1> QED  BY <1>3, <1>4

LEMMA PartTrans ==
    ASSUME NEW n, NEW p, Sound(n), NEW K, PartOf(p, n, K)
    PROVE  /\ \A t : t \in p.calls <=> t \in n.calls /\ t.from \in K /\ t.to \in K
           /\ \A t : t \in p.internals <=> t \in n.internals /\ t.from \in K /\ t.to \in K
           /\ \A t : t \in p.returns <=> t \in n.returns /\ t.from \in K /\ t.pred \in K /\ t.to \in K
  BY ShapedEnds DEF PartOf, Sound

LEMMA ClosureForward ==
    ASSUME NEW n, NEW p, Sound(n), Finite(p), NEW K \in SUBSET n.states, PartOf(p, n, K), ForwardClosed(n, K),
           NEW q \in K, NEW y \in epsilonClosure(n, q)
    PROVE  y \in K /\ y \in epsilonClosure(p, q)
  <1> DEFINE E == epsilonClosure(p, q)
  <1>1. q \in E /\ E \subseteq K /\ EpsClosed(p, E)
    <2>1. q \in p.states /\ p.states = K
      BY DEF PartOf
    <2> QED  BY <2>1, ClosureFacts DEF Finite
  <1> HIDE DEF E
  <1>2. EpsClosed(n, E)
    <2>1. ASSUME NEW t \in n.internals, t.from \in E, t.sym = EPSILON PROVE t.to \in E
      <3>1. t.from \in K /\ t.to \in K
        BY <1>1, <2>1 DEF ForwardClosed
      <3>2. t \in p.internals
        BY <3>1, PartTrans
      <3> QED  BY <1>1, <2>1, <3>2 DEF EpsClosed
    <2> QED  BY <2>1 DEF EpsClosed
  <1> QED  BY <1>1, <1>2, ClosureFacts DEF Sound, Finite, E

LEMMA ClosureBackward ==
    ASSUME NEW n, NEW p, Sound(n), Finite(p), NEW K \in SUBSET n.states, PartOf(p, n, K), BackwardClosed(n, K),
           NEW q \in n.states, NEW y \in epsilonClosure(n, q), y \in K
    PROVE  q \in K /\ y \in epsilonClosure(p, q)
  <1>0. WellFormed(n) /\ IsFiniteSet(n.states) /\ WellFormed(p) /\ IsFiniteSet(p.states) /\ p.states = K
    BY DEF Sound, Finite, PartOf
  <1>1. q \in K
    <2> DEFINE Z == n.states \ K
    <2>1. EpsClosed(n, Z)
      BY <1>0, TransEnds DEF EpsClosed, BackwardClosed
    <2> HIDE DEF Z
    <2>2. q \in Z => epsilonClosure(n, q) \subseteq Z
      BY <1>0, <2>1, ClosureFacts
    <2> QED  BY <2>2 DEF Z
  <1> DEFINE E == epsilonClosure(p, q)
             Z == E \cup (n.states \ K)
  <1>2. q \in E /\ E \subseteq K /\ EpsClosed(p, E)
    BY <1>0, <1>1, ClosureFacts
  <1> HIDE DEF E
  <1>3. EpsClosed(n, Z)
    <2>1. ASSUME NEW t \in n.internals, t.from \in Z, t.sym = EPSILON, t.to \in K PROVE t.to \in Z
      <3>1. t.from \in K
        BY <2>1 DEF BackwardClosed
      <3>2. t \in p.internals /\ t.from \in E
        BY <2>1, <3>1, PartTrans
      <3> QED  BY <1>2, <2>1, <3>2 DEF EpsClosed
    <2>2. \A t \in n.internals : t.to \in n.states
      BY <1>0, TransEnds
    <2> QED  BY <2>1, <2>2 DEF EpsClosed
  <1>4. q \in Z
    BY <1>2
  <1> HIDE DEF Z
  <1>5. epsilonClosure(n, q) \subseteq Z
    BY <1>0, <1>3, <1>4, ClosureFacts
  <1> QED  BY <1>1, <1>5 DEF Z, E

LEMMA Same == ASSUME NEW Q, NEW X, Q \subseteq X
              PROVE  Takes(SameStates(Q), Q, X) /\ \A q \in Q : SameStates(Q)[q] = q
  BY DEF Takes, SameStates

(* What is never left need not be looked out of. *)
LEMMA ForwardCarries ==
    ASSUME NEW n, NEW p, Sound(n), Finite(p), NEW K \in SUBSET n.states, PartOf(p, n, K), ForwardClosed(n, K),
           NEW h, h \in [n.states -> K], \A q \in K : h[q] = q
    PROVE  Carries(n, p, h, K, n.states, TRUE)
  <1> DEFINE Q == n.states
  <1>0. /\ \A t \in n.calls \cup n.internals \cup n.returns : t.from \in Q /\ t.to \in Q
        /\ Takes(h, Q, p.states) /\ K \subseteq Q
    BY TransEnds DEF Sound, Finite, Takes, PartOf
  <1>1. ASSUME NEW q \in K, NEW y \in epsilonClosure(n, q)
        PROVE  y \in K /\ y \in epsilonClosure(p, q) /\ h[y] = y /\ h[q] = q
    BY ClosureForward
  <1>2. p.initial = n.initial /\ n.initial \subseteq K
    BY DEF PartOf, ForwardClosed
  <1> HIDE DEF Q
  <1>3. Backwards(n, Q)
    BY <1>0 DEF Backwards
  <1>4. CarriesStart(n, p, h, K, Q)
    BY <1>1, <1>2 DEF CarriesStart
  <1>5. CarriesEdges(n, p, h, K, Q, n.calls, p.calls)
    <2> SUFFICES ASSUME NEW t \in n.calls, t.from \in K, NEW q \in epsilonClosure(n, t.to)
                 PROVE  q \in K /\ \E u \in p.calls : Alike(u, t, h) /\ OnTo(p, u, h, q)
      BY DEF CarriesEdges
    <2>1. t.to \in K /\ h[t.from] = t.from
      BY DEF ForwardClosed
    <2>2. t \in p.calls
      BY <2>1, PartTrans
    <2> QED  BY <1>1, <2>1, <2>2 DEF Alike, OnTo
  <1>6. CarriesEdges(n, p, h, K, Q, n.internals, p.internals)
    <2> SUFFICES ASSUME NEW t \in n.internals, t.from \in K, NEW q \in epsilonClosure(n, t.to)
                 PROVE  q \in K /\ \E u \in p.internals : Alike(u, t, h) /\ OnTo(p, u, h, q)
      BY DEF CarriesEdges
    <2>1. t.to \in K /\ h[t.from] = t.from
      BY DEF ForwardClosed
    <2>2. t \in p.internals
      BY <2>1, PartTrans
    <2> QED  BY <1>1, <2>1, <2>2 DEF Alike, OnTo
  <1>7. ASSUME NEW t \in n.returns, t.from \in K, t.pred \in K, NEW q \in epsilonClosure(n, t.to)
        PROVE  q \in K /\ t \in p.returns /\ Alike(t, t, h) /\ OnTo(p, t, h, q) /\ h[t.pred] = t.pred
    <2>1. t.to \in K /\ h[t.from] = t.from /\ h[t.pred] = t.pred
      BY <1>7 DEF ForwardClosed
    <2>2. t \in p.returns
      BY <1>7, <2>1, PartTrans
    <2> QED  BY <1>1, <2>1, <2>2 DEF Alike, OnTo
  <1>8. CarriesReturns(n, p, h, K, Q)
    BY <1>7 DEF CarriesReturns
  <1>9. CarriesPending(n, p, h, K, Q)
    BY <1>2, <1>7 DEF CarriesPending
  <1> QED  BY <1>0, <1>3, <1>4, <1>5, <1>6, <1>8, <1>9 DEF Carries, Q

LEMMA BackwardCarries ==
    ASSUME NEW n, NEW p, Sound(n), Finite(p), NEW K \in SUBSET n.states, PartOf(p, n, K), BackwardClosed(n, K),
           NEW h, h \in [n.states -> K], \A q \in K : h[q] = q, NEW pend, pend => PredClosed(n, K)
    PROVE  Carries(n, p, h, n.states, K, pend)
  <1> DEFINE Q == n.states
  <1>0. /\ \A t \in n.calls \cup n.internals \cup n.returns : t.from \in Q /\ t.to \in Q
        /\ Takes(h, Q, p.states) /\ K \subseteq Q /\ n.initial \subseteq Q
    BY TransEnds DEF Sound, Finite, Takes, PartOf
  <1>1. ASSUME NEW q \in Q, NEW y \in epsilonClosure(n, q), y \in K
        PROVE  q \in K /\ y \in epsilonClosure(p, q) /\ h[y] = y /\ h[q] = q /\ y \in Q
    BY <1>1, ClosureBackward
  <1>2. p.initial = n.initial \cap K
    BY DEF PartOf
  <1> HIDE DEF Q
  <1>3. Backwards(n, K)
    BY <1>0, <1>1 DEF Backwards, BackwardClosed
  <1>4. CarriesStart(n, p, h, Q, K)
    BY <1>0, <1>1, <1>2 DEF CarriesStart
  <1>5. ASSUME NEW t \in n.calls \cup n.internals \cup n.returns, NEW q \in epsilonClosure(n, t.to), q \in K
        PROVE  q \in Q /\ t.to \in K /\ t.from \in K /\ Alike(t, t, h) /\ OnTo(p, t, h, q)
    <2>1. t.to \in K /\ q \in epsilonClosure(p, t.to) /\ h[q] = q /\ h[t.to] = t.to /\ q \in Q
      BY <1>0, <1>1, <1>5
    <2>2. t.from \in K
      BY <2>1 DEF BackwardClosed
    <2> QED  BY <2>1, <2>2 DEF Alike, OnTo
  <1>6. CarriesEdges(n, p, h, Q, K, n.calls, p.calls)
    BY <1>5, PartTrans DEF CarriesEdges
  <1>7. CarriesEdges(n, p, h, Q, K, n.internals, p.internals)
    BY <1>5, PartTrans DEF CarriesEdges
  <1>8. CarriesReturns(n, p, h, Q, K)
    <2> SUFFICES ASSUME NEW t \in n.returns, t.pred \in K, NEW q \in epsilonClosure(n, t.to), q \in K
                 PROVE  q \in Q /\ \E u \in p.returns : Alike(u, t, h) /\ u.pred = h[t.pred] /\ OnTo(p, u, h, q)
      BY DEF CarriesReturns
    <2> QED  BY <1>5, PartTrans
  <1>9. ASSUME pend PROVE CarriesPending(n, p, h, Q, K)
    <2> SUFFICES ASSUME NEW t \in n.returns, t.pred \in n.initial, NEW q \in epsilonClosure(n, t.to), q \in K
                 PROVE  q \in Q /\ \E u \in p.returns : Alike(u, t, h) /\ u.pred \in p.initial /\ OnTo(p, u, h, q)
      BY DEF CarriesPending
    <2>1. t.pred \in K
      BY <1>5, <1>9 DEF PredClosed
    <2> QED  BY <1>2, <1>5, <2>1, PartTrans
  <1> QED  BY <1>0, <1>3, <1>4, <1>6, <1>7, <1>8, <1>9 DEF Carries, Q

LEMMA NoStart ==
    ASSUME NEW n, Finite(n), n.initial = {}, NEW w \in Seq(Positions)
    PROVE  ~Accepts(n, w, {WILD})
  <1> DEFINE T == {k \in Nat : Live(n, w, {WILD}, k) = {}}
  <1>0. Len(w) \in Nat
    BY WordTyped
  <1>1. 0 \in T
    BY <1>0, LiveAtFirst
  <1>2. ASSUME NEW k \in 1..Len(w), k - 1 \in T PROVE k \in T
    <2>1. ASSUME NEW e \in Live(n, w, {WILD}, k) PROVE FALSE
      <3>1. PICK c \in Live(n, w, {WILD}, k - 1) : Moves(n, c, w[k].kind, {w[k].sym} \cup {WILD}, e)
        BY LiveBack
      <3> QED  BY <1>2, <3>1
    <2>2. k \in Nat
      BY <1>0
    <2> QED  BY <2>1, <2>2
  <1>3. Len(w) \in T
    <2> HIDE DEF T
    <2>1. 0..Len(w) \subseteq T
      BY <1>0, <1>1, <1>2, UpTo
    <2> QED  BY <1>0, <2>1
  <1> QED  BY <1>3, AcceptsLive

LEMMA NoEnd ==
    ASSUME NEW n, n.final = {}, NEW w \in Seq(Positions)
    PROVE  ~Accepts(n, w, {WILD})
  BY AcceptsLive

Collapse(X, K) == [q \in X |-> IF q \in K THEN q ELSE CHOOSE k \in K : TRUE]

LEMMA Collapsed ==
    ASSUME NEW X, NEW K \in SUBSET X, K # {}
    PROVE  Collapse(X, K) \in [X -> K] /\ \A q \in K : Collapse(X, K)[q] = q
  <1>1. (CHOOSE k \in K : TRUE) \in K
    OBVIOUS
  <1> QED  BY <1>1 DEF Collapse

(* Leaving out what no run gets to, or what nothing goes on from to the    *)
(* end, leaves the language as it is.                                      *)
LEMMA ForwardPartWords ==
    ASSUME NEW n, NEW p, Sound(n), Finite(p), NEW K \in SUBSET n.states, PartOf(p, n, K), ForwardClosed(n, K)
    PROVE  Words(p) = Words(n)
  <1>0. WellFormed(n) /\ IsFiniteSet(n.states) /\ Finite(n) /\ n.final \subseteq n.states
    BY TransEnds DEF Sound, Finite
  <1>1. Words(p) \subseteq Words(n)
    BY <1>0, PartWords
  <1>2. ASSUME NEW w \in AllWords, Accepts(n, w, {WILD}) PROVE Accepts(p, w, {WILD})
    <2>1. w \in Seq(Positions)
      BY AllWordsAre
    <2>2. K # {}
      BY <1>0, <1>2, <2>1, NoStart DEF ForwardClosed
    <2> DEFINE h == Collapse(n.states, K)
    <2>3. h \in [n.states -> K] /\ \A q \in K : h[q] = q
      BY <2>2, Collapsed
    <2> HIDE DEF h
    <2>4. Carries(n, p, h, K, n.states, TRUE)
      BY <2>3, ForwardCarries
    <2>5. \A q \in K \cap n.states : q \in n.final => h[q] \in p.final
      BY <2>3 DEF PartOf
    <2> QED  BY <1>0, <1>2, <2>1, <2>4, <2>5, Carried, ZenonT(60)
  <1>3. Words(n) \subseteq Words(p)
    BY <1>2, WordsAre
  <1> QED  BY <1>1, <1>3

LEMMA BackwardPartWords ==
    ASSUME NEW n, NEW p, Sound(n), Finite(p), NEW K \in SUBSET n.states, PartOf(p, n, K), BackwardClosed(n, K),
           n.final \subseteq K
    PROVE  LosesPendingOnly(Words(n), Words(p)) /\ (PredClosed(n, K) => Words(p) = Words(n))
  <1>0. WellFormed(n) /\ IsFiniteSet(n.states) /\ Finite(n)
    BY DEF Sound, Finite
  <1>1. Words(p) \subseteq Words(n)
    BY <1>0, PartWords
  <1>2. ASSUME NEW w \in AllWords, Accepts(n, w, {WILD}), NEW pend, pend => PredClosed(n, K), pend \/ ~PendingReturn(w)
        PROVE  Accepts(p, w, {WILD})
    <2>1. w \in Seq(Positions)
      BY AllWordsAre
    <2>2. K # {}
      BY <1>2, <2>1, NoEnd
    <2> DEFINE h == Collapse(n.states, K)
    <2>3. h \in [n.states -> K] /\ \A q \in K : h[q] = q
      BY <2>2, Collapsed
    <2> HIDE DEF h
    <2>4. Carries(n, p, h, n.states, K, pend)
      BY <1>2, <2>3, BackwardCarries
    <2>5. \A q \in n.states \cap K : q \in n.final => h[q] \in p.final
      BY <2>3 DEF PartOf
    <2> QED  BY <1>0, <1>2, <2>1, <2>4, <2>5, Carried, ZenonT(60)
  <1>3. PredClosed(n, K) => Words(n) \subseteq Words(p)
    <2> SUFFICES ASSUME PredClosed(n, K), NEW w \in AllWords, Accepts(n, w, {WILD}) PROVE Accepts(p, w, {WILD})
      BY WordsAre
    <2>1. PICK pend : pend = TRUE
      OBVIOUS
    <2> QED  BY <1>2, <2>1
  <1>4. ASSUME NEW w \in Words(n), ~PendingReturn(w) PROVE w \in Words(p)
    <2>1. w \in AllWords /\ Accepts(n, w, {WILD})
      BY WordsAre
    <2>2. PICK pend : pend = FALSE
      OBVIOUS
    <2>3. Accepts(p, w, {WILD})
      BY <1>2, <1>4, <2>1, <2>2
    <2> QED  BY <2>1, <2>3, WordsAre
  <1>5. NoPendingReturn(Words(p)) = NoPendingReturn(Words(n))
    BY <1>1, <1>4 DEF NoPendingReturn
  <1> QED  BY <1>1, <1>3, <1>5 DEF LosesPendingOnly

(* What pruning keeps: the states the rounds come to.                      *)
Goes(f, R, X) == \A W \in SUBSET X : f[W] = IF R[W] = W THEN W ELSE f[R[W]]

LEMMA Rounded ==
    ASSUME NEW X, IsFiniteSet(X), NEW R, Adds(R, X), NEW V \in SUBSET X,
           NEW f, Goes(f, R, X)
    PROVE  f[V] \in SUBSET X /\ V \subseteq f[V] /\ R[f[V]] = f[V]
  <1>1. f[V] = Least(R, X, V)
    BY RoundsLeast DEF Goes
  <1> QED  BY <1>1, LeastFacts

AheadIterates(n, f) == f = [W \in SUBSET n.states |-> IF Ahead(n, W) = W THEN W ELSE f[Ahead(n, W)]]
BehindIterates(n, f) == f = [W \in SUBSET n.states |-> IF Behind(n, W) = W THEN W ELSE f[Behind(n, W)]]
AheadRounds(n) == [Q \in SUBSET n.states |-> Ahead(n, Q)]
BehindRounds(n) == [Q \in SUBSET n.states |-> Behind(n, Q)]
AheadOf(n, V) == Fix(LAMBDA Q : Ahead(n, Q), SUBSET n.states, V)
BehindOf(n, V) == Fix(LAMBDA Q : Behind(n, Q), SUBSET n.states, V)

LEMMA StatesOf ==
    ASSUME NEW n, Sound(n)
    PROVE  /\ \A t \in n.calls \cup n.internals \cup n.returns : t.from \in n.states /\ t.to \in n.states
           /\ \A t \in n.returns : t.pred \in n.states
           /\ n.initial \subseteq n.states /\ n.final \subseteq n.states
           /\ IsFiniteSet(n.states) /\ WellFormed(n)
  <1>1. \A t \in n.returns : Ends(t) \subseteq n.states
    BY DEF Sound, Finite, WellFormed, Within
  <1> QED  BY <1>1, TransEnds, ShapedEnds DEF Sound, Finite

LEMMA AheadAdds ==
    ASSUME NEW n, Sound(n)
    PROVE  Adds(AheadRounds(n), n.states)
  <1>1. \A Q \in SUBSET n.states : Ahead(n, Q) \in SUBSET n.states /\ Q \subseteq Ahead(n, Q)
    BY StatesOf DEF Ahead
  <1>2. \A V \in SUBSET n.states, W \in SUBSET n.states : V \subseteq W => Ahead(n, V) \subseteq Ahead(n, W)
    BY DEF Ahead
  <1>3. \A Q \in SUBSET n.states : AheadRounds(n)[Q] = Ahead(n, Q)
    BY DEF AheadRounds
  <1>4. AheadRounds(n) \in [SUBSET n.states -> SUBSET n.states]
    BY <1>1 DEF AheadRounds
  <1> QED  BY <1>1, <1>2, <1>3, <1>4 DEF Adds

LEMMA BehindAdds ==
    ASSUME NEW n, Sound(n)
    PROVE  Adds(BehindRounds(n), n.states)
  <1>1. \A Q \in SUBSET n.states : Behind(n, Q) \in SUBSET n.states /\ Q \subseteq Behind(n, Q)
    BY StatesOf DEF Behind
  <1>2. \A V \in SUBSET n.states, W \in SUBSET n.states : V \subseteq W => Behind(n, V) \subseteq Behind(n, W)
    BY DEF Behind
  <1>3. \A Q \in SUBSET n.states : BehindRounds(n)[Q] = Behind(n, Q)
    BY DEF BehindRounds
  <1>4. BehindRounds(n) \in [SUBSET n.states -> SUBSET n.states]
    BY <1>1 DEF BehindRounds
  <1> QED  BY <1>1, <1>2, <1>3, <1>4 DEF Adds

LEMMA AheadFacts ==
    ASSUME NEW n, Sound(n), NEW V \in SUBSET n.states
    PROVE  AheadOf(n, V) \in SUBSET n.states /\ V \subseteq AheadOf(n, V) /\ Ahead(n, AheadOf(n, V)) = AheadOf(n, V)
  <1> DEFINE from == CHOOSE f : AheadIterates(n, f)
             R == AheadRounds(n)
             X == n.states
  <1>1. Adds(R, X) /\ IsFiniteSet(X)
    BY AheadAdds, StatesOf
  <1>2. \A Q \in SUBSET X : R[Q] = Ahead(n, Q)
    BY DEF AheadRounds
  <1>3. AheadOf(n, V) = from[V]
    BY DEF AheadOf, Fix, AheadIterates
  <1>4. AheadIterates(n, from)
    <2>1. PICK f : Iterates(f, R, X)
      BY <1>1, RoundsExist
    <2>2. f = [W \in SUBSET X |-> IF Ahead(n, W) = W THEN W ELSE f[Ahead(n, W)]]
      <3> HIDE DEF R
      <3> QED  BY <1>2, <2>1 DEF Iterates
    <2> QED  BY <2>2 DEF AheadIterates
  <1> HIDE DEF from, R
  <1>5. Goes(from, R, X)
    BY <1>2, <1>4 DEF AheadIterates, Goes
  <1>6. from[V] \in SUBSET X /\ V \subseteq from[V] /\ R[from[V]] = from[V]
    <2> HIDE DEF X
    <2>1. V \in SUBSET X
      BY DEF X
    <2> QED  BY <1>1, <1>5, <2>1, Rounded
  <1> QED  BY <1>2, <1>3, <1>6

LEMMA BehindFacts ==
    ASSUME NEW n, Sound(n), NEW V \in SUBSET n.states
    PROVE  BehindOf(n, V) \in SUBSET n.states /\ V \subseteq BehindOf(n, V) /\ Behind(n, BehindOf(n, V)) = BehindOf(n, V)
  <1> DEFINE from == CHOOSE f : BehindIterates(n, f)
             R == BehindRounds(n)
             X == n.states
  <1>1. Adds(R, X) /\ IsFiniteSet(X)
    BY BehindAdds, StatesOf
  <1>2. \A Q \in SUBSET X : R[Q] = Behind(n, Q)
    BY DEF BehindRounds
  <1>3. BehindOf(n, V) = from[V]
    BY DEF BehindOf, Fix, BehindIterates
  <1>4. BehindIterates(n, from)
    <2>1. PICK f : Iterates(f, R, X)
      BY <1>1, RoundsExist
    <2>2. f = [W \in SUBSET X |-> IF Behind(n, W) = W THEN W ELSE f[Behind(n, W)]]
      <3> HIDE DEF R
      <3> QED  BY <1>2, <2>1 DEF Iterates
    <2> QED  BY <2>2 DEF BehindIterates
  <1> HIDE DEF from, R
  <1>5. Goes(from, R, X)
    BY <1>2, <1>4 DEF BehindIterates, Goes
  <1>6. from[V] \in SUBSET X /\ V \subseteq from[V] /\ R[from[V]] = from[V]
    <2> HIDE DEF X
    <2>1. V \in SUBSET X
      BY DEF X
    <2> QED  BY <1>1, <1>5, <2>1, Rounded
  <1> QED  BY <1>2, <1>3, <1>6

LEMMA PartShaped ==
    ASSUME NEW n, Sound(n), NEW K \in SUBSET n.states
    PROVE  Sound(projectStates(n, K))
  <1> DEFINE p == projectStates(n, K)
  <1>1. PartOf(p, n, K) /\ Finite(p)
    BY ProjectedPart DEF Sound
  <1>2. p.calls \subseteq n.calls /\ p.internals \subseteq n.internals /\ p.returns \subseteq n.returns
    BY <1>1 DEF PartOf
  <1> HIDE DEF p
  <1>3. Shaped(p)
    BY <1>2 DEF Sound, Shaped
  <1> QED  BY <1>1, <1>3 DEF Sound, p

LEMMA ForwardPruned ==
    ASSUME NEW n, Sound(n)
    PROVE  Sound(pruneUnreachableForward(n, n.initial)) /\ Words(pruneUnreachableForward(n, n.initial)) = Words(n)
  <1> DEFINE K == AheadOf(n, n.initial)
             p == projectStates(n, K)
  <1>1. K \in SUBSET n.states /\ n.initial \subseteq K /\ Ahead(n, K) = K
    BY StatesOf, AheadFacts
  <1>2. pruneUnreachableForward(n, n.initial) = p
    BY DEF pruneUnreachableForward, AheadOf
  <1> HIDE DEF K
  <1>3. ForwardClosed(n, K)
    BY <1>1 DEF Ahead, ForwardClosed
  <1>4. Sound(p) /\ PartOf(p, n, K)
    BY <1>1, PartShaped, ProjectedPart DEF Sound
  <1> HIDE DEF p
  <1>5. Words(p) = Words(n)
    BY <1>1, <1>3, <1>4, ForwardPartWords DEF Sound
  <1> QED  BY <1>2, <1>4, <1>5

LEMMA BackwardPruned ==
    ASSUME NEW n, Sound(n)
    PROVE  Sound(pruneUnreachableBackward(n, n.final)) /\ Words(pruneUnreachableBackward(n, n.final)) = Words(n)
  <1> DEFINE K == BehindOf(n, n.final)
             p == projectStates(n, K)
  <1>1. K \in SUBSET n.states /\ n.final \subseteq K /\ Behind(n, K) = K
    BY StatesOf, BehindFacts
  <1>2. pruneUnreachableBackward(n, n.final) = p
    BY DEF pruneUnreachableBackward, BehindOf
  <1> HIDE DEF K
  <1>3. BackwardClosed(n, K) /\ PredClosed(n, K)
    BY <1>1 DEF Behind, BackwardClosed, PredClosed
  <1>4. Sound(p) /\ PartOf(p, n, K)
    BY <1>1, PartShaped, ProjectedPart DEF Sound
  <1> HIDE DEF p
  <1>5. Words(p) = Words(n)
    BY <1>1, <1>3, <1>4, BackwardPartWords DEF Sound
  <1> QED  BY <1>2, <1>4, <1>5

LEMMA Chopped ==
    ASSUME NEW n, Sound(n)
    PROVE  Sound(chop(n)) /\ Words(chop(n)) = Words(n)
  <1> DEFINE fwd == pruneUnreachableForward(n, n.initial)
  <1>1. Sound(fwd) /\ Words(fwd) = Words(n)
    BY ForwardPruned
  <1>2. chop(n) = pruneUnreachableBackward(fwd, fwd.final)
    BY DEF chop
  <1> HIDE DEF fwd
  <1> QED  BY <1>1, <1>2, BackwardPruned

LEMMA ImplicitRemoved ==
    ASSUME NEW n, Sound(n)
    PROVE  /\ Sound(removeImplicitTransitions(n))
           /\ LosesPendingOnly(Words(n), Words(removeImplicitTransitions(n)))
  <1> DEFINE left == {t.from : t \in {u \in n.calls \cup n.internals \cup n.returns : u.from # u.to}}
             gone == (n.states \ left) \ n.final
             K == n.states \ gone
             p == projectStates(n, K)
  <1>1. K \in SUBSET n.states /\ n.states \ K = gone
    OBVIOUS
  <1>2. removeImplicitTransitions(n) = p
    BY <1>1 DEF removeImplicitTransitions, projectStates
  <1>3. BackwardClosed(n, K)
    BY StatesOf DEF BackwardClosed
  <1>4. n.final \subseteq K
    BY StatesOf
  <1> HIDE DEF K
  <1>5. Sound(p) /\ PartOf(p, n, K)
    BY <1>1, PartShaped, ProjectedPart DEF Sound
  <1> HIDE DEF p
  <1>6. LosesPendingOnly(Words(n), Words(p))
    BY <1>1, <1>3, <1>4, <1>5, BackwardPartWords DEF Sound
  <1> QED  BY <1>2, <1>5, <1>6

(* What has all that n has. *)
Includes(m, n) ==
    /\ n.states \subseteq m.states /\ n.initial \subseteq m.initial /\ n.final \subseteq m.final
    /\ n.calls \subseteq m.calls /\ n.internals \subseteq m.internals /\ n.returns \subseteq m.returns

LEMMA IncludedWords ==
    ASSUME NEW n, NEW m, Sound(n), Finite(m), Includes(m, n)
    PROVE  Words(n) \subseteq Words(m)
  <1> DEFINE h == SameStates(n.states)
  <1>1. Takes(h, n.states, m.states) /\ \A q \in n.states : h[q] = q
    BY Same DEF Includes
  <1> HIDE DEF h
  <1>2. EdgesOnto(n.calls, m.calls, h) /\ EdgesOnto(n.internals, m.internals, h)
    BY <1>1, StatesOf DEF EdgesOnto, Includes
  <1>3. ReturnsOnto(n, m, h)
    BY <1>1, StatesOf DEF ReturnsOnto, Includes
  <1>4. Onto(n, m, h)
    BY <1>1, <1>2, <1>3, StatesOf DEF Onto, Includes
  <1> QED  BY <1>4, OntoWords DEF Sound

AddedTo(b, n, T, C, L, R) ==
    /\ b.states = Reached(n, T) /\ b.initial = n.initial /\ b.final = n.final /\ Whole(b)
    /\ b.calls = C /\ b.internals = L /\ b.returns = R

LEMMA AddedFields ==
    ASSUME NEW n, Whole(n), NEW T
    PROVE  /\ AddedTo(addCalls(n, T), n, T, n.calls \cup T, n.internals, n.returns)
           /\ AddedTo(addInternals(n, T), n, T, n.calls, n.internals \cup T, n.returns)
           /\ AddedTo(addReturns(n, T), n, T, n.calls, n.internals, n.returns \cup T)
  <1> DEFINE Q == Reached(n, T)
             S == Learned(n, T)
  <1>1. /\ addCalls(n, T) = Automaton(Q, S, n.initial, n.final, n.calls \cup T, n.internals, n.returns)
        /\ addInternals(n, T) = Automaton(Q, S, n.initial, n.final, n.calls, n.internals \cup T, n.returns)
        /\ addReturns(n, T) = Automaton(Q, S, n.initial, n.final, n.calls, n.internals, n.returns \cup T)
    BY Adding
  <1> HIDE DEF S
  <1>2. ASSUME NEW C, NEW L, NEW R, NEW b, b = Automaton(Q, S, n.initial, n.final, C, L, R)
        PROVE  AddedTo(b, n, T, C, L, R)
    <2> HIDE DEF Q
    <2>1. b.states = Q /\ b.initial = n.initial /\ b.final = n.final /\ Whole(b)
          /\ b.calls = C /\ b.internals = L /\ b.returns = R
      BY <1>2, Fields
    <2> QED  BY <2>1 DEF AddedTo, Q
  <1> HIDE DEF Q
  <1> QED  BY <1>1, <1>2

Realizing(r, n, stuck, C, L, R) ==
    /\ r.initial = n.initial /\ r.final = n.final /\ n.states \subseteq r.states
    /\ r.calls = n.calls \cup C /\ r.internals = n.internals \cup L /\ r.returns = n.returns \cup R
    /\ \A t \in C \cup L : t = Edge(t.from, t.sym, t.to) /\ t.to = stuck
    /\ \A t \in R : t = Return(t.from, t.pred, t.sym, t.to) /\ t.to = stuck

LEMMA RealizedParts ==
    ASSUME NEW n, Sound(n), NEW stuck, NEW met, NEW early
    PROVE  \E C, L, R : Realizing(realizeImplicitTrans(n, stuck, met, early), n, stuck, C, L, R)
  <1> DEFINE all == n.states \cup {stuck}
             pairs == (IF met THEN all ELSE n.states) \X n.symbols
             into(T) == {Edge(x[1], x[2], stuck) : x \in {y \in pairs : ~Has(T, y)}}
             preds(x) == Called(n, x, IF x \in early THEN n.states ELSE all)
             returns == UNION {{Return(x[1], p, x[2], stuck) : p \in preds(x)} : x \in pairs}
             b == addCalls(n, into(n.calls))
             c == addInternals(b, into(n.internals))
             d == addReturns(c, returns)
  <1>1. ASSUME NEW T, NEW t \in into(T) PROVE t = Edge(t.from, t.sym, t.to) /\ t.to = stuck
    <2>1. PICK x : t = Edge(x[1], x[2], stuck)
      OBVIOUS
    <2> QED  BY <2>1, EdgeEnds
  <1>2. ASSUME NEW t \in returns PROVE t = Return(t.from, t.pred, t.sym, t.to) /\ t.to = stuck
    <2>1. \E x \in pairs : \E p \in preds(x) : t = Return(x[1], p, x[2], stuck)
      <3> HIDE DEF pairs, preds
      <3> QED  BY <1>2
    <2>2. PICK x, p : t = Return(x[1], p, x[2], stuck)
      BY <2>1
    <2> QED  BY <2>2, ReturnEnds
  <1>4. realizeImplicitTrans(n, stuck, met, early) = d
    BY DEF realizeImplicitTrans
  <1> HIDE DEF into, returns
  <1>5. Whole(n)
    BY DEF Sound, Finite, WellFormed, Whole
  <1>6. AddedTo(b, n, into(n.calls), n.calls \cup into(n.calls), n.internals, n.returns)
    BY <1>5, AddedFields
  <1> HIDE DEF b
  <1>7. AddedTo(c, b, into(n.internals), b.calls, b.internals \cup into(n.internals), b.returns)
    BY <1>6, AddedFields DEF AddedTo
  <1> HIDE DEF c
  <1>8. AddedTo(d, c, returns, c.calls, c.internals, c.returns \cup returns)
    BY <1>7, AddedFields DEF AddedTo
  <1> HIDE DEF d
  <1>9. /\ d.initial = n.initial /\ d.final = n.final /\ n.states \subseteq d.states
        /\ d.calls = n.calls \cup into(n.calls) /\ d.internals = n.internals \cup into(n.internals)
        /\ d.returns = n.returns \cup returns
    BY <1>6, <1>7, <1>8 DEF AddedTo, Reached
  <1>10. \A t \in into(n.calls) \cup into(n.internals) : t = Edge(t.from, t.sym, t.to) /\ t.to = stuck
    BY <1>1
  <1>11. \A t \in returns : t = Return(t.from, t.pred, t.sym, t.to) /\ t.to = stuck
    BY <1>2
  <1>12. Realizing(d, n, stuck, into(n.calls), into(n.internals), returns)
    BY <1>9, <1>10, <1>11 DEF Realizing
  <1> QED  BY <1>4, <1>12

LEMMA RealizedWords ==
    ASSUME NEW n, Sound(n), NEW stuck, stuck \notin n.states, NEW met, NEW early
    PROVE  /\ Sound(realizeImplicitTrans(n, stuck, met, early))
           /\ Words(realizeImplicitTrans(n, stuck, met, early)) = Words(n)
  <1> DEFINE r == realizeImplicitTrans(n, stuck, met, early)
             K == n.states
  <1>0. PICK C, L, R : Realizing(r, n, stuck, C, L, R)
    BY RealizedParts
  <1>1. /\ r.initial = n.initial /\ r.final = n.final /\ n.states \subseteq r.states
        /\ r.calls = n.calls \cup C /\ r.internals = n.internals \cup L /\ r.returns = n.returns \cup R
        /\ \A t \in C \cup L : t = Edge(t.from, t.sym, t.to) /\ t.to = stuck
        /\ \A t \in R : t = Return(t.from, t.pred, t.sym, t.to) /\ t.to = stuck
    BY <1>0 DEF Realizing
  <1>2. Finite(r)
    <2>1. WellFormed(n) /\ IsFiniteSet(n.states)
      BY DEF Sound, Finite
    <2>2. IsFiniteSet(n.states \cup {stuck})
      BY <2>1, FS_AddElement
    <2>3. r.states \subseteq n.states \cup {stuck}
      BY <2>1, RealizedStates
    <2>4. WellFormed(r)
      BY <2>1, Realized
    <2> QED  BY <2>2, <2>3, <2>4, FS_Subset DEF Finite
  <1> HIDE DEF r
  <1>3. Sound(r)
    BY <1>1, <1>2 DEF Sound, Shaped
  <1>4. K \in SUBSET r.states /\ r.final \subseteq K /\ stuck \notin K
    BY <1>1, StatesOf
  <1>5. BackwardClosed(r, K) /\ PredClosed(r, K)
    BY <1>1, <1>4, StatesOf DEF BackwardClosed, PredClosed
  <1>6. PartOf(n, r, K)
    <2>1. ASSUME NEW t, t \in C \cup L \cup R PROVE ~(Ends(t) \subseteq K)
      BY <1>1, <1>4, <2>1 DEF Ends
    <2>2. ASSUME NEW t \in n.calls \cup n.internals \cup n.returns PROVE Ends(t) \subseteq K
      BY DEF Sound, Finite, WellFormed, Within
    <2>3. n.initial \subseteq K /\ n.final \subseteq K
      BY StatesOf
    <2> QED  BY <1>1, <2>1, <2>2, <2>3 DEF PartOf
  <1>7. Words(n) = Words(r)
    BY <1>3, <1>4, <1>5, <1>6, BackwardPartWords DEF Sound
  <1> QED  BY <1>3, <1>7 DEF r

(* A copy of a state does what the state does. *)
Original(X, orig, dup) == [q \in X \cup {dup} |-> IF q = dup THEN orig ELSE q]
CopiedEdge(T, c, h) == c = Edge(c.from, c.sym, c.to) /\ \E t \in T : t.from = h[c.from] /\ t.sym = c.sym /\ t.to = h[c.to]
CopiedReturn(T, c, h) ==
    /\ c = Return(c.from, c.pred, c.sym, c.to)
    /\ \E t \in T : t.from = h[c.from] /\ t.pred = h[c.pred] /\ t.sym = c.sym /\ t.to = h[c.to]

IsOriginal(h, X, orig, dup) == h \in [X \cup {dup} -> X] /\ h[dup] = orig /\ \A q \in X : h[q] = q

LEMMA OriginalIs ==
    ASSUME NEW X, NEW orig \in X, NEW dup, dup \notin X
    PROVE  IsOriginal(Original(X, orig, dup), X, orig, dup)
  BY DEF Original, IsOriginal

As(q, f, orig, dup, fields) == IF q = orig /\ f \in fields THEN {orig, dup} ELSE {q}
EdgeCopies(A, s, C) == {Edge(x, s, z) : x \in A, z \in C}
ReturnCopies(A, B, s, C) == {Return(x, y, s, z) : x \in A, y \in B, z \in C}
EdgeCopiesOf(t, orig, dup, fields) ==
    EdgeCopies(As(t.from, "from", orig, dup, fields), t.sym, As(t.to, "to", orig, dup, fields))
ReturnCopiesOf(t, orig, dup, fields) ==
    ReturnCopies(As(t.from, "from", orig, dup, fields), As(t.pred, "pred", orig, dup, fields), t.sym,
                 As(t.to, "to", orig, dup, fields))

LEMMA EdgeCopyIs ==
    ASSUME NEW A, NEW s, NEW C, NEW c
    PROVE  c \in EdgeCopies(A, s, C) <=> \E x \in A : \E z \in C : c = Edge(x, s, z)
  BY DEF EdgeCopies

LEMMA ReturnCopyIs ==
    ASSUME NEW A, NEW B, NEW s, NEW C, NEW c
    PROVE  c \in ReturnCopies(A, B, s, C) <=> \E x \in A : \E y \in B : \E z \in C : c = Return(x, y, s, z)
  BY DEF ReturnCopies

LEMMA CopiedAre ==
    ASSUME NEW T, NEW orig, NEW dup, NEW fields
    PROVE  /\ (\A t \in T : "pred" \notin DOMAIN t) =>
                Copied(T, orig, dup, fields) = UNION {EdgeCopiesOf(t, orig, dup, fields) : t \in T}
           /\ (\A t \in T : "pred" \in DOMAIN t) =>
                Copied(T, orig, dup, fields) = UNION {ReturnCopiesOf(t, orig, dup, fields) : t \in T}
  <1> DEFINE copies(t) == IF "pred" \in DOMAIN t THEN ReturnCopiesOf(t, orig, dup, fields)
                          ELSE EdgeCopiesOf(t, orig, dup, fields)
  <1>1. Copied(T, orig, dup, fields) = UNION {copies(t) : t \in T}
    BY DEF Copied, ReturnCopiesOf, EdgeCopiesOf, ReturnCopies, EdgeCopies, As
  <1>2. ASSUME \A t \in T : "pred" \notin DOMAIN t
        PROVE  UNION {copies(t) : t \in T} = UNION {EdgeCopiesOf(t, orig, dup, fields) : t \in T}
    BY <1>2
  <1>3. ASSUME \A t \in T : "pred" \in DOMAIN t
        PROVE  UNION {copies(t) : t \in T} = UNION {ReturnCopiesOf(t, orig, dup, fields) : t \in T}
    BY <1>3
  <1> HIDE DEF copies
  <1> QED  BY <1>1, <1>2, <1>3

LEMMA AsIs ==
    ASSUME NEW X, NEW orig \in X, NEW dup, dup \notin X, NEW fields, NEW q \in X, NEW f
    PROVE  /\ q \in As(q, f, orig, dup, fields)
           /\ \A p \in As(q, f, orig, dup, fields) : Original(X, orig, dup)[p] = q
  <1>1. Original(X, orig, dup)[dup] = orig /\ Original(X, orig, dup)[q] = q
    <2>1. IsOriginal(Original(X, orig, dup), X, orig, dup)
      BY OriginalIs
    <2> QED  BY <2>1 DEF IsOriginal
  <1> QED  BY <1>1 DEF As

LEMMA EdgesCopied ==
    ASSUME NEW X, NEW orig \in X, NEW dup, dup \notin X, NEW fields, NEW T,
           \A t \in T : t = Edge(t.from, t.sym, t.to) /\ t.from \in X /\ t.to \in X
    PROVE  /\ T \subseteq Copied(T, orig, dup, fields)
           /\ \A c \in Copied(T, orig, dup, fields) : CopiedEdge(T, c, Original(X, orig, dup))
  <1> DEFINE h == Original(X, orig, dup)
  <1>1. Copied(T, orig, dup, fields) = UNION {EdgeCopiesOf(t, orig, dup, fields) : t \in T}
    <2>1. \A q, s, p : "pred" \notin DOMAIN Edge(q, s, p)
      BY DEF Edge
    <2>2. \A t \in T : "pred" \notin DOMAIN t
      BY <2>1
    <2> QED  BY <2>2, CopiedAre
  <1> HIDE DEF h
  <1>2. ASSUME NEW t \in T
        PROVE  t \in EdgeCopiesOf(t, orig, dup, fields)
               /\ \A c \in EdgeCopiesOf(t, orig, dup, fields) : CopiedEdge(T, c, h)
    <2> DEFINE A == As(t.from, "from", orig, dup, fields)
               C == As(t.to, "to", orig, dup, fields)
    <2>0. t = Edge(t.from, t.sym, t.to) /\ t.from \in X /\ t.to \in X
      OBVIOUS
    <2>1. t.from \in A /\ t.to \in C /\ (\A x \in A : h[x] = t.from) /\ \A z \in C : h[z] = t.to
      BY <2>0, AsIs DEF h
    <2>2. EdgeCopiesOf(t, orig, dup, fields) = EdgeCopies(A, t.sym, C)
      BY DEF EdgeCopiesOf
    <2> HIDE DEF A, C
    <2>3. t \in EdgeCopies(A, t.sym, C)
      BY <2>0, <2>1, EdgeCopyIs
    <2>4. ASSUME NEW c \in EdgeCopies(A, t.sym, C) PROVE CopiedEdge(T, c, h)
      <3>1. PICK x \in A, z \in C : c = Edge(x, t.sym, z)
        BY EdgeCopyIs
      <3>2. c.from = x /\ c.sym = t.sym /\ c.to = z
        BY <3>1, EdgeEnds
      <3> QED  BY <2>1, <3>1, <3>2 DEF CopiedEdge
    <2> QED  BY <2>2, <2>3, <2>4
  <1> QED  BY <1>1, <1>2 DEF h

LEMMA ReturnsCopied ==
    ASSUME NEW X, NEW orig \in X, NEW dup, dup \notin X, NEW fields, NEW T,
           \A t \in T : t = Return(t.from, t.pred, t.sym, t.to) /\ t.from \in X /\ t.pred \in X /\ t.to \in X
    PROVE  /\ T \subseteq Copied(T, orig, dup, fields)
           /\ \A c \in Copied(T, orig, dup, fields) : CopiedReturn(T, c, Original(X, orig, dup))
  <1> DEFINE h == Original(X, orig, dup)
  <1>1. Copied(T, orig, dup, fields) = UNION {ReturnCopiesOf(t, orig, dup, fields) : t \in T}
    <2>1. \A q, g, s, p : "pred" \in DOMAIN Return(q, g, s, p)
      BY DEF Return
    <2>2. \A t \in T : "pred" \in DOMAIN t
      BY <2>1
    <2> QED  BY <2>2, CopiedAre
  <1> HIDE DEF h
  <1>2. ASSUME NEW t \in T
        PROVE  t \in ReturnCopiesOf(t, orig, dup, fields)
               /\ \A c \in ReturnCopiesOf(t, orig, dup, fields) : CopiedReturn(T, c, h)
    <2> DEFINE A == As(t.from, "from", orig, dup, fields)
               B == As(t.pred, "pred", orig, dup, fields)
               C == As(t.to, "to", orig, dup, fields)
    <2>0. t = Return(t.from, t.pred, t.sym, t.to) /\ t.from \in X /\ t.pred \in X /\ t.to \in X
      OBVIOUS
    <2>1. /\ t.from \in A /\ t.pred \in B /\ t.to \in C
          /\ (\A x \in A : h[x] = t.from) /\ (\A y \in B : h[y] = t.pred) /\ \A z \in C : h[z] = t.to
      BY <2>0, AsIs DEF h
    <2>2. ReturnCopiesOf(t, orig, dup, fields) = ReturnCopies(A, B, t.sym, C)
      BY DEF ReturnCopiesOf
    <2> HIDE DEF A, B, C
    <2>3. t \in ReturnCopies(A, B, t.sym, C)
      BY <2>0, <2>1, ReturnCopyIs
    <2>4. ASSUME NEW c \in ReturnCopies(A, B, t.sym, C) PROVE CopiedReturn(T, c, h)
      <3>1. PICK x \in A, y \in B, z \in C : c = Return(x, y, t.sym, z)
        BY ReturnCopyIs
      <3>2. c.from = x /\ c.pred = y /\ c.sym = t.sym /\ c.to = z
        BY <3>1, ReturnEnds
      <3> QED  BY <2>1, <3>1, <3>2 DEF CopiedReturn
    <2> QED  BY <2>2, <2>3, <2>4
  <1> QED  BY <1>1, <1>2 DEF h

LEMMA DuplicatedWords ==
    ASSUME NEW n, Sound(n), NEW orig \in n.states, NEW dup, dup \notin n.states, NEW fields
    PROVE  Sound(Duplicated(n, orig, dup, fields)) /\ Words(Duplicated(n, orig, dup, fields)) = Words(n)
  <1> DEFINE d == Duplicated(n, orig, dup, fields)
             X == n.states
             h == Original(X, orig, dup)
             as(Q) == IF orig \in Q THEN Q \cup {dup} ELSE Q
             copied(T) == Copied(T, orig, dup, fields)
  <1>1. /\ d.states = X \cup {dup} /\ d.initial = as(n.initial) /\ d.final = as(n.final)
        /\ d.calls = copied(n.calls) /\ d.internals = copied(n.internals) /\ d.returns = copied(n.returns)
    BY Fields DEF Duplicated
  <1>2. Finite(d)
    <2>1. WellFormed(d)
      BY Duplication DEF Sound, Finite
    <2>2. IsFiniteSet(X \cup {dup})
      BY StatesOf, FS_AddElement
    <2> QED  BY <1>1, <2>1, <2>2 DEF Finite
  <1> HIDE DEF d, h
  <1>3. /\ \A t \in n.calls \cup n.internals : t = Edge(t.from, t.sym, t.to) /\ t.from \in X /\ t.to \in X
        /\ \A t \in n.returns : t = Return(t.from, t.pred, t.sym, t.to) /\ t.from \in X /\ t.pred \in X /\ t.to \in X
    BY StatesOf DEF Sound, Shaped
  <1>4. /\ n.calls \subseteq copied(n.calls) /\ n.internals \subseteq copied(n.internals)
        /\ \A c \in copied(n.calls) : CopiedEdge(n.calls, c, h)
        /\ \A c \in copied(n.internals) : CopiedEdge(n.internals, c, h)
    BY <1>3, EdgesCopied DEF h
  <1>5. n.returns \subseteq copied(n.returns) /\ \A c \in copied(n.returns) : CopiedReturn(n.returns, c, h)
    BY <1>3, ReturnsCopied DEF h
  <1> HIDE DEF copied
  <1>6. Sound(d)
    BY <1>1, <1>2, <1>4, <1>5 DEF Sound, Shaped, CopiedEdge, CopiedReturn
  <1>7. Words(n) \subseteq Words(d)
    <2>1. Includes(d, n)
      BY <1>1, <1>4, <1>5 DEF Includes
    <2> QED  BY <1>6, <2>1, IncludedWords DEF Sound
  <1>8. Words(d) \subseteq Words(n)
    <2>1. /\ h \in [d.states -> X] /\ h[dup] = orig /\ \A q \in X : h[q] = q
      <3>1. h \in [X \cup {dup} -> X] /\ h[dup] = orig /\ \A q \in X : h[q] = q
        <4>1. IsOriginal(h, X, orig, dup)
          BY OriginalIs DEF h
        <4> QED  BY <4>1 DEF IsOriginal
      <3> QED  BY <1>1, <3>1
    <2>2. (\A q \in d.initial : h[q] \in n.initial) /\ (\A q \in d.final : h[q] \in n.final)
      BY <1>1, <2>1, StatesOf
    <2>3. EdgesOnto(d.calls, n.calls, h) /\ EdgesOnto(d.internals, n.internals, h)
      BY <1>1, <1>4 DEF EdgesOnto, CopiedEdge
    <2>4. ReturnsOnto(d, n, h)
      BY <1>1, <1>5 DEF ReturnsOnto, CopiedReturn
    <2>5. Onto(d, n, h)
      BY <2>1, <2>2, <2>3, <2>4 DEF Onto, Takes
    <2> QED  BY <1>2, <2>5, OntoWords DEF Sound
  <1> QED  BY <1>6, <1>7, <1>8 DEF d

LEMMA ProjectedShaped ==
    ASSUME NEW n, Shaped(n), NEW Q
    PROVE  Shaped(removeStates(n, Q))
  BY Fields DEF removeStates, Shaped

LEMMA KeepingWords ==
    ASSUME Sound(nwa)
    PROVE  /\ Duplicate \/ Realize \/ Prune => Words(nwa') = Words(nwa) /\ Shaped(nwa')
           /\ RemoveImplicit => LosesPendingOnly(Words(nwa), Words(nwa')) /\ Shaped(nwa')
  <1>1. ASSUME NEW n, Edit(n), Words(n) = Words(nwa), Sound(n) PROVE Words(nwa') = Words(nwa) /\ Shaped(nwa')
    BY <1>1 DEF Edit, Sound
  <1>2. ASSUME Duplicate PROVE Words(nwa') = Words(nwa) /\ Shaped(nwa')
    <2>1. PICK q \in nwa.states : Edit(duplicateState(nwa, q, Fresh)) \/ Edit(duplicateStateOutgoing(nwa, q, Fresh))
      BY <1>2 DEF Duplicate
    <2>2. Fresh \notin nwa.states
      BY <1>2 DEF Duplicate
    <2>3. /\ Words(duplicateState(nwa, q, Fresh)) = Words(nwa) /\ Sound(duplicateState(nwa, q, Fresh))
          /\ Words(duplicateStateOutgoing(nwa, q, Fresh)) = Words(nwa) /\ Sound(duplicateStateOutgoing(nwa, q, Fresh))
      BY <2>2, DuplicatedWords DEF duplicateState, duplicateStateOutgoing
    <2> QED  BY <1>1, <2>1, <2>3
  <1>3. ASSUME Realize PROVE Words(nwa') = Words(nwa) /\ Shaped(nwa')
    <2>1. PICK met \in BOOLEAN, early \in EarlyPairs(nwa) : Edit(realizeImplicitTrans(nwa, Fresh, met, early))
      BY <1>3 DEF Realize
    <2>2. Fresh \notin nwa.states
      BY <1>3 DEF Realize
    <2> QED  BY <1>1, <2>1, <2>2, RealizedWords
  <1>4. ASSUME Prune PROVE Words(nwa') = Words(nwa) /\ Shaped(nwa')
    BY <1>1, <1>4, ForwardPruned, BackwardPruned, Chopped DEF Prune
  <1>5. ASSUME RemoveImplicit PROVE LosesPendingOnly(Words(nwa), Words(nwa')) /\ Shaped(nwa')
    <2>1. nwa' = removeImplicitTransitions(nwa)
      BY <1>5 DEF RemoveImplicit, Edit
    <2> QED  BY <2>1, ImplicitRemoved DEF Sound
  <1> QED  BY <1>2, <1>3, <1>4, <1>5

LEMMA ChangingShaped ==
    ASSUME Sound(nwa), Changing
    PROVE  Shaped(nwa')
  <1>1. Shaped(nwa) /\ Whole(nwa)
    BY DEF Sound, Finite, WellFormed, Whole
  <1>2. CASE AddTrans
    <2>1. /\ \A t \in Calls \cup Internals : t = Edge(t.from, t.sym, t.to)
          /\ \A t \in Returns : t = Return(t.from, t.pred, t.sym, t.to)
      BY SessionAssumption, Fields DEF Shaped
    <2>2. ASSUME NEW t \in Calls PROVE Shaped(addCalls(nwa, {t}))
      BY <1>1, <2>1, AddedFields DEF AddedTo, Shaped
    <2>3. ASSUME NEW t \in Internals PROVE Shaped(addInternals(nwa, {t}))
      BY <1>1, <2>1, AddedFields DEF AddedTo, Shaped
    <2>4. ASSUME NEW t \in Returns PROVE Shaped(addReturns(nwa, {t}))
      BY <1>1, <2>1, AddedFields DEF AddedTo, Shaped
    <2> QED  BY <1>2, <2>2, <2>3, <2>4 DEF AddTrans, Edit
  <1>3. CASE RemoveTrans
    <2>1. ASSUME NEW t
          PROVE  /\ Shaped([nwa EXCEPT !.calls = @ \ {t}]) /\ Shaped([nwa EXCEPT !.internals = @ \ {t}])
                 /\ Shaped([nwa EXCEPT !.returns = @ \ {t}])
      <3>1. [nwa EXCEPT !.calls = nwa.calls \ {t}]
              = Automaton(nwa.states, nwa.symbols, nwa.initial, nwa.final, nwa.calls \ {t}, nwa.internals, nwa.returns)
        BY <1>1, ReplacedTrans
      <3>2. [nwa EXCEPT !.internals = nwa.internals \ {t}]
              = Automaton(nwa.states, nwa.symbols, nwa.initial, nwa.final, nwa.calls, nwa.internals \ {t}, nwa.returns)
        BY <1>1, ReplacedTrans
      <3>3. [nwa EXCEPT !.returns = nwa.returns \ {t}]
              = Automaton(nwa.states, nwa.symbols, nwa.initial, nwa.final, nwa.calls, nwa.internals, nwa.returns \ {t})
        BY <1>1, ReplacedTrans
      <3> QED  BY <1>1, <3>1, <3>2, <3>3, Fields DEF Shaped
    <2>2. ASSUME NEW t
          PROVE  Shaped(removeCall(nwa, t)) /\ Shaped(removeInternal(nwa, t)) /\ Shaped(removeReturn(nwa, t))
      BY <1>1, <2>1 DEF removeCall, removeInternal, removeReturn
    <2>3. ASSUME NEW e, NEW n \in removeReturnsOf(nwa, e) PROVE Shaped(n)
      BY <1>1, <2>1 DEF removeReturnsOf
    <2> QED  BY <1>3, <2>2, <2>3 DEF RemoveTrans, Edit
  <1>4. CASE RemoveState
    BY <1>1, <1>4, ProjectedShaped DEF RemoveState, Edit
  <1>5. CASE RemoveSymbol
    <2>1. ASSUME NEW s PROVE Shaped(removeSymbol(nwa, s))
      BY <1>1, Fields DEF removeSymbol, Shaped
    <2> QED  BY <1>5, <2>1 DEF RemoveSymbol, Edit
  <1> QED  BY <1>2, <1>3, <1>4, <1>5 DEF Changing

LEMMA ShapedAlways == Spec => []Shaped(nwa)
  <1>1. Init => Shaped(nwa)
    BY SessionAssumption DEF Init
  <1>2. SessionInv /\ Shaped(nwa) /\ [Next]_vars => Shaped(nwa)'
    <2> SUFFICES ASSUME SessionInv, Shaped(nwa), [Next]_vars PROVE Shaped(nwa')
      OBVIOUS
    <2>1. Sound(nwa)
      BY DEF SessionInv, Sound
    <2>2. CASE Keeping
      BY <2>1, <2>2, KeepingWords DEF Keeping
    <2>3. CASE Changing
      BY <2>1, <2>3, ChangingShaped
    <2>4. CASE Building \/ Drop \/ UNCHANGED vars
      <3>1. nwa' = nwa
        BY <2>4 DEF Building, Union, Concat, Star, Reversal, Determinization, Complementation, Intersection, Quotient,
                    Construct, Drop, vars
      <3> QED  BY <3>1
    <2> QED  BY <2>2, <2>3, <2>4 DEF Next, Building
  <1> QED  BY <1>1, <1>2, SessionAlways, PTL DEF Spec

(* No edit that is to keep the language changes it, for all automata and   *)
(* words up to any length: a duplicated state, the implicit                *)
(* transitions, and what pruning and chopping leave away make no           *)
(* difference; without the states nothing leaves, words with a pending     *)
(* return may be missing and none is new.                                  *)
THEOREM NwaEditsKeepLanguage == Spec => EditsKeepLanguage
  <1>1. SessionInv /\ Shaped(nwa) /\ [Next]_vars
          => [nwa'.states # nwa.states =>
                /\ Duplicate \/ Realize \/ Prune => Words(nwa') = Words(nwa)
                /\ RemoveImplicit => LosesPendingOnly(Words(nwa), Words(nwa'))]_vars
    BY KeepingWords DEF SessionInv, Sound
  <1> QED  BY <1>1, SessionAlways, ShapedAlways, PTL DEF Spec, EditsKeepLanguage
=============================================================================
