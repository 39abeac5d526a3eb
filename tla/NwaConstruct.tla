---------------------------- MODULE NwaConstruct ----------------------------
(***************************************************************************)
(* The constructions of opennwa (construct/*.cpp) and the two decisions    *)
(* built on them (query/language.cpp).  A construction returns a new       *)
(* automaton.  States of star and reverse are pairs of a state and plain   *)
(* or prime, of an intersection pairs of states, of a determinized         *)
(* automaton relations on the states, of a quotient blocks of states.      *)
(***************************************************************************)
EXTENDS Nwa

CONSTANTS plain, prime,  \* a state, and its key paired with "prime"
          starStart,     \* the key "kleeneStarStart"
          program, fin   \* the control location "program" and the key "fin" of the two WFAs

statesOverlap(n, m) == n.states \cap m.states # {}

unionNwa(n, m) == combineWith(n, m)

(* Mutated form of concat: no return of m pops a call of n. *)
concat_Unmatched(n, m) ==
    addInternals([combineWith(n, m) EXCEPT !.initial = n.initial, !.final = m.final],
                 {Edge(f, EPSILON, i) : f \in n.final, i \in m.initial})

(* Ends of n go on to starts of m; a return of m that may pend may also    *)
(* pop a call of n.                                                        *)
concat(n, m) ==
    LET both == [[combineWith(n, m) EXCEPT !.initial = n.initial] EXCEPT !.final = m.final]
        links == {Edge(f, EPSILON, i) : f \in n.final, i \in m.initial}
        pending == {t \in m.returns : t.pred \in m.initial}
    IN  addReturns(addInternals(both, links),
                   {Return(t.from, c.from, t.sym, t.to) : t \in pending, c \in n.calls})

(* A primed state is outside every call of the present iteration.          *)
Sides == {plain, prime}
P(q) == <<q, plain>>
PP(q) == <<q, prime>>
star(n) ==
    LET all == n.states \X Sides
        empty == Automaton(all \cup {starStart}, {}, {starStart}, {starStart}, {}, {}, {})
        links == {Edge(starStart, EPSILON, PP(i)) : i \in n.initial}
                 \cup {Edge(f, EPSILON, starStart) : f \in n.final \X Sides}
        internals == {Edge(<<t.from, k>>, t.sym, <<t.to, k>>) : t \in n.internals, k \in Sides}
        calls == {Edge(<<t.from, k>>, t.sym, P(t.to)) : t \in n.calls, k \in Sides}
        matched == {Return(P(t.from), <<t.pred, k>>, t.sym, <<t.to, k>>) :
                      t \in n.returns, k \in Sides}
        pending == {Return(PP(t.from), q, t.sym, PP(t.to)) :
                      t \in {u \in n.returns : u.pred \in n.initial}, q \in all \cup {starStart}}
    IN  addReturns(addCalls(addInternals(empty, links \cup internals), calls), matched \cup pending)

(* Calls and returns trade places through the call predecessor they share. *)
reverse(n) ==
    LET pairs == {x \in n.calls \X n.returns : x[1].from = x[2].pred}
        empty == Automaton(n.states \X Sides, {}, {PP(f) : f \in n.final},
                           n.initial \X Sides, {}, {}, {})
        internals == {Edge(<<t.to, k>>, t.sym, <<t.from, k>>) : t \in n.internals, k \in Sides}
        calls == {Edge(<<x[2].to, k>>, x[2].sym, P(x[2].from)) : x \in pairs, k \in Sides}
        matched == {Return(P(x[1].to), <<x[2].to, k>>, x[1].sym, <<x[1].from, k>>) :
                      x \in pairs, k \in Sides}
        pending == {Return(PP(x[1].to), i, x[1].sym, PP(x[1].from)) : x \in pairs, i \in empty.initial}
    IN  addReturns(addCalls(addInternals(empty, internals), calls), matched \cup pending)

(* Relations on the states, and the ternary relation of the returns.       *)
Compose(R, S) == {<<x[1][1], x[2][2]>> : x \in {y \in R \X S : y[1][2] = y[2][1]}}
Steps(T, s) == {<<t.from, t.to>> : t \in {u \in T : u.sym \in {s, WILD}}}
Close(n) == UNION {{q} \X epsilonClosure(n, q) : q \in n.states}

(* Mutated form of Merge: a return pops any call. *)
Merge_Loose(exit, call, T, s) ==
    Compose(call, {<<t.pred, t.to>> : t \in {u \in T : u.sym \in {s, WILD}
                                              /\ u.from \in {x[2] : x \in exit}}})
Merge(exit, call, T, s) ==
    Compose(call, {<<t.pred, t.to>> : t \in {u \in T : u.sym \in {s, WILD} /\ <<u.pred, u.from>> \in exit}})

(* project_symbol_4 fails its assertion when a return has both a symbol    *)
(* and WILD between the same states.                                       *)
ReturnsDisjoint(n) ==
    \A t \in n.returns, u \in n.returns :
      u.sym = WILD /\ t.sym # WILD => Return(t.from, t.pred, WILD, t.to) # u

(* A state holds the pairs of a state after the last open call, or at the  *)
(* start, and a state now.  After a call it holds every call of the symbol.*)
OnInternal(n, close, R, s) == Compose(Compose(R, Steps(n.internals, s)), close)
OnCall(n, close, R, s) == Compose(Steps(n.calls, s), close)
OnReturn(n, close, exit, call, s) == Compose(Merge(exit, call, n.returns, s), close)
Discovered(n, close, D) ==
    D \cup (UNION {{OnInternal(n, close, R, s), OnCall(n, close, R, s)} : R \in D, s \in n.symbols})
      \cup {OnReturn(n, close, R, V, s) : R \in D, V \in D, s \in n.symbols}
Determinized(n, close, start, D) ==
    LET empty == addFinalStates(addInitialStates(addStates(NoNwa, D), {start}),
                                {R \in D : \E x \in R : x[2] \in n.final})
        all == D \X n.symbols
    IN  addReturns(addCalls(addInternals(empty,
              {Edge(x[1], x[2], OnInternal(n, close, x[1], x[2])) : x \in all}),
              {Edge(x[1], x[2], OnCall(n, close, x[1], x[2])) : x \in all}),
              {Return(x[1], V, x[2], OnReturn(n, close, x[1], V, x[2])) : x \in all, V \in D})
Determinize(n, close, start) ==
    Determinized(n, close, start,
        Fix(LAMBDA D : Discovered(n, close, D), SUBSET SUBSET (n.states \X n.states), {start}))
determinize(n) == Determinize(n, Close(n), Compose(n.initial \X n.initial, Close(n)))

Complemented(n) == [n EXCEPT !.final = n.states \ n.final]
complement(n) == Complemented(determinize(n))

(* The symbols two transitions have in common.                             *)
transitionIntersect(s, t) ==
    {a \in {s, t} \ {EPSILON} : {s, t} \subseteq {a, WILD}}
Both(n, m, q) == epsilonClosure(n, q[1]) \X epsilonClosure(m, q[2])
EdgesOf(n, m, S, T, V) ==
    UNION {{Edge(<<x[1].from, x[2].from>>, s, q) :
              s \in transitionIntersect(x[1].sym, x[2].sym), q \in Both(n, m, <<x[1].to, x[2].to>>)} :
             x \in {y \in S \X T : <<y[1].from, y[2].from>> \in V}}
ReturnsOf(n, m, V) ==
    UNION {{Return(<<x[1].from, x[2].from>>, <<x[1].pred, x[2].pred>>, s, q) :
              s \in transitionIntersect(x[1].sym, x[2].sym), q \in Both(n, m, <<x[1].to, x[2].to>>)} :
             x \in {y \in n.returns \X m.returns : {<<y[1].from, y[2].from>>, <<y[1].pred, y[2].pred>>} \subseteq V}}
Visited(n, m, V) ==
    V \cup {t.to : t \in EdgesOf(n, m, n.calls, m.calls, V) \cup EdgesOf(n, m, n.internals, m.internals, V)
                         \cup ReturnsOf(n, m, V)}
Product(n, m, start, V) ==
    LET empty == addFinalStates(addInitialStates(addStates(NoNwa, V), start),
                                V \cap (n.final \X m.final))
    IN  addReturns(addCalls(addInternals(empty, EdgesOf(n, m, n.internals, m.internals, V)),
                            EdgesOf(n, m, n.calls, m.calls, V)), ReturnsOf(n, m, V))
Intersect(n, m, start) ==
    Product(n, m, start, Fix(LAMBDA V : Visited(n, m, V), SUBSET (n.states \X m.states), start))
intersect(n, m) == Intersect(n, m, UNION {Both(n, m, q) : q \in n.initial \X m.initial})

(* One state for each block of a partition. *)
quotient(n, partition) ==
    LET of(q) == CHOOSE B \in partition : q \in B
        edges(T) == {Edge(of(t.from), t.sym, of(t.to)) : t \in T}
        empty == addFinalStates(addInitialStates(NoNwa, {of(q) : q \in n.initial}), {of(q) : q \in n.final})
    IN  addReturns(addCalls(addInternals(empty, edges(n.internals)), edges(n.calls)),
                   {Return(of(t.from), of(t.pred), t.sym, of(t.to)) : t \in n.returns})

(* The pushdown system that stacks calls: a call pushes its call site, an  *)
(* exit q pops into the control location q, which a return leaves.         *)
Rule(p, g, p2, w) == [from |-> p, stk |-> g, to |-> p2, push |-> w]
NwaToPdsCalls(n) ==
    {Rule(program, t.from, program, <<t.to>>) : t \in n.internals}
    \cup {Rule(program, t.from, program, <<t.to, t.from>>) : t \in n.calls}
    \cup {Rule(program, t.from, t.from, <<>>) : t \in n.returns}
    \cup {Rule(t.from, t.pred, program, <<t.to>>) : t \in n.returns}

(* What WPDS::poststar saturates an automaton to, weights apart.           *)
Fired(r, T, t) ==
    CASE Len(r.push) = 0 -> {Edge(r.to, EPSILON, t.to)}
      [] Len(r.push) = 1 -> {Edge(r.to, r.push[1], t.to)}
      [] Len(r.push) = 2 -> {Edge(r.to, r.push[1], <<r.to, r.push[1]>>),
                             Edge(<<r.to, r.push[1]>>, r.push[2], t.to)}
Saturated(rules, T) ==
    T \cup (UNION {Fired(x[1], T, x[2]) : x \in {y \in rules \X T : y[1].from = y[2].from /\ y[1].stk = y[2].sym}})
      \cup {Edge(x[1].from, x[2].sym, x[2].to) :
              x \in {y \in T \X T : y[1].sym = EPSILON /\ y[1].to = y[2].from}}
poststar(rules, T, space) == Fix(LAMBDA S : Saturated(rules, S), SUBSET space, T)

(* Mutated form of Initials: no return may pend. *)
Initials_Balanced(n) == {Edge(program, q, fin) : q \in n.initial}

(* From the initial states over a stack of initial states, to the final    *)
(* ones over any stack.                                                    *)
Initials(n) == {Edge(program, q, fin) : q \in n.initial} \cup {Edge(fin, q, fin) : q \in n.initial}
Locations(n) == {program, fin} \cup n.states \cup ({program} \X n.states)
Space(n) == [from : Locations(n), sym : n.states \cup {EPSILON}, to : Locations(n)]
Kept(T, n) == {t \in T : t.from = program /\ t.sym \in n.final}
LeadsTo(T, Q) == Q \cup {t.from : t \in {u \in T : u.to \in Q /\ u.sym # EPSILON}}
Connected(T, Q) == Fix(LAMBDA V : LeadsTo(T, V), SUBSET UNION {Ends(t) : t \in T}, Q)
NothingLeft(T, n) == \A t \in Kept(T, n) : t.to \notin Connected(T, {fin})
languageIsEmpty(n) ==
    /\ n.initial \cap n.final = {}
    /\ n.initial = {} \/ n.final = {} \/ NothingLeft(poststar(NwaToPdsCalls(n), Initials(n), Space(n)), n)

languageSubsetEq(n, m) ==
    languageIsEmpty(intersect(n, complement([m EXCEPT !.symbols = @ \cup n.symbols])))
==============================================================================
