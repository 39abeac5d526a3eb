--------------------------------- MODULE Nwa ---------------------------------
(***************************************************************************)
(* A nested word automaton (class opennwa::Nwa with its StateStorage,      *)
(* SymbolStorage and TransitionStorage) as a record, and the methods that  *)
(* edit one.  A call or internal transition is a record with from, sym and *)
(* to; a return transition also names pred, the state its call left from.  *)
(* The indexes TransitionStorage keeps beside its three sets are left out. *)
(***************************************************************************)
EXTENDS Naturals, FiniteSets, Sequences, Fixpoint

CONSTANTS EPSILON, WILD  \* the two symbols that are never in an alphabet

ASSUME MetaSymbols == EPSILON # WILD

(* States, symbols, initial and final states; the three sets of transitions. *)
Automaton(Q, S, I, F, C, L, R) ==
    [states |-> Q, symbols |-> S, initial |-> I, final |-> F, calls |-> C, internals |-> L, returns |-> R]
NoNwa == Automaton({}, {}, {}, {}, {}, {}, {})

Edge(from, sym, to) == [from |-> from, sym |-> sym, to |-> to]
Return(from, pred, sym, to) == [from |-> from, pred |-> pred, sym |-> sym, to |-> to]

Letters(S) == S \ {EPSILON, WILD}
Ends(t) == {t.from, t.to} \cup (IF "pred" \in DOMAIN t THEN {t.pred} ELSE {})

(* Adding: a transition brings its states and its symbol along. *)
addStates(n, Q) == [n EXCEPT !.states = @ \cup Q]
addInitialStates(n, Q) == [addStates(n, Q) EXCEPT !.initial = @ \cup Q]
addFinalStates(n, Q) == [addStates(n, Q) EXCEPT !.final = @ \cup Q]
WithEnds(n, T) == [addStates(n, UNION {Ends(t) : t \in T}) EXCEPT
                     !.symbols = @ \cup Letters({t.sym : t \in T})]
addCalls(n, T) == [WithEnds(n, T) EXCEPT !.calls = @ \cup T]
addInternals(n, T) == [WithEnds(n, T) EXCEPT !.internals = @ \cup T]
addReturns(n, T) == [WithEnds(n, T) EXCEPT !.returns = @ \cup T]

combineWith(n, m) ==
    Automaton(n.states \cup m.states, n.symbols \cup m.symbols, n.initial \cup m.initial, n.final \cup m.final,
              n.calls \cup m.calls, n.internals \cup m.internals, n.returns \cup m.returns)

(* Mutated form of removeStates: returns that only pop the state stay. *)
removeStates_Pred(n, Q) ==
    LET without(T) == {t \in T : {t.from, t.to} \cap Q = {}}
    IN  Automaton(n.states \ Q, n.symbols, n.initial \ Q, n.final \ Q,
                  without(n.calls), without(n.internals), without(n.returns))

(* Removing. *)
removeStates(n, Q) ==
    LET without(T) == {t \in T : Ends(t) \cap Q = {}}
    IN  Automaton(n.states \ Q, n.symbols, n.initial \ Q, n.final \ Q,
                  without(n.calls), without(n.internals), without(n.returns))
removeSymbol(n, s) ==
    LET without(T) == {t \in T : t.sym # s}
    IN  IF s \notin n.symbols THEN n
        ELSE Automaton(n.states, n.symbols \ {s}, n.initial, n.final,
                       without(n.calls), without(n.internals), without(n.returns))

(* The tests before a removal: a WILD call or return never passes them.    *)
Known(n, t) == Ends(t) \subseteq n.states /\ t.sym \in n.symbols
removeCall(n, t) == IF Known(n, t) THEN [n EXCEPT !.calls = @ \ {t}] ELSE n
removeInternal(n, t) ==
    IF Known(n, t) \/ t.sym \in {EPSILON, WILD} THEN [n EXCEPT !.internals = @ \ {t}] ELSE n
removeReturn(n, t) == IF Known(n, t) THEN [n EXCEPT !.returns = @ \ {t}] ELSE n

(* What removing the returns of an exit, a symbol and a return site may    *)
(* leave, whatever their call predecessors: only one of them is removed.   *)
removeReturnsOf(n, e) ==
    LET such == {t \in n.returns : Edge(t.from, t.sym, t.to) = e}
    IN  IF such = {} \/ ~Known(n, e) THEN {n}
        ELSE {[n EXCEPT !.returns = @ \ {t}] : t \in such}

(* Copies: of every mention of a state, or of the outgoing ones and of     *)
(* those as a call predecessor.                                            *)
Copied(T, orig, dup, fields) ==
    LET as(q, f) == IF q = orig /\ f \in fields THEN {orig, dup} ELSE {q}
        copies(t) == IF "pred" \in DOMAIN t
                     THEN {Return(x, y, t.sym, z) : x \in as(t.from, "from"),
                              y \in as(t.pred, "pred"), z \in as(t.to, "to")}
                     ELSE {Edge(x, t.sym, z) : x \in as(t.from, "from"), z \in as(t.to, "to")}
    IN  UNION {copies(t) : t \in T}
Duplicated(n, orig, dup, fields) ==
    LET as(Q) == IF orig \in Q THEN Q \cup {dup} ELSE Q
        copied(T) == Copied(T, orig, dup, fields)
    IN  Automaton(n.states \cup {dup}, n.symbols, as(n.initial), as(n.final),
                  copied(n.calls), copied(n.internals), copied(n.returns))
duplicateState(n, orig, dup) == Duplicated(n, orig, dup, {"from", "pred", "to"})
duplicateStateOutgoing(n, orig, dup) == Duplicated(n, orig, dup, {"from", "pred"})

(* A transition into stuck wherever there is none.  stuck joins the states *)
(* during the iteration over them: it is met as a state if its key comes   *)
(* late, and the pairs of a state and a symbol in early are done without   *)
(* it, so they get no return whose call left from it.                      *)
Has(T, x) == \E t \in T : t.from = x[1] /\ t.sym \in {x[2], WILD}
Called(n, x, Q) == {p \in Q : ~Has({t \in n.returns : t.pred = p}, x)}
realizeImplicitTrans(n, stuck, met, early) ==
    LET all == n.states \cup {stuck}
        pairs == (IF met THEN all ELSE n.states) \X n.symbols
        into(T) == {Edge(x[1], x[2], stuck) : x \in {y \in pairs : ~Has(T, y)}}
        preds(x) == Called(n, x, IF x \in early THEN n.states ELSE all)
        returns == UNION {{Return(x[1], p, x[2], stuck) : p \in preds(x)} : x \in pairs}
    IN  addReturns(addInternals(addCalls(n, into(n.calls)), into(n.internals)), returns)

(* What early may be: pairs that lack nothing, and at most one whose first *)
(* missing return brings stuck in behind the iteration over predecessors.  *)
EarlyPairs(n) ==
    LET done == {x \in n.states \X n.symbols : Has(n.calls, x) /\ Has(n.internals, x)}
        lacking == {x \in done : Called(n, x, n.states) # {}}
    IN  {E \in SUBSET done : Cardinality(E \cap lacking) <= 1}

projectStates(n, Q) == removeStates(n, n.states \ Q)

(* States nothing leaves but to themselves, unless they are final.         *)
removeImplicitTransitions(n) ==
    LET left == {t.from : t \in {u \in n.calls \cup n.internals \cup n.returns : u.from # u.to}}
    IN  removeStates(n, (n.states \ left) \ n.final)

(* Reachability over all transitions; a return needs exit and call both.   *)
Ahead(n, Q) ==
    Q \cup {t.to : t \in {u \in n.calls \cup n.internals : u.from \in Q}}
      \cup {t.to : t \in {u \in n.returns : {u.from, u.pred} \subseteq Q}}
(* Mutated form of Behind: what a return pops is forgotten. *)
Behind_NoPred(n, Q) ==
    Q \cup {t.from : t \in {u \in n.calls \cup n.internals \cup n.returns : u.to \in Q}}
Behind(n, Q) ==
    Q \cup {t.from : t \in {u \in n.calls \cup n.internals : u.to \in Q}}
      \cup UNION {{t.from, t.pred} : t \in {u \in n.returns : u.to \in Q}}
pruneUnreachableForward(n, sources) ==
    projectStates(n, Fix(LAMBDA Q : Ahead(n, Q), SUBSET n.states, sources))
pruneUnreachableBackward(n, targets) ==
    projectStates(n, Fix(LAMBDA Q : Behind(n, Q), SUBSET n.states, targets))
chop(n) == LET fwd == pruneUnreachableForward(n, n.initial)
           IN  pruneUnreachableBackward(fwd, fwd.final)

(* Where epsilon transitions lead, the state itself included.              *)
epsilonClosure(n, q) ==
    Fix(LAMBDA Q : Q \cup {t.to : t \in {u \in n.internals : u.from \in Q /\ u.sym = EPSILON}},
        SUBSET n.states, {q})

(* At most one way on, seen through each symbol of the alphabet.           *)
AtMostOne(T) == Cardinality(T) <= 1
isDeterministic(n) ==
    /\ AtMostOne(n.initial)
    /\ \A t \in n.internals : t.sym # EPSILON
    /\ \A s \in n.symbols, q \in n.states :
         /\ AtMostOne({t \in n.calls : t.from = q /\ t.sym \in {s, WILD}})
         /\ AtMostOne({t \in n.internals : t.from = q /\ t.sym \in {s, WILD}})
         /\ \A p \in n.states :
              AtMostOne({t \in n.returns : t.from = q /\ t.pred = p /\ t.sym \in {s, WILD}})

(* What every automaton is: its transitions run between its states, over   *)
(* symbols of its alphabet, EPSILON on internal ones only.                 *)
Within(T, Q, S) == \A t \in T : Ends(t) \subseteq Q /\ t.sym \in S \cup {EPSILON, WILD}
Visible(T) == \A t \in T : t.sym # EPSILON
WellFormed(n) ==
    /\ n = Automaton(n.states, n.symbols, n.initial, n.final, n.calls, n.internals, n.returns)
    /\ n.initial \cup n.final \subseteq n.states
    /\ n.symbols \cap {EPSILON, WILD} = {}
    /\ Within(n.calls \cup n.internals \cup n.returns, n.states, n.symbols)
    /\ Visible(n.calls \cup n.returns)

(* Calls and internal transitions are edges; a return has a pred too.      *)
Shaped(n) ==
    /\ \A t \in n.calls \cup n.internals : t = Edge(t.from, t.sym, t.to)
    /\ \A t \in n.returns : t = Return(t.from, t.pred, t.sym, t.to)
==============================================================================
