----------------------------- MODULE NwaSession -----------------------------
(***************************************************************************)
(* A client of opennwa: it edits an automaton in place, and hands it to a  *)
(* construction together with another one, whose result it looks at and    *)
(* drops.                                                                  *)
(***************************************************************************)
EXTENDS NwaConstruct, NwaWords

CONSTANTS Starts,                     \* the automata a session starts from
          Args,                       \* the second arguments of constructions
          Calls, Internals, Returns,  \* the transitions the client may add
          Fresh,                      \* the key of a duplicate or stuck state
          MaxTrans                    \* bound on the transitions it builds and constructs from

ASSUME SessionAssumption ==
    /\ \A n \in Starts \cup Args : WellFormed(n) /\ Shaped(n) /\ IsFiniteSet(n.states)
    /\ Visible(Calls \cup Returns)
    /\ Shaped(Automaton({}, {}, {}, {}, Calls, Internals, Returns))

(* The keys the states of the edited automaton may have.  star asserts     *)
(* that the key it starts from is none of them, and the others it makes    *)
(* are pairs of one of them and a mark.                                    *)
StateKeys == {Fresh} \cup (UNION {n.states : n \in Starts})
                     \cup (UNION {Ends(t) : t \in Calls \cup Internals \cup Returns})
ASSUME KeyAssumption == plain # prime /\ starStart \notin StateKeys \cup (StateKeys \X Sides)

VARIABLES nwa,  \* the automaton the client edits
          arg,  \* the other automaton
          op,   \* the construction out is the result of, or "none"
          out   \* its result

vars == <<nwa, arg, op, out>>

Size(n) == Cardinality(n.calls) + Cardinality(n.internals) + Cardinality(n.returns)

Init == nwa \in Starts /\ arg \in Args /\ op = "none" /\ out = NoNwa

Edit(n) == op = "none" /\ nwa' = n /\ UNCHANGED <<arg, op, out>>

AddTrans ==
    /\ Size(nwa) < MaxTrans /\ Fresh \notin nwa.states
    /\ \/ \E t \in Calls : Edit(addCalls(nwa, {t}))
       \/ \E t \in Internals : Edit(addInternals(nwa, {t}))
       \/ \E t \in Returns : Edit(addReturns(nwa, {t}))

RemoveTrans ==
  /\ Fresh \notin nwa.states
  /\ \/ \E t \in nwa.calls : Edit(removeCall(nwa, t))
     \/ \E t \in nwa.internals : Edit(removeInternal(nwa, t))
     \/ \E t \in nwa.returns : Edit(removeReturn(nwa, t))
     \/ \E t \in nwa.returns : \E n \in removeReturnsOf(nwa, Edge(t.from, t.sym, t.to)) : Edit(n)

RemoveState == \E q \in nwa.states : Edit(removeStates(nwa, {q}))
RemoveSymbol == \E s \in nwa.symbols : Edit(removeSymbol(nwa, s))

Duplicate ==
    /\ Fresh \notin nwa.states
    /\ \E q \in nwa.states : \/ Edit(duplicateState(nwa, q, Fresh))
                             \/ Edit(duplicateStateOutgoing(nwa, q, Fresh))
Realize ==
    /\ Fresh \notin nwa.states
    /\ \E met \in BOOLEAN, early \in EarlyPairs(nwa) : Edit(realizeImplicitTrans(nwa, Fresh, met, early))
RemoveImplicit == Edit(removeImplicitTransitions(nwa))
Prune ==
    \/ Edit(pruneUnreachableForward(nwa, nwa.initial))
    \/ Edit(pruneUnreachableBackward(nwa, nwa.final))
    \/ Edit(chop(nwa))

(* Edits that are to keep the language, and the other ones.                *)
Keeping == Duplicate \/ Realize \/ RemoveImplicit \/ Prune
Changing == AddTrans \/ RemoveTrans \/ RemoveState \/ RemoveSymbol

Construct(name, n) ==
    /\ op = "none" /\ Size(nwa) <= MaxTrans /\ Fresh \notin nwa.states
    /\ op' = name /\ out' = n /\ UNCHANGED <<nwa, arg>>

Union == ~statesOverlap(nwa, arg) /\ Construct("union", unionNwa(nwa, arg))
Concat == ~statesOverlap(nwa, arg) /\ Construct("concat", concat(nwa, arg))
Star == Construct("star", star(nwa))
Reversal == Construct("reverse", reverse(nwa))
Determinization == ReturnsDisjoint(nwa) /\ Construct("determinize", determinize(nwa))
Complementation == ReturnsDisjoint(nwa) /\ Construct("complement", complement(nwa))
Intersection == Construct("intersect", intersect(nwa, arg))
Quotient == Construct("quotient", quotient(nwa, {nwa.states}))

(* The client drops the result.                                            *)
Drop == op # "none" /\ op' = "none" /\ out' = NoNwa /\ UNCHANGED <<nwa, arg>>

Next ==
    \/ Keeping \/ Changing
    \/ Union \/ Concat \/ Star \/ Reversal
    \/ Determinization \/ Complementation \/ Intersection \/ Quotient
    \/ Drop

Spec == Init /\ [][Next]_vars
-----------------------------------------------------------------------------
(* nwa and every result are automata: transitions run between states, over *)
(* symbols of the alphabet, EPSILON on internal ones only.                 *)
TypeOK == WellFormed(nwa) /\ WellFormed(arg) /\ WellFormed(out) /\ (op = "none" => out = NoNwa)

(* Words over the symbols the automata at hand know.                       *)
Over(W, S) == {w \in W : \A i \in DOMAIN w : w[i].sym \in S}
NoPendingReturn(W) == {w \in W : ~PendingReturn(w)}
NoPendingCall(W) == {w \in W : ~PendingCall(w)}

(* No initial state starts with an EPSILON transition out of them.         *)
StartsClosed(n) == \A q \in n.initial : epsilonClosure(n, q) \subseteq n.initial
OneCallPerReturn(n) == \A t \in n.returns, r \in n.returns : t.to = r.to => t.pred = r.pred

(* union, concat, star, intersect, reverse and quotient build the language *)
(* they are named for.  A concatenation or an intersection may be wrong on *)
(* words with a pending return: the first lacks some, the second has too   *)
(* many, and only if an EPSILON transition leaves an initial state.  A     *)
(* reversal loses no balanced word, and has no other if no return site     *)
(* serves two call sites.                                                  *)
Combined(V, W, X) ==
    CASE op = "union" -> X = V \cup W
      [] op = "concat" -> LET ref == Catenations(V, W)
                          IN  X \subseteq ref /\ NoPendingReturn(X) = NoPendingReturn(ref)
      [] op = "star" -> X = Closure(V)
      [] op = "intersect" -> /\ V \cap W \subseteq X
                             /\ NoPendingReturn(X) \subseteq V \cap W
                             /\ StartsClosed(nwa) /\ StartsClosed(arg) => X = V \cap W
      [] op = "reverse" -> LET B == {w \in X : Balanced(w)}
                               ref == {w \in Mirrored(V) : Balanced(w)}
                           IN  ref \subseteq B /\ (OneCallPerReturn(nwa) => B = ref)
      [] op = "quotient" -> V \subseteq X
      [] OTHER -> TRUE
BuildsItsLanguage == Combined(Words(nwa), Words(arg), Words(out))

(* Determinizing yields a deterministic automaton that has every word of   *)
(* the first, and no other without a pending call; its complement has the  *)
(* words it has not.  The words of both are those languageContains finds.  *)
Deterministic == op \in {"determinize", "complement"} => isDeterministic(out)
Opposed(V, X) ==
    CASE op = "determinize" -> V \subseteq X /\ NoPendingCall(X) = NoPendingCall(V)
      [] op = "complement" -> V \cap X = {} /\ NoPendingCall(Over(AllWords, nwa.symbols)) \subseteq V \cup X
DeterminizesItsLanguage ==
    op \in {"determinize", "complement"} =>
      /\ Deterministic
      /\ Opposed(Over(Words(nwa), nwa.symbols), {w \in AllWords : isMemberNondet(out, w)})

(* Duplicating a state, realizing the implicit transitions, pruning and    *)
(* chopping keep the language; removing implicit transitions keeps what    *)
(* has no pending return and adds nothing.  (One that leaves the states as *)
(* they are leaves everything as it is.)                                   *)
LosesPendingOnly(V, W) == W \subseteq V /\ NoPendingReturn(W) = NoPendingReturn(V)
EditsKeepLanguage ==
    [][nwa'.states # nwa.states =>
         /\ Duplicate \/ Realize \/ Prune => Words(nwa') = Words(nwa)
         /\ RemoveImplicit => LosesPendingOnly(Words(nwa), Words(nwa'))]_vars

(* languageIsEmpty finds out whether there is a word.  languageSubsetEq    *)
(* misses no word without a pending call that only the first automaton     *)
(* has, and invents none unless an EPSILON transition leaves an initial    *)
(* state of it.                                                            *)
SubsetDecided(V, W) ==
    IF languageSubsetEq(nwa, arg) THEN NoPendingCall(Over(V, nwa.symbols)) \subseteq W
    ELSE StartsClosed(nwa) => ~(V \subseteq W)
DecisionsAgree ==
    op = "none" /\ Size(nwa) <= MaxTrans =>
      /\ languageIsEmpty(nwa) <=> Words(nwa) = {}
      /\ ReturnsDisjoint(arg) => SubsetDecided(Words(nwa), Words(arg))

(* construct/determinize.hpp says of determinize that it "constructs a     *)
(* deterministic NWA that is equivalent to the given NWA".                 *)
DeterminizedIsEquivalent == op = "determinize" => Words(out) = Over(Words(nwa), nwa.symbols)
==============================================================================
