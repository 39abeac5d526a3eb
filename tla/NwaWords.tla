------------------------------ MODULE NwaWords ------------------------------
(***************************************************************************)
(* Nested words and the run of a nested word automaton on one              *)
(* (Nwa::isMemberNondet), and the languages the constructions are measured *)
(* against, cut at the length MaxLength.  A configuration is the state and *)
(* the stack of the states the open calls left from.                       *)
(***************************************************************************)
EXTENDS Nwa, SequencesExt

CONSTANTS Alphabet,   \* the symbols of the words
          MaxLength   \* the longest words looked at

ASSUME AlphabetAssumption == MaxLength \in Nat /\ Alphabet = Letters(Alphabet)

Kinds == {"call", "internal", "return"}
Positions == [kind : Kinds, sym : Alphabet]

(* The configurations one position leads to, over the symbols as.          *)
Closed(n, C) == UNION {{<<q, c[2]>> : q \in epsilonClosure(n, c[1])} : c \in C}
Pops(n, t, stack) == IF stack = <<>> THEN t.pred \in n.initial ELSE t.pred = Head(stack)
Read(n, C, kind, as) ==
    LET moves(T) == {m \in C \X T : m[2].from = m[1][1] /\ m[2].sym \in as}
    IN  CASE kind = "call" -> {<<m[2].to, <<m[1][1]>> \o m[1][2]>> : m \in moves(n.calls)}
          [] kind = "internal" -> {<<m[2].to, m[1][2]>> : m \in moves(n.internals)}
          [] kind = "return" ->
               {<<m[2].to, IF m[1][2] = <<>> THEN <<>> ELSE Tail(m[1][2])>> :
                  m \in {x \in moves(n.returns) : Pops(n, x[2], x[1][2])}}
Start(n) == {<<q, <<>>>> : q \in n.initial}
Accepting(n, C) == \E c \in Closed(n, C) : c[1] \in n.final

(* The configurations after each number of positions of w, and acceptance, *)
(* where a transition over a symbol of wild matches every symbol.          *)
Configurations(n, w, wild) ==
    LET after[k \in 0..Len(w)] ==
          IF k = 0 THEN Start(n)
          ELSE Read(n, Closed(n, after[k - 1]), w[k].kind, {w[k].sym} \cup wild)
    IN  after
Accepts(n, w, wild) == Accepting(n, Configurations(n, w, wild)[Len(w)])

(* languageContains, which looks transitions up by the very symbol read.   *)
isMemberNondet(n, w) == Accepts(n, w, {})

(* The language of the documentation, where a WILD matches any symbol: the *)
(* words that keep some configuration alive, with all of them.             *)
Extensions(n, X) ==
    {x \in {<<Append(y[1], p), Read(n, Closed(n, y[2]), p.kind, {p.sym, WILD})>> :
              y \in X, p \in Positions} : x[2] # {}}
Runs(n) ==
    LET runs[k \in 0..MaxLength] ==
          IF k = 0 THEN {<<(<<>>), Start(n)>>}
          ELSE LET X == runs[k - 1] IN X \cup Extensions(n, {x \in X : Len(x[1]) = k - 1})
    IN  runs[MaxLength]
Words(n) == {x[1] : x \in {y \in Runs(n) : Accepting(n, y[2])}}
AllWords == UNION {[1..k -> Positions] : k \in 0..MaxLength}

(* Shapes of a word: the calls open after each number of positions; a      *)
(* return pends if no call is open at it, a call if no return closes it.   *)
Opens(w) ==
    LET open[k \in 0..Len(w)] ==
          IF k = 0 THEN 0
          ELSE LET o == open[k - 1]
               IN  CASE w[k].kind = "call" -> o + 1
                     [] w[k].kind = "internal" -> o
                     [] w[k].kind = "return" -> IF o = 0 THEN 0 ELSE o - 1
    IN  open
PendingReturn(w) == \E k \in DOMAIN w : w[k].kind = "return" /\ Opens(w)[k - 1] = 0
PendingCall(w) == Opens(w)[Len(w)] > 0
Balanced(w) == ~PendingReturn(w) /\ ~PendingCall(w)

(* The languages of the constructions.                                     *)
Short(w) == Len(w) <= MaxLength
Catenations(V, W) == {w \in {v \o u : v \in V, u \in W} : Short(w)}
Closure(W) == Fix(LAMBDA V : V \cup Catenations(V, W), SUBSET Seq(Positions), {<<>>})
Flip(p) == [p EXCEPT !.kind = CASE @ = "call" -> "return"
                                [] @ = "internal" -> "internal"
                                [] @ = "return" -> "call"]
Mirrored(W) == {Reverse([i \in DOMAIN w |-> Flip(w[i])]) : w \in W}
==============================================================================
