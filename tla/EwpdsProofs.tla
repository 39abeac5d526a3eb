---------------------------- MODULE EwpdsProofs -----------------------------
(***************************************************************************)
(* A session with an EWPDS, for any rules, merge functions, weights and    *)
(* worklist order: the merge functions of rules with one right-hand side   *)
(* agree, prestar marks the summaries as ETrans, and both queries return   *)
(* solutions of their equations, with a merge at every return.             *)
(***************************************************************************)
EXTENDS EwpdsInv, WfaTheorems

(* A merge function gives a weight, piece by piece in what it returns from. *)
LEMMA MergeSums ==
    ASSUME NEW m \in Merge, NEW a \in Weight
    PROVE  /\ apply_f(m, a, Zero) = Zero
           /\ \A b \in Weight : apply_f(m, a, b) \in Weight
           /\ \A b, c \in Weight :
                 apply_f(m, a, Combine(b, c)) = Combine(apply_f(m, a, b), apply_f(m, a, c))
<1>1. CASE \E w \in Weight : m = MergeFn(w)
  <2>1. PICK w \in Weight : m = MergeFn(w)
    BY <1>1
  <2>2. \A b : apply_f(m, a, b) = Extend(a, Extend(w, b))
    BY <2>1 DEF apply_f, MergeFn
  <2>3. Extend(a, Extend(w, Zero)) = Zero
    BY ExtendLaws
  <2>4. ASSUME NEW b \in Weight, NEW c \in Weight
        PROVE  /\ Extend(a, Extend(w, b)) \in Weight
               /\ Extend(a, Extend(w, Combine(b, c)))
                    = Combine(Extend(a, Extend(w, b)), Extend(a, Extend(w, c)))
    <3>1. Extend(w, b) \in Weight /\ Extend(w, c) \in Weight
      BY WeightClosed
    <3>2. Extend(w, Combine(b, c)) = Combine(Extend(w, b), Extend(w, c))
      BY Distributes
    <3>3. QED
      BY <3>1, <3>2, WeightClosed, Distributes
  <2>5. QED
    BY <2>2, <2>3, <2>4
<1>2. CASE \E n \in Client : m = ClientFn(n)
  <2>1. PICK n \in Client : m = ClientFn(n)
    BY <1>2
  <2>2. \A b : apply_f(m, a, b) = ClientApply(n, a, b)
    BY <2>1, MergeAssumption DEF apply_f, ClientFn
  <2>3. QED
    BY <2>2, MergeAssumption
<1>3. QED
  BY <1>1, <1>2 DEF Merge

(* What the parts of a rule are. *)
LEMMA RuleParts ==
    ASSUME TypeOK, NEW r \in rules
    PROVE  /\ r.from \in P /\ r.to \in P
           /\ r.stk \in Stack /\ r.stk1 \in Symbol /\ r.stk2 \in Symbol
           /\ r.weight \in Weight /\ r.merge \in Merge \cup {NoMerge}
           /\ r.stk1 = EPS => r.stk2 = EPS
           /\ IsPush(r) => r.stk1 \in Stack /\ r.stk2 \in Stack /\ r.merge \in Merge
           /\ r.stk # EPS
<1>1. r \in ERule
  BY DEF TypeOK
<1>2. QED
  BY <1>1, WfaAssumption DEF ERule, IsPush, Symbol

(* The transitions a rule asks poststar for have the shape of transitions. *)
LEMMA TargetParts ==
    ASSUME TypeOK, NEW r \in rules, gen \in 1..MaxGeneration, NEW t \in Key
    PROVE  /\ Callee(r, t.to) \in Key /\ Callee(r, t.to).from = r.to
           /\ Callee(r, t.to).stk = r.stk1 /\ Callee(r, t.to).to = t.to
           /\ IsPush(r) => /\ Mid(t, r) \in Key /\ Entry(r) \in Key
                           /\ gen_state(gen, r.to, r.stk1) \in GenState
                           /\ gen_state(gen, r.to, r.stk1).gen = gen
                           /\ Mid(t, r).from = gen_state(gen, r.to, r.stk1)
                           /\ Mid(t, r).stk = r.stk2 /\ Mid(t, r).to = t.to
                           /\ OfThisQuery(Mid(t, r).from) /\ Mid(t, r).from \notin P
                           /\ Entry(r).from = r.to /\ Entry(r).stk = r.stk1
                           /\ Entry(r).to = gen_state(gen, r.to, r.stk1)
                           /\ Entry(r).to \notin P
                           /\ Mid(t, r).stk # EPS /\ Entry(r).stk # EPS
           /\ RuleTarget(t, r) \in Key
<1> DEFINE g == gen_state(gen, r.to, r.stk1)
<1>1. /\ r.to \in P /\ r.stk1 \in Symbol /\ r.stk2 \in Symbol
      /\ IsPush(r) => r.stk1 \in Stack /\ r.stk2 \in Stack
  BY RuleParts
<1>2. IsPush(r) => g \in GenState /\ g.gen = gen
  BY <1>1 DEF GenState, gen_state
<1>3. /\ Callee(r, t.to) \in Key /\ Callee(r, t.to).from = r.to
      /\ Callee(r, t.to).stk = r.stk1 /\ Callee(r, t.to).to = t.to
  BY <1>1 DEF Callee, Key, State
<1>4. ASSUME IsPush(r)
      PROVE  /\ Mid(t, r) \in Key /\ Mid(t, r).from = g /\ Mid(t, r).to = t.to
             /\ Mid(t, r).stk = r.stk2
             /\ Entry(r) \in Key /\ Entry(r).from = r.to /\ Entry(r).to = g
             /\ Entry(r).stk = r.stk1
  BY <1>1, <1>2, <1>4 DEF Mid, Entry, Callee, Key, State, Symbol
<1>5. ASSUME IsPush(r)
      PROVE  g \notin P /\ r.stk1 # EPS /\ r.stk2 # EPS
  BY <1>1, <1>2, <1>5, WfaAssumption
<1> HIDE DEF g
<1>6. QED
  BY <1>2, <1>3, <1>4, <1>5 DEF RuleTarget, OfThisQuery, g

(* What update_etrans makes of the ETrans. *)
LEMMA SummaryFacts ==
    ASSUME NEW A, NEW c, NEW K, CallOf(A.trans, c)
    PROVE  LET d == SummaryTrans(A, c, K) IN
           /\ DOMAIN d = DOMAIN c \cup (K \ A.trans)
           /\ \A k \in DOMAIN c : d[k] = c[k]
           /\ CallOf(A.trans \cup K, d)
<1> DEFINE all == DOMAIN c \cup (K \ A.trans)
           new == [at |-> Zero, merge |-> NoMerge]
           d == [k \in all |-> IF k \in DOMAIN c THEN c[k] ELSE new]
           Info == [at : Weight, merge : Merge \cup {NoMerge}]
<1>1. d = SummaryTrans(A, c, K)
  BY DEF SummaryTrans
<1>2. new \in Info
  BY WeightClosed
<1>3. \A k \in DOMAIN c : c[k] \in Info
  BY DEF CallOf
<1>4. \A k \in all : d[k] \in Info
  BY <1>2, <1>3
<1>5. d \in [all -> Info]
  BY <1>4
<1>6. DOMAIN d = all /\ \A k \in DOMAIN c : d[k] = c[k]
  OBVIOUS
<1> HIDE DEF d, new
<1>7. CallOf(A.trans \cup K, d)
  BY <1>5, <1>6 DEF CallOf
<1>8. QED
  BY <1>1, <1>6, <1>7

(* What update_prime makes of them: the weight at the call grows. *)
LEMMA CallAfterFacts ==
    ASSUME NEW T, NEW c, NEW mid, NEW r, NEW d \in Weight,
           CallOf(T, c), r.merge \in Merge
    PROVE  LET c2 == CallAfter(c, mid, r, d) IN
           /\ DOMAIN c2 = DOMAIN c \cup {mid}
           /\ \A k \in DOMAIN c : c2[k].merge = c[k].merge
           /\ \A k \in DOMAIN c \ {mid} : c2[k] = c[k]
           /\ mid \notin DOMAIN c => c2[mid].merge = r.merge
           /\ c2[mid].at = Combine(AtCall(c, mid), d)
           /\ CallOf(T \cup {mid}, c2)
<1> DEFINE all == DOMAIN c \cup {mid}
           Info == [at : Weight, merge : Merge \cup {NoMerge}]
           c2 == CallAfter(c, mid, r, d)
<1>1. \A k \in DOMAIN c : c[k] \in Info
  BY DEF CallOf
<1>2. /\ DOMAIN c2 = all
      /\ \A k \in DOMAIN c \ {mid} : c2[k] = c[k]
      /\ mid \notin DOMAIN c => c2[mid] = [at |-> d, merge |-> r.merge]
      /\ mid \in DOMAIN c => c2[mid] = [c[mid] EXCEPT !.at = Combine(@, d)]
      /\ c2 = [k \in all |-> c2[k]]
  BY DEF CallAfter
<1> HIDE DEF c2
<1>3. ASSUME mid \in DOMAIN c
      PROVE  /\ c2[mid] \in Info
             /\ c2[mid].merge = c[mid].merge
             /\ c2[mid].at = Combine(AtCall(c, mid), d)
  <2>1. /\ c[mid] \in Info /\ c[mid].at \in Weight /\ AtCall(c, mid) = c[mid].at
        /\ Combine(c[mid].at, d) \in Weight
    BY <1>1, <1>3, WeightClosed DEF AtCall
  <2>2. c2[mid] = [at |-> Combine(c[mid].at, d), merge |-> c[mid].merge]
    BY <1>2, <1>3, <2>1
  <2>3. QED
    BY <2>1, <2>2
<1>4. ASSUME mid \notin DOMAIN c
      PROVE  /\ c2[mid] \in Info
             /\ c2[mid].merge = r.merge
             /\ c2[mid].at = Combine(AtCall(c, mid), d)
  <2>1. Combine(Zero, d) = d
    BY CombineLaws, WeightClosed
  <2>2. QED
    BY <1>2, <1>4, <2>1 DEF AtCall
<1>5. \A k \in all : c2[k] \in Info
  BY <1>1, <1>2, <1>3, <1>4
<1>6. c2 \in [all -> Info]
  BY <1>2, <1>5
<1>7. CallOf(T \cup {mid}, c2)
  BY <1>2, <1>6 DEF CallOf
<1>8. \A k \in DOMAIN c : c2[k].merge = c[k].merge
  BY <1>2, <1>3
<1>9. QED
  BY <1>2, <1>3, <1>4, <1>7, <1>8 DEF c2
-----------------------------------------------------------------------------
(***************************************************************************)
(* The shape of the automaton.  A step that adds transitions keeps it when *)
(* what it adds has it and the ETrans there were stay ETrans.              *)
(***************************************************************************)
LEMMA ShapeKept ==
    ASSUME NEW A, NEW c, ShapeOf(A, c),
           NEW B, NEW d,
           \A k \in A.trans : \/ ShapedOf(k, d)
                              \/ /\ k \in DOMAIN d <=> k \in DOMAIN c
                                 /\ k \in DOMAIN c => d[k].merge = c[k].merge,
           \A k \in B.trans \ A.trans : /\ ShapedOf(k, d)
                                        /\ AllFromControl => (k.stk = EPS => k.from \in P)
    PROVE  ShapeOf(B, d)
<1>1. \A k \in B.trans : ShapedOf(k, d)
  <2> SUFFICES ASSUME NEW k \in B.trans PROVE ShapedOf(k, d)
    OBVIOUS
  <2>1. CASE k \in A.trans
    BY <2>1 DEF ShapeOf, ShapedOf
  <2>2. QED
    BY <2>1
<1>2. EpsKeptOut(B.trans)
  BY DEF ShapeOf, EpsKeptOut
<1>3. QED
  BY <1>1, <1>2 DEF ShapeOf

(* What the invariant says while a query runs. *)
LEMMA WhileSaturating ==
    ASSUME ShapeInv, pc = "saturate"
    PROVE  /\ TypeOK /\ gen \in 1..MaxGeneration /\ gen = input.gen + 1
           /\ IsAutomaton(fa) /\ CallOf(fa.trans, call) /\ ShapeOf(fa, call)
           /\ dnew \in Weight /\ quasi \in [GenState -> Weight] /\ cur \in Key \cup {NoKey}
           /\ query \in {"post", "pre"}
           /\ InputOK([trans |-> input.trans, weight |-> input.weight, gen |-> input.gen])
<1>1. /\ gen = input.gen + 1 /\ input.gen \in Generation /\ gen \in Generation
      /\ query \in {"post", "pre"}
  BY DEF ShapeInv, TypeOK, PhaseOK, InputReady, IsInput
<1>2. gen \in 1..MaxGeneration
  BY <1>1, WfaAssumption DEF Generation
<1>3. QED
  BY <1>1, <1>2 DEF ShapeInv, TypeOK, InputReady

(* The job of a step of the loop. *)
JobOK(T, job) ==
    job.todo # {} \/ job.calls # {} =>
        /\ job.cur \in T
        /\ query = "post" => /\ job.cur.stk # EPS /\ job.calls = {}
                             /\ job.todo \subseteq ForwardRules(rules, job.cur.from, job.cur.stk)
        /\ query = "pre" => /\ job.todo \subseteq BackwardRules(rules, job.cur.from, job.cur.stk)
                            /\ job.calls \subseteq CallRules(rules, job.cur.stk)

(* A step of the loop keeps the invariant when it keeps what concerns fa. *)
LEMMA ShapeStep ==
    ASSUME ShapeInv, pc = "saturate", pc' \in {"saturate", "aborted"},
           UNCHANGED <<database, input, gen, query>>,
           quasi' \in [GenState -> Weight], cur' \in Key \cup {NoKey}, dnew' \in Weight,
           IsAutomaton(fa'), CallOf(fa'.trans, call'),
           pc' = "saturate" => ShapeOf(fa', call'),
           pc' = "aborted" => query = "pre" /\ DOMAIN input.call # {},
           JobOK(fa'.trans, [cur |-> cur', dnew |-> dnew', todo |-> todo', calls |-> calls'])
    PROVE  ShapeInv'
<1>1. \/ todo' = {} /\ calls' = {}
      \/ /\ cur' \in fa'.trans
         /\ query = "post" => /\ cur'.stk # EPS /\ calls' = {}
                              /\ todo' \subseteq ForwardRules(rules, cur'.from, cur'.stk)
         /\ query = "pre" => /\ todo' \subseteq BackwardRules(rules, cur'.from, cur'.stk)
                             /\ calls' \subseteq CallRules(rules, cur'.stk)
  BY DEF JobOK
<1>2. todo' \subseteq rules /\ calls' \subseteq rules
  BY <1>1, WhileSaturating DEF ForwardRules, BackwardRules, CallRules
<1>3. TypeOK'
  BY <1>2 DEF ShapeInv, TypeOK, database
<1>4. InputReady'
  BY DEF ShapeInv, InputReady, EpsKeptOut
<1>5. PhaseOK'
  BY <1>1 DEF ShapeInv, PhaseOK, database
<1>6. pc' = "saturate" => ShapeOf(fa, call)'
  BY DEF ShapeOf, EpsKeptOut, ShapedOf
<1>7. QED
  BY <1>3, <1>4, <1>5, <1>6 DEF ShapeInv

(* The rules still to handle, one of them done. *)
LEMMA JobDone ==
    ASSUME ShapeInv, NEW T, fa.trans \subseteq T, NEW R \in SUBSET todo, NEW C \in SUBSET calls
    PROVE  JobOK(T, [cur |-> cur, dnew |-> dnew, todo |-> R, calls |-> C])
BY DEF ShapeInv, PhaseOK, JobOK

(* One update of one transition. *)
LEMMA UpdateAt ==
    ASSUME NEW A, IsAutomaton(A), NEW k \in Key, NEW w \in Weight
    PROVE  LET B == Update(A, At(k, w)) IN
           /\ IsAutomaton(B) /\ B.trans = A.trans \cup {k}
           /\ Evolves(A, B) /\ Noted(A, B)
           /\ W(B, k) = Combine(W(A, k), w) /\ Leq(w, W(B, k))
           /\ \A x : x # k => SameAt(A, B, x)
<1> DEFINE ins == At(k, w)
           B == Update(A, ins)
<1>1. {k} \in SUBSET Key /\ ins \in [{k} -> Weight] /\ ins[k] = w
  BY DEF At
<1> HIDE DEF ins
<1>2. /\ IsAutomaton(B)
      /\ B.trans = A.trans \cup {k}
      /\ \A x : x \in B.marked <=> x \in A.marked \/ (x \in {k} /\ Modified(A, x, ins[x]))
      /\ \A x \in {k} : /\ W(B, x) = WeightAfter(A, x, ins[x])
                        /\ D(B, x) = DeltaAfter(A, x, ins[x])
      /\ \A x : x \notin {k} => SameAt(A, B, x)
  BY <1>1, UpdateFacts
<1>3. Evolves(A, B) /\ Noted(A, B) /\ \A x \in {k} : Leq(ins[x], W(B, x))
  BY <1>1, UpdateEvolves, UpdateNoted
<1> HIDE DEF B
<1>4. QED
  BY <1>1, <1>2, <1>3 DEF B, ins, WeightAfter

(* What the closure makes of a transition behind a call is a weight, piece by piece. *)
LEMMA ThroughSums ==
    ASSUME NEW A, NEW c, IsAutomaton(A), CallOf(A.trans, c), NEW u \in A.trans,
           u \in DOMAIN c => c[u].merge \in Merge
    PROVE  /\ Through(A, c, u, Zero) = Zero
           /\ \A w \in Weight : Through(A, c, u, w) \in Weight
           /\ \A v, w \in Weight :
                 Through(A, c, u, Combine(v, w))
                   = Combine(Through(A, c, u, v), Through(A, c, u, w))
<1>1. CASE u \in DOMAIN c
  <2>1. c[u].merge \in Merge /\ c[u].at \in Weight
    BY <1>1 DEF CallOf
  <2> DEFINE m == c[u].merge
             at == c[u].at
  <2>2. \A w : Through(A, c, u, w) = apply_f(m, at, w)
    BY <1>1 DEF Through, poststar_eps_closure
  <2> HIDE DEF m, at
  <2>a. m \in Merge /\ at \in Weight
    BY <2>1 DEF m, at
  <2>3. /\ apply_f(m, at, Zero) = Zero
        /\ \A b \in Weight : apply_f(m, at, b) \in Weight
        /\ \A b, w \in Weight :
              apply_f(m, at, Combine(b, w)) = Combine(apply_f(m, at, b), apply_f(m, at, w))
    BY <2>a, MergeSums
  <2>4. QED
    BY <2>2, <2>3
<1>2. CASE u \notin DOMAIN c
  <2>1. A.weight[u] \in Weight
    BY DEF IsAutomaton
  <2> DEFINE x == A.weight[u]
  <2>2. \A w : Through(A, c, u, w) = Extend(x, w)
    BY <1>2 DEF Through, poststar_eps_closure
  <2>a. x \in Weight
    BY <2>1
  <2> HIDE DEF x
  <2>3. /\ Extend(x, Zero) = Zero
        /\ \A w \in Weight : Extend(x, w) \in Weight
        /\ \A v, w \in Weight :
              Extend(x, Combine(v, w)) = Combine(Extend(x, v), Extend(x, w))
    BY <2>a, WeightClosed, ExtendLaws, Distributes, ZenonT(60)
  <2>4. QED
    BY <2>2, <2>3
<1>3. QED
  BY <1>1, <1>2

(***************************************************************************)
(* The two epsilon closures: of a transition mid behind a call, and of all *)
(* that leaves the target of an epsilon transition e.                      *)
(***************************************************************************)
ClosureKeys(A, mid) == {[mid EXCEPT !.from = e.from] : e \in EpsInto(A, mid.from)}
Closure(A, c, mid) ==
    [x \in ClosureKeys(A, mid) |->
        Through(A, c, mid, A.weight[[from |-> x.from, stk |-> EPS, to |-> mid.from]])]
BypassKeys(A, e) == {[u EXCEPT !.from = e.from] : u \in Leaving(A, e.to)}
Bypasses(A, c, e, w) ==
    [x \in BypassKeys(A, e) |-> Through(A, c, [x EXCEPT !.from = e.to], w)]

(* The closure of mid, one transition for each epsilon transition behind it. *)
LEMMA ClosureFacts ==
    ASSUME NEW A, IsAutomaton(A), NEW c, CallOf(A.trans, c), NEW mid \in A.trans,
           mid \in DOMAIN c => c[mid].merge \in Merge
    PROVE  /\ ClosureKeys(A, mid) \in SUBSET Key
           /\ Closure(A, c, mid) \in [ClosureKeys(A, mid) -> Weight]
           /\ \A k \in ClosureKeys(A, mid) : \E e \in EpsInto(A, mid.from) :
                 /\ e \in A.trans /\ e.stk = EPS /\ e.to = mid.from
                 /\ k = Bypass(e, mid)
                 /\ k.from = e.from /\ k.stk = mid.stk /\ k.to = mid.to
           /\ \A e \in EpsInto(A, mid.from) :
                 /\ Bypass(e, mid) \in ClosureKeys(A, mid)
                 /\ Closure(A, c, mid)[Bypass(e, mid)] = Through(A, c, mid, W(A, e))
<1> DEFINE into == EpsInto(A, mid.from)
           K == ClosureKeys(A, mid)
           val(x) == Through(A, c, mid,
                             A.weight[[from |-> x.from, stk |-> EPS, to |-> mid.from]])
<1>1. mid \in Key
  BY DEF IsAutomaton
<1>2. ASSUME NEW e \in into
      PROVE  /\ e \in A.trans /\ e.stk = EPS /\ e.to = mid.from
             /\ [mid EXCEPT !.from = e.from] = Bypass(e, mid)
             /\ Bypass(e, mid) \in Key /\ Bypass(e, mid).from = e.from
             /\ Bypass(e, mid).stk = mid.stk /\ Bypass(e, mid).to = mid.to
             /\ e = [from |-> e.from, stk |-> EPS, to |-> mid.from]
             /\ A.weight[e] = W(A, e) /\ W(A, e) \in Weight
  <2>1. e \in A.trans /\ e.stk = EPS /\ e.to = mid.from /\ e \in Key
    BY DEF EpsInto, IsAutomaton
  <2>2. mid = [from |-> mid.from, stk |-> mid.stk, to |-> mid.to]
        /\ mid.stk \in Symbol /\ mid.to \in State /\ e.from \in State
    BY <1>1, <2>1 DEF Key
  <2>3. [mid EXCEPT !.from = e.from] = Bypass(e, mid)
    BY <2>2 DEF Bypass
  <2>4. Bypass(e, mid) \in Key
    BY <2>2 DEF Bypass, Key
  <2>5. e = [from |-> e.from, stk |-> EPS, to |-> mid.from]
    BY <2>1 DEF Key
  <2>6. A.weight[e] = W(A, e) /\ W(A, e) \in Weight
    BY <2>1, WeightTyped DEF W
  <2>7. QED
    BY <2>1, <2>3, <2>4, <2>5, <2>6 DEF Bypass
<1>3. K = {Bypass(e, mid) : e \in into}
  BY <1>2 DEF ClosureKeys
<1>4. \A w \in Weight : Through(A, c, mid, w) \in Weight
  BY ThroughSums
<1> HIDE DEF K, into
<1>5. \A e \in into : val(Bypass(e, mid)) = Through(A, c, mid, W(A, e))
  BY <1>2
<1>6. \A x \in K : val(x) \in Weight
  <2> SUFFICES ASSUME NEW x \in K PROVE val(x) \in Weight
    OBVIOUS
  <2>1. PICK e \in into : x = Bypass(e, mid)
    BY <1>3
  <2> HIDE DEF val
  <2>2. QED
    BY <1>2, <1>4, <1>5, <2>1
<1>7. Closure(A, c, mid) = [x \in K |-> val(x)]
  BY DEF Closure, K
<1> HIDE DEF val
<1>8. \A e \in into : /\ Bypass(e, mid) \in K
                      /\ Closure(A, c, mid)[Bypass(e, mid)] = Through(A, c, mid, W(A, e))
  BY <1>3, <1>5, <1>7
<1>9. K \in SUBSET Key
  BY <1>2, <1>3
<1>10. Closure(A, c, mid) \in [K -> Weight]
  BY <1>6, <1>7
<1>11. \A k \in K : \E e \in into :
                 /\ e \in A.trans /\ e.stk = EPS /\ e.to = mid.from
                 /\ k = Bypass(e, mid)
                 /\ k.from = e.from /\ k.stk = mid.stk /\ k.to = mid.to
  BY <1>2, <1>3
<1>12. QED
  BY <1>8, <1>9, <1>10, <1>11 DEF K, into

(* The closure of e, one transition for each that leaves its target. *)
LEMMA BypassFacts ==
    ASSUME NEW A, IsAutomaton(A), NEW c, CallOf(A.trans, c), NEW e \in A.trans,
           \A u \in Leaving(A, e.to) : u \in DOMAIN c => c[u].merge \in Merge,
           NEW w \in Weight
    PROVE  /\ BypassKeys(A, e) \in SUBSET Key
           /\ Bypasses(A, c, e, w) \in [BypassKeys(A, e) -> Weight]
           /\ \A k \in BypassKeys(A, e) : \E u \in Leaving(A, e.to) :
                 /\ u \in A.trans /\ u.from = e.to
                 /\ k = Bypass(e, u)
                 /\ k.from = e.from /\ k.stk = u.stk /\ k.to = u.to
           /\ \A u \in Leaving(A, e.to) :
                 /\ Bypass(e, u) \in BypassKeys(A, e)
                 /\ Bypasses(A, c, e, w)[Bypass(e, u)] = Through(A, c, u, w)
<1> DEFINE out == Leaving(A, e.to)
           K == BypassKeys(A, e)
           val(x) == Through(A, c, [x EXCEPT !.from = e.to], w)
<1>1. e \in Key
  BY DEF IsAutomaton
<1>2. ASSUME NEW u \in out
      PROVE  /\ u \in A.trans /\ u.from = e.to
             /\ [u EXCEPT !.from = e.from] = Bypass(e, u)
             /\ Bypass(e, u) \in Key /\ Bypass(e, u).from = e.from
             /\ Bypass(e, u).stk = u.stk /\ Bypass(e, u).to = u.to
             /\ [Bypass(e, u) EXCEPT !.from = e.to] = u
  <2>1. u \in A.trans /\ u.from = e.to /\ u \in Key
    BY DEF Leaving, IsAutomaton
  <2>2. u = [from |-> u.from, stk |-> u.stk, to |-> u.to]
        /\ u.stk \in Symbol /\ u.to \in State /\ e.from \in State
    BY <1>1, <2>1 DEF Key
  <2>3. [u EXCEPT !.from = e.from] = Bypass(e, u)
    BY <2>2 DEF Bypass
  <2>4. Bypass(e, u) \in Key
    BY <2>2 DEF Bypass, Key
  <2>5. [Bypass(e, u) EXCEPT !.from = e.to] = u
    BY <2>1, <2>2 DEF Bypass
  <2>6. QED
    BY <2>1, <2>3, <2>4, <2>5 DEF Bypass
<1>3. K = {Bypass(e, u) : u \in out}
  BY <1>2 DEF BypassKeys
<1>4. \A u \in out : Through(A, c, u, w) \in Weight
  BY <1>2, ThroughSums
<1> HIDE DEF K, out
<1>5. \A u \in out : val(Bypass(e, u)) = Through(A, c, u, w)
  BY <1>2
<1>6. \A x \in K : val(x) \in Weight
  <2> SUFFICES ASSUME NEW x \in K PROVE val(x) \in Weight
    OBVIOUS
  <2>1. PICK u \in out : x = Bypass(e, u)
    BY <1>3
  <2> HIDE DEF val
  <2>2. QED
    BY <1>4, <1>5, <2>1
<1>7. Bypasses(A, c, e, w) = [x \in K |-> val(x)]
  BY DEF Bypasses, K
<1> HIDE DEF val
<1>8. \A u \in out : /\ Bypass(e, u) \in K
                     /\ Bypasses(A, c, e, w)[Bypass(e, u)] = Through(A, c, u, w)
  BY <1>3, <1>5, <1>7
<1>9. K \in SUBSET Key
  BY <1>2, <1>3
<1>10. Bypasses(A, c, e, w) \in [K -> Weight]
  BY <1>6, <1>7
<1>11. \A k \in K : \E u \in out :
                 /\ u \in A.trans /\ u.from = e.to
                 /\ k = Bypass(e, u)
                 /\ k.from = e.from /\ k.stk = u.stk /\ k.to = u.to
  BY <1>2, <1>3
<1>12. QED
  BY <1>8, <1>9, <1>10, <1>11 DEF K, out

-----------------------------------------------------------------------------
(***************************************************************************)
(* What each step of a query does, in the terms of the proofs.             *)
(***************************************************************************)
(* post() and pre() take a transition off the worklist. *)
LEMMA PopFacts ==
    ASSUME ShapeInv, PopTransition
    PROVE  \E t \in fa.marked :
              /\ t \in fa.trans /\ t \in Key /\ fa.delta[t] = D(fa, t) /\ D(fa, t) \in Weight
              /\ query = "post" => t.stk # EPS
              /\ cur' = t /\ dnew' = D(fa, t) /\ fa' = Take(fa, t)
              /\ IsAutomaton(fa') /\ fa'.trans = fa.trans
              /\ todo' = IF query = "post" THEN ForwardRules(rules, t.from, t.stk)
                         ELSE BackwardRules(rules, t.from, t.stk)
              /\ calls' = IF query = "pre" THEN CallRules(rules, t.stk) ELSE {}
              /\ JobOK(fa'.trans, [cur |-> cur', dnew |-> dnew',
                                   todo |-> todo', calls |-> calls'])
<1>1. PICK t \in fa.marked :
          /\ query = "post" => t.stk # EPS
          /\ cur' = t /\ dnew' = fa.delta[t]
          /\ fa' = Take(fa, t)
          /\ todo' = IF query = "post" THEN ForwardRules(rules, t.from, t.stk)
                     ELSE BackwardRules(rules, t.from, t.stk)
          /\ calls' = IF query = "pre" THEN CallRules(rules, t.stk) ELSE {}
  BY DEF PopTransition
<1>2. IsAutomaton(fa) /\ query \in {"post", "pre"}
  BY WhileSaturating DEF PopTransition, Saturating
<1>3. t \in fa.trans /\ t \in Key
  BY <1>2 DEF IsAutomaton
<1>4. fa.delta[t] = D(fa, t) /\ D(fa, t) \in Weight
  BY <1>2, <1>3, WeightTyped DEF D
<1>5. IsAutomaton(fa') /\ fa'.trans = fa.trans
  BY <1>1, <1>2, <1>3, TakeFacts
<1>6. JobOK(fa'.trans, [cur |-> cur', dnew |-> dnew', todo |-> todo', calls |-> calls'])
  BY <1>1, <1>2, <1>3, <1>5 DEF JobOK
<1>7. QED
  BY <1>1, <1>3, <1>4, <1>5, <1>6

(* post() on an epsilon transition. *)
LEMMA EpsilonFacts ==
    ASSUME ShapeInv, PopEpsilon
    PROVE  /\ todo = {} /\ calls = {}
           /\ \E e \in fa.marked :
                LET A == Take(fa, e)
                    ins == Bypasses(A, call, e, D(fa, e))
                    K == BypassKeys(A, e)
                IN  /\ e \in fa.trans /\ e.stk = EPS /\ e.to \notin P
                    /\ D(fa, e) \in Weight
                    /\ \A u \in Leaving(A, e.to) : u \in DOMAIN call => call[u].merge \in Merge
                    /\ IsAutomaton(A) /\ A.trans = fa.trans
                    /\ K \in SUBSET Key /\ ins \in [K -> Weight]
                    /\ fa' = Update(A, ins)
                    /\ IsAutomaton(fa') /\ fa'.trans = fa.trans \cup K
<1>1. PICK e \in fa.marked :
          LET A == Take(fa, e)
              k(u) == [u EXCEPT !.from = e.from]
              via(x) == [x EXCEPT !.from = e.to]
          IN  /\ e.stk = EPS
              /\ fa' = Update(A, [x \in {k(u) : u \in Leaving(A, e.to)} |->
                            poststar_eps_closure(A, call, via(x), fa.delta[e])])
  BY DEF PopEpsilon
<1> DEFINE A == Take(fa, e)
           ins == Bypasses(A, call, e, D(fa, e))
           K == BypassKeys(A, e)
<1>2. IsAutomaton(fa) /\ CallOf(fa.trans, call) /\ ShapeOf(fa, call) /\ query = "post"
      /\ todo = {} /\ calls = {}
  BY WhileSaturating DEF PopEpsilon, Saturating
<1>3. e \in fa.trans
  BY <1>2 DEF IsAutomaton
<1>4. D(fa, e) \in Weight /\ fa.delta[e] = D(fa, e)
  BY <1>2, <1>3, WeightTyped DEF D
<1>5. IsAutomaton(A) /\ A.trans = fa.trans
  BY <1>2, <1>3, TakeFacts
<1>6. e.to \notin P
  BY <1>2, <1>3 DEF ShapeOf, ShapedOf
<1>7. fa' = Update(A, ins)
  BY <1>1, <1>4 DEF Bypasses, BypassKeys, Through
<1> HIDE DEF A
<1>8. \A u \in Leaving(A, e.to) : u \in DOMAIN call => call[u].merge \in Merge
  BY <1>2, <1>5, <1>6 DEF ShapeOf, ShapedOf, Leaving
<1>9. K \in SUBSET Key /\ ins \in [K -> Weight]
  BY <1>2, <1>3, <1>4, <1>5, <1>8, BypassFacts
<1>10. IsAutomaton(fa') /\ fa'.trans = fa.trans \cup K
  BY <1>5, <1>7, <1>9, UpdateFacts
<1>11. QED
  BY <1>1, <1>2, <1>3, <1>4, <1>5, <1>6, <1>7, <1>8, <1>9, <1>10 DEF A

(* A forward rule that does not push, applied to the transition at work. *)
LEMMA PostRuleFacts ==
    ASSUME ShapeInv, PostRule
    PROVE  \E r \in todo :
              LET k == Callee(r, cur.to)
                  w == Extend(dnew, r.weight)
              IN  /\ ~ IsPush(r) /\ r \in rules
                  /\ todo \subseteq ForwardRules(rules, cur.from, cur.stk)
                  /\ cur \in fa.trans /\ cur \in Key /\ cur.to \notin P
                  /\ k = RuleTarget(cur, r) /\ k \in Key /\ k.from \in P /\ k.to \notin P
                  /\ w \in Weight
                  /\ fa' = Update(fa, At(k, w))
                  /\ todo' = todo \ {r}
<1>1. PICK r \in todo :
          /\ ~ IsPush(r)
          /\ fa' = Update(fa, At([from |-> r.to, stk |-> r.stk1, to |-> cur.to],
                                 Extend(dnew, r.weight)))
          /\ todo' = todo \ {r}
  BY DEF PostRule
<1>2. /\ TypeOK /\ gen \in 1..MaxGeneration /\ IsAutomaton(fa) /\ ShapeOf(fa, call)
      /\ dnew \in Weight /\ query = "post"
  BY WhileSaturating DEF PostRule
<1>3. /\ cur \in fa.trans /\ r \in rules
      /\ todo \subseteq ForwardRules(rules, cur.from, cur.stk)
  BY <1>2 DEF ShapeInv, PhaseOK, TypeOK
<1>4. cur \in Key /\ cur.to \notin P
  BY <1>2, <1>3 DEF IsAutomaton, ShapeOf, ShapedOf
<1>5. r.to \in P /\ r.weight \in Weight
  BY <1>2, <1>3, RuleParts
<1>6. Callee(r, cur.to) \in Key /\ Callee(r, cur.to).from = r.to
      /\ Callee(r, cur.to).to = cur.to
  BY <1>2, <1>3, <1>4, TargetParts
<1>7. Extend(dnew, r.weight) \in Weight
  BY <1>2, <1>5, WeightClosed
<1>8. fa' = Update(fa, At(Callee(r, cur.to), Extend(dnew, r.weight)))
  BY <1>1 DEF Callee
<1>9. QED
  BY <1>1, <1>3, <1>4, <1>5, <1>6, <1>7, <1>8 DEF RuleTarget

(* A push rule applied to the transition at work. *)
LEMMA PostPushFacts ==
    ASSUME ShapeInv, PostPush
    PROVE  \E r \in todo :
              LET mid == Mid(cur, r)
                  wmid == Extend(dnew, r.weight)
                  qone == Combine(quasi[mid.from], One)
                  A1 == Insert(fa, At(mid, wmid))
                  A2 == Update(A1, At(Entry(r), qone))
                  c2 == CallAfter(call, mid, r, dnew)
              IN  /\ IsPush(r) /\ r \in rules /\ r.merge \in Merge
                  /\ todo \subseteq ForwardRules(rules, cur.from, cur.stk)
                  /\ cur \in fa.trans /\ cur \in Key /\ cur.to \notin P
                  /\ mid = RuleTarget(cur, r) /\ LeadsTo(r, mid)
                  /\ mid \in Key /\ mid.to \notin P /\ mid.stk # EPS
                  /\ OfThisQuery(mid.from) /\ mid.from \notin P
                  /\ Entry(r) \in Key /\ Entry(r).from \in P /\ Entry(r).to \notin P
                  /\ Entry(r).stk # EPS
                  /\ wmid \in Weight /\ qone \in Weight /\ Leq(One, qone)
                  /\ quasi' \in [GenState -> Weight]
                  /\ call' = c2
                  /\ fa' = IF Modified(fa, mid, wmid) THEN Update(A2, Closure(A2, c2, mid))
                           ELSE A2
                  /\ todo' = todo \ {r}
<1>1. PICK r \in todo :
          LET g     == gen_state(gen, r.to, r.stk1)
              mid   == [from |-> g, stk |-> r.stk2, to |-> cur.to]
              wmid  == Extend(dnew, r.weight)
              qone  == Combine(quasi[g], One)
              A1    == Insert(fa, At(mid, wmid))
              A2    == Update(A1, At([from |-> r.to, stk |-> r.stk1, to |-> g], qone))
              c2    == CallAfter(call, mid, r, dnew)
              eps(x) == [from |-> x.from, stk |-> EPS, to |-> g]
              closed == [x \in {[mid EXCEPT !.from = e.from] : e \in EpsInto(A2, g)}
                           |-> poststar_eps_closure(A2, c2, mid, A2.weight[eps(x)])]
          IN  /\ IsPush(r)
              /\ quasi' = [quasi EXCEPT ![g] = qone]
              /\ call' = c2
              /\ fa' = IF Modified(fa, mid, wmid) THEN Update(A2, closed) ELSE A2
              /\ todo' = todo \ {r}
  BY DEF PostPush
<1>2. /\ TypeOK /\ gen \in 1..MaxGeneration /\ IsAutomaton(fa) /\ ShapeOf(fa, call)
      /\ dnew \in Weight /\ query = "post" /\ quasi \in [GenState -> Weight]
  BY WhileSaturating DEF PostPush
<1>3. /\ cur \in fa.trans /\ r \in rules /\ IsPush(r)
      /\ todo \subseteq ForwardRules(rules, cur.from, cur.stk)
  BY <1>1, <1>2 DEF ShapeInv, PhaseOK, TypeOK
<1>4. cur \in Key /\ cur.to \notin P
  BY <1>2, <1>3 DEF IsAutomaton, ShapeOf, ShapedOf
<1>5. r.to \in P /\ r.weight \in Weight /\ r.merge \in Merge
  BY <1>2, <1>3, RuleParts
<1> DEFINE g == gen_state(gen, r.to, r.stk1)
           mid == Mid(cur, r)
           wmid == Extend(dnew, r.weight)
           qone == Combine(quasi[g], One)
           A1 == Insert(fa, At(mid, wmid))
           A2 == Update(A1, At(Entry(r), qone))
           c2 == CallAfter(call, mid, r, dnew)
<1>6. /\ mid \in Key /\ Entry(r) \in Key /\ g \in GenState
      /\ mid.from = g /\ mid.stk = r.stk2 /\ mid.to = cur.to
      /\ OfThisQuery(mid.from) /\ mid.from \notin P
      /\ Entry(r).from = r.to /\ Entry(r).to = g /\ Entry(r).to \notin P
      /\ mid.stk # EPS /\ Entry(r).stk # EPS
  BY <1>2, <1>3, <1>4, TargetParts
<1>7. LeadsTo(r, mid) /\ mid = RuleTarget(cur, r)
  BY <1>3, <1>6 DEF LeadsTo, RuleTarget
<1>8. /\ quasi[g] \in Weight /\ One \in Weight /\ wmid \in Weight
      /\ qone \in Weight /\ Leq(One, qone)
  BY <1>2, <1>5, <1>6, WeightClosed, CombineUpper
<1>9. quasi' = [quasi EXCEPT ![g] = qone] /\ todo' = todo \ {r} /\ call' = c2
  BY <1>1 DEF Mid
<1>10. quasi' \in [GenState -> Weight]
  BY <1>2, <1>6, <1>8, <1>9
<1>11. fa' = IF Modified(fa, mid, wmid) THEN Update(A2, Closure(A2, c2, mid)) ELSE A2
  <2>1. Entry(r) = [from |-> r.to, stk |-> r.stk1, to |-> g] /\ mid.from = g
        /\ mid = [from |-> g, stk |-> r.stk2, to |-> cur.to]
    BY DEF Entry, Callee, Mid
  <2>2. LET closed == [x \in {[mid EXCEPT !.from = e.from] : e \in EpsInto(A2, g)}
                 |-> poststar_eps_closure(A2, c2, mid,
                        A2.weight[[from |-> x.from, stk |-> EPS, to |-> g]])]
        IN  fa' = IF Modified(fa, mid, wmid) THEN Update(A2, closed) ELSE A2
    BY <1>1, <2>1
  <2> HIDE DEF A2, c2, g, mid, wmid
  <2>3. QED
    BY <2>1, <2>2 DEF Closure, ClosureKeys, Through
<1> HIDE DEF A2, c2, g, mid, wmid, qone
<1>12. QED
  BY <1>3, <1>4, <1>5, <1>6, <1>7, <1>8, <1>9, <1>10, <1>11
     DEF A1, A2, c2, mid, wmid, qone

(* The weight of a push rule: typed, monotone, linear in what it reads. *)
LEMMA ThroughCallSums ==
    ASSUME TypeOK, NEW r \in rules, IsPush(r), NEW q
    PROVE  LET f(w) == ThroughCall(r, q \in P, w) IN
           /\ f(Zero) = Zero
           /\ \A b \in Weight : f(b) \in Weight
           /\ \A b, c \in Weight : f(Combine(b, c)) = Combine(f(b), f(c))
<1>1. r.weight \in Weight /\ r.merge \in Merge /\ One \in Weight
  BY RuleParts, WeightClosed
<1>2. CASE q \in P
  <2> DEFINE m == r.merge
  <2>1. \A w : ThroughCall(r, q \in P, w) = apply_f(m, One, w)
    BY <1>2 DEF ThroughCall
  <2>2. m \in Merge
    BY <1>1
  <2> HIDE DEF m
  <2>3. /\ apply_f(m, One, Zero) = Zero
        /\ \A b \in Weight : apply_f(m, One, b) \in Weight
        /\ \A b, c \in Weight :
              apply_f(m, One, Combine(b, c)) = Combine(apply_f(m, One, b), apply_f(m, One, c))
    BY <1>1, <2>2, MergeSums
  <2>4. QED
    BY <2>1, <2>3
<1>3. CASE q \notin P
  <2> DEFINE x == r.weight
  <2>1. \A w : ThroughCall(r, q \in P, w) = Extend(x, w)
    BY <1>3 DEF ThroughCall
  <2>2. x \in Weight
    BY <1>1
  <2> HIDE DEF x
  <2>3. /\ Extend(x, Zero) = Zero
        /\ \A b \in Weight : Extend(x, b) \in Weight
        /\ \A b, c \in Weight : Extend(x, Combine(b, c)) = Combine(Extend(x, b), Extend(x, c))
    BY <2>2, WeightClosed, ExtendLaws, Distributes, ZenonT(60)
  <2>4. QED
    BY <2>1, <2>3
<1>4. QED
  BY <1>2, <1>3

LEMMA PushTyped ==
    ASSUME TypeOK, NEW r \in rules, IsPush(r), NEW q, NEW a \in Weight, NEW b \in Weight
    PROVE  PushWeight(r, q, a, b) \in Weight
BY ThroughCallSums, WeightClosed DEF PushWeight

LEMMA PushSums ==
    ASSUME TypeOK, NEW r \in rules, IsPush(r), NEW q,
           NEW a \in Weight, NEW b \in Weight, NEW c \in Weight
    PROVE  /\ PushWeight(r, q, Combine(a, b), c)
                = Combine(PushWeight(r, q, a, c), PushWeight(r, q, b, c))
           /\ PushWeight(r, q, c, Combine(a, b))
                = Combine(PushWeight(r, q, c, a), PushWeight(r, q, c, b))
<1> DEFINE f(w) == ThroughCall(r, q \in P, w)
<1>1. /\ \A w \in Weight : f(w) \in Weight
      /\ f(Combine(a, b)) = Combine(f(a), f(b))
      /\ \A v, w : PushWeight(r, q, v, w) = Extend(f(v), w)
  BY ThroughCallSums DEF PushWeight
<1> HIDE DEF f
<1>2. f(a) \in Weight /\ f(b) \in Weight /\ f(c) \in Weight
  BY <1>1
<1>3. QED
  BY <1>1, <1>2, Distributes

LEMMA PushZero ==
    ASSUME TypeOK, NEW r \in rules, IsPush(r), NEW q, NEW a \in Weight
    PROVE  PushWeight(r, q, Zero, a) = Zero /\ PushWeight(r, q, a, Zero) = Zero
<1> DEFINE f(w) == ThroughCall(r, q \in P, w)
<1>1. /\ \A w \in Weight : f(w) \in Weight
      /\ f(Zero) = Zero
      /\ \A v, w : PushWeight(r, q, v, w) = Extend(f(v), w)
  BY ThroughCallSums DEF PushWeight
<1> HIDE DEF f
<1>2. f(a) \in Weight
  BY <1>1
<1>3. QED
  BY <1>1, <1>2, ExtendLaws

LEMMA PushMono ==
    ASSUME TypeOK, NEW r \in rules, IsPush(r), NEW q,
           NEW a \in Weight, NEW b \in Weight,
           NEW c \in Weight, NEW d \in Weight, Leq(a, c), Leq(b, d)
    PROVE  Leq(PushWeight(r, q, a, b), PushWeight(r, q, c, d))
<1>1. /\ PushWeight(r, q, a, b) \in Weight /\ PushWeight(r, q, c, b) \in Weight
      /\ PushWeight(r, q, c, d) \in Weight
  BY PushTyped
<1>2. Combine(PushWeight(r, q, c, b), PushWeight(r, q, a, b)) = PushWeight(r, q, c, b)
  BY PushSums DEF Leq
<1>3. Combine(PushWeight(r, q, c, d), PushWeight(r, q, c, b)) = PushWeight(r, q, c, d)
  BY PushSums DEF Leq
<1>4. /\ Leq(PushWeight(r, q, a, b), PushWeight(r, q, c, b))
      /\ Leq(PushWeight(r, q, c, b), PushWeight(r, q, c, d))
  BY <1>2, <1>3 DEF Leq
<1>5. QED
  BY <1>1, <1>4, LeqTrans

(* The transition a backward rule asks for is one, out of a control state. *)
LEMMA PredKey ==
    ASSUME TypeOK, NEW r \in rules, NEW t \in Key
    PROVE  /\ Pred(t, r) \in Key /\ Pred(t, r).from \in P /\ Pred(t, r).stk # EPS
           /\ Pred(t, r).to = t.to
<1>1. r.from \in P /\ r.stk \in Stack /\ r.stk # EPS
  BY RuleParts
<1>2. QED
  BY <1>1 DEF Pred, Key, State, Symbol

(* What a rule makes of the transition at work, alone or with one it reads too. *)
MadeOf(r, k, w) ==
    \/ Reads(r, cur) /\ k = Pred(cur, r) /\ w = Extend(r.weight, dnew)
    \/ \E u \in fa.trans : /\ ReadsPair(r, cur, u) /\ k = Pred(u, r)
                          /\ w = PushWeight(r, u.from, dnew, W(fa, u))
    \/ \E t \in fa.trans : /\ ReadsPair(r, t, cur) /\ k = Pred(cur, r)
                          /\ w = PushWeight(r, cur.from, W(fa, t), dnew)

(***************************************************************************)
(* A step of prestar handles the rules R for cur as what they read first,  *)
(* and the rules S for cur as what they read second: an update ins of the  *)
(* transitions K, of which E enter as ETrans if they enter.                *)
(***************************************************************************)
PreStep(R, S, K, ins, E) ==
    /\ pc = "saturate" /\ query = "pre"
    /\ K \in SUBSET Key /\ ins \in [K -> Weight] /\ E \in SUBSET K
    /\ fa' = Update(fa, ins) \/ (K = {} /\ fa' = fa)
    /\ call' = SummaryTrans(fa, call, E)
    /\ todo' = todo \ R /\ calls' = calls \ S
    /\ pc' \in {"saturate", "aborted"}
    /\ UNCHANGED <<database, input, gen, quasi, query, cur, dnew>>
    /\ pc' = "aborted" => DOMAIN input.call # {}
    /\ \A k \in K : k.from \in P /\ k.stk # EPS
    /\ pc' = "saturate" => \A k \in K : k \in E <=> k.to \in P
    /\ \A r \in R \cap rules : Reads(r, cur) =>
          Pred(cur, r) \in K /\ ins[Pred(cur, r)] = Extend(r.weight, dnew)
    /\ \A r \in R \cap rules, u \in fa.trans : ReadsPair(r, cur, u) =>
          Pred(u, r) \in K /\ ins[Pred(u, r)] = PushWeight(r, u.from, dnew, W(fa, u))
    /\ \A r \in S \cap rules, t \in fa.trans : ReadsPair(r, t, cur) =>
          Pred(cur, r) \in K /\ ins[Pred(cur, r)] = PushWeight(r, cur.from, W(fa, t), dnew)
    /\ K # {} => cur \in fa.trans /\ todo \cup calls # {}
    /\ \A k \in K : \E r \in rules : MadeOf(r, k, ins[k])

(* No ETrans more, no change. *)
LEMMA NoSummary ==
    ASSUME NEW A, NEW c, CallOf(A.trans, c)
    PROVE  SummaryTrans(A, c, {}) = c
<1>1. c = [k \in DOMAIN c |-> c[k]]
  BY DEF CallOf
<1>2. DOMAIN c \cup ({} \ A.trans) = DOMAIN c
  OBVIOUS
<1>3. SummaryTrans(A, c, {}) = [k \in DOMAIN c |-> c[k]]
  BY <1>2 DEF SummaryTrans
<1>4. QED
  BY <1>1, <1>3

(* What prestar knows of the transition at work. *)
LEMMA PreJob ==
    ASSUME ShapeInv, pc = "saturate", query = "pre"
    PROVE  /\ TypeOK /\ IsAutomaton(fa) /\ CallOf(fa.trans, call) /\ dnew \in Weight
           /\ \A k \in fa.trans :
                 /\ k \in Key
                 /\ k.to \in P => k.from \in P
                 /\ k.from \in P => (k \in DOMAIN call <=> k.to \in P)
                 /\ k.from \notin P /\ k \in DOMAIN call => DOMAIN input.call # {}
           /\ \A r \in todo : /\ r \in rules /\ cur \in fa.trans
                              /\ r.to = cur.from /\ r.stk1 = cur.stk /\ cur.from \in P
           /\ \A r \in calls : /\ r \in rules /\ cur \in fa.trans
                               /\ IsPush(r) /\ r.stk2 = cur.stk
<1>1. /\ TypeOK /\ IsAutomaton(fa) /\ CallOf(fa.trans, call) /\ dnew \in Weight
      /\ ShapeOf(fa, call)
  BY WhileSaturating
<1>2. ASSUME NEW r \in todo
      PROVE  r \in rules /\ cur \in fa.trans /\ r.to = cur.from /\ r.stk1 = cur.stk
  BY <1>1 DEF ShapeInv, PhaseOK, BackwardRules
<1>3. \A r \in rules : r.to \in P
  BY <1>1, RuleParts
<1>4. ASSUME NEW r \in calls
      PROVE  r \in rules /\ cur \in fa.trans /\ IsPush(r) /\ r.stk2 = cur.stk
  BY <1>1 DEF ShapeInv, PhaseOK, CallRules
<1>5. \A k \in fa.trans :
          /\ k \in Key
          /\ k.to \in P => k.from \in P
          /\ k.from \in P => (k \in DOMAIN call <=> k.to \in P)
          /\ k.from \notin P /\ k \in DOMAIN call => DOMAIN input.call # {}
  BY <1>1 DEF ShapeOf, ShapedOf, IsAutomaton
<1>6. QED
  BY <1>1, <1>2, <1>3, <1>4, <1>5

(* A backward rule that does not push. *)
LEMMA PreRuleStep ==
    ASSUME ShapeInv, PreRule
    PROVE  \E r \in todo, K \in SUBSET Key : \E ins \in [K -> Weight], E \in SUBSET K :
              PreStep({r}, {}, K, ins, E)
<1>1. PICK r \in todo :
          /\ ~ IsPush(r)
          /\ PreUpdate(At(Pred(cur, r), Extend(r.weight, dnew)), cur \in DOMAIN call)
          /\ todo' = todo \ {r}
  BY DEF PreRule
<1>2. /\ TypeOK /\ CallOf(fa.trans, call) /\ dnew \in Weight
      /\ cur \in fa.trans /\ cur \in Key /\ cur.from \in P
      /\ cur \in DOMAIN call <=> cur.to \in P
      /\ r \in rules
      /\ pc = "saturate" /\ query = "pre"
      /\ UNCHANGED <<database, input, gen, quasi, query, pc, cur, dnew, calls>>
  BY PreJob DEF PreRule
<1>3. r.weight \in Weight
  BY <1>2, RuleParts
<1> DEFINE k == Pred(cur, r)
           w == Extend(r.weight, dnew)
           K == {k}
           ins == At(k, w)
           E == IF cur.to \in P THEN {k} ELSE {}
<1>4. k \in Key /\ k.from \in P /\ k.stk # EPS /\ k.to = cur.to
  BY <1>2, PredKey
<1>5. w \in Weight
  BY <1>2, <1>3, WeightClosed
<1>6. fa' = Update(fa, ins) /\ todo' = todo \ {r} /\ calls' = calls \ {}
  BY <1>1, <1>2 DEF PreUpdate
<1> HIDE DEF k, w
<1>7. /\ K \in SUBSET Key /\ ins \in [K -> Weight] /\ E \in SUBSET K
      /\ DOMAIN ins = {k} /\ k \in K /\ ins[k] = w
  BY <1>4, <1>5 DEF At
<1>8. call' = SummaryTrans(fa, call, E)
  <2>1. call' = IF cur.to \in P THEN SummaryTrans(fa, call, {k}) ELSE call
    BY <1>1, <1>2, <1>7 DEF PreUpdate, k, w
  <2>2. QED
    BY <1>2, <2>1, NoSummary
<1>9. \A x \in K : x.from \in P /\ x.stk # EPS /\ (x \in E <=> x.to \in P)
  BY <1>4
<1> HIDE DEF ins, K, E
<1>10. /\ \A x \in {r} \cap rules : Reads(x, cur) =>
             Pred(cur, x) \in K /\ ins[Pred(cur, x)] = Extend(x.weight, dnew)
       /\ \A x \in {r} \cap rules, u \in fa.trans : ReadsPair(x, cur, u) =>
             Pred(u, x) \in K /\ ins[Pred(u, x)] = PushWeight(x, u.from, dnew, W(fa, u))
       /\ \A x \in {} \cap rules, t \in fa.trans : ReadsPair(x, t, cur) =>
             Pred(cur, x) \in K /\ ins[Pred(cur, x)] = PushWeight(x, cur.from, W(fa, t), dnew)
  BY <1>1, <1>7 DEF ReadsPair, k, w
<1>a. \A x \in K : \E s \in rules : MadeOf(s, x, ins[x])
  <2>1. Reads(r, cur)
    BY <1>1, PreJob, <1>2 DEF Reads
  <2>2. \A x \in K : x = Pred(cur, r) /\ ins[x] = Extend(r.weight, dnew)
    BY <1>7 DEF K, k, w
  <2>3. QED
    BY <1>2, <2>1, <2>2 DEF MadeOf
<1>11. PreStep({r}, {}, K, ins, E)
  BY <1>2, <1>6, <1>7, <1>8, <1>9, <1>10, <1>a DEF PreStep
<1>12. QED
  BY <1>7, <1>11

(* A push rule meets every transition that can follow the one at work. *)
LEMMA PrePushFirstStep ==
    ASSUME ShapeInv, PrePushFirst
    PROVE  \E r \in todo, K \in SUBSET Key : \E ins \in [K -> Weight], E \in SUBSET K :
              PreStep({r}, {}, K, ins, E)
<1>1. PICK r \in todo :
          LET second == Matching(fa, cur.to, r.stk2)
              isE == cur \in DOMAIN call
              via(k) == CHOOSE u \in second : u.to = k.to
              ins(S) == [k \in {Pred(u, r) : u \in S} |->
                           Extend(ThroughCall(r, isE, dnew), fa.weight[via(k)])]
              plain == {u \in second : u \notin DOMAIN call}
          IN  /\ IsPush(r)
              /\ fa' = Update(fa, ins(second))
              /\ call' = SummaryTrans(fa, call, DOMAIN ins(second \ plain))
              /\ pc' = IF ~ isE /\ second # plain THEN "aborted" ELSE pc
              /\ todo' = todo \ {r}
  BY DEF PrePushFirst
<1>2. /\ TypeOK /\ IsAutomaton(fa) /\ dnew \in Weight /\ r \in rules
      /\ cur \in fa.trans /\ cur \in Key /\ cur.from \in P
      /\ cur \in DOMAIN call <=> cur.to \in P
      /\ r.to = cur.from /\ r.stk1 = cur.stk
      /\ \A k \in fa.trans : /\ k.to \in P => k.from \in P
                             /\ k.from \in P => (k \in DOMAIN call <=> k.to \in P)
                             /\ k.from \notin P /\ k \in DOMAIN call => DOMAIN input.call # {}
      /\ pc = "saturate" /\ query = "pre"
      /\ UNCHANGED <<database, input, gen, quasi, query, cur, dnew, calls>>
  BY PreJob DEF PrePushFirst
<1> DEFINE second == Matching(fa, cur.to, r.stk2)
           via(k) == CHOOSE u \in second : u.to = k.to
           K == {Pred(u, r) : u \in second}
           plain == {u \in second : u \notin DOMAIN call}
           E == {Pred(u, r) : u \in second \ plain}
           first == ThroughCall(r, cur \in DOMAIN call, dnew)
           ins == [k \in K |-> Extend(first, fa.weight[via(k)])]
<1>3. ASSUME NEW u \in second
      PROVE  /\ u \in fa.trans /\ u \in Key /\ u.from = cur.to /\ u.stk = r.stk2
             /\ fa.weight[u] = W(fa, u) /\ W(fa, u) \in Weight
             /\ Pred(u, r) \in Key /\ Pred(u, r).from \in P
             /\ Pred(u, r).stk # EPS /\ Pred(u, r).to = u.to
  <2>1. u \in fa.trans /\ u \in Key /\ u.from = cur.to /\ u.stk = r.stk2
    BY <1>2 DEF Matching, IsAutomaton
  <2>2. fa.weight[u] = W(fa, u) /\ W(fa, u) \in Weight
    BY <1>2, <2>1, WeightTyped DEF W
  <2>3. QED
    BY <1>2, <2>1, <2>2, PredKey
<1>4. \A u, x \in second : x.to = u.to => x = u
  BY <1>3 DEF Key
<1>5. \A u \in second : via(Pred(u, r)) = u
  BY <1>3, <1>4
<1>6. /\ IsPush(r) /\ fa' = Update(fa, ins) /\ call' = SummaryTrans(fa, call, E)
      /\ pc' = IF cur.to \notin P /\ second # plain THEN "aborted" ELSE pc
      /\ todo' = todo \ {r} /\ calls' = calls \ {}
  BY <1>1, <1>2
<1>a. first = ThroughCall(r, cur.to \in P, dnew)
  BY <1>2 DEF ThroughCall
<1> HIDE DEF second, first
<1>7. ASSUME NEW u \in second
      PROVE  /\ Pred(u, r) \in K
             /\ ins[Pred(u, r)] = PushWeight(r, u.from, dnew, W(fa, u))
             /\ PushWeight(r, u.from, dnew, W(fa, u)) \in Weight
  <2>1. ins[Pred(u, r)] = Extend(first, fa.weight[u]) /\ Pred(u, r) \in K
    BY <1>5
  <2>2. PushWeight(r, u.from, dnew, W(fa, u)) \in Weight
    BY <1>2, <1>3, <1>6, PushTyped
  <2>3. QED
    BY <1>3, <1>a, <2>1, <2>2 DEF PushWeight
<1>8. \A k \in K : \E u \in second : k = Pred(u, r)
  OBVIOUS
<1>9. K \in SUBSET Key /\ E \in SUBSET K
  BY <1>3
<1>10. ins \in [K -> Weight]
  <2> HIDE DEF via
  <2>1. ins = [k \in K |-> ins[k]]
    OBVIOUS
  <2> HIDE DEF ins, K
  <2>2. \A k \in K : ins[k] \in Weight
    BY <1>7, <1>8
  <2>3. QED
    BY <2>1, <2>2
<1>11. \A k \in K : k.from \in P /\ k.stk # EPS
  BY <1>3, <1>8
<1>12. pc' = "saturate" => \A k \in K : k \in E <=> k.to \in P
  <2> SUFFICES ASSUME pc' = "saturate", NEW u \in second
               PROVE  Pred(u, r) \in E <=> u.to \in P
    BY <1>3, <1>8
  <2>1. Pred(u, r) \in E <=> u \in DOMAIN call
    BY <1>3, <1>4
  <2>2. CASE cur.to \in P
    BY <1>2, <1>3, <2>1, <2>2
  <2>3. CASE cur.to \notin P
    <3>1. u \notin DOMAIN call
      BY <1>2, <1>6, <2>3
    <3>2. u.to \notin P
      BY <1>2, <1>3, <2>3
    <3>3. QED
      BY <2>1, <3>1, <3>2
  <2>4. QED
    BY <2>2, <2>3
<1>13. pc' \in {"saturate", "aborted"} /\ (pc' = "aborted" => DOMAIN input.call # {})
  <2>1. ASSUME cur.to \notin P, second # plain PROVE DOMAIN input.call # {}
    <3>1. PICK u \in second : u \in DOMAIN call
      BY <2>1
    <3>2. QED
      BY <1>2, <1>3, <2>1, <3>1
  <2>2. QED
    BY <1>2, <1>6, <2>1
<1>14. \A u \in fa.trans : ReadsPair(r, cur, u) => u \in second
  <2> SUFFICES ASSUME NEW u \in fa.trans, ReadsPair(r, cur, u) PROVE u \in second
    OBVIOUS
  <2>1. cur.to = u.from /\ u.stk = r.stk2
    BY DEF ReadsPair, Callee
  <2>2. QED
    BY <2>1 DEF Matching, second
<1>b. \A k \in K : \E s \in rules : MadeOf(s, k, ins[k])
  <2>1. \A u \in second : u \in fa.trans /\ ReadsPair(r, cur, u)
    BY <1>2, <1>3, <1>6 DEF ReadsPair, Callee, Key
  <2> HIDE DEF ins, K
  <2>2. QED
    BY <1>2, <1>7, <1>8, <2>1 DEF MadeOf
<1> HIDE DEF ins, K, E, plain
<1>15. /\ \A x \in {r} \cap rules : Reads(x, cur) =>
             Pred(cur, x) \in K /\ ins[Pred(cur, x)] = Extend(x.weight, dnew)
       /\ \A x \in {r} \cap rules, u \in fa.trans : ReadsPair(x, cur, u) =>
             Pred(u, x) \in K /\ ins[Pred(u, x)] = PushWeight(x, u.from, dnew, W(fa, u))
       /\ \A x \in {} \cap rules, t \in fa.trans : ReadsPair(x, t, cur) =>
             Pred(cur, x) \in K /\ ins[Pred(cur, x)] = PushWeight(x, cur.from, W(fa, t), dnew)
  BY <1>6, <1>7, <1>14 DEF Reads
<1>16. PreStep({r}, {}, K, ins, E)
  BY <1>2, <1>6, <1>9, <1>10, <1>11, <1>12, <1>13, <1>15, <1>b DEF PreStep
<1>17. QED
  BY <1>9, <1>10, <1>16

(* A push rule meets the transition that goes before the one at work. *)
LEMMA PrePushSecondStep ==
    ASSUME ShapeInv, PrePushSecond
    PROVE  \E r \in calls, K \in SUBSET Key : \E ins \in [K -> Weight], E \in SUBSET K :
              PreStep({}, {r}, K, ins, E)
<1>1. PICK r \in calls :
          LET t1 == Callee(r, cur.from)
              isE1 == t1 \in DOMAIN call
              isE2 == cur \in DOMAIN call
          IN  /\ calls' = calls \ {r}
              /\ IF t1 \in fa.trans
                 THEN /\ PreUpdate(At(Pred(cur, r),
                              Extend(ThroughCall(r, isE1, fa.weight[t1]), dnew)), isE2)
                      /\ pc' = IF ~ isE1 /\ isE2 THEN "aborted" ELSE pc
                 ELSE UNCHANGED <<fa, call, pc>>
  BY DEF PrePushSecond
<1> DEFINE t1 == Callee(r, cur.from)
<1>2. /\ TypeOK /\ IsAutomaton(fa) /\ CallOf(fa.trans, call) /\ dnew \in Weight
      /\ r \in rules /\ IsPush(r) /\ r.stk2 = cur.stk
      /\ cur \in fa.trans /\ cur \in Key
      /\ cur.to \in P => cur.from \in P
      /\ cur.from \in P => (cur \in DOMAIN call <=> cur.to \in P)
      /\ cur.from \notin P /\ cur \in DOMAIN call => DOMAIN input.call # {}
      /\ pc = "saturate" /\ query = "pre"
      /\ UNCHANGED <<database, input, gen, quasi, query, cur, dnew, todo>>
  BY PreJob DEF PrePushSecond
<1>3. t1.from = r.to /\ t1.to = cur.from /\ r.to \in P
  BY <1>2, RuleParts DEF Callee
<1>4. t1 \in fa.trans => (t1 \in DOMAIN call <=> cur.from \in P)
  BY <1>2, <1>3, PreJob
<1>5. W(fa, t1) \in Weight /\ (t1 \in fa.trans => fa.weight[t1] = W(fa, t1))
  BY <1>2, WeightTyped DEF W
<1>6. \A t \in fa.trans : ReadsPair(r, t, cur) => t = t1
  BY DEF ReadsPair
<1> DEFINE k == Pred(cur, r)
           w == PushWeight(r, cur.from, W(fa, t1), dnew)
<1>7. /\ k \in Key /\ k.from \in P /\ k.stk # EPS /\ k.to = cur.to
      /\ w \in Weight
  BY <1>2, <1>5, PredKey, PushTyped
<1>8. CASE t1 \notin fa.trans
  <2> DEFINE ins == [x \in {} |-> Zero]
  <2>1. /\ {} \in SUBSET Key /\ ins \in [{} -> Weight] /\ {} \in SUBSET {}
        /\ call' = SummaryTrans(fa, call, {}) /\ fa' = fa /\ pc' = "saturate"
        /\ todo' = todo \ {} /\ calls' = calls \ {r}
    BY <1>1, <1>2, <1>8, NoSummary
  <2>2. \A t \in fa.trans : ~ ReadsPair(r, t, cur)
    BY <1>6, <1>8
  <2> HIDE DEF ins, t1, k, w
  <2>3. PreStep({}, {r}, {}, ins, {})
    BY <1>2, <2>1, <2>2 DEF PreStep
  <2>4. QED
    BY <2>1, <2>3
<1>9. CASE t1 \in fa.trans
  <2> DEFINE K == {k}
             ins == At(k, w)
             E == IF cur \in DOMAIN call THEN {k} ELSE {}
  <2>1. /\ PreUpdate(At(k, w), cur \in DOMAIN call)
        /\ pc' = IF cur.from \notin P /\ cur \in DOMAIN call THEN "aborted" ELSE pc
        /\ calls' = calls \ {r} /\ todo' = todo \ {}
    <3>1. (t1 \in DOMAIN call) = (cur.from \in P) /\ fa.weight[t1] = W(fa, t1)
      BY <1>4, <1>5, <1>9
    <3>2. QED
      BY <1>1, <1>2, <1>9, <3>1 DEF PushWeight
  <2> HIDE DEF k, w, t1
  <2>2. /\ K \in SUBSET Key /\ ins \in [K -> Weight] /\ E \in SUBSET K
        /\ DOMAIN ins = {k} /\ k \in K /\ ins[k] = w
    BY <1>7 DEF At
  <2>3. fa' = Update(fa, ins)
    BY <2>1 DEF PreUpdate
  <2>4. call' = SummaryTrans(fa, call, E)
    <3>1. call' = IF cur \in DOMAIN call THEN SummaryTrans(fa, call, {k}) ELSE call
      BY <2>1, <2>2 DEF PreUpdate
    <3>2. QED
      BY <1>2, <3>1, NoSummary
  <2>5. /\ \A x \in K : x.from \in P /\ x.stk # EPS
        /\ pc' = "saturate" => \A x \in K : x \in E <=> x.to \in P
    BY <1>2, <1>7, <2>1
  <2>6. pc' \in {"saturate", "aborted"} /\ (pc' = "aborted" => DOMAIN input.call # {})
    BY <1>2, <2>1
  <2>a. \A x \in K : \E s \in rules : MadeOf(s, x, ins[x])
    <3>1. t1 \in fa.trans /\ ReadsPair(r, t1, cur)
      BY <1>2, <1>9 DEF ReadsPair, t1
    <3>2. \A x \in K : x = Pred(cur, r) /\ ins[x] = PushWeight(r, cur.from, W(fa, t1), dnew)
      BY <2>2 DEF k, w
    <3> HIDE DEF ins, K, E
    <3>3. QED
      BY <1>2, <3>1, <3>2 DEF MadeOf
  <2> HIDE DEF ins, K, E
  <2>7. \A t \in fa.trans : ReadsPair(r, t, cur) =>
           Pred(cur, r) \in K /\ ins[Pred(cur, r)] = PushWeight(r, cur.from, W(fa, t), dnew)
    BY <1>6, <2>2 DEF k, w
  <2>8. PreStep({}, {r}, K, ins, E)
    BY <1>2, <2>1, <2>2, <2>3, <2>4, <2>5, <2>6, <2>7, <2>a DEF PreStep
  <2>9. QED
    BY <2>2, <2>8
<1>10. QED
  BY <1>8, <1>9

-----------------------------------------------------------------------------
(***************************************************************************)
(* The shape is kept by every step.                                        *)
(***************************************************************************)
(* A step of the client that builds the rules. *)
LEMMA BuildStep ==
    ASSUME ShapeInv, pc = "idle", QueryUnchanged, pc' \in {"idle", "aborted"},
           \A r \in rules' : r \in ERule /\ \A s \in rules' : SameRule(r, s) => r = s,
           \A r \in rules' : IsPush(r) => Rhs(r) \in DOMAIN mergeHash'
    PROVE  ShapeInv'
<1>1. /\ query = "none" /\ todo = {} /\ calls = {}
      /\ UNCHANGED <<input, fa, call, gen, quasi, query, cur, dnew, todo, calls>>
  BY DEF ShapeInv, PhaseOK, QueryUnchanged, work
<1>2. TypeOK'
  BY <1>1 DEF ShapeInv, TypeOK
<1>3. InputReady'
  BY <1>1 DEF ShapeInv, InputReady
<1>4. PhaseOK'
  BY <1>1 DEF PhaseOK
<1>5. QED
  BY <1>2, <1>3, <1>4 DEF ShapeInv

(* The rule an addition makes. *)
LEMMA NewRuleParts ==
    ASSUME NEW r \in Rule, NEW m \in Merge \cup {NoMerge}
    PROVE  /\ NewRule(r, m) \in ERule
           /\ SameRule(NewRule(r, m), r)
           /\ NewRule(r, m).weight = r.weight
           /\ Rhs(NewRule(r, m)) = Rhs(r) /\ RuleId(NewRule(r, m)) = RuleId(r)
           /\ IsPush(NewRule(r, m)) <=> IsPush(r)
           /\ IsPush(r) => NewRule(r, m).merge \in Merge
<1> DEFINE mf == IF IsPush(r) /\ m = NoMerge THEN MergeFn(r.weight) ELSE m
           n == [from |-> r.from, stk |-> r.stk, to |-> r.to, stk1 |-> r.stk1,
                 stk2 |-> r.stk2, weight |-> r.weight, merge |-> mf]
<1>1. n = NewRule(r, m)
  BY DEF NewRule
<1>2. r.weight \in Weight
  BY DEF Rule
<1>3. mf \in Merge \cup {NoMerge} /\ (IsPush(r) => mf \in Merge)
  BY <1>2 DEF Merge
<1> HIDE DEF mf
<1>4. n \in ERule
  BY <1>3, MergeAssumption DEF Rule, ERule, IsPush
<1>5. /\ n.from = r.from /\ n.stk = r.stk /\ n.to = r.to /\ n.stk1 = r.stk1
      /\ n.stk2 = r.stk2 /\ n.weight = r.weight /\ n.merge = mf
  OBVIOUS
<1> HIDE DEF n
<1>6. QED
  BY <1>1, <1>3, <1>4, <1>5 DEF SameRule, Rhs, RuleId, IsPush

(* add_rule and replace_rule of a new rule. *)
LEMMA AddNewShape ==
    ASSUME ShapeInv, NEW a \in Additions, AddNew(a)
    PROVE  ShapeInv'
<1> DEFINE r == NewRule(a.rule, a.merge)
<1>1. a.rule \in Rule /\ a.merge \in Merge \cup {NoMerge}
  BY EwpdsAssumption
<1>2. r \in ERule
  BY <1>1, NewRuleParts
<1> HIDE DEF r
<1>3. /\ pc = "idle" /\ pc' \in {"idle", "aborted"} /\ QueryUnchanged
      /\ \A s \in rules : ~ SameRule(r, s)
      /\ rules' = rules \cup {r}
      /\ DOMAIN mergeHash \subseteq DOMAIN mergeHash'
      /\ IsPush(r) => Rhs(r) \in DOMAIN mergeHash'
  BY DEF AddNew, r
<1>4. \A x \in rules' : x \in ERule /\ \A s \in rules' : SameRule(x, s) => x = s
  BY <1>2, <1>3 DEF ShapeInv, TypeOK, SameRule
<1>5. \A x \in rules' : IsPush(x) => Rhs(x) \in DOMAIN mergeHash'
  BY <1>3 DEF ShapeInv, TypeOK
<1>6. QED
  BY <1>3, <1>4, <1>5, BuildStep

(* What add_rule and replace_rule of a rule there is make of it. *)
LEMMA AddAgainFacts ==
    ASSUME ShapeInv, NEW a \in Additions, AddAgain(a)
    PROVE  \E old \in rules : \E r \in ERule :
              /\ SameRule(r, old) /\ Rhs(r) = Rhs(old) /\ RuleId(r) = RuleId(old)
              /\ IsPush(r) <=> IsPush(old)
              /\ rules' = (rules \ {old}) \cup {r}
              /\ mergeHash' = [x \in DOMAIN mergeHash |->
                                 IF mergeHash[x].rule = RuleId(r)
                                 THEN [mergeHash[x] EXCEPT !.merge = r.merge]
                                 ELSE mergeHash[x]]
              /\ readded' = IF IsPush(r) THEN readded \cup {Rhs(r)} ELSE readded
<1>1. PICK old \in rules :
          LET w == IF a.replace THEN a.rule.weight
                   ELSE Combine(old.weight, a.rule.weight)
              r == NewRule([a.rule EXCEPT !.weight = w], a.merge)
          IN  /\ SameRule(old, a.rule)
              /\ rules' = (rules \ {old}) \cup {r}
              /\ mergeHash' = [x \in DOMAIN mergeHash |->
                                 IF mergeHash[x].rule = RuleId(r)
                                 THEN [mergeHash[x] EXCEPT !.merge = r.merge]
                                 ELSE mergeHash[x]]
              /\ readded' = IF IsPush(r) THEN readded \cup {Rhs(r)} ELSE readded
  BY DEF AddAgain
<1> DEFINE w == IF a.replace THEN a.rule.weight ELSE Combine(old.weight, a.rule.weight)
           b == [a.rule EXCEPT !.weight = w]
           r == NewRule(b, a.merge)
<1>2. a.rule \in Rule /\ a.merge \in Merge \cup {NoMerge}
  BY EwpdsAssumption
<1>3. w \in Weight
  <2>1. old.weight \in Weight
    BY RuleParts DEF ShapeInv
  <2>2. a.rule.weight \in Weight
    BY <1>2 DEF Rule
  <2>3. QED
    BY <2>1, <2>2, WeightClosed
<1> HIDE DEF w
<1>4. b \in Rule /\ SameRule(b, a.rule)
  BY <1>2, <1>3 DEF Rule, SameRule
<1> HIDE DEF b
<1>5. r \in ERule /\ SameRule(r, b)
  BY <1>2, <1>4, NewRuleParts
<1> HIDE DEF r
<1>6. SameRule(r, old)
  BY <1>1, <1>4, <1>5 DEF SameRule
<1>7. Rhs(r) = Rhs(old) /\ RuleId(r) = RuleId(old) /\ (IsPush(r) <=> IsPush(old))
  BY <1>6 DEF SameRule, Rhs, RuleId, IsPush
<1>8. QED
  BY <1>1, <1>5, <1>6, <1>7 DEF r, b, w

(* add_rule and replace_rule of a rule there is. *)
LEMMA AddAgainShape ==
    ASSUME ShapeInv, NEW a \in Additions, AddAgain(a)
    PROVE  ShapeInv'
<1>1. PICK old \in rules, r \in ERule :
              /\ SameRule(r, old) /\ Rhs(r) = Rhs(old) /\ RuleId(r) = RuleId(old)
              /\ IsPush(r) <=> IsPush(old)
              /\ rules' = (rules \ {old}) \cup {r}
              /\ mergeHash' = [x \in DOMAIN mergeHash |->
                                 IF mergeHash[x].rule = RuleId(r)
                                 THEN [mergeHash[x] EXCEPT !.merge = r.merge]
                                 ELSE mergeHash[x]]
  BY AddAgainFacts
<1>2. pc = "idle" /\ pc' = "idle" /\ QueryUnchanged
  BY DEF AddAgain
<1>3. \A x \in rules' : x \in ERule /\ \A s \in rules' : SameRule(x, s) => x = s
  BY <1>1 DEF ShapeInv, TypeOK, SameRule
<1>4. DOMAIN mergeHash' = DOMAIN mergeHash
  BY <1>1
<1>5. \A x \in rules' : IsPush(x) => Rhs(x) \in DOMAIN mergeHash'
  BY <1>1, <1>4 DEF ShapeInv, TypeOK
<1>6. QED
  BY <1>2, <1>3, <1>5, BuildStep

(* erase_rule, and the copy of the whole. *)
LEMMA EraseCopyShape ==
    ASSUME ShapeInv, EraseRule \/ Copy
    PROVE  ShapeInv'
<1>1. CASE EraseRule
  <2>1. /\ pc = "idle" /\ pc' = "idle" /\ QueryUnchanged
        /\ rules' \subseteq rules /\ DOMAIN mergeHash' = DOMAIN mergeHash
    BY <1>1 DEF EraseRule, HashWithout
  <2>2. QED
    BY <2>1, BuildStep DEF ShapeInv, TypeOK
<1>2. CASE Copy
  <2> DEFINE pushes == {r \in rules : IsPush(r)}
             reached == {Rhs(r) : r \in pushes}
  <2>1. /\ pc = "idle" /\ pc' \in {"idle", "aborted"} /\ QueryUnchanged
        /\ rules' = rules
    BY <1>2 DEF Copy
  <2>2. PICK first \in [reached -> pushes] :
              mergeHash' = [x \in DOMAIN first |->
                              [rule |-> RuleId(first[x]), merge |-> first[x].merge]]
    BY <1>2 DEF Copy
  <2>3. DOMAIN mergeHash' = reached
    BY <2>2
  <2>4. \A r \in rules' : IsPush(r) => Rhs(r) \in DOMAIN mergeHash'
    BY <2>1, <2>3
  <2>5. QED
    BY <2>1, <2>4, BuildStep DEF ShapeInv, TypeOK
<1>3. QED
  BY <1>1, <1>2

(* What setupOutput makes of the input. *)
LEMMA SetupFacts ==
    ASSUME ShapeInv, Setup
    PROVE  LET A == CopyOf(input) IN
           /\ IsAutomaton(A) /\ A.trans = input.trans /\ A.marked = input.trans
           /\ \A k \in input.trans : W(A, k) = input.weight[k] /\ D(A, k) = W(A, k)
           /\ CallOf(A.trans, input.call)
           /\ pc = "setup" /\ pc' = "saturate" /\ query \in {"post", "pre"}
           /\ todo = {} /\ calls = {}
           /\ InputOK([trans |-> input.trans, weight |-> input.weight, gen |-> input.gen])
           /\ gen' = input.gen + 1 /\ gen' \in 1..MaxGeneration
           /\ quasi' \in [GenState -> Weight]
           /\ UNCHANGED <<database, input, query, work>>
           /\ \E K \in SUBSET Key : \E ins \in [K -> Weight] :
                /\ fa' = Update(A, ins)
                /\ call' = SummaryTrans(A, input.call, K)
                /\ query = "post" => K = {}
                /\ \A k \in K : k.from \in P /\ k.to \in P /\ k.stk # EPS
                /\ query = "pre" => \A r \in rules : IsPop(r) =>
                     LET k == [from |-> r.from, stk |-> r.stk, to |-> r.to]
                     IN  k \in K /\ ins[k] = r.weight
<1> DEFINE A == CopyOf(input)
           pops == {r \in rules : IsPop(r) /\ query = "pre"}
           keyOf(r) == [from |-> r.from, stk |-> r.stk, to |-> r.to]
           ruleOf(k) == CHOOSE r \in pops : keyOf(r) = k
           K == {keyOf(r) : r \in pops}
           ins == [k \in K |-> ruleOf(k).weight]
<1>1. /\ pc = "setup" /\ pc' = "saturate"
      /\ fa' = Update(A, ins) /\ call' = SummaryTrans(A, input.call, K)
      /\ gen' = input.gen + 1
      /\ quasi' = [g \in GenState |-> Zero]
      /\ UNCHANGED <<database, input, query, work>>
  BY DEF Setup, CopiedCalls
<1>2. /\ query \in {"post", "pre"} /\ todo = {} /\ calls = {}
      /\ InputOK([trans |-> input.trans, weight |-> input.weight, gen |-> input.gen])
      /\ input.gen < MaxGeneration /\ CallOf(input.trans, input.call)
  BY <1>1 DEF ShapeInv, PhaseOK, InputReady, TypeOK
<1>3. /\ input.trans \subseteq Key /\ input.weight \in [input.trans -> Weight]
      /\ input.gen \in 0..MaxGeneration
  BY <1>2 DEF InputOK, IsInput, Generation
<1>4. gen' \in 1..MaxGeneration
  BY <1>1, <1>2, <1>3, WfaAssumption
<1>5. /\ A.trans = input.trans /\ A.weight = input.weight
      /\ A.delta = input.weight /\ A.marked = input.trans
  BY DEF CopyOf
<1>6. IsAutomaton(A)
  BY <1>3 DEF CopyOf, IsAutomaton
<1> HIDE DEF A
<1>7. \A k \in input.trans : W(A, k) = input.weight[k] /\ D(A, k) = W(A, k)
  BY <1>5 DEF W, D
<1>8. quasi' \in [GenState -> Weight]
  BY <1>1, WeightClosed
<1>9. ASSUME NEW r \in pops
      PROVE  /\ r \in rules /\ keyOf(r) \in Key
             /\ keyOf(r).from \in P /\ keyOf(r).to \in P /\ keyOf(r).stk # EPS
  <2>1. r.from \in P /\ r.stk \in Stack /\ r.to \in P /\ r.stk # EPS
    BY RuleParts DEF ShapeInv
  <2>2. QED
    BY <2>1 DEF Key, State, Symbol
<1>10. ASSUME NEW r \in pops
       PROVE  ruleOf(keyOf(r)) = r
  <2>1. \A s \in pops : keyOf(s) = keyOf(r) => s = r
    <3> SUFFICES ASSUME NEW s \in pops, keyOf(s) = keyOf(r) PROVE s = r
      OBVIOUS
    <3>1. s.from = r.from /\ s.stk = r.stk /\ s.to = r.to
      OBVIOUS
    <3>2. s.stk1 = r.stk1 /\ s.stk2 = r.stk2
      BY RuleParts DEF ShapeInv, IsPop
    <3>3. SameRule(s, r)
      BY <3>1, <3>2 DEF SameRule
    <3>4. QED
      BY <3>3 DEF ShapeInv, TypeOK
  <2> HIDE DEF keyOf, pops
  <2>2. QED
    BY <2>1
<1>11. \A r \in pops : keyOf(r) \in K
  OBVIOUS
<1>12. \A k \in K : \E r \in pops : k = keyOf(r)
  OBVIOUS
<1>13. K \in SUBSET Key /\ \A k \in K : k.from \in P /\ k.to \in P /\ k.stk # EPS
  BY <1>9, <1>12
<1> HIDE DEF ruleOf, keyOf
<1>14. \A r \in pops : ins[keyOf(r)] = r.weight
  BY <1>10, <1>11
<1>15. \A r \in pops : r.weight \in Weight
  BY RuleParts DEF ShapeInv
<1>16. ins \in [K -> Weight]
  BY <1>10, <1>12, <1>15
<1> HIDE DEF K, ins
<1>17. query = "post" => K = {}
  BY <1>12
<1>18. query = "pre" => \A r \in rules : IsPop(r) =>
          keyOf(r) \in K /\ ins[keyOf(r)] = r.weight
  BY <1>11, <1>14
<1>19. \E X \in SUBSET Key : \E ks \in [X -> Weight] :
          /\ fa' = Update(A, ks)
          /\ call' = SummaryTrans(A, input.call, X)
          /\ query = "post" => X = {}
          /\ \A k \in X : k.from \in P /\ k.to \in P /\ k.stk # EPS
          /\ query = "pre" => \A r \in rules : IsPop(r) =>
               LET k == [from |-> r.from, stk |-> r.stk, to |-> r.to]
               IN  k \in X /\ ks[k] = r.weight
  <2>1. \A r : [from |-> r.from, stk |-> r.stk, to |-> r.to] = keyOf(r)
    BY DEF keyOf
  <2> HIDE DEF pops
  <2>2. fa' = Update(A, ins) /\ call' = SummaryTrans(A, input.call, K)
    BY <1>1
  <2>3. QED
    BY <1>13, <1>16, <1>17, <1>18, <2>1, <2>2
<1>20. QED
  BY <1>1, <1>2, <1>4, <1>5, <1>6, <1>7, <1>8, <1>19 DEF A

(* setupOutput. *)
LEMMA SetupShape ==
    ASSUME ShapeInv, Setup
    PROVE  ShapeInv'
<1> DEFINE A == CopyOf(input)
<1>1. /\ IsAutomaton(A) /\ A.trans = input.trans /\ CallOf(A.trans, input.call)
      /\ pc = "setup" /\ pc' = "saturate" /\ query \in {"post", "pre"}
      /\ todo = {} /\ calls = {}
      /\ InputOK([trans |-> input.trans, weight |-> input.weight, gen |-> input.gen])
      /\ gen' = input.gen + 1 /\ gen' \in 1..MaxGeneration
      /\ quasi' \in [GenState -> Weight]
      /\ UNCHANGED <<rules, mergeHash, readded, input, query, cur, dnew, todo, calls>>
  BY SetupFacts DEF database, work
<1>2. PICK K \in SUBSET Key :
          \E ins \in [K -> Weight] :
                /\ fa' = Update(A, ins)
                /\ call' = SummaryTrans(A, input.call, K)
                /\ query = "post" => K = {}
                /\ \A k \in K : k.from \in P /\ k.to \in P /\ k.stk # EPS
  BY SetupFacts
<1>a. PICK ins \in [K -> Weight] :
                /\ fa' = Update(A, ins)
                /\ call' = SummaryTrans(A, input.call, K)
                /\ query = "post" => K = {}
                /\ \A k \in K : k.from \in P /\ k.to \in P /\ k.stk # EPS
  BY <1>2
<1> HIDE DEF A
<1>3. IsAutomaton(fa') /\ fa'.trans = input.trans \cup K
  <2>1. K \in SUBSET Key /\ ins \in [K -> Weight]
    BY <1>2, <1>a
  <2>2. IsAutomaton(Update(A, ins)) /\ Update(A, ins).trans = A.trans \cup K
    BY <1>1, <2>1, UpdateFacts
  <2>3. QED
    BY <1>1, <1>a, <2>2
<1>4. /\ DOMAIN call' = DOMAIN input.call \cup (K \ input.trans)
      /\ \A k \in DOMAIN input.call : call'[k] = input.call[k]
      /\ CallOf(input.trans \cup K, call')
  <2> DEFINE old == input.call
             d == SummaryTrans(A, old, K)
  <2>1. CallOf(A.trans, old) /\ d = call'
    BY <1>1, <1>a
  <2> HIDE DEF old
  <2>2. /\ DOMAIN d = DOMAIN old \cup (K \ A.trans)
        /\ \A k \in DOMAIN old : d[k] = old[k]
        /\ CallOf(A.trans \cup K, d)
    BY <2>1, SummaryFacts
  <2> HIDE DEF d
  <2>3. QED
    BY <1>1, <2>1, <2>2 DEF old
<1>5. TypeOK'
  BY <1>1, <1>3, <1>4, WfaAssumption DEF ShapeInv, TypeOK, Generation
<1>6. InputReady' /\ PhaseOK'
  BY <1>1 DEF ShapeInv, InputReady, EpsKeptOut, PhaseOK
<1>7. input.gen \in 0..MaxGeneration
  BY <1>1 DEF InputOK, IsInput, Generation
<1>8. ASSUME NEW k \in fa'.trans
      PROVE  ShapedOf(k, call)'
  <2>1. CASE k \in input.trans
    <3>1. k.to \notin P /\ (k.from \in GenState => k.from.gen <= input.gen)
      BY <1>1, <2>1 DEF InputOK
    <3>2. k \in DOMAIN call' => k \in DOMAIN input.call /\ call'[k] = input.call[k]
      BY <1>4, <2>1
    <3>3. k \in DOMAIN input.call => k.from \notin P /\ input.call[k].merge \in Merge
      BY <1>1 DEF ShapeInv, InputReady
    <3>4. k.from \in GenState => k.from.gen <= gen'
      <4>1. k.from \in GenState => k.from.gen \in 1..MaxGeneration
        BY DEF GenState
      <4>2. QED
        BY <1>1, <1>7, <3>1, <4>1
    <3>5. QED
      BY <1>1, <3>1, <3>2, <3>3, <3>4 DEF ShapedOf
  <2>2. CASE k \notin input.trans
    <3>1. k \in K /\ k \in DOMAIN call' /\ query = "pre"
      BY <1>1, <1>a, <1>3, <1>4, <2>2
    <3>2. k.from \in P /\ k.to \in P /\ k.from \notin GenState
      BY <1>a, <3>1, WfaAssumption
    <3>3. QED
      BY <1>1, <3>1, <3>2 DEF ShapedOf
  <2>3. QED
    BY <2>1, <2>2
<1>9. EpsKeptOut(fa'.trans)
  BY <1>1, <1>a, <1>3 DEF ShapeInv, InputReady, EpsKeptOut
<1>10. ShapeOf(fa, call)'
  BY <1>8, <1>9 DEF ShapeOf, EpsKeptOut
<1>11. QED
  BY <1>5, <1>6, <1>10 DEF ShapeInv

(* The next query is asked. *)
LEMMA AskedShape ==
    ASSUME ShapeInv, NEW in,
           IsInput([trans |-> in.trans, weight |-> in.weight, gen |-> in.gen]),
           CallOf(in.trans, in.call), EpsKeptOut(in.trans),
           \A k \in in.trans : k.from \in GenState => k.from.gen <= in.gen,
           \A k \in DOMAIN in.call : k.from \notin P /\ in.call[k].merge \in Merge,
           todo = {}, calls = {}, Asked(in)
    PROVE  ShapeInv'
<1>1. /\ in.trans # {} /\ in.gen < MaxGeneration
      /\ \A k \in in.trans : k.to \notin P
      /\ input' = in /\ query' \in {"post", "pre"} /\ pc' = "setup"
      /\ UNCHANGED <<database, fa, call, gen, quasi, cur, dnew, todo, calls>>
  BY DEF Asked, work
<1>2. TypeOK'
  BY <1>1 DEF ShapeInv, TypeOK, database
<1>3. InputReady'
  <2>1. input' # NoInput
    BY <1>1 DEF NoInput
  <2>2. InputOK([trans |-> in.trans, weight |-> in.weight, gen |-> in.gen])
    BY <1>1 DEF InputOK
  <2>3. QED
    BY <1>1, <2>1, <2>2 DEF InputReady, EpsKeptOut
<1>4. PhaseOK'
  BY <1>1 DEF PhaseOK
<1>5. QED
  BY <1>1, <1>2, <1>3, <1>4 DEF ShapeInv

(* The client asks of an automaton of its own, or of the one it got. *)
LEMMA AskShape ==
    ASSUME ShapeInv, Ask \/ AskAgain
    PROVE  ShapeInv'
<1>1. CASE Ask
  <2>1. PICK in \in Inputs : Asked([trans |-> in.trans, weight |-> in.weight,
                                    gen |-> in.gen, call |-> EmptyCall])
    BY <1>1 DEF Ask
  <2> DEFINE out == [trans |-> in.trans, weight |-> in.weight,
                     gen |-> in.gen, call |-> EmptyCall]
  <2>2. InputOK(in) /\ IsInput(in)
    BY EwpdsAssumption DEF InputOK
  <2>3. /\ IsInput([trans |-> out.trans, weight |-> out.weight, gen |-> out.gen])
        /\ \A k \in out.trans : k.from \in GenState => k.from.gen <= out.gen
    BY <2>2 DEF InputOK, IsInput
  <2>4. DOMAIN out.call = {} /\ out.call = [x \in {} |-> 0]
    BY DEF EmptyCall
  <2>5. CallOf(out.trans, out.call)
    BY <2>4 DEF CallOf
  <2>6. EpsKeptOut(out.trans)
    BY DEF EpsKeptOut, AllFromControl, EpsilonFromControl
  <2>7. todo = {} /\ calls = {} /\ Asked(out)
    BY <1>1, <2>1 DEF Ask, ShapeInv, PhaseOK
  <2> HIDE DEF out
  <2>8. QED
    BY <2>3, <2>4, <2>5, <2>6, <2>7, AskedShape
<1>2. CASE AskAgain
  <2> DEFINE out == [trans |-> fa.trans, weight |-> fa.weight, gen |-> gen, call |-> call]
  <2>1. pc = "done" /\ Asked(out) /\ TypeOK /\ ShapeOf(fa, call) /\ todo = {} /\ calls = {}
    BY <1>2 DEF AskAgain, ShapeInv, PhaseOK
  <2>2. /\ out.trans = fa.trans /\ out.weight = fa.weight /\ out.gen = gen
        /\ out.call = call
    OBVIOUS
  <2> HIDE DEF out
  <2>3. /\ IsInput([trans |-> out.trans, weight |-> out.weight, gen |-> out.gen])
        /\ CallOf(out.trans, out.call)
    BY <2>1, <2>2 DEF IsInput, IsAutomaton, TypeOK
  <2>4. /\ EpsKeptOut(out.trans)
        /\ \A k \in out.trans : k.from \in GenState => k.from.gen <= out.gen
    BY <2>1, <2>2 DEF ShapeOf, ShapedOf
  <2>5. \A k \in DOMAIN out.call : k.from \notin P /\ out.call[k].merge \in Merge
    <3> SUFFICES ASSUME NEW k \in DOMAIN call
                 PROVE  k.from \notin P /\ call[k].merge \in Merge
      BY <2>2
    <3>1. k \in fa.trans
      BY <2>1 DEF TypeOK, CallOf
    <3>2. k.to \notin P
      BY <2>1, <2>2, <3>1 DEF Asked
    <3>3. QED
      BY <2>1, <3>1, <3>2 DEF ShapeOf, ShapedOf
  <2>6. QED
    BY <2>1, <2>3, <2>4, <2>5, AskedShape
<1>3. QED
  BY <1>1, <1>2

(* post() or pre() take a transition off the worklist. *)
LEMMA PopShape ==
    ASSUME ShapeInv, PopTransition
    PROVE  ShapeInv'
<1>1. PICK t \in fa.marked :
              /\ t \in Key /\ D(fa, t) \in Weight
              /\ cur' = t /\ dnew' = D(fa, t)
              /\ IsAutomaton(fa') /\ fa'.trans = fa.trans
              /\ JobOK(fa'.trans, [cur |-> cur', dnew |-> dnew',
                                   todo |-> todo', calls |-> calls'])
  BY PopFacts
<1>2. /\ pc = "saturate" /\ pc' = "saturate" /\ call' = call
      /\ UNCHANGED <<database, input, gen, query>> /\ quasi' = quasi
      /\ CallOf(fa.trans, call) /\ ShapeOf(fa, call) /\ quasi \in [GenState -> Weight]
  BY WhileSaturating DEF PopTransition, Saturating
<1>3. ShapeOf(fa', call')
  BY <1>1, <1>2 DEF ShapeOf
<1>4. CallOf(fa'.trans, call')
  BY <1>1, <1>2
<1>5. quasi' \in [GenState -> Weight] /\ cur' \in Key \cup {NoKey} /\ dnew' \in Weight
  BY <1>1, <1>2
<1>6. QED
  BY <1>1, <1>2, <1>3, <1>4, <1>5, ShapeStep

(* post() on an epsilon transition. *)
LEMMA EpsilonShape ==
    ASSUME ShapeInv, PopEpsilon
    PROVE  ShapeInv'
<1>1. todo = {} /\ calls = {} /\
      \E e \in fa.marked :
                LET A == Take(fa, e)
                    ins == Bypasses(A, call, e, D(fa, e))
                    K == BypassKeys(A, e)
                IN  /\ e \in fa.trans /\ e.stk = EPS /\ e.to \notin P
                    /\ D(fa, e) \in Weight
                    /\ \A u \in Leaving(A, e.to) : u \in DOMAIN call => call[u].merge \in Merge
                    /\ IsAutomaton(A) /\ A.trans = fa.trans
                    /\ IsAutomaton(fa') /\ fa'.trans = fa.trans \cup K
  BY EpsilonFacts
<1>2. PICK e \in fa.marked :
                LET A == Take(fa, e)
                    ins == Bypasses(A, call, e, D(fa, e))
                    K == BypassKeys(A, e)
                IN  /\ e \in fa.trans /\ e.stk = EPS /\ e.to \notin P
                    /\ D(fa, e) \in Weight
                    /\ \A u \in Leaving(A, e.to) : u \in DOMAIN call => call[u].merge \in Merge
                    /\ IsAutomaton(A) /\ A.trans = fa.trans
                    /\ IsAutomaton(fa') /\ fa'.trans = fa.trans \cup K
  BY <1>1
<1>3. /\ pc = "saturate" /\ pc' = "saturate" /\ call' = call
      /\ UNCHANGED <<database, input, gen, query, todo, calls>>
      /\ quasi' = quasi /\ cur' = cur /\ dnew' = dnew
      /\ IsAutomaton(fa) /\ CallOf(fa.trans, call) /\ ShapeOf(fa, call)
      /\ quasi \in [GenState -> Weight] /\ cur \in Key \cup {NoKey} /\ dnew \in Weight
  BY WhileSaturating DEF PopEpsilon, Saturating, work
<1> DEFINE A == Take(fa, e)
           K == BypassKeys(A, e)
<1>4. /\ e \in fa.trans /\ e.to \notin P /\ e.stk = EPS
      /\ IsAutomaton(A) /\ A.trans = fa.trans /\ CallOf(A.trans, call) /\ e \in A.trans
      /\ D(fa, e) \in Weight
      /\ \A u \in Leaving(A, e.to) : u \in DOMAIN call => call[u].merge \in Merge
      /\ IsAutomaton(fa') /\ fa'.trans = fa.trans \cup K
  BY <1>2, <1>3
<1> HIDE DEF A
<1>5. ASSUME NEW k \in K, k \notin fa.trans
      PROVE  ShapedOf(k, call) /\ (AllFromControl => (k.stk = EPS => k.from \in P))
  <2>1. PICK u \in Leaving(A, e.to) : /\ u \in A.trans /\ u.from = e.to
                                      /\ k.from = e.from /\ k.stk = u.stk /\ k.to = u.to
    BY <1>4, BypassFacts, SMTT(30)
  <2>2. ShapedOf(u, call) /\ ShapedOf(e, call) /\ EpsKeptOut(fa.trans)
    BY <1>3, <1>4, <2>1 DEF ShapeOf
  <2>3. u \in fa.trans
    BY <1>4, <2>1
  <2>4. k.to \notin P /\ (k.from \in GenState => k.from.gen <= gen)
    BY <1>4, <2>1, <2>2 DEF ShapedOf
  <2>5. k \notin DOMAIN call
    BY <1>3, <1>5 DEF CallOf
  <2>6. AllFromControl => k.stk # EPS
    BY <1>4, <2>1, <2>2, <2>3 DEF EpsKeptOut
  <2>7. QED
    BY <2>4, <2>5, <2>6 DEF ShapedOf
<1>6. ShapeOf(fa', call')
  BY <1>3, <1>4, <1>5, ShapeKept
<1>7. CallOf(fa'.trans, call')
  BY <1>3, <1>4 DEF CallOf
<1>8. JobOK(fa'.trans, [cur |-> cur', dnew |-> dnew', todo |-> todo', calls |-> calls'])
  BY <1>1, <1>3 DEF JobOK
<1>9. QED
  BY <1>3, <1>4, <1>6, <1>7, <1>8, ShapeStep

(* A forward rule that does not push. *)
LEMMA PostRuleShape ==
    ASSUME ShapeInv, PostRule
    PROVE  ShapeInv'
<1>1. PICK r \in todo :
              LET k == Callee(r, cur.to)
                  w == Extend(dnew, r.weight)
              IN  /\ k \in Key /\ k.from \in P /\ k.to \notin P /\ r \in rules
                  /\ k = RuleTarget(cur, r) /\ cur \in Key
                  /\ w \in Weight
                  /\ fa' = Update(fa, At(k, w))
                  /\ todo' = todo \ {r}
  BY PostRuleFacts
<1> DEFINE k == Callee(r, cur.to)
           w == Extend(dnew, r.weight)
<1>2. /\ pc = "saturate" /\ pc' = "saturate" /\ call' = call
      /\ UNCHANGED <<database, input, gen, query>>
      /\ quasi' = quasi /\ cur' = cur /\ dnew' = dnew /\ calls' = calls /\ query = "post"
      /\ IsAutomaton(fa) /\ CallOf(fa.trans, call) /\ ShapeOf(fa, call)
      /\ quasi \in [GenState -> Weight] /\ cur \in Key \cup {NoKey} /\ dnew \in Weight
  BY WhileSaturating DEF PostRule
<1>3. AllFromControl => (k.stk = EPS => k.from \in P)
  BY <1>1
<1>4. k \in Key /\ k.from \in P /\ k.from \notin GenState /\ k.to \notin P /\ w \in Weight
      /\ fa' = Update(fa, At(k, w)) /\ todo' = todo \ {r}
  BY <1>1, WfaAssumption
<1> HIDE DEF k, w
<1>5. IsAutomaton(fa') /\ fa'.trans = fa.trans \cup {k}
  BY <1>2, <1>4, UpdateAt
<1>6. k \notin fa.trans => ShapedOf(k, call)
  BY <1>2, <1>4 DEF ShapedOf, CallOf
<1>7. ShapeOf(fa', call')
  BY <1>2, <1>3, <1>5, <1>6, ShapeKept
<1>8. CallOf(fa'.trans, call')
  BY <1>2, <1>5 DEF CallOf
<1>9. JobOK(fa'.trans, [cur |-> cur', dnew |-> dnew', todo |-> todo', calls |-> calls'])
  <2>1. JobOK(fa'.trans, [cur |-> cur, dnew |-> dnew, todo |-> todo', calls |-> calls])
    BY <1>4, <1>5, JobDone
  <2>2. QED
    BY <1>2, <2>1
<1>10. QED
  BY <1>2, <1>5, <1>7, <1>8, <1>9, ShapeStep

(* The automaton and the ETrans once a push rule has inserted its transitions. *)
LEMMA AfterCall ==
    ASSUME ShapeInv, pc = "saturate", query = "post",
           NEW r, r.merge \in Merge, NEW mid \in Key, mid.from \notin P,
           NEW ent \in Key, NEW w \in Weight, NEW q \in Weight
    PROVE  LET A1 == Insert(fa, At(mid, w))
               A2 == Update(A1, At(ent, q))
               c2 == CallAfter(call, mid, r, dnew)
           IN  /\ IsAutomaton(A1) /\ A1.trans = fa.trans \cup {mid}
               /\ IsAutomaton(A2) /\ A2.trans = fa.trans \cup {mid, ent}
               /\ CallOf(A2.trans, c2) /\ DOMAIN c2 = DOMAIN call \cup {mid}
               /\ \A k \in DOMAIN call \ {mid} : c2[k] = call[k]
               /\ c2[mid].merge \in Merge
<1> DEFINE A1 == Insert(fa, At(mid, w))
           A2 == Update(A1, At(ent, q))
           c2 == CallAfter(call, mid, r, dnew)
<1>1. /\ IsAutomaton(fa) /\ CallOf(fa.trans, call) /\ ShapeOf(fa, call) /\ dnew \in Weight
  BY WhileSaturating
<1>2. {mid} \in SUBSET Key /\ At(mid, w) \in [{mid} -> Weight]
  BY DEF At
<1>3. IsAutomaton(A1) /\ A1.trans = fa.trans \cup {mid}
  BY <1>1, <1>2, InsertFacts
<1> HIDE DEF A1
<1>4. IsAutomaton(A2) /\ A2.trans = A1.trans \cup {ent}
  BY <1>3, UpdateAt
<1> HIDE DEF A2
<1>5. /\ DOMAIN c2 = DOMAIN call \cup {mid}
      /\ \A k \in DOMAIN call : c2[k].merge = call[k].merge
      /\ \A k \in DOMAIN call \ {mid} : c2[k] = call[k]
      /\ mid \notin DOMAIN call => c2[mid].merge = r.merge
      /\ CallOf(fa.trans \cup {mid}, c2)
  <2> DEFINE T == fa.trans
  <2>1. CallOf(T, call) /\ r.merge \in Merge /\ dnew \in Weight
    BY <1>1
  <2> HIDE DEF T
  <2>2. /\ DOMAIN c2 = DOMAIN call \cup {mid}
        /\ \A k \in DOMAIN call : c2[k].merge = call[k].merge
        /\ \A k \in DOMAIN call \ {mid} : c2[k] = call[k]
        /\ mid \notin DOMAIN call => c2[mid].merge = r.merge
        /\ c2[mid].at = Combine(AtCall(call, mid), dnew)
        /\ CallOf(T \cup {mid}, c2)
    BY <2>1, CallAfterFacts
  <2>3. QED
    BY <2>2 DEF T
<1> HIDE DEF c2
<1>6. CallOf(A2.trans, c2)
  BY <1>3, <1>4, <1>5 DEF CallOf
<1>7. c2[mid].merge \in Merge
  <2>1. CASE mid \in DOMAIN call
    <3>1. mid \in fa.trans
      BY <1>1, <2>1 DEF CallOf
    <3>2. call[mid].merge \in Merge
      BY <1>1, <2>1, <3>1 DEF ShapeOf, ShapedOf
    <3>3. QED
      BY <1>5, <2>1, <3>2
  <2>2. QED
    BY <1>5, <2>1
<1>8. QED
  BY <1>3, <1>4, <1>5, <1>6, <1>7 DEF A1, A2, c2

(* A push rule of poststar. *)
LEMMA PostPushShape ==
    ASSUME ShapeInv, PostPush
    PROVE  ShapeInv'
<1>1. PICK r \in todo :
              LET mid == Mid(cur, r)
                  wmid == Extend(dnew, r.weight)
                  qone == Combine(quasi[mid.from], One)
                  A1 == Insert(fa, At(mid, wmid))
                  A2 == Update(A1, At(Entry(r), qone))
                  c2 == CallAfter(call, mid, r, dnew)
              IN  /\ r.merge \in Merge
                  /\ mid \in Key /\ mid.to \notin P /\ mid.stk # EPS
                  /\ OfThisQuery(mid.from) /\ mid.from \notin P
                  /\ Entry(r) \in Key /\ Entry(r).from \in P /\ Entry(r).to \notin P
                  /\ Entry(r).stk # EPS
                  /\ wmid \in Weight /\ qone \in Weight
                  /\ quasi' \in [GenState -> Weight]
                  /\ call' = c2
                  /\ fa' = IF Modified(fa, mid, wmid) THEN Update(A2, Closure(A2, c2, mid))
                           ELSE A2
                  /\ todo' = todo \ {r}
  BY PostPushFacts
<1> DEFINE mid == Mid(cur, r)
           ent == Entry(r)
           wmid == Extend(dnew, r.weight)
           qone == Combine(quasi[mid.from], One)
           A1 == Insert(fa, At(mid, wmid))
           A2 == Update(A1, At(ent, qone))
           K == ClosureKeys(A2, mid)
<1>2. /\ pc = "saturate" /\ pc' = "saturate" /\ query = "post"
      /\ UNCHANGED <<database, input, gen, query>>
      /\ cur' = cur /\ dnew' = dnew /\ calls' = calls
      /\ IsAutomaton(fa) /\ CallOf(fa.trans, call) /\ ShapeOf(fa, call)
      /\ cur \in Key \cup {NoKey} /\ dnew \in Weight /\ gen \in 1..MaxGeneration
  BY WhileSaturating DEF PostPush
<1>3. /\ mid \in Key /\ mid.to \notin P /\ mid.stk # EPS /\ mid.from \notin P
      /\ mid.from \in GenState /\ mid.from.gen = gen
      /\ ent \in Key /\ ent.from \in P /\ ent.to \notin P /\ ent.stk # EPS
      /\ wmid \in Weight /\ qone \in Weight /\ r.merge \in Merge
      /\ quasi' \in [GenState -> Weight] /\ todo' = todo \ {r}
  BY <1>1 DEF OfThisQuery
<1>4. fa' = IF Modified(fa, mid, wmid) THEN Update(A2, Closure(A2, call', mid)) ELSE A2
  BY <1>1
<1>5. call' = CallAfter(call, mid, r, dnew)
  BY <1>1
<1> HIDE DEF mid, ent, wmid, qone
<1>6. /\ IsAutomaton(A2) /\ A2.trans = fa.trans \cup {mid, ent}
      /\ CallOf(A2.trans, call') /\ DOMAIN call' = DOMAIN call \cup {mid}
      /\ \A k \in DOMAIN call \ {mid} : call'[k] = call[k]
      /\ call'[mid].merge \in Merge
  BY <1>2, <1>3, <1>5, AfterCall, SMTT(30)
<1> HIDE DEF A2
<1>7. /\ K \in SUBSET Key /\ Closure(A2, call', mid) \in [K -> Weight]
      /\ \A k \in K : \E e \in A2.trans : /\ e.stk = EPS /\ k.from = e.from
                                          /\ k.stk = mid.stk /\ k.to = mid.to
  <2> DEFINE c2 == call'
             ins == Closure(A2, c2, mid)
  <2>1. CallOf(A2.trans, c2) /\ c2[mid].merge \in Merge /\ mid \in A2.trans
    BY <1>6
  <2> HIDE DEF c2
  <2>2. /\ K \in SUBSET Key /\ ins \in [K -> Weight]
        /\ \A k \in K : \E e \in EpsInto(A2, mid.from) :
                 /\ e \in A2.trans /\ e.stk = EPS /\ e.to = mid.from
                 /\ k.from = e.from /\ k.stk = mid.stk /\ k.to = mid.to
    BY <1>6, <2>1, ClosureFacts
  <2>3. QED
    BY <2>2 DEF c2
<1> HIDE DEF K
<1>8. /\ IsAutomaton(fa') /\ A2.trans \subseteq fa'.trans /\ fa'.trans \subseteq A2.trans \cup K
  <2> DEFINE ins == Closure(A2, call', mid)
  <2>1. ins \in [K -> Weight] /\ K \in SUBSET Key
    BY <1>7
  <2>2. fa' = Update(A2, ins) \/ fa' = A2
    BY <1>4
  <2> HIDE DEF ins
  <2>3. IsAutomaton(Update(A2, ins)) /\ Update(A2, ins).trans = A2.trans \cup K
    BY <1>6, <2>1, UpdateFacts
  <2>4. QED
    BY <1>6, <2>2, <2>3
<1>9. ShapedOf(mid, call')
  BY <1>2, <1>3, <1>6 DEF ShapedOf
<1>10. ASSUME NEW k \in fa'.trans, k \notin fa.trans
       PROVE  ShapedOf(k, call') /\ (AllFromControl => (k.stk = EPS => k.from \in P))
  <2>1. k # mid => k \notin DOMAIN call'
    BY <1>2, <1>6, <1>10 DEF CallOf
  <2>2. CASE k = mid
    BY <1>3, <1>9, <2>2
  <2>3. CASE k = ent /\ k # mid
    BY <1>2, <1>3, <2>1, <2>3, WfaAssumption DEF ShapedOf
  <2>4. CASE k \in K /\ k # mid
    <3>1. PICK e \in A2.trans : /\ e.stk = EPS /\ k.from = e.from
                                /\ k.stk = mid.stk /\ k.to = mid.to
      BY <1>7, <2>4
    <3>2. e \in fa.trans
      BY <1>3, <1>6, <3>1
    <3>3. k.from \in GenState => k.from.gen <= gen
      BY <1>2, <3>1, <3>2 DEF ShapeOf, ShapedOf
    <3>4. QED
      BY <1>3, <2>1, <2>4, <3>1, <3>3 DEF ShapedOf
  <2>5. QED
    BY <1>6, <1>8, <1>10, <2>2, <2>3, <2>4
<1>11. ASSUME NEW k \in fa.trans
       PROVE  \/ ShapedOf(k, call')
              \/ /\ k \in DOMAIN call' <=> k \in DOMAIN call
                 /\ k \in DOMAIN call => call'[k].merge = call[k].merge
  BY <1>6, <1>9
<1>12. ShapeOf(fa', call')
  <2> DEFINE B == fa'
             d == call'
  <2>1. /\ \A k \in fa.trans : \/ ShapedOf(k, d)
                               \/ /\ k \in DOMAIN d <=> k \in DOMAIN call
                                  /\ k \in DOMAIN call => d[k].merge = call[k].merge
        /\ \A k \in B.trans \ fa.trans :
              ShapedOf(k, d) /\ (AllFromControl => (k.stk = EPS => k.from \in P))
    BY <1>10, <1>11
  <2> HIDE DEF B, d
  <2>2. ShapeOf(B, d)
    BY <1>2, <2>1, ShapeKept
  <2>3. QED
    BY <2>2 DEF B, d
<1>13. CallOf(fa'.trans, call')
  BY <1>6, <1>8 DEF CallOf
<1>14. JobOK(fa'.trans, [cur |-> cur', dnew |-> dnew', todo |-> todo', calls |-> calls'])
  <2>1. JobOK(fa'.trans, [cur |-> cur, dnew |-> dnew, todo |-> todo', calls |-> calls])
    BY <1>3, <1>6, <1>8, JobDone
  <2>2. QED
    BY <1>2, <2>1
<1>15. QED
  BY <1>2, <1>3, <1>8, <1>12, <1>13, <1>14, ShapeStep

(* A step of prestar. *)
LEMMA PreStepShape ==
    ASSUME ShapeInv, NEW R \in SUBSET todo, NEW S \in SUBSET calls,
           NEW K \in SUBSET Key, NEW ins \in [K -> Weight], NEW E \in SUBSET K,
           PreStep(R, S, K, ins, E), quasi' = quasi
    PROVE  ShapeInv' /\ fa'.trans = fa.trans \cup K
<1>1. /\ pc = "saturate" /\ query = "pre" /\ pc' \in {"saturate", "aborted"}
      /\ fa' = Update(fa, ins) \/ (K = {} /\ fa' = fa)
      /\ call' = SummaryTrans(fa, call, E)
      /\ todo' = todo \ R /\ calls' = calls \ S
      /\ UNCHANGED <<database, input, gen, query>> /\ cur' = cur /\ dnew' = dnew
      /\ pc' = "aborted" => DOMAIN input.call # {}
      /\ \A k \in K : k.from \in P /\ k.stk # EPS
      /\ pc' = "saturate" => \A k \in K : k \in E <=> k.to \in P
  BY DEF PreStep
<1>2. /\ IsAutomaton(fa) /\ CallOf(fa.trans, call) /\ ShapeOf(fa, call)
      /\ cur \in Key \cup {NoKey} /\ dnew \in Weight /\ quasi' \in [GenState -> Weight]
  BY <1>1, WhileSaturating
<1>3. IsAutomaton(fa') /\ fa'.trans = fa.trans \cup K
  <2>1. IsAutomaton(Update(fa, ins)) /\ Update(fa, ins).trans = fa.trans \cup K
    BY <1>2, UpdateFacts
  <2>2. QED
    BY <1>1, <1>2, <2>1
<1>4. /\ DOMAIN call' = DOMAIN call \cup (E \ fa.trans)
      /\ \A k \in DOMAIN call : call'[k] = call[k]
      /\ CallOf(fa.trans \cup E, call')
  <2> DEFINE d == SummaryTrans(fa, call, E)
  <2>1. /\ DOMAIN d = DOMAIN call \cup (E \ fa.trans)
        /\ \A k \in DOMAIN call : d[k] = call[k]
        /\ CallOf(fa.trans \cup E, d)
    BY <1>2, SummaryFacts
  <2>2. d = call'
    BY <1>1
  <2> HIDE DEF d
  <2>3. QED
    BY <2>1, <2>2
<1>5. CallOf(fa'.trans, call')
  BY <1>3, <1>4 DEF CallOf
<1>6. ASSUME pc' = "saturate" PROVE ShapeOf(fa', call')
  <2> DEFINE B == fa'
             d == call'
  <2>1. ASSUME NEW k \in B.trans \ fa.trans
        PROVE  ShapedOf(k, d) /\ (AllFromControl => (k.stk = EPS => k.from \in P))
    <3>1. k \in K /\ k.from \in P /\ k.from \notin GenState /\ k.stk # EPS
          /\ (k \in E <=> k.to \in P)
      BY <1>1, <1>3, <1>6, <2>1, WfaAssumption
    <3>2. k \in DOMAIN d <=> k \in E
      BY <1>2, <1>4, <2>1 DEF CallOf
    <3>3. QED
      BY <1>1, <3>1, <3>2 DEF ShapedOf
  <2>2. \A k \in fa.trans : /\ k \in DOMAIN d <=> k \in DOMAIN call
                            /\ k \in DOMAIN call => d[k].merge = call[k].merge
    BY <1>4
  <2> HIDE DEF B, d
  <2>3. ShapeOf(B, d)
    BY <1>2, <2>1, <2>2, ShapeKept
  <2>4. QED
    BY <2>3 DEF B, d
<1>7. JobOK(fa'.trans, [cur |-> cur', dnew |-> dnew', todo |-> todo', calls |-> calls'])
  <2>1. JobOK(fa'.trans, [cur |-> cur, dnew |-> dnew, todo |-> todo', calls |-> calls'])
    BY <1>1, <1>3, JobDone
  <2>2. QED
    BY <1>1, <2>1
<1>8. ShapeInv'
  BY <1>1, <1>2, <1>3, <1>5, <1>6, <1>7, ShapeStep
<1>9. QED
  BY <1>3, <1>8

(* What prestar does with a rule and the transition at work. *)
LEMMA PreSteps ==
    ASSUME ShapeInv, PreRule \/ PrePushFirst \/ PrePushSecond
    PROVE  \E R \in SUBSET todo, S \in SUBSET calls, K \in SUBSET Key :
              \E ins \in [K -> Weight], E \in SUBSET K :
                 PreStep(R, S, K, ins, E) /\ quasi' = quasi
<1>1. CASE PreRule \/ PrePushFirst
  <2>1. \E r \in todo, K \in SUBSET Key : \E ins \in [K -> Weight], E \in SUBSET K :
              PreStep({r}, {}, K, ins, E)
    BY <1>1, PreRuleStep, PrePushFirstStep
  <2>2. PICK r \in todo : \E K \in SUBSET Key : \E ins \in [K -> Weight], E \in SUBSET K :
              PreStep({r}, {}, K, ins, E)
    BY <2>1
  <2>3. {r} \in SUBSET todo /\ {} \in SUBSET calls /\ quasi' = quasi
    BY <1>1, <2>2 DEF PreRule, PrePushFirst
  <2>4. QED
    BY <2>2, <2>3
<1>2. CASE PrePushSecond
  <2>1. PICK r \in calls : \E K \in SUBSET Key : \E ins \in [K -> Weight], E \in SUBSET K :
              PreStep({}, {r}, K, ins, E)
    BY <1>2, PrePushSecondStep
  <2>2. {r} \in SUBSET calls /\ {} \in SUBSET todo /\ quasi' = quasi
    BY <1>2, <2>1 DEF PrePushSecond
  <2>3. QED
    BY <2>1, <2>2
<1>3. QED
  BY <1>1, <1>2

(* The query returns. *)
LEMMA FinishShape ==
    ASSUME ShapeInv, Finish
    PROVE  ShapeInv'
<1>1. /\ pc = "saturate" /\ pc' = "done" /\ todo = {} /\ calls = {} /\ fa.marked = {}
      /\ cur' = NoKey /\ dnew' = Zero
      /\ UNCHANGED <<rules, mergeHash, readded, input, fa, call, gen, quasi, query, todo, calls>>
  BY DEF Finish, Saturating, database
<1>2. TypeOK'
  BY <1>1, WeightClosed DEF ShapeInv, TypeOK
<1>3. InputReady' /\ PhaseOK'
  BY <1>1 DEF ShapeInv, InputReady, PhaseOK, EpsKeptOut
<1>4. ShapeOf(fa, call)'
  BY <1>1 DEF ShapeInv, ShapeOf, ShapedOf, EpsKeptOut
<1>5. QED
  BY <1>2, <1>3, <1>4 DEF ShapeInv

(* The empty map, written <<>> in NoInput, is a function into any set. *)
LEMMA EmptyWeights == \A S : <<>> \in [{} -> S]
<1>1. <<>> = [x \in {} |-> x]
  OBVIOUS
<1>2. QED
  BY <1>1

(* The shape holds before the first rule. *)
LEMMA InitShape == Init => ShapeInv
<1> SUFFICES ASSUME Init PROVE ShapeInv
  OBVIOUS
<1>1. /\ rules = {} /\ mergeHash = [x \in {} |-> 0] /\ input = NoInput
      /\ fa = EmptyAutomaton /\ call = EmptyCall /\ gen = 0
      /\ quasi = [g \in GenState |-> Zero] /\ query = "none" /\ pc = "idle"
      /\ cur = NoKey /\ dnew = Zero /\ todo = {} /\ calls = {}
  BY DEF Init
<1>2. /\ IsInput([trans |-> input.trans, weight |-> input.weight, gen |-> input.gen])
      /\ gen \in Generation
  BY <1>1, EmptyWeights, WfaAssumption DEF NoInput, IsInput, Generation
<1>3. CallOf({}, EmptyCall)
  BY DEF CallOf, EmptyCall
<1>4. input.trans = {} /\ input.call = EmptyCall
  BY <1>1 DEF NoInput
<1>5. IsAutomaton(fa) /\ fa.trans = {}
  BY <1>1, EmptyWeights DEF EmptyAutomaton, IsAutomaton
<1>6. quasi \in [GenState -> Weight] /\ dnew \in Weight
  BY <1>1, WeightClosed
<1>7. TypeOK
  BY <1>1, <1>2, <1>3, <1>4, <1>5, <1>6 DEF TypeOK
<1>8. InputReady /\ PhaseOK
  BY <1>1 DEF InputReady, PhaseOK
<1>9. QED
  BY <1>1, <1>7, <1>8 DEF ShapeInv

(* The shape is kept by every step of a session. *)
LEMMA NextShape == ShapeInv /\ [Next]_vars => ShapeInv'
<1> SUFFICES ASSUME ShapeInv, [Next]_vars PROVE ShapeInv'
  OBVIOUS
<1>1. CASE Build
  <2>1. ASSUME NEW a \in Additions, AddNew(a) \/ AddAgain(a) PROVE ShapeInv'
    BY <2>1, AddNewShape, AddAgainShape
  <2>2. CASE EraseRule \/ Copy
    BY <2>2, EraseCopyShape
  <2>3. QED
    BY <1>1, <2>1, <2>2 DEF Build
<1>2. CASE Ask \/ AskAgain
  BY <1>2, AskShape
<1>3. CASE Setup
  BY <1>3, SetupShape
<1>4. CASE PopTransition
  BY <1>4, PopShape
<1>5. CASE PopEpsilon
  BY <1>5, EpsilonShape
<1>6. CASE PostRule
  BY <1>6, PostRuleShape
<1>7. CASE PostPush
  BY <1>7, PostPushShape
<1>8. CASE PreRule \/ PrePushFirst \/ PrePushSecond
  BY <1>8, PreSteps, PreStepShape
<1>9. CASE Finish
  BY <1>9, FinishShape
<1>10. CASE UNCHANGED vars
  <2>1. UNCHANGED <<rules, mergeHash, input, fa, call, gen, quasi, query, pc,
                    cur, dnew, todo, calls>>
    BY <1>10 DEF vars, database, work
  <2>2. TypeOK'
    BY <2>1 DEF ShapeInv, TypeOK
  <2>3. InputReady' /\ PhaseOK'
    BY <2>1 DEF ShapeInv, InputReady, PhaseOK, EpsKeptOut
  <2>4. pc' \in {"saturate", "done"} => ShapeOf(fa, call)'
    BY <2>1 DEF ShapeInv, ShapeOf, ShapedOf, EpsKeptOut
  <2>5. QED
    BY <2>2, <2>3, <2>4 DEF ShapeInv
<1>11. QED
  BY <1>1, <1>2, <1>3, <1>4, <1>5, <1>6, <1>7, <1>8, <1>9, <1>10 DEF Next, Query

(* The shape is kept throughout a session. *)
LEMMA ShapeAlways == Spec => []ShapeInv
BY InitShape, NextShape, PTL DEF Spec

(* What the shape says of the summaries of prestar. *)
LEMMA MarkedOf == ShapeInv => SummariesMarked
<1> SUFFICES ASSUME ShapeInv, query = "pre", pc \in {"saturate", "done", "aborted"},
                    DOMAIN input.call = {}
             PROVE  /\ pc # "aborted"
                    /\ \A k \in fa.trans : k \in DOMAIN call <=> k.to \in P
  BY DEF SummariesMarked
<1>1. pc # "aborted" /\ ShapeOf(fa, call)
  BY DEF ShapeInv, PhaseOK
<1>2. QED
  BY <1>1 DEF ShapeOf, ShapedOf

(***************************************************************************)
(* Type correctness of a session: the rules keep their merge functions,    *)
(* every push rule its entry in merge_rule_hash, and the ETrans of a query *)
(* are transitions of its automaton.                                       *)
(***************************************************************************)
THEOREM EwpdsTyped == Spec => []TypeOK
<1>1. ShapeInv => TypeOK
  BY DEF ShapeInv
<1>2. QED
  BY <1>1, ShapeAlways, PTL

(***************************************************************************)
(* prestar marks as ETrans the transitions into a control state and no     *)
(* other, so it merges at the returns only and no assertion of             *)
(* prestar_handle_trans or prestar_handle_call fails, whatever the rules   *)
(* and the order of the worklist, when its input has no ETrans.            *)
(***************************************************************************)
THEOREM EwpdsSummariesMarked == Spec => []SummariesMarked
BY ShapeAlways, MarkedOf, PTL

-----------------------------------------------------------------------------
(***************************************************************************)
(* merge_rule_hash.                                                        *)
(***************************************************************************)
(* An entry is replaced, or its merge function, or its rule. *)
LEMMA EntryParts ==
    ASSUME NEW h, NEW x, h[x] = [rule |-> h[x].rule, merge |-> h[x].merge], NEW m
    PROVE  /\ [h[x] EXCEPT !.merge = m] = [rule |-> h[x].rule, merge |-> m]
           /\ [h[x] EXCEPT !.rule = m] = [rule |-> m, merge |-> h[x].merge]
OBVIOUS

(* add_rule and replace_rule of a new rule. *)
LEMMA AddNewHash ==
    ASSUME ShapeInv, HashInv, NEW a \in Additions, AddNew(a)
    PROVE  HashInv'
<1> DEFINE r == NewRule(a.rule, a.merge)
           y == Rhs(r)
           added == [rule |-> RuleId(r), merge |-> r.merge]
<1>1. /\ pc = "idle"
      /\ rules' = rules \cup {r}
      /\ mergeHash' = IF IsPush(r) /\ y \notin DOMAIN mergeHash
                      THEN [x \in DOMAIN mergeHash \cup {y} |->
                              IF x = y THEN added ELSE mergeHash[x]]
                      ELSE mergeHash
      /\ pc' = IF IsPush(r) /\ Clashes(r) THEN "aborted" ELSE pc
      /\ readded' = readded
  BY DEF AddNew
<1> HIDE DEF r
<1>2. added = [rule |-> added.rule, merge |-> added.merge]
      /\ added.merge = r.merge /\ added.rule.stk2 = r.stk2 /\ Rhs(added.rule) = y
  BY DEF RuleId, Rhs
<1> HIDE DEF y, added
<1>3. \A x \in DOMAIN mergeHash : x \in DOMAIN mergeHash' /\ mergeHash'[x] = mergeHash[x]
  BY <1>1
<1>4. \A x \in DOMAIN mergeHash' : x \in DOMAIN mergeHash
          \/ (x = y /\ IsPush(r) /\ mergeHash'[x] = added)
  BY <1>1
<1>5. ASSUME NEW x \in DOMAIN mergeHash'
      PROVE  /\ mergeHash'[x] = [rule |-> mergeHash'[x].rule, merge |-> mergeHash'[x].merge]
             /\ \/ mergeHash'[x].rule = NoRule
                \/ mergeHash'[x].rule.stk2 # EPS /\ Rhs(mergeHash'[x].rule) = x
  <2>1. CASE x \in DOMAIN mergeHash
    BY <1>3, <2>1 DEF HashInv
  <2>2. CASE x \notin DOMAIN mergeHash
    BY <1>2, <1>4, <2>2 DEF IsPush
  <2>3. QED
    BY <2>1, <2>2
<1>6. ASSUME pc' # "aborted", NEW s \in rules', IsPush(s), Rhs(s) \notin readded
      PROVE  mergeHash'[Rhs(s)].merge = s.merge
  <2>1. CASE s \in rules
    <3>1. Rhs(s) \in DOMAIN mergeHash /\ mergeHash[Rhs(s)].merge = s.merge
      BY <1>1, <1>6, <2>1 DEF HashInv, ShapeInv, TypeOK
    <3>2. QED
      BY <1>3, <3>1
  <2>2. CASE s = r /\ y \in DOMAIN mergeHash
    <3>1. ~ Clashes(r)
      BY <1>1, <1>6, <2>2
    <3>2. mergeHash[y].merge = r.merge
      BY <2>2, <3>1 DEF Clashes, SameMerge, y
    <3>3. QED
      BY <1>3, <2>2, <3>2 DEF y
  <2>3. CASE s = r /\ y \notin DOMAIN mergeHash
    <3>1. mergeHash'[y] = added
      BY <1>1, <1>6, <2>3
    <3>2. QED
      BY <1>2, <2>3, <3>1 DEF y
  <2>4. QED
    BY <1>1, <2>1, <2>2, <2>3
<1>7. QED
  BY <1>1, <1>5, <1>6 DEF HashInv

(* add_rule and replace_rule of a rule there is. *)
LEMMA AddAgainHash ==
    ASSUME ShapeInv, HashInv, NEW a \in Additions, AddAgain(a)
    PROVE  HashInv'
<1>1. PICK old \in rules, r \in ERule :
              /\ Rhs(r) = Rhs(old)
              /\ IsPush(r) <=> IsPush(old)
              /\ rules' = (rules \ {old}) \cup {r}
              /\ mergeHash' = [x \in DOMAIN mergeHash |->
                                 IF mergeHash[x].rule = RuleId(r)
                                 THEN [mergeHash[x] EXCEPT !.merge = r.merge]
                                 ELSE mergeHash[x]]
              /\ readded' = IF IsPush(r) THEN readded \cup {Rhs(r)} ELSE readded
  BY AddAgainFacts
<1>2. pc = "idle" /\ pc' = "idle"
  BY DEF AddAgain
<1>3. /\ RuleId(r) # NoRule /\ RuleId(r).stk2 = r.stk2 /\ Rhs(RuleId(r)) = Rhs(r)
  BY WfaAssumption DEF ERule, RuleId, NoRule, Rhs
<1>4. ASSUME NEW x \in DOMAIN mergeHash, mergeHash[x].rule = RuleId(r)
      PROVE  IsPush(r) /\ x = Rhs(r)
  BY <1>3, <1>4 DEF HashInv, IsPush
<1>5. ASSUME NEW x \in DOMAIN mergeHash
      PROVE  /\ mergeHash'[x] = [rule |-> mergeHash'[x].rule, merge |-> mergeHash'[x].merge]
             /\ mergeHash'[x].rule = mergeHash[x].rule
             /\ mergeHash[x].rule # RuleId(r) => mergeHash'[x] = mergeHash[x]
  <2>1. mergeHash[x] = [rule |-> mergeHash[x].rule, merge |-> mergeHash[x].merge]
    BY DEF HashInv
  <2> DEFINE h == mergeHash
             m == r.merge
  <2>2. [h[x] EXCEPT !.merge = m] = [rule |-> h[x].rule, merge |-> m]
    BY <2>1, EntryParts
  <2>3. mergeHash'[x] = IF mergeHash[x].rule = RuleId(r)
                        THEN [rule |-> mergeHash[x].rule, merge |-> r.merge]
                        ELSE mergeHash[x]
    BY <1>1, <2>2
  <2>4. QED
    BY <2>1, <2>3
<1>6. DOMAIN mergeHash' = DOMAIN mergeHash
  BY <1>1
<1>7. ASSUME NEW s \in rules', IsPush(s), Rhs(s) \notin readded'
      PROVE  mergeHash'[Rhs(s)].merge = s.merge
  <2>1. s \in rules /\ Rhs(s) \notin readded /\ (IsPush(r) => Rhs(s) # Rhs(r))
    BY <1>1, <1>7
  <2>2. Rhs(s) \in DOMAIN mergeHash /\ mergeHash[Rhs(s)].merge = s.merge
    BY <1>2, <1>7, <2>1 DEF HashInv, ShapeInv, TypeOK
  <2>3. mergeHash[Rhs(s)].rule # RuleId(r)
    BY <1>4, <2>1, <2>2
  <2>4. QED
    BY <1>5, <2>2, <2>3
<1>8. \A x \in DOMAIN mergeHash' :
          /\ mergeHash'[x] = [rule |-> mergeHash'[x].rule, merge |-> mergeHash'[x].merge]
          /\ \/ mergeHash'[x].rule = NoRule
             \/ mergeHash'[x].rule.stk2 # EPS /\ Rhs(mergeHash'[x].rule) = x
  BY <1>5, <1>6 DEF HashInv
<1>9. QED
  BY <1>7, <1>8 DEF HashInv

(* erase_rule. *)
LEMMA EraseHash ==
    ASSUME ShapeInv, HashInv, EraseRule
    PROVE  HashInv'
<1>1. PICK r \in rules :
          /\ rules' = rules \ {r}
          /\ mergeHash' = [x \in DOMAIN mergeHash |->
                             IF mergeHash[x].rule = RuleId(r)
                             THEN [mergeHash[x] EXCEPT !.rule = NoRule]
                             ELSE mergeHash[x]]
  BY DEF EraseRule, HashWithout
<1>2. pc = "idle" /\ pc' = "idle" /\ readded' = readded
  BY DEF EraseRule
<1>3. ASSUME NEW x \in DOMAIN mergeHash
      PROVE  /\ mergeHash'[x] = [rule |-> mergeHash'[x].rule, merge |-> mergeHash'[x].merge]
             /\ mergeHash'[x].rule \in {NoRule, mergeHash[x].rule}
             /\ mergeHash'[x].merge = mergeHash[x].merge
  <2>1. mergeHash[x] = [rule |-> mergeHash[x].rule, merge |-> mergeHash[x].merge]
    BY DEF HashInv
  <2> DEFINE h == mergeHash
  <2>2. [h[x] EXCEPT !.rule = NoRule] = [rule |-> NoRule, merge |-> h[x].merge]
    BY <2>1, EntryParts
  <2>3. mergeHash'[x] = IF mergeHash[x].rule = RuleId(r)
                        THEN [rule |-> NoRule, merge |-> mergeHash[x].merge]
                        ELSE mergeHash[x]
    BY <1>1, <2>2
  <2>4. QED
    BY <2>1, <2>3
<1>4. DOMAIN mergeHash' = DOMAIN mergeHash
  BY <1>1
<1>5. ASSUME NEW s \in rules', IsPush(s), Rhs(s) \notin readded'
      PROVE  mergeHash'[Rhs(s)].merge = s.merge
  <2>1. Rhs(s) \in DOMAIN mergeHash /\ mergeHash[Rhs(s)].merge = s.merge
    BY <1>1, <1>2, <1>5 DEF HashInv, ShapeInv, TypeOK
  <2>2. QED
    BY <1>3, <2>1
<1>6. \A x \in DOMAIN mergeHash' :
          /\ mergeHash'[x] = [rule |-> mergeHash'[x].rule, merge |-> mergeHash'[x].merge]
          /\ \/ mergeHash'[x].rule = NoRule
             \/ mergeHash'[x].rule.stk2 # EPS /\ Rhs(mergeHash'[x].rule) = x
  BY <1>3, <1>4 DEF HashInv
<1>7. QED
  BY <1>5, <1>6 DEF HashInv

(* The copy constructor. *)
LEMMA CopyHash ==
    ASSUME ShapeInv, HashInv, Copy
    PROVE  HashInv'
<1> DEFINE pushes == {r \in rules : IsPush(r)}
           reached == {Rhs(r) : r \in pushes}
<1>1. PICK first \in [reached -> pushes] :
          /\ \A x \in DOMAIN first : Rhs(first[x]) = x
          /\ mergeHash' = [x \in DOMAIN first |->
                              [rule |-> RuleId(first[x]), merge |-> first[x].merge]]
  BY DEF Copy
<1>2. /\ pc = "idle" /\ rules' = rules /\ readded' = readded
      /\ pc' # "aborted" => \A r, s \in rules : IsPush(r) /\ IsPush(s) => Agree(r, s)
  BY DEF Copy
<1>3. DOMAIN mergeHash' = reached
      /\ \A x \in reached : mergeHash'[x] = [rule |-> RuleId(first[x]), merge |-> first[x].merge]
  BY <1>1
<1>4. ASSUME NEW x \in reached
      PROVE  /\ mergeHash'[x] = [rule |-> mergeHash'[x].rule, merge |-> mergeHash'[x].merge]
             /\ mergeHash'[x].rule.stk2 # EPS /\ Rhs(mergeHash'[x].rule) = x
  <2>1. first[x] \in rules /\ first[x].stk2 # EPS /\ Rhs(first[x]) = x
    BY <1>1 DEF IsPush
  <2>2. RuleId(first[x]).stk2 = first[x].stk2 /\ Rhs(RuleId(first[x])) = Rhs(first[x])
    BY DEF RuleId, Rhs
  <2> DEFINE id == RuleId(first[x])
             m == first[x].merge
  <2>3. mergeHash'[x] = [rule |-> id, merge |-> m]
    BY <1>3
  <2> HIDE DEF id, m
  <2>4. mergeHash'[x].rule = id
        /\ mergeHash'[x] = [rule |-> mergeHash'[x].rule, merge |-> mergeHash'[x].merge]
    BY <2>3
  <2>5. QED
    BY <2>1, <2>2, <2>4 DEF id
<1>5. ASSUME pc' # "aborted", NEW r \in rules, IsPush(r)
      PROVE  mergeHash'[Rhs(r)].merge = r.merge
  <2>1. Rhs(r) \in reached
    BY <1>5
  <2>2. /\ first[Rhs(r)] \in rules /\ IsPush(first[Rhs(r)]) /\ Rhs(first[Rhs(r)]) = Rhs(r)
        /\ mergeHash'[Rhs(r)].merge = first[Rhs(r)].merge
    BY <1>1, <1>3, <2>1
  <2>3. Agree(first[Rhs(r)], r)
    BY <1>2, <1>5, <2>2
  <2>4. QED
    BY <2>2, <2>3 DEF Agree, SameMerge
<1>6. QED
  BY <1>2, <1>3, <1>4, <1>5 DEF HashInv

(* What merge_rule_hash knows is kept by every step of a session. *)
LEMMA NextHash == ShapeInv /\ HashInv /\ [Next]_vars => HashInv'
<1> SUFFICES ASSUME ShapeInv, HashInv, [Next]_vars PROVE HashInv'
  OBVIOUS
<1>1. CASE Build
  <2>1. ASSUME NEW a \in Additions, AddNew(a) \/ AddAgain(a) PROVE HashInv'
    BY <2>1, AddNewHash, AddAgainHash
  <2>2. CASE EraseRule \/ Copy
    BY <2>2, EraseHash, CopyHash
  <2>3. QED
    BY <1>1, <2>1, <2>2 DEF Build
<1>2. ASSUME UNCHANGED database, pc # "aborted" \/ pc' = pc
      PROVE  HashInv'
  BY <1>2 DEF HashInv, database
<1>3. CASE Ask \/ AskAgain \/ Query
  <2>1. UNCHANGED database /\ pc # "aborted"
    BY <1>3 DEF Ask, AskAgain, Asked, Query, Setup, PopTransition, PopEpsilon, PostRule,
                PostPush, PreRule, PrePushFirst, PrePushSecond, Finish, Saturating
  <2>2. QED
    BY <1>2, <2>1
<1>4. CASE UNCHANGED vars
  BY <1>2, <1>4 DEF vars
<1>5. QED
  BY <1>1, <1>3, <1>4 DEF Next

(* merge_rule_hash starts empty. *)
LEMMA InitHash == Init => HashInv
BY DEF Init, HashInv

(* What merge_rule_hash says of the rules with one right-hand side. *)
LEMMA AgreeOf == ShapeInv /\ HashInv => MergeFunctionsAgree
BY DEF ShapeInv, TypeOK, HashInv, MergeFunctionsAgree, SameMerge

(***************************************************************************)
(* Push rules with the same right-hand side have the same merge function   *)
(* after any additions, replacements, erasures and copies, as long as no   *)
(* rule with that right-hand side was added twice: it is that of the entry *)
(* of merge_rule_hash that each new rule was compared with, which stays    *)
(* when the rule that made it is erased.                                   *)
(***************************************************************************)
THEOREM EwpdsMergeFunctionsAgree == Spec => []MergeFunctionsAgree
<1>1. Spec => [](ShapeInv /\ HashInv)
  BY InitShape, NextShape, InitHash, NextHash, PTL DEF Spec
<1>2. QED
  BY <1>1, AgreeOf, PTL

-----------------------------------------------------------------------------
(***************************************************************************)
(* prestar.  The debts of a push rule when both transitions it reads grow, *)
(* from ta to tb and from ua to ub, and part of the debts pa and qa is     *)
(* paid into the transition it asks for, which grows from sa to sb.        *)
(***************************************************************************)
LEMMA PayPush ==
    ASSUME TypeOK, NEW r \in rules, IsPush(r), NEW q,
           NEW ta \in Weight, NEW tb \in Weight, NEW dt \in Weight,
           NEW ua \in Weight, NEW ub \in Weight, NEW du \in Weight,
           NEW pa \in Weight, NEW pb \in Weight, NEW qa \in Weight, NEW qb \in Weight,
           NEW sa \in Weight, NEW sb \in Weight,
           Leq(tb, Combine(ta, dt)), Leq(ub, Combine(ua, du)), Leq(ta, tb), Leq(sa, sb),
           Leq(dt, pb), Leq(du, qb),
           Leq(PushWeight(r, q, ta, ua),
               Combine(sa, Combine(PushWeight(r, q, pa, ua), PushWeight(r, q, ta, qa)))),
           Leq(PushWeight(r, q, pa, ua), Combine(sb, PushWeight(r, q, pb, ub))),
           Leq(PushWeight(r, q, ta, qa), Combine(sb, PushWeight(r, q, tb, qb)))
    PROVE  Leq(PushWeight(r, q, tb, ub),
               Combine(sb, Combine(PushWeight(r, q, pb, ub), PushWeight(r, q, tb, qb))))
<1> DEFINE x == PushWeight(r, q, pb, ub)
           y == PushWeight(r, q, tb, qb)
           e == PushWeight(r, q, pa, ua)
           f == PushWeight(r, q, ta, qa)
           g == PushWeight(r, q, ta, ua)
           h == PushWeight(r, q, ta, ub)
           i == PushWeight(r, q, dt, ub)
           j == PushWeight(r, q, ta, du)
           k == PushWeight(r, q, tb, ub)
<1>1. /\ x \in Weight /\ y \in Weight /\ e \in Weight /\ f \in Weight /\ g \in Weight
      /\ h \in Weight /\ i \in Weight /\ j \in Weight /\ k \in Weight
  BY PushTyped
<1>2. Leq(i, x) /\ Leq(j, y)
  BY LeqBasics, PushMono
<1>3. Leq(k, Combine(h, i))
  <2>1. Combine(ta, dt) \in Weight /\ Leq(ub, ub)
    BY WeightClosed, LeqBasics
  <2>2. Leq(k, PushWeight(r, q, Combine(ta, dt), ub))
    BY <2>1, PushMono
  <2>3. QED
    BY <2>2, PushSums
<1>4. Leq(h, Combine(g, j))
  <2>1. Combine(ua, du) \in Weight /\ Leq(ta, ta)
    BY WeightClosed, LeqBasics
  <2>2. Leq(h, PushWeight(r, q, ta, Combine(ua, du)))
    BY <2>1, PushMono
  <2>3. QED
    BY <2>2, PushSums
<1>5. /\ Leq(g, Combine(sa, Combine(e, f))) /\ Leq(sa, sb)
      /\ Leq(e, Combine(sb, x)) /\ Leq(f, Combine(sb, y))
      /\ sa \in Weight /\ sb \in Weight
  OBVIOUS
<1> HIDE DEF e, f, g, h, i, j, k, x, y
<1>6. Leq(k, Combine(sb, Combine(x, y)))
  BY ONLY <1>1, <1>2, <1>3, <1>4, <1>5, PayTwo
<1>7. QED
  BY <1>6 DEF k, x, y

(* An update of A to B pays what the rules R owe for c as what they read *)
(* first, those that read one transition and those that read two.        *)
LEMMA StepsKept ==
    ASSUME NEW A, NEW B, NEW c, NEW d \in Weight, NEW T, NEW U, NEW R, NEW S,
           TypeOK, IsAutomaton(A), IsAutomaton(B), Evolves(A, B), Noted(A, B),
           StepsPaid(A, [cur |-> c, dnew |-> d, todo |-> T, calls |-> U]),
           \A r \in R \cap rules : Reads(r, c) =>
               /\ Pred(c, r) \in B.trans
               /\ Leq(Extend(r.weight, d), W(B, Pred(c, r)))
    PROVE  StepsPaid(B, [cur |-> c, dnew |-> d, todo |-> T \ R, calls |-> U \ S])
<1> DEFINE job == [cur |-> c, dnew |-> d, todo |-> T, calls |-> U]
           jobB == [cur |-> c, dnew |-> d, todo |-> T \ R, calls |-> U \ S]
<1> SUFFICES ASSUME NEW t \in B.trans, NEW r \in rules, Reads(r, t)
             PROVE  StepThere(B, jobB, t, r) /\ StepOwes(B, jobB, t, r)
  BY DEF StepsPaid
<1> DEFINE w == r.weight
           k == Pred(t, r)
           pa == First(A, job, t, r)
           pb == First(B, jobB, t, r)
<1>1. /\ A.trans \subseteq B.trans /\ t \in Key /\ w \in Weight /\ k \in Key
      /\ W(A, t) \in Weight /\ D(A, t) \in Weight /\ W(B, t) \in Weight /\ D(B, t) \in Weight
      /\ W(A, k) \in Weight /\ W(B, k) \in Weight
  BY WeightTyped, RuleParts, PredKey DEF Evolves, IsAutomaton
<1>2. /\ pa = (IF t = c /\ r \in T THEN Combine(D(A, t), d) ELSE D(A, t))
      /\ pb = (IF t = c /\ r \in T \ R THEN Combine(D(B, t), d) ELSE D(B, t))
  BY DEF First, Pending
<1> HIDE DEF pa, pb
<1>3. pa \in Weight /\ pb \in Weight /\ Leq(D(B, t), pb)
  BY <1>1, <1>2, WeightClosed, CombineUpper, LeqBasics
<1>4. /\ Leq(W(A, k), W(B, k)) /\ Leq(W(B, t), Combine(W(A, t), D(B, t)))
      /\ Leq(D(A, t), D(B, t))
  BY <1>1 DEF Evolves
<1>5. t \in A.trans => StepThere(A, job, t, r) /\ StepOwes(A, job, t, r)
  BY DEF StepsPaid
<1>6. StepThere(B, jobB, t, r)
  <2> SUFFICES ASSUME t \notin B.marked, ~ (t = c /\ r \in T \ R)
               PROVE  k \in B.trans
    BY DEF StepThere
  <2>1. t \in A.trans /\ t \notin A.marked
    BY DEF Noted
  <2>2. CASE t = c /\ r \in R
    BY <2>2
  <2>3. CASE ~ (t = c /\ r \in R)
    BY <1>1, <1>5, <2>1, <2>3 DEF StepThere
  <2> QED
    BY <2>2, <2>3
<1> HIDE DEF w, k, job, jobB
<1>7. Leq(Extend(w, W(A, t)), Combine(W(A, k), Extend(w, pa)))
  <2>1. CASE t \in A.trans
    BY <1>5, <2>1 DEF StepOwes, k, w, pa
  <2>2. CASE t \notin A.trans
    <3>1. Extend(w, W(A, t)) = Zero /\ Combine(W(A, k), Extend(w, pa)) \in Weight
      BY <1>1, <1>3, <2>2, ExtendLaws, WeightClosed DEF W
    <3> QED
      BY <3>1, LeqBasics
  <2> QED
    BY <2>1, <2>2
<1>8. Leq(Extend(w, pa), Combine(W(B, k), Extend(w, pb)))
  <2> DEFINE x == Combine(W(B, k), Extend(w, pb))
  <2>1. /\ Extend(w, pa) \in Weight /\ Extend(w, pb) \in Weight /\ x \in Weight
        /\ Extend(w, D(A, t)) \in Weight /\ Extend(w, d) \in Weight
    BY <1>1, <1>3, WeightClosed
  <2>2. Leq(Extend(w, pb), x) /\ Leq(W(B, k), x)
    BY <1>1, <2>1, CombineUpper
  <2> HIDE DEF x
  <2>3. CASE t = c /\ r \in T /\ r \in R
    <3>1. Extend(w, pa) = Combine(Extend(w, D(A, t)), Extend(w, d))
      BY <1>1, <1>2, <2>3, Distributes
    <3>2. Leq(D(A, t), pb)
      BY <1>1, <1>3, <1>4, LeqTrans
    <3>3. Leq(Extend(w, D(A, t)), Extend(w, pb))
      BY <1>1, <1>3, <3>2, ExtendMono
    <3>4. Leq(Extend(w, d), W(B, k))
      BY <2>3 DEF w, k
    <3>5. Leq(Extend(w, D(A, t)), x) /\ Leq(Extend(w, d), x)
      BY <1>1, <2>1, <2>2, <3>3, <3>4, LeqTrans
    <3> QED
      BY <2>1, <3>1, <3>5, CombineLeast DEF x
  <2>4. CASE ~ (t = c /\ r \in T /\ r \in R)
    <3>1. Leq(pa, pb)
      <4>1. CASE t = c /\ r \in T
        BY <1>1, <1>2, <1>4, <2>4, <4>1, LeqBasics, CombineMono
      <4>2. CASE ~ (t = c /\ r \in T)
        BY <1>1, <1>2, <1>4, <4>2
      <4> QED
        BY <4>1, <4>2
    <3>2. Leq(Extend(w, pa), Extend(w, pb))
      BY <1>1, <1>3, <3>1, ExtendMono
    <3> QED
      BY <2>1, <2>2, <3>2, LeqTrans DEF x
  <2> QED
    BY <2>3, <2>4
<1>9. Leq(Extend(w, W(B, t)), Combine(W(B, k), Extend(w, pb)))
  <2> DEFINE wa == W(A, t)
             wb == W(B, t)
             db == D(B, t)
             ta == W(A, k)
             tb == W(B, k)
  <2>1. /\ wa \in Weight /\ wb \in Weight /\ db \in Weight /\ w \in Weight
        /\ ta \in Weight /\ tb \in Weight /\ pa \in Weight /\ pb \in Weight
        /\ Leq(wb, Combine(wa, db)) /\ Leq(ta, tb) /\ Leq(db, pb)
        /\ Leq(Extend(w, wa), Combine(ta, Extend(w, pa)))
        /\ Leq(Extend(w, pa), Combine(tb, Extend(w, pb)))
    BY <1>1, <1>3, <1>4, <1>7, <1>8
  <2> HIDE DEF wa, wb, db, ta, tb
  <2>2. Leq(Extend(w, wb), Combine(tb, Extend(w, pb)))
    BY ONLY <2>1, PayStep
  <2> QED
    BY <2>2 DEF wb, tb
<1> QED
  BY <1>6, <1>9 DEF StepOwes, k, w, pb, jobB

LEMMA PushesKept ==
    ASSUME NEW A, NEW B, NEW c, NEW d \in Weight, NEW T, NEW U, NEW R, NEW S,
           TypeOK, IsAutomaton(A), IsAutomaton(B), Evolves(A, B), Noted(A, B),
           PushesPaid(A, [cur |-> c, dnew |-> d, todo |-> T, calls |-> U]),
           \A r \in R \cap rules, u \in A.trans : ReadsPair(r, c, u) =>
               /\ Pred(u, r) \in B.trans
               /\ Leq(PushWeight(r, u.from, d, W(A, u)), W(B, Pred(u, r))),
           \A r \in S \cap rules, t \in A.trans : ReadsPair(r, t, c) =>
               /\ Pred(c, r) \in B.trans
               /\ Leq(PushWeight(r, c.from, W(A, t), d), W(B, Pred(c, r)))
    PROVE  PushesPaid(B, [cur |-> c, dnew |-> d, todo |-> T \ R, calls |-> U \ S])
<1> DEFINE job == [cur |-> c, dnew |-> d, todo |-> T, calls |-> U]
           jobB == [cur |-> c, dnew |-> d, todo |-> T \ R, calls |-> U \ S]
<1> SUFFICES ASSUME NEW t \in B.trans, NEW u \in B.trans, NEW r \in rules,
                    ReadsPair(r, t, u)
             PROVE  PushThere(B, jobB, t, u, r) /\ PushOwes(B, jobB, t, u, r)
  BY DEF PushesPaid
<1> DEFINE q == u.from
           k == Pred(u, r)
           pa == First(A, job, t, r)
           pb == First(B, jobB, t, r)
           qa == Second(A, job, u, r)
           qb == Second(B, jobB, u, r)
           ta == W(A, t)
           tb == W(B, t)
           ua == W(A, u)
           ub == W(B, u)
           sa == W(A, k)
           sb == W(B, k)
           dt == D(B, t)
           du == D(B, u)
           ea == D(A, t)
           fb == D(A, u)
<1>1. /\ A.trans \subseteq B.trans /\ t \in Key /\ u \in Key /\ k \in Key
      /\ IsPush(r)
      /\ ta \in Weight /\ tb \in Weight /\ ua \in Weight /\ ub \in Weight
      /\ sa \in Weight /\ sb \in Weight /\ dt \in Weight /\ du \in Weight
      /\ ea \in Weight /\ fb \in Weight
  BY WeightTyped, RuleParts, PredKey DEF Evolves, IsAutomaton, ReadsPair
<1>2. /\ pa = (IF t = c /\ r \in T THEN Combine(ea, d) ELSE ea)
      /\ pb = (IF t = c /\ r \in T \ R THEN Combine(dt, d) ELSE dt)
      /\ qa = (IF u = c /\ r \in U THEN Combine(fb, d) ELSE fb)
      /\ qb = (IF u = c /\ r \in U \ S THEN Combine(du, d) ELSE du)
  BY DEF First, Pending, Second
<1>3. /\ Leq(ta, tb) /\ Leq(ua, ub) /\ Leq(sa, sb)
      /\ Leq(tb, Combine(ta, dt)) /\ Leq(ub, Combine(ua, du))
      /\ Leq(ea, dt) /\ Leq(fb, du)
  BY <1>1 DEF Evolves
<1>4. t \in A.trans /\ u \in A.trans =>
         PushThere(A, job, t, u, r) /\ PushOwes(A, job, t, u, r)
  BY DEF PushesPaid
<1>5. t = c /\ r \in R /\ u \in A.trans =>
         k \in B.trans /\ Leq(PushWeight(r, q, d, ua), sb)
  OBVIOUS
<1>6. u = c /\ r \in S /\ t \in A.trans =>
         k \in B.trans /\ Leq(PushWeight(r, q, ta, d), sb)
  OBVIOUS
<1>7. PushThere(B, jobB, t, u, r)
  <2> SUFFICES ASSUME t \notin B.marked, u \notin B.marked,
                      ~ (t = c /\ r \in T \ R), ~ (u = c /\ r \in U \ S)
               PROVE  k \in B.trans
    BY DEF PushThere
  <2>1. t \in A.trans /\ t \notin A.marked /\ u \in A.trans /\ u \notin A.marked
    BY DEF Noted
  <2>2. CASE t = c /\ r \in R
    BY <1>5, <2>1, <2>2
  <2>3. CASE u = c /\ r \in S
    BY <1>6, <2>1, <2>3
  <2>4. CASE ~ (t = c /\ r \in R) /\ ~ (u = c /\ r \in S)
    BY <1>1, <1>4, <2>1, <2>4 DEF PushThere
  <2> QED
    BY <2>2, <2>3, <2>4
<1>8. t \notin A.trans => ta = Zero
  BY DEF W
<1>9. u \notin A.trans => ua = Zero
  BY DEF W
<1>10. t \in A.trans /\ u \in A.trans =>
          Leq(PushWeight(r, q, ta, ua),
              Combine(sa, Combine(PushWeight(r, q, pa, ua), PushWeight(r, q, ta, qa))))
  BY <1>4 DEF PushOwes
<1> HIDE DEF q, k, pa, pb, qa, qb, ta, tb, ua, ub, sa, sb, dt, du, ea, fb, job, jobB
<1>11. /\ pa \in Weight /\ pb \in Weight /\ qa \in Weight /\ qb \in Weight
       /\ Leq(dt, pb) /\ Leq(du, qb)
  BY <1>1, <1>2, WeightClosed, CombineUpper, LeqBasics
<1>12. Leq(ea, pb) /\ Leq(fb, qb)
  BY <1>1, <1>3, <1>11, LeqTrans
<1>13. /\ PushWeight(r, q, pa, ua) \in Weight /\ PushWeight(r, q, ta, qa) \in Weight
       /\ PushWeight(r, q, pb, ub) \in Weight /\ PushWeight(r, q, tb, qb) \in Weight
       /\ PushWeight(r, q, ea, ua) \in Weight /\ PushWeight(r, q, d, ua) \in Weight
       /\ PushWeight(r, q, ta, fb) \in Weight /\ PushWeight(r, q, ta, d) \in Weight
       /\ PushWeight(r, q, ta, ua) \in Weight
  BY <1>1, <1>11, PushTyped
<1>14. Leq(PushWeight(r, q, ta, ua),
           Combine(sa, Combine(PushWeight(r, q, pa, ua), PushWeight(r, q, ta, qa))))
  <2>1. Combine(sa, Combine(PushWeight(r, q, pa, ua), PushWeight(r, q, ta, qa))) \in Weight
    BY <1>1, <1>13, WeightClosed
  <2>2. CASE t \in A.trans /\ u \in A.trans
    BY <1>10, <2>2
  <2>3. CASE t \notin A.trans \/ u \notin A.trans
    <3>1. PushWeight(r, q, ta, ua) = Zero
      BY <1>1, <1>8, <1>9, <2>3, PushZero
    <3> QED
      BY <2>1, <3>1, LeqBasics
  <2> QED
    BY <2>2, <2>3
<1>15. Leq(PushWeight(r, q, pa, ua), Combine(sb, PushWeight(r, q, pb, ub)))
  <2> DEFINE x == Combine(sb, PushWeight(r, q, pb, ub))
  <2>1. x \in Weight /\ Leq(sb, x) /\ Leq(PushWeight(r, q, pb, ub), x)
    BY <1>1, <1>13, WeightClosed, CombineUpper
  <2> HIDE DEF x
  <2>2. CASE t = c /\ r \in T /\ r \in R
    <3>1. Leq(PushWeight(r, q, d, ua), sb)
      <4>1. CASE u \in A.trans
        BY <1>5, <2>2, <4>1
      <4>2. CASE u \notin A.trans
        <5>1. PushWeight(r, q, d, ua) = Zero
          BY <1>1, <1>9, <4>2, PushZero
        <5> QED
          BY <1>1, <5>1, LeqBasics
      <4> QED
        BY <4>1, <4>2
    <3>2. Leq(PushWeight(r, q, ea, ua), PushWeight(r, q, pb, ub))
      BY <1>1, <1>3, <1>11, <1>12, PushMono
    <3>3. Leq(PushWeight(r, q, d, ua), x) /\ Leq(PushWeight(r, q, ea, ua), x)
      BY <1>1, <1>13, <2>1, <3>1, <3>2, LeqTrans
    <3>4. PushWeight(r, q, pa, ua) = Combine(PushWeight(r, q, ea, ua), PushWeight(r, q, d, ua))
      BY <1>1, <1>2, <2>2, PushSums
    <3> QED
      BY <1>13, <2>1, <3>3, <3>4, CombineLeast DEF x
  <2>3. CASE ~ (t = c /\ r \in T /\ r \in R)
    <3>1. Leq(pa, pb)
      <4>1. CASE t = c /\ r \in T
        BY <1>1, <1>2, <1>3, <2>3, <4>1, LeqBasics, CombineMono
      <4>2. CASE ~ (t = c /\ r \in T)
        BY <1>1, <1>2, <1>3, <4>2
      <4> QED
        BY <4>1, <4>2
    <3>2. Leq(PushWeight(r, q, pa, ua), PushWeight(r, q, pb, ub))
      BY <1>1, <1>3, <1>11, <3>1, PushMono
    <3> QED
      BY <1>13, <2>1, <3>2, LeqTrans DEF x
  <2> QED
    BY <2>2, <2>3
<1>16. Leq(PushWeight(r, q, ta, qa), Combine(sb, PushWeight(r, q, tb, qb)))
  <2> DEFINE x == Combine(sb, PushWeight(r, q, tb, qb))
  <2>1. x \in Weight /\ Leq(sb, x) /\ Leq(PushWeight(r, q, tb, qb), x)
    BY <1>1, <1>13, WeightClosed, CombineUpper
  <2> HIDE DEF x
  <2>2. CASE u = c /\ r \in U /\ r \in S
    <3>1. Leq(PushWeight(r, q, ta, d), sb)
      <4>1. CASE t \in A.trans
        BY <1>6, <2>2, <4>1
      <4>2. CASE t \notin A.trans
        <5>1. PushWeight(r, q, ta, d) = Zero
          BY <1>1, <1>8, <4>2, PushZero
        <5> QED
          BY <1>1, <5>1, LeqBasics
      <4> QED
        BY <4>1, <4>2
    <3>2. Leq(PushWeight(r, q, ta, fb), PushWeight(r, q, tb, qb))
      BY <1>1, <1>3, <1>11, <1>12, PushMono
    <3>3. Leq(PushWeight(r, q, ta, d), x) /\ Leq(PushWeight(r, q, ta, fb), x)
      BY <1>1, <1>13, <2>1, <3>1, <3>2, LeqTrans
    <3>4. PushWeight(r, q, ta, qa) = Combine(PushWeight(r, q, ta, fb), PushWeight(r, q, ta, d))
      BY <1>1, <1>2, <2>2, PushSums
    <3> QED
      BY <1>13, <2>1, <3>3, <3>4, CombineLeast DEF x
  <2>3. CASE ~ (u = c /\ r \in U /\ r \in S)
    <3>1. Leq(qa, qb)
      <4>1. CASE u = c /\ r \in U
        BY <1>1, <1>2, <1>3, <2>3, <4>1, LeqBasics, CombineMono
      <4>2. CASE ~ (u = c /\ r \in U)
        BY <1>1, <1>2, <1>3, <4>2
      <4> QED
        BY <4>1, <4>2
    <3>2. Leq(PushWeight(r, q, ta, qa), PushWeight(r, q, tb, qb))
      BY <1>1, <1>3, <1>11, <3>1, PushMono
    <3> QED
      BY <1>13, <2>1, <3>2, LeqTrans DEF x
  <2> QED
    BY <2>2, <2>3
<1>17. Leq(PushWeight(r, q, tb, ub),
           Combine(sb, Combine(PushWeight(r, q, pb, ub), PushWeight(r, q, tb, qb))))
  BY <1>1, <1>3, <1>11, <1>14, <1>15, <1>16, PayPush
<1> QED
  BY <1>7, <1>17 DEF PushOwes, q, k, pb, qb, tb, ub, sb

(* An update keeps what is said of the automaton alone, and takes effect. *)
LEMMA PreUpdateKept ==
    ASSUME TypeOK, NEW A, PreFaInv(A), NEW K \in SUBSET Key, NEW ins \in [K -> Weight],
           InputOK([trans |-> input.trans, weight |-> input.weight, gen |-> input.gen])
    PROVE  LET B == Update(A, ins) IN
           /\ PreFaInv(B) /\ Evolves(A, B) /\ Noted(A, B)
           /\ \A k \in K : k \in B.trans /\ Leq(ins[k], W(B, k))
<1> DEFINE B == Update(A, ins)
<1>1. IsAutomaton(A)
  BY DEF PreFaInv
<1>2. /\ IsAutomaton(B) /\ B.trans = A.trans \cup K
      /\ Evolves(A, B) /\ Noted(A, B)
      /\ \A k \in K : Leq(ins[k], W(B, k))
  BY <1>1, UpdateFacts, UpdateEvolves, UpdateNoted
<1> HIDE DEF B
<1>3. \A k \in B.trans : k \in B.marked \/ D(B, k) = Zero
  BY <1>2 DEF Noted, PreFaInv
<1>4. ASSUME NEW k \in A.trans, NEW w \in Weight, Leq(w, W(A, k))
      PROVE  k \in B.trans /\ Leq(w, W(B, k))
  <2>1. k \in B.trans /\ k \in Key
    BY <1>1, <1>2 DEF IsAutomaton
  <2>2. Leq(W(A, k), W(B, k)) /\ W(A, k) \in Weight /\ W(B, k) \in Weight
    BY <1>1, <1>2, <2>1, WeightTyped DEF Evolves
  <2>3. QED
    BY <1>4, <2>1, <2>2, LeqTrans
<1>5. Holds(B)
  <2>1. \A k \in input.trans : k \in A.trans /\ Leq(input.weight[k], W(A, k))
                               /\ input.weight[k] \in Weight
    BY DEF PreFaInv, Holds, InputOK, IsInput
  <2>2. QED
    BY <1>4, <2>1 DEF Holds
<1>6. PopsThere(B)
  <2>1. \A r \in rules : r.weight \in Weight
    BY RuleParts
  <2>2. QED
    BY <1>4, <2>1 DEF PreFaInv, PopsThere
<1>7. QED
  BY <1>2, <1>3, <1>5, <1>6 DEF PreFaInv, B

(* A saturation step of prestar keeps what it owes. *)
LEMMA PreStepKept ==
    ASSUME ShapeInv, PreInv, NEW R, NEW S, NEW K, NEW ins, NEW E, PreStep(R, S, K, ins, E)
    PROVE  PreInv'
<1>1. /\ pc = "saturate" /\ query = "pre" /\ K \in SUBSET Key /\ ins \in [K -> Weight]
      /\ fa' = Update(fa, ins) \/ (K = {} /\ fa' = fa)
      /\ todo' = todo \ R /\ calls' = calls \ S
      /\ rules' = rules /\ input' = input /\ cur' = cur /\ dnew' = dnew
  BY DEF PreStep, database
<1>2. /\ TypeOK /\ dnew \in Weight /\ IsAutomaton(fa)
      /\ InputOK([trans |-> input.trans, weight |-> input.weight, gen |-> input.gen])
      /\ PreFaInv(fa) /\ StepsPaid(fa, Job) /\ PushesPaid(fa, Job)
  BY <1>1, WhileSaturating DEF PreInv
<1> DEFINE B == fa'
<1>3. /\ PreFaInv(B) /\ Evolves(fa, B) /\ Noted(fa, B)
      /\ \A k \in K : k \in B.trans /\ Leq(ins[k], W(B, k))
  <2>1. CASE fa' = Update(fa, ins)
    BY <1>1, <1>2, <2>1, PreUpdateKept
  <2>2. CASE K = {} /\ fa' = fa
    <3>1. Evolves(fa, fa)
      <4>1. ASSUME NEW k \in Key
            PROVE  /\ Leq(W(fa, k), W(fa, k)) /\ Leq(D(fa, k), D(fa, k))
                   /\ Leq(W(fa, k), Combine(W(fa, k), D(fa, k)))
        BY <1>2, WeightTyped, LeqBasics, CombineUpper
      <4>2. QED
        BY <4>1 DEF Evolves
    <3>2. QED
      BY <1>2, <2>2, <3>1 DEF Noted
  <2>3. QED
    BY <1>1, <2>1, <2>2
<1>4. IsAutomaton(B)
  BY <1>3 DEF PreFaInv
<1>5. /\ \A r \in R \cap rules : Reads(r, cur) =>
            /\ Pred(cur, r) \in B.trans
            /\ Leq(Extend(r.weight, dnew), W(B, Pred(cur, r)))
      /\ \A r \in R \cap rules, u \in fa.trans : ReadsPair(r, cur, u) =>
            /\ Pred(u, r) \in B.trans
            /\ Leq(PushWeight(r, u.from, dnew, W(fa, u)), W(B, Pred(u, r)))
      /\ \A r \in S \cap rules, t \in fa.trans : ReadsPair(r, t, cur) =>
            /\ Pred(cur, r) \in B.trans
            /\ Leq(PushWeight(r, cur.from, W(fa, t), dnew), W(B, Pred(cur, r)))
  BY <1>3 DEF PreStep
<1>6. /\ StepsPaid(fa, [cur |-> cur, dnew |-> dnew, todo |-> todo, calls |-> calls])
      /\ PushesPaid(fa, [cur |-> cur, dnew |-> dnew, todo |-> todo, calls |-> calls])
  BY <1>2 DEF Job
<1> HIDE DEF B
<1>7. StepsPaid(B, [cur |-> cur, dnew |-> dnew, todo |-> todo \ R, calls |-> calls \ S])
  BY ONLY <1>2, <1>3, <1>4, <1>5, <1>6, StepsKept
<1>8. PushesPaid(B, [cur |-> cur, dnew |-> dnew, todo |-> todo \ R, calls |-> calls \ S])
  BY ONLY <1>2, <1>3, <1>4, <1>5, <1>6, PushesKept
<1>9. Job' = [cur |-> cur, dnew |-> dnew, todo |-> todo \ R, calls |-> calls \ S]
  BY <1>1 DEF Job
<1>10. PreFaInv(fa)' /\ StepsPaid(fa, Job)' /\ PushesPaid(fa, Job)'
  BY <1>1, <1>3, <1>7, <1>8, <1>9 DEF B, PreFaInv, Holds, PopsThere, StepsPaid, PushesPaid
<1>11. QED
  BY <1>10 DEF PreInv

(* prestar starts with its whole input on the worklist and owes everything. *)
LEMMA SetupPre ==
    ASSUME ShapeInv, Setup
    PROVE  PreInv'
<1> SUFFICES ASSUME query = "pre" PROVE PreInv'
  BY SetupFacts DEF PreInv
<1> DEFINE A == CopyOf(input)
           job == [cur |-> cur, dnew |-> dnew, todo |-> {}, calls |-> {}]
<1>1. /\ IsAutomaton(A) /\ A.trans = input.trans /\ A.marked = input.trans
      /\ \A k \in input.trans : W(A, k) = input.weight[k] /\ D(A, k) = W(A, k)
      /\ CallOf(A.trans, input.call)
      /\ pc = "setup" /\ pc' = "saturate" /\ query \in {"post", "pre"}
      /\ todo = {} /\ calls = {}
      /\ InputOK([trans |-> input.trans, weight |-> input.weight, gen |-> input.gen])
      /\ gen' = input.gen + 1 /\ gen' \in 1..MaxGeneration
      /\ quasi' \in [GenState -> Weight]
      /\ UNCHANGED <<database, input, query, work>>
      /\ \E K \in SUBSET Key : \E ins \in [K -> Weight] :
           /\ fa' = Update(A, ins)
           /\ call' = SummaryTrans(A, input.call, K)
           /\ query = "post" => K = {}
           /\ \A k \in K : k.from \in P /\ k.to \in P /\ k.stk # EPS
           /\ query = "pre" => \A r \in rules : IsPop(r) =>
                LET k == [from |-> r.from, stk |-> r.stk, to |-> r.to]
                IN  k \in K /\ ins[k] = r.weight
  BY SetupFacts
<1> HIDE DEF A
<1>2. PICK K \in SUBSET Key : \E ins \in [K -> Weight] :
           /\ fa' = Update(A, ins)
           /\ \A r \in rules : IsPop(r) =>
                LET k == [from |-> r.from, stk |-> r.stk, to |-> r.to]
                IN  k \in K /\ ins[k] = r.weight
  BY <1>1
<1>3. PICK ins \in [K -> Weight] :
           /\ fa' = Update(A, ins)
           /\ \A r \in rules : IsPop(r) =>
                LET k == [from |-> r.from, stk |-> r.stk, to |-> r.to]
                IN  k \in K /\ ins[k] = r.weight
  BY <1>2
<1> DEFINE B == Update(A, ins)
<1>4. /\ IsAutomaton(B) /\ B.trans = A.trans \cup K
      /\ Evolves(A, B) /\ Noted(A, B)
      /\ \A k \in K : Leq(ins[k], W(B, k))
  <2>1. IsAutomaton(A) /\ K \in SUBSET Key /\ ins \in [K -> Weight]
    BY <1>1, <1>2, <1>3
  <2>2. QED
    BY ONLY <2>1, UpdateFacts, UpdateEvolves, UpdateNoted
<1>5. B = fa'
  BY <1>3
<1> HIDE DEF B
<1>6. TypeOK /\ dnew \in Weight /\ \A r \in rules : r.weight \in Weight
  <2>1. TypeOK
    BY DEF ShapeInv
  <2>2. QED
    BY <2>1, RuleParts DEF TypeOK
<1>7. PreFaInv(B)
  <2>1. \A k \in B.trans : k \in B.marked \/ D(B, k) = Zero
    BY <1>1, <1>4 DEF Noted
  <2>2. Holds(B)
    BY <1>1, <1>4 DEF Holds, Evolves, IsAutomaton
  <2>3. PopsThere(B)
    BY <1>2, <1>3, <1>4 DEF PopsThere
  <2>4. QED
    BY <1>4, <2>1, <2>2, <2>3 DEF PreFaInv
<1>8. ASSUME NEW t \in A.trans, NEW r \in rules
      PROVE  /\ t \in Key /\ t \in A.marked
             /\ Pred(t, r) \in Key /\ r.weight \in Weight
             /\ First(A, job, t, r) = W(A, t) /\ Second(A, job, t, r) = W(A, t)
             /\ W(A, t) \in Weight /\ W(A, Pred(t, r)) \in Weight
  <2>1. t \in Key /\ t \in A.marked /\ D(A, t) = W(A, t)
    BY <1>1 DEF IsAutomaton
  <2>2. QED
    BY <1>1, <1>6, <2>1, PredKey, WeightTyped DEF First, Pending, Second
<1>9. StepsPaid(A, job)
  <2> SUFFICES ASSUME NEW t \in A.trans, NEW r \in rules
               PROVE  StepThere(A, job, t, r) /\ StepOwes(A, job, t, r)
    BY DEF StepsPaid
  <2>1. Extend(r.weight, W(A, t)) \in Weight
    BY <1>8, WeightClosed
  <2>2. QED
    BY <1>8, <2>1, CombineUpper DEF StepThere, StepOwes
<1>10. PushesPaid(A, job)
  <2> SUFFICES ASSUME NEW t \in A.trans, NEW u \in A.trans, NEW r \in rules,
                      ReadsPair(r, t, u)
               PROVE  PushThere(A, job, t, u, r) /\ PushOwes(A, job, t, u, r)
    BY DEF PushesPaid
  <2>1. IsPush(r)
    BY DEF ReadsPair
  <2> DEFINE x == PushWeight(r, u.from, W(A, t), W(A, u))
             s == W(A, Pred(u, r))
  <2>2. x \in Weight /\ s \in Weight
    BY <1>6, <1>8, <2>1, PushTyped
  <2>3. First(A, job, t, r) = W(A, t) /\ Second(A, job, u, r) = W(A, u) /\ t \in A.marked
    BY <1>8
  <2> HIDE DEF x, s
  <2>4. Leq(x, Combine(s, Combine(x, x)))
    BY <2>2, CombineLaws, CombineUpper
  <2>5. QED
    BY <2>3, <2>4 DEF PushThere, PushOwes, x, s
<1>11. StepsPaid(B, job) /\ PushesPaid(B, job)
  <2>1. StepsPaid(B, [cur |-> cur, dnew |-> dnew, todo |-> {} \ {}, calls |-> {} \ {}])
    BY <1>1, <1>4, <1>6, <1>9, StepsKept
  <2>2. PushesPaid(B, [cur |-> cur, dnew |-> dnew, todo |-> {} \ {}, calls |-> {} \ {}])
    BY <1>1, <1>4, <1>6, <1>10, PushesKept
  <2>3. {} \ {} = {}
    OBVIOUS
  <2>4. QED
    BY <2>1, <2>2, <2>3
<1>12. Job' = job /\ rules' = rules /\ input' = input
  BY <1>1 DEF Job, database, work
<1>13. PreFaInv(fa)' /\ StepsPaid(fa, Job)' /\ PushesPaid(fa, Job)'
  BY <1>5, <1>7, <1>11, <1>12 DEF PreFaInv, Holds, PopsThere, StepsPaid, PushesPaid
<1>14. QED
  BY <1>13 DEF PreInv

(* The delta of the transition pre() takes becomes dnew, its rules the job. *)
LEMMA PopPre ==
    ASSUME ShapeInv, PreInv, PopTransition
    PROVE  PreInv'
<1> SUFFICES ASSUME query = "pre" PROVE PreInv'
  BY DEF PreInv, PopTransition
<1>1. /\ TypeOK /\ IsAutomaton(fa) /\ PreFaInv(fa)
      /\ StepsPaid(fa, Job) /\ PushesPaid(fa, Job)
      /\ pc = "saturate" /\ todo = {} /\ calls = {}
      /\ rules' = rules /\ input' = input
  BY WhileSaturating DEF PreInv, PopTransition, Saturating, database
<1>2. PICK t0 \in fa.marked :
          /\ t0 \in fa.trans /\ t0 \in Key /\ fa.delta[t0] = D(fa, t0) /\ D(fa, t0) \in Weight
          /\ cur' = t0 /\ dnew' = D(fa, t0) /\ fa' = Take(fa, t0)
          /\ todo' = BackwardRules(rules, t0.from, t0.stk)
          /\ calls' = CallRules(rules, t0.stk)
  BY PopFacts
<1> DEFINE B == fa'
           jobB == [cur |-> t0, dnew |-> D(fa, t0),
                    todo |-> BackwardRules(rules, t0.from, t0.stk),
                    calls |-> CallRules(rules, t0.stk)]
<1>3. /\ IsAutomaton(B) /\ B.trans = fa.trans /\ B.marked = fa.marked \ {t0}
      /\ B.weight = fa.weight /\ D(B, t0) = Zero
      /\ \A k : W(B, k) = W(fa, k)
      /\ \A k : k # t0 => D(B, k) = D(fa, k)
  BY <1>1, <1>2, TakeFacts
<1> HIDE DEF B
<1>4. PreFaInv(B)
  BY <1>1, <1>3 DEF PreFaInv, Holds, PopsThere
<1>5. \A k : D(fa, k) \in Weight
  BY <1>1, WeightTyped
<1>6. ASSUME NEW t \in fa.trans, NEW r \in rules
      PROVE  /\ First(fa, Job, t, r) = D(fa, t) /\ Second(fa, Job, t, r) = D(fa, t)
             /\ t.from = r.to /\ t.stk = r.stk1 => First(B, jobB, t, r) = D(fa, t)
             /\ IsPush(r) /\ t.stk = r.stk2 => Second(B, jobB, t, r) = D(fa, t)
  <2>1. Job.todo = {} /\ Job.calls = {}
    BY <1>1 DEF Job
  <2>2. Combine(Zero, D(fa, t0)) = D(fa, t0)
    BY <1>5, CombineLaws, WeightClosed
  <2>3. QED
    BY <1>3, <2>1, <2>2 DEF First, Pending, Second, BackwardRules, CallRules
<1>7. StepsPaid(B, jobB)
  <2> SUFFICES ASSUME NEW t \in B.trans, NEW r \in rules, Reads(r, t)
               PROVE  StepThere(B, jobB, t, r) /\ StepOwes(B, jobB, t, r)
    BY DEF StepsPaid
  <2>1. StepThere(fa, Job, t, r) /\ StepOwes(fa, Job, t, r) /\ t \in fa.trans
    BY <1>1, <1>3 DEF StepsPaid
  <2>2. t = t0 => r \in jobB.todo
    BY DEF Reads, BackwardRules
  <2>3. StepThere(B, jobB, t, r)
    BY <1>1, <1>3, <2>1, <2>2 DEF StepThere, Job
  <2>4. StepOwes(B, jobB, t, r)
    <3>1. First(fa, Job, t, r) = First(B, jobB, t, r)
      BY <1>6, <2>1 DEF Reads
    <3>2. QED
      BY <1>3, <2>1, <3>1 DEF StepOwes
  <2>5. QED
    BY <2>3, <2>4
<1>8. PushesPaid(B, jobB)
  <2> SUFFICES ASSUME NEW t \in B.trans, NEW u \in B.trans, NEW r \in rules,
                      ReadsPair(r, t, u)
               PROVE  PushThere(B, jobB, t, u, r) /\ PushOwes(B, jobB, t, u, r)
    BY DEF PushesPaid
  <2>1. PushThere(fa, Job, t, u, r) /\ PushOwes(fa, Job, t, u, r)
        /\ t \in fa.trans /\ u \in fa.trans
    BY <1>1, <1>3 DEF PushesPaid
  <2>2. t.from = r.to /\ t.stk = r.stk1 /\ IsPush(r) /\ u.stk = r.stk2
    BY DEF ReadsPair, Callee
  <2>3. (t = t0 => r \in jobB.todo) /\ (u = t0 => r \in jobB.calls)
    BY <2>2 DEF BackwardRules, CallRules
  <2>4. PushThere(B, jobB, t, u, r)
    BY <1>1, <1>3, <2>1, <2>3 DEF PushThere, Job
  <2>5. PushOwes(B, jobB, t, u, r)
    <3>1. /\ First(fa, Job, t, r) = First(B, jobB, t, r)
          /\ Second(fa, Job, u, r) = Second(B, jobB, u, r)
      BY <1>6, <2>1, <2>2
    <3>2. QED
      BY <1>3, <2>1, <3>1 DEF PushOwes
  <2>6. QED
    BY <2>4, <2>5
<1>9. Job' = jobB
  BY <1>2 DEF Job
<1>10. PreFaInv(fa)' /\ StepsPaid(fa, Job)' /\ PushesPaid(fa, Job)'
  BY <1>1, <1>4, <1>7, <1>8, <1>9 DEF B, PreFaInv, Holds, PopsThere, StepsPaid, PushesPaid
<1>11. QED
  BY <1>10 DEF PreInv

(* When the worklist is empty there is no job, and none is forgotten. *)
LEMMA FinishPre ==
    ASSUME ShapeInv, PreInv, Finish
    PROVE  PreInv'
<1> SUFFICES ASSUME query = "pre" PROVE PreInv'
  BY DEF PreInv, Finish
<1>1. /\ PreFaInv(fa) /\ StepsPaid(fa, Job) /\ PushesPaid(fa, Job)
      /\ todo = {} /\ calls = {} /\ fa.marked = {}
      /\ cur' = NoKey /\ dnew' = Zero
      /\ UNCHANGED <<rules, input, fa, todo, calls>>
  BY DEF PreInv, Finish, Saturating, database
<1>2. \A t, r : /\ First(fa, Job, t, r)' = First(fa, Job, t, r)
                /\ Second(fa, Job, t, r)' = Second(fa, Job, t, r)
  BY <1>1 DEF First, Pending, Second, Job
<1>3. PreFaInv(fa)'
  BY <1>1 DEF PreFaInv, Holds, PopsThere
<1>4. StepsPaid(fa, Job)'
  <2> SUFFICES ASSUME NEW t \in fa.trans, NEW r \in rules, Reads(r, t)
               PROVE  StepThere(fa, Job, t, r)' /\ StepOwes(fa, Job, t, r)'
    BY <1>1 DEF StepsPaid
  <2>1. StepThere(fa, Job, t, r) /\ StepOwes(fa, Job, t, r)
    BY <1>1 DEF StepsPaid
  <2>2. StepThere(fa, Job, t, r)'
    BY <1>1, <2>1 DEF StepThere, Job
  <2>3. StepOwes(fa, Job, t, r)'
    BY <1>1, <1>2, <2>1 DEF StepOwes
  <2>4. QED
    BY <2>2, <2>3
<1>5. PushesPaid(fa, Job)'
  <2> SUFFICES ASSUME NEW t \in fa.trans, NEW u \in fa.trans, NEW r \in rules,
                      ReadsPair(r, t, u)
               PROVE  PushThere(fa, Job, t, u, r)' /\ PushOwes(fa, Job, t, u, r)'
    BY <1>1 DEF PushesPaid
  <2>1. PushThere(fa, Job, t, u, r) /\ PushOwes(fa, Job, t, u, r)
    BY <1>1 DEF PushesPaid
  <2>2. PushThere(fa, Job, t, u, r)'
    BY <1>1, <2>1 DEF PushThere, Job
  <2>3. PushOwes(fa, Job, t, u, r)'
    BY <1>1, <1>2, <2>1 DEF PushOwes
  <2>4. QED
    BY <2>2, <2>3
<1>6. QED
  BY <1>3, <1>4, <1>5 DEF PreInv

(* Every step of a session keeps what prestar owes. *)
LEMMA NextPre == ShapeInv /\ PreInv /\ [Next]_vars => PreInv'
<1> SUFFICES ASSUME ShapeInv, PreInv, [Next]_vars PROVE PreInv'
  OBVIOUS
<1>1. CASE Build \/ Ask \/ AskAgain
  <2>1. pc' \notin {"saturate", "done"}
    BY <1>1 DEF Build, AddNew, AddAgain, EraseRule, Copy, Ask, AskAgain, Asked
  <2>2. QED
    BY <2>1 DEF PreInv
<1>2. CASE Setup
  BY <1>2, SetupPre
<1>3. CASE PopTransition
  BY <1>3, PopPre
<1>4. CASE PopEpsilon \/ PostRule \/ PostPush
  BY <1>4 DEF PreInv, PopEpsilon, PostRule, PostPush
<1>5. CASE PreRule \/ PrePushFirst \/ PrePushSecond
  BY <1>5, PreSteps, PreStepKept
<1>6. CASE Finish
  BY <1>6, FinishPre
<1>7. CASE UNCHANGED vars
  BY <1>7 DEF vars, database, work, PreInv, PreFaInv, Holds, PopsThere, StepsPaid, PushesPaid,
     StepThere, StepOwes, PushThere, PushOwes, First, Pending, Second, Job
<1>8. QED
  BY <1>1, <1>2, <1>3, <1>4, <1>5, <1>6, <1>7 DEF Next, Query

(* At the end nothing is owed: the equations of prestar hold. *)
LEMMA PreDone ==
    ASSUME ShapeInv, PreInv, pc = "done", query = "pre"
    PROVE  PreSolution(fa)
<1>1. /\ TypeOK /\ IsAutomaton(fa) /\ PreFaInv(fa) /\ StepsPaid(fa, Job)
      /\ PushesPaid(fa, Job) /\ fa.marked = {} /\ todo = {} /\ calls = {}
  <2>1. TypeOK /\ PhaseOK /\ PreFaInv(fa) /\ StepsPaid(fa, Job) /\ PushesPaid(fa, Job)
    BY DEF ShapeInv, PreInv
  <2>2. fa.marked = {} /\ todo = {} /\ calls = {}
    BY <2>1 DEF PhaseOK
  <2>3. QED
    BY <2>1, <2>2 DEF PreFaInv
<1>2. ASSUME NEW t \in fa.trans
      PROVE  /\ t \in Key /\ D(fa, t) = Zero /\ W(fa, t) = fa.weight[t] /\ W(fa, t) \in Weight
             /\ \A r \in rules : First(fa, Job, t, r) = Zero /\ Second(fa, Job, t, r) = Zero
  <2>1. t \in Key /\ D(fa, t) = Zero /\ W(fa, t) = fa.weight[t] /\ W(fa, t) \in Weight
    BY <1>1, WeightTyped DEF PreFaInv, IsAutomaton, W
  <2>2. QED
    BY <1>1, <2>1 DEF First, Pending, Second, Job
<1>3. Covers(fa, input)
  BY <1>1, <1>2 DEF PreFaInv, Holds, Covers
<1>4. ASSUME NEW r \in rules, IsPop(r)
      PROVE  LET k == [from |-> r.from, stk |-> r.stk, to |-> r.to]
             IN  k \in fa.trans /\ Leq(r.weight, fa.weight[k])
  BY <1>1, <1>2, <1>4 DEF PreFaInv, PopsThere
<1>5. ASSUME NEW r \in rules, NEW t \in fa.trans, ~ IsPush(r), t.from = r.to, t.stk = r.stk1
      PROVE  /\ Pred(t, r) \in fa.trans
             /\ Leq(Extend(r.weight, fa.weight[t]), fa.weight[Pred(t, r)])
  <2>1. StepThere(fa, Job, t, r) /\ StepOwes(fa, Job, t, r)
    BY <1>1, <1>5 DEF StepsPaid, Reads
  <2>2. Pred(t, r) \in fa.trans
    BY <1>1, <2>1 DEF StepThere, Job
  <2>3. /\ W(fa, Pred(t, r)) = fa.weight[Pred(t, r)] /\ W(fa, Pred(t, r)) \in Weight
        /\ r.weight \in Weight
    BY <1>1, <1>2, <2>2, RuleParts
  <2>4. Combine(W(fa, Pred(t, r)), Extend(r.weight, Zero)) = W(fa, Pred(t, r))
    BY <2>3, ExtendLaws, CombineLaws, WeightClosed
  <2>5. QED
    BY <1>2, <2>1, <2>2, <2>3, <2>4 DEF StepOwes
<1>6. ASSUME NEW r \in rules, NEW t \in fa.trans, IsPush(r), t.from = r.to, t.stk = r.stk1,
             NEW u \in Matching(fa, t.to, r.stk2)
      PROVE  /\ Pred(u, r) \in fa.trans
             /\ Leq(Extend(ThroughCall(r, t.to \in P, fa.weight[t]), fa.weight[u]),
                    fa.weight[Pred(u, r)])
  <2>1. u \in fa.trans /\ u.from = t.to /\ u.stk = r.stk2
    BY DEF Matching
  <2>2. t = Callee(r, u.from)
    BY <1>2, <1>6, <2>1 DEF Callee, Key
  <2>3. PushThere(fa, Job, t, u, r) /\ PushOwes(fa, Job, t, u, r)
    BY <1>1, <1>6, <2>1, <2>2 DEF PushesPaid, ReadsPair
  <2>4. Pred(u, r) \in fa.trans
    BY <1>1, <2>3 DEF PushThere, Job
  <2>5. W(fa, Pred(u, r)) = fa.weight[Pred(u, r)] /\ W(fa, Pred(u, r)) \in Weight
    BY <1>2, <2>4
  <2>6. /\ PushWeight(r, u.from, Zero, W(fa, u)) = Zero
        /\ PushWeight(r, u.from, W(fa, t), Zero) = Zero
    BY <1>1, <1>2, <1>6, <2>1, PushZero
  <2>7. Leq(PushWeight(r, u.from, W(fa, t), W(fa, u)), W(fa, Pred(u, r)))
    <3>1. Combine(W(fa, Pred(u, r)), Combine(Zero, Zero)) = W(fa, Pred(u, r))
      BY <2>5, CombineLaws, WeightClosed
    <3>2. QED
      BY <1>2, <2>1, <2>3, <2>6, <3>1 DEF PushOwes
  <2>8. PushWeight(r, u.from, W(fa, t), W(fa, u))
          = Extend(ThroughCall(r, t.to \in P, fa.weight[t]), fa.weight[u])
    BY <1>2, <2>1 DEF PushWeight
  <2>9. QED
    BY <2>4, <2>5, <2>7, <2>8
<1>7. QED
  BY <1>3, <1>4, <1>5, <1>6 DEF PreSolution

(* Nothing is owed before the first query. *)
LEMMA InitPre == Init => PreInv
BY DEF Init, PreInv

(***************************************************************************)
(* prestar returns a solution of its equations: the whole input, the       *)
(* transition of every pop rule, and what every other rule makes of the    *)
(* final weights of the transitions it reads, a call that ends in a        *)
(* control state merged with the function of its rule; for any rules,      *)
(* merge functions, input and order of the worklist, a second query on     *)
(* the output of the first included.                                       *)
(***************************************************************************)
THEOREM EwpdsPrestarSaturates == Spec => [](query = "pre" => Saturates)
<1>1. Spec => [](ShapeInv /\ PreInv)
  BY InitShape, NextShape, InitPre, NextPre, PTL DEF Spec
<1>2. ShapeInv /\ PreInv => (query = "pre" => Saturates)
  BY PreDone DEF Saturates
<1>3. QED
  BY <1>1, <1>2, PTL

(***************************************************************************)
(* The other half.  Below(S) says that nothing in the output, nor the      *)
(* delta at work, is above S; during prestar it holds of every solution of *)
(* the equations.                                                          *)
(***************************************************************************)
Below(S) == Under(fa, S) /\ (todo # {} \/ calls # {} => Leq(dnew, S.weight[cur]))

PreBelow ==
    query = "pre" /\ pc \in {"saturate", "done"} =>
        \A S : IsWeighted(S) /\ PreSolution(S) => Below(S)

(* The output of prestar is a solution, and every solution covers it. *)
PreLeastWhenDone ==
    query = "pre" /\ pc = "done" =>
        /\ IsWeighted(fa) /\ PreSolution(fa)
        /\ \A S : IsWeighted(S) /\ PreSolution(S) => Covers(S, fa)

(* A solution has what a rule makes of transitions that are not above it. *)
LEMMA MadeUnder ==
    ASSUME ShapeInv, pc = "saturate", NEW S, IsWeighted(S), PreSolution(S), Below(S),
           todo \cup calls # {}, cur \in fa.trans,
           NEW r \in rules, NEW k, NEW w, MadeOf(r, k, w)
    PROVE  k \in S.trans /\ Leq(w, S.weight[k])
<1>1. /\ TypeOK /\ IsAutomaton(fa) /\ dnew \in Weight /\ r.weight \in Weight
  BY WhileSaturating, RuleParts
<1>2. /\ Leq(dnew, S.weight[cur]) /\ cur \in S.trans /\ cur \in Key
      /\ S.weight[cur] \in Weight /\ dnew \in Weight
  BY <1>1 DEF Below, Under, IsWeighted
<1>3. ASSUME NEW t \in fa.trans
      PROVE  /\ t \in S.trans /\ t \in Key /\ W(fa, t) \in Weight
             /\ S.weight[t] \in Weight /\ Leq(W(fa, t), S.weight[t])
  BY <1>1, WeightTyped DEF Below, Under, IsWeighted, W
<1>4. ASSUME NEW t \in S.trans, Reads(r, t)
      PROVE  /\ Pred(t, r) \in S.trans /\ S.weight[Pred(t, r)] \in Weight
             /\ Leq(Extend(r.weight, S.weight[t]), S.weight[Pred(t, r)])
  BY <1>4 DEF PreSolution, Reads, IsWeighted
<1>5. ASSUME NEW t \in S.trans, NEW u \in S.trans, ReadsPair(r, t, u)
      PROVE  /\ IsPush(r) /\ Pred(u, r) \in S.trans /\ S.weight[Pred(u, r)] \in Weight
             /\ Leq(PushWeight(r, u.from, S.weight[t], S.weight[u]), S.weight[Pred(u, r)])
  <2>1. IsPush(r) /\ t.from = r.to /\ t.stk = r.stk1 /\ t.to = u.from /\ u.stk = r.stk2
    BY <1>5 DEF ReadsPair, Callee
  <2>2. u \in Matching(S, t.to, r.stk2)
    BY <2>1 DEF Matching
  <2>3. QED
    BY <2>1, <2>2 DEF PreSolution, PushWeight, IsWeighted
<1>6. ASSUME IsPush(r), NEW q, NEW a \in Weight, NEW b \in Weight, NEW c \in Weight,
             NEW d \in Weight, NEW z \in Weight, Leq(a, c), Leq(b, d),
             Leq(PushWeight(r, q, c, d), z)
      PROVE  Leq(PushWeight(r, q, a, b), z)
  <2>1. PushWeight(r, q, a, b) \in Weight /\ PushWeight(r, q, c, d) \in Weight
    BY <1>1, <1>6, PushTyped
  <2>2. Leq(PushWeight(r, q, a, b), PushWeight(r, q, c, d))
    BY <1>1, <1>6, PushMono
  <2>3. QED
    BY <1>6, <2>1, <2>2, LeqTrans
<1>7. CASE Reads(r, cur) /\ k = Pred(cur, r) /\ w = Extend(r.weight, dnew)
  <2>1. /\ Leq(w, Extend(r.weight, S.weight[cur]))
        /\ w \in Weight /\ Extend(r.weight, S.weight[cur]) \in Weight
    BY <1>1, <1>2, <1>7, ExtendMono, WeightClosed
  <2>2. QED
    BY <1>2, <1>4, <1>7, <2>1, LeqTrans
<1>8. CASE \E u \in fa.trans : /\ ReadsPair(r, cur, u) /\ k = Pred(u, r)
                               /\ w = PushWeight(r, u.from, dnew, W(fa, u))
  <2>1. PICK u \in fa.trans : /\ ReadsPair(r, cur, u) /\ k = Pred(u, r)
                              /\ w = PushWeight(r, u.from, dnew, W(fa, u))
    BY <1>8
  <2>2. /\ IsPush(r) /\ k \in S.trans /\ S.weight[k] \in Weight
        /\ Leq(PushWeight(r, u.from, S.weight[cur], S.weight[u]), S.weight[k])
    BY <1>2, <1>3, <1>5, <2>1
  <2>3. QED
    BY <1>2, <1>3, <1>6, <2>1, <2>2
<1>9. CASE \E t \in fa.trans : /\ ReadsPair(r, t, cur) /\ k = Pred(cur, r)
                               /\ w = PushWeight(r, cur.from, W(fa, t), dnew)
  <2>1. PICK t \in fa.trans : /\ ReadsPair(r, t, cur) /\ k = Pred(cur, r)
                              /\ w = PushWeight(r, cur.from, W(fa, t), dnew)
    BY <1>9
  <2>2. /\ IsPush(r) /\ k \in S.trans /\ S.weight[k] \in Weight
        /\ Leq(PushWeight(r, cur.from, S.weight[t], S.weight[cur]), S.weight[k])
    BY <1>2, <1>3, <1>5, <2>1
  <2>3. QED
    BY <1>2, <1>3, <1>6, <2>1, <2>2
<1>10. QED
  BY <1>7, <1>8, <1>9 DEF MadeOf

(* The rules and the input are those of the query at every step of it. *)
LEMMA PreSolutionStays ==
    ASSUME rules' = rules, input' = input, NEW S
    PROVE  PreSolution(S)' <=> PreSolution(S)
BY DEF PreSolution, Covers, Pred, Matching, ThroughCall

(* A saturation step of prestar adds what every solution has. *)
LEMMA PreStepBelow ==
    ASSUME ShapeInv, PreBelow, PreRule \/ PrePushFirst \/ PrePushSecond
    PROVE  PreBelow'
<1>1. PICK R \in SUBSET todo, C \in SUBSET calls, K \in SUBSET Key :
          \E ins \in [K -> Weight], E \in SUBSET K : PreStep(R, C, K, ins, E)
  BY PreSteps
<1>2. PICK ins \in [K -> Weight], E \in SUBSET K : PreStep(R, C, K, ins, E)
  BY <1>1
<1>3. /\ pc = "saturate" /\ query = "pre" /\ K \in SUBSET Key /\ ins \in [K -> Weight]
      /\ fa' = Update(fa, ins) \/ (K = {} /\ fa' = fa)
      /\ todo' = todo \ R /\ calls' = calls \ C
      /\ rules' = rules /\ input' = input /\ cur' = cur /\ dnew' = dnew
      /\ K # {} => cur \in fa.trans /\ todo \cup calls # {}
      /\ \A k \in K : \E r \in rules : MadeOf(r, k, ins[k])
  BY <1>2 DEF PreStep, database
<1>4. IsAutomaton(fa)
  BY <1>3, WhileSaturating
<1>5. ASSUME NEW S, IsWeighted(S), PreSolution(S)' PROVE Below(S)'
  <2>1. PreSolution(S) /\ Below(S)
    BY <1>3, <1>5, PreSolutionStays DEF PreBelow
  <2>2. ASSUME NEW k \in K PROVE k \in S.trans /\ Leq(ins[k], S.weight[k])
    <3>1. PICK r \in rules : MadeOf(r, k, ins[k])
      BY <1>3
    <3>2. QED
      BY <1>3, <1>5, <2>1, <3>1, MadeUnder
  <2>3. Under(fa', S)
    <3>1. CASE fa' = Update(fa, ins)
      BY <1>3, <1>4, <1>5, <2>1, <2>2, <3>1, UpdateUnder DEF Below
    <3>2. QED
      BY <1>3, <2>1, <3>1 DEF Below
  <2>4. QED
    BY <1>3, <2>1, <2>3 DEF Below, Under
<1>6. QED
  BY <1>5 DEF PreBelow

(* prestar starts with the input and the pop rules, which a solution has. *)
LEMMA SetupBelow ==
    ASSUME ShapeInv, Setup
    PROVE  PreBelow'
<1> SUFFICES ASSUME query = "pre", NEW S, IsWeighted(S), PreSolution(S)' PROVE Below(S)'
  BY SetupFacts DEF PreBelow
<1> DEFINE A == CopyOf(input)
           pops == {r \in rules : IsPop(r) /\ query = "pre"}
           keyOf(r) == [from |-> r.from, stk |-> r.stk, to |-> r.to]
           ruleOf(k) == CHOOSE r \in pops : keyOf(r) = k
           K == {keyOf(r) : r \in pops}
           ins == [k \in K |-> ruleOf(k).weight]
<1>1. /\ fa' = Update(A, ins) /\ rules' = rules /\ input' = input
      /\ todo' = todo /\ calls' = calls
  BY DEF Setup, database, work
<1>2. /\ IsAutomaton(A) /\ A.trans = input.trans /\ todo = {} /\ calls = {}
  BY SetupFacts
<1>3. PreSolution(S)
  BY <1>1, PreSolutionStays
<1>4. Under(A, S)
  BY <1>3 DEF CopyOf, Under, PreSolution, Covers
<1>5. ASSUME NEW k \in K
      PROVE  /\ k \in Key /\ ins[k] \in Weight
             /\ k \in S.trans /\ Leq(ins[k], S.weight[k])
  <2>1. ruleOf(k) \in pops /\ keyOf(ruleOf(k)) = k
    OBVIOUS
  <2> DEFINE r == ruleOf(k)
  <2>2. r \in rules /\ IsPop(r) /\ k = [from |-> r.from, stk |-> r.stk, to |-> r.to]
        /\ ins[k] = r.weight
    BY <2>1
  <2> HIDE DEF r, ruleOf, keyOf, ins, K
  <2>3. /\ r.from \in P /\ r.stk \in Stack /\ r.to \in P /\ r.weight \in Weight
    BY <2>2, RuleParts DEF ShapeInv
  <2>4. k \in Key
    BY <2>2, <2>3 DEF Key, State, Symbol
  <2>5. QED
    BY <1>3, <2>2, <2>3, <2>4 DEF PreSolution
<1> HIDE DEF A, keyOf, ruleOf
<1>6. K \in SUBSET Key /\ ins \in [K -> Weight]
  BY <1>5
<1> HIDE DEF K, ins
<1>7. Under(Update(A, ins), S)
  BY <1>2, <1>4, <1>5, <1>6, UpdateUnder
<1>8. QED
  BY <1>1, <1>2, <1>7 DEF Below, Under

(* Every step of a session keeps prestar below the solutions. *)
LEMMA NextBelow == ShapeInv /\ PreBelow /\ [Next]_vars => PreBelow'
<1> SUFFICES ASSUME ShapeInv, PreBelow, [Next]_vars PROVE PreBelow'
  OBVIOUS
<1>1. CASE Build \/ Ask \/ AskAgain
  <2>1. pc' \notin {"saturate", "done"}
    BY <1>1 DEF Build, AddNew, AddAgain, EraseRule, Copy, Ask, AskAgain, Asked, ShapeInv, PhaseOK
  <2>2. QED
    BY <2>1 DEF PreBelow
<1>2. CASE Setup
  BY <1>2, SetupBelow
<1>3. CASE PopTransition
  <2> SUFFICES ASSUME query = "pre", NEW S, IsWeighted(S), PreSolution(S)' PROVE Below(S)'
    BY <1>3 DEF PreBelow, PopTransition
  <2>1. pc = "saturate" /\ rules' = rules /\ input' = input /\ IsAutomaton(fa)
    BY <1>3, WhileSaturating DEF PopTransition, Saturating, database
  <2>2. PICK t \in fa.marked : cur' = t /\ dnew' = fa.delta[t] /\ fa' = Take(fa, t)
    BY <1>3 DEF PopTransition
  <2>3. t \in fa.trans
    BY <2>1 DEF IsAutomaton
  <2>4. Under(fa, S)
    BY <2>1, PreSolutionStays DEF PreBelow, Below
  <2>5. QED
    BY <2>1, <2>2, <2>3, <2>4, TakeUnder DEF Below, Under
<1>4. CASE PopEpsilon \/ PostRule \/ PostPush
  BY <1>4 DEF PreBelow, PopEpsilon, PostRule, PostPush
<1>5. CASE PreRule \/ PrePushFirst \/ PrePushSecond
  BY <1>5, PreStepBelow
<1>6. CASE Finish
  <2>1. /\ pc = "saturate" /\ todo = {} /\ calls = {}
        /\ UNCHANGED <<rules, input, fa, query, todo, calls>>
    BY <1>6 DEF Finish, Saturating, database
  <2>2. QED
    BY <2>1, PreSolutionStays DEF PreBelow, Below, Under
<1>7. CASE UNCHANGED vars
  <2>1. UNCHANGED <<rules, input, fa, query, pc, cur, dnew, todo, calls>>
    BY <1>7 DEF vars, database, work
  <2>2. QED
    BY <2>1, PreSolutionStays DEF PreBelow, Below, Under
<1>8. QED
  BY <1>1, <1>2, <1>3, <1>4, <1>5, <1>6, <1>7 DEF Next, Query

(***************************************************************************)
(* prestar returns the least solution of its equations, merges at returns  *)
(* included: what it returns solves them, and any other solution has every *)
(* transition it has, with at least its weight.                            *)
(***************************************************************************)
THEOREM EwpdsPrestarLeast == Spec => []PreLeastWhenDone
<1>1. Init => PreBelow
  BY DEF Init, PreBelow
<1>2. Spec => [](ShapeInv /\ PreInv /\ PreBelow)
  BY <1>1, InitShape, NextShape, InitPre, NextPre, NextBelow, PTL DEF Spec
<1>3. ShapeInv /\ PreInv /\ PreBelow => PreLeastWhenDone
  <2> SUFFICES ASSUME ShapeInv, PreInv, PreBelow, query = "pre", pc = "done"
               PROVE  /\ IsWeighted(fa) /\ PreSolution(fa)
                      /\ \A S : IsWeighted(S) /\ PreSolution(S) => Covers(S, fa)
    BY DEF PreLeastWhenDone
  <2>1. IsWeighted(fa) /\ PreSolution(fa)
    BY PreDone DEF PreInv, PreFaInv, IsAutomaton, IsWeighted
  <2>2. QED
    BY <2>1 DEF PreBelow, Below, Under, Covers
<1>4. QED
  BY <1>2, <1>3, PTL

-----------------------------------------------------------------------------
(***************************************************************************)
(* poststar.  What its automaton looks like while it runs: the ETrans      *)
(* leave states that are not control states.                               *)
(***************************************************************************)
LEMMA PostKeys ==
    ASSUME AllFromControl, query = "post", NEW A, NEW c,
           IsAutomaton(A), CallOf(A.trans, c), ShapeOf(A, c), NEW k \in A.trans
    PROVE  /\ k \in Key /\ k.to \notin P
           /\ k.stk = EPS => k.from \in P
           /\ k.from \in P => k \notin DOMAIN c
           /\ k \in DOMAIN c => c[k].merge \in Merge /\ c[k].at \in Weight
<1>1. k \in Key /\ ShapedOf(k, c) /\ EpsKeptOut(A.trans)
  BY DEF IsAutomaton, ShapeOf
<1>2. k.to \notin P /\ (k.from \in P => k \notin DOMAIN c)
  BY <1>1 DEF ShapedOf
<1>3. k.stk = EPS => k.from \in P
  BY <1>1 DEF EpsKeptOut
<1>4. k \in DOMAIN c => c[k].merge \in Merge /\ c[k].at \in Weight
  BY <1>1, <1>2 DEF ShapedOf, CallOf
<1> QED  BY <1>1, <1>2, <1>3, <1>4

(* How the debt of a weight that grows from wa to wb is carried over. *)
LEMMA PaySum ==
    ASSUME NEW wa \in Weight, NEW wb \in Weight, NEW db \in Weight,
           NEW pa \in Weight, NEW pb \in Weight, NEW ta \in Weight, NEW tb \in Weight,
           Leq(wb, Combine(wa, db)), Leq(wa, Combine(ta, pa)),
           Leq(ta, tb), Leq(db, pb), Leq(pa, Combine(tb, pb))
    PROVE  Leq(wb, Combine(tb, pb))
<1> DEFINE sum == Combine(tb, pb)
<1>1. /\ sum \in Weight /\ Leq(tb, sum) /\ Leq(pb, sum)
      /\ Combine(wa, db) \in Weight /\ Combine(ta, pa) \in Weight
  BY WeightClosed, CombineUpper
<1>2. Leq(pa, sum)
  OBVIOUS
<1> HIDE DEF sum
<1>3. Leq(ta, sum) /\ Leq(db, sum)
  BY <1>1, LeqTrans
<1>4. Leq(Combine(ta, pa), sum)
  BY <1>1, <1>2, <1>3, CombineLeast
<1>5. Leq(wa, sum)
  BY <1>1, <1>4, LeqTrans
<1>6. Leq(Combine(wa, db), sum)
  BY <1>1, <1>3, <1>5, CombineLeast
<1> QED  BY <1>1, <1>6, LeqTrans DEF sum

(***************************************************************************)
(* One or more updates of the automaton, from A with the ETrans c to B     *)
(* with d: it evolves, what leaves a control state is marked if it gained  *)
(* anything, what leaves this query's states carries its weight as delta   *)
(* and its call, all other transitions stay.                               *)
(***************************************************************************)
PostStepOK(A, c, B, d) ==
    /\ IsAutomaton(B) /\ CallOf(B.trans, d) /\ ShapeOf(B, d)
    /\ Evolves(A, B)
    /\ \A k \in DOMAIN c : /\ k \in DOMAIN d
                           /\ d[k].merge = c[k].merge /\ Leq(c[k].at, d[k].at)
    /\ \A k \in B.trans :
          /\ OfThisQuery(k.from) => k \notin B.marked /\ D(B, k) = W(B, k)
          /\ CallKept(B, d, k)
          /\ k.from \in P => \/ k \in B.marked
                             \/ k \in A.trans /\ k \notin A.marked /\ D(B, k) = D(A, k)
          /\ k.from \notin P /\ ~ OfThisQuery(k.from) => SameAt(A, B, k)

(* Such a step keeps everything that is said of the automaton alone. *)
LEMMA PostFaInvKept ==
    ASSUME NEW A, NEW c, NEW B, NEW d, PostFaInv(A, c), PostStepOK(A, c, B, d),
           InputOK([trans |-> input.trans, weight |-> input.weight, gen |-> input.gen])
    PROVE  PostFaInv(B, d)
<1>1. IsAutomaton(A) /\ IsAutomaton(B) /\ A.trans \subseteq B.trans
  BY DEF PostFaInv, PostStepOK, Evolves
<1>2. ASSUME NEW k \in B.trans PROVE DeltaKept(B, k) /\ CallKept(B, d, k)
  <2>1. CallKept(B, d, k)
    BY DEF PostStepOK
  <2>2. CASE OfThisQuery(k.from)
    BY <2>1, <2>2 DEF PostStepOK, DeltaKept
  <2>3. CASE ~ OfThisQuery(k.from) /\ k.from \in P
    BY <2>1, <2>3 DEF PostStepOK, DeltaKept, PostFaInv
  <2>4. CASE ~ OfThisQuery(k.from) /\ k.from \notin P
    BY <2>1, <2>4 DEF PostStepOK, DeltaKept, PostFaInv, SameAt
  <2> QED  BY <2>2, <2>3, <2>4
<1>3. Holds(B)
  <2>1. input.trans \subseteq A.trans /\ input.trans \subseteq Key
        /\ input.weight \in [input.trans -> Weight]
    BY DEF PostFaInv, Holds, InputOK, IsInput
  <2>2. ASSUME NEW k \in input.trans PROVE Leq(input.weight[k], W(B, k))
    <3>1. Leq(input.weight[k], W(A, k)) /\ Leq(W(A, k), W(B, k))
      BY <2>1 DEF PostFaInv, Holds, PostStepOK, Evolves
    <3>2. input.weight[k] \in Weight /\ W(A, k) \in Weight /\ W(B, k) \in Weight
      BY <1>1, <2>1, WeightTyped
    <3> QED  BY <3>1, <3>2, LeqTrans
  <2> QED  BY <1>1, <2>1, <2>2 DEF Holds
<1> QED  BY <1>1, <1>2, <1>3 DEF PostFaInv, PostStepOK

(* What was pending of t for r is still, or is what R was done with. *)
LEMMA PendingKept ==
    ASSUME NEW A, NEW B, IsAutomaton(A), IsAutomaton(B), Evolves(A, B),
           NEW x, NEW d0 \in Weight, NEW T, NEW R, NEW C, NEW t \in Key, NEW r
    PROVE  LET pa == Pending(A, [cur |-> x, dnew |-> d0, todo |-> T, calls |-> C], t, r)
               pb == Pending(B, [cur |-> x, dnew |-> d0, todo |-> T \ R, calls |-> C], t, r)
           IN  /\ pa \in Weight /\ pb \in Weight /\ Leq(D(B, t), pb)
               /\ \/ Leq(pa, pb)
                  \/ /\ t = x /\ r \in R
                     /\ pa = Combine(D(A, t), d0) /\ Leq(D(A, t), pb)
<1> DEFINE pa == Pending(A, [cur |-> x, dnew |-> d0, todo |-> T, calls |-> C], t, r)
           pb == Pending(B, [cur |-> x, dnew |-> d0, todo |-> T \ R, calls |-> C], t, r)
<1>1. D(A, t) \in Weight /\ D(B, t) \in Weight /\ Leq(D(A, t), D(B, t))
  BY WeightTyped DEF Evolves
<1>2. /\ pa = (IF t = x /\ r \in T THEN Combine(D(A, t), d0) ELSE D(A, t))
      /\ pb = (IF t = x /\ r \in T \ R THEN Combine(D(B, t), d0) ELSE D(B, t))
  BY DEF Pending
<1> HIDE DEF pa, pb
<1>3. pa \in Weight /\ pb \in Weight /\ Leq(D(B, t), pb)
  BY <1>1, <1>2, WeightClosed, CombineUpper, LeqBasics
<1>4. Leq(D(A, t), pb)
  BY <1>1, <1>3, LeqTrans
<1>5. CASE t = x /\ r \in T /\ r \in R
  BY <1>2, <1>3, <1>4, <1>5 DEF pa, pb
<1>6. CASE t = x /\ r \in T /\ r \notin R
  <2>1. Leq(pa, pb)
    BY <1>1, <1>2, <1>6, LeqBasics, CombineMono
  <2> QED  BY <1>3, <2>1 DEF pa, pb
<1>7. CASE ~ (t = x /\ r \in T)
  BY <1>2, <1>3, <1>4, <1>7 DEF pa, pb
<1> QED  BY <1>5, <1>6, <1>7

(* The weights at the calls are weights, and grow. *)
LEMMA AtCallGrows ==
    ASSUME NEW A, NEW c, NEW B, NEW d, CallOf(A.trans, c), PostStepOK(A, c, B, d), NEW k
    PROVE  /\ AtCall(c, k) \in Weight /\ AtCall(d, k) \in Weight
           /\ Leq(AtCall(c, k), AtCall(d, k))
<1>1. AtCall(c, k) \in Weight /\ AtCall(d, k) \in Weight
  BY WeightClosed DEF AtCall, CallOf, PostStepOK
<1>2. CASE k \in DOMAIN c
  BY <1>1, <1>2 DEF AtCall, PostStepOK
<1>3. CASE k \notin DOMAIN c
  BY <1>1, <1>3, LeqBasics DEF AtCall
<1> QED  BY <1>1, <1>2, <1>3

(***************************************************************************)
(* Such a step pays what the rules owe, the rules R of the job included    *)
(* when it made their transitions and added what was pending, to the       *)
(* weight at the call too.                                                 *)
(***************************************************************************)
LEMMA PostRulesKept ==
    ASSUME AllFromControl, query = "post", TypeOK, gen \in 1..MaxGeneration,
           NEW A, NEW c, NEW B, NEW d, PostFaInv(A, c), PostStepOK(A, c, B, d),
           NEW x, NEW d0 \in Weight, NEW T, NEW R, NEW C,
           RulesPaid(A, c, [cur |-> x, dnew |-> d0, todo |-> T, calls |-> C]),
           \A r \in R : /\ RuleThere(B, x, r)
                        /\ Leq(Extend(d0, r.weight), W(B, RuleTarget(x, r)))
                        /\ IsPush(r) => Leq(d0, AtCall(d, Mid(x, r)))
    PROVE  RulesPaid(B, d, [cur |-> x, dnew |-> d0, todo |-> T \ R, calls |-> C])
<1> DEFINE job == [cur |-> x, dnew |-> d0, todo |-> T, calls |-> C]
           jobB == [cur |-> x, dnew |-> d0, todo |-> T \ R, calls |-> C]
<1> SUFFICES ASSUME NEW t \in B.trans, NEW r \in ForwardRules(rules, t.from, t.stk)
             PROVE  RuleOwes(B, d, jobB, t, r)
  BY DEF RulesPaid
<1> DEFINE w == r.weight
           k == RuleTarget(t, r)
           m == Mid(t, r)
           pa == Pending(A, job, t, r)
           pb == Pending(B, jobB, t, r)
<1>1. /\ IsAutomaton(A) /\ IsAutomaton(B) /\ Evolves(A, B) /\ A.trans \subseteq B.trans
      /\ r \in rules /\ t \in Key /\ t.from \in P /\ w \in Weight /\ CallOf(A.trans, c)
  <2>1. IsAutomaton(A) /\ IsAutomaton(B) /\ Evolves(A, B) /\ A.trans \subseteq B.trans
        /\ CallOf(A.trans, c)
    BY DEF PostFaInv, PostStepOK, Evolves
  <2>2. r \in rules /\ t.from = r.from /\ t \in Key
    BY <2>1 DEF ForwardRules, IsAutomaton
  <2>3. r.from \in P /\ w \in Weight
    BY <2>2, RuleParts
  <2> QED  BY <2>1, <2>2, <2>3
<1>2. k \in Key /\ (IsPush(r) => Entry(r) \in Key)
  BY <1>1, TargetParts
<1>3. /\ W(A, t) \in Weight /\ D(A, t) \in Weight /\ W(B, t) \in Weight /\ D(B, t) \in Weight
      /\ W(A, k) \in Weight /\ W(B, k) \in Weight
  BY <1>1, WeightTyped
<1>4. Leq(W(A, k), W(B, k)) /\ Leq(W(B, t), Combine(W(A, t), D(B, t)))
  BY <1>1, <1>2 DEF Evolves
<1>5. t \in A.trans => RuleOwes(A, c, job, t, r)
  BY DEF RulesPaid
<1>6. /\ pa \in Weight /\ pb \in Weight /\ Leq(D(B, t), pb)
      /\ \/ Leq(pa, pb)
         \/ /\ t = x /\ r \in R
            /\ pa = Combine(D(A, t), d0) /\ Leq(D(A, t), pb)
  BY <1>1, PendingKept
<1>7. AtCall(c, m) \in Weight /\ AtCall(d, m) \in Weight /\ Leq(AtCall(c, m), AtCall(d, m))
  BY <1>1, AtCallGrows
<1> HIDE DEF job, jobB, k, w, pa, pb, m
<1>8. t \in B.marked \/ (t = x /\ r \in T \ R) \/ RuleThere(B, t, r)
  <2> SUFFICES ASSUME t \notin B.marked, ~ (t = x /\ r \in T \ R)
               PROVE  RuleThere(B, t, r)
    OBVIOUS
  <2>1. t \in A.trans /\ t \notin A.marked
    BY <1>1 DEF PostStepOK
  <2>2. CASE t = x /\ r \in R
    BY <2>2
  <2>3. CASE ~ (t = x /\ r \in R)
    <3>1. RuleThere(A, t, r)
      BY <1>5, <2>1, <2>3 DEF RuleOwes, job
    <3>2. ASSUME IsPush(r) PROVE Leq(One, W(B, Entry(r)))
      <4>1. Leq(One, W(A, Entry(r))) /\ Leq(W(A, Entry(r)), W(B, Entry(r)))
        BY <1>1, <1>2, <3>1, <3>2 DEF RuleThere, Evolves
      <4> QED  BY <1>1, <4>1, LeqTrans, WeightTyped, WeightClosed
    <3> QED  BY <1>1, <3>1, <3>2 DEF RuleThere
  <2> QED  BY <2>2, <2>3
<1>9. Leq(Extend(W(A, t), w), Combine(W(A, k), Extend(pa, w)))
  <2>1. CASE t \in A.trans
    BY <1>5, <2>1 DEF RuleOwes, k, w, pa
  <2>2. CASE t \notin A.trans
    <3>1. Extend(W(A, t), w) = Zero
      BY <1>1, <2>2, ExtendLaws DEF W
    <3>2. Combine(W(A, k), Extend(pa, w)) \in Weight
      BY <1>1, <1>3, <1>6, WeightClosed
    <3> QED  BY <3>1, <3>2, LeqBasics
  <2> QED  BY <2>1, <2>2
<1>10. Leq(Extend(pa, w), Combine(W(B, k), Extend(pb, w)))
  <2>1. /\ Extend(pa, w) \in Weight /\ Extend(pb, w) \in Weight
        /\ Extend(D(A, t), w) \in Weight /\ Extend(d0, w) \in Weight
        /\ Combine(W(B, k), Extend(pb, w)) \in Weight
    BY <1>1, <1>3, <1>6, WeightClosed
  <2>2. Leq(Extend(pb, w), Combine(W(B, k), Extend(pb, w)))
        /\ Leq(W(B, k), Combine(W(B, k), Extend(pb, w)))
    BY <1>3, <2>1, CombineUpper
  <2>3. CASE Leq(pa, pb)
    <3>1. Leq(Extend(pa, w), Extend(pb, w))
      BY <1>1, <1>6, <2>3, ExtendMono
    <3> QED  BY <2>1, <2>2, <3>1, LeqTrans
  <2>4. CASE t = x /\ r \in R /\ pa = Combine(D(A, t), d0) /\ Leq(D(A, t), pb)
    <3>1. Extend(pa, w) = Combine(Extend(D(A, t), w), Extend(d0, w))
      BY <1>1, <1>3, <2>4, Distributes
    <3>2. Leq(Extend(d0, w), W(B, k))
      BY <2>4 DEF k, w
    <3>3. Leq(Extend(d0, w), Combine(W(B, k), Extend(pb, w)))
      BY <1>3, <2>1, <2>2, <3>2, LeqTrans
    <3>4. Leq(Extend(D(A, t), w), Extend(pb, w))
      BY <1>1, <1>3, <1>6, <2>4, ExtendMono
    <3>5. Leq(Extend(D(A, t), w), Combine(W(B, k), Extend(pb, w)))
      BY <2>1, <2>2, <3>4, LeqTrans
    <3> QED  BY <2>1, <3>1, <3>3, <3>5, CombineLeast
  <2> QED  BY <1>6, <2>3, <2>4
<1>11. Leq(Extend(W(B, t), w), Combine(W(B, k), Extend(pb, w)))
  <2> DEFINE wa == W(A, t)
             wb == W(B, t)
             db == D(B, t)
             ta == W(A, k)
             tb == W(B, k)
  <2>1. /\ wa \in Weight /\ wb \in Weight /\ db \in Weight /\ w \in Weight
        /\ ta \in Weight /\ tb \in Weight /\ pa \in Weight /\ pb \in Weight
    BY <1>1, <1>3, <1>6
  <2>2. /\ Leq(wb, Combine(wa, db))
        /\ Leq(Extend(wa, w), Combine(ta, Extend(pa, w)))
        /\ Leq(ta, tb) /\ Leq(db, pb)
        /\ Leq(Extend(pa, w), Combine(tb, Extend(pb, w)))
    BY <1>4, <1>6, <1>9, <1>10
  <2> HIDE DEF wa, wb, db, ta, tb
  <2>3. Leq(Extend(wb, w), Combine(tb, Extend(pb, w)))
    BY ONLY <2>1, <2>2, PayRight
  <2> QED  BY <2>3 DEF wb, tb
<1>12. ASSUME IsPush(r) PROVE Leq(W(B, t), Combine(AtCall(d, m), pb))
  <2> DEFINE wa == W(A, t)
             wb == W(B, t)
             db == D(B, t)
             ta == AtCall(c, m)
             tb == AtCall(d, m)
  <2>1. /\ wa \in Weight /\ wb \in Weight /\ db \in Weight
        /\ ta \in Weight /\ tb \in Weight /\ pa \in Weight /\ pb \in Weight
    BY <1>3, <1>6, <1>7
  <2>2. Leq(wa, Combine(ta, pa))
    <3>1. CASE t \in A.trans
      BY <1>5, <1>12, <3>1 DEF RuleOwes, m, pa
    <3>2. CASE t \notin A.trans
      <4>1. wa = Zero
        BY <3>2 DEF W
      <4>2. Combine(ta, pa) \in Weight
        BY <2>1, WeightClosed
      <4> QED  BY <4>1, <4>2, LeqBasics
    <3> QED  BY <3>1, <3>2
  <2>3. Combine(tb, pb) \in Weight /\ Leq(tb, Combine(tb, pb)) /\ Leq(pb, Combine(tb, pb))
    BY <2>1, WeightClosed, CombineUpper
  <2>4. Leq(pa, Combine(tb, pb))
    <3>1. CASE Leq(pa, pb)
      BY <2>1, <2>3, <3>1, LeqTrans
    <3>2. CASE t = x /\ r \in R /\ pa = Combine(D(A, t), d0) /\ Leq(D(A, t), pb)
      <4>1. Leq(d0, tb)
        BY <1>12, <3>2 DEF m
      <4>2. Leq(d0, Combine(tb, pb)) /\ Leq(D(A, t), Combine(tb, pb))
        BY <1>3, <2>1, <2>3, <3>2, <4>1, LeqTrans
      <4> QED  BY <1>3, <2>3, <3>2, <4>2, CombineLeast
    <3> QED  BY <1>6, <3>1, <3>2
  <2>5. Leq(wb, Combine(wa, db)) /\ Leq(ta, tb) /\ Leq(db, pb)
    BY <1>4, <1>6, <1>7
  <2> HIDE DEF wa, wb, db, ta, tb
  <2>6. Leq(wb, Combine(tb, pb))
    BY ONLY <2>1, <2>2, <2>4, <2>5, PaySum
  <2> QED  BY <2>6 DEF wb, tb
<1>13. /\ t \in B.marked \/ (t = jobB.cur /\ r \in jobB.todo) \/ RuleThere(B, t, r)
       /\ Leq(Extend(W(B, t), r.weight),
              Combine(W(B, RuleTarget(t, r)), Extend(Pending(B, jobB, t, r), r.weight)))
  BY <1>8, <1>11 DEF jobB, k, w, pb
<1>14. IsPush(r) => Leq(W(B, t), Combine(AtCall(d, Mid(t, r)), Pending(B, jobB, t, r)))
  BY <1>12 DEF m, pb
<1> QED  BY <1>13, <1>14 DEF RuleOwes

(* The closure grows with what it returns from. *)
LEMMA ThroughMono ==
    ASSUME NEW A, NEW c, IsAutomaton(A), CallOf(A.trans, c), NEW u \in A.trans,
           u \in DOMAIN c => c[u].merge \in Merge,
           NEW v \in Weight, NEW w \in Weight, Leq(v, w)
    PROVE  Leq(Through(A, c, u, v), Through(A, c, u, w))
<1>1. Combine(w, v) = w
  BY DEF Leq
<1>2. Through(A, c, u, Combine(w, v)) = Combine(Through(A, c, u, w), Through(A, c, u, v))
  BY ThroughSums
<1> QED  BY <1>1, <1>2 DEF Leq

(***************************************************************************)
(* Such a step pays what an epsilon transition e owes for a transition u   *)
(* whose closure the step did not change.                                  *)
(***************************************************************************)
LEMMA PostEpsKept ==
    ASSUME AllFromControl, query = "post",
           NEW A, NEW c, NEW B, NEW d, PostFaInv(A, c), PostStepOK(A, c, B, d),
           NEW e \in B.trans, e.stk = EPS,
           NEW u \in A.trans, u.from = e.to,
           ~ Hides(u) => \A w \in Weight : Through(B, d, u, w) = Through(A, c, u, w),
           e \in A.trans => EpsOwes(A, c, e, u)
    PROVE  EpsOwes(B, d, e, u)
<1> DEFINE b == Bypass(e, u)
           f(w) == Through(A, c, u, w)
<1>1. /\ IsAutomaton(A) /\ IsAutomaton(B) /\ A.trans \subseteq B.trans /\ Evolves(A, B)
      /\ CallOf(A.trans, c) /\ ShapeOf(A, c) /\ CallOf(B.trans, d) /\ ShapeOf(B, d)
  BY DEF PostFaInv, PostStepOK, Evolves
<1>2. e \in Key /\ u \in Key /\ e.from \in P /\ (u \in DOMAIN c => c[u].merge \in Merge)
  BY <1>1, PostKeys
<1>3. b \in Key
  BY <1>2 DEF Bypass, Key
<1>4. /\ W(A, e) \in Weight /\ W(B, e) \in Weight /\ D(A, e) \in Weight /\ D(B, e) \in Weight
      /\ W(A, b) \in Weight /\ W(B, b) \in Weight
  BY <1>1, WeightTyped
<1>5. /\ Leq(W(A, b), W(B, b))
      /\ Leq(W(B, e), Combine(W(A, e), D(B, e)))
      /\ Leq(D(A, e), D(B, e))
  BY <1>1, <1>2, <1>3 DEF Evolves
<1>6. e \in B.marked \/ b \in B.trans
  BY <1>1, <1>2 DEF EpsOwes, PostStepOK
<1>7. /\ f(Zero) = Zero
      /\ \A w \in Weight : f(w) \in Weight
      /\ \A v, w \in Weight : f(Combine(v, w)) = Combine(f(v), f(w))
  BY <1>1, <1>2, ThroughSums
<1>8. \A v, w \in Weight : Leq(v, w) => Leq(f(v), f(w))
  BY <1>1, <1>2, ThroughMono
<1> HIDE DEF b, f
<1>9. ASSUME ~ Hides(u)
      PROVE  Leq(f(W(B, e)), Combine(W(B, b), f(D(B, e))))
  <2> DEFINE wa == f(W(A, e))
             wb == f(W(B, e))
             db == f(D(B, e))
             pa == f(D(A, e))
             ta == W(A, b)
             tb == W(B, b)
  <2>1. /\ wa \in Weight /\ wb \in Weight /\ db \in Weight /\ pa \in Weight
        /\ ta \in Weight /\ tb \in Weight
    BY <1>4, <1>7
  <2>2. Leq(wb, Combine(wa, db))
    <3>1. Combine(W(A, e), D(B, e)) \in Weight
      BY <1>4, WeightClosed
    <3>2. f(Combine(W(A, e), D(B, e))) = Combine(wa, db)
      BY <1>4, <1>7
    <3> QED  BY <1>4, <1>5, <1>8, <3>1, <3>2
  <2>3. Leq(wa, Combine(ta, pa))
    <3>1. CASE e \in A.trans
      BY <1>9, <3>1 DEF EpsOwes, f, b
    <3>2. CASE e \notin A.trans
      <4>1. W(A, e) = Zero
        BY <3>2 DEF W
      <4>2. wa = Zero
        BY <1>7, <4>1
      <4>3. Combine(ta, pa) \in Weight
        BY <2>1, WeightClosed
      <4> QED  BY <4>2, <4>3, LeqBasics
    <3> QED  BY <3>1, <3>2
  <2>4. Leq(pa, Combine(tb, db))
    <3>1. Leq(pa, db)
      BY <1>4, <1>5, <1>8
    <3>2. Leq(db, Combine(tb, db)) /\ Combine(tb, db) \in Weight
      BY <2>1, CombineUpper, WeightClosed
    <3> QED  BY <2>1, <3>1, <3>2, LeqTrans
  <2>5. Leq(ta, tb) /\ Leq(db, db)
    BY <1>5, <2>1, LeqBasics
  <2> HIDE DEF wa, wb, db, pa, ta, tb
  <2>6. Leq(wb, Combine(tb, db))
    BY ONLY <2>1, <2>2, <2>3, <2>4, <2>5, PaySum
  <2> QED  BY <2>6 DEF wb, tb, db
<1>10. ASSUME ~ Hides(u)
       PROVE  Leq(Through(B, d, u, W(B, e)), Combine(W(B, b), Through(B, d, u, D(B, e))))
  BY <1>4, <1>9, <1>10 DEF f
<1> QED  BY <1>6, <1>10 DEF EpsOwes, b

(* The closures of a transition whose weight and call stay do not change. *)
LEMMA ThroughStays ==
    ASSUME NEW A, NEW c, NEW B, NEW d, NEW u \in A.trans, u \in B.trans, W(B, u) = W(A, u),
           u \in DOMAIN d <=> u \in DOMAIN c, u \in DOMAIN c => d[u] = c[u]
    PROVE  \A w : Through(B, d, u, w) = Through(A, c, u, w)
<1>1. A.weight[u] = B.weight[u]
  BY DEF W
<1> QED  BY <1>1 DEF Through, poststar_eps_closure

(***************************************************************************)
(* When only what leaves control states changes, every epsilon debt is     *)
(* paid, but for that of an epsilon transition taken off the worklist.     *)
(***************************************************************************)
LEMMA PostEpsPaidKept ==
    ASSUME AllFromControl, query = "post",
           NEW A, NEW c, NEW B, PostFaInv(A, c), PostStepOK(A, c, B, c),
           \A u : u.from \notin P => SameAt(A, B, u),
           NEW e \in B.trans, e.stk = EPS, NEW u \in Leaving(B, e.to),
           e \in A.trans => \A x \in Leaving(A, e.to) : EpsOwes(A, c, e, x)
    PROVE  EpsOwes(B, c, e, u)
<1>1. u \in B.trans /\ u.from = e.to
  BY DEF Leaving
<1>2. IsAutomaton(B) /\ CallOf(B.trans, c) /\ ShapeOf(B, c)
  BY DEF PostStepOK
<1>3. e.to \notin P
  BY <1>2, PostKeys
<1>4. u \in A.trans /\ W(B, u) = W(A, u)
  BY <1>1, <1>3 DEF SameAt
<1>5. \A w : Through(B, c, u, w) = Through(A, c, u, w)
  BY <1>1, <1>4, ThroughStays
<1>6. e \in A.trans => EpsOwes(A, c, e, u)
  BY <1>1, <1>4 DEF Leaving
<1> QED  BY <1>1, <1>4, <1>5, <1>6, PostEpsKept

(* An update of transitions that leave control states is such a step. *)
LEMMA PostUpdateOK ==
    ASSUME NEW A, NEW c, PostFaInv(A, c), NEW K \in SUBSET Key, NEW ins \in [K -> Weight],
           \A k \in K : k.from \in P,
           NEW B, B = Update(A, ins), CallOf(B.trans, c), ShapeOf(B, c)
    PROVE  /\ PostStepOK(A, c, B, c)
           /\ \A u : u.from \notin P => SameAt(A, B, u)
           /\ \A k \in K : k \in B.trans /\ Leq(ins[k], W(B, k))
<1>1. IsAutomaton(A) /\ CallOf(A.trans, c)
  BY DEF PostFaInv
<1>2. /\ IsAutomaton(B)
      /\ B.trans = A.trans \cup K
      /\ \A k : k \in B.marked <=> k \in A.marked \/ (k \in K /\ Modified(A, k, ins[k]))
      /\ \A k \in K : /\ W(B, k) = WeightAfter(A, k, ins[k])
                      /\ D(B, k) = DeltaAfter(A, k, ins[k])
      /\ \A k : k \notin K => SameAt(A, B, k)
  <2>1. IsAutomaton(A) /\ K \in SUBSET Key /\ ins \in [K -> Weight] /\ B = Update(A, ins)
    BY <1>1
  <2> QED  BY ONLY <2>1, UpdateFacts
<1>3. Evolves(A, B) /\ Noted(A, B) /\ \A k \in K : Leq(ins[k], W(B, k))
  BY <1>1, UpdateEvolves, UpdateNoted
<1>4. ASSUME NEW u, u.from \notin P PROVE SameAt(A, B, u)
  <2>1. u \notin K
    BY <1>4
  <2>2. \A k : k \notin K => SameAt(A, B, k)
    BY <1>2
  <2> QED  BY <2>1, <2>2
<1>5. \A k \in DOMAIN c : /\ k \in DOMAIN c
                          /\ c[k].merge = c[k].merge /\ Leq(c[k].at, c[k].at)
  BY <1>1, LeqBasics DEF CallOf
<1>6. ASSUME NEW k \in B.trans
      PROVE  /\ OfThisQuery(k.from) => k \notin B.marked /\ D(B, k) = W(B, k)
             /\ CallKept(B, c, k)
  <2>1. CASE OfThisQuery(k.from)
    <3>1. k.from \notin P
      BY <2>1, WfaAssumption DEF OfThisQuery
    <3>2. SameAt(A, B, k) /\ k \in A.trans
      BY <1>4, <3>1 DEF SameAt
    <3>3. DeltaKept(A, k) /\ CallKept(A, c, k)
      BY <3>2 DEF PostFaInv
    <3>4. CallKept(B, c, k)
      BY <3>2, <3>3 DEF CallKept, MadeBy, SameAt
    <3> QED  BY <2>1, <3>2, <3>3, <3>4 DEF DeltaKept, SameAt
  <2>2. CASE ~ OfThisQuery(k.from)
    BY <2>2 DEF CallKept
  <2> QED  BY <2>1, <2>2
<1>7. \A k \in B.trans :
          /\ k.from \in P => \/ k \in B.marked
                             \/ k \in A.trans /\ k \notin A.marked /\ D(B, k) = D(A, k)
          /\ k.from \notin P /\ ~ OfThisQuery(k.from) => SameAt(A, B, k)
  BY <1>3, <1>4 DEF Noted
<1>8. PostStepOK(A, c, B, c)
  BY <1>2, <1>3, <1>5, <1>6, <1>7 DEF PostStepOK
<1> QED  BY <1>2, <1>3, <1>4, <1>8

(***************************************************************************)
(* Taking a transition off the worklist.  Nothing is owed less: what was   *)
(* its delta is now pending, for every rule or for what leaves the target  *)
(* of an epsilon transition.                                               *)
(***************************************************************************)
LEMMA PostTakeKept ==
    ASSUME NEW A, NEW c, PostFaInv(A, c), NEW t \in A.marked, NEW B, B = Take(A, t)
    PROVE  /\ PostFaInv(B, c) /\ ~ OfThisQuery(t.from)
           /\ \A e, u : e # t /\ EpsOwes(A, c, e, u) => EpsOwes(B, c, e, u)
<1>1. IsAutomaton(A) /\ t \in A.trans /\ ShapeOf(A, c) /\ CallOf(A.trans, c) /\ Holds(A)
  BY DEF PostFaInv, IsAutomaton
<1>2. /\ IsAutomaton(B)
      /\ B.trans = A.trans /\ B.marked = A.marked \ {t}
      /\ B.weight = A.weight
      /\ D(B, t) = Zero
      /\ \A k : W(B, k) = W(A, k)
      /\ \A k : k # t => D(B, k) = D(A, k)
  BY <1>1, TakeFacts
<1>3. Holds(B) /\ ShapeOf(B, c) /\ CallOf(B.trans, c)
  BY <1>1, <1>2 DEF Holds, ShapeOf
<1>4. ~ OfThisQuery(t.from)
  BY <1>1 DEF PostFaInv, DeltaKept
<1>5. ASSUME NEW k \in B.trans PROVE DeltaKept(B, k) /\ CallKept(B, c, k)
  <2>1. k \in A.trans /\ DeltaKept(A, k) /\ CallKept(A, c, k)
    BY <1>2 DEF PostFaInv
  <2>2. CallKept(B, c, k)
    BY <1>2, <2>1 DEF CallKept, MadeBy
  <2>3. CASE k = t
    BY <1>2, <1>4, <2>2, <2>3 DEF DeltaKept
  <2>4. CASE k # t
    BY <1>2, <2>1, <2>2, <2>4 DEF DeltaKept
  <2> QED  BY <2>3, <2>4
<1>6. PostFaInv(B, c)
  BY <1>2, <1>3, <1>5 DEF PostFaInv
<1>7. \A u, w : Through(B, c, u, w) = Through(A, c, u, w)
  BY <1>2 DEF Through, poststar_eps_closure
<1>8. \A e, u : e # t /\ EpsOwes(A, c, e, u) => EpsOwes(B, c, e, u)
  BY <1>2, <1>7 DEF EpsOwes
<1> QED  BY <1>4, <1>6, <1>8

(* The rules are still paid when a transition becomes the one at work. *)
LEMMA PostTakeRules ==
    ASSUME NEW A, NEW c, IsAutomaton(A), NEW t \in A.marked, NEW B, B = Take(A, t),
           NEW job, job.todo = {}, RulesPaid(A, c, job), NEW C
    PROVE  RulesPaid(B, c, [cur |-> t, dnew |-> D(A, t),
                            todo |-> ForwardRules(rules, t.from, t.stk), calls |-> C])
<1> DEFINE T == ForwardRules(rules, t.from, t.stk)
           jobB == [cur |-> t, dnew |-> D(A, t), todo |-> T, calls |-> C]
<1>1. t \in A.trans /\ D(A, t) \in Weight
  BY WeightTyped DEF IsAutomaton
<1>2. /\ B.trans = A.trans /\ B.marked = A.marked \ {t}
      /\ D(B, t) = Zero
      /\ \A k : W(B, k) = W(A, k)
      /\ \A k : k # t => D(B, k) = D(A, k)
  BY <1>1, TakeFacts
<1> SUFFICES ASSUME NEW x \in B.trans, NEW r \in ForwardRules(rules, x.from, x.stk)
             PROVE  RuleOwes(B, c, jobB, x, r)
  BY DEF RulesPaid
<1>3. RuleOwes(A, c, job, x, r) /\ Pending(A, job, x, r) = D(A, x)
  BY <1>2 DEF RulesPaid, Pending
<1>4. Pending(B, jobB, x, r) = D(A, x)
  <2>1. CASE x = t
    <3>1. Pending(B, jobB, x, r) = Combine(Zero, D(A, t))
      BY <1>1, <1>2, <2>1 DEF Pending
    <3>2. Combine(Zero, D(A, t)) = D(A, t)
      BY <1>1, CombineLaws, WeightClosed
    <3> QED  BY <2>1, <3>1, <3>2
  <2>2. CASE x # t
    BY <1>2, <2>2 DEF Pending
  <2> QED  BY <2>1, <2>2
<1>5. \/ x \in B.marked
      \/ x = jobB.cur /\ r \in jobB.todo
      \/ RuleThere(B, x, r)
  <2>1. x \in A.marked \/ RuleThere(A, x, r)
    BY <1>3 DEF RuleOwes
  <2>2. RuleThere(A, x, r) => RuleThere(B, x, r)
    BY <1>2 DEF RuleThere
  <2> QED  BY <1>2, <2>1, <2>2
<1> QED  BY <1>2, <1>3, <1>4, <1>5 DEF RuleOwes

(* Which transition was at work does not matter once its rules are done. *)
LEMMA PostIdleJob ==
    ASSUME NEW A, NEW c, NEW i, NEW j, i.todo = {}, j.todo = {}, RulesPaid(A, c, i)
    PROVE  RulesPaid(A, c, j)
BY DEF RulesPaid, RuleOwes, Pending

(* A step keeps the invariant when it keeps what concerns fa and its ETrans. *)
LEMMA PostFrame ==
    ASSUME UNCHANGED <<database, input, gen, query>>,
           NEW A, NEW c, NEW j, fa' = A, call' = c, Job' = j,
           PostFaInv(A, c), RulesPaid(A, c, j), EpsPaid(A, c)
    PROVE  PostInv'
<1>1. /\ input' = input /\ gen' = gen /\ query' = query /\ rules' = rules
  BY DEF database
<1>2. PostFaInv(fa, call)'
  <2>1. \A k : ShapedOf(k, call)' <=> ShapedOf(k, c)
    BY <1>1 DEF ShapedOf
  <2>2. ShapeOf(fa, call)'
    BY <2>1 DEF PostFaInv, ShapeOf, EpsKeptOut
  <2>3. Holds(fa)'
    BY <1>1 DEF PostFaInv, Holds
  <2>4. \A k : OfThisQuery(k.from)' <=> OfThisQuery(k.from)
    BY <1>1 DEF OfThisQuery
  <2>5. ASSUME NEW k \in A.trans PROVE DeltaKept(fa, k)' /\ CallKept(fa, call, k)'
    <3>1. DeltaKept(A, k) /\ CallKept(A, c, k)
      BY DEF PostFaInv
    <3>2. DeltaKept(fa, k)'
      BY <2>4, <3>1 DEF DeltaKept
    <3>3. CallKept(fa, call, k)'
      BY <1>1, <2>4, <3>1 DEF CallKept, MadeBy, LeadsTo
    <3> QED  BY <3>2, <3>3
  <2> QED  BY <2>2, <2>3, <2>5 DEF PostFaInv
<1>3. RulesPaid(fa, call, Job)'
  <2>1. \A t, r : /\ RuleTarget(t, r)' = RuleTarget(t, r) /\ Entry(r)' = Entry(r)
                  /\ Mid(t, r)' = Mid(t, r)
    BY <1>1 DEF RuleTarget, Mid, Entry
  <2>2. \A t, r : /\ Pending(fa, Job, t, r)' = Pending(A, j, t, r)
                  /\ RuleThere(fa, t, r)' <=> RuleThere(A, t, r)
    BY <2>1 DEF Pending, RuleThere
  <2>3. \A t, r : RuleOwes(fa, call, Job, t, r)' <=> RuleOwes(A, c, j, t, r)
    BY <2>1, <2>2 DEF RuleOwes
  <2> QED  BY <1>1, <2>3 DEF RulesPaid
<1>4. EpsPaid(fa, call)'
  <2>1. \A u : Hides(u)' <=> Hides(u)
    BY <1>1 DEF Hides, LeadsTo, Hiding
  <2>2. \A e, u : EpsOwes(fa, call, e, u)' <=> EpsOwes(A, c, e, u)
    BY <2>1 DEF EpsOwes
  <2> QED  BY <2>2 DEF EpsPaid
<1> QED  BY <1>2, <1>3, <1>4 DEF PostInv

(* What the two parts of the invariant say while poststar runs. *)
LEMMA WhilePost ==
    ASSUME ShapeInv, PostInv, AllFromControl, query = "post", pc = "saturate"
    PROVE  PostFaInv(fa, call) /\ RulesPaid(fa, call, Job) /\ EpsPaid(fa, call)
BY DEF PostInv

(* The shape of the new automaton, in the terms of the step. *)
LEMMA NewShape ==
    ASSUME ShapeInv', pc' = "saturate", UNCHANGED <<input, gen, query>>
    PROVE  IsAutomaton(fa') /\ CallOf(fa'.trans, call') /\ ShapeOf(fa', call')
<1>1. TypeOK' /\ ShapeOf(fa, call)'
  BY DEF ShapeInv
<1>2. IsAutomaton(fa') /\ CallOf(fa'.trans, call')
  BY <1>1 DEF TypeOK
<1>3. \A k : ShapedOf(k, call)' <=> ShapedOf(k, call')
  BY DEF ShapedOf
<1>4. ShapeOf(fa', call')
  BY <1>1, <1>3 DEF ShapeOf, EpsKeptOut
<1> QED  BY <1>2, <1>4

(* post() takes a transition off the worklist. *)
LEMMA PopPost ==
    ASSUME ShapeInv, PostInv, AllFromControl, query = "post", PopTransition
    PROVE  PostInv'
<1>1. PICK t \in fa.marked :
          /\ t \in fa.trans /\ t \in Key /\ fa.delta[t] = D(fa, t) /\ D(fa, t) \in Weight
          /\ query = "post" => t.stk # EPS
          /\ cur' = t /\ dnew' = D(fa, t) /\ fa' = Take(fa, t)
          /\ IsAutomaton(fa') /\ fa'.trans = fa.trans
          /\ todo' = IF query = "post" THEN ForwardRules(rules, t.from, t.stk)
                     ELSE BackwardRules(rules, t.from, t.stk)
          /\ calls' = IF query = "pre" THEN CallRules(rules, t.stk) ELSE {}
          /\ JobOK(fa'.trans, [cur |-> cur', dnew |-> dnew', todo |-> todo', calls |-> calls'])
  BY PopFacts
<1>2. /\ pc = "saturate" /\ todo = {} /\ UNCHANGED <<database, input, call, gen, query>>
  BY DEF PopTransition, Saturating
<1>3. PostFaInv(fa, call) /\ RulesPaid(fa, call, Job) /\ EpsPaid(fa, call) /\ IsAutomaton(fa)
  BY <1>2, WhilePost, WhileSaturating
<1> DEFINE A == Take(fa, t)
           j == [cur |-> t, dnew |-> D(fa, t),
                 todo |-> ForwardRules(rules, t.from, t.stk), calls |-> {}]
<1>4. fa' = A /\ call' = call /\ Job' = j /\ t.stk # EPS
  BY <1>1, <1>2 DEF Job
<1>5. A.trans = fa.trans
  BY <1>1
<1>6. PostFaInv(A, call) /\ \A e, u : e # t /\ EpsOwes(fa, call, e, u) => EpsOwes(A, call, e, u)
  <2>1. t \in fa.marked /\ A = Take(fa, t) /\ PostFaInv(fa, call)
    BY <1>3
  <2> HIDE DEF A
  <2> QED  BY ONLY <2>1, PostTakeKept
<1>7. RulesPaid(A, call, j)
  <2>1. /\ t \in fa.marked /\ A = Take(fa, t) /\ IsAutomaton(fa) /\ RulesPaid(fa, call, Job)
        /\ Job.todo = {}
    BY <1>2, <1>3 DEF Job
  <2> HIDE DEF A
  <2> QED  BY ONLY <2>1, PostTakeRules
<1>8. EpsPaid(A, call)
  BY <1>3, <1>4, <1>5, <1>6 DEF EpsPaid, Leaving
<1> HIDE DEF A, j
<1> QED  BY <1>2, <1>4, <1>6, <1>7, <1>8, PostFrame

(* The query returns; what is paid stays paid. *)
LEMMA FinishPost ==
    ASSUME ShapeInv, PostInv, AllFromControl, query = "post", Finish
    PROVE  PostInv'
<1>1. /\ pc = "saturate" /\ todo = {} /\ todo' = {}
      /\ UNCHANGED <<database, input, fa, call, gen, query>>
  BY DEF Finish, Saturating
<1>2. PostFaInv(fa, call) /\ RulesPaid(fa, call, Job) /\ EpsPaid(fa, call)
  BY <1>1, WhilePost
<1> DEFINE j == Job'
<1>3. Job.todo = {} /\ j.todo = {}
  BY <1>1 DEF Job
<1> HIDE DEF j
<1>4. RulesPaid(fa, call, j)
  BY <1>2, <1>3, PostIdleJob
<1>5. fa' = fa /\ call' = call /\ Job' = j
  BY <1>1 DEF j
<1> QED  BY <1>1, <1>2, <1>4, <1>5, PostFrame

(* A rule that does not push is applied to the transition at work. *)
LEMMA PostRulePost ==
    ASSUME ShapeInv, ShapeInv', PostInv, AllFromControl, query = "post", PostRule
    PROVE  PostInv'
<1>1. PICK r \in todo :
              LET k == Callee(r, cur.to)
                  w == Extend(dnew, r.weight)
              IN  /\ ~ IsPush(r) /\ r \in rules
                  /\ todo \subseteq ForwardRules(rules, cur.from, cur.stk)
                  /\ cur \in fa.trans /\ cur \in Key /\ cur.to \notin P
                  /\ k = RuleTarget(cur, r) /\ k \in Key /\ k.from \in P /\ k.to \notin P
                  /\ w \in Weight
                  /\ fa' = Update(fa, At(k, w))
                  /\ todo' = todo \ {r}
  BY PostRuleFacts
<1> DEFINE k == Callee(r, cur.to)
           w == Extend(dnew, r.weight)
           ins == At(k, w)
           B == fa'
           j == [cur |-> cur, dnew |-> dnew, todo |-> todo \ {r}, calls |-> calls]
<1>2. /\ pc = "saturate" /\ pc' = "saturate" /\ UNCHANGED <<database, input, call, gen, query>>
      /\ Job' = j /\ Job = [cur |-> cur, dnew |-> dnew, todo |-> todo, calls |-> calls]
  BY <1>1 DEF PostRule, Job
<1>3. /\ PostFaInv(fa, call) /\ RulesPaid(fa, call, Job) /\ EpsPaid(fa, call) /\ IsAutomaton(fa)
      /\ TypeOK /\ gen \in 1..MaxGeneration /\ dnew \in Weight
      /\ InputOK([trans |-> input.trans, weight |-> input.weight, gen |-> input.gen])
  BY <1>2, WhilePost, WhileSaturating
<1>4. CallOf(B.trans, call) /\ ShapeOf(B, call)
  BY <1>2, NewShape
<1>5. /\ {k} \in SUBSET Key /\ ins \in [{k} -> Weight] /\ ins[k] = w
      /\ \A x \in {k} : x.from \in P
      /\ B = Update(fa, ins)
  BY <1>1 DEF At
<1>6. k = RuleTarget(cur, r) /\ ~ IsPush(r)
  BY <1>1
<1> HIDE DEF B, k, w, ins
<1>7. /\ PostStepOK(fa, call, B, call)
      /\ \A u : u.from \notin P => SameAt(fa, B, u)
      /\ \A x \in {k} : x \in B.trans /\ Leq(ins[x], W(B, x))
  BY ONLY <1>3, <1>4, <1>5, PostUpdateOK
<1>8. PostFaInv(B, call)
  BY <1>3, <1>7, PostFaInvKept
<1>9. RulesPaid(B, call, j)
  <2>1. \A x \in {r} : /\ RuleThere(B, cur, x)
                       /\ Leq(Extend(dnew, x.weight), W(B, RuleTarget(cur, x)))
                       /\ IsPush(x) => Leq(dnew, AtCall(call, Mid(cur, x)))
    BY <1>5, <1>6, <1>7 DEF RuleThere, w
  <2>2. RulesPaid(fa, call, [cur |-> cur, dnew |-> dnew, todo |-> todo, calls |-> calls])
    BY <1>2, <1>3
  <2> QED  BY <1>3, <1>7, <2>1, <2>2, PostRulesKept
<1>10. EpsPaid(B, call)
  <2> SUFFICES ASSUME NEW e \in B.trans, e.stk = EPS, NEW u \in Leaving(B, e.to)
               PROVE  EpsOwes(B, call, e, u)
    BY DEF EpsPaid
  <2>1. e \in fa.trans => \A x \in Leaving(fa, e.to) : EpsOwes(fa, call, e, x)
    BY <1>3 DEF EpsPaid
  <2> QED  BY <1>3, <1>7, <2>1, PostEpsPaidKept
<1>11. fa' = B /\ call' = call
  BY <1>2 DEF B
<1> HIDE DEF j
<1> QED  BY <1>2, <1>8, <1>9, <1>10, <1>11, PostFrame

(***************************************************************************)
(* poststar_handle_eps_trans for all that leaves the target of t: what t   *)
(* had as delta is now in the weights of the transitions that bypass it.   *)
(***************************************************************************)
LEMMA PostBypassPays ==
    ASSUME AllFromControl, query = "post",
           NEW A, NEW c, PostFaInv(A, c), NEW t \in A.marked, t.stk = EPS,
           NEW C, C = Take(A, t), NEW B, PostStepOK(C, c, B, c),
           NEW u \in A.trans, u.from = t.to, u \in B.trans, W(B, u) = W(C, u),
           EpsOwes(A, c, t, u), Bypass(t, u) \in B.trans,
           Leq(Through(C, c, u, D(A, t)), W(B, Bypass(t, u)))
    PROVE  EpsOwes(B, c, t, u)
<1> DEFINE b == Bypass(t, u)
           f(w) == Through(A, c, u, w)
<1>1. /\ IsAutomaton(A) /\ IsAutomaton(B) /\ Evolves(C, B) /\ t \in A.trans
      /\ CallOf(A.trans, c) /\ ShapeOf(A, c)
  BY DEF PostFaInv, PostStepOK, IsAutomaton
<1>2. t \in Key /\ u \in Key /\ (u \in DOMAIN c => c[u].merge \in Merge)
  BY <1>1, PostKeys
<1>3. b \in Key
  BY <1>2 DEF Bypass, Key
<1>4. /\ \A k : W(C, k) = W(A, k)
      /\ C.trans = A.trans /\ C.weight = A.weight
  BY <1>1, TakeFacts
<1>5. \A w : Through(B, c, u, w) = f(w) /\ Through(C, c, u, w) = f(w)
  <2>1. W(C, u) = W(A, u) /\ u \in C.trans
    BY <1>4
  <2>2. \A w : Through(C, c, u, w) = f(w)
    BY <2>1, ThroughStays
  <2>3. \A w : Through(B, c, u, w) = f(w)
    BY <2>1, ThroughStays
  <2> QED  BY <2>2, <2>3
<1>6. /\ f(Zero) = Zero
      /\ \A w \in Weight : f(w) \in Weight
      /\ \A v, w \in Weight : f(Combine(v, w)) = Combine(f(v), f(w))
  BY <1>1, <1>2, ThroughSums
<1>7. \A v, w \in Weight : Leq(v, w) => Leq(f(v), f(w))
  BY <1>1, <1>2, ThroughMono
<1>8. /\ W(A, t) \in Weight /\ D(A, t) \in Weight /\ W(B, t) \in Weight /\ D(B, t) \in Weight
      /\ W(A, b) \in Weight /\ W(B, b) \in Weight
  BY <1>1, WeightTyped
<1>9. Leq(W(A, b), W(B, b)) /\ Leq(W(B, t), Combine(W(A, t), D(B, t)))
  BY <1>2, <1>3, <1>1, <1>4 DEF Evolves
<1> HIDE DEF b, f
<1>10. ASSUME ~ Hides(u) PROVE Leq(f(W(B, t)), Combine(W(B, b), f(D(B, t))))
  <2> DEFINE wa == f(W(A, t))
             wb == f(W(B, t))
             db == f(D(B, t))
             pa == f(D(A, t))
             ta == W(A, b)
             tb == W(B, b)
  <2>1. /\ wa \in Weight /\ wb \in Weight /\ db \in Weight /\ pa \in Weight
        /\ ta \in Weight /\ tb \in Weight
    BY <1>6, <1>8
  <2>2. Leq(wb, Combine(wa, db))
    <3>1. Combine(W(A, t), D(B, t)) \in Weight
      BY <1>8, WeightClosed
    <3>2. f(Combine(W(A, t), D(B, t))) = Combine(wa, db)
      BY <1>6, <1>8
    <3> QED  BY <1>7, <1>8, <1>9, <3>1, <3>2
  <2>3. Leq(wa, Combine(ta, pa))
    BY <1>10 DEF EpsOwes, f, b
  <2>4. Leq(pa, Combine(tb, db))
    <3>1. Leq(pa, tb)
      BY <1>5 DEF b
    <3>2. Leq(tb, Combine(tb, db)) /\ Combine(tb, db) \in Weight
      BY <2>1, CombineUpper, WeightClosed
    <3> QED  BY <2>1, <3>1, <3>2, LeqTrans
  <2>5. Leq(ta, tb) /\ Leq(db, db)
    BY <1>9, <2>1, LeqBasics
  <2> HIDE DEF wa, wb, db, pa, ta, tb
  <2>6. Leq(wb, Combine(tb, db))
    BY ONLY <2>1, <2>2, <2>3, <2>4, <2>5, PaySum
  <2> QED  BY <2>6 DEF wb, tb, db
<1>11. ~ Hides(u) =>
         Leq(Through(B, c, u, W(B, t)), Combine(W(B, b), Through(B, c, u, D(B, t))))
  BY <1>5, <1>10
<1> QED  BY <1>11 DEF EpsOwes, b

(* post() on an epsilon transition. *)
LEMMA EpsilonPost ==
    ASSUME ShapeInv, ShapeInv', PostInv, AllFromControl, query = "post", PopEpsilon
    PROVE  PostInv'
<1>1. todo = {} /\ calls = {} /\
      \E e \in fa.marked :
                LET A == Take(fa, e)
                    ins == Bypasses(A, call, e, D(fa, e))
                    K == BypassKeys(A, e)
                IN  /\ e \in fa.trans /\ e.stk = EPS /\ e.to \notin P
                    /\ D(fa, e) \in Weight
                    /\ \A u \in Leaving(A, e.to) : u \in DOMAIN call => call[u].merge \in Merge
                    /\ IsAutomaton(A) /\ A.trans = fa.trans
                    /\ K \in SUBSET Key /\ ins \in [K -> Weight]
                    /\ fa' = Update(A, ins)
  BY EpsilonFacts
<1>2. PICK t \in fa.marked :
                LET A == Take(fa, t)
                    ins == Bypasses(A, call, t, D(fa, t))
                    K == BypassKeys(A, t)
                IN  /\ t \in fa.trans /\ t.stk = EPS /\ t.to \notin P
                    /\ D(fa, t) \in Weight
                    /\ \A u \in Leaving(A, t.to) : u \in DOMAIN call => call[u].merge \in Merge
                    /\ IsAutomaton(A) /\ A.trans = fa.trans
                    /\ K \in SUBSET Key /\ ins \in [K -> Weight]
                    /\ fa' = Update(A, ins)
  BY <1>1
<1> DEFINE A == Take(fa, t)
           ins == Bypasses(A, call, t, D(fa, t))
           K == BypassKeys(A, t)
           B == fa'
           j == Job'
<1>3. /\ pc = "saturate" /\ pc' = "saturate" /\ UNCHANGED <<database, input, call, gen, query>>
      /\ Job.todo = {} /\ j.todo = {}
  BY <1>1 DEF PopEpsilon, Saturating, Job, work
<1>4. /\ PostFaInv(fa, call) /\ RulesPaid(fa, call, Job) /\ EpsPaid(fa, call) /\ IsAutomaton(fa)
      /\ TypeOK /\ gen \in 1..MaxGeneration /\ CallOf(fa.trans, call) /\ ShapeOf(fa, call)
      /\ InputOK([trans |-> input.trans, weight |-> input.weight, gen |-> input.gen])
  BY <1>3, WhilePost, WhileSaturating
<1>5. CallOf(B.trans, call) /\ ShapeOf(B, call)
  BY <1>3, NewShape
<1>6. /\ t \in fa.trans /\ t.stk = EPS /\ t.to \notin P /\ t.from \in P
      /\ D(fa, t) \in Weight
      /\ \A u \in Leaving(A, t.to) : u \in DOMAIN call => call[u].merge \in Merge
      /\ IsAutomaton(A) /\ A.trans = fa.trans
      /\ K \in SUBSET Key /\ ins \in [K -> Weight]
      /\ B = Update(A, ins)
  <2>1. t.stk = EPS => t.from \in P
    BY <1>2, <1>4, PostKeys
  <2> QED  BY <1>2, <2>1
<1>7. A = Take(fa, t)
  OBVIOUS
<1>8. /\ \A k \in K : \E u \in Leaving(A, t.to) :
            /\ u \in A.trans /\ u.from = t.to
            /\ k = Bypass(t, u)
            /\ k.from = t.from /\ k.stk = u.stk /\ k.to = u.to
      /\ \A u \in Leaving(A, t.to) :
            /\ Bypass(t, u) \in K
            /\ ins[Bypass(t, u)] = Through(A, call, u, D(fa, t))
  <2> DEFINE d == D(fa, t)
  <2>1. CallOf(A.trans, call) /\ t \in A.trans /\ IsAutomaton(A) /\ d \in Weight
        /\ \A u \in Leaving(A, t.to) : u \in DOMAIN call => call[u].merge \in Merge
    BY <1>4, <1>6
  <2> HIDE DEF A, d
  <2>2. /\ K \in SUBSET Key
        /\ Bypasses(A, call, t, d) \in [K -> Weight]
        /\ \A k \in K : \E u \in Leaving(A, t.to) :
              /\ u \in A.trans /\ u.from = t.to
              /\ k = Bypass(t, u)
              /\ k.from = t.from /\ k.stk = u.stk /\ k.to = u.to
        /\ \A u \in Leaving(A, t.to) :
              /\ Bypass(t, u) \in K
              /\ Bypasses(A, call, t, d)[Bypass(t, u)] = Through(A, call, u, d)
    BY ONLY <2>1, BypassFacts
  <2> QED  BY <2>2 DEF d
<1> HIDE DEF A, ins, K, B
<1>9. PostFaInv(A, call) /\ \A e, u : e # t /\ EpsOwes(fa, call, e, u) => EpsOwes(A, call, e, u)
  BY ONLY <1>4, <1>7, t \in fa.marked, PostTakeKept
<1>10. \A k \in K : k.from \in P
  BY <1>6, <1>8
<1>11. /\ PostStepOK(A, call, B, call)
       /\ \A u : u.from \notin P => SameAt(A, B, u)
       /\ \A k \in K : k \in B.trans /\ Leq(ins[k], W(B, k))
  BY ONLY <1>5, <1>6, <1>9, <1>10, PostUpdateOK
<1>12. PostFaInv(B, call)
  BY <1>4, <1>9, <1>11, PostFaInvKept
<1>13. RulesPaid(B, call, j)
  <2> DEFINE d == D(fa, t)
  <2>1. RulesPaid(A, call, [cur |-> t, dnew |-> d,
                            todo |-> ForwardRules(rules, t.from, t.stk), calls |-> {}])
    <3>1. IsAutomaton(fa) /\ t \in fa.marked /\ A = Take(fa, t) /\ Job.todo = {}
          /\ RulesPaid(fa, call, Job)
      BY <1>3, <1>4, <1>7
    <3> QED  BY ONLY <3>1, PostTakeRules
  <2>2. ForwardRules(rules, t.from, t.stk) = {}
    <3>1. \A r \in rules : r.stk # EPS
      BY <1>4, RuleParts
    <3> QED  BY <1>6, <3>1 DEF ForwardRules
  <2>3. RulesPaid(A, call, [cur |-> t, dnew |-> d, todo |-> {}, calls |-> {}])
    BY <2>1, <2>2
  <2>4. d \in Weight
    BY <1>6
  <2> HIDE DEF d
  <2>5. RulesPaid(B, call, [cur |-> t, dnew |-> d, todo |-> {} \ {}, calls |-> {}])
    BY <1>4, <1>9, <1>11, <2>3, <2>4, PostRulesKept
  <2>6. [cur |-> t, dnew |-> d, todo |-> {} \ {}, calls |-> {}].todo = {}
    OBVIOUS
  <2> HIDE DEF j
  <2> QED  BY <1>3, <2>5, <2>6, PostIdleJob
<1>14. EpsPaid(B, call)
  <2> SUFFICES ASSUME NEW e \in B.trans, e.stk = EPS, NEW u \in Leaving(B, e.to)
               PROVE  EpsOwes(B, call, e, u)
    BY DEF EpsPaid
  <2>1. CASE e # t
    <3>1. e \in A.trans => \A x \in Leaving(A, e.to) : EpsOwes(A, call, e, x)
      BY <1>4, <1>6, <1>9, <2>1 DEF EpsPaid, Leaving
    <3> QED  BY <1>9, <1>11, <3>1, PostEpsPaidKept
  <2>2. CASE e = t
    <3>1. u \in B.trans /\ u.from = t.to
      BY <2>2 DEF Leaving
    <3>2. u \in A.trans /\ W(B, u) = W(A, u)
      BY <1>6, <1>11, <3>1 DEF SameAt
    <3>3. u \in fa.trans /\ u \in Leaving(A, t.to) /\ u \in Leaving(fa, t.to)
      BY <1>6, <3>1, <3>2 DEF Leaving
    <3>4. EpsOwes(fa, call, t, u)
      BY <1>4, <1>6, <3>3 DEF EpsPaid
    <3>5. Bypass(t, u) \in B.trans
          /\ Leq(Through(A, call, u, D(fa, t)), W(B, Bypass(t, u)))
      BY <1>8, <1>11, <3>3
    <3>6. /\ PostFaInv(fa, call) /\ t \in fa.marked /\ t.stk = EPS /\ A = Take(fa, t)
          /\ PostStepOK(A, call, B, call)
      BY <1>4, <1>6, <1>7, <1>11
    <3>7. EpsOwes(B, call, t, u)
      BY ONLY AllFromControl, query = "post", <3>1, <3>2, <3>3, <3>4, <3>5, <3>6, PostBypassPays
    <3> QED  BY <2>2, <3>7
  <2> QED  BY <2>1, <2>2
<1>15. fa' = B /\ call' = call /\ Job' = j
  BY <1>3 DEF B
<1> HIDE DEF j
<1> QED  BY <1>3, <1>12, <1>13, <1>14, <1>15, PostFrame

(***************************************************************************)
(* What the first insertion of a push rule does, of the transition mid out *)
(* of a state of this query: the delta of mid is its weight, so mid is     *)
(* modified exactly when its weight changes.                               *)
(***************************************************************************)
LEMMA MidInserted ==
    ASSUME NEW A, NEW c, PostFaInv(A, c), NEW mid \in Key, OfThisQuery(mid.from),
           NEW w \in Weight, NEW B, B = Insert(A, At(mid, w))
    PROVE  /\ IsAutomaton(B) /\ B.trans = A.trans \cup {mid} /\ Evolves(A, B)
           /\ \A x : x # mid => SameAt(A, B, x)
           /\ mid \notin B.marked
           /\ W(B, mid) = Combine(W(A, mid), w) /\ D(B, mid) = W(B, mid)
           /\ ~ Modified(A, mid, w) => mid \in A.trans /\ W(B, mid) = W(A, mid)
<1> DEFINE ins == At(mid, w)
<1>1. /\ IsAutomaton(A) /\ {mid} \in SUBSET Key /\ ins \in [{mid} -> Weight] /\ ins[mid] = w
      /\ B = Insert(A, ins)
  BY DEF PostFaInv, At
<1> HIDE DEF ins
<1>2. /\ IsAutomaton(B)
      /\ B.trans = A.trans \cup {mid}
      /\ B.marked = A.marked
      /\ \A k \in {mid} : /\ W(B, k) = WeightAfter(A, k, ins[k])
                          /\ D(B, k) = DeltaAfter(A, k, ins[k])
      /\ \A k : k \notin {mid} => SameAt(A, B, k)
  <2> DEFINE K == {mid}
  <2>1. IsAutomaton(A) /\ K \in SUBSET Key /\ ins \in [K -> Weight] /\ B = Insert(A, ins)
    BY <1>1
  <2> HIDE DEF K
  <2> DEFINE X == Insert(A, ins)
  <2>2. /\ IsAutomaton(X)
        /\ X.trans = A.trans \cup K
        /\ X.marked = A.marked
        /\ \A k \in K : /\ W(X, k) = WeightAfter(A, k, ins[k])
                        /\ D(X, k) = DeltaAfter(A, k, ins[k])
        /\ \A k : k \notin K => SameAt(A, X, k)
    BY ONLY <2>1, InsertFacts
  <2>3. X = B
    BY <2>1
  <2> QED  BY <2>2, <2>3 DEF K
<1>3. Evolves(A, B)
  BY <1>1, InsertEvolves
<1>4. W(B, mid) = Combine(W(A, mid), w) /\ D(B, mid) = DeltaAfter(A, mid, w)
  BY <1>1, <1>2 DEF WeightAfter
<1>5. mid \in A.trans => mid \notin A.marked /\ D(A, mid) = W(A, mid)
  BY DEF PostFaInv, DeltaKept
<1>6. mid \notin B.marked
  BY <1>1, <1>2, <1>5 DEF IsAutomaton
<1>7. D(B, mid) = W(B, mid)
  <2>1. CASE mid \in A.trans
    <3>1. /\ D(A, mid) = W(A, mid) /\ W(A, mid) = A.weight[mid] /\ D(A, mid) = A.delta[mid]
          /\ W(A, mid) \in Weight
      BY <1>1, <1>5, <2>1, WeightTyped DEF W, D
    <3>2. DeltaAfter(A, mid, w) = Combine(W(A, mid), Diff(w, W(A, mid)))
      BY <2>1, <3>1 DEF DeltaAfter
    <3> QED  BY <1>4, <3>1, <3>2, DiffContract
  <2>2. CASE mid \notin A.trans
    <3>1. W(A, mid) = Zero /\ DeltaAfter(A, mid, w) = w
      BY <2>2 DEF W, DeltaAfter
    <3>2. Combine(Zero, w) = w
      BY CombineLaws, WeightClosed
    <3> QED  BY <1>4, <3>1, <3>2
  <2> QED  BY <2>1, <2>2
<1>8. ASSUME ~ Modified(A, mid, w) PROVE mid \in A.trans /\ W(B, mid) = W(A, mid)
  <2>1. mid \in A.trans /\ DeltaAfter(A, mid, w) = A.delta[mid]
    BY <1>8 DEF Modified
  <2>2. D(A, mid) = W(A, mid) /\ D(A, mid) = A.delta[mid]
    BY <1>5, <2>1 DEF D
  <2> QED  BY <1>4, <1>7, <2>1, <2>2
<1> QED  BY <1>2, <1>3, <1>4, <1>6, <1>7, <1>8

(***************************************************************************)
(* What the rest of it does: the transition ent into the generated state,  *)
(* and, when mid was modified, its closure, which is of transitions out of *)
(* control states, with the symbol of mid.                                 *)
(***************************************************************************)
LEMMA PushGrown ==
    ASSUME NEW A, IsAutomaton(A), \A e \in A.trans : e.stk = EPS => e.from \in P,
           NEW mid \in Key, mid.from \notin P, mid.stk # EPS,
           NEW ent \in Key, ent.from \in P, ent.stk # EPS, NEW q \in Weight,
           NEW A1, IsAutomaton(A1), A1.trans = A.trans \cup {mid}, Evolves(A, A1),
           \A x : x # mid => SameAt(A, A1, x),
           NEW A2, A2 = Update(A1, At(ent, q)),
           NEW c, CallOf(A2.trans, c), c[mid].merge \in Merge,
           NEW grown \in BOOLEAN,
           NEW B, B = IF grown THEN Update(A2, Closure(A2, c, mid)) ELSE A2
    PROVE  /\ IsAutomaton(B) /\ Evolves(A, B)
           /\ mid \in B.trans /\ SameAt(A1, B, mid)
           /\ \A u : u.from \notin P /\ u # mid => SameAt(A, B, u)
           /\ \A k \in B.trans : k.from \in P =>
                 \/ k \in B.marked
                 \/ k \in A.trans /\ k \notin A.marked /\ D(B, k) = D(A, k)
           /\ ent \in B.trans /\ Leq(q, W(B, ent))
           /\ grown => \A e \in B.trans : e.stk = EPS /\ e.to = mid.from =>
                 /\ Bypass(e, mid) \in B.trans
                 /\ Leq(Through(B, c, mid, W(B, e)), W(B, Bypass(e, mid)))
<1>1. /\ IsAutomaton(A2) /\ A2.trans = A1.trans \cup {ent}
      /\ Evolves(A1, A2) /\ Noted(A1, A2)
      /\ Leq(q, W(A2, ent))
      /\ \A x : x # ent => SameAt(A1, A2, x)
  BY UpdateAt
<1>2. mid # ent /\ mid \in A2.trans /\ ent \in A2.trans
  BY <1>1
<1> DEFINE K == ClosureKeys(A2, mid)
           ins == Closure(A2, c, mid)
           C == Update(A2, ins)
<1>3. /\ K \in SUBSET Key /\ ins \in [K -> Weight]
      /\ \A k \in K : \E e \in EpsInto(A2, mid.from) :
            /\ e \in A2.trans /\ e.stk = EPS /\ e.to = mid.from
            /\ k = Bypass(e, mid)
            /\ k.from = e.from /\ k.stk = mid.stk /\ k.to = mid.to
      /\ \A e \in EpsInto(A2, mid.from) :
            /\ Bypass(e, mid) \in K
            /\ ins[Bypass(e, mid)] = Through(A2, c, mid, W(A2, e))
  <2>1. /\ IsAutomaton(A2) /\ CallOf(A2.trans, c) /\ mid \in A2.trans
        /\ (mid \in DOMAIN c => c[mid].merge \in Merge)
    BY <1>1, <1>2
  <2> QED  BY ONLY <2>1, ClosureFacts
<1> HIDE DEF K, ins
<1>4. \A k \in K : k.from \in P /\ k.stk # EPS
  <2> SUFFICES ASSUME NEW k \in K PROVE k.from \in P /\ k.stk # EPS
    OBVIOUS
  <2>1. PICK e \in A2.trans : e.stk = EPS /\ k.from = e.from /\ k.stk = mid.stk
    BY <1>3
  <2>2. e \in A.trans
    BY <1>1, <2>1
  <2> QED  BY <2>1, <2>2
<1>5. /\ IsAutomaton(C) /\ C.trans = A2.trans \cup K
      /\ Evolves(A2, C) /\ Noted(A2, C)
      /\ \A k \in K : Leq(ins[k], W(C, k))
      /\ \A x : x \notin K => SameAt(A2, C, x)
  <2>1. IsAutomaton(A2) /\ K \in SUBSET Key /\ ins \in [K -> Weight]
    BY <1>1, <1>3
  <2>2. /\ IsAutomaton(C)
        /\ C.trans = A2.trans \cup K
        /\ \A k : k \in C.marked <=> k \in A2.marked \/ (k \in K /\ Modified(A2, k, ins[k]))
        /\ \A k \in K : /\ W(C, k) = WeightAfter(A2, k, ins[k])
                        /\ D(C, k) = DeltaAfter(A2, k, ins[k])
        /\ \A k : k \notin K => SameAt(A2, C, k)
    BY ONLY <2>1, UpdateFacts
  <2>3. Evolves(A2, C) /\ Noted(A2, C) /\ \A k \in K : Leq(ins[k], W(C, k))
    BY ONLY <2>1, UpdateEvolves, UpdateNoted
  <2> QED  BY <2>2, <2>3
<1>6. B = IF grown THEN C ELSE A2
  BY DEF ins
<1> HIDE DEF C
<1>7. /\ IsAutomaton(B) /\ A2.trans \subseteq B.trans
      /\ Evolves(A2, B) /\ Noted(A2, B)
      /\ \A x : x \notin K => SameAt(A2, B, x)
  <2>1. CASE B = A2
    <3>1. \A k \in Key : /\ Leq(W(A2, k), W(A2, k)) /\ Leq(D(A2, k), D(A2, k))
                         /\ Leq(W(A2, k), Combine(W(A2, k), D(A2, k)))
      BY <1>1, WeightTyped, LeqBasics, CombineUpper
    <3> QED  BY <1>1, <2>1, <3>1 DEF Evolves, Noted, SameAt
  <2>2. CASE B = C
    BY <1>5, <2>2
  <2> QED  BY <1>6, <2>1, <2>2
<1>8. Evolves(A, B)
  <2>1. Evolves(A, A2)
    BY <1>1, EvolvesTrans
  <2> QED  BY <1>1, <1>7, <2>1, EvolvesTrans
<1>9. ASSUME NEW u, u.from \notin P PROVE SameAt(A1, B, u)
  <2>1. u \notin K
    BY <1>4, <1>9
  <2>2. SameAt(A1, A2, u)
    BY <1>1, <1>9
  <2>3. SameAt(A2, B, u)
    BY <1>7, <2>1
  <2> QED  BY <2>2, <2>3 DEF SameAt
<1>10. \A u : u.from \notin P /\ u # mid => SameAt(A, B, u)
  BY <1>9 DEF SameAt
<1>11. ASSUME NEW k \in B.trans, k.from \in P, k \notin B.marked
       PROVE  k \in A.trans /\ k \notin A.marked /\ D(B, k) = D(A, k)
  <2>1. k \in A2.trans /\ k \notin A2.marked /\ D(B, k) = D(A2, k)
    BY <1>7, <1>11 DEF Noted
  <2>2. k \in A1.trans /\ k \notin A1.marked /\ D(A2, k) = D(A1, k)
    BY <1>1, <2>1 DEF Noted
  <2>3. SameAt(A, A1, k)
    BY <1>11
  <2> QED  BY <2>1, <2>2, <2>3 DEF SameAt
<1>12. mid \in B.trans /\ ent \in B.trans /\ SameAt(A1, B, mid)
  BY <1>2, <1>7, <1>9
<1>13. Leq(q, W(B, ent))
  <2>1. Leq(W(A2, ent), W(B, ent)) /\ W(A2, ent) \in Weight /\ W(B, ent) \in Weight
    BY <1>1, <1>7, WeightTyped DEF Evolves
  <2> QED  BY <1>1, <2>1, LeqTrans
<1>14. ASSUME grown, NEW e \in B.trans, e.stk = EPS, e.to = mid.from
       PROVE  /\ Bypass(e, mid) \in B.trans
              /\ Leq(Through(B, c, mid, W(B, e)), W(B, Bypass(e, mid)))
  <2>1. e \notin K /\ B = C
    BY <1>4, <1>6, <1>14
  <2>2. SameAt(A2, B, e) /\ e \in EpsInto(A2, mid.from)
    BY <1>7, <1>14, <2>1 DEF SameAt, EpsInto
  <2>3. W(A2, e) = W(B, e) /\ Bypass(e, mid) \in K
        /\ ins[Bypass(e, mid)] = Through(A2, c, mid, W(B, e))
    BY <1>3, <2>2 DEF SameAt
  <2>4. Bypass(e, mid) \in B.trans /\ Leq(ins[Bypass(e, mid)], W(B, Bypass(e, mid)))
    BY <1>5, <2>1, <2>3
  <2>5. W(B, mid) = W(A2, mid)
    <3>1. mid \notin K
      BY <1>4
    <3> QED  BY <1>7, <3>1 DEF SameAt
  <2>6. \A w : Through(B, c, mid, w) = Through(A2, c, mid, w)
    <3>1. A2.weight[mid] = B.weight[mid]
      BY <1>2, <1>12, <2>5 DEF W
    <3> QED  BY <3>1 DEF Through, poststar_eps_closure
  <2> QED  BY <2>3, <2>4, <2>6
<1> QED  BY <1>7, <1>8, <1>10, <1>11, <1>12, <1>13, <1>14

(***************************************************************************)
(* A push rule adds to the weight at the call what it extends for the      *)
(* weight after it, so mid is still made by a rule.                        *)
(***************************************************************************)
LEMMA PushedCalls ==
    ASSUME TypeOK, NEW A, NEW c, PostFaInv(A, c),
           NEW r \in rules, r.merge \in Merge, NEW mid, LeadsTo(r, mid),
           OfThisQuery(mid.from), mid.from \notin P, NEW dn \in Weight,
           NEW d, d = CallAfter(c, mid, r, dn),
           NEW B, W(B, mid) = Combine(W(A, mid), Extend(dn, r.weight)),
           \A u : u.from \notin P /\ u # mid => SameAt(A, B, u)
    PROVE  \A k \in B.trans : CallKept(B, d, k)
<1>1. IsAutomaton(A) /\ CallOf(A.trans, c) /\ r.weight \in Weight
  BY RuleParts DEF PostFaInv
<1>2. /\ DOMAIN d = DOMAIN c \cup {mid}
      /\ \A k \in DOMAIN c : d[k].merge = c[k].merge
      /\ \A k \in DOMAIN c \ {mid} : d[k] = c[k]
      /\ mid \notin DOMAIN c => d[mid].merge = r.merge
      /\ d[mid].at = Combine(AtCall(c, mid), dn)
  <2> DEFINE T == A.trans
             d2 == CallAfter(c, mid, r, dn)
  <2>1. CallOf(T, c)
    BY <1>1
  <2> HIDE DEF T
  <2>2. /\ DOMAIN d2 = DOMAIN c \cup {mid}
        /\ \A k \in DOMAIN c : d2[k].merge = c[k].merge
        /\ \A k \in DOMAIN c \ {mid} : d2[k] = c[k]
        /\ mid \notin DOMAIN c => d2[mid].merge = r.merge
        /\ d2[mid].at = Combine(AtCall(c, mid), dn)
        /\ CallOf(T \cup {mid}, d2)
    BY <2>1, CallAfterFacts
  <2>3. d2 = d
    OBVIOUS
  <2> QED  BY ONLY <2>2, <2>3
<1>3. ASSUME NEW k \in B.trans, k # mid PROVE CallKept(B, d, k)
  <2> SUFFICES ASSUME OfThisQuery(k.from)
               PROVE  k \in DOMAIN d /\ \E s \in rules : MadeBy(s, B, d, k)
    BY DEF CallKept
  <2>1. k.from \notin P
    BY WfaAssumption DEF OfThisQuery
  <2>2. SameAt(A, B, k) /\ k \in A.trans
    BY <1>3, <2>1 DEF SameAt
  <2>3. k \in DOMAIN c /\ \E s \in rules : MadeBy(s, A, c, k)
    BY <2>2 DEF PostFaInv, CallKept
  <2>4. d[k] = c[k] /\ W(A, k) = W(B, k)
    BY <1>2, <1>3, <2>2, <2>3 DEF SameAt
  <2> QED  BY <1>2, <2>3, <2>4 DEF MadeBy
<1>4. \E s \in rules : MadeBy(s, B, d, mid)
  <2>1. CASE mid \in DOMAIN c
    <3>1. mid \in A.trans /\ c[mid].at \in Weight /\ AtCall(c, mid) = c[mid].at
      BY <1>1, <2>1 DEF CallOf, AtCall
    <3>2. PICK s \in rules : MadeBy(s, A, c, mid)
      BY <3>1 DEF PostFaInv, CallKept
    <3>3. LeadsTo(s, mid) /\ d[mid].merge = s.merge
      BY <1>2, <2>1, <3>2 DEF MadeBy
    <3>4. ASSUME \A x \in rules : LeadsTo(x, mid) => x.weight = s.weight
          PROVE  W(B, mid) = Extend(d[mid].at, s.weight)
      <4>1. r.weight = s.weight /\ W(A, mid) = Extend(c[mid].at, s.weight)
        BY <3>2, <3>4 DEF MadeBy
      <4>2. Extend(Combine(c[mid].at, dn), s.weight)
              = Combine(Extend(c[mid].at, s.weight), Extend(dn, s.weight))
        BY <1>1, <3>1, <4>1, Distributes
      <4> QED  BY <1>2, <3>1, <4>1, <4>2
    <3> QED  BY <3>3, <3>4 DEF MadeBy
  <2>2. CASE mid \notin DOMAIN c
    <3>1. mid \notin A.trans
      BY <2>2 DEF PostFaInv, CallKept
    <3>2. W(A, mid) = Zero /\ AtCall(c, mid) = Zero /\ Extend(dn, r.weight) \in Weight
      BY <1>1, <2>2, <3>1, WeightClosed DEF W, AtCall
    <3>3. W(B, mid) = Extend(dn, r.weight) /\ d[mid].at = dn
      BY <1>2, <3>2, CombineLaws, WeightClosed
    <3> QED  BY <1>2, <2>2, <3>3 DEF MadeBy
  <2> QED  BY <2>1, <2>2
<1>5. CallKept(B, d, mid)
  BY <1>2, <1>4 DEF CallKept
<1> QED  BY <1>3, <1>5

(* The order of the weights is antisymmetric. *)
LEMMA LeqAntisymmetric ==
    ASSUME NEW a \in Weight, NEW b \in Weight, Leq(a, b), Leq(b, a)
    PROVE  a = b
<1>1. Combine(a, b) = Combine(b, a)
  BY CombineLaws
<1> QED  BY <1>1 DEF Leq

(***************************************************************************)
(* Where no rule hides it, the weight at a call cannot grow unseen: when   *)
(* the weight after the call stays, so do the closures.                    *)
(***************************************************************************)
LEMMA CallsSeen ==
    ASSUME TypeOK, NEW A, NEW c, NEW B, NEW d, NEW u, OfThisQuery(u.from),
           NEW r \in rules, LeadsTo(r, u), ~ Hides(u),
           CallKept(A, c, u), CallKept(B, d, u), W(A, u) = W(B, u), u \in A.trans,
           CallOf(A.trans, c), CallOf(B.trans, d)
    PROVE  \A w \in Weight : Through(B, d, u, w) = Through(A, c, u, w)
<1> DEFINE m == r.merge
           v == r.weight
<1>1. m \in Merge /\ v \in Weight
  BY RuleParts DEF LeadsTo
<1>2. <<m, v>> \in SeesCalls
  BY DEF Hides, Hiding
<1>3. ASSUME NEW s \in rules, LeadsTo(s, u) PROVE s.merge = m /\ s.weight = v
  <2>1. IsPush(s) /\ Rhs(s) = Rhs(r)
    BY <1>3 DEF LeadsTo, Rhs, gen_state
  <2>2. <<s.merge, s.weight>> = <<m, v>>
    BY <2>1 DEF Hides, Hiding
  <2> QED  BY <2>2
<1> HIDE DEF m, v
<1>4. u \in DOMAIN c /\ c[u].merge = m /\ W(A, u) = Extend(c[u].at, v) /\ c[u].at \in Weight
  <2>1. PICK s \in rules : MadeBy(s, A, c, u)
    BY DEF CallKept
  <2>2. s.merge = m /\ s.weight = v
    BY <1>3, <2>1 DEF MadeBy
  <2>3. W(A, u) = Extend(c[u].at, v)
    BY <1>3, <2>1, <2>2 DEF MadeBy
  <2> QED  BY <2>1, <2>2, <2>3 DEF MadeBy, CallKept, CallOf
<1>5. u \in DOMAIN d /\ d[u].merge = m /\ W(B, u) = Extend(d[u].at, v) /\ d[u].at \in Weight
  <2>1. PICK s \in rules : MadeBy(s, B, d, u)
    BY DEF CallKept
  <2>2. s.merge = m /\ s.weight = v
    BY <1>3, <2>1 DEF MadeBy
  <2>3. W(B, u) = Extend(d[u].at, v)
    BY <1>3, <2>1, <2>2 DEF MadeBy
  <2> QED  BY <2>1, <2>2, <2>3 DEF MadeBy, CallKept, CallOf
<1> DEFINE a == c[u].at
           b == d[u].at
<1>6. Extend(a, v) = Extend(b, v) /\ Extend(a, v) \in Weight /\ a \in Weight /\ b \in Weight
  BY <1>1, <1>4, <1>5, WeightClosed
<1>7. Leq(Extend(a, v), Extend(b, v)) /\ Leq(Extend(b, v), Extend(a, v))
  BY <1>6, LeqBasics
<1> HIDE DEF a, b
<1>8. \A x, y \in Weight : Leq(Extend(x, v), Extend(y, v)) =>
          \A w \in Weight : Leq(apply_f(m, x, w), apply_f(m, y, w))
  BY <1>1, <1>2 DEF SeesCalls
<1>9. ASSUME NEW w \in Weight PROVE apply_f(m, b, w) = apply_f(m, a, w)
  <2>1. apply_f(m, a, w) \in Weight /\ apply_f(m, b, w) \in Weight
    BY <1>1, <1>6, MergeSums
  <2>2. Leq(apply_f(m, a, w), apply_f(m, b, w)) /\ Leq(apply_f(m, b, w), apply_f(m, a, w))
    BY <1>6, <1>7, <1>8
  <2> QED  BY <2>1, <2>2, LeqAntisymmetric
<1>10. \A w : /\ Through(A, c, u, w) = apply_f(m, a, w)
              /\ Through(B, d, u, w) = apply_f(m, b, w)
  BY <1>4, <1>5 DEF Through, poststar_eps_closure, a, b
<1>11. ASSUME NEW w \in Weight PROVE Through(B, d, u, w) = Through(A, c, u, w)
  BY <1>9, <1>10
<1> QED  BY <1>11

(***************************************************************************)
(* The debts of the epsilon transitions after a push rule: those for mid   *)
(* were paid by its closure when mid was modified, and otherwise do not    *)
(* see that the weight at the call has grown.                              *)
(***************************************************************************)
LEMMA PushedEps ==
    ASSUME AllFromControl, query = "post", TypeOK,
           NEW A, NEW c, PostFaInv(A, c), EpsPaid(A, c),
           NEW B, NEW d, PostStepOK(A, c, B, d),
           NEW r \in rules, NEW mid, LeadsTo(r, mid), OfThisQuery(mid.from),
           mid \in B.trans, DOMAIN d = DOMAIN c \cup {mid},
           \A k \in DOMAIN c \ {mid} : d[k] = c[k],
           \A u : u.from \notin P /\ u # mid => SameAt(A, B, u),
           NEW grown \in BOOLEAN,
           grown => \A e \in B.trans : e.stk = EPS /\ e.to = mid.from =>
                 /\ Bypass(e, mid) \in B.trans
                 /\ Leq(Through(B, d, mid, W(B, e)), W(B, Bypass(e, mid))),
           ~ grown => mid \in A.trans /\ W(B, mid) = W(A, mid)
    PROVE  EpsPaid(B, d)
<1> SUFFICES ASSUME NEW e \in B.trans, e.stk = EPS, NEW u \in Leaving(B, e.to)
             PROVE  EpsOwes(B, d, e, u)
  BY DEF EpsPaid
<1>1. /\ IsAutomaton(A) /\ IsAutomaton(B) /\ CallOf(A.trans, c) /\ CallOf(B.trans, d)
      /\ ShapeOf(B, d)
  BY DEF PostFaInv, PostStepOK
<1>2. u \in B.trans /\ u.from = e.to /\ e.to \notin P
  BY <1>1, PostKeys DEF Leaving
<1>3. u \in A.trans /\ e \in A.trans => EpsOwes(A, c, e, u)
  BY <1>2 DEF EpsPaid, Leaving
<1>4. CASE u # mid
  <2>1. u \in A.trans /\ W(B, u) = W(A, u)
    BY <1>2, <1>4 DEF SameAt
  <2>2. (u \in DOMAIN d <=> u \in DOMAIN c) /\ (u \in DOMAIN c => d[u] = c[u])
    BY <1>4
  <2>3. \A w : Through(B, d, u, w) = Through(A, c, u, w)
    BY <1>2, <2>1, <2>2, ThroughStays
  <2> QED  BY <1>2, <1>3, <2>1, <2>3, PostEpsKept
<1>5. CASE u = mid /\ grown
  <2> DEFINE b == Bypass(e, u)
  <2>1. b \in B.trans /\ Leq(Through(B, d, u, W(B, e)), W(B, b))
    BY <1>2, <1>5
  <2>2. W(B, e) \in Weight /\ D(B, e) \in Weight /\ W(B, b) \in Weight
    BY <1>1, WeightTyped
  <2>3. u \in DOMAIN d => d[u].merge \in Merge
    BY <1>1, <1>2, PostKeys
  <2>4. \A w \in Weight : Through(B, d, u, w) \in Weight
    BY <1>1, <1>2, <2>3, ThroughSums
  <2>5. Through(B, d, u, W(B, e)) \in Weight /\ Through(B, d, u, D(B, e)) \in Weight
    BY <2>2, <2>4
  <2> HIDE DEF b
  <2>6. Leq(W(B, b), Combine(W(B, b), Through(B, d, u, D(B, e))))
    BY <2>2, <2>5, CombineUpper
  <2>7. Leq(Through(B, d, u, W(B, e)), Combine(W(B, b), Through(B, d, u, D(B, e))))
    BY <2>1, <2>2, <2>5, <2>6, LeqTrans, WeightClosed
  <2> QED  BY <2>1, <2>7 DEF EpsOwes, b
<1>6. CASE u = mid /\ ~ grown
  <2>1. u \in A.trans /\ W(A, u) = W(B, u) /\ OfThisQuery(u.from) /\ LeadsTo(r, u)
    BY <1>6
  <2>2. CallKept(A, c, u) /\ CallKept(B, d, u)
    BY <1>2, <2>1 DEF PostFaInv, PostStepOK
  <2>3. ~ Hides(u) => \A w \in Weight : Through(B, d, u, w) = Through(A, c, u, w)
    BY <1>1, <2>1, <2>2, CallsSeen
  <2> QED  BY <1>2, <1>3, <2>1, <2>3, PostEpsKept
<1> QED  BY <1>4, <1>5, <1>6

(* All of a push rule is such a step. *)
LEMMA PushStepOK ==
    ASSUME NEW A, NEW c, PostFaInv(A, c), NEW mid \in Key,
           OfThisQuery(mid.from), mid.from \notin P, NEW dn \in Weight,
           NEW A1, Evolves(A, A1), mid \notin A1.marked, D(A1, mid) = W(A1, mid),
           NEW B, IsAutomaton(B), Evolves(A, B), SameAt(A1, B, mid),
           \A u : u.from \notin P /\ u # mid => SameAt(A, B, u),
           \A k \in B.trans : k.from \in P =>
                 \/ k \in B.marked
                 \/ k \in A.trans /\ k \notin A.marked /\ D(B, k) = D(A, k),
           NEW d, CallOf(B.trans, d), ShapeOf(B, d), DOMAIN d = DOMAIN c \cup {mid},
           \A k \in DOMAIN c : d[k].merge = c[k].merge,
           \A k \in DOMAIN c \ {mid} : d[k] = c[k],
           d[mid].at = Combine(AtCall(c, mid), dn),
           \A k \in B.trans : CallKept(B, d, k)
    PROVE  PostStepOK(A, c, B, d)
<1>1. IsAutomaton(A) /\ CallOf(A.trans, c)
  BY DEF PostFaInv
<1>2. ASSUME NEW k \in DOMAIN c
      PROVE  k \in DOMAIN d /\ d[k].merge = c[k].merge /\ Leq(c[k].at, d[k].at)
  <2>1. c[k].at \in Weight /\ AtCall(c, k) = c[k].at
    BY <1>1 DEF CallOf, AtCall
  <2>2. CASE k = mid
    BY <2>1, <2>2, CombineUpper
  <2>3. CASE k # mid
    BY <2>1, <2>3, LeqBasics
  <2> QED  BY <2>2, <2>3
<1>3. ASSUME NEW k \in B.trans
      PROVE  /\ OfThisQuery(k.from) => k \notin B.marked /\ D(B, k) = W(B, k)
             /\ k.from \notin P /\ ~ OfThisQuery(k.from) => SameAt(A, B, k)
  <2>1. CASE k = mid
    BY <2>1 DEF SameAt
  <2>2. CASE k # mid
    <3>1. k.from \notin P => SameAt(A, B, k)
      BY <2>2
    <3>2. ASSUME OfThisQuery(k.from) PROVE k \notin B.marked /\ D(B, k) = W(B, k)
      <4>1. k.from \notin P
        BY <3>2, WfaAssumption DEF OfThisQuery
      <4>2. SameAt(A, B, k) /\ k \in A.trans
        BY <3>1, <4>1 DEF SameAt
      <4>3. k \notin A.marked /\ D(A, k) = W(A, k)
        BY <3>2, <4>2 DEF PostFaInv, DeltaKept
      <4> QED  BY <4>2, <4>3 DEF SameAt
    <3> QED  BY <3>1, <3>2
  <2> QED  BY <2>1, <2>2
<1> QED  BY <1>2, <1>3 DEF PostStepOK

(* A push rule is applied to the transition at work. *)
LEMMA PostPushPost ==
    ASSUME ShapeInv, ShapeInv', PostInv, AllFromControl, query = "post", PostPush
    PROVE  PostInv'
<1>1. PICK r \in todo :
              LET mid == Mid(cur, r)
                  wmid == Extend(dnew, r.weight)
                  qone == Combine(quasi[mid.from], One)
                  A1 == Insert(fa, At(mid, wmid))
                  A2 == Update(A1, At(Entry(r), qone))
                  c2 == CallAfter(call, mid, r, dnew)
              IN  /\ IsPush(r) /\ r \in rules /\ r.merge \in Merge
                  /\ mid = RuleTarget(cur, r) /\ LeadsTo(r, mid)
                  /\ mid \in Key /\ mid.stk # EPS
                  /\ OfThisQuery(mid.from) /\ mid.from \notin P
                  /\ Entry(r) \in Key /\ Entry(r).from \in P
                  /\ Entry(r).stk # EPS
                  /\ wmid \in Weight /\ qone \in Weight /\ Leq(One, qone)
                  /\ call' = c2
                  /\ fa' = IF Modified(fa, mid, wmid) THEN Update(A2, Closure(A2, c2, mid))
                           ELSE A2
                  /\ todo' = todo \ {r}
  BY PostPushFacts
<1> DEFINE mid == Mid(cur, r)
           ent == Entry(r)
           wmid == Extend(dnew, r.weight)
           qone == Combine(quasi[mid.from], One)
           A1 == Insert(fa, At(mid, wmid))
           A2 == Update(A1, At(ent, qone))
           grown == Modified(fa, mid, wmid)
           B == fa'
           d == call'
           j == [cur |-> cur, dnew |-> dnew, todo |-> todo \ {r}, calls |-> calls]
<1>2. /\ pc = "saturate" /\ pc' = "saturate" /\ UNCHANGED <<database, input, gen, query>>
      /\ Job' = j /\ Job = [cur |-> cur, dnew |-> dnew, todo |-> todo, calls |-> calls]
  BY <1>1 DEF PostPush, Job
<1>3. /\ PostFaInv(fa, call) /\ RulesPaid(fa, call, Job) /\ EpsPaid(fa, call) /\ IsAutomaton(fa)
      /\ TypeOK /\ gen \in 1..MaxGeneration /\ dnew \in Weight
      /\ CallOf(fa.trans, call) /\ ShapeOf(fa, call)
      /\ InputOK([trans |-> input.trans, weight |-> input.weight, gen |-> input.gen])
  BY <1>2, WhilePost, WhileSaturating
<1>4. CallOf(B.trans, d) /\ ShapeOf(B, d)
  BY <1>2, NewShape
<1>5. /\ IsPush(r) /\ r \in rules /\ r.merge \in Merge /\ LeadsTo(r, mid)
      /\ mid \in Key /\ mid.stk # EPS /\ OfThisQuery(mid.from) /\ mid.from \notin P
      /\ ent \in Key /\ ent.from \in P /\ ent.stk # EPS
      /\ wmid \in Weight /\ qone \in Weight /\ Leq(One, qone)
      /\ d = CallAfter(call, mid, r, dnew)
      /\ B = IF grown THEN Update(A2, Closure(A2, d, mid)) ELSE A2
  BY <1>1
<1>6. /\ RuleTarget(cur, r) = mid /\ Mid(cur, r) = mid /\ Entry(r) = ent
      /\ wmid = Extend(dnew, r.weight)
      /\ A1 = Insert(fa, At(mid, wmid)) /\ A2 = Update(A1, At(ent, qone))
      /\ grown \in BOOLEAN
  BY <1>1 DEF Modified
<1>7. ~ grown <=> ~ Modified(fa, mid, wmid)
  OBVIOUS
<1>8. /\ IsAutomaton(A2) /\ CallOf(A2.trans, d) /\ DOMAIN d = DOMAIN call \cup {mid}
      /\ d[mid].merge \in Merge
  <2> HIDE DEF mid, ent, wmid, qone, A1, A2, d
  <2> DEFINE X1 == Insert(fa, At(mid, wmid))
             X2 == Update(X1, At(ent, qone))
             c2 == CallAfter(call, mid, r, dnew)
  <2>1. /\ IsAutomaton(X1) /\ X1.trans = fa.trans \cup {mid}
        /\ IsAutomaton(X2) /\ X2.trans = fa.trans \cup {mid, ent}
        /\ CallOf(X2.trans, c2) /\ DOMAIN c2 = DOMAIN call \cup {mid}
        /\ \A k \in DOMAIN call \ {mid} : c2[k] = call[k]
        /\ c2[mid].merge \in Merge
    BY <1>2, <1>5, AfterCall
  <2>2. X1 = A1 /\ X2 = A2 /\ c2 = d
    BY <1>5, <1>6
  <2> HIDE DEF X1, X2, c2
  <2> QED  BY <2>1, <2>2
<1> HIDE DEF mid, ent, wmid, qone, A1, A2, grown, B, d
<1>9. /\ IsAutomaton(A1) /\ A1.trans = fa.trans \cup {mid} /\ Evolves(fa, A1)
      /\ \A x : x # mid => SameAt(fa, A1, x)
      /\ mid \notin A1.marked
      /\ W(A1, mid) = Combine(W(fa, mid), wmid) /\ D(A1, mid) = W(A1, mid)
      /\ ~ Modified(fa, mid, wmid) => mid \in fa.trans /\ W(A1, mid) = W(fa, mid)
  BY ONLY <1>3, <1>5, <1>6, MidInserted
<1>10. \A e \in fa.trans : e.stk = EPS => e.from \in P
  BY <1>3, PostKeys
<1>11. /\ IsAutomaton(B) /\ Evolves(fa, B)
       /\ mid \in B.trans /\ SameAt(A1, B, mid)
       /\ \A u : u.from \notin P /\ u # mid => SameAt(fa, B, u)
       /\ \A k \in B.trans : k.from \in P =>
             \/ k \in B.marked
             \/ k \in fa.trans /\ k \notin fa.marked /\ D(B, k) = D(fa, k)
       /\ ent \in B.trans /\ Leq(qone, W(B, ent))
       /\ grown => \A e \in B.trans : e.stk = EPS /\ e.to = mid.from =>
             /\ Bypass(e, mid) \in B.trans
             /\ Leq(Through(B, d, mid, W(B, e)), W(B, Bypass(e, mid)))
  BY ONLY <1>3, <1>5, <1>6, <1>8, <1>9, <1>10, PushGrown
<1>12. W(B, mid) = Combine(W(fa, mid), wmid) /\ W(A1, mid) = W(B, mid)
  BY <1>9, <1>11 DEF SameAt
<1>13. \A k \in B.trans : CallKept(B, d, k)
  BY <1>3, <1>5, <1>6, <1>11, <1>12, PushedCalls
<1>14. /\ DOMAIN d = DOMAIN call \cup {mid}
       /\ \A k \in DOMAIN call : d[k].merge = call[k].merge
       /\ \A k \in DOMAIN call \ {mid} : d[k] = call[k]
       /\ d[mid].at = Combine(AtCall(call, mid), dnew)
  <2> DEFINE T == fa.trans
             c2 == CallAfter(call, mid, r, dnew)
  <2>1. CallOf(T, call) /\ r.merge \in Merge /\ dnew \in Weight
    BY <1>3, <1>5
  <2> HIDE DEF T
  <2>2. /\ DOMAIN c2 = DOMAIN call \cup {mid}
        /\ \A k \in DOMAIN call : c2[k].merge = call[k].merge
        /\ \A k \in DOMAIN call \ {mid} : c2[k] = call[k]
        /\ mid \notin DOMAIN call => c2[mid].merge = r.merge
        /\ c2[mid].at = Combine(AtCall(call, mid), dnew)
        /\ CallOf(T \cup {mid}, c2)
    BY <2>1, CallAfterFacts
  <2>3. c2 = d
    BY <1>5
  <2> HIDE DEF c2
  <2> QED  BY <2>2, <2>3
<1>15. PostStepOK(fa, call, B, d)
  BY <1>3, <1>4, <1>5, <1>9, <1>11, <1>13, <1>14, PushStepOK
<1>16. PostFaInv(B, d)
  BY <1>3, <1>15, PostFaInvKept
<1>17. EpsPaid(B, d)
  <2>1. ~ grown => mid \in fa.trans /\ W(B, mid) = W(fa, mid)
    BY <1>7, <1>9, <1>12
  <2> QED  BY <1>3, <1>5, <1>6, <1>11, <1>14, <1>15, <2>1, PushedEps
<1>18. RulesPaid(B, d, j)
  <2>1. W(fa, mid) \in Weight /\ W(B, ent) \in Weight /\ AtCall(call, mid) \in Weight
    BY <1>3, <1>11, WeightTyped, WeightClosed DEF AtCall, CallOf
  <2>2. Leq(wmid, W(B, mid))
    BY <1>5, <1>12, <2>1, CombineUpper
  <2>3. Leq(One, W(B, ent))
    BY <1>5, <1>11, <2>1, LeqTrans, WeightClosed
  <2>4. Leq(dnew, AtCall(d, mid))
    <3>1. AtCall(d, mid) = Combine(AtCall(call, mid), dnew)
      BY <1>14 DEF AtCall
    <3> QED  BY <1>3, <2>1, <3>1, CombineUpper
  <2>5. RuleThere(B, cur, r)
    BY <1>6, <1>11, <2>3 DEF RuleThere
  <2>6. \A x \in {r} : /\ RuleThere(B, cur, x)
                       /\ Leq(Extend(dnew, x.weight), W(B, RuleTarget(cur, x)))
                       /\ IsPush(x) => Leq(dnew, AtCall(d, Mid(cur, x)))
    BY <1>6, <2>2, <2>4, <2>5
  <2>7. RulesPaid(fa, call, [cur |-> cur, dnew |-> dnew, todo |-> todo, calls |-> calls])
    BY <1>2, <1>3
  <2> QED  BY <1>3, <1>15, <2>6, <2>7, PostRulesKept
<1>19. fa' = B /\ call' = d
  BY DEF B, d
<1> HIDE DEF j
<1> QED  BY <1>2, <1>16, <1>17, <1>18, <1>19, PostFrame

(* Nothing has been handled yet: all of a weight is still pending. *)
LEMMA PostSetupFacts ==
    ASSUME ShapeInv, ShapeInv', AllFromControl, query = "post", Setup
    PROVE  /\ IsAutomaton(fa') /\ CallOf(fa'.trans, call') /\ ShapeOf(fa, call)'
           /\ fa'.trans = input.trans /\ fa'.marked = fa'.trans
           /\ \A k \in fa'.trans : /\ D(fa', k) = W(fa', k) /\ W(fa', k) \in Weight
                                   /\ Leq(input.weight[k], W(fa', k))
                                   /\ ~ OfThisQuery(k.from)'
           /\ input' = input /\ rules' = rules /\ query' = query /\ todo' = {}
<1> DEFINE A == CopyOf(input)
           B == fa'
<1>1. /\ IsAutomaton(A) /\ A.trans = input.trans /\ A.marked = input.trans
      /\ \A k \in input.trans : W(A, k) = input.weight[k] /\ D(A, k) = W(A, k)
      /\ pc' = "saturate" /\ todo = {}
      /\ InputOK([trans |-> input.trans, weight |-> input.weight, gen |-> input.gen])
      /\ gen' = input.gen + 1
      /\ UNCHANGED <<database, input, query, work>>
  BY SetupFacts
<1>2. \E K \in SUBSET Key : \E ins \in [K -> Weight] : K = {} /\ B = Update(A, ins)
  BY SetupFacts
<1>3. PICK K \in SUBSET Key : \E ins \in [K -> Weight] : K = {} /\ B = Update(A, ins)
  BY <1>2
<1>4. PICK ins \in [K -> Weight] : K = {} /\ B = Update(A, ins)
  BY <1>3
<1> HIDE DEF A
<1>5. /\ IsAutomaton(B) /\ B.trans = A.trans \cup K
      /\ \A k : k \in B.marked <=> k \in A.marked \/ (k \in K /\ Modified(A, k, ins[k]))
      /\ \A k : k \notin K => SameAt(A, B, k)
  <2>1. IsAutomaton(A) /\ K \in SUBSET Key /\ ins \in [K -> Weight]
    BY <1>1, <1>3, <1>4
  <2> DEFINE X == Update(A, ins)
  <2>2. /\ IsAutomaton(X)
        /\ X.trans = A.trans \cup K
        /\ \A k : k \in X.marked <=> k \in A.marked \/ (k \in K /\ Modified(A, k, ins[k]))
        /\ \A k \in K : /\ W(X, k) = WeightAfter(A, k, ins[k])
                        /\ D(X, k) = DeltaAfter(A, k, ins[k])
        /\ \A k : k \notin K => SameAt(A, X, k)
    BY ONLY <2>1, UpdateFacts
  <2>3. X = B
    BY <1>4
  <2> HIDE DEF X, B
  <2> QED  BY <2>2, <2>3
<1>6. K = {}
  BY <1>4
<1> HIDE DEF B
<1>7. /\ B.trans = input.trans /\ B.marked = B.trans
      /\ \A k : W(A, k) = W(B, k) /\ D(A, k) = D(B, k)
  <2>1. B.trans = input.trans
    BY <1>1, <1>5, <1>6
  <2>2. \A k : k \in B.marked <=> k \in B.trans
    BY <1>1, <1>5, <1>6, <2>1
  <2>3. B.marked \subseteq B.trans
    BY <1>5 DEF IsAutomaton
  <2>4. B.marked = B.trans
    BY <2>2, <2>3
  <2> QED  BY <1>5, <1>6, <2>1, <2>4 DEF SameAt
<1>8. ASSUME NEW k \in B.trans
      PROVE  /\ D(B, k) = W(B, k) /\ W(B, k) \in Weight
             /\ Leq(input.weight[k], W(B, k))
             /\ ~ OfThisQuery(k.from)'
  <2>1. D(B, k) = W(B, k) /\ W(B, k) = input.weight[k] /\ W(B, k) \in Weight
    BY <1>1, <1>5, <1>7, WeightTyped
  <2>2. k.from \in GenState => k.from.gen <= input.gen /\ k.from.gen \in Int
    BY <1>1, <1>7 DEF InputOK, GenState
  <2>3. input.gen \in Int
    BY <1>1 DEF InputOK, IsInput, Generation
  <2>4. ~ OfThisQuery(k.from)'
    BY <1>1, <2>2, <2>3 DEF OfThisQuery
  <2> QED  BY <2>1, <2>4, LeqBasics
<1>9. CallOf(fa'.trans, call') /\ ShapeOf(fa, call)'
  BY <1>1 DEF ShapeInv, TypeOK
<1> QED  BY <1>1, <1>5, <1>7, <1>8, <1>9 DEF B, work, database

(* setupOutput of poststar. *)
LEMMA SetupPost ==
    ASSUME ShapeInv, ShapeInv', AllFromControl, query = "post", Setup
    PROVE  PostInv'
<1> DEFINE B == fa'
           d == call'
           j == Job'
<1>1. /\ IsAutomaton(B) /\ CallOf(B.trans, d) /\ ShapeOf(fa, call)'
      /\ B.trans = input.trans /\ B.marked = B.trans
      /\ \A k \in B.trans : /\ D(B, k) = W(B, k) /\ W(B, k) \in Weight
                            /\ Leq(input.weight[k], W(B, k))
                            /\ ~ OfThisQuery(k.from)'
      /\ input' = input /\ rules' = rules /\ query' = query /\ todo' = {}
  BY PostSetupFacts
<1>2. j.todo = {}
  BY <1>1 DEF Job
<1>3. PostFaInv(fa, call)'
  <2>1. Holds(fa)'
    BY <1>1 DEF Holds
  <2>2. ASSUME NEW k \in B.trans PROVE DeltaKept(fa, k)' /\ CallKept(fa, call, k)'
    BY <1>1 DEF DeltaKept, CallKept
  <2> QED  BY <1>1, <2>1, <2>2 DEF PostFaInv
<1>4. RulesPaid(fa, call, Job)'
  <2> SUFFICES ASSUME NEW t \in B.trans, NEW r \in rules
               PROVE  RuleOwes(fa, call, Job, t, r)'
    BY <1>1 DEF RulesPaid, ForwardRules
  <2> DEFINE wt == W(B, t)
             a == W(B, RuleTarget(t, r)')
             c == AtCall(d, Mid(t, r)')
  <2>1. wt \in Weight /\ r.weight \in Weight /\ a \in Weight /\ c \in Weight
    <3>1. c \in Weight
      BY <1>1, WeightClosed DEF AtCall, CallOf
    <3>2. r.weight \in Weight
      BY RuleParts DEF ShapeInv
    <3> QED  BY <1>1, <3>1, <3>2, WeightTyped
  <2>2. Pending(B, j, t, r) = wt
    BY <1>1, <1>2 DEF Pending
  <2> HIDE DEF wt, a, c
  <2>3. Leq(Extend(wt, r.weight), Combine(a, Extend(wt, r.weight))) /\ Leq(wt, Combine(c, wt))
    BY <2>1, CombineUpper, WeightClosed
  <2>4. t \in B.marked
    BY <1>1
  <2> HIDE DEF B, d, j
  <2>5. /\ t \in B.marked
        /\ Leq(Extend(W(B, t), r.weight),
               Combine(W(B, RuleTarget(t, r)'), Extend(Pending(B, j, t, r), r.weight)))
        /\ Leq(W(B, t), Combine(AtCall(d, Mid(t, r)'), Pending(B, j, t, r)))
    BY <2>2, <2>3, <2>4 DEF wt, a, c
  <2> QED  BY <2>5 DEF RuleOwes, B, d, j
<1>5. EpsPaid(fa, call)'
  <2> SUFFICES ASSUME NEW e \in B.trans, e.stk = EPS, NEW u \in Leaving(B, e.to)
               PROVE  EpsOwes(fa, call, e, u)'
    BY DEF EpsPaid
  <2>1. u \in B.trans /\ u.from = e.to
    BY DEF Leaving
  <2>2. e.to \notin P
    BY <1>1 DEF ShapeOf, ShapedOf
  <2>3. u \in DOMAIN d => d[u].merge \in Merge
    BY <1>1, <2>1, <2>2 DEF ShapeOf, ShapedOf
  <2>4. W(B, e) \in Weight /\ D(B, e) = W(B, e) /\ e \in B.marked
        /\ W(B, Bypass(e, u)) \in Weight
    BY <1>1, WeightTyped
  <2> HIDE DEF B, d
  <2>5. Through(B, d, u, W(B, e)) \in Weight
    BY <1>1, <2>1, <2>3, <2>4, ThroughSums
  <2>6. Leq(Through(B, d, u, W(B, e)), Combine(W(B, Bypass(e, u)), Through(B, d, u, W(B, e))))
    BY <2>4, <2>5, CombineUpper
  <2> QED  BY <2>4, <2>6 DEF EpsOwes, B, d
<1> HIDE DEF B, d, j
<1> QED  BY <1>3, <1>4, <1>5 DEF PostInv

(* Every step of a session keeps what poststar owes. *)
LEMMA NextPost == ShapeInv /\ ShapeInv' /\ PostInv /\ [Next]_vars => PostInv'
<1> SUFFICES ASSUME ShapeInv, ShapeInv', PostInv, [Next]_vars,
                    AllFromControl, query' = "post", pc' \in {"saturate", "done"}
             PROVE  PostInv'
  BY DEF PostInv, AllFromControl
<1>1. CASE Build \/ Ask \/ AskAgain
  <2>1. pc' \notin {"saturate", "done"}
    <3>1. CASE Build
      <4>1. pc = "idle" /\ (pc' = pc \/ pc' = "aborted")
        BY <3>1 DEF Build, AddNew, AddAgain, EraseRule, Copy
      <4> QED  BY <4>1
    <3>2. CASE Ask \/ AskAgain
      BY <3>2 DEF Ask, AskAgain, Asked
    <3> QED  BY <1>1, <3>1, <3>2
  <2> QED  BY <2>1
<1>2. CASE Query
  <2>1. query = "post"
    BY <1>2 DEF Query, Setup, PopTransition, PopEpsilon, PostRule, PostPush, PreRule,
       PrePushFirst, PrePushSecond, Finish
  <2>2. ~ PreRule /\ ~ PrePushFirst /\ ~ PrePushSecond
    BY <2>1 DEF PreRule, PrePushFirst, PrePushSecond
  <2>3. Setup => PostInv'
    BY <2>1, SetupPost
  <2>4. PopTransition => PostInv'
    BY <2>1, PopPost
  <2>5. PopEpsilon => PostInv'
    BY <2>1, EpsilonPost
  <2>6. PostRule => PostInv'
    BY <2>1, PostRulePost
  <2>7. PostPush => PostInv'
    BY <2>1, PostPushPost
  <2>8. Finish => PostInv'
    BY <2>1, FinishPost
  <2> QED  BY <1>2, <2>2, <2>3, <2>4, <2>5, <2>6, <2>7, <2>8 DEF Query
<1>3. CASE UNCHANGED vars
  <2> DEFINE A == fa
             c == call
             j == Job
  <2>1. UNCHANGED <<database, input, gen, query>> /\ fa' = A /\ call' = c /\ Job' = j
        /\ pc' = pc /\ query = "post"
    BY <1>3 DEF vars, database, work, Job
  <2>2. PostFaInv(A, c) /\ RulesPaid(A, c, j) /\ EpsPaid(A, c)
    BY <2>1 DEF PostInv
  <2> HIDE DEF A, c, j
  <2> QED  BY <2>1, <2>2, PostFrame
<1> QED  BY <1>1, <1>2, <1>3 DEF Next

(* Nothing is owed before the first query. *)
LEMMA InitPost == Init => PostInv
BY DEF Init, PostInv

(***************************************************************************)
(* A transition that is not Hidden is seen: one that a rule leads to leaves *)
(* a state of this query, and so is an ETrans.                             *)
(***************************************************************************)
LEMMA NotHidden ==
    ASSUME TypeOK, gen \in 1..MaxGeneration, PostFaInv(fa, call),
           NEW u \in fa.trans, u \notin Hidden
    PROVE  ~ Hides(u)
<1> SUFFICES ASSUME NEW r \in rules, LeadsTo(r, u), Hiding(r) PROVE FALSE
  BY DEF Hides
<1>1. r.to \in P /\ r.stk1 \in Stack /\ IsPush(r)
  BY RuleParts DEF LeadsTo
<1>2. OfThisQuery(u.from)
  BY <1>1 DEF LeadsTo, OfThisQuery, gen_state, GenState
<1>3. u \in DOMAIN call
  BY <1>2 DEF PostFaInv, CallKept
<1> QED  BY <1>3 DEF Hidden, LeadsTo

(* At the end nothing is owed: the equations of poststar hold. *)
LEMMA PostDone ==
    ASSUME ShapeInv, PostInv, AllFromControl, pc = "done", query = "post"
    PROVE  PostSaturates
<1>1. /\ TypeOK /\ IsAutomaton(fa) /\ CallOf(fa.trans, call) /\ ShapeOf(fa, call)
      /\ PostFaInv(fa, call) /\ RulesPaid(fa, call, Job) /\ EpsPaid(fa, call)
      /\ fa.marked = {} /\ Job.todo = {} /\ gen \in 1..MaxGeneration
  <2>1. TypeOK /\ PhaseOK /\ PostFaInv(fa, call) /\ RulesPaid(fa, call, Job)
        /\ EpsPaid(fa, call)
    BY DEF ShapeInv, PostInv
  <2>2. fa.marked = {} /\ Job.todo = {}
    BY <2>1 DEF PhaseOK, Job
  <2>3. gen \in Generation /\ input.gen \in Generation /\ gen = input.gen + 1
    BY <2>1 DEF TypeOK, PhaseOK, IsInput
  <2>4. gen \in 1..MaxGeneration
    BY <2>3, WfaAssumption DEF Generation
  <2> QED  BY <2>1, <2>2, <2>4 DEF PostFaInv
<1>2. ASSUME NEW t \in fa.trans
      PROVE  /\ t \in Key /\ W(fa, t) = fa.weight[t] /\ W(fa, t) \in Weight
             /\ t.from \in P => D(fa, t) = Zero
  <2>1. t \in Key /\ W(fa, t) = fa.weight[t] /\ W(fa, t) \in Weight
    BY <1>1, WeightTyped DEF IsAutomaton, W
  <2>2. ASSUME t.from \in P PROVE D(fa, t) = Zero
    <3>1. ~ OfThisQuery(t.from)
      BY <2>2, WfaAssumption DEF OfThisQuery
    <3>2. DeltaKept(fa, t)
      BY <1>1 DEF PostFaInv
    <3> QED  BY <1>1, <3>1, <3>2 DEF DeltaKept
  <2> QED  BY <2>1, <2>2
<1>3. Covers(fa, input)
  BY <1>1, <1>2 DEF PostFaInv, Holds, Covers
<1>4. ASSUME NEW t \in fa.trans, NEW r \in ForwardRules(rules, t.from, t.stk)
      PROVE  /\ r \in rules /\ RuleThere(fa, t, r)
             /\ Leq(Extend(fa.weight[t], r.weight), fa.weight[RuleTarget(t, r)])
             /\ IsPush(r) => Leq(fa.weight[t], AtCall(call, Mid(t, r)))
  <2>1. r \in rules /\ t.from = r.from
    BY DEF ForwardRules
  <2>2. t.from \in P /\ r.weight \in Weight
    BY <1>1, <2>1, RuleParts
  <2>3. RuleOwes(fa, call, Job, t, r)
    BY <1>1 DEF RulesPaid
  <2>4. Pending(fa, Job, t, r) = Zero
    BY <1>1, <1>2, <2>2 DEF Pending
  <2>5. RuleThere(fa, t, r)
    BY <1>1, <2>3 DEF RuleOwes
  <2> DEFINE a == W(fa, RuleTarget(t, r))
             c == AtCall(call, Mid(t, r))
  <2>6. a = fa.weight[RuleTarget(t, r)] /\ a \in Weight
    BY <1>2, <2>5 DEF RuleThere
  <2>7. c \in Weight
    BY <1>1, WeightClosed DEF AtCall, CallOf
  <2> HIDE DEF a, c
  <2>8. Combine(a, Extend(Zero, r.weight)) = a /\ Combine(c, Zero) = c
    BY <2>2, <2>6, <2>7, ExtendLaws, CombineLaws
  <2>9. /\ Leq(Extend(W(fa, t), r.weight), Combine(a, Extend(Zero, r.weight)))
        /\ IsPush(r) => Leq(W(fa, t), Combine(c, Zero))
    BY <2>3, <2>4 DEF RuleOwes, a, c
  <2>10. Leq(Extend(W(fa, t), r.weight), a) /\ (IsPush(r) => Leq(W(fa, t), c))
    BY <2>8, <2>9
  <2>11. W(fa, t) = fa.weight[t]
    BY <1>2
  <2>12. IsPush(r) => Leq(fa.weight[t], AtCall(call, Mid(t, r)))
    BY <2>10, <2>11 DEF c
  <2>13. Leq(Extend(fa.weight[t], r.weight), fa.weight[RuleTarget(t, r)])
    BY <2>6, <2>10, <2>11
  <2> QED  BY <2>1, <2>5, <2>12, <2>13
<1>5. StepsDone
  <2> SUFFICES ASSUME NEW t \in fa.trans, NEW r \in ForwardRules(rules, t.from, t.stk),
                      ~ IsPush(r)
               PROVE  LET k == [from |-> r.to, stk |-> r.stk1, to |-> t.to]
                      IN  k \in fa.trans /\ Leq(Extend(fa.weight[t], r.weight), fa.weight[k])
    BY DEF StepsDone
  <2>1. RuleTarget(t, r) = [from |-> r.to, stk |-> r.stk1, to |-> t.to]
    BY DEF RuleTarget, Callee
  <2> QED  BY <1>4, <2>1 DEF RuleThere
<1>6. CallsDone
  <2> SUFFICES ASSUME NEW t \in fa.trans, NEW r \in ForwardRules(rules, t.from, t.stk),
                      IsPush(r)
               PROVE  LET k == Callee(r, gen_state(gen, r.to, r.stk1))
                      IN  /\ Mid(t, r) \in DOMAIN call
                          /\ Leq(Extend(fa.weight[t], r.weight), fa.weight[Mid(t, r)])
                          /\ Leq(fa.weight[t], call[Mid(t, r)].at)
                          /\ k \in fa.trans /\ Leq(One, fa.weight[k])
    BY DEF CallsDone
  <2>1. /\ Mid(t, r) \in fa.trans
        /\ Entry(r) \in fa.trans /\ Leq(One, fa.weight[Entry(r)])
        /\ Leq(Extend(fa.weight[t], r.weight), fa.weight[Mid(t, r)])
        /\ Leq(fa.weight[t], AtCall(call, Mid(t, r)))
    BY <1>2, <1>4 DEF RuleThere, RuleTarget
  <2>2. OfThisQuery(Mid(t, r).from)
    BY <1>1, <1>2, <1>4, TargetParts
  <2>3. Mid(t, r) \in DOMAIN call
    BY <1>1, <2>1, <2>2 DEF PostFaInv, CallKept
  <2>4. AtCall(call, Mid(t, r)) = call[Mid(t, r)].at
    BY <2>3 DEF AtCall
  <2> QED  BY <2>1, <2>3, <2>4 DEF Entry
<1>7. ReturnsMerged(fa.trans \ Hidden)
  <2> SUFFICES ASSUME NEW e \in fa.trans, e.stk = EPS, NEW u \in Leaving(fa, e.to),
                      u \notin Hidden
               PROVE  Merged(e, u)
    BY DEF ReturnsMerged
  <2>1. u \in fa.trans /\ u.from = e.to /\ u \in Key
    BY <1>2 DEF Leaving
  <2>2. EpsOwes(fa, call, e, u) /\ ~ Hides(u)
    BY <1>1, <2>1, NotHidden DEF EpsPaid
  <2>3. e.from \in P /\ e.to \notin P /\ (u \in DOMAIN call => call[u].merge \in Merge)
    BY <1>1, <2>1, PostKeys
  <2>4. D(fa, e) = Zero /\ W(fa, e) = fa.weight[e] /\ W(fa, e) \in Weight
    BY <1>2, <2>3
  <2> DEFINE b == Bypass(e, u)
             x == Through(fa, call, u, fa.weight[e])
  <2>5. [u EXCEPT !.from = e.from] = b
    BY <2>1 DEF Bypass, Key
  <2>6. b \in fa.trans
    BY <1>1, <2>2 DEF EpsOwes
  <2>7. W(fa, b) = fa.weight[b] /\ W(fa, b) \in Weight
    BY <1>2, <2>6
  <2>8. Through(fa, call, u, D(fa, e)) = Zero
    BY <1>1, <2>1, <2>3, <2>4, ThroughSums
  <2>9. Leq(x, Combine(W(fa, b), Zero))
    BY <2>2, <2>4, <2>8 DEF EpsOwes
  <2> HIDE DEF b, x
  <2>10. Leq(x, fa.weight[b])
    BY <2>7, <2>9, CombineLaws
  <2>11. poststar_eps_closure(fa, call, u, fa.weight[e]) = x
    BY DEF x, Through
  <2> QED  BY <2>5, <2>6, <2>10, <2>11 DEF Merged
<1> QED  BY <1>3, <1>5, <1>6, <1>7 DEF PostSaturates

(***************************************************************************)
(* poststar, too, returns a solution of its equations: the whole input,    *)
(* what each rule makes of the final weight of what it reads, the whole of *)
(* it at every call, and every return merged, the function of the rule     *)
(* applied to the whole weight at the call and that of the callee, unless  *)
(* the call is Hidden.  With prestar that is all that Saturates says, for  *)
(* any rules, merge functions and order of the worklist, and any inputs    *)
(* whose epsilon transitions leave control states only.                    *)
(***************************************************************************)
THEOREM EwpdsSaturates == AllFromControl => (Spec => []Saturates)
<1> SUFFICES ASSUME AllFromControl PROVE Spec => []Saturates
  OBVIOUS
<1>1. Spec => [](ShapeInv /\ PreInv /\ PostInv)
  <2>1. Init => ShapeInv /\ PreInv /\ PostInv
    BY InitShape, InitPre, InitPost
  <2>2. ShapeInv /\ PreInv /\ PostInv /\ [Next]_vars => ShapeInv' /\ PreInv' /\ PostInv'
    BY NextShape, NextPre, NextPost
  <2> QED  BY <2>1, <2>2, PTL DEF Spec
<1>2. ShapeInv /\ PreInv /\ PostInv => Saturates
  <2> SUFFICES ASSUME ShapeInv, PreInv, PostInv, pc = "done"
               PROVE  IF query = "post" THEN PostSaturates ELSE PreSolution(fa)
    BY DEF Saturates
  <2>1. query \in {"post", "pre"}
    BY DEF ShapeInv, TypeOK, PhaseOK
  <2>2. CASE query = "post"
    BY <2>2, PostDone
  <2>3. CASE query = "pre"
    BY <2>3, PreDone
  <2> QED  BY <2>1, <2>2, <2>3
<1> QED  BY <1>1, <1>2, PTL
-----------------------------------------------------------------------------
(***************************************************************************)
(* The equations of poststar, for an automaton S with a weight at the call *)
(* of every transition that leaves a state of this query.  A return to     *)
(* such a transition merges with each rule that leads to it; a return to   *)
(* an ETrans of the input merges with what that one has; any other return  *)
(* extends.                                                                *)
(***************************************************************************)
PostWeighted(S) == IsWeighted(S) /\ S.at \in [S.trans -> Weight]

Returned(S, e, u) ==
    IF OfThisQuery(u.from)
    THEN {apply_f(r.merge, S.at[u], S.weight[e]) : r \in {x \in rules : LeadsTo(x, u)}}
    ELSE IF u \in DOMAIN input.call
         THEN {apply_f(input.call[u].merge, input.call[u].at, S.weight[e])}
         ELSE {Extend(S.weight[u], S.weight[e])}

PostSolution(S) ==
    /\ Covers(S, input)
    /\ \A t \in S.trans : \A r \in ForwardRules(rules, t.from, t.stk) :
          /\ RuleTarget(t, r) \in S.trans
          /\ Leq(Extend(S.weight[t], r.weight), S.weight[RuleTarget(t, r)])
          /\ IsPush(r) => /\ Leq(S.weight[t], S.at[Mid(t, r)])
                          /\ Entry(r) \in S.trans /\ Leq(One, S.weight[Entry(r)])
    /\ \A e, u \in S.trans : e.stk = EPS /\ u.from = e.to =>
          /\ Bypass(e, u) \in S.trans
          /\ \A w \in Returned(S, e, u) : Leq(w, S.weight[Bypass(e, u)])

(* The weights at the calls of this query are not above those of S. *)
AtBelow(c, S) == \A u \in DOMAIN c : OfThisQuery(u.from) => Leq(c[u].at, S.at[u])

(* An ETrans is the input's, or was made by a rule, at a call of this query. *)
CallsKnown(A, c) ==
    /\ DOMAIN input.call \subseteq DOMAIN c
    /\ \A u \in DOMAIN c :
          IF OfThisQuery(u.from) THEN \E r \in rules : LeadsTo(r, u) /\ c[u].merge = r.merge
          ELSE u \in DOMAIN input.call /\ c[u] = input.call[u]
    /\ \A u \in A.trans : OfThisQuery(u.from) => u.stk # EPS /\ u \in DOMAIN c

PostBelow ==
    query = "post" /\ pc \in {"saturate", "done"} =>
        /\ \A g \in GenState : Leq(quasi[g], One)
        /\ CallsKnown(fa, call)
        /\ \A S : PostWeighted(S) /\ PostSolution(S) => Below(S) /\ AtBelow(call, S)

(***************************************************************************)
(* When poststar returns, every solution covers its output, the weights at *)
(* the calls included; and the output is a solution itself, unless a call  *)
(* is hidden or epsilon transitions of the input leave other states than   *)
(* control states.                                                         *)
(***************************************************************************)
Output == [trans |-> fa.trans, weight |-> fa.weight,
           at |-> [u \in fa.trans |-> AtCall(call, u)]]
PostLeastWhenDone ==
    query = "post" /\ pc = "done" =>
        /\ AllFromControl /\ Hidden = {} => PostWeighted(Output) /\ PostSolution(Output)
        /\ \A S : PostWeighted(S) /\ PostSolution(S) => Covers(S, fa) /\ AtBelow(call, S)

(* A merge of less is less, given merge functions that are monotone. *)
LEMMA MergeMono ==
    ASSUME MergesMonotone, NEW m \in Merge,
           NEW a \in Weight, NEW b \in Weight, NEW c \in Weight, NEW d \in Weight,
           Leq(a, b), Leq(c, d)
    PROVE  /\ apply_f(m, a, c) \in Weight /\ apply_f(m, b, d) \in Weight
           /\ Leq(apply_f(m, a, c), apply_f(m, b, d))
<1>1. /\ apply_f(m, a, c) \in Weight /\ apply_f(m, b, c) \in Weight
      /\ apply_f(m, b, d) \in Weight
  BY MergeSums
<1>2. Leq(apply_f(m, a, c), apply_f(m, b, c))
  <2>1. CASE \E w \in Weight : m = MergeFn(w)
    <3>1. PICK w \in Weight : m = MergeFn(w)
      BY <2>1
    <3>2. \A x, y : apply_f(m, x, y) = Extend(x, Extend(w, y))
      BY <3>1 DEF apply_f, MergeFn
    <3>3. Extend(w, c) \in Weight
      BY WeightClosed
    <3>4. Leq(Extend(w, c), Extend(w, c))
      BY <3>3, LeqBasics
    <3>5. QED
      BY <3>2, <3>3, <3>4, ExtendMono
  <2>2. CASE \E n \in Client : m = ClientFn(n)
    <3>1. PICK n \in Client : m = ClientFn(n)
      BY <2>2
    <3>2. \A x, y : apply_f(m, x, y) = ClientApply(n, x, y)
      BY <3>1, MergeAssumption DEF apply_f, ClientFn
    <3>3. QED
      BY <3>2 DEF MergesMonotone
  <2>3. QED
    BY <2>1, <2>2 DEF Merge
<1>3. Leq(apply_f(m, b, c), apply_f(m, b, d))
  <2>1. apply_f(m, b, Combine(d, c)) = Combine(apply_f(m, b, d), apply_f(m, b, c))
    BY MergeSums
  <2>2. QED
    BY <2>1 DEF Leq
<1>4. QED
  BY <1>1, <1>2, <1>3, LeqTrans

(* What the closure makes of an epsilon transition under S is under S. *)
LEMMA ThroughUnder ==
    ASSUME MergesMonotone, TypeOK, NEW A, NEW c, IsAutomaton(A), CallOf(A.trans, c),
           CallsKnown(A, c), NEW S, PostWeighted(S), PostSolution(S), Under(A, S), AtBelow(c, S),
           NEW e \in A.trans, NEW u \in A.trans, e.stk = EPS, u.from = e.to,
           u \in DOMAIN c => c[u].merge \in Merge,
           NEW w \in Weight, Leq(w, S.weight[e])
    PROVE  /\ Bypass(e, u) \in S.trans
           /\ Leq(Through(A, c, u, w), S.weight[Bypass(e, u)])
<1> DEFINE z == S.weight[Bypass(e, u)]
           x == S.weight[e]
<1>1. /\ e \in S.trans /\ u \in S.trans /\ Bypass(e, u) \in S.trans
      /\ x \in Weight /\ z \in Weight /\ S.weight[u] \in Weight /\ S.at[u] \in Weight
      /\ \A y \in Returned(S, e, u) : Leq(y, z)
  BY DEF Under, PostWeighted, IsWeighted, PostSolution
<1>2. A.weight[u] \in Weight /\ Leq(A.weight[u], S.weight[u]) /\ Leq(w, x)
  BY DEF IsAutomaton, Under
<1>3. CASE u \in DOMAIN c
  <2>1. c[u].at \in Weight /\ c[u].merge \in Merge
    BY <1>3 DEF CallOf
  <2> DEFINE m == c[u].merge
             at == c[u].at
  <2>2. Through(A, c, u, w) = apply_f(m, at, w)
    BY <1>3 DEF Through, poststar_eps_closure
  <2>3. \E b \in Weight : Leq(at, b) /\ apply_f(m, b, x) \in Returned(S, e, u)
    <3>1. CASE OfThisQuery(u.from)
      <4>1. PICK r \in rules : LeadsTo(r, u) /\ m = r.merge
        BY <1>3, <3>1 DEF CallsKnown
      <4>2. Leq(at, S.at[u])
        BY <1>3, <3>1 DEF AtBelow
      <4>3. apply_f(r.merge, S.at[u], x) \in Returned(S, e, u)
        BY <3>1, <4>1 DEF Returned
      <4>4. QED
        BY <1>1, <4>1, <4>2, <4>3
    <3>2. CASE ~ OfThisQuery(u.from)
      <4>1. u \in DOMAIN input.call /\ c[u] = input.call[u]
        BY <1>3, <3>2 DEF CallsKnown
      <4>2. apply_f(m, at, x) \in Returned(S, e, u)
        BY <3>2, <4>1 DEF Returned
      <4>3. QED
        BY <2>1, <4>2, LeqBasics
    <3>3. QED
      BY <3>1, <3>2
  <2> HIDE DEF m, at, x, z
  <2>4. PICK b \in Weight : Leq(at, b) /\ apply_f(m, b, x) \in Returned(S, e, u)
    BY <2>3
  <2>5. /\ apply_f(m, at, w) \in Weight /\ apply_f(m, b, x) \in Weight
        /\ Leq(apply_f(m, at, w), apply_f(m, b, x))
    <3>1. m \in Merge /\ at \in Weight
      BY <2>1 DEF m, at
    <3>2. QED
      BY <1>1, <1>2, <2>4, <3>1, MergeMono
  <2>6. Leq(apply_f(m, at, w), z)
    BY <1>1, <2>4, <2>5, LeqTrans
  <2>7. QED
    BY <1>1, <2>2, <2>6 DEF z
<1>4. CASE u \notin DOMAIN c
  <2>1. Through(A, c, u, w) = Extend(A.weight[u], w)
    BY <1>4 DEF Through, poststar_eps_closure
  <2>2. ~ OfThisQuery(u.from) /\ u \notin DOMAIN input.call
    BY <1>4 DEF CallsKnown
  <2>3. Leq(Extend(S.weight[u], x), z)
    BY <1>1, <2>2 DEF Returned
  <2>4. /\ Leq(Extend(A.weight[u], w), Extend(S.weight[u], x))
        /\ Extend(A.weight[u], w) \in Weight /\ Extend(S.weight[u], x) \in Weight
    <3> DEFINE a == A.weight[u]
               b == S.weight[u]
    <3>1. a \in Weight /\ b \in Weight /\ x \in Weight /\ Leq(a, b) /\ Leq(w, x)
      BY <1>1, <1>2
    <3> HIDE DEF a, b, x
    <3>2. /\ Extend(a, w) \in Weight /\ Extend(b, w) \in Weight /\ Extend(b, x) \in Weight
      BY <3>1, WeightClosed
    <3>3. Leq(Extend(a, w), Extend(b, w))
      BY <3>1, ExtendMono
    <3>4. Leq(Extend(b, w), Extend(b, x))
      BY <3>1, ExtendMono
    <3>5. Leq(Extend(a, w), Extend(b, x))
      BY <3>2, <3>3, <3>4, LeqTrans
    <3>6. QED
      BY <3>2, <3>5 DEF a, b, x
  <2> HIDE DEF x, z
  <2>5. Leq(Extend(A.weight[u], w), z)
    BY <1>1, <2>3, <2>4, LeqTrans
  <2>6. QED
    BY <1>1, <2>1, <2>5 DEF z
<1>5. QED
  BY <1>3, <1>4

(* What a rule makes of the transition at work is under S too. *)
LEMMA RuleUnder ==
    ASSUME ShapeInv, pc = "saturate", query = "post",
           NEW S, PostWeighted(S), PostSolution(S), Below(S), NEW r \in todo
    PROVE  /\ cur \in fa.trans /\ r \in rules /\ dnew \in Weight /\ r.weight \in Weight
           /\ RuleTarget(cur, r) \in S.trans
           /\ Leq(Extend(dnew, r.weight), S.weight[RuleTarget(cur, r)])
           /\ IsPush(r) => /\ Leq(dnew, S.at[Mid(cur, r)]) /\ S.at[Mid(cur, r)] \in Weight
                           /\ Entry(r) \in S.trans /\ Leq(One, S.weight[Entry(r)])
<1>1. /\ TypeOK /\ dnew \in Weight /\ cur \in fa.trans
      /\ r \in ForwardRules(rules, cur.from, cur.stk)
  BY WhileSaturating DEF ShapeInv, PhaseOK
<1>2. r \in rules /\ r.weight \in Weight
  BY <1>1, RuleParts DEF ForwardRules
<1>3. /\ cur \in S.trans /\ S.weight[cur] \in Weight /\ Leq(dnew, S.weight[cur])
  BY <1>1 DEF Below, Under, PostWeighted, IsWeighted
<1>4. /\ RuleTarget(cur, r) \in S.trans /\ S.weight[RuleTarget(cur, r)] \in Weight
      /\ Leq(Extend(S.weight[cur], r.weight), S.weight[RuleTarget(cur, r)])
      /\ IsPush(r) => /\ Leq(S.weight[cur], S.at[Mid(cur, r)])
                      /\ Entry(r) \in S.trans /\ Leq(One, S.weight[Entry(r)])
  BY <1>1, <1>3 DEF PostSolution, PostWeighted, IsWeighted
<1>5. /\ Leq(Extend(dnew, r.weight), Extend(S.weight[cur], r.weight))
      /\ Extend(dnew, r.weight) \in Weight /\ Extend(S.weight[cur], r.weight) \in Weight
  BY <1>1, <1>2, <1>3, ExtendMono, WeightClosed, LeqBasics
<1>6. Leq(Extend(dnew, r.weight), S.weight[RuleTarget(cur, r)])
  BY <1>4, <1>5, LeqTrans
<1>7. ASSUME IsPush(r)
      PROVE  Leq(dnew, S.at[Mid(cur, r)]) /\ S.at[Mid(cur, r)] \in Weight
  <2>1. Mid(cur, r) \in S.trans /\ S.at[Mid(cur, r)] \in Weight
    BY <1>4, <1>7 DEF RuleTarget, PostWeighted
  <2>2. QED
    BY <1>1, <1>3, <1>4, <1>7, <2>1, LeqTrans
<1>8. QED
  BY <1>1, <1>2, <1>4, <1>6, <1>7

(* New transitions that leave no state of this query change nothing of the calls. *)
LEMMA KnownKept ==
    ASSUME NEW A, NEW c, CallsKnown(A, c), NEW B,
           \A k \in B.trans \ A.trans : ~ OfThisQuery(k.from)
    PROVE  CallsKnown(B, c)
BY DEF CallsKnown

(* A step of poststar keeps PostBelow when it keeps what concerns fa. *)
LEMMA PostBelowStep ==
    ASSUME UNCHANGED <<rules, input, gen>>, \A g \in GenState : Leq(quasi'[g], One),
           CallsKnown(fa', call'),
           \A S : PostWeighted(S) /\ PostSolution(S) =>
                     /\ Under(fa', S) /\ AtBelow(call', S)
                     /\ todo' # {} \/ calls' # {} => Leq(dnew', S.weight[cur'])
    PROVE  PostBelow'
<1>1. \A q : OfThisQuery(q)' <=> OfThisQuery(q)
  BY DEF OfThisQuery
<1>2. \A t, r : /\ RuleTarget(t, r)' = RuleTarget(t, r) /\ Mid(t, r)' = Mid(t, r)
                /\ Entry(r)' = Entry(r) /\ (LeadsTo(r, t)' <=> LeadsTo(r, t))
  BY DEF RuleTarget, Mid, Entry, LeadsTo
<1>3. CallsKnown(fa, call)'
  BY <1>1, <1>2 DEF CallsKnown
<1>4. ASSUME NEW S, PostWeighted(S), PostSolution(S)'
      PROVE  Below(S)' /\ AtBelow(call, S)'
  <2>1. \A e, u : Returned(S, e, u)' = Returned(S, e, u)
    BY <1>1, <1>2 DEF Returned
  <2>2. PostSolution(S)
    BY <1>2, <1>4, <2>1 DEF PostSolution, Covers
  <2>3. /\ Under(fa', S) /\ AtBelow(call', S)
        /\ todo' # {} \/ calls' # {} => Leq(dnew', S.weight[cur'])
    BY <1>4, <2>2
  <2>4. QED
    BY <1>1, <2>3 DEF Below, Under, AtBelow
<1>5. QED
  BY <1>3, <1>4 DEF PostBelow

(* What PostBelow says while poststar runs. *)
LEMMA WhileBelow ==
    ASSUME ShapeInv, PostBelow, pc = "saturate", query = "post"
    PROVE  /\ TypeOK /\ IsAutomaton(fa) /\ CallOf(fa.trans, call) /\ dnew \in Weight
           /\ calls = {} \/ todo # {}
           /\ \A g \in GenState : Leq(quasi[g], One)
           /\ CallsKnown(fa, call)
           /\ \A S : PostWeighted(S) /\ PostSolution(S) =>
                 Below(S) /\ Under(fa, S) /\ AtBelow(call, S)
<1>1. /\ TypeOK /\ IsAutomaton(fa) /\ CallOf(fa.trans, call) /\ dnew \in Weight
  BY WhileSaturating
<1>2. calls = {} \/ todo # {}
  BY DEF ShapeInv, PhaseOK
<1>3. QED
  BY <1>1, <1>2 DEF PostBelow, Below

(* Before the loop the output is the input. *)
LEMMA SetupPostBelow ==
    ASSUME ShapeInv, Setup
    PROVE  PostBelow'
<1> SUFFICES ASSUME query = "post" PROVE PostBelow'
  BY SetupFacts DEF PostBelow
<1> DEFINE A == CopyOf(input)
<1>1. /\ IsAutomaton(A) /\ A.trans = input.trans /\ CallOf(A.trans, input.call)
      /\ todo = {} /\ calls = {}
      /\ InputOK([trans |-> input.trans, weight |-> input.weight, gen |-> input.gen])
      /\ gen' = input.gen + 1
      /\ UNCHANGED <<rules, input, query, todo, calls>>
      /\ \E K \in SUBSET Key : \E ins \in [K -> Weight] :
           /\ fa' = Update(A, ins)
           /\ call' = SummaryTrans(A, input.call, K)
           /\ query = "post" => K = {}
  BY SetupFacts DEF database, work
<1>2. PICK K \in SUBSET Key : \E ins \in [K -> Weight] :
           /\ fa' = Update(A, ins)
           /\ call' = SummaryTrans(A, input.call, K)
           /\ K = {}
  BY <1>1
<1>3. PICK ins \in [K -> Weight] : fa' = Update(A, ins)
  BY <1>2
<1>4. call' = input.call
  <2> DEFINE old == input.call
  <2>1. CallOf(A.trans, old)
    BY <1>1
  <2> HIDE DEF A, old
  <2>2. SummaryTrans(A, old, {}) = old
    BY <2>1, NoSummary
  <2>3. QED
    BY <1>2, <2>2 DEF old
<1>5. A.weight = input.weight /\ A.delta = input.weight
  BY DEF CopyOf
<1> HIDE DEF A
<1>6. fa'.trans = input.trans
  <2>1. Update(A, ins).trans = A.trans \cup K
    BY <1>1, UpdateFacts
  <2>2. K = {}
    BY <1>2
  <2>3. QED
    BY <1>1, <1>3, <2>1, <2>2
<1>7. \A u \in input.trans : ~ OfThisQuery(u.from)'
  BY <1>1 DEF InputOK, IsInput, OfThisQuery, Generation, GenState
<1>8. CallsKnown(fa, call)'
  BY <1>1, <1>4, <1>6, <1>7 DEF CallsKnown, CallOf
<1>9. ASSUME NEW S, PostWeighted(S), PostSolution(S)'
      PROVE  Below(S)' /\ AtBelow(call, S)'
  <2>1. Covers(S, input)
    BY <1>1, <1>9 DEF PostSolution, Covers
  <2>2. Under(A, S) /\ IsWeighted(S)
    BY <1>1, <1>5, <1>9, <2>1 DEF Under, Covers, PostWeighted
  <2>3. Under(fa', S)
    BY <1>1, <1>2, <1>3, <2>2, UpdateUnder
  <2>4. AtBelow(call, S)'
    BY <1>1, <1>4, <1>7 DEF AtBelow, CallOf
  <2>5. QED
    BY <1>1, <2>3, <2>4 DEF Below, Under
<1>10. \A g \in GenState : Leq(quasi'[g], One)
  BY LeqBasics, WeightClosed DEF Setup
<1>11. QED
  BY <1>8, <1>9, <1>10 DEF PostBelow

(* The delta popped was under every solution. *)
LEMMA PopBelow ==
    ASSUME ShapeInv, PostBelow, query = "post", PopTransition
    PROVE  PostBelow'
<1>1. pc = "saturate" /\ UNCHANGED <<rules, input, call, gen, quasi>>
  BY DEF PopTransition, Saturating, database
<1>2. /\ IsAutomaton(fa) /\ \A g \in GenState : Leq(quasi[g], One)
      /\ CallsKnown(fa, call)
      /\ \A S : PostWeighted(S) /\ PostSolution(S) => Under(fa, S) /\ AtBelow(call, S)
  BY <1>1, WhileBelow
<1>3. PICK t \in fa.marked : cur' = t /\ dnew' = fa.delta[t] /\ fa' = Take(fa, t)
  BY DEF PopTransition
<1>4. t \in fa.trans
  BY <1>2 DEF IsAutomaton
<1>5. fa'.trans = fa.trans
  BY <1>2, <1>3, <1>4, TakeFacts
<1>6. CallsKnown(fa', call')
  BY <1>1, <1>2, <1>5, KnownKept
<1>7. ASSUME NEW S, PostWeighted(S), PostSolution(S)
      PROVE  Under(fa', S) /\ AtBelow(call', S) /\ Leq(dnew', S.weight[cur'])
  BY <1>1, <1>2, <1>3, <1>4, <1>7, TakeUnder DEF PostWeighted
<1>8. QED
  BY <1>1, <1>2, <1>6, <1>7, PostBelowStep

(* An epsilon transition is closed over with what a solution has as well. *)
LEMMA EpsilonBelow ==
    ASSUME MergesMonotone, ShapeInv, PostBelow, PopEpsilon
    PROVE  PostBelow'
<1>1. /\ pc = "saturate" /\ query = "post"
      /\ UNCHANGED <<rules, input, call, gen, quasi, todo, calls, cur, dnew>>
  BY DEF PopEpsilon, Saturating, database, work
<1>2. /\ TypeOK /\ IsAutomaton(fa) /\ CallOf(fa.trans, call)
      /\ \A g \in GenState : Leq(quasi[g], One)
      /\ CallsKnown(fa, call)
      /\ \A S : PostWeighted(S) /\ PostSolution(S) =>
            Below(S) /\ Under(fa, S) /\ AtBelow(call, S)
  BY <1>1, WhileBelow
<1>3. /\ todo = {} /\ calls = {}
      /\ \E e \in fa.marked :
           LET A == Take(fa, e)
               ins == Bypasses(A, call, e, D(fa, e))
               K == BypassKeys(A, e)
           IN  /\ e \in fa.trans /\ e.stk = EPS
               /\ D(fa, e) \in Weight
               /\ \A u \in Leaving(A, e.to) : u \in DOMAIN call => call[u].merge \in Merge
               /\ IsAutomaton(A) /\ A.trans = fa.trans
               /\ K \in SUBSET Key /\ ins \in [K -> Weight]
               /\ fa' = Update(A, ins)
               /\ fa'.trans = fa.trans \cup K
  BY EpsilonFacts
<1>4. PICK e \in fa.marked :
           LET A == Take(fa, e)
               ins == Bypasses(A, call, e, D(fa, e))
               K == BypassKeys(A, e)
           IN  /\ e \in fa.trans /\ e.stk = EPS
               /\ D(fa, e) \in Weight
               /\ \A u \in Leaving(A, e.to) : u \in DOMAIN call => call[u].merge \in Merge
               /\ IsAutomaton(A) /\ A.trans = fa.trans
               /\ K \in SUBSET Key /\ ins \in [K -> Weight]
               /\ fa' = Update(A, ins)
               /\ fa'.trans = fa.trans \cup K
  BY <1>3
<1> DEFINE A == Take(fa, e)
           K == BypassKeys(A, e)
           w == D(fa, e)
           ins == Bypasses(A, call, e, w)
<1>5. /\ e \in A.trans /\ e.stk = EPS /\ w \in Weight /\ w = fa.delta[e]
      /\ \A u \in Leaving(A, e.to) : u \in DOMAIN call => call[u].merge \in Merge
      /\ IsAutomaton(A) /\ A.trans = fa.trans /\ CallOf(A.trans, call)
      /\ K \in SUBSET Key /\ ins \in [K -> Weight]
      /\ fa' = Update(A, ins) /\ fa'.trans = fa.trans \cup K
  BY <1>2, <1>4 DEF D
<1>6. CallsKnown(A, call)
  BY <1>2, <1>4, KnownKept
<1>7. ASSUME NEW S, PostWeighted(S), Under(fa, S)
      PROVE  Under(A, S) /\ Leq(w, S.weight[e])
  <2>1. e \in fa.trans /\ IsWeighted(S)
    BY <1>4, <1>7 DEF PostWeighted
  <2>2. QED
    BY <1>2, <1>5, <1>7, <2>1, TakeUnder
<1> HIDE DEF A, w
<1>8. /\ \A k \in K : \E u \in Leaving(A, e.to) :
            u \in A.trans /\ u.from = e.to /\ k = Bypass(e, u) /\ k.from = e.from
      /\ \A u \in Leaving(A, e.to) : ins[Bypass(e, u)] = Through(A, call, u, w)
  BY <1>5, BypassFacts
<1> HIDE DEF K, ins
<1>9. CallsKnown(fa', call')
  <2>1. ~ OfThisQuery(e.from)
    BY <1>5, <1>6 DEF CallsKnown
  <2>2. \A k \in fa'.trans \ fa.trans : ~ OfThisQuery(k.from)
    BY <1>5, <1>8, <2>1
  <2>3. QED
    BY <1>1, <1>2, <2>2, KnownKept
<1>10. ASSUME NEW S, PostWeighted(S), PostSolution(S)
       PROVE  Under(fa', S) /\ AtBelow(call', S)
  <2>1. Under(fa, S) /\ AtBelow(call, S) /\ IsWeighted(S)
    BY <1>2, <1>10 DEF PostWeighted
  <2>2. Under(A, S) /\ Leq(w, S.weight[e])
    BY <1>7, <1>10, <2>1
  <2>3. ASSUME NEW k \in K PROVE k \in S.trans /\ Leq(ins[k], S.weight[k])
    <3>1. PICK u \in Leaving(A, e.to) : u \in A.trans /\ u.from = e.to /\ k = Bypass(e, u)
      BY <1>8
    <3>2. ins[k] = Through(A, call, u, w)
      BY <1>8, <3>1
    <3>3. u \in DOMAIN call => call[u].merge \in Merge
      BY <1>5
    <3>4. Bypass(e, u) \in S.trans /\ Leq(Through(A, call, u, w), S.weight[Bypass(e, u)])
      BY <1>2, <1>5, <1>6, <1>10, <2>1, <2>2, <3>1, <3>3, ThroughUnder
    <3>5. QED
      BY <3>1, <3>2, <3>4
  <2>4. Under(Update(A, ins), S)
    BY <1>5, <2>1, <2>2, <2>3, UpdateUnder
  <2>5. QED
    BY <1>1, <1>5, <2>1, <2>4
<1>11. QED
  BY <1>1, <1>2, <1>3, <1>9, <1>10, PostBelowStep

(* A rule that does not push adds what a solution has as well. *)
LEMMA PostRuleBelow ==
    ASSUME ShapeInv, PostBelow, PostRule
    PROVE  PostBelow'
<1>1. /\ pc = "saturate" /\ query = "post"
      /\ UNCHANGED <<rules, input, call, gen, quasi, calls, cur, dnew>>
  BY DEF PostRule, database
<1>2. /\ TypeOK /\ IsAutomaton(fa) /\ (calls = {} \/ todo # {})
      /\ \A g \in GenState : Leq(quasi[g], One)
      /\ CallsKnown(fa, call)
      /\ \A S : PostWeighted(S) /\ PostSolution(S) =>
            Below(S) /\ Under(fa, S) /\ AtBelow(call, S)
  BY <1>1, WhileBelow
<1>3. PICK r \in todo :
              LET k == Callee(r, cur.to)
                  w == Extend(dnew, r.weight)
              IN  /\ ~ IsPush(r)
                  /\ k = RuleTarget(cur, r) /\ k \in Key /\ k.from \in P
                  /\ w \in Weight
                  /\ fa' = Update(fa, At(k, w))
                  /\ todo' = todo \ {r}
  BY PostRuleFacts
<1> DEFINE k == RuleTarget(cur, r)
           w == Extend(dnew, r.weight)
           ins == At(k, w)
<1>4. /\ k \in Key /\ k.from \in P /\ fa' = Update(fa, ins)
      /\ {k} \in SUBSET Key /\ ins \in [{k} -> Weight] /\ ins[k] = w
  BY <1>3 DEF At
<1> HIDE DEF k, w, ins
<1>5. fa'.trans = fa.trans \cup {k}
  BY <1>2, <1>4, UpdateFacts
<1>6. CallsKnown(fa', call')
  <2>1. ~ OfThisQuery(k.from)
    BY <1>4, WfaAssumption DEF OfThisQuery
  <2>2. QED
    BY <1>1, <1>2, <1>5, <2>1, KnownKept
<1>7. ASSUME NEW S, PostWeighted(S), PostSolution(S)
      PROVE  /\ Under(fa', S) /\ AtBelow(call', S)
             /\ Leq(dnew', S.weight[cur'])
  <2>1. /\ Below(S) /\ Under(fa, S) /\ AtBelow(call, S) /\ IsWeighted(S)
        /\ Leq(dnew, S.weight[cur])
    BY <1>2, <1>7 DEF PostWeighted, Below
  <2>2. k \in S.trans /\ Leq(w, S.weight[k])
    BY <1>1, <1>7, <2>1, RuleUnder DEF k, w
  <2>3. Under(fa', S)
    BY <1>2, <1>4, <2>1, <2>2, UpdateUnder
  <2>4. QED
    BY <1>1, <2>1, <2>3
<1>8. QED
  BY <1>1, <1>2, <1>6, <1>7, PostBelowStep

(* So does a push rule, with its closure. *)
LEMMA PostPushBelow ==
    ASSUME MergesMonotone, ShapeInv, PostBelow, PostPush
    PROVE  PostBelow'
<1>1. /\ pc = "saturate" /\ query = "post"
      /\ UNCHANGED <<rules, input, gen, calls, cur, dnew>>
  BY DEF PostPush, database
<1>2. /\ TypeOK /\ IsAutomaton(fa) /\ CallOf(fa.trans, call) /\ dnew \in Weight
      /\ \A g \in GenState : Leq(quasi[g], One)
      /\ quasi \in [GenState -> Weight] /\ One \in Weight
      /\ CallsKnown(fa, call)
      /\ \A S : PostWeighted(S) /\ PostSolution(S) =>
            Below(S) /\ Under(fa, S) /\ AtBelow(call, S)
  BY <1>1, WhileBelow, WeightClosed DEF TypeOK
<1>3. PICK r \in todo :
              LET mid == Mid(cur, r)
                  wmid == Extend(dnew, r.weight)
                  qone == Combine(quasi[mid.from], One)
                  A1 == Insert(fa, At(mid, wmid))
                  A2 == Update(A1, At(Entry(r), qone))
                  c2 == CallAfter(call, mid, r, dnew)
              IN  /\ IsPush(r) /\ r \in rules /\ r.merge \in Merge
                  /\ mid = RuleTarget(cur, r) /\ LeadsTo(r, mid)
                  /\ mid \in Key /\ mid.stk # EPS
                  /\ OfThisQuery(mid.from) /\ mid.from \notin P
                  /\ Entry(r) \in Key /\ Entry(r).from \in P
                  /\ wmid \in Weight /\ qone \in Weight
                  /\ call' = c2
                  /\ fa' = IF Modified(fa, mid, wmid) THEN Update(A2, Closure(A2, c2, mid))
                           ELSE A2
                  /\ todo' = todo \ {r}
  BY PostPushFacts
<1>4. \A g \in GenState : Leq(quasi'[g], One)
  <2>1. PICK s \in todo : LET g == gen_state(gen, s.to, s.stk1) IN
                            quasi' = [quasi EXCEPT ![g] = Combine(quasi[g], One)]
    BY DEF PostPush
  <2> DEFINE h == gen_state(gen, s.to, s.stk1)
  <2>2. quasi' = [quasi EXCEPT ![h] = Combine(quasi[h], One)]
    BY <2>1
  <2> HIDE DEF h
  <2> SUFFICES ASSUME NEW g \in GenState PROVE Leq(quasi'[g], One)
    OBVIOUS
  <2>3. Leq(Combine(quasi[g], One), One)
    BY <1>2, CombineLeast, LeqBasics
  <2>4. QED
    BY <1>2, <2>2, <2>3
<1> DEFINE mid == Mid(cur, r)
           ent == Entry(r)
           wmid == Extend(dnew, r.weight)
           qone == Combine(quasi[mid.from], One)
           A1 == Insert(fa, At(mid, wmid))
           A2 == Update(A1, At(ent, qone))
           c2 == CallAfter(call, mid, r, dnew)
           K == ClosureKeys(A2, mid)
           ins == Closure(A2, c2, mid)
<1>5. /\ IsPush(r) /\ r \in rules /\ r.merge \in Merge
      /\ mid = RuleTarget(cur, r) /\ LeadsTo(r, mid)
      /\ mid \in Key /\ mid.stk # EPS /\ OfThisQuery(mid.from) /\ mid.from \notin P
      /\ ent \in Key /\ ent.from \in P
      /\ wmid \in Weight /\ qone \in Weight
      /\ call' = c2
      /\ fa' = Update(A2, ins) \/ fa' = A2
  BY <1>3
<1>6. Leq(qone, One)
  <2>1. mid.from \in GenState
    BY <1>5 DEF OfThisQuery
  <2>2. QED
    BY <1>2, <2>1, CombineLeast, LeqBasics
<1>7. /\ IsAutomaton(A1) /\ A1.trans = fa.trans \cup {mid}
      /\ IsAutomaton(A2) /\ A2.trans = fa.trans \cup {mid, ent}
      /\ CallOf(A2.trans, c2) /\ DOMAIN c2 = DOMAIN call \cup {mid}
      /\ \A k \in DOMAIN call \ {mid} : c2[k] = call[k]
      /\ c2[mid].merge \in Merge
  <2> HIDE DEF mid, ent, wmid, qone
  <2>1. QED
    BY <1>1, <1>5, AfterCall DEF A1, A2, c2
<1>8. /\ \A k \in DOMAIN call : c2[k].merge = call[k].merge
      /\ mid \notin DOMAIN call => c2[mid].merge = r.merge
      /\ c2[mid].at = Combine(AtCall(call, mid), dnew)
  <2> DEFINE T == fa.trans
  <2>1. CallOf(T, call) /\ r.merge \in Merge /\ dnew \in Weight
    BY <1>2, <1>5
  <2> HIDE DEF mid, T
  <2>2. /\ DOMAIN c2 = DOMAIN call \cup {mid}
        /\ \A k \in DOMAIN call : c2[k].merge = call[k].merge
        /\ \A k \in DOMAIN call \ {mid} : c2[k] = call[k]
        /\ mid \notin DOMAIN call => c2[mid].merge = r.merge
        /\ c2[mid].at = Combine(AtCall(call, mid), dnew)
        /\ CallOf(T \cup {mid}, c2)
    BY <2>1, CallAfterFacts
  <2>3. QED
    BY <2>2
<1> HIDE DEF mid, ent, wmid, qone, A1, A2, c2
<1>9. CallsKnown(A2, c2)
  <2>1. ASSUME NEW u \in DOMAIN c2
        PROVE  IF OfThisQuery(u.from) THEN \E x \in rules : LeadsTo(x, u) /\ c2[u].merge = x.merge
               ELSE u \in DOMAIN input.call /\ c2[u] = input.call[u]
    <3>1. CASE u = mid /\ mid \notin DOMAIN call
      BY <1>5, <1>8, <3>1
    <3>2. CASE u = mid /\ mid \in DOMAIN call
      <4>1. \E x \in rules : LeadsTo(x, u) /\ call[u].merge = x.merge
        BY <1>2, <1>5, <3>2 DEF CallsKnown
      <4>2. QED
        BY <1>5, <1>8, <3>2, <4>1
    <3>3. CASE u # mid
      BY <1>2, <1>7, <3>3 DEF CallsKnown
    <3>4. QED
      BY <3>1, <3>2, <3>3
  <2>2. ASSUME NEW u \in A2.trans, OfThisQuery(u.from)
        PROVE  u.stk # EPS /\ u \in DOMAIN c2
    <3>1. u # ent \/ u \in fa.trans \cup {mid}
      BY <1>5, <2>2, WfaAssumption DEF OfThisQuery
    <3>2. QED
      BY <1>2, <1>5, <1>7, <2>2, <3>1 DEF CallsKnown
  <2>3. QED
    BY <1>2, <1>7, <2>1, <2>2 DEF CallsKnown
<1>10. /\ K \in SUBSET Key /\ ins \in [K -> Weight]
       /\ \A k \in K : \E e \in EpsInto(A2, mid.from) :
             /\ e \in A2.trans /\ e.stk = EPS /\ e.to = mid.from
             /\ k = Bypass(e, mid) /\ k.from = e.from
       /\ \A e \in EpsInto(A2, mid.from) : ins[Bypass(e, mid)] = Through(A2, c2, mid, W(A2, e))
  <2>1. /\ IsAutomaton(A2) /\ CallOf(A2.trans, c2) /\ mid \in A2.trans
        /\ (mid \in DOMAIN c2 => c2[mid].merge \in Merge)
    BY <1>7
  <2>2. /\ K \in SUBSET Key /\ ins \in [K -> Weight]
        /\ \A k \in K : \E e \in EpsInto(A2, mid.from) :
              /\ e \in A2.trans /\ e.stk = EPS /\ e.to = mid.from
              /\ k = Bypass(e, mid)
              /\ k.from = e.from /\ k.stk = mid.stk /\ k.to = mid.to
        /\ \A e \in EpsInto(A2, mid.from) :
              /\ Bypass(e, mid) \in K
              /\ ins[Bypass(e, mid)] = Through(A2, c2, mid, W(A2, e))
    BY ONLY <2>1, ClosureFacts
  <2>3. QED
    BY <2>2
<1> HIDE DEF K, ins
<1>11. fa'.trans \subseteq A2.trans \cup K
  <2>1. Update(A2, ins).trans = A2.trans \cup K
    BY <1>7, <1>10, UpdateFacts, ZenonT(60)
  <2>2. QED
    BY <1>5, <2>1
<1>12. CallsKnown(fa', call')
  <2>1. ASSUME NEW k \in fa'.trans \ A2.trans PROVE ~ OfThisQuery(k.from)
    <3>1. PICK e \in A2.trans : e.stk = EPS /\ k.from = e.from
      BY <1>10, <1>11
    <3>2. QED
      BY <1>9, <3>1 DEF CallsKnown
  <2>2. QED
    BY <1>5, <1>9, <2>1, KnownKept
<1>13. ASSUME NEW S, PostWeighted(S), PostSolution(S)
       PROVE  /\ Under(fa', S) /\ AtBelow(call', S)
              /\ Leq(dnew', S.weight[cur'])
  <2>1. /\ Below(S) /\ Under(fa, S) /\ AtBelow(call, S) /\ IsWeighted(S)
        /\ Leq(dnew, S.weight[cur])
    BY <1>2, <1>13 DEF PostWeighted, Below
  <2>2. /\ mid \in S.trans /\ Leq(wmid, S.weight[mid])
        /\ Leq(dnew, S.at[mid]) /\ S.at[mid] \in Weight
        /\ ent \in S.trans /\ Leq(One, S.weight[ent]) /\ S.weight[ent] \in Weight
    <3>1. /\ RuleTarget(cur, r) \in S.trans
          /\ Leq(Extend(dnew, r.weight), S.weight[RuleTarget(cur, r)])
          /\ Leq(dnew, S.at[Mid(cur, r)]) /\ S.at[Mid(cur, r)] \in Weight
          /\ Entry(r) \in S.trans /\ Leq(One, S.weight[Entry(r)])
      BY <1>1, <1>5, <1>13, <2>1, RuleUnder
    <3>2. S.weight[Entry(r)] \in Weight
      BY <2>1, <3>1 DEF IsWeighted
    <3>3. QED
      BY <1>5, <3>1, <3>2 DEF mid, ent, wmid
  <2>3. Leq(qone, S.weight[ent])
    BY <1>2, <1>5, <1>6, <2>2, LeqTrans
  <2>4. Under(A1, S)
    <3> DEFINE one == At(mid, wmid)
    <3>1. {mid} \in SUBSET Key /\ one \in [{mid} -> Weight] /\ \A k \in {mid} : one[k] = wmid
      BY <1>5 DEF At
    <3> HIDE DEF one
    <3>2. Under(Insert(fa, one), S)
      BY <1>2, <2>1, <2>2, <3>1, UpdateUnder
    <3>3. QED
      BY <3>2 DEF A1, one
  <2>5. Under(A2, S)
    <3> DEFINE one == At(ent, qone)
    <3>1. {ent} \in SUBSET Key /\ one \in [{ent} -> Weight] /\ \A k \in {ent} : one[k] = qone
      BY <1>5 DEF At
    <3> HIDE DEF one
    <3>2. Under(Update(A1, one), S)
      BY <1>7, <2>1, <2>2, <2>3, <2>4, <3>1, UpdateUnder
    <3>3. QED
      BY <3>2 DEF A2, one
  <2>6. AtBelow(c2, S)
    <3>1. Leq(c2[mid].at, S.at[mid])
      <4>1. AtCall(call, mid) \in Weight /\ Leq(AtCall(call, mid), S.at[mid])
        <5>1. CASE mid \in DOMAIN call
          <6>1. call[mid].at \in Weight
            BY <1>2, <5>1 DEF CallOf
          <6>2. QED
            BY <1>5, <2>1, <5>1, <6>1 DEF AtCall, AtBelow
        <5>2. CASE mid \notin DOMAIN call
          BY <2>2, <5>2, LeqBasics, WeightClosed DEF AtCall
        <5>3. QED
          BY <5>1, <5>2
      <4>2. QED
        BY <1>2, <1>8, <2>2, <4>1, CombineLeast
    <3>2. \A k \in DOMAIN call \ {mid} : OfThisQuery(k.from) => Leq(c2[k].at, S.at[k])
      BY <1>7, <2>1 DEF AtBelow
    <3>3. QED
      BY <1>7, <3>1, <3>2 DEF AtBelow
  <2>7. ASSUME NEW k \in K PROVE k \in S.trans /\ Leq(ins[k], S.weight[k])
    <3>1. PICK e \in EpsInto(A2, mid.from) :
             e \in A2.trans /\ e.stk = EPS /\ e.to = mid.from /\ k = Bypass(e, mid)
      BY <1>10
    <3>2. ins[k] = Through(A2, c2, mid, W(A2, e))
      BY <1>10, <3>1
    <3>3. W(A2, e) \in Weight /\ Leq(W(A2, e), S.weight[e]) /\ mid \in A2.trans
      <4>1. W(A2, e) = A2.weight[e] /\ e \in Key
        BY <1>7, <3>1 DEF W, IsAutomaton
      <4>2. QED
        BY <1>7, <2>5, <3>1, <4>1, WeightTyped DEF Under
    <3>4. Bypass(e, mid) \in S.trans
          /\ Leq(Through(A2, c2, mid, W(A2, e)), S.weight[Bypass(e, mid)])
      BY <1>2, <1>7, <1>9, <1>13, <2>5, <2>6, <3>1, <3>3, ThroughUnder
    <3>5. QED
      BY <3>1, <3>2, <3>4
  <2>8. Under(fa', S)
    <3>1. Under(Update(A2, ins), S)
      BY <1>7, <1>10, <2>1, <2>5, <2>7, UpdateUnder
    <3>2. QED
      BY <1>5, <2>5, <3>1
  <2>9. QED
    BY <1>1, <1>5, <2>1, <2>6, <2>8
<1>14. QED
  BY <1>1, <1>4, <1>12, <1>13, PostBelowStep

(* Every step of a session keeps poststar below the solutions. *)
LEMMA NextPostBelow ==
    MergesMonotone /\ ShapeInv /\ PostBelow /\ [Next]_vars => PostBelow'
<1> SUFFICES ASSUME MergesMonotone, ShapeInv, PostBelow, [Next]_vars PROVE PostBelow'
  OBVIOUS
<1>1. CASE Build \/ Ask \/ AskAgain
  <2>1. pc' \notin {"saturate", "done"}
    BY <1>1 DEF Build, AddNew, AddAgain, EraseRule, Copy, Ask, AskAgain, Asked
  <2>2. QED
    BY <2>1 DEF PostBelow
<1>2. CASE Setup
  BY <1>2, SetupPostBelow
<1>3. CASE PopTransition
  <2>1. CASE query = "post"
    BY <1>3, <2>1, PopBelow
  <2>2. CASE query # "post"
    BY <1>3, <2>2 DEF PopTransition, PostBelow
  <2>3. QED
    BY <2>1, <2>2
<1>4. CASE PopEpsilon
  BY <1>4, EpsilonBelow
<1>5. CASE PostRule
  BY <1>5, PostRuleBelow
<1>6. CASE PostPush
  BY <1>6, PostPushBelow
<1>7. CASE PreRule \/ PrePushFirst \/ PrePushSecond
  BY <1>7 DEF PostBelow, PreRule, PrePushFirst, PrePushSecond
<1>8. CASE Finish \/ UNCHANGED vars
  <2>1. /\ UNCHANGED <<rules, input, gen, quasi, fa, call, query, todo, calls>>
        /\ \/ todo = {} /\ calls = {} /\ pc = "saturate"
           \/ UNCHANGED <<pc, cur, dnew>>
    BY <1>8 DEF Finish, Saturating, vars, database, work
  <2>2. CASE query = "post" /\ pc \in {"saturate", "done"}
    <3>1. /\ \A g \in GenState : Leq(quasi'[g], One)
          /\ CallsKnown(fa', call')
          /\ \A S : PostWeighted(S) /\ PostSolution(S) =>
                /\ Under(fa', S) /\ AtBelow(call', S)
                /\ todo' # {} \/ calls' # {} => Leq(dnew', S.weight[cur'])
      BY <2>1, <2>2 DEF PostBelow, Below
    <3>2. QED
      BY <2>1, <3>1, PostBelowStep
  <2>3. CASE ~ (query = "post" /\ pc \in {"saturate", "done"})
    BY <2>1, <2>3 DEF PostBelow
  <2>4. QED
    BY <2>2, <2>3
<1>9. QED
  BY <1>1, <1>2, <1>3, <1>4, <1>5, <1>6, <1>7, <1>8 DEF Next, Query

(* Without hidden calls the output of poststar solves the equations. *)
LEMMA OutputSolves ==
    ASSUME AllFromControl, ShapeInv, PostInv, PostBelow, pc = "done", query = "post",
           Hidden = {}
    PROVE  PostWeighted(Output) /\ PostSolution(Output)
<1> DEFINE S == Output
<1>1. /\ TypeOK /\ IsAutomaton(fa) /\ CallOf(fa.trans, call) /\ CallsKnown(fa, call)
  BY DEF ShapeInv, TypeOK, PostBelow
<1>2. /\ Covers(fa, input) /\ StepsDone /\ CallsDone /\ ReturnsMerged(fa.trans \ Hidden)
  BY PostDone DEF PostSaturates
<1>3. /\ S.trans = fa.trans /\ S.weight = fa.weight
      /\ S.at = [u \in fa.trans |-> AtCall(call, u)]
  BY DEF Output
<1> HIDE DEF S
<1>4. \A u \in fa.trans : S.at[u] = AtCall(call, u) /\ AtCall(call, u) \in Weight
  BY <1>1, <1>3, WeightClosed DEF AtCall, CallOf
<1>5. PostWeighted(S)
  BY <1>1, <1>3, <1>4 DEF PostWeighted, IsWeighted, IsAutomaton
<1>6. Covers(S, input)
  BY <1>2, <1>3 DEF Covers
<1>7. ASSUME NEW t \in fa.trans, NEW r \in ForwardRules(rules, t.from, t.stk)
      PROVE  /\ RuleTarget(t, r) \in fa.trans
             /\ Leq(Extend(fa.weight[t], r.weight), fa.weight[RuleTarget(t, r)])
             /\ IsPush(r) => /\ Leq(fa.weight[t], AtCall(call, Mid(t, r)))
                             /\ Entry(r) \in fa.trans /\ Leq(One, fa.weight[Entry(r)])
  <2>1. CASE ~ IsPush(r)
    BY <1>2, <2>1 DEF StepsDone, RuleTarget, Callee
  <2>2. CASE IsPush(r)
    <3>1. /\ Mid(t, r) \in DOMAIN call
          /\ Leq(Extend(fa.weight[t], r.weight), fa.weight[Mid(t, r)])
          /\ Leq(fa.weight[t], call[Mid(t, r)].at)
          /\ Entry(r) \in fa.trans /\ Leq(One, fa.weight[Entry(r)])
      BY <1>2, <2>2 DEF CallsDone, Entry
    <3>2. QED
      BY <1>1, <2>2, <3>1 DEF RuleTarget, AtCall, CallOf
  <2>3. QED
    BY <2>1, <2>2
<1>8. ASSUME NEW e \in fa.trans, NEW u \in fa.trans, e.stk = EPS, u.from = e.to
      PROVE  /\ Bypass(e, u) \in fa.trans
             /\ \A w \in Returned(S, e, u) : Leq(w, fa.weight[Bypass(e, u)])
  <2>1. u \in Leaving(fa, e.to) \cap (fa.trans \ Hidden)
    BY <1>8 DEF Leaving
  <2>2. Merged(e, u)
    BY <1>2, <1>8, <2>1 DEF ReturnsMerged
  <2>3. [u EXCEPT !.from = e.from] = Bypass(e, u)
    BY <1>1 DEF IsAutomaton, Key, Bypass
  <2>4. /\ Bypass(e, u) \in fa.trans
        /\ Leq(poststar_eps_closure(fa, call, u, fa.weight[e]), fa.weight[Bypass(e, u)])
    BY <2>2, <2>3 DEF Merged
  <2>5. ASSUME NEW w \in Returned(S, e, u)
        PROVE  w = poststar_eps_closure(fa, call, u, fa.weight[e])
    <3>1. CASE OfThisQuery(u.from)
      <4>1. PICK r \in rules : LeadsTo(r, u) /\ w = apply_f(r.merge, S.at[u], fa.weight[e])
        BY <1>3, <2>5, <3>1 DEF Returned
      <4>2. u \in DOMAIN call /\ \E x \in rules : LeadsTo(x, u) /\ call[u].merge = x.merge
        BY <1>1, <3>1 DEF CallsKnown
      <4>3. PICK s \in rules : LeadsTo(s, u) /\ call[u].merge = s.merge
        BY <4>2
      <4>4. ~ Hiding(r) /\ IsPush(r) /\ IsPush(s)
        BY <4>1, <4>2, <4>3 DEF Hidden, LeadsTo
      <4>5. Rhs(s) = Rhs(r)
        BY <4>1, <4>3 DEF LeadsTo, gen_state, Rhs
      <4>6. s.merge = r.merge
        BY <4>4, <4>5 DEF Hiding
      <4>7. QED
        BY <1>4, <4>1, <4>2, <4>3, <4>6 DEF poststar_eps_closure, AtCall
    <3>2. CASE ~ OfThisQuery(u.from) /\ u \in DOMAIN call
      BY <1>1, <1>3, <2>5, <3>2 DEF CallsKnown, Returned, poststar_eps_closure
    <3>3. CASE ~ OfThisQuery(u.from) /\ u \notin DOMAIN call
      BY <1>1, <1>3, <2>5, <3>3 DEF CallsKnown, Returned, poststar_eps_closure
    <3>4. QED
      BY <3>1, <3>2, <3>3
  <2>6. QED
    BY <2>4, <2>5
<1>9. PostSolution(S)
  <2>1. \A t \in fa.trans : \A r \in ForwardRules(rules, t.from, t.stk) :
           IsPush(r) => S.at[Mid(t, r)] = AtCall(call, Mid(t, r))
    BY <1>4, <1>7 DEF RuleTarget
  <2>2. QED
    BY <1>3, <1>6, <1>7, <1>8, <2>1 DEF PostSolution
<1>10. QED
  BY <1>5, <1>9 DEF S

(***************************************************************************)
(* Given merge functions that are monotone in the weight of the caller,    *)
(* nothing poststar returns is above a solution of its equations; and      *)
(* where no call is hidden it returns the least one.                       *)
(***************************************************************************)
THEOREM EwpdsPoststarLeast == MergesMonotone => (Spec => []PostLeastWhenDone)
<1> SUFFICES ASSUME MergesMonotone PROVE Spec => []PostLeastWhenDone
  OBVIOUS
<1>1. Init => ShapeInv /\ PostInv /\ PostBelow
  BY InitShape, InitPost DEF Init, PostBelow
<1>2. ShapeInv /\ PostInv /\ PostBelow /\ [Next]_vars => (ShapeInv /\ PostInv /\ PostBelow)'
  BY NextShape, NextPost, NextPostBelow
<1>3. ShapeInv /\ PostInv /\ PostBelow => PostLeastWhenDone
  BY OutputSolves DEF PostLeastWhenDone, PostBelow, Below, Under, Covers
<1>4. QED
  BY <1>1, <1>2, <1>3, PTL DEF Spec

=============================================================================
