-------------------------------- MODULE Ewpds --------------------------------
(***************************************************************************)
(* EWPDS: a weighted pushdown system whose push rules carry a merge        *)
(* function, which joins the weight of the caller with the weight of the   *)
(* callee at a return.  One behaviour is a session of a client: it builds  *)
(* the rules with add_rule, replace_rule, erase_rule and the copy          *)
(* constructor, then asks poststar or prestar, and may ask again of the    *)
(* automaton it got.                                                       *)
(*                                                                         *)
(* poststar keeps on the transition behind a call (an ETrans) the weight   *)
(* at the call beside the transition's own; prestar marks the transitions  *)
(* that summarise a procedure as ETrans and merges where a rule meets one. *)
(***************************************************************************)
EXTENDS MergeFns, FiniteSets

CONSTANTS
    Additions,          \* the calls of add_rule and replace_rule
    Inputs,             \* the automata the first query may be given
    MaxRules            \* bound on the rules of a session

VARIABLES
    rules,      \* the rules, each with its merge function
    mergeHash,  \* merge_rule_hash: a right-hand side to a rule object
    readded,    \* right-hand sides of push rules that were added twice
    input,      \* the automaton the current query was given
    fa,         \* the output automaton, with the worklist
    call,       \* its ETrans, with weight at the call and merge function
    gen,        \* fa.getGeneration()
    quasi,      \* State::quasi of the generated states
    query,      \* which query is running
    pc,         \* where the session is
    cur,        \* the transition post() or pre() is working on
    dnew,       \* its delta when it was taken off the worklist
    todo,       \* the forward (poststar) or backward rules still to handle
    calls       \* the rules of r2hash[cur.stk] pre() still has to handle

database == <<rules, mergeHash, readded>>
work == <<cur, dnew, todo, calls>>
vars == <<database, input, fa, call, gen, quasi, query, pc, work>>
-----------------------------------------------------------------------------
(* Mutated form of NewRule: a push rule is left without a merge function. *)
NewRule_NoDefault(r, m) ==
    [from |-> r.from, stk |-> r.stk, to |-> r.to, stk1 |-> r.stk1, stk2 |-> r.stk2,
     weight |-> r.weight, merge |-> m]

(* The ERule that add_rule makes: a push rule without one gets a MergeFn. *)
NewRule(r, m) ==
    [from |-> r.from, stk |-> r.stk, to |-> r.to, stk1 |-> r.stk1, stk2 |-> r.stk2,
     weight |-> r.weight,
     merge |-> IF IsPush(r) /\ m = NoMerge THEN MergeFn(r.weight) ELSE m]

(* What a client adds, and the automata it asks about first. *)
ASSUME EwpdsAssumption ==
    /\ \A a \in Additions :
          /\ a = [rule |-> a.rule, merge |-> a.merge, replace |-> a.replace]
          /\ a.rule \in Rule /\ a.merge \in Merge \cup {NoMerge} /\ a.replace \in BOOLEAN
    /\ \A in \in Inputs : InputOK(in)

RuleId(r) == [from |-> r.from, stk |-> r.stk, to |-> r.to,
              stk1 |-> r.stk1, stk2 |-> r.stk2]
NoRule == [from |-> EPS, stk |-> EPS, to |-> EPS, stk1 |-> EPS, stk2 |-> EPS]

EmptyCall == [x \in {} |-> 0]
NoInput == [trans |-> {}, weight |-> <<>>, gen |-> 0, call |-> EmptyCall]

Init ==
    /\ rules = {} /\ mergeHash = [x \in {} |-> 0] /\ readded = {}
    /\ input = NoInput
    /\ fa = EmptyAutomaton /\ call = EmptyCall /\ gen = 0
    /\ quasi = [g \in GenState |-> Zero]
    /\ query = "none" /\ pc = "idle"
    /\ cur = NoKey /\ dnew = Zero /\ todo = {} /\ calls = {}

QueryUnchanged == UNCHANGED <<input, fa, call, gen, quasi, query, work>>
-----------------------------------------------------------------------------
(* Mutated form of Clashes: the right-hand side is not looked up. *)
Clashes_Never(r) == FALSE

(* merge_rule_hash has a rule with the right-hand side of r and another merge. *)
Clashes(r) == /\ Rhs(r) \in DOMAIN mergeHash
              /\ ~ SameMerge(mergeHash[Rhs(r)].merge, r.merge)

(***************************************************************************)
(* add_rule and replace_rule of a rule there is not: a push rule must      *)
(* agree with the rule merge_rule_hash holds for its right-hand side.      *)
(***************************************************************************)
AddNew(a) ==
    LET r == NewRule(a.rule, a.merge)
    IN  /\ pc = "idle" /\ Cardinality(rules) < MaxRules
        /\ \A s \in rules : ~ SameRule(r, s)
        /\ rules' = rules \cup {r}
        /\ mergeHash' = IF IsPush(r) /\ Rhs(r) \notin DOMAIN mergeHash
                        THEN [x \in DOMAIN mergeHash \cup {Rhs(r)} |->
                                IF x = Rhs(r) THEN [rule |-> RuleId(r), merge |-> r.merge]
                                ELSE mergeHash[x]]
                        ELSE mergeHash
        /\ pc' = IF IsPush(r) /\ Clashes(r) THEN "aborted" ELSE pc
        /\ UNCHANGED readded /\ QueryUnchanged

(***************************************************************************)
(* add_rule and replace_rule of a rule there is.  make_rule copies the new *)
(* ERule, its merge function included, into the old one and hands the old  *)
(* one back, so the checks that follow find the merge function they were   *)
(* given; a default one is made anew from the combined weight.             *)
(***************************************************************************)
AddAgain(a) ==
    /\ pc = "idle"
    /\ \E old \in rules :
          LET w == IF a.replace THEN a.rule.weight
                   ELSE Combine(old.weight, a.rule.weight)
              r == NewRule([a.rule EXCEPT !.weight = w], a.merge)
          IN  /\ SameRule(old, a.rule)
              /\ rules' = (rules \ {old}) \cup {r}
              /\ mergeHash' = [x \in DOMAIN mergeHash |->
                                 IF mergeHash[x].rule = RuleId(r)
                                 THEN [mergeHash[x] EXCEPT !.merge = r.merge]
                                 ELSE mergeHash[x]]
              /\ readded' = IF IsPush(r) THEN readded \cup {Rhs(r)} ELSE readded
    /\ UNCHANGED pc /\ QueryUnchanged

(* Mutated form of HashWithout: the entry of an erased rule goes with it. *)
HashWithout_Dropped(r) ==
    [x \in {y \in DOMAIN mergeHash : mergeHash[y].rule # RuleId(r)} |-> mergeHash[x]]

(***************************************************************************)
(* WPDS::erase_rule knows nothing of merge_rule_hash, which goes on        *)
(* holding the rule object, now no rule of the EWPDS.                      *)
(***************************************************************************)
HashWithout(r) ==
    [x \in DOMAIN mergeHash |->
        IF mergeHash[x].rule = RuleId(r) THEN [mergeHash[x] EXCEPT !.rule = NoRule]
        ELSE mergeHash[x]]

EraseRule ==
    /\ pc = "idle"
    /\ \E r \in rules : rules' = rules \ {r} /\ mergeHash' = HashWithout(r)
    /\ UNCHANGED <<readded, pc>> /\ QueryUnchanged

(***************************************************************************)
(* The copy constructor adds every rule, with its merge function, to an    *)
(* empty EWPDS; the session goes on with the copy.                         *)
(***************************************************************************)
Agree(r, s) == Rhs(r) = Rhs(s) => SameMerge(r.merge, s.merge)
Copy ==
    /\ pc = "idle"
    /\ LET pushes == {r \in rules : IsPush(r)}
       IN  \E first \in {f \in [{Rhs(r) : r \in pushes} -> pushes] :
                            \A x \in DOMAIN f : Rhs(f[x]) = x} :
              mergeHash' = [x \in DOMAIN first |->
                              [rule |-> RuleId(first[x]), merge |-> first[x].merge]]
    /\ pc' = IF \A r, s \in rules : IsPush(r) /\ IsPush(s) => Agree(r, s)
             THEN pc ELSE "aborted"
    /\ UNCHANGED <<rules, readded>> /\ QueryUnchanged
-----------------------------------------------------------------------------
(* The client asks, of an automaton of its own or of the one it got. *)
Asked(in) ==
    /\ in.trans # {} /\ in.gen < MaxGeneration
    /\ \A k \in in.trans : k.to \notin P
    /\ input' = in
    /\ query' \in {"post", "pre"}
    /\ pc' = "setup"
    /\ UNCHANGED <<database, fa, call, gen, quasi, work>>

Ask == /\ pc = "idle"
       /\ \E in \in Inputs : Asked([trans |-> in.trans, weight |-> in.weight,
                                    gen |-> in.gen, call |-> EmptyCall])
AskAgain == /\ pc = "done"
            /\ Asked([trans |-> fa.trans, weight |-> fa.weight,
                      gen |-> gen, call |-> call])

(***************************************************************************)
(* setupOutput: EWPDS::operator() copies each transition as what it is, an *)
(* ETrans with its weight at the call.  prestar then adds the transition   *)
(* of every pop rule, as an ETrans (addEtrans).                            *)
(***************************************************************************)
(* Mutated form of SummaryTrans: the ETrans are not marked. *)
SummaryTrans_Plain(A, c, keys) == c

(* update_etrans: a transition A lacks enters as an ETrans without a call. *)
SummaryTrans(A, c, keys) ==
    [k \in DOMAIN c \cup (keys \ A.trans) |->
        IF k \in DOMAIN c THEN c[k] ELSE [at |-> Zero, merge |-> NoMerge]]

(* Mutated form of CopiedCalls: the copies are plain Trans. *)
CopiedCalls_Plain(in) == EmptyCall

(* EWPDS::operator() and ETrans::copy: an ETrans is copied whole. *)
CopiedCalls(in) == in.call

Setup ==
    /\ pc = "setup"
    /\ LET pops == {r \in rules : IsPop(r) /\ query = "pre"}
           keyOf(r) == [from |-> r.from, stk |-> r.stk, to |-> r.to]
           ruleOf(k) == CHOOSE r \in pops : keyOf(r) = k
           keys == {keyOf(r) : r \in pops}
       IN  /\ fa' = Update(CopyOf(input), [k \in keys |-> ruleOf(k).weight])
           /\ call' = SummaryTrans(CopyOf(input), CopiedCalls(input), keys)
    /\ gen' = input.gen + 1
    /\ quasi' = [g \in GenState |-> Zero]
    /\ pc' = "saturate"
    /\ UNCHANGED <<database, input, query, work>>

Saturating == pc = "saturate" /\ todo = {} /\ calls = {}

(* post() and pre() up to their loops; poststar's epsilon is PopEpsilon. *)
PopTransition ==
    /\ Saturating
    /\ \E t \in fa.marked :
          /\ query = "post" => t.stk # EPS
          /\ cur' = t /\ dnew' = fa.delta[t]
          /\ fa' = Take(fa, t)
          /\ todo' = IF query = "post" THEN ForwardRules(rules, t.from, t.stk)
                     ELSE BackwardRules(rules, t.from, t.stk)
          /\ calls' = IF query = "pre" THEN CallRules(rules, t.stk) ELSE {}
    /\ UNCHANGED <<database, input, call, gen, quasi, query, pc>>

(* Mutated form of poststar_eps_closure: ETrans does not override it. *)
poststar_eps_closure_Base(A, c, k, w) == Extend(A.weight[k], w)

(* ITrans::poststar_eps_closure: an ETrans merges, a Trans extends. *)
poststar_eps_closure(A, c, k, w) ==
    IF k \in DOMAIN c THEN apply_f(c[k].merge, c[k].at, w)
                      ELSE Extend(A.weight[k], w)

(* post() on an epsilon transition: every transition behind it is closed over. *)
PopEpsilon ==
    /\ Saturating /\ query = "post"
    /\ \E e \in fa.marked :
          LET A == Take(fa, e)
              k(u) == [u EXCEPT !.from = e.from]
              via(x) == [x EXCEPT !.from = e.to]
          IN  /\ e.stk = EPS
              /\ fa' = Update(A, [x \in {k(u) : u \in Leaving(A, e.to)} |->
                            poststar_eps_closure(A, call, via(x), fa.delta[e])])
    /\ UNCHANGED <<database, input, call, gen, quasi, query, pc, work>>

(* poststar_handle_trans for a rule that does not push. *)
PostRule ==
    /\ pc = "saturate" /\ query = "post"
    /\ \E r \in todo :
          /\ ~ IsPush(r)
          /\ fa' = Update(fa, At([from |-> r.to, stk |-> r.stk1, to |-> cur.to],
                                 Extend(dnew, r.weight)))
          /\ todo' = todo \ {r}
    /\ UNCHANGED <<database, input, call, gen, quasi, query, pc, cur, dnew, calls>>

(* Mutated form of CallAfter: the weight at the call is the first one only. *)
CallAfter_First(c, mid, r, d) ==
    IF mid \in DOMAIN c THEN c
    ELSE [k \in DOMAIN c \cup {mid} |-> IF k = mid THEN [at |-> d, merge |-> r.merge]
                                        ELSE c[k]]

(* update_prime: ETrans::combineTrans combines the weights at the call. *)
CallAfter(c, mid, r, d) ==
    [k \in DOMAIN c \cup {mid} |->
        IF k # mid THEN c[k]
        ELSE IF mid \in DOMAIN c THEN [c[mid] EXCEPT !.at = Combine(@, d)]
        ELSE [at |-> d, merge |-> r.merge]]

(***************************************************************************)
(* poststar_handle_trans for a push rule.  Only a change of the weight     *)
(* after the call makes the ETrans modified(), and only then the epsilon   *)
(* transitions into the generated state are gone through.                  *)
(***************************************************************************)
PostPush ==
    /\ pc = "saturate" /\ query = "post"
    /\ \E r \in todo :
          LET g     == gen_state(gen, r.to, r.stk1)
              mid   == [from |-> g, stk |-> r.stk2, to |-> cur.to]
              wmid  == Extend(dnew, r.weight)
              qone  == Combine(quasi[g], One)
              A1    == Insert(fa, At(mid, wmid))
              A2    == Update(A1, At([from |-> r.to, stk |-> r.stk1, to |-> g], qone))
              c2    == CallAfter(call, mid, r, dnew)
              eps(x) == [from |-> x.from, stk |-> EPS, to |-> g]
              closed == [x \in {[mid EXCEPT !.from = e.from] : e \in EpsInto(A2, g)}
                           |-> poststar_eps_closure(A2, c2, mid, A2.weight[eps(x)])]
          IN  /\ IsPush(r)
              /\ quasi' = [quasi EXCEPT ![g] = qone]
              /\ call' = c2
              /\ fa' = IF Modified(fa, mid, wmid) THEN Update(A2, closed) ELSE A2
              /\ todo' = todo \ {r}
    /\ UNCHANGED <<database, input, gen, query, pc, cur, dnew, calls>>
-----------------------------------------------------------------------------
Pred(t, r) == [from |-> r.from, stk |-> r.stk, to |-> t.to]
Callee(r, q) == [from |-> r.to, stk |-> r.stk1, to |-> q]
Matching(A, q, y) == {u \in A.trans : u.from = q /\ u.stk = y}

(* Mutated form of ThroughCall: the merge function is not used. *)
ThroughCall_Base(r, isE, w) == Extend(r.weight, w)

(* What a push rule makes of the weight w of the transition it calls. *)
ThroughCall(r, isE, w) ==
    IF isE THEN apply_f(r.merge, One, w) ELSE Extend(r.weight, w)

(* The updates ins, with update_etrans when the transition isE, else update. *)
PreUpdate(ins, isE) ==
    /\ fa' = Update(fa, ins)
    /\ call' = IF isE THEN SummaryTrans(fa, call, DOMAIN ins) ELSE call

(* prestar_handle_trans for a rule that does not push. *)
PreRule ==
    /\ pc = "saturate" /\ query = "pre"
    /\ \E r \in todo :
          /\ ~ IsPush(r)
          /\ PreUpdate(At(Pred(cur, r), Extend(r.weight, dnew)), cur \in DOMAIN call)
          /\ todo' = todo \ {r}
    /\ UNCHANGED <<database, input, gen, quasi, query, pc, cur, dnew, calls>>

(***************************************************************************)
(* prestar_handle_trans for a push rule: cur reads its first symbol.  An   *)
(* ETrans behind a Trans fails the assertion et != 0.                      *)
(***************************************************************************)
PrePushFirst ==
    /\ pc = "saturate" /\ query = "pre"
    /\ \E r \in todo :
          LET second == Matching(fa, cur.to, r.stk2)
              isE == cur \in DOMAIN call
              via(k) == CHOOSE u \in second : u.to = k.to
              ins(S) == [k \in {Pred(u, r) : u \in S} |->
                           Extend(ThroughCall(r, isE, dnew), fa.weight[via(k)])]
              plain == {u \in second : u \notin DOMAIN call}
          IN  /\ IsPush(r)
              /\ fa' = Update(fa, ins(second))
              /\ call' = SummaryTrans(fa, call, DOMAIN ins(second \ plain))
              /\ pc' = IF ~ isE /\ second # plain THEN "aborted" ELSE pc
              /\ todo' = todo \ {r}
    /\ UNCHANGED <<database, input, gen, quasi, query, cur, dnew, calls>>

(***************************************************************************)
(* prestar_handle_call: cur reads the second symbol of a push rule, the    *)
(* transition t1 its first.  The assertion !(et1 == 0 && et2 != 0) fails   *)
(* when only cur is an ETrans.                                             *)
(***************************************************************************)
PrePushSecond ==
    /\ pc = "saturate" /\ query = "pre" /\ todo = {}
    /\ \E r \in calls :
          LET t1 == Callee(r, cur.from)
              isE1 == t1 \in DOMAIN call
              isE2 == cur \in DOMAIN call
          IN  /\ calls' = calls \ {r}
              /\ IF t1 \in fa.trans
                 THEN /\ PreUpdate(At(Pred(cur, r),
                              Extend(ThroughCall(r, isE1, fa.weight[t1]), dnew)), isE2)
                      /\ pc' = IF ~ isE1 /\ isE2 THEN "aborted" ELSE pc
                 ELSE UNCHANGED <<fa, call, pc>>
    /\ UNCHANGED <<database, input, gen, quasi, query, cur, dnew, todo>>

(* The worklist is empty: the query returns. *)
Finish ==
    /\ Saturating /\ fa.marked = {}
    /\ pc' = "done"
    /\ cur' = NoKey /\ dnew' = Zero
    /\ UNCHANGED <<database, input, fa, call, gen, quasi, query, todo, calls>>

Query == \/ Setup \/ PopTransition \/ PopEpsilon \/ PostRule \/ PostPush
         \/ PreRule \/ PrePushFirst \/ PrePushSecond \/ Finish
Build == \/ \E a \in Additions : AddNew(a) \/ AddAgain(a)
         \/ EraseRule \/ Copy
Next == Build \/ Ask \/ AskAgain \/ Query

Spec == Init /\ [][Next]_vars
-----------------------------------------------------------------------------
ERule == {r \in [from : P, stk : Stack, to : P, stk1 : Symbol, stk2 : Symbol,
                 weight : Weight, merge : Merge \cup {NoMerge}] :
            /\ r.stk1 = EPS => r.stk2 = EPS
            /\ IsPush(r) => r.merge # NoMerge}
CallOf(trans, c) ==
    /\ DOMAIN c \subseteq trans
    /\ c \in [DOMAIN c -> [at : Weight, merge : Merge \cup {NoMerge}]]

TypeOK ==
    /\ \A r \in rules : r \in ERule /\ \A s \in rules : SameRule(r, s) => r = s
    /\ \A r \in rules : IsPush(r) => Rhs(r) \in DOMAIN mergeHash
    /\ IsAutomaton(fa) /\ CallOf(fa.trans, call)
    /\ IsInput([trans |-> input.trans, weight |-> input.weight, gen |-> input.gen])
    /\ CallOf(input.trans, input.call)
    /\ gen \in Generation /\ quasi \in [GenState -> Weight]
    /\ query \in {"none", "post", "pre"}
    /\ pc \in {"idle", "setup", "saturate", "done", "aborted"}
    /\ cur \in Key \cup {NoKey} /\ dnew \in Weight
    /\ todo \subseteq rules /\ calls \subseteq rules

(***************************************************************************)
(* "Merge functions are indexed by the triple" of the right-hand side, and *)
(* an ETrans keeps the rule that made it first: push rules with the same   *)
(* right-hand side merge alike, as long as none of them was added twice.   *)
(* The entry of merge_rule_hash that a new one is compared with speaks for *)
(* all of them, also when the rule that made it was erased.                *)
(***************************************************************************)
MergeFunctionsAgree ==
    pc # "aborted" =>
        \A r \in rules : IsPush(r) =>
            /\ Rhs(r) \in DOMAIN mergeHash
            /\ Rhs(r) \notin readded =>
                  /\ SameMerge(mergeHash[Rhs(r)].merge, r.merge)
                  /\ \A s \in rules : IsPush(s) /\ Rhs(s) = Rhs(r) => SameMerge(s.merge, r.merge)

(* The merge functions that see no more of a call than the weight of a rule. *)
SeesCalls ==
    {mw \in Merge \X Weight :
        \A a, b \in Weight : Leq(Extend(a, mw[2]), Extend(b, mw[2])) =>
            \A x \in Weight : Leq(apply_f(mw[1], a, x), apply_f(mw[1], b, x))}

(***************************************************************************)
(* What the rules ask of the output of poststar: a rule that does not push *)
(* its successor; a push rule the transition behind the call, with the     *)
(* whole weight at the call, and the one into it; an epsilon transition    *)
(* the merge of what it returns from with what it returns to.              *)
(***************************************************************************)
Mid(t, r) == [from |-> gen_state(gen, r.to, r.stk1), stk |-> r.stk2, to |-> t.to]

StepsDone ==
    \A t \in fa.trans : \A r \in ForwardRules(rules, t.from, t.stk) : ~ IsPush(r) =>
        LET k == [from |-> r.to, stk |-> r.stk1, to |-> t.to]
        IN  k \in fa.trans /\ Leq(Extend(fa.weight[t], r.weight), fa.weight[k])

CallsDone ==
    \A t \in fa.trans : \A r \in ForwardRules(rules, t.from, t.stk) : IsPush(r) =>
        LET k == Callee(r, gen_state(gen, r.to, r.stk1))
        IN  /\ Mid(t, r) \in DOMAIN call
            /\ Leq(Extend(fa.weight[t], r.weight), fa.weight[Mid(t, r)])
            /\ Leq(fa.weight[t], call[Mid(t, r)].at)
            /\ k \in fa.trans /\ Leq(One, fa.weight[k])

(* Every return merges the callee with the whole weight at its call. *)
Merged(e, u) ==
    /\ [u EXCEPT !.from = e.from] \in fa.trans
    /\ Leq(poststar_eps_closure(fa, call, u, fa.weight[e]),
           fa.weight[[u EXCEPT !.from = e.from]])
ReturnsMerged(S) ==
    \A e \in fa.trans : e.stk = EPS => \A u \in Leaving(fa, e.to) \cap S : Merged(e, u)

(***************************************************************************)
(* The transitions behind a call whose weight at the call may grow unseen: *)
(* some rule for it can hide the growth (ETrans::combineTrans leaves       *)
(* modified() to the weight after the call), or two rules lead to it, with *)
(* weights that hide each other's growth, or with merge functions of which *)
(* the ETrans keeps the first.                                             *)
(***************************************************************************)
Hiding(r) ==
    \/ <<r.merge, r.weight>> \notin SeesCalls
    \/ \E s \in rules : /\ IsPush(s) /\ Rhs(s) = Rhs(r)
                       /\ <<s.merge, s.weight>> # <<r.merge, r.weight>>
Hidden == {u \in DOMAIN call :
             \E r \in rules : IsPush(r) /\ Hiding(r) /\ r.stk2 = u.stk
                              /\ u.from = gen_state(gen, r.to, r.stk1)}

PostSaturates ==
    Covers(fa, input) /\ StepsDone /\ CallsDone /\ ReturnsMerged(fa.trans \ Hidden)

(* What they ask of the output of prestar, each call that returns merged. *)
PreSolution(S) ==
    /\ Covers(S, input)
    /\ \A r \in rules : IsPop(r) =>
          LET k == [from |-> r.from, stk |-> r.stk, to |-> r.to]
          IN  k \in S.trans /\ Leq(r.weight, S.weight[k])
    /\ \A r \in rules, t \in S.trans : t.from = r.to /\ t.stk = r.stk1 =>
          /\ ~ IsPush(r) => /\ Pred(t, r) \in S.trans
                            /\ Leq(Extend(r.weight, S.weight[t]), S.weight[Pred(t, r)])
          /\ IsPush(r) =>
                \A u \in Matching(S, t.to, r.stk2) :
                    /\ Pred(u, r) \in S.trans
                    /\ Leq(Extend(ThroughCall(r, t.to \in P, S.weight[t]), S.weight[u]),
                           S.weight[Pred(u, r)])

(***************************************************************************)
(* When a query returns, its output solves the equations of the EWPDS, the *)
(* merge function used at every return.  The returns of poststar through   *)
(* hidden calls are the only ones that may lack weight.                    *)
(***************************************************************************)
Saturates ==
    pc = "done" => IF query = "post" THEN PostSaturates ELSE PreSolution(fa)

(***************************************************************************)
(* The transitions prestar takes for the summary of a procedure, ETrans,   *)
(* are those into a control state, so that it merges at returns and        *)
(* nowhere else, and its assertions hold, as long as the input has no      *)
(* ETrans of an earlier poststar.                                          *)
(***************************************************************************)
SummariesMarked ==
    query = "pre" /\ pc \in {"saturate", "done", "aborted"} /\ DOMAIN input.call = {} =>
        /\ pc # "aborted"
        /\ \A k \in fa.trans : k \in DOMAIN call <=> k.to \in P
=============================================================================
