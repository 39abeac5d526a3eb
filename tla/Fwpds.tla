-------------------------------- MODULE Fwpds --------------------------------
(***************************************************************************)
(* FWPDS: the saturation of an EWPDS run without weights, to build an      *)
(* InterGraph whose nodes are the transitions; the graph falls apart into  *)
(* IntraGraphs, the procedures, which are solved each as a whole, and      *)
(* calls carry weights from one to another until none changes.  Then       *)
(* checkResults runs EWPDS on the same input (checkingPhase) and compares. *)
(*                                                                         *)
(* The weights inside an IntraGraph are taken for what its regular         *)
(* expressions evaluate to, the least solution over its paths.             *)
(***************************************************************************)
EXTENDS Ewpds, Fixpoint, FiniteSetsExt

CONSTANT MaxAgain   \* bound on the rules of a session that asks again

VARIABLES
    phase,      \* "build", "solve", or "check": checkingPhase
    source,     \* the weights of the source nodes
    intra,      \* intra_edges: <<src, tgt>> to a weight
    hyper,      \* inter_edges: <<src1, src2, tgt>> to a merge or a weight
    handler,    \* eHandler: a return node to <<call, weight>>
    updatable,  \* the weights of the updatable edges <<src1, tgt>>
    known,      \* GraphNode::weight of the out nodes, as propagated last
    left,       \* the IntraGraphs still to be saturated
    scc,        \* those that are being saturated
    worklist,   \* the out nodes to propagate
    lazy        \* the output of FWPDS: LazyTrans, evaluated

edges == <<source, intra, hyper, handler>>
solving == <<updatable, known, left, scc, worklist>>
fvars == <<phase, edges, solving, lazy>>

None == [x \in {} |-> 0]
Nowhere == NoKey        \* the call -1 of the handler

(* f with g laid over it. *)
Over(f, g) == [x \in DOMAIN f \cup DOMAIN g |-> IF x \in DOMAIN g THEN g[x] ELSE f[x]]

FInit ==
    /\ Init
    /\ phase = "build"
    /\ source = None /\ intra = None /\ hyper = None /\ handler = None
    /\ updatable = None /\ known = None /\ left = {} /\ scc = {} /\ worklist = {}
    /\ lazy = [trans |-> {}, weight |-> None, call |-> None]

(* The client builds its rules and asks, maybe again of what it got. *)
FAsk == /\ (\E a \in Additions : AddNew(a)) \/ Ask
        /\ UNCHANGED fvars
FAskAgain ==
    /\ pc = "done" /\ Cardinality(rules) <= MaxAgain
    /\ Asked([trans |-> lazy.trans, weight |-> lazy.weight, gen |-> gen, call |-> lazy.call])
    /\ phase' = "build"
    /\ UNCHANGED <<edges, solving, lazy>>
-----------------------------------------------------------------------------
(***************************************************************************)
(* FWPDSSourceFunctor: the transitions after the setup are the sources; an *)
(* ETrans is one by its weight at the call, its own goes to the handler.   *)
(***************************************************************************)
SetupSources ==
    /\ phase = "build" /\ Setup
    /\ LET E == IF query = "post" THEN DOMAIN call' ELSE {}
       IN  /\ source' = [k \in fa'.trans |-> IF k \in E THEN call'[k].at ELSE fa'.weight[k]]
           /\ handler' = [k \in E |-> <<Nowhere, fa'.weight[k]>>]
    /\ intra' = None /\ hyper' = None
    /\ UNCHANGED <<phase, solving, lazy>>

(* InterGraph::addEdge of an edge there may already be. *)
AddIntra(e, w) ==
    Over(intra, [x \in {e} |-> IF e \in DOMAIN intra THEN Combine(intra[e], w) ELSE w])
AddHyper(new) == Over(new, hyper)
MergeEdge(m) == [merge |-> m, weight |-> One]
WeightEdge(w) == [merge |-> NoMerge, weight |-> w]

(* ETransHandler::addEdge: a return node keeps its first call. *)
AddReturn(c, mid, w) ==
    Over(handler, [x \in {mid} |->
        IF mid \in DOMAIN handler THEN <<handler[mid][1], Combine(handler[mid][2], w)>>
        ELSE <<c, w>>])

Building == phase = "build" /\ pc = "saturate"
Ones(keys) == [k \in keys |-> One]

(* The edge poststar_handle_eps_trans makes for the epsilon e before u. *)
ReturnEdge(c, u) == IF u \in DOMAIN c THEN MergeEdge(c[u].merge) ELSE WeightEdge(One)

BuildEpsilon ==
    /\ Building /\ Saturating /\ query = "post"
    /\ \E e \in fa.marked :
          LET A == Take(fa, e)
              past(u) == [u EXCEPT !.from = e.from]
              behind == Leaving(A, e.to)
          IN  /\ e.stk = EPS
              /\ fa' = Update(A, Ones({past(u) : u \in behind}))
              /\ hyper' = AddHyper([x \in {<<u, e, past(u)>> : u \in behind} |->
                                        ReturnEdge(call, x[1])])
    /\ UNCHANGED <<database, input, call, gen, quasi, query, pc, work>>
    /\ UNCHANGED <<phase, source, intra, handler, solving, lazy>>

BuildPostRule ==
    /\ Building /\ query = "post"
    /\ \E r \in todo :
          LET k == [from |-> r.to, stk |-> r.stk1, to |-> cur.to]
          IN  /\ ~ IsPush(r)
              /\ fa' = Update(fa, At(k, One))
              /\ intra' = AddIntra(<<cur, k>>, r.weight)
              /\ todo' = todo \ {r}
    /\ UNCHANGED <<database, input, call, gen, quasi, query, pc, cur, dnew, calls>>
    /\ UNCHANGED <<phase, source, hyper, handler, solving, lazy>>

(* setSource of the entry of a procedure. *)
EntrySource(entry) == Over(source, At(entry, One))

(* poststar_handle_trans for a push rule, with update_prime. *)
BuildPostPush ==
    /\ Building /\ query = "post"
    /\ \E r \in todo :
          LET g == gen_state(gen, r.to, r.stk1)
              mid == Mid(cur, r)
              entry == Callee(r, g)
              c2 == Over([x \in {mid} |-> [at |-> dnew, merge |-> r.merge]], call)
              A == Update(Insert(fa, At(mid, One)), At(entry, One))
              eps == IF Modified(fa, mid, One) THEN EpsInto(A, g) ELSE {}
              past(e) == [mid EXCEPT !.from = e.from]
          IN  /\ IsPush(r)
              /\ call' = c2
              /\ fa' = Update(A, Ones({past(e) : e \in eps}))
              /\ source' = EntrySource(entry)
              /\ intra' = AddIntra(<<cur, mid>>, One)
              /\ handler' = AddReturn(cur, mid, r.weight)
              /\ hyper' = AddHyper([x \in {<<mid, e, past(e)>> : e \in eps} |->
                                        ReturnEdge(c2, mid)])
              /\ todo' = todo \ {r}
    /\ UNCHANGED <<database, input, gen, quasi, query, pc, cur, dnew, calls>>
    /\ UNCHANGED <<phase, solving, lazy>>

BuildPreRule ==
    /\ Building /\ query = "pre"
    /\ \E r \in todo :
          /\ ~ IsPush(r)
          /\ PreUpdate(At(Pred(cur, r), One), cur \in DOMAIN call)
          /\ intra' = AddIntra(<<cur, Pred(cur, r)>>, r.weight)
          /\ todo' = todo \ {r}
    /\ UNCHANGED <<database, input, gen, quasi, query, pc, cur, dnew, calls>>
    /\ UNCHANGED <<phase, source, hyper, handler, solving, lazy>>

(* prestar_handle_call of t1 and each t2 of S, which read what r pushes. *)
HandleCalls(t1, S, r) ==
    LET isE == t1 \in DOMAIN call
        marked == S \cap DOMAIN call
    IN  /\ fa' = Update(fa, Ones({Pred(u, r) : u \in S}))
        /\ call' = SummaryTrans(fa, call, {Pred(u, r) : u \in marked})
        /\ hyper' = AddHyper([x \in {<<u, t1, Pred(u, r)>> : u \in S} |->
                        IF isE THEN MergeEdge(r.merge) ELSE WeightEdge(r.weight)])
        /\ pc' = IF ~ isE /\ marked # {} THEN "aborted" ELSE pc

BuildPreFirst ==
    /\ Building /\ query = "pre"
    /\ \E r \in todo : /\ IsPush(r)
                       /\ HandleCalls(cur, Matching(fa, cur.to, r.stk2), r)
                       /\ todo' = todo \ {r}
    /\ UNCHANGED <<database, input, gen, quasi, query, cur, dnew, calls>>
    /\ UNCHANGED <<phase, source, intra, handler, solving, lazy>>

BuildPreSecond ==
    /\ Building /\ query = "pre" /\ todo = {}
    /\ \E r \in calls :
          /\ HandleCalls(Callee(r, cur.from),
                         IF Callee(r, cur.from) \in fa.trans THEN {cur} ELSE {}, r)
          /\ calls' = calls \ {r}
    /\ UNCHANGED <<database, input, gen, quasi, query, cur, dnew, todo>>
    /\ UNCHANGED <<phase, source, intra, handler, solving, lazy>>
-----------------------------------------------------------------------------
OutNodes == {x[2] : x \in DOMAIN hyper}
Pairs == {<<x[1], x[3]>> : x \in DOMAIN hyper}

(* The nodes of the IntraGraph of n (intra_graph_uf). *)
Graph(n) ==
    LET joined == DOMAIN intra \cup Pairs
        grow(S) == S \cup {e[2] : e \in {x \in joined : x[1] \in S}}
                     \cup {e[1] : e \in {x \in joined : x[2] \in S}}
    IN  Fix(grow, SUBSET fa.trans, {n})

(* The graphs that the out nodes of G lead into, in one step or in several. *)
Targets(G) == {Graph(x[3]) : x \in {y \in DOMAIN hyper : y[2] \in G}}
Beyond(G) ==
    Fix(LAMBDA S : S \cup UNION {Targets(H) : H \in S},
        SUBSET {Graph(n) : n \in fa.trans}, Targets(G))

(* The weights of the nodes, each graph solved with its updatable edges. *)
Through(w, x) == IF query = "post" THEN Extend(x, w) ELSE Extend(w, x)
Solution ==
    LET step(V, n) ==
            {Through(intra[e], V[e[1]]) : e \in {x \in DOMAIN intra : x[2] = n}}
            \cup {Through(updatable[e], V[e[1]]) : e \in {x \in Pairs : x[2] = n}}
            \cup {IF n \in DOMAIN source THEN source[n] ELSE Zero}
        round(V) == [n \in fa.trans |-> FoldSet(Combine, V[n], step(V, n))]
    IN  Fix(round, [fa.trans -> Weight], [n \in fa.trans |-> Zero])

(* The graph is built: setupInterSolution divides it. *)
StartSolve ==
    /\ Building /\ Saturating /\ fa.marked = {}
    /\ phase' = "solve"
    /\ updatable' = [e \in Pairs |-> Zero]
    /\ known' = [n \in OutNodes \cap DOMAIN source |-> Zero]
    /\ left' = {Graph(n) : n \in fa.trans}
    /\ scc' = {} /\ worklist' = {}
    /\ cur' = NoKey /\ dnew' = Zero
    /\ UNCHANGED <<database, input, fa, call, gen, quasi, query, pc, todo, calls>>
    /\ UNCHANGED <<edges, lazy>>

(* The next component of graphs, one that none of those left leads into. *)
NextScc ==
    /\ phase = "solve" /\ worklist = {}
    /\ \E G \in left :
          LET C == {G} \cup {H \in Beyond(G) : G \in Beyond(H)}
          IN  /\ \A H \in left \ C : Beyond(H) \cap C = {}
              /\ scc' = C /\ left' = left \ C
              /\ worklist' = OutNodes \cap UNION C
    /\ UNCHANGED <<vars, phase, edges, updatable, known, lazy>>

(* What the hyper edge x makes of the weight w of its out node. *)
Summary(x, w) ==
    IF hyper[x].merge # NoMerge THEN apply_f(hyper[x].merge, One, w)
                                ELSE Extend(hyper[x].weight, w)

(* Mutated form of Requeued: only what comes before stays. *)
Requeued_None(n, into) == worklist \ {n}

Requeued(n, into) ==
    (worklist \ {n}) \cup (OutNodes \cap UNION {G \in scc : G \cap into # {}})

(***************************************************************************)
(* One round of saturate: an out node whose weight is not what it told     *)
(* last sets the updatable edges of its calls, and the out nodes of the    *)
(* graphs they are in are looked at again.                                 *)
(***************************************************************************)
Propagate ==
    /\ phase = "solve"
    /\ \E n \in worklist :
          LET w == Solution[n]
              out == {x \in DOMAIN hyper : x[2] = n}
              by(e) == CHOOSE x \in out : <<x[1], x[3]>> = e
          IN  IF n \in DOMAIN known /\ known[n] = w
              THEN /\ worklist' = worklist \ {n}
                   /\ UNCHANGED <<updatable, known>>
              ELSE /\ known' = Over(known, At(n, w))
                   /\ updatable' = Over(updatable, [e \in {<<x[1], x[3]>> : x \in out} |->
                                                      Summary(by(e), w)])
                   /\ worklist' = Requeued(n, {x[3] : x \in out})
    /\ UNCHANGED <<vars, phase, edges, left, scc, lazy>>

(* InterGraph::get_weight: a return node by what the handler has for it. *)
get_weight(V, n) ==
    IF n \notin DOMAIN handler THEN V[n]
    ELSE LET c == handler[n][1]
         IN  Extend(IF c = Nowhere THEN One ELSE V[c], handler[n][2])

(* FWPDSCopyBackFunctor and LazyTrans; then checkResults calls EWPDS. *)
SolveDone ==
    /\ phase = "solve" /\ worklist = {} /\ left = {}
    /\ LET V == Solution
       IN  lazy' = [trans |-> fa.trans,
                    weight |-> [n \in fa.trans |-> get_weight(V, n)],
                    call |-> [n \in DOMAIN call |-> [call[n] EXCEPT !.at = V[n]]]]
    /\ phase' = "check"
    /\ pc' = "setup" /\ fa' = EmptyAutomaton /\ call' = EmptyCall
    /\ updatable' = None /\ known' = None /\ scc' = {}
    /\ UNCHANGED <<database, input, gen, quasi, query, work, edges, left, worklist>>

Solve == StartSolve \/ NextScc \/ Propagate \/ SolveDone
Handle == \/ BuildEpsilon \/ BuildPostRule \/ BuildPostPush
          \/ BuildPreRule \/ BuildPreFirst \/ BuildPreSecond
Pop == PopTransition /\ UNCHANGED fvars

(* The handlers of FWPDS leave it to those of EWPDS in the checking phase. *)
Check == /\ phase = "check"
         /\ \/ Setup \/ PopEpsilon \/ PostRule \/ PostPush
            \/ PreRule \/ PrePushFirst \/ PrePushSecond \/ Finish
         /\ UNCHANGED fvars

FNext == FAsk \/ FAskAgain \/ SetupSources \/ Pop \/ Handle \/ Solve \/ Check

FSpec == FInit /\ [][FNext]_<<vars, fvars>>
-----------------------------------------------------------------------------
(* Return nodes of several calls, of which the handler knows the first. *)
Shared == {n \in DOMAIN handler :
             \E e, f \in DOMAIN intra : e # f /\ e[2] = n /\ f[2] = n}

(* Summaries that write to the same updatable edge ("parallel updatable edges"). *)
Parallel == \E x, y \in DOMAIN hyper : x # y /\ x[1] = y[1] /\ x[3] = y[3]

(***************************************************************************)
(* FWPDSCompareFunctor: FWPDS finds every transition EWPDS finds, with its *)
(* weight, whatever the order of building and of solving: no call is left  *)
(* with a summary older than its callee's last, and a procedure is solved  *)
(* before those that only its callers are.  Left out are the return nodes  *)
(* of several calls; parallel edges can only lose weight.  EWPDS itself    *)
(* may lack weight where a rule hides calls.                               *)
(***************************************************************************)
AgreesWithEwpds ==
    pc = "done" =>
        /\ lazy.trans = fa.trans
        /\ \A k \in fa.trans : k \notin Shared =>
              /\ (\A r \in rules : IsPush(r) => ~ Hiding(r)) => Leq(lazy.weight[k], fa.weight[k])
              /\ ~ Parallel => Leq(fa.weight[k], lazy.weight[k])
        /\ query = "post" => \A k \in DOMAIN call : Leq(call[k].at, lazy.call[k].at)
=============================================================================
