# WALi in TLA+

A specification, model-checking and proof project for WALi-OpenNWA: the weighted
automata library (`src/Source/wali`) and the nested-word-automata library
(`src/Source/opennwa`). Everything here is translated from the C++ source; line numbers
refer to it.

## 1. The system

WALi answers reachability questions about weighted pushdown systems. A *weight* is an
element of an idempotent semiring that the client writes as a subclass of `SemElem`. A
*WPDS* is a set of weighted rules `<p, y> -> <q, w>` with at most two symbols in `w`. A
*WFA* is a weighted finite automaton that stands for a weighted set of configurations. The
two queries saturate an automaton: `poststar` (what the configurations of the input lead
to) and `prestar` (what leads to them). An *EWPDS* gives push rules merge functions, which
combine the weight at a call with the weight of the callee. An *FWPDS* answers the same
queries by path expressions over graphs instead of by a worklist. OpenNWA stores
nested-word automata, edits them in place, builds new ones from them, and decides emptiness
and inclusion by way of a pushdown system.

The library is single-threaded. What makes it hard is not threads but worklists: the
saturation loops hand out work in an order the client may choose (`Worklist`,
`PriorityWorklist`, ...), read weights that later steps of the same loop change, and keep
several indexes of one set of objects that must agree after every operation. Second come
caches (regular expressions whose values are kept between queries), and third the many
cases of epsilon, wild symbols, pending calls and pending returns of nested words.

| Component | State | Operations | Hard behaviour | What makes it correct |
|---|---|---|---|---|
| Weights (`SemElem.cpp`) | none | combine, extend, delta, extendAndDiff | weights do not commute; a domain may choose how much `delta` reports | semiring laws; old weight + delta = old + new |
| WPDS rule database (`WPDS.cpp` 41-103, 740-1020; `Config`) | config_map, the forward and backward rule lists, rule_zeroes, r2hash, pds_states | add_rule, replace_rule, erase_rule, clear, copy; queries add Configs | five indexes of one rule; Configs shared by rules and left behind by queries | the indexes agree; the client sees a map from rules to weights |
| poststar (`WPDS.cpp` 201-240, 433-628, 696-739, 1111-1178) | the output WFA, a delta and a mark per transition, quasi, the generation, the rule being handled | setupOutput, post, handle_trans, handle_eps_trans, gen_state, constructCFG | worklist order, deltas that change while they are used, generated states off the worklist, chained queries | the output solves the saturation equations and means post*; it returns |
| prestar (`WPDS.cpp` 182-431) | the output WFA, deltas and marks | set-up of the pop rules, pre, handle_trans, handle_call | a push rule reads two transitions that arrive and grow in either order | the same for pre* |
| EWPDS (`wpds/ewpds`, `MergeFn.cpp`) | merge_rule_hash; per ETrans a weight before and a weight after the call | add_rule, erase_rule, copy, poststar, prestar | two weights per transition of which one decides `modified()`; rules that share a right-hand side must share their merge function | every return is merged with the whole weight at its call |
| FWPDS (`wpds/fwpds`) and `graph` | an InterGraph of IntraGraphs and hyper edges, a RegExpDag with cached values, LazyTrans | build, saturate, get_weight, checkResults | components solved once in order, call and return found in either order, cached evaluations that go stale, path order | the same answer as EWPDS |
| WFA store (`WFA.cpp`, `State.cpp`, `TransSet.cpp`) | kpmap, eps_map, state_map with a TransSet and a tag per state, Q, F, init_state | addTrans, addState, erase, eraseState, clear, copy, filter, prune | one transition object behind three maps; prune decides by tags that two worklist loops write | the maps agree; prune keeps the chop and leaves nothing else |
| WFA algorithms (`WFA-path_summary.cpp`, `WFA-eclose.cpp`, `WFA.cpp`, `regex`) | a weight, a delta and a mark per state | path_summary, epsilonClose, simulate, removeEpsilons, semideterminize, toRegex | worklist order; results of six algorithms for one question | least solutions; the algorithms agree |
| NWA storage (`opennwa/NWA.cpp`, `details/*Storage*`) | states, initial and final ones, symbols, three transition sets | add, remove, duplicate, realize and remove implicit transitions, prune, chop | loops over a set that grows; returns that name a third state | what should keep the language keeps it |
| NWA constructions, decisions and `nwa_pds` | none of their own | union, concat, star, reverse, determinize, complement, intersect, quotient; emptiness, inclusion | pending calls and returns, epsilon, wild symbols | the language |
| Keys, containers, worklists, witnesses, parsers, AddOns, Bindings | interning tables, queues | | | see section 7 |

How they interact: a query reads rules through `Config` lists and `r2hash`, adds Configs
to the same map, and writes the output WFA through `WFA::insert` and its worklist marks.
It reads the WFA through the TransSet of a state and through `eps_map`. EWPDS overrides the
handlers of the query, so that the same loop writes `ETrans`. FWPDS keeps the loop but
writes a graph instead of weights, solves it when the loop is done, and leaves `LazyTrans`
in the output that ask the graph when they are read, which may be during the next query.
`WFA::path_summary` and `epsilonClose` have variants that turn the automaton into a WPDS and
an IntraGraph. `opennwa` decides emptiness by a poststar on a pushdown system whose stack
holds call sites, and inclusion by complement, intersection and emptiness.

`PROJECT.json` lists every component with its status, the hazards at their lines, and the
map from definitions to source lines.

## 2. The modules

| Module | What it models |
|---|---|
| `Semiring` | the contract of a weight domain: constants and named assumptions; default `delta`, `extendAndDiff`, `underApproximates` |
| `RelationDomain` | the weight domain of the runs: relations on two points, idempotent and not commutative |
| `Fixpoint` | the least fixed point of a monotone operator on sets |
| `Wfa` | an automaton under saturation: transitions with weight, delta and worklist mark; `insert`, `update`, `Take` (pop from the worklist, reset the delta) |
| `Wpds` | rules, and the rule lookups of the queries |
| `WpdsPoststar` | poststar and constructCFG as a state machine, and its inductive invariant |
| `WpdsPrestar` | prestar as a state machine |
| `PdsSemantics` | reference: weights of configurations by firing rules, and of words read off an automaton (TLC only) |
| `PdsRuns` | the same reference for stacks of every height, as least closed sets (for the proofs only) |
| `Tables` | symbols, and maps that grow and shrink, as both stores use them |
| `WpdsRules` / `RuleMap` | the rule database / the abstract map it implements |
| `MergeFns`, `Ewpds`, `EwpdsInv`, `EwpdsSemantics` | merge functions; an EWPDS session (rules, copies, both queries) as a state machine; its inductive invariant; reference: weights of configurations with merge at returns |
| `Fwpds` | FWPDS on top of `Ewpds`: building the graph, saturating its components, reading the answer |
| `IntraGraph` | the path sequence of a graph: components, dominators, cutsets, path compression |
| `RegExp` | RegExpDag: construction, updates, evaluation, the two saturation processes |
| `WfaStore` / `Chop` | the maps of a WFA, filter and the steps of prune / the reference notion of chop |
| `WfaPaths` | `path_summary` and `epsilonClose` by worklist, as a state machine |
| `WfaWords` | simulate, removeEpsilons, semideterminize, toRegex, epsilonClose by a pushdown system, as operators |
| `WfaTarjan` | `path_summary` by a pushdown system and Tarjan's path sequence |
| `Nwa` | a nested word automaton and the methods that edit one |
| `NwaWords` | nested words, the run on one (`isMemberNondet`), and the languages the constructions are measured against |
| `NwaConstruct` | the eight constructions, the pushdown system of an NWA, emptiness and inclusion |
| `NwaSession` | a client that edits an automaton and hands it to constructions |
| `MC*` | small instances |
| `WfaTheorems` | lemmas on the order of weights, on insert and update, on the paths of an automaton |
| `PoststarProofs`, `PrestarProofs`, `EwpdsProofs`, `StoreProofs`, `WfaPathsProofs`, `NwaProofs`, `NwaLanguageProofs` | the theorems |

State and actions against the code:

* **WpdsPoststar.** `fa` is the output automaton (`trans`, `weight`, `delta`, `marked`),
  `gen` its generation, `quasi` the quasi-one of each generated state, `cur`, `dnew` and
  `todo` the local variables of `post()` while it goes through the rules of one transition.
  `CallPoststar` and `ConstructCFG` are the client, `caller` which of them the query is for;
  `Setup` is `setupOutput`;
  `PopTransition` and `PopEpsilon` are `post()` up to its loop and on an epsilon
  transition; `HandleRule` and `HandlePush` are `poststar_handle_trans`, one action per
  rule, because the updates of one rule are seen by the next; `Finish` returns;
  `QueryAgain` gives the output back as input. `gen_state` is interning by
  (generation, state, symbol). The order in which marked transitions are popped, and that
  of the rules of one transition, is left open: the theorems hold for every worklist.
* **WpdsPrestar.** `Setup` is `prestarSetupFixpoint` with the pop rules, `Pop` the start of
  `pre()`, `HandleRule`, `HandlePushFirst` and `HandlePushSecond` the backward rules and
  the `r2hash` loop.
* **WpdsRules.** One variable per index; `AddRule` (add and replace), `EraseRule`,
  `EraseMissingRule`, `ClearRules`, `CopyRules`, and `Query`, the Configs a query makes.
  Its specification is `RulesSpec`, so that `StoreProofs` can speak of both stores.
* **Ewpds.** The rules with their merge functions and `merge_rule_hash`; the automaton of
  `Wfa` with `call`, a function that gives each ETrans its weight at the call and its merge
  function (a plain Trans is outside its domain).
  `AddNew`, `AddAgain`, `EraseRule` and `Copy` build the system, with the abort of the
  clash check; `Ask` and `AskAgain` start queries; the `Pop*`, `Post*` and `Pre*` actions
  are the overridden handlers.
* **Fwpds.** `AddIntra`, `AddHyper` and `AddReturn` are the three ways an edge enters the
  InterGraph, called from the `Build*` actions in whatever order the loop meets
  transitions; `StartSolve`, `NextScc` and `Propagate` are the saturation; `SolveDone`
  reads the LazyTrans back; `Check` is `checkResults`: the EWPDS answers the same query.
  An expression of the graph is modelled by the weights it takes; how a graph gets its
  expressions and how expressions are evaluated is what `IntraGraph` and `RegExp` model.
* **RegExp.** A dag of nodes with value, dirty bit, last_seen, last_change and the counts
  of the process it belongs to; `Make*` builds (with the sharing and simplifications of
  the code), `Update` changes leaves, `GetWeight` evaluates, `Stop` and `Start` end a
  saturation process and begin the next.
* **IntraGraph, WfaTarjan.** Functions: a graph to a path sequence, a path sequence and an
  automaton to its summary.
* **WfaStore.** One variable per map; a transition object exists while it is in the domain
  of `weight`, so a map that holds another one holds a deleted pointer. The operations of
  a client are single actions; `prune` is `PruneStart`, `BackStep`, `BackDone`,
  `ForwardStep` and `Sweep`, one action per round of its loops. Entries of `kpmap` that
  have become empty stay, as in the code: `filter` asks for the size of `kpmap`. A failed
  assertion is `pc = "aborted"`, the use of a null pointer `pc = "undefined"`; both stop.
* **WfaPaths.** Weight, delta and mark of every State; `SetupFixpoint`, `PopState` and
  `TellPredecessor` are `path_summary_iterative_original`; `StartClose`, `PopSource` and
  `Relax` are `epsilonClose_Mohri` with its `d` and `r`; `AddTrans` and `GoOn` let the
  automaton grow between queries, whose deltas are left in the States.
* **NwaSession.** `nwa` is the automaton under edit, a record of the sets the three storage
  classes keep; one action per editing method. `realizeImplicitTrans` iterates over sets it
  inserts `stuck` into: whether the iteration meets `stuck`, and before which pair of a
  state and a symbol it enters, depends on its key, so both are open (`met`, `early`).
  A construction is one action that computes `out` from `nwa` and `arg`: its loops have no
  state a client sees, and their worklists are sets that only grow, so the result is the
  least fixed point whatever the order. Its assertions (`statesOverlap`, the one of
  `project_symbol_4`) are the guards of the action.

Data is abstracted to what the properties tell apart: keys are model values, formatting
and logging are left out, the hash order of a container is any order.

## 3. The runs

| Run | What it covers | Distinct states |
|---|---|---|
| `poststar` | every set of up to three of nine rules (pops, steps, pushes, self-loops) of one control state, from four inputs (one symbol, two deep, with an epsilon transition, with a chain of them) and from constructCFG, every order, into an output that is not empty before | 91 243 |
| `poststar_again` | two chained queries on three programs with two control states (calls that return in either state, mutual recursion, two ways to one generated state); liveness | 6 478 |
| `prestar` | every set of up to two of nine rules and the three programs, from four inputs; liveness | 9 821 |
| `rules` | every sequence of operations on five rules that share Configs, buckets and pop targets, with queries that leave Configs behind | 3 852 |
| `ewpds` | sessions of up to three rules with two merge functions of the client and the default, built by additions, replacements, erasures and copies; both queries, one more on the output; from two inputs, the second of which lets two calls with one return point hide a growth | 476 991 |
| `fwpds` | up to three of eight rules, FWPDS then EWPDS, a second query on the output for up to two rules, every order of building and solving | 157 671 |
| `regexp` | every expression of up to six nodes over updatable and constant leaves, up to three updates, two processes, with top-down evaluation | 113 478 |
| `paths` | every automaton of up to four of seven transitions on three states, grown between queries, every worklist order; words of up to two symbols | 54 083 |
| `wfa_store` | every sequence of operations on four states and six transitions: a self-loop, an epsilon cycle, a transition that may be weightless, a dead end; two filters; every worklist order of prune; liveness | about 220 000 |
| `nwa` | from two automata on two states, up to four of eight transitions (calls, internals and returns, with a wild and an epsilon each, returns that may pend), every edit, every construction with one of three second automata, both decisions; words of up to four positions | 55 008 |
| `wfa_prune_doc`, `nwa_determinize_doc` | violations, section 6 | |

Properties worth naming:

* `SaturatedWhenDone`, `Saturates`: when a query returns, the automaton solves the
  saturation equations (of EWPDS: with every return merged with the whole weight at its
  call).
* `NoLostUpdate`: a delta that is not zero waits on the worklist.
* `AnswersPostStar`, `AnswersPreStar`, `AnswersQuery`: the weight the output gives to every
  configuration of at most two symbols is the combination over all runs of the pushdown
  system, computed without automata on stacks of up to four symbols.
* `GeneratedStatesAreFresh`: a chained query does not share generated states with its input.
* `CfgAddsNoStates`: the states constructCFG makes are the ones poststar would generate, so
  that its query adds none. The variable `caller` remembers which queries are its own; the
  property does not recognise them by the generation it is about.
* `RulesIndexesAgree`, `IndexesAgree` (of the WFA store): the indexes hold exactly what exists;
  `ImplementsRuleMap`: the database implements the map of `RuleMap`.
* `MergeFunctionsAgree`: rules of one right-hand side merge alike, unless one was added
  twice, and the entry of merge_rule_hash that a new rule is compared with speaks for all of
  them, after an erase too; `SummariesMarked`: prestar's ETrans are the summaries of procedures, and its
  assertions hold; `PostAgainAddsNothing`: a second poststar on the output gives no
  configuration a new weight.
* `AgreesWithEwpds`: FWPDS and EWPDS give every transition the same weight.
* `WeightsAreFresh`: an expression read by get_weight has the value its leaves give it;
  `OldAreConstant`: an expression of a finished process changes its value no more.
* `SummaryIsLeast`, `ClosureIsLeast`: both worklist algorithms return the least solution of
  their equations, after the automaton grew too. `TarjanAgrees`: Tarjan's method returns the
  same summary. `WordsAgree`: simulate, removeEpsilons and semideterminize accept the same
  words. `RegexWithinSummary`: a regular expression solves to the summary, empty path apart.
* `PruneKeepsChop`: no step of prune removes a transition on a path from the initial to a
  final state. `PruneLeavesChop`: after prune only those are left, with one exception
  (section 6).
* `BuildsItsLanguage`: union, concat, star, intersect, reverse and quotient build the
  language they are named for. `DeterminizesItsLanguage`: determinize yields a deterministic
  automaton for the same words, complement one for the others. `DecisionsAgree`:
  languageIsEmpty and languageSubsetEq are right about the words. Each has the exceptions of
  section 6, stated in the property and as narrow as they can be: dropping any of them makes
  TLC find a counterexample. `EditsKeepLanguage`: duplicating a state, realizing implicit
  transitions, pruning and chopping keep the language.
* `EveryQueryReturns`, `QueryReturns`, `PruneReturns`: the loops end.

**Bounds.** `MaxGeneration` bounds the chained queries: a query only compares its own
generation with its input's, so two in a row show every interaction. `Depth` and `Cut` bound
the stacks of the reference semantics: runs may go through stacks of four symbols and
configurations of up to two are compared, for equality, so that a run cut off too early
would show as a weight the reference lacks.
Rule menus contain every shape of rule and every way two rules can share a Config, a bucket,
a right-hand side or a generated state; three rules are enough for a call, its callee and a
step that feeds it late. Four states let an automaton have a dead end, a cycle, two ways to
a final state and an initial state that reaches none at once; three states and four
transitions give `path_summary` and the path sequence cycles, joins and epsilon paths.
`MaxNodes`, `MaxCount`, `MaxProcess` let an expression share subexpressions under a star, be
updated between two evaluations of another one, and outlive its process. `MaxTrans` and
`MaxLength` let a nested word have a call within a call, a pending call and a pending return
together. In `nwa` the automaton is no longer handed to constructions once a duplicate or a
stuck state joined it, which bounds the products and not the edits. The relation domain has
16 elements that neither commute nor are invertible, and the `Diff` operators are the ones
the comment of `SemElem::delta` names and the exact one a domain may supply. In it the star
of w is One + w, so that a run sees whether a star is taken, not how often it is unrolled.
`CHECK_DEADLOCK FALSE` is set where the system may stop: a client that asks no more, a
failed assertion.

**Fairness.** Queries and prune are plain sequential loops on one thread: they take another
step as long as they can. So weak fairness is assumed of the disjunction of a query's (of
prune's) steps, and of nothing else: not of a single action, not of the order of the
worklist, not of the client.

## 4. The proofs

For every set of states, symbols, rules and automata, every weight domain that satisfies the
assumptions of `Semiring` (which include no bound on the chains of weights) and every
worklist order:

* **`PoststarProofs`** (`PoststarInvariant`, `PoststarTyped`, `PoststarSaturates`,
  `PoststarLosesNothing`, `PoststarGeneratesFresh`, `PoststarGrows`,
  `PoststarCfgAddsNoStates`, `PoststarLeast`, `PoststarAnswers`). `SaturatedWhenDone` is not
  inductive: half-way through, rules have not been applied. `IInv` says instead that whatever
  a rule owes for a transition, or an epsilon transition for one behind it, is
  *paid or pending*: the weight the output lacks is covered by a delta, and a transition
  with a delta is marked, or is the one being handled by a rule that is still to come, or
  leaves a state of this query, where the delta is the whole weight and every epsilon
  transition to come will pick it up. The lemmas say that an insertion or update
  keeps every debt covered (`RulesKept`, `EpsKept`), that taking a transition moves its delta
  into `dnew` (`TakeKept`), and that handling a rule pays that rule's share. At `Finish`
  nothing is pending, so everything is paid. The theorems that rest on `IInv` are stated
  under `AllFromControl`: epsilon transitions of the client's automata leave control states
  only. The run `poststar` also checks an input outside it (`EpsChain`).
  `PoststarLeast` is the other half: no solution of the equations lacks a transition of the
  output or gives it less weight, so that the output is the least solution. Its invariant,
  `LeastInv`, says at every step that weights and deltas are within all *bounds* that the
  rules keep: a bound gives every transition an ideal, a set of weights closed under combine
  and downwards. A solution gives such bounds, the weights below its own. `LeastInv` needs
  neither `IInv` nor `AllFromControl`; `PoststarTyped` comes with it.
  `PoststarAnswers` says what the two halves mean for configurations of any height: it is
  `AnswersPostStar` without its `Depth` and `Cut`. `PdsRuns` defines the weights of the runs
  of the pushdown system, and those of the paths of an automaton, as the least sets closed
  under a step, so that no induction is needed: whatever is closed holds them. One half,
  `RunsCovered`, takes the weights below a path of the output as the closed set: what the
  output reads after a rule covers what it read before it, because the output is a solution.
  The other, `ReadingsMean`, gives every state a meaning (the runs to a control state; the
  runs to the call a generated state stands for; for other states the input's own paths) and
  takes as bound of a transition the weights that lead from the meaning of its target into
  that of its source. The rules keep those bounds, though they are no solution: there may be
  infinitely many runs, with no combination of all of them, which is why `LeastInv` speaks of
  ideals. So each run is below a path, and each path below a finite combination of runs
  (`Answer`; by `AnswerBounds` the two sets have the same upper bounds). A query from
  constructCFG's automaton is left out: its states are those that the query generates.
  `PoststarCfgAddsNoStates` has an invariant of its own, `CfgInv`, and needs nothing of
  epsilon transitions or weights: what a step adds leads where a transition led already, or
  to the state generated for a push rule, and the automaton of constructCFG names the states
  of all push rules, in the generation of the query.
* **`PrestarProofs`** (`PrestarInvariant`, `PrestarTyped`, `PrestarSaturates`,
  `PrestarLosesNothing`, `PrestarLeast`, `PrestarAnswers`, `PrestarGrows`). The debts are
  those of a step rule for one transition, and of a push rule for each of the two transitions
  it reads: the debt for the first is paid with the whole weight of the second, and the other
  way round, so whichever of the two grows last pays for both. `PrestarSaturates` says that the answer
  solves the equations and `PrestarLeast` that it is below every solution: together, that
  it is the least one. `PrestarAnswers` is `AnswersPreStar` for stacks of every height, along
  the argument of `PoststarAnswers`. The one fact of its own is `FirstSymbol`: a word is read
  through a transition on its first symbol, because prestar adds no epsilon transition, so
  those of the output are the input's (`OwnOfInput`), and the input is closed under them
  (`EpsilonClosed`). The other theorems assume nothing of the client's epsilon transitions.
* **`EwpdsProofs`** (`EwpdsTyped`, `EwpdsMergeFunctionsAgree`, `EwpdsSummariesMarked`,
  `EwpdsPrestarSaturates`, `EwpdsSaturates`, `EwpdsPrestarLeast`, `EwpdsPoststarLeast`).
  `EwpdsInv` builds the invariant in four
  parts. `ShapeInv`: which transitions are ETrans (out of a control state the summaries,
  elsewhere the calls of a poststar), on which `EwpdsTyped` and `EwpdsSummariesMarked` rest;
  from it also follows that no assertion of a handler fails before an input with ETrans is
  queried. `HashInv`: merge_rule_hash holds the merge function of every rule with a
  right-hand side, an erased rule's entry included. `PreInv`: the debts of `PrestarProofs`,
  where the transition read first is merged if the call ends in a control state. `PostInv`:
  the debts of `PoststarProofs` with a second one for every call, that the weight *at* the
  call has caught up with the transition it stands for, and with each epsilon transition
  owing what `poststar_eps_closure` makes of it, the merge function applied to the weight at
  the call. Paying that debt needs that a growth of the weight at the call shows as a growth
  of the weight after it, which is why `Saturates` excepts the calls that `Hiding` names and
  why `CallKept` remembers a rule each ETrans was made by. `EwpdsPrestarSaturates` needs
  nothing of epsilon transitions, `EwpdsSaturates` is stated under `AllFromControl`, as for
  poststar. Both hold for a second query on the output of the first.
  The upper half is two invariants on top of `ShapeInv`, `PreBelow` and `PostBelow`: at every
  step the weights and deltas are below every solution, for poststar the weights at the
  calls too. A solution of poststar has a weight at each call, and what returns there is
  merged with each rule that leads to the call, since the code keeps the merge function of
  one of them. `EwpdsPrestarLeast` says that the answer of prestar is a solution and below
  every other; `EwpdsPoststarLeast` says that the answer of poststar is below every solution,
  and is one itself when no call is hidden and `AllFromControl` holds, so it is the least
  exactly where `Saturates` has no exception. Poststar can only be compared with solutions
  when a merge function does not answer less to a caller that has more, `MergesMonotone`,
  the hypothesis of that theorem: the handlers merge with the weight at the call as it is so
  far. For merge functions of the library it follows from distributivity, for a client's it
  is assumed; prestar reads no weight at a call and needs no such thing.
* **`WfaPathsProofs`** (`PathsInvariant`, `PathsTyped`, `SummaryLeast`, `ClosureLeast`).
  The invariant has two halves. From below: what a transition owes its source is covered by
  what the source has already and what is on its way, a delta of a state on the worklist, or
  the share of the transitions not yet told. From above: weights and deltas stay below
  every solution, which is what a result too large would break. When the worklist is empty
  the first half says that the weights are a solution, the second that they are the least.
* **`StoreProofs`, the rules** (`RulesTyped`, `RulesIndexed`, `RulesAreAMap`):
  `RulesTypeOK` with `RulesIndexesAgree` is inductive; every operation maps to a step of
  `RuleMap` or to a stutter.
* **`StoreProofs`, the automaton** (`StoreInvariant`, `StoreTyped`, `StoreIndexed`, `PruneIsSafe`,
  `PruneIsThorough`). Reachability is the least closed set, written as the intersection of
  the closed sets, so that a claim about it is shown by giving a closed set and no
  induction on paths is needed. `ChopKept` is the heart: removing transitions off the chop,
  start nodes that lead nowhere and final nodes that are not reached leaves the chop alone.
  `BackInv` and `ForwardInv` say what the tags mean at every round: backwards, tag 1 is a
  promise that a final state is reached; forwards, tags other than the initial state's tell
  what reaches a final state, and 2 what is reached too.
* **`NwaProofs`** (`NwaTyped`, `NwaDeterministic`, `NwaDeterminized`, `NwaEditsKeepLanguage`,
  `DeterminizedLanguage`, `ComplementedLanguage`). Whatever a client
  adds, removes, duplicates, completes, prunes or constructs, its automaton and the one it
  was returned are well formed: transitions run between states of the automaton over symbols
  of its alphabet, and no call or return is labelled EPSILON. There is one lemma per
  operation. Nothing is assumed of the sets that determinize and intersect explore, because
  a transition brings its states along; and a determinized automaton has one way on from
  each state through each symbol because the state it goes to is a function of the state and
  the symbol (and, for a return, of the call predecessor).
  The other four are about words, up to any `MaxLength`. The library's induction theorems
  take an operator as a parameter and cannot be used, but its statement that the order of
  the naturals is well founded takes a set: a least counterexample is enough (`LeastNat`,
  `NatInd`, `UpTo`). The recursive functions of `NwaWords` and `Fixpoint` are unfolded that
  way once each, and everything else speaks of one step. Two arguments carry the rest.
  *Simulation*: `Carries` relates the states of two automata so that the starts, the
  EPSILON edges and the three kinds of transitions of one are answered by those of the
  other, pops included; `Carried` says that it keeps every configuration, so every word.
  `Onto` and `Includes` are the cases most operations need, a map of states that takes
  transitions to transitions, and an automaton with more of everything. The edits have one
  simulation in each direction; a state that is pruned away can be on no run that is alive.
  *Relations*: a configuration of the
  automaton fits a state of the determinized one, and the stack beneath it, when each of its
  states is related to the one the stack has below it, or to an initial one. The runs
  that a call of another run opens fit as well, until that call returns, and are what
  `DeterminizesItsLanguage` excepts.
* **`NwaLanguageProofs`** (`NwaBuildsItsLanguage`). Union, quotient and intersection are
  simulations too. The others need *runs without stacks*: where positions from several
  places meet, the height of a position (calls before it less returns) tells which call a
  return closes (`Partner`), and acceptance is the existence of a sequence of states
  (`AcceptsRun`). A run of a concatenation is cut where it passes from the first automaton
  to the second (`ConcatApart`); one of a star at the last position where it may be in the new
  start state (`StarApart`), and the mark of a state says whether the
  iteration has a call open there (`Inside`, `SideAt`). A run of a reversal is one of the
  automaton read from behind through the *targets* of its transitions, because EPSILON then
  leads the other way (`BackClosure`); backwards the call predecessor is lost where a return
  site serves two call sites, hence `OneCallPerReturn`. `NwaBuildsItsLanguage` says it of
  every automaton a client builds, with the invariant `BuildInv`: the automata are sound,
  the arguments of a union or concatenation are still disjoint, and no state has the key
  star starts from.

Each inductive invariant was checked with TLC on the run's instance before it was proved,
apart from the conjuncts that speak of every solution or bound, which are too many to
enumerate.

Assumptions: `WeightClosed`, `CombineLaws`, `ExtendLaws`, `Distributes`, `DiffContract`
(Semiring), `WfaAssumption`, `PoststarAssumption` (rules and inputs are such, and a client
names no generated state of a generation its automaton has not reached: `gen_state` "is only
used by poststar"), `EwpdsAssumption` (the same of rules and inputs), `MergeAssumption` (a
client's merge function distributes over combine in the weight of the callee and takes Zero
to Zero: the queries hand it that weight piece by piece), `RulesAssumption`,
`EpsilonAssumption`, `StoreAssumption`, `MetaSymbols`, `AlphabetAssumption`, `SessionAssumption` and
`KeyAssumption` (EPSILON is not WILD, words are over letters, the client hands over automata
with finitely many states, whose transitions are what their kind says, and none of its
states has the key `kleeneStarStart`, as `nwa_star.cpp:36` asserts), and those of
`WpdsPrestar` and `WfaPaths` on their inputs. TLC evaluates each of them on the instances of
the runs.

## 5. What is only model-checked

* Liveness (`EveryQueryReturns`, `QueryReturns`, `PruneReturns`): fairness is out of the
  prover's reach, and for arbitrary domains termination also needs chains of bounded length.
* `AnswersPostStar`, `AnswersPreStar`: they compare with a recursive reference, computed up
  to a height. Their counterparts without a height are proved (`PoststarAnswers`,
  `PrestarAnswers`); that `PdsSemantics` computes what `PdsRuns` defines needs induction and
  is not. `AnswersQuery`, the same with merge functions, is only checked.
* `PostAgainAddsNothing`: it reads both automata through the same reference.
* `DecisionsAgree`: it is not true of every constant. `languageIsEmpty` looks at words of any
  length and `Words` at those up to `MaxLength`, so that the bound has to be large
  enough for the automata of the run.
* FWPDS, RegExp, the path sequence and the WFA algorithms on words: their operators recurse
  over graphs and expressions, as `RECURSIVE` definitions.

## 6. Where the code and its documentation part

With a run:

* `WFA.cpp:913`: `init->tag++` turns the tag 0 of an initial state from which no final state
  is reached into 1, and a self-loop of that state then promotes it to 2. The state and its
  self-loops survive prune; `WFA.hpp:468` says that transitions outside the chop are removed
  (`wfa_prune_doc`). `PruneLeavesChop` states, and `PruneIsThorough` proves, that this is
  the only thing left behind.
* `nwa_determinize.cpp:281`: the relation of a state after a call is that of all calls of
  the symbol, whatever state it left; only the matching return looks back. Words that leave
  a call open are accepted though the automaton rejects them: with one call from the initial
  to the final state, the word of two calls (`nwa_determinize_doc`).
  `construct/determinize.hpp:13` promises an equivalent automaton. So `complement` lacks
  such words, and `languageSubsetEq` may answer true when a word with a pending call is in
  the first language only. `DeterminizesItsLanguage` and `DecisionsAgree` say that words
  without a pending call are treated right.

Without a run of their own, in the order of the modules:

* WPDS: `setupOutput` clears the output automaton (`WPDS.cpp:210`, 214) though
  `WPDS.hpp:221` says that its transitions "will be there after the query". `erase_rule`
  fails an assertion (`WPDS.cpp:916`) for a rule that does not exist between Configs that
  do, where `WPDS.hpp:175` promises false (`EraseMissingRule`).
* WFA store: `erase` of a transition that is not there uses a null pointer, or the end of
  `state_map` (`EraseMissing`); a prune of an automaton that accepts nothing erases the
  initial state and keeps `init_state`, so the next prune or filter fails
  `assert(init != 0)` (`BackDone`, `Filter`).
* EWPDS rules: adding a push rule again replaces its merge function before the check
  compares the two (`EWPDS.cpp:200-246`), so its error branches are never taken;
  `erase_rule` leaves `merge_rule_hash` with the erased rule, and a later rule may abort for
  a clash with it; copying an EWPDS whose rules of one right-hand side disagree aborts
  (`AddAgain`, `Clashes` and `Copy`). `MergeFn::equal` with an object of another class
  dereferences a null pointer.
* EWPDS queries: `ETrans::combineTrans` (`ETrans.cpp:90`) may let the weight at the call
  grow without a change of the weight after it, and the transition then counts as not
  modified; the epsilon closures it was part of keep the old weight at the call. `Saturates`
  leaves out the transitions behind a call for which that can be so (`Hidden`): those of a
  rule whose weight can swallow a growth that its merge function sees (`SeesCalls`), and those
  two rules with different weights or merge functions lead to. `prestar` on the output of a
  poststar with a call fails `assert(!(et1 == 0 && et2 != 0))` (`EWPDS.cpp:321`) or
  `assert(et != 0)` (403). An epsilon transition into a generated state counts the callee without its merge if the
  automaton is read as it stands.
* FWPDS: the ETrans handler keeps the first call of a return node (`InterGraph.cpp:129`), so
  a node that several calls return to gets the weight of one, and `checkResults` would
  report "Not equal"; `AgreesWithEwpds` leaves those nodes out (`Shared`). Hyper edges of
  one node pair in prestar share an updatable edge, of which the code warns itself
  (`IntraGraph.cpp:507`). FWPDS also needs `apply_f(w1, w2) = w1 * apply_f(One, w2)` of a
  merge function, which no documentation asks for. Switching `topDownEval` after a query
  makes cached values stale (`RegExp.cpp:1303`); the run fixes it.
* WFA algorithms: `WFA.hpp:405-417` says that `toRegex().solve()` is the weight of the
  initial state, but `Root::ID` has no weight (`Root.cpp:33`) and `Union::solve` skips it,
  so the empty path is lost (`RegexWithinSummary`). `removeEpsilons` loses the weight of an
  epsilon path to a final state, and what it leaves depends on the order of its steps;
  `semideterminize` overwrites weights (`WFA.cpp:1880`). `WordsAgree` is about words, not
  weights, for that reason.
* NWA storage: a wild call or return cannot be removed by `removeCallTrans` and
  `removeReturnTrans`, which ask `isSymbol`; `removeReturnTrans(from, sym, to)` stops after
  the first removal (`NWA.cpp:940`). `removeImplicitTransitions` may remove a state that a
  pending return needs as its call predecessor.
* NWA language: `isMemberNondet` looks transitions up by the very symbol, so a wild
  transition matches nothing, where determinize and intersect let it match every symbol, as
  the manual does (`Doc/opennwa/A.nwas.tex:116`). `concat` lacks some words with a pending
  return. `intersect` makes the pairs an epsilon leads to from the initial ones initial too,
  so a pending return may pop them, and `languageSubsetEq` may answer false wrongly.
  `reverse` adds words when a return site serves two call sites. `determinize` fails
  `assert(added)` (`RelationOps.hpp:367`) when a symbol and a wild return join the same
  three states. `isDeterministic` of an automaton without symbols does not look at its wild
  transitions.

## 7. What is not modelled

* WPDS: the deprecated and the wrapper hooks. Newton's method (`useNewton`,
  `poststarIGR` by itself), SWPDS and `SummaryGraph`; `calculatePopWeights`; the compression
  and minimization of regular expressions and the other values of `REGEXP_METHOD`.
* WFA: intersect, duplicateStates, complete, the crosscheck variants that run two algorithms
  and compare; a `wt` parameter of `path_summary` other than One; `toWpds` with a callback.
* OpenNWA: the indexes of TransitionStorage (derived from the three sets; the models keep
  the sets), client information, the backward and the return-stacking pushdown systems
  (`NwaToPdsReturns` over-approximates), `WpdsToNwa` and `plusWpds`, witnesses, traversal,
  the parser, OpenFST interoperation, the command-line tools.
* Witnesses: a weight domain that records derivations; the saturation it runs on is the one
  modelled. Shipped weight domains: value types whose laws are the assumptions of
  `Semiring`. `KeySpace`, `HashMap`, `ref_ptr`: interning and containers, used by the models
  as injections and maps. Worklist classes: the models allow every order, hence each of
  theirs.
* Parsers, printing, `DebugWPDS`, `Wrapper`, bindings (36 000 generated lines), AddOns with a
  vendored BDD library, examples, build files: no behaviour of the core. They are most of
  the repository's lines, which is why the mapped lines are a small share of all of them.

## 8. What comes next

1. What the answer of an EWPDS says of configurations, for stacks of every height, along the
   argument of `PoststarAnswers`: a run is then a nested one, whose returns are merged.
2. The indexes of `TransitionStorage` as a module with a proof that they agree, as for
   `WfaStore`.
3. `SummaryGraph` and Newton's method on top of `Fwpds`.
4. The conversions `WpdsToNwa` and `plusWpds`, against `NwaWords` and `PdsSemantics`.
