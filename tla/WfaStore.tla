------------------------------ MODULE WfaStore ------------------------------
(***************************************************************************)
(* The store of a wali::wfa::WFA: the maps through which one transition is *)
(* reached (kpmap by source and symbol, eps_map by the target of an EPS    *)
(* transition, the TransSet of its source State), the sets Q and F, the    *)
(* initial state, and the operations that must keep them together: adding  *)
(* and erasing transitions and states, filter, and prune, whose two        *)
(* worklist loops work on the tags of the states.                          *)
(***************************************************************************)
EXTENDS Semiring, Tables, Integers

CONSTANTS
    States,     \* the keys of the states
    Adds,       \* what the client passes to addTrans: [trans, weight]
    Finals,     \* the states it makes final
    Initials,   \* the states it makes initial
    Filters     \* the sets of symbols it filters with

Trans == [from : States, stk : Symbol, to : States]

ASSUME StoreAssumption ==
    /\ EPS \notin States  \* the initial state of an automaton without one
    /\ Adds \subseteq [trans : Trans, weight : Weight]
    /\ Finals \subseteq States /\ Initials \subseteq States

VARIABLES
    weight,     \* the weight of each transition object that exists
    kpmap,      \* <<from, stk>> to a TransSet, which may have become empty
    eps_map,    \* to to a TransSet of EPS transitions
    state_map,  \* each State to its TransSet
    tag,        \* each State to its tag, a scratch field of prune
    Q, F, init_state,
    pc,         \* where prune is; "aborted": an assertion failed
    wl          \* its worklist

trans == <<weight, kpmap, eps_map>>
vars == <<weight, kpmap, eps_map, state_map, tag, Q, F, init_state, pc, wl>>

Owned == DOMAIN weight
KeyPair(t) == <<t.from, t.stk>>
Source(t) == t.from
Target(t) == t.to
EpsOnly(T) == {t \in T : t.stk = EPS}

Init ==
    /\ weight = <<>> /\ kpmap = <<>> /\ eps_map = <<>>
    /\ state_map = <<>> /\ tag = <<>>
    /\ Q = {} /\ F = {} /\ init_state = EPS
    /\ pc = "idle" /\ wl = {}

(* The TransSets of f without the transitions D; the entries stay. *)
Purged(f, D) == [x \in DOMAIN f |-> f[x] \ D]

(* Mutated forms: eps_map is left alone, the old tags stay, the EPS        *)
(* transitions do not count, every predecessor goes on the worklist again, *)
(* states that are only reachable backwards stay.                          *)
EpsPurged_Kept(D) == eps_map
StartTag_Kept(s) == IF s \in F THEN 1 ELSE tag[s]
Preds_Labelled(q) == {p \in Q : \E t \in state_map[p] : t.stk # EPS /\ t.to = q}
NewPreds_All(q) == {p \in Q : \E t \in state_map[p] : t.to = q}
Dead_Unreached(s) == tag[s] = 0

(* eraseTransFromEpsMap, of every transition of D. *)
EpsPurged(D) == Purged(eps_map, D)
-----------------------------------------------------------------------------
(***************************************************************************)
(* The calls of a client.                                                  *)
(***************************************************************************)
AddState(s) ==
    /\ pc = "idle"
    /\ Q' = Q \cup {s}
    /\ state_map' = Extended(state_map, {s}, {})
    /\ tag' = Extended(tag, {s}, 0)
    /\ UNCHANGED <<trans, F, init_state, pc, wl>>

(* setInitialState, addFinalState: both assert that the state exists. *)
SetInitial(s) ==
    /\ pc = "idle" /\ s \in Q
    /\ init_state' = s
    /\ UNCHANGED <<trans, state_map, tag, Q, F, pc, wl>>

AddFinal(s) ==
    /\ pc = "idle" /\ s \in Q
    /\ F' = F \cup {s}
    /\ UNCHANGED <<trans, state_map, tag, Q, init_state, pc, wl>>

(* insert of a transition kpmap does not find: it enters every map. *)
AddNew(t, w) ==
    LET ends == {t.from, t.to}
        sets == Extended(state_map, ends, {})
        kps == Extended(kpmap, {KeyPair(t)}, {})
        epss == Extended(eps_map, {t.to}, {})
    IN  /\ pc = "idle"
        /\ KeyPair(t) \in DOMAIN kpmap => t \notin kpmap[KeyPair(t)]
        /\ Q' = Q \cup ends
        /\ tag' = Extended(tag, ends, 0)
        /\ kpmap' = [kps EXCEPT ![KeyPair(t)] = @ \cup {t}]
        /\ state_map' = [sets EXCEPT ![t.from] = @ \cup {t}]
        /\ eps_map' = IF t.stk = EPS THEN [epss EXCEPT ![t.to] = @ \cup {t}] ELSE eps_map
        /\ weight' = [u \in Owned \cup {t} |-> IF u = t THEN w ELSE weight[u]]
        /\ UNCHANGED <<F, init_state, pc, wl>>

(* insert of one it finds: combineTrans. *)
AddAgain(t, w) ==
    /\ pc = "idle"
    /\ KeyPair(t) \in DOMAIN kpmap /\ t \in kpmap[KeyPair(t)]
    /\ weight' = [weight EXCEPT ![t] = Combine(@, w)]
    /\ UNCHANGED <<kpmap, eps_map, state_map, tag, Q, F, init_state, pc, wl>>

(***************************************************************************)
(* erase of every transition in D, which the maps hold; what is left of    *)
(* state_map and tag is the caller's to say.                               *)
(***************************************************************************)
EraseFromMaps(D) ==
    /\ weight' = Without(weight, D)
    /\ kpmap' = Purged(kpmap, D)
    /\ eps_map' = EpsPurged(D)

Erase(t) ==
    /\ pc = "idle"
    /\ KeyPair(t) \in DOMAIN kpmap /\ t \in kpmap[KeyPair(t)]
    /\ EraseFromMaps({t})
    /\ state_map' = Purged(state_map, {t})
    /\ UNCHANGED <<tag, Q, F, init_state, pc, wl>>

(***************************************************************************)
(* erase of a transition that is not there passes a null pointer to the    *)
(* TransSet of its source, which compares it with the transitions there    *)
(* are; without that State it dereferences the end of state_map.           *)
(***************************************************************************)
EraseMissing(t) ==
    /\ pc = "idle"
    /\ KeyPair(t) \in DOMAIN kpmap => t \notin kpmap[KeyPair(t)]
    /\ pc' = IF t.from \in Q /\ state_map[t.from] = {} THEN "idle" ELSE "undefined"
    /\ UNCHANGED <<trans, state_map, tag, Q, F, init_state, wl>>

(* eraseState of every state in S, with the transitions from and to it. *)
EraseStates(S) ==
    LET touching == {t \in Owned : t.from \in S \/ t.to \in S}
    IN  /\ EraseFromMaps(touching)
        /\ state_map' = Without(Purged(state_map, touching), S)
        /\ tag' = Without(tag, S)
        /\ Q' = Q \ S
        /\ F' = F \ S
        /\ UNCHANGED init_state

EraseState(s) ==
    /\ pc = "idle" /\ s \in Q
    /\ EraseStates({s})
    /\ UNCHANGED <<pc, wl>>

Clear ==
    /\ pc = "idle"
    /\ weight' = <<>> /\ kpmap' = <<>> /\ eps_map' = <<>>
    /\ state_map' = <<>> /\ tag' = <<>>
    /\ Q' = {} /\ F' = {} /\ init_state' = EPS
    /\ UNCHANGED <<pc, wl>>

(* The client goes on with a copy (operator=), built from the transitions. *)
Copy ==
    /\ pc = "idle"
    /\ kpmap' = [kp \in {KeyPair(t) : t \in Owned} |-> {t \in Owned : KeyPair(t) = kp}]
    /\ eps_map' = [s \in {t.to : t \in EpsOnly(Owned)} |-> {t \in EpsOnly(Owned) : t.to = s}]
    /\ state_map' = [s \in Q |-> {t \in Owned : t.from = s}]
    /\ tag' = [s \in Q |-> 0]
    /\ UNCHANGED <<weight, Q, F, init_state, pc, wl>>

Prune ==
    /\ pc = "idle"
    /\ pc' = "prune"
    /\ UNCHANGED <<trans, state_map, tag, Q, F, init_state, wl>>

(* filter does nothing when kpmap has no entry, and goes on to prune. *)
Filter(stks) ==
    LET others == {t \in state_map[init_state] : t.stk \notin stks}
    IN  /\ pc = "idle" /\ DOMAIN kpmap # {}
        /\ IF init_state \in Q
           THEN /\ EraseFromMaps(others)
                /\ state_map' = Purged(state_map, others)
                /\ pc' = "prune"
           ELSE /\ pc' = "aborted"
                /\ UNCHANGED <<trans, state_map>>
        /\ UNCHANGED <<tag, Q, F, init_state, wl>>
-----------------------------------------------------------------------------
(***************************************************************************)
(* The steps of prune.  The transitions of weight zero go first, then      *)
(* setupFixpoint puts the final states on the worklist.                    *)
(***************************************************************************)
StartTag(s) == IF s \in F THEN 1 ELSE 0

PruneStart ==
    LET zeros == {t \in Owned : weight[t] = Zero}
    IN  /\ pc = "prune"
        /\ EraseFromMaps(zeros)
        /\ state_map' = Purged(state_map, zeros)
        /\ tag' = [s \in Q |-> StartTag(s)]
        /\ wl' = F
        /\ pc' = "back"
        /\ UNCHANGED <<Q, F, init_state>>

(* Backwards: the predecessors of q that have no tag yet. *)
Preds(q) == {p \in Q : \E t \in state_map[p] : t.to = q}
NewPreds(q) == {p \in Preds(q) : tag[p] = 0}

BackStep(q) ==
    /\ pc = "back" /\ q \in wl
    /\ tag' = [s \in Q |-> IF s \in NewPreds(q) THEN 1 ELSE tag[s]]
    /\ wl' = (wl \ {q}) \cup NewPreds(q)
    /\ UNCHANGED <<trans, state_map, Q, F, init_state, pc>>

(* The assertion init != 0, then init->tag++. *)
BackDone ==
    /\ pc = "back" /\ wl = {}
    /\ IF init_state \in Q
       THEN /\ tag' = [tag EXCEPT ![init_state] = @ + 1]
            /\ wl' = {init_state}
            /\ pc' = "forward"
       ELSE /\ pc' = "aborted"
            /\ UNCHANGED <<tag, wl>>
    /\ UNCHANGED <<trans, state_map, Q, F, init_state>>

(* Forwards: targets with tag 1 are reached, transitions to tag 0 erased. *)
ForwardStep(p) ==
    LET reached == {s \in Q : tag[s] = 1 /\ \E t \in state_map[p] : t.to = s}
        hopeless == {t \in state_map[p] : tag[t.to] = 0}
    IN  /\ pc = "forward" /\ p \in wl
        /\ tag' = [s \in Q |-> IF s \in reached THEN 2 ELSE tag[s]]
        /\ wl' = (wl \ {p}) \cup reached
        /\ EraseFromMaps(hopeless)
        /\ state_map' = [state_map EXCEPT ![p] = @ \ hopeless]
        /\ UNCHANGED <<Q, F, init_state, pc>>

Dead(s) == tag[s] # 2

Sweep ==
    /\ pc = "forward" /\ wl = {}
    /\ EraseStates({s \in Q : Dead(s)})
    /\ pc' = "idle"
    /\ UNCHANGED wl

Pruning == PruneStart \/ (\E q \in wl : BackStep(q) \/ ForwardStep(q)) \/ BackDone \/ Sweep

Next ==
    \/ \E s \in States : AddState(s) \/ EraseState(s)
    \/ \E s \in Initials : SetInitial(s)
    \/ \E s \in Finals : AddFinal(s)
    \/ \E a \in Adds : \/ AddNew(a.trans, a.weight) \/ AddAgain(a.trans, a.weight)
                       \/ Erase(a.trans) \/ EraseMissing(a.trans)
    \/ \E stks \in Filters : Filter(stks)
    \/ Clear \/ Copy \/ Prune
    \/ Pruning

Spec == Init /\ [][Next]_vars
(* prune is a plain sequential loop: it goes on while it can. *)
FairSpec == Spec /\ WF_vars(Pruning)
-----------------------------------------------------------------------------
TypeOK ==
    /\ Owned \subseteq Trans /\ weight \in [Owned -> Weight]
    /\ DOMAIN kpmap \subseteq States \X Symbol
    /\ kpmap \in [DOMAIN kpmap -> SUBSET Trans]
    /\ DOMAIN eps_map \subseteq States
    /\ eps_map \in [DOMAIN eps_map -> SUBSET Trans]
    /\ Q \subseteq States /\ F \subseteq Q /\ wl \subseteq Q
    /\ state_map \in [Q -> SUBSET Trans]
    /\ tag \in [Q -> 0..2]
    /\ init_state \in States \cup {EPS}
    /\ pc \in {"idle", "prune", "back", "forward", "aborted", "undefined"}

(***************************************************************************)
(* Whatever was added, erased, filtered, copied and pruned before, and     *)
(* between the steps of prune too, the maps hold exactly the transition    *)
(* objects that exist, each under its own key: none is lost to one of      *)
(* them, and none of them keeps a transition that has been deleted.        *)
(***************************************************************************)
Holds(f, T, key(_)) ==
    /\ \A t \in T : key(t) \in DOMAIN f
    /\ \A x \in DOMAIN f : f[x] = {t \in T : key(t) = x}
IndexesAgree ==
    /\ Holds(kpmap, Owned, KeyPair)
    /\ Holds(eps_map, EpsOnly(Owned), Target)
    /\ Holds(state_map, Owned, Source)
    /\ \A t \in Owned : t.to \in Q

INSTANCE Chop WITH Node <- States

(***************************************************************************)
(* Pruning never removes a transition, or a state, that lies on a path     *)
(* from the initial state to a final one: its steps leave the chop of the  *)
(* transitions that have a weight as it is.                                *)
(***************************************************************************)
Live == {t \in Owned : weight[t] # Zero}
Start == {init_state} \cap Q
TheChop == Chop(Live, Start, F)
AtPrune == pc \in {"prune", "back", "forward"}
Useful == Reach(Live, Start) \cap CoReach(Live, F)
PruneKeepsChop ==
    [][AtPrune => UNCHANGED <<TheChop, Useful>>]_vars

(***************************************************************************)
(* When prune returns only the chop is left, and its states; except that   *)
(* an initial state from which no final state is reached stays, with its   *)
(* self-loops, when it has one: the first loop leaves its tag at 0, the    *)
(* increment makes it 1, and the self-loop then makes it 2.                *)
(***************************************************************************)
Returning == pc = "forward" /\ pc' = "idle"
SelfLoops == {t \in Owned : t.from = init_state /\ t.to = init_state}
PruneLeavesChop ==
    [][Returning => /\ Owned' = TheChop' \cup SelfLoops'
                    /\ Q' = Useful' \cup {t.from : t \in SelfLoops'}]_vars

(***************************************************************************)
(* What the two loops of prune keep, beside the maps: the strengthening    *)
(* that makes the properties above inductive.  Backwards, a tag is a       *)
(* promise that a final state is reached, kept for the predecessors of     *)
(* every state that has left the worklist.  Forwards, the tags but that of *)
(* the initial state tell what reaches a final state, 2 also that it is    *)
(* reached, and the successors of a state that has left the worklist are.  *)
(***************************************************************************)
BackInv ==
    /\ Owned = Live
    /\ \A s \in Q : tag[s] # 2
    /\ F \cup wl \subseteq {s \in Q : tag[s] = 1}
    /\ \A s \in Q : tag[s] = 1 => s \in CoReach(Owned, F)
    /\ \A t \in Owned : tag[t.to] = 1 /\ t.to \notin wl => tag[t.from] = 1

Left(s) == s \notin wl /\ (tag[s] = 2 \/ s = init_state)
ForwardInv ==
    /\ Owned = Live
    /\ init_state \in Q /\ tag[init_state] # 0
    /\ \A s \in wl : tag[s] = 2 \/ s = init_state
    /\ \A s \in Q \ {init_state} : tag[s] # 0 <=> s \in CoReach(Owned, F)
    /\ init_state \in CoReach(Owned, F) => tag[init_state] = 2
    /\ \A s \in Q : tag[s] = 2 => s \in Reach(Owned, Start)
    /\ tag[init_state] = 2 /\ init_state \notin CoReach(Owned, F) => SelfLoops # {}
    /\ \A t \in Owned : Left(t.from) => tag[t.to] = 2

IInv == /\ TypeOK /\ IndexesAgree
        /\ pc \in {"idle", "prune"} => wl = {}
        /\ pc = "back" => BackInv
        /\ pc = "forward" => ForwardInv

(***************************************************************************)
(* WFA.hpp of prune: "This removes any transitions that are not in the     *)
(* (getInitialState(),F) chop."                                            *)
(***************************************************************************)
PruneLeavesOnlyTheChop == [][Returning => Owned' \subseteq TheChop']_vars

(* prune returns, or fails its assertion, whatever is on the worklists. *)
PruneReturns == pc = "prune" ~> pc \in {"idle", "aborted"}
=============================================================================
