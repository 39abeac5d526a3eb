----------------------------- MODULE StoreProofs ------------------------------
(***************************************************************************)
(* Proofs about the two stores, for any states, symbols, rules and weights *)
(* and any sequence of calls.                                              *)
(*                                                                         *)
(* The rules of a WPDS: the indexes always agree, and what the client sees *)
(* is a map from rules to weights.                                         *)
(*                                                                         *)
(* The transitions of a WFA: the maps agree on the transitions there are,  *)
(* prune keeps the chop and leaves nothing else but what PruneLeavesChop   *)
(* names.                                                                  *)
(***************************************************************************)
EXTENDS WpdsRules, WfaStore, Sequences, TLAPS

-----------------------------------------------------------------------------
(* The rules of a WPDS.                                                    *)

(* The inductive invariant: nothing has to be added to the checked ones. *)
RulesIInv == RulesTypeOK /\ RulesIndexesAgree

(* The empty map, written <<>> in RulesInit, is a function into any set. *)
LEMMA EmptyMap == \A S : <<>> \in [{} -> S] /\ DOMAIN <<>> = {}
<1>1. <<>> = [x \in {} |-> x]
  OBVIOUS
<1>2. QED
  BY <1>1

(* The empty database is consistent. *)
LEMMA RulesInitIInv == RulesInit => RulesIInv
<1> SUFFICES ASSUME RulesInit PROVE RulesIInv
  OBVIOUS
<1> USE DEF RulesInit
<1>1. RulesTypeOK
  BY EmptyMap DEF RulesTypeOK
<1>2. RulesIndexesAgree
  BY EmptyMap DEF RulesIndexesAgree, ListsAgree, ZeroesAgree, HashAgrees, StatesCovered, Held
<1>3. QED
  BY <1>1, <1>2 DEF RulesIInv

(* Adding or replacing a rule keeps the indexes consistent. *)
LEMMA AddRuleIInv ==
    ASSUME RulesIInv, NEW r \in Rules, NEW w \in Weights, NEW replace \in BOOLEAN,
           AddRule(r, w, replace)
    PROVE  RulesIInv'
<1> DEFINE both == {r.from, r.to}
           fw == Extended(fwrules, both, {})
           bw == Extended(bwrules, both, {})
<1>1. /\ r \in RuleId /\ r.from \in ConfigKey /\ r.to \in ConfigKey
      /\ r.from.state \in P /\ r.to.state \in P
      /\ r.stk2 \in Symbol /\ (IsPush(r) => r.stk2 \in Stack)
  BY RulesAssumption DEF RuleId, IsPush, Symbol
<1>2. w \in Weight
  BY RulesAssumption
<1>3. fw \in [config_map' -> SUBSET Rules] /\ bw \in [config_map' -> SUBSET Rules]
  BY DEF Extended, AddRule, RulesIInv, RulesTypeOK
<1>4. \A c \in config_map' : /\ fw[c] = {x \in Held : x.from = c}
                             /\ bw[c] = {x \in Held : x.to = c}
  BY DEF Extended, AddRule, RulesIInv, RulesTypeOK, RulesIndexesAgree, ListsAgree
<1>5. CASE r \in fw[r.from]
  <2>1. r \in Held
    BY <1>4, <1>5 DEF AddRule
  <2>2. /\ se' = [se EXCEPT ![r] = NewWeight(@, w, replace)]
        /\ fwrules' = fw /\ bwrules' = bw
        /\ UNCHANGED <<rule_zeroes, r2hash>>
    BY <1>5 DEF AddRule
  <2>3. DOMAIN se' = Held /\ se' \in [Held -> Weight]
    BY <1>2, <2>1, <2>2, WeightClosed DEF NewWeight, Held, RulesIInv, RulesTypeOK
  <2>4. RulesTypeOK'
    BY <1>1, <1>3, <2>2, <2>3 DEF RulesTypeOK, RulesIInv, AddRule, Held
  <2>5. RulesIndexesAgree'
    BY <1>4, <2>2, <2>3 DEF RulesIInv, RulesIndexesAgree, ListsAgree, ZeroesAgree, HashAgrees,
       StatesCovered, Held, AddRule
  <2>6. QED
    BY <2>4, <2>5 DEF RulesIInv
<1>6. CASE r \notin fw[r.from]
  <2>1. r \notin Held
    BY <1>4, <1>6 DEF AddRule
  <2>2. /\ se' = [Extended(se, {r}, w) EXCEPT ![r] = w]
        /\ fwrules' = [fw EXCEPT ![r.from] = @ \cup {r}]
        /\ bwrules' = [bw EXCEPT ![r.to] = @ \cup {r}]
        /\ rule_zeroes' = rule_zeroes \cup (IF IsPop(r) THEN {r.to} ELSE {})
        /\ r2hash' = IF IsPush(r) THEN Joined(r2hash, r.stk2, r) ELSE r2hash
    BY <1>6 DEF AddRule
  <2>3. Held' = Held \cup {r} /\ se' \in [Held' -> Weight]
    BY <1>2, <2>2 DEF Extended, Held, RulesIInv, RulesTypeOK
  <2>4. config_map' = config_map \cup both /\ r.from \in config_map' /\ r.to \in config_map'
    BY DEF AddRule
  <2>5. ListsAgree'
    BY <1>3, <1>4, <2>2, <2>3, <2>4 DEF ListsAgree, RulesIInv, RulesIndexesAgree
  <2>6. ZeroesAgree'
    BY <2>2, <2>3 DEF ZeroesAgree, RulesIInv, RulesIndexesAgree
  <2>7. HashAgrees' /\ DOMAIN r2hash' \subseteq Stack
                    /\ r2hash' \in [DOMAIN r2hash' -> SUBSET Rules]
    <3>1. CASE IsPush(r)
      <4>1. /\ DOMAIN r2hash' = DOMAIN r2hash \cup {r.stk2}
            /\ \A y \in DOMAIN r2hash' :
                  r2hash'[y] = (IF y \in DOMAIN r2hash THEN r2hash[y] ELSE {})
                               \cup (IF y = r.stk2 THEN {r} ELSE {})
            /\ r2hash' = [y \in DOMAIN r2hash' |-> r2hash'[y]]
        BY <2>2, <3>1 DEF Joined, Extended
      <4>2. DOMAIN r2hash' \subseteq Stack
        BY <1>1, <3>1, <4>1 DEF RulesIInv, RulesTypeOK
      <4>3. DOMAIN r2hash' = {x.stk2 : x \in {z \in Held' : IsPush(z)}}
        BY <2>3, <3>1, <4>1 DEF RulesIInv, RulesIndexesAgree, HashAgrees
      <4>4. ASSUME NEW y \in DOMAIN r2hash'
            PROVE  r2hash'[y] = {x \in Held' : IsPush(x) /\ x.stk2 = y}
        <5>1. (IF y \in DOMAIN r2hash THEN r2hash[y] ELSE {})
                = {x \in Held : IsPush(x) /\ x.stk2 = y}
          BY DEF RulesIInv, RulesIndexesAgree, HashAgrees
        <5>2. QED
          BY <2>3, <3>1, <4>1, <5>1
      <4>5. ASSUME NEW y \in DOMAIN r2hash' PROVE r2hash'[y] \in SUBSET Rules
        BY <4>4, <2>3 DEF Held, RulesIInv, RulesTypeOK
      <4>6. QED
        BY <4>1, <4>2, <4>3, <4>4, <4>5 DEF HashAgrees, IsPush
    <3>2. CASE ~ IsPush(r)
      BY <2>2, <2>3, <3>2 DEF HashAgrees, RulesIInv, RulesIndexesAgree, RulesTypeOK
    <3>3. QED
      BY <3>1, <3>2
  <2>8. StatesCovered'
    BY <2>3 DEF StatesCovered, AddRule, RulesIInv, RulesIndexesAgree
  <2>9. fwrules' \in [config_map' -> SUBSET Rules] /\ bwrules' \in [config_map' -> SUBSET Rules]
    BY <1>3, <2>2, <2>4
  <2>10. RulesTypeOK'
    BY <1>1, <2>2, <2>3, <2>4, <2>7, <2>9 DEF RulesTypeOK, RulesIInv, AddRule, Held
  <2>11. QED
    BY <2>5, <2>6, <2>7, <2>8, <2>10 DEF RulesIInv, RulesIndexesAgree
<1>7. QED
  BY <1>5, <1>6

(* Erasing a rule that is there keeps the indexes consistent. *)
LEMMA EraseRuleIInv ==
    ASSUME RulesIInv, NEW r \in Rules, EraseRule(r)
    PROVE  RulesIInv'
<1> DEFINE fw == [fwrules EXCEPT ![r.from] = @ \ {r}]
           bw == [bwrules EXCEPT ![r.to] = @ \ {r}]
           erasefrom == Unused(fw, bwrules, r.from)
           eraseto == Unused(fw, bw, r.to)
           gone == (IF erasefrom THEN {r.from} ELSE {}) \cup (IF eraseto THEN {r.to} ELSE {})
           bucket == r2hash[r.stk2] \ {r}
<1>1. /\ r \in RuleId /\ r.from \in config_map /\ r.to \in config_map
      /\ r \in Held /\ RulesIInv
  BY RulesAssumption DEF EraseRule, RulesIInv, RulesIndexesAgree, ListsAgree
<1>2. Held' = Held \ {r} /\ se' \in [Held' -> Weight]
  BY DEF EraseRule, Without, Held, RulesIInv, RulesTypeOK
<1>3. /\ fw \in [config_map -> SUBSET Rules] /\ bw \in [config_map -> SUBSET Rules]
      /\ \A c \in config_map : /\ fw[c] = {x \in Held' : x.from = c}
                               /\ bw[c] = {x \in Held' : x.to = c}
  BY <1>1, <1>2 DEF RulesIInv, RulesTypeOK, RulesIndexesAgree, ListsAgree
<1>4. /\ config_map' = config_map \ gone
      /\ fwrules' = [c \in config_map' |-> fw[c]]
      /\ bwrules' = [c \in config_map' |-> bw[c]]
      /\ rule_zeroes' = ZeroesAfterErase(r, eraseto)
      /\ r2hash' = IF ~ IsPush(r) THEN r2hash
                   ELSE IF bucket = {} THEN Without(r2hash, {r.stk2})
                   ELSE [r2hash EXCEPT ![r.stk2] = bucket]
      /\ UNCHANGED <<pds_states, aborted>>
  BY <1>3 DEF EraseRule, Without
<1>5. \A c \in gone : fw[c] = {} /\ bw[c] = {}
  <2>1. erasefrom => fw[r.from] = {} /\ bw[r.from] = {}
    BY <1>1, <1>3 DEF Unused, RulesIInv, RulesTypeOK
  <2>2. QED
    BY <2>1 DEF Unused
<1>6. ListsAgree'
  <2>1. \A x \in Held' : x.from \in config_map /\ x.to \in config_map
    BY <1>1, <1>2 DEF RulesIInv, RulesIndexesAgree, ListsAgree
  <2>2. \A x \in Held' : x.from \notin gone /\ x.to \notin gone
    <3> HIDE DEF gone, fw, bw
    <3>1. QED
      BY <2>1, <1>3, <1>5
  <2>3. \A x \in Held' : x.from \in config_map' /\ x.to \in config_map'
    BY <1>4, <2>1, <2>2
  <2>4. \A c \in config_map' : /\ fwrules'[c] = {x \in Held' : x.from = c}
                              /\ bwrules'[c] = {x \in Held' : x.to = c}
    <3> HIDE DEF gone, fw, bw
    <3>1. QED
      BY <1>3, <1>4
  <2>5. QED
    BY <2>3, <2>4 DEF ListsAgree
<1>7. ZeroesAgree'
  <2>1. rule_zeroes = {x.to : x \in {z \in Held : IsPop(z)}}
    BY <1>1 DEF RulesIInv, RulesIndexesAgree, ZeroesAgree
  <2>2. CASE IsPop(r) /\ eraseto
    <3>1. rule_zeroes' = rule_zeroes \ {r.to}
      BY <1>4, <2>2 DEF ZeroesAfterErase
    <3>2. \A x \in Held' : x.to # r.to
      BY <1>1, <1>3, <2>2 DEF Unused
    <3>3. QED
      BY <1>2, <2>1, <3>1, <3>2 DEF ZeroesAgree
  <2>3. CASE IsPop(r) /\ ~ eraseto
    <3>1. rule_zeroes' = rule_zeroes
      BY <1>4, <2>3 DEF ZeroesAfterErase
    <3>2. PICK x \in Held' : x.from = r.to \/ x.to = r.to
      BY <1>1, <1>3, <2>3 DEF Unused
    <3>3. x.to = r.to /\ IsPop(x)
      BY <1>1, <1>2, <2>3, <3>2, RulesAssumption DEF IsPop, RuleId, RulesIInv, RulesTypeOK, Held
    <3>4. QED
      BY <1>2, <2>1, <3>1, <3>3 DEF ZeroesAgree
  <2>4. CASE ~ IsPop(r)
    BY <1>2, <1>4, <2>1, <2>4 DEF ZeroesAgree, ZeroesAfterErase
  <2>5. QED
    BY <2>2, <2>3, <2>4
<1>8. rule_zeroes' \subseteq config_map'
  BY <1>6, <1>7 DEF ListsAgree, ZeroesAgree
<1>9. HashAgrees' /\ DOMAIN r2hash' \subseteq Stack
                 /\ r2hash' \in [DOMAIN r2hash' -> SUBSET Rules]
  <2>1. /\ DOMAIN r2hash = {x.stk2 : x \in {z \in Held : IsPush(z)}}
        /\ \A y \in DOMAIN r2hash : r2hash[y] = {x \in Held : IsPush(x) /\ x.stk2 = y}
        /\ DOMAIN r2hash \subseteq Stack /\ r2hash \in [DOMAIN r2hash -> SUBSET Rules]
    BY <1>1 DEF RulesIInv, RulesIndexesAgree, HashAgrees, RulesTypeOK
  <2>2. CASE ~ IsPush(r)
    BY <1>2, <1>4, <2>1, <2>2 DEF HashAgrees
  <2>3. CASE IsPush(r)
    <3>1. r.stk2 \in DOMAIN r2hash /\ bucket = {x \in Held' : IsPush(x) /\ x.stk2 = r.stk2}
      BY <1>1, <1>2, <2>1, <2>3
    <3>2. CASE bucket = {}
      BY <1>2, <1>4, <2>1, <2>3, <3>1, <3>2 DEF HashAgrees, Without
    <3>3. CASE bucket # {}
      BY <1>2, <1>4, <2>1, <2>3, <3>1, <3>3 DEF HashAgrees
    <3>4. QED
      BY <3>2, <3>3
  <2>4. QED
    BY <2>2, <2>3
<1>10. StatesCovered'
  BY <1>1, <1>2, <1>4 DEF StatesCovered, RulesIInv, RulesIndexesAgree
<1>11. RulesTypeOK'
  <2>1. /\ fwrules' \in [config_map' -> SUBSET Rules]
        /\ bwrules' \in [config_map' -> SUBSET Rules]
    <3> HIDE DEF gone, fw, bw
    <3>1. QED
      BY <1>3, <1>4
  <2>2. config_map' \subseteq ConfigKey /\ pds_states' \subseteq P /\ aborted' \in BOOLEAN
    BY <1>1, <1>4 DEF RulesIInv, RulesTypeOK
  <2>3. DOMAIN se' \subseteq Rules /\ se' \in [DOMAIN se' -> Weight]
    BY <1>1, <1>2 DEF RulesIInv, RulesTypeOK, Held
  <2>4. QED
    BY <1>8, <1>9, <2>1, <2>2, <2>3 DEF RulesTypeOK
<1>12. QED
  BY <1>6, <1>7, <1>9, <1>10, <1>11 DEF RulesIInv, RulesIndexesAgree

(* A query only interns Configs without rules. *)
LEMMA QueryIInv ==
    ASSUME RulesIInv, NEW c \in Met, Query(c)
    PROVE  RulesIInv'
<1>1. c \in ConfigKey /\ Held' = Held
  BY RulesAssumption DEF Query, Held
<1>2. RulesTypeOK'
  BY <1>1 DEF RulesIInv, RulesTypeOK, Query, Extended
<1>3. ListsAgree'
  BY <1>1 DEF RulesIInv, RulesTypeOK, RulesIndexesAgree, ListsAgree, Query, Extended
<1>4. ZeroesAgree' /\ HashAgrees' /\ StatesCovered'
  BY <1>1 DEF RulesIInv, RulesIndexesAgree, ZeroesAgree, HashAgrees, StatesCovered, Query
<1>5. QED
  BY <1>2, <1>3, <1>4 DEF RulesIInv, RulesIndexesAgree

(* The rules the forward lists hold are the rules there are. *)
LEMMA ListedIsHeld == RulesIInv => Listed = Held
<1> SUFFICES ASSUME RulesIInv PROVE Listed = Held
  OBVIOUS
<1>1. /\ \A r \in Held : r.from \in config_map
      /\ \A c \in config_map : fwrules[c] = {r \in Held : r.from = c}
  BY DEF RulesIInv, RulesIndexesAgree, ListsAgree
<1>2. \A r : r \in Listed <=> \E c \in config_map : r \in fwrules[c]
  BY DEF Listed
<1>3. QED
  BY <1>1, <1>2

(* A copy is consistent. *)
LEMMA CopyIInv ==
    ASSUME RulesIInv, CopyRules
    PROVE  RulesIInv' /\ se' = se
<1> DEFINE ends == {r.from : r \in Held} \cup {r.to : r \in Held}
<1>1. /\ config_map' = ends
      /\ fwrules' = [c \in ends |-> {r \in Held : r.from = c}]
      /\ bwrules' = [c \in ends |-> {r \in Held : r.to = c}]
      /\ se' = [r \in Held |-> se[r]]
      /\ rule_zeroes' = {r.to : r \in {x \in Held : IsPop(x)}}
      /\ r2hash' = [y \in {r.stk2 : r \in {x \in Held : IsPush(x)}} |->
                       {r \in Held : r.stk2 = y}]
      /\ pds_states' = {c.state : c \in ends}
      /\ UNCHANGED aborted
  BY ListedIsHeld DEF CopyRules, Listed
<1>2. Held \subseteq RuleId /\ Held \subseteq Rules
  BY RulesAssumption DEF RulesIInv, RulesTypeOK, Held
<1>3. se' = se
  BY <1>1 DEF RulesIInv, RulesTypeOK, Held
<1>4. Held' = Held
  BY <1>3 DEF Held
<1>5. \A r \in Held : /\ r.from \in ConfigKey /\ r.to \in ConfigKey
                      /\ r.from.state \in P /\ r.to.state \in P
                      /\ (IsPush(r) => r.stk2 \in Stack)
  BY <1>2 DEF RuleId, IsPush, Symbol
<1>6. RulesTypeOK'
  <2>1. config_map' \subseteq ConfigKey /\ pds_states' \subseteq P
    BY <1>1, <1>5
  <2>2. fwrules' \in [config_map' -> SUBSET Rules] /\ bwrules' \in [config_map' -> SUBSET Rules]
    BY <1>1, <1>2
  <2>3. rule_zeroes' \subseteq config_map'
    BY <1>1
  <2>4. DOMAIN r2hash' \subseteq Stack /\ r2hash' \in [DOMAIN r2hash' -> SUBSET Rules]
    BY <1>1, <1>2, <1>5
  <2>5. DOMAIN se' \subseteq Rules /\ se' \in [DOMAIN se' -> Weight] /\ aborted' \in BOOLEAN
    BY <1>1, <1>3 DEF RulesIInv, RulesTypeOK
  <2>6. QED
    BY <2>1, <2>2, <2>3, <2>4, <2>5 DEF RulesTypeOK
<1>7. ListsAgree' /\ ZeroesAgree' /\ StatesCovered'
  BY <1>1, <1>4 DEF ListsAgree, ZeroesAgree, StatesCovered
<1>8. HashAgrees'
  BY <1>1, <1>4, <1>2, RulesAssumption DEF HashAgrees, IsPush, RuleId
<1>9. QED
  BY <1>3, <1>6, <1>7, <1>8 DEF RulesIInv, RulesIndexesAgree

(* Every step keeps the indexes consistent. *)
LEMMA RulesNextIInv == RulesIInv /\ [RulesNext]_rulesVars => RulesIInv'
<1> SUFFICES ASSUME RulesIInv, [RulesNext]_rulesVars PROVE RulesIInv'
  OBVIOUS
<1>1. ASSUME NEW r \in Rules, NEW w \in Weights, NEW replace \in BOOLEAN,
             AddRule(r, w, replace)
      PROVE  RulesIInv'
  BY <1>1, AddRuleIInv
<1>2. ASSUME NEW r \in Rules, EraseRule(r) PROVE RulesIInv'
  BY <1>2, EraseRuleIInv
<1>3. ASSUME NEW r \in Rules, EraseMissingRule(r) PROVE RulesIInv'
  BY <1>3 DEF EraseMissingRule, db, RulesIInv, RulesTypeOK, RulesIndexesAgree, ListsAgree, ZeroesAgree,
     HashAgrees, StatesCovered, Held
<1>4. ASSUME NEW c \in Met, Query(c) PROVE RulesIInv'
  BY <1>4, QueryIInv
<1>5. CASE ClearRules
  <2>1. RulesTypeOK'
    BY <1>5, EmptyMap DEF ClearRules, RulesIInv, RulesTypeOK
  <2>2. RulesIndexesAgree'
    BY <1>5, EmptyMap DEF ClearRules, RulesIndexesAgree, ListsAgree, ZeroesAgree, HashAgrees,
       StatesCovered, Held
  <2>3. QED
    BY <2>1, <2>2 DEF RulesIInv
<1>6. CASE CopyRules
  BY <1>6, CopyIInv
<1>7. CASE UNCHANGED rulesVars
  BY <1>7 DEF rulesVars, RulesIInv, RulesTypeOK, RulesIndexesAgree, ListsAgree, ZeroesAgree, HashAgrees,
     StatesCovered, Held
<1>8. QED
  BY <1>1, <1>2, <1>3, <1>4, <1>5, <1>6, <1>7 DEF RulesNext

(* The rule database is well typed at all times. *)
THEOREM RulesTyped == RulesSpec => []RulesTypeOK
<1>1. RulesSpec => []RulesIInv
  BY RulesInitIInv, RulesNextIInv, PTL DEF RulesSpec
<1>2. RulesIInv => RulesTypeOK
  BY DEF RulesIInv
<1>3. QED
  BY <1>1, <1>2, PTL

(* The five indexes agree on the rules there are, at all times. *)
THEOREM RulesIndexed == RulesSpec => []RulesIndexesAgree
<1>1. RulesSpec => []RulesIInv
  BY RulesInitIInv, RulesNextIInv, PTL DEF RulesSpec
<1>2. RulesIInv => RulesIndexesAgree
  BY DEF RulesIInv
<1>3. QED
  BY <1>1, <1>2, PTL

(***************************************************************************)
(* The database implements the map from rules to weights that its client   *)
(* sees, whatever queries and copies come between the client's changes.    *)
(***************************************************************************)
THEOREM RulesAreAMap == RulesSpec => ImplementsRuleMap
<1> DEFINE seen == [r \in Listed |-> se[r]]
<1>1. RulesIInv => seen = se
  BY ListedIsHeld DEF RulesIInv, RulesTypeOK, Held
<1> HIDE DEF seen
<1>2. (RulesIInv => seen = se)'
  BY <1>1, PTL
<1>3. RulesInit => Map!Init
  <2> SUFFICES ASSUME RulesInit PROVE Map!Init
    OBVIOUS
  <2>1. seen = se /\ se = <<>>
    BY <1>1, RulesInitIInv DEF RulesInit
  <2>2. QED
    BY <2>1 DEF Map!Init, seen
<1>4. RulesIInv /\ RulesIInv' /\ [RulesNext]_rulesVars => [Map!Next]_seen
  <2> SUFFICES ASSUME RulesIInv, RulesIInv', [RulesNext]_rulesVars PROVE [Map!Next]_seen
    OBVIOUS
  <2>1. seen = se /\ seen' = se'
    BY <1>1, <1>2
  <2>2. ASSUME NEW r \in Rules, NEW w \in Weights, NEW replace \in BOOLEAN,
               AddRule(r, w, replace)
        PROVE  Map!Next
    <3>1. w \in Weight
      BY RulesAssumption
    <3>2. se' = [x \in DOMAIN se \cup {r} |->
                   IF x = r THEN (IF r \in DOMAIN se THEN NewWeight(se[r], w, replace) ELSE w)
                   ELSE se[x]]
      <4>1. r \in Extended(fwrules, {r.from, r.to}, {})[r.from] <=> r \in DOMAIN se
        BY DEF RulesIInv, RulesTypeOK, RulesIndexesAgree, ListsAgree, Held, Extended
      <4>2. se = [x \in DOMAIN se |-> se[x]]
        BY DEF RulesIInv, RulesTypeOK
      <4>3. CASE r \in DOMAIN se
        <5>1. se' = [se EXCEPT ![r] = NewWeight(@, w, replace)]
          BY <2>2, <4>1, <4>3 DEF AddRule
        <5>2. QED
          BY <4>2, <4>3, <5>1
      <4>4. CASE r \notin DOMAIN se
        <5>1. se' = [Extended(se, {r}, w) EXCEPT ![r] = w]
          BY <2>2, <4>1, <4>4 DEF AddRule
        <5>2. QED
          BY <4>4, <5>1 DEF Extended
      <4>5. QED
        BY <4>3, <4>4
    <3>3. Map!Add(r, w) \/ Map!Replace(r, w)
      BY <2>1, <3>2 DEF Map!Add, Map!Replace, Map!Put, NewWeight, seen
    <3>4. QED
      BY <3>1, <3>3 DEF Map!Next
  <2>3. ASSUME NEW r \in Rules, EraseRule(r) PROVE Map!Next
    <3>1. r \in DOMAIN se
      BY <2>3 DEF EraseRule, RulesIInv, RulesIndexesAgree, ListsAgree, Held
    <3>2. Map!Erase(r)
      BY <2>1, <2>3, <3>1 DEF EraseRule, Without, Map!Erase, seen
    <3>3. QED
      BY <3>2 DEF Map!Next
  <2>4. ASSUME NEW r \in Rules, EraseMissingRule(r) PROVE UNCHANGED seen
    BY <2>1, <2>4 DEF EraseMissingRule, db
  <2>5. ASSUME NEW c \in Met, Query(c) PROVE UNCHANGED seen
    BY <2>1, <2>5 DEF Query
  <2>6. CASE ClearRules
    BY <2>1, <2>6 DEF ClearRules, Map!Next, Map!Clear, seen
  <2>7. CASE CopyRules
    BY <2>1, <2>7, CopyIInv
  <2>8. CASE UNCHANGED rulesVars
    BY <2>1, <2>8 DEF rulesVars
  <2>9. QED
    BY <2>2, <2>3, <2>4, <2>5, <2>6, <2>7, <2>8 DEF RulesNext
<1>5. QED
  BY <1>3, <1>4, RulesInitIInv, RulesNextIInv, PTL DEF RulesSpec, ImplementsRuleMap, Map!Spec, seen

-----------------------------------------------------------------------------
(* The chop.  Reach and CoReach are least closed sets, so a claim about    *)
(* them is shown by giving a closed set, without induction on paths.       *)

(* The start nodes are reached, and what a reached node leads to. *)
LEMMA ReachStep ==
    ASSUME NEW T \in SUBSET Trans, NEW I \in SUBSET States
    PROVE  /\ I \subseteq Reach(T, I)
           /\ \A t \in T : t.from \in Reach(T, I) => t.to \in Reach(T, I)
    BY DEF Reach, ClosedForward, Trans

LEMMA CoReachStep ==
    ASSUME NEW T \in SUBSET Trans, NEW G \in SUBSET States
    PROVE  /\ G \subseteq CoReach(T, G)
           /\ \A t \in T : t.to \in CoReach(T, G) => t.from \in CoReach(T, G)
    BY DEF CoReach, ClosedBackward, Trans

(* They are within every closed set. *)
LEMMA ReachLeast ==
    ASSUME NEW T, NEW I, NEW R \in SUBSET States, I \subseteq R, ClosedForward(T, R)
    PROVE  Reach(T, I) \subseteq R
    BY DEF Reach

LEMMA CoReachLeast ==
    ASSUME NEW T, NEW G, NEW R \in SUBSET States, G \subseteq R, ClosedBackward(T, R)
    PROVE  CoReach(T, G) \subseteq R
    BY DEF CoReach

LEMMA ReachMonotone ==
    ASSUME NEW T \in SUBSET Trans, NEW I \in SUBSET States,
           NEW T2 \in SUBSET T, NEW I2 \in SUBSET I
    PROVE  Reach(T2, I2) \subseteq Reach(T, I)
    <1>1. Reach(T, I) \in SUBSET States
      BY DEF Reach
    <1>2. I2 \subseteq Reach(T, I) /\ ClosedForward(T2, Reach(T, I))
      BY ReachStep DEF ClosedForward
    <1> QED BY <1>1, <1>2, ReachLeast

LEMMA CoReachMonotone ==
    ASSUME NEW T \in SUBSET Trans, NEW G \in SUBSET States,
           NEW T2 \in SUBSET T, NEW G2 \in SUBSET G
    PROVE  CoReach(T2, G2) \subseteq CoReach(T, G)
    <1>1. CoReach(T, G) \in SUBSET States
      BY DEF CoReach
    <1>2. G2 \subseteq CoReach(T, G) /\ ClosedBackward(T2, CoReach(T, G))
      BY CoReachStep DEF ClosedBackward
    <1> QED BY <1>1, <1>2, CoReachLeast

(***************************************************************************)
(* Removing transitions that are off the chop, start nodes that lead       *)
(* nowhere and final nodes that are not reached leaves the chop as it is.  *)
(***************************************************************************)
OffChopOnly(T, I, G, T2, I2, G2) ==
    /\ T \subseteq Trans /\ I \subseteq States /\ G \subseteq States
    /\ T2 \subseteq T /\ Chop(T, I, G) \subseteq T2
    /\ I2 \subseteq I /\ I \cap CoReach(T, G) \subseteq I2
    /\ G2 \subseteq G /\ G \cap Reach(T, I) \subseteq G2

LEMMA ChopKept ==
    ASSUME NEW T, NEW I, NEW G, NEW T2, NEW I2, NEW G2,
           OffChopOnly(T, I, G, T2, I2, G2)
    PROVE  /\ Chop(T2, I2, G2) = Chop(T, I, G)
           /\ Reach(T2, I2) \cap CoReach(T2, G2) = Reach(T, I) \cap CoReach(T, G)
    <1> DEFINE fw == Reach(T, I)
               bw == CoReach(T, G)
               fw2 == Reach(T2, I2)
               bw2 == CoReach(T2, G2)
    <1> USE DEF OffChopOnly
    <1>0. /\ fw \subseteq States /\ bw \subseteq States
          /\ fw2 \subseteq States /\ bw2 \subseteq States
          /\ T2 \in SUBSET Trans /\ I2 \in SUBSET States /\ G2 \in SUBSET States
      BY DEF Reach, CoReach
    <1>1. fw2 \subseteq fw /\ bw2 \subseteq bw
      BY ReachMonotone, CoReachMonotone
    <1>2. /\ I \subseteq fw /\ I2 \subseteq fw2 /\ G \subseteq bw /\ G2 \subseteq bw2
          /\ \A t \in T : t.from \in fw => t.to \in fw
          /\ \A t \in T2 : t.from \in fw2 => t.to \in fw2
          /\ \A t \in T : t.to \in bw => t.from \in bw
          /\ \A t \in T2 : t.to \in bw2 => t.from \in bw2
      BY <1>0, ReachStep, CoReachStep
    <1>3. \A t \in T : t.from \in fw /\ t.to \in bw => t \in T2
      BY DEF Chop
    <1>4. fw \subseteq fw2 \cup (States \ bw)
      <2> DEFINE R == fw2 \cup (States \ bw)
      <2>1. R \in SUBSET States /\ I \subseteq R
        BY <1>0, <1>2
      <2>2. ClosedForward(T, R)
        BY <1>0, <1>1, <1>2, <1>3 DEF ClosedForward, Trans
      <2> QED BY <2>1, <2>2, ReachLeast
    <1>5. bw \subseteq bw2 \cup (States \ fw)
      <2> DEFINE R == bw2 \cup (States \ fw)
      <2>1. R \in SUBSET States /\ G \subseteq R
        BY <1>0, <1>2
      <2>2. ClosedBackward(T, R)
        BY <1>0, <1>1, <1>2, <1>3 DEF ClosedBackward, Trans
      <2> QED BY <2>1, <2>2, CoReachLeast
    <1>6. fw2 \cap bw2 = fw \cap bw
      BY <1>0, <1>1, <1>4, <1>5
    <1>7. \A t \in T : t \in T2 /\ t.from \in fw2 /\ t.to \in bw2
                          <=> t.from \in fw /\ t.to \in bw
      BY <1>1, <1>2, <1>3, <1>6
    <1>8. Chop(T2, I2, G2) = Chop(T, I, G)
      BY <1>7 DEF Chop
    <1> QED BY <1>6, <1>8

(* Transitions to nodes from which no final node is reached do not count. *)
LEMMA CoReachKept ==
    ASSUME NEW T \in SUBSET Trans, NEW G \in SUBSET States, NEW D \in SUBSET T,
           \A t \in D : t.to \notin CoReach(T, G)
    PROVE  CoReach(T \ D, G) = CoReach(T, G)
    <1> DEFINE bw2 == CoReach(T \ D, G)
    <1>1. bw2 \subseteq CoReach(T, G)
      BY CoReachMonotone
    <1>2. bw2 \in SUBSET States /\ G \subseteq bw2
      BY CoReachStep DEF CoReach
    <1>3. ClosedBackward(T, bw2)
      BY <1>1, CoReachStep DEF ClosedBackward
    <1> QED BY <1>1, <1>2, <1>3, CoReachLeast

(* If something reached leads to a final node, so does a start node. *)
LEMMA StartLeads ==
    ASSUME NEW T \in SUBSET Trans, NEW I \in SUBSET States, NEW G \in SUBSET States,
           NEW s \in Reach(T, I) \cap CoReach(T, G)
    PROVE  \E i \in I : i \in CoReach(T, G)
    <1> DEFINE R == States \ CoReach(T, G)
    <1> SUFFICES ASSUME I \subseteq R PROVE FALSE
      OBVIOUS
    <1>1. ClosedForward(T, R)
      BY CoReachStep DEF ClosedForward, Trans
    <1> QED BY <1>1, ReachLeast

-----------------------------------------------------------------------------
(* The maps.                                                               *)

Maps == TypeOK /\ IndexesAgree

(* The maps hold a transition exactly when it exists. *)
LEMMA FoundIsOwned ==
    ASSUME Maps
    PROVE  /\ \A t : KeyPair(t) \in DOMAIN kpmap /\ t \in kpmap[KeyPair(t)] <=> t \in Owned
           /\ \A s \in Q : state_map[s] = {t \in Owned : t.from = s}
           /\ \A t \in Owned : t.from \in Q /\ t.to \in Q
    BY DEF Maps, TypeOK, IndexesAgree, Holds, KeyPair, Source, Target

(* Erasing transitions from every map leaves maps that agree. *)
LEMMA EraseKeeps ==
    ASSUME Maps, NEW D \in SUBSET Owned, EraseFromMaps(D),
           state_map' = Purged(state_map, D),
           UNCHANGED <<Q, F, init_state>>,
           wl' \subseteq Q, tag' \in [Q -> 0..2],
           pc' \in {"idle", "prune", "back", "forward", "aborted", "undefined"}
    PROVE  Maps' /\ Owned' = Owned \ D /\ \A t \in Owned' : weight'[t] = weight[t]
    <1>1. /\ Owned' = Owned \ D
          /\ weight' \in [Owned' -> Weight]
          /\ \A t \in Owned' : weight'[t] = weight[t]
      BY DEF EraseFromMaps, Without, Owned, Maps, TypeOK
    <1>2. /\ Holds(kpmap, Owned, KeyPair)
          /\ Holds(eps_map, EpsOnly(Owned), Target)
          /\ Holds(state_map, Owned, Source)
          /\ \A t \in Owned : t.to \in Q
      BY DEF Maps, IndexesAgree
    <1>3. EpsOnly(Owned \ D) = EpsOnly(Owned) \ D
      BY DEF EpsOnly
    <1>4. /\ Holds(kpmap', Owned', KeyPair)
          /\ Holds(eps_map', EpsOnly(Owned)', Target)
          /\ Holds(state_map', Owned', Source)
      <2>1. Holds(kpmap', Owned \ D, KeyPair)
        BY <1>2 DEF EraseFromMaps, Purged, Holds
      <2>2. Holds(eps_map', EpsOnly(Owned) \ D, Target)
        BY <1>2 DEF EraseFromMaps, EpsPurged, Purged, Holds
      <2>3. Holds(state_map', Owned \ D, Source)
        BY <1>2 DEF Purged, Holds
      <2> QED BY <1>1, <1>3, <2>1, <2>2, <2>3
    <1>5. IndexesAgree'
      BY <1>1, <1>2, <1>4 DEF IndexesAgree, Holds
    <1>6. TypeOK'
      <2>1. /\ DOMAIN kpmap' = DOMAIN kpmap /\ kpmap' \in [DOMAIN kpmap -> SUBSET Trans]
            /\ DOMAIN eps_map' = DOMAIN eps_map /\ eps_map' \in [DOMAIN eps_map -> SUBSET Trans]
            /\ state_map' \in [Q -> SUBSET Trans]
        BY DEF EraseFromMaps, EpsPurged, Purged, Maps, TypeOK
      <2> QED BY <1>1, <2>1 DEF TypeOK, Maps
    <1> QED BY <1>1, <1>5, <1>6 DEF Maps

(* Erasing states, with the transitions from and to them. *)
LEMMA EraseStatesKeeps ==
    ASSUME Maps, NEW S \in SUBSET Q, EraseStates(S), wl' \subseteq Q \ S,
           pc' \in {"idle", "prune", "back", "forward", "aborted", "undefined"}
    PROVE  /\ Maps'
           /\ Owned' = {t \in Owned : t.from \notin S /\ t.to \notin S}
           /\ \A t \in Owned' : weight'[t] = weight[t]
    <1> DEFINE D == {t \in Owned : t.from \in S \/ t.to \in S}
    <1>1. EraseFromMaps(D) /\ state_map' = Without(Purged(state_map, D), S)
      BY DEF EraseStates
    <1>2. tag' = Without(tag, S) /\ Q' = Q \ S /\ F' = F \ S /\ init_state' = init_state
      BY DEF EraseStates
    <1> HIDE DEF D
    <1>3. D \subseteq Owned /\ \A t \in Owned \ D : t.from \notin S /\ t.to \notin S
      BY DEF D
    <1>4. /\ Owned' = Owned \ D
          /\ weight' \in [Owned' -> Weight]
          /\ \A t \in Owned' : weight'[t] = weight[t]
      BY <1>1, <1>3 DEF EraseFromMaps, Without, Owned, Maps, TypeOK
    <1>5. /\ Holds(kpmap, Owned, KeyPair)
          /\ Holds(eps_map, EpsOnly(Owned), Target)
          /\ Holds(state_map, Owned, Source)
          /\ \A t \in Owned : t.to \in Q
      BY DEF Maps, IndexesAgree
    <1>6. EpsOnly(Owned \ D) = EpsOnly(Owned) \ D
      BY DEF EpsOnly
    <1>7. Holds(kpmap', Owned \ D, KeyPair)
      BY <1>1, <1>5 DEF EraseFromMaps, Purged, Holds
    <1>8. Holds(eps_map', EpsOnly(Owned) \ D, Target)
      BY <1>1, <1>5 DEF EraseFromMaps, EpsPurged, Purged, Holds
    <1>9. Holds(state_map', Owned \ D, Source)
      BY <1>1, <1>3, <1>5 DEF Purged, Without, Holds, Source
    <1>10. IndexesAgree'
      BY <1>2, <1>3, <1>4, <1>5, <1>6, <1>7, <1>8, <1>9 DEF IndexesAgree, Holds
    <1>11. TypeOK'
      <2>1. /\ DOMAIN kpmap' = DOMAIN kpmap /\ kpmap' \in [DOMAIN kpmap -> SUBSET Trans]
            /\ DOMAIN eps_map' = DOMAIN eps_map /\ eps_map' \in [DOMAIN eps_map -> SUBSET Trans]
        BY <1>1 DEF EraseFromMaps, EpsPurged, Purged, Maps, TypeOK
      <2>2. state_map' \in [Q' -> SUBSET Trans] /\ tag' \in [Q' -> 0..2]
        BY <1>1, <1>2 DEF Purged, Without, Maps, TypeOK
      <2> QED BY <1>2, <1>4, <2>1, <2>2 DEF TypeOK, Maps
    <1>12. Owned' = {t \in Owned : t.from \notin S /\ t.to \notin S}
      BY <1>4 DEF D
    <1> QED BY <1>4, <1>10, <1>11, <1>12 DEF Maps

(* A transition none of the maps holds enters all of them. *)
LEMMA AddNewKeeps ==
    ASSUME Maps, NEW t \in Trans, NEW w \in Weight, AddNew(t, w)
    PROVE  Maps'
    <1> DEFINE ends == {t.from, t.to}
               sets == Extended(state_map, ends, {})
               kps == Extended(kpmap, {KeyPair(t)}, {})
               epss == Extended(eps_map, {t.to}, {})
    <1>1. /\ t \notin Owned
          /\ t.from \in States /\ t.to \in States /\ t.stk \in Symbol
          /\ KeyPair(t) \in States \X Symbol
      BY FoundIsOwned DEF AddNew, Trans, KeyPair
    <1>2. /\ Q' = Q \cup ends /\ F' = F /\ wl' = wl /\ pc' = pc /\ init_state' = init_state
          /\ tag' = Extended(tag, ends, 0)
          /\ kpmap' = [kps EXCEPT ![KeyPair(t)] = @ \cup {t}]
          /\ state_map' = [sets EXCEPT ![t.from] = @ \cup {t}]
          /\ eps_map' = IF t.stk = EPS THEN [epss EXCEPT ![t.to] = @ \cup {t}] ELSE eps_map
          /\ weight' = [u \in Owned \cup {t} |-> IF u = t THEN w ELSE weight[u]]
      BY DEF AddNew
    <1>3. Owned' = Owned \cup {t} /\ weight' \in [Owned' -> Weight]
      BY <1>2 DEF Owned, Maps, TypeOK
    <1>4. /\ Holds(kpmap, Owned, KeyPair)
          /\ Holds(eps_map, EpsOnly(Owned), Target)
          /\ Holds(state_map, Owned, Source)
          /\ \A u \in Owned : u.to \in Q
      BY DEF Maps, IndexesAgree
    <1>5. Holds(kpmap', Owned \cup {t}, KeyPair)
      BY <1>2, <1>4 DEF Holds, Extended
    <1>6. Holds(eps_map', EpsOnly(Owned \cup {t}), Target)
      BY <1>2, <1>4 DEF Holds, Extended, EpsOnly, Target
    <1>7. Holds(state_map', Owned \cup {t}, Source)
      BY <1>2, <1>4 DEF Holds, Extended, Source
    <1>8. IndexesAgree'
      BY <1>2, <1>3, <1>4, <1>5, <1>6, <1>7 DEF IndexesAgree, Holds
    <1>9. TypeOK'
      <2>1. DOMAIN kpmap' \subseteq States \X Symbol /\ kpmap' \in [DOMAIN kpmap' -> SUBSET Trans]
        BY <1>1, <1>2 DEF Extended, Maps, TypeOK
      <2>2. DOMAIN eps_map' \subseteq States /\ eps_map' \in [DOMAIN eps_map' -> SUBSET Trans]
        BY <1>1, <1>2 DEF Extended, Maps, TypeOK
      <2>3. state_map' \in [Q' -> SUBSET Trans] /\ tag' \in [Q' -> 0..2]
        BY <1>1, <1>2 DEF Extended, Maps, TypeOK
      <2> QED BY <1>1, <1>2, <1>3, <2>1, <2>2, <2>3 DEF TypeOK, Maps
    <1> QED BY <1>8, <1>9 DEF Maps

(* A copy has the same transitions under the same keys. *)
LEMMA CopyKeeps ==
    ASSUME Maps, Copy
    PROVE  Maps'
    <1>1. UNCHANGED <<weight, Q, F, init_state, pc, wl>> /\ Owned' = Owned
      BY DEF Copy, Owned
    <1>2. /\ kpmap' = [kp \in {KeyPair(t) : t \in Owned} |-> {t \in Owned : KeyPair(t) = kp}]
          /\ eps_map' = [s \in {t.to : t \in EpsOnly(Owned)} |-> {t \in EpsOnly(Owned) : t.to = s}]
          /\ state_map' = [s \in Q |-> {t \in Owned : t.from = s}]
          /\ tag' = [s \in Q |-> 0]
      BY DEF Copy
    <1>3. Owned \subseteq Trans /\ \A t \in Owned : t.from \in Q /\ t.to \in Q
      BY FoundIsOwned DEF Maps, TypeOK
    <1>4. IndexesAgree'
      <2>1. Holds(kpmap', Owned, KeyPair)
        BY <1>2 DEF Holds
      <2>2. Holds(eps_map', EpsOnly(Owned), Target)
        BY <1>2 DEF Holds, Target
      <2>3. Holds(state_map', Owned, Source)
        BY <1>2, <1>3 DEF Holds, Source
      <2> QED BY <1>1, <1>3, <2>1, <2>2, <2>3 DEF IndexesAgree, Holds
    <1>5. TypeOK'
      <2>1. DOMAIN kpmap' \subseteq States \X Symbol /\ kpmap' \in [DOMAIN kpmap' -> SUBSET Trans]
        BY <1>2, <1>3 DEF KeyPair, Trans
      <2>2. DOMAIN eps_map' \subseteq States /\ eps_map' \in [DOMAIN eps_map' -> SUBSET Trans]
        BY <1>2, <1>3 DEF EpsOnly, Trans
      <2>3. state_map' \in [Q' -> SUBSET Trans] /\ tag' \in [Q' -> 0..2]
        BY <1>1, <1>2, <1>3
      <2> QED BY <1>1, <2>1, <2>2, <2>3 DEF TypeOK, Maps
    <1> QED BY <1>4, <1>5 DEF Maps

(* The calls of a client, which find and leave prune idle or about to start. *)
LEMMA ClientKeeps ==
    ASSUME Maps, pc = "idle", wl = {},
           \/ \E s \in States : AddState(s) \/ EraseState(s)
           \/ \E s \in Initials : SetInitial(s)
           \/ \E s \in Finals : AddFinal(s)
           \/ \E x \in Adds : \/ AddNew(x.trans, x.weight) \/ AddAgain(x.trans, x.weight)
                              \/ Erase(x.trans) \/ EraseMissing(x.trans)
           \/ \E stks \in Filters : Filter(stks)
           \/ Clear \/ Copy \/ Prune
    PROVE  Maps' /\ pc' \in {"idle", "prune", "aborted", "undefined"} /\ wl' = {}
    <1>0. Adds \subseteq [trans : Trans, weight : Weight] /\ Initials \subseteq States
      BY StoreAssumption
    <1>1. ASSUME NEW s \in States, AddState(s) PROVE Maps' /\ pc' = "idle"
      <2>1. /\ Q' = Q \cup {s} /\ state_map' = Extended(state_map, {s}, {})
            /\ tag' = Extended(tag, {s}, 0) /\ UNCHANGED <<trans, F, init_state, pc, wl>>
        BY <1>1 DEF AddState
      <2>2. Owned' = Owned /\ UNCHANGED <<weight, kpmap, eps_map>>
        BY <2>1 DEF trans, Owned
      <2>3. Holds(state_map', Owned, Source)
        BY <2>1 DEF Holds, Extended, Maps, IndexesAgree, TypeOK, Source
      <2>4. state_map' \in [Q' -> SUBSET Trans] /\ tag' \in [Q' -> 0..2]
        BY <2>1 DEF Extended, Maps, TypeOK
      <2> QED BY <2>1, <2>2, <2>3, <2>4 DEF Maps, IndexesAgree, TypeOK, Holds
    <1>2. ASSUME NEW s \in States, EraseState(s) PROVE Maps' /\ pc' = "idle"
      <2>1. /\ pc' = "idle" /\ wl' = wl /\ s \in Q /\ EraseStates({s}) /\ pc = "idle"
        BY <1>2 DEF EraseState
      <2> QED BY <2>1, EraseStatesKeeps
    <1>3. ASSUME NEW s \in Initials, SetInitial(s) PROVE Maps' /\ pc' = "idle"
      BY <1>0, <1>3 DEF SetInitial, trans, Maps, TypeOK, IndexesAgree, Holds, Owned
    <1>4. ASSUME NEW s \in Finals, AddFinal(s) PROVE Maps' /\ pc' = "idle"
      BY <1>4 DEF AddFinal, trans, Maps, TypeOK, IndexesAgree, Holds, Owned
    <1>5. ASSUME NEW x \in Adds, AddNew(x.trans, x.weight) PROVE Maps' /\ pc' = "idle"
      BY <1>0, <1>5, AddNewKeeps DEF AddNew
    <1>6. ASSUME NEW x \in Adds, AddAgain(x.trans, x.weight) PROVE Maps' /\ pc' = "idle"
      <2>1. x.trans \in Owned /\ x.weight \in Weight
        BY <1>0, <1>6, FoundIsOwned DEF AddAgain
      <2>2. /\ weight' = [weight EXCEPT ![x.trans] = Combine(@, x.weight)]
            /\ UNCHANGED <<kpmap, eps_map, state_map, tag, Q, F, init_state, pc, wl>>
        BY <1>6 DEF AddAgain
      <2>3. Owned' = Owned /\ weight' \in [Owned -> Weight]
        BY <2>1, <2>2, WeightClosed DEF Maps, TypeOK, Owned
      <2> QED BY <2>2, <2>3 DEF Maps, TypeOK, IndexesAgree, Holds
    <1>7. ASSUME NEW x \in Adds, Erase(x.trans) PROVE Maps' /\ pc' = "idle"
      <2>1. x.trans \in Owned
        BY <1>7, FoundIsOwned DEF Erase
      <2>2. /\ EraseFromMaps({x.trans}) /\ state_map' = Purged(state_map, {x.trans})
            /\ UNCHANGED <<tag, Q, F, init_state, pc, wl>>
        BY <1>7 DEF Erase
      <2>3. wl' \subseteq Q /\ tag' \in [Q -> 0..2] /\ pc' = "idle"
        BY <2>2 DEF Maps, TypeOK
      <2> QED BY <2>1, <2>2, <2>3, EraseKeeps
    <1>8. ASSUME NEW x \in Adds, EraseMissing(x.trans)
          PROVE  Maps' /\ pc' \in {"idle", "undefined"}
      BY <1>8 DEF EraseMissing, trans, Maps, TypeOK, IndexesAgree, Holds, Owned
    <1>9. ASSUME NEW stks \in Filters, Filter(stks)
          PROVE  Maps' /\ pc' \in {"prune", "aborted"}
      <2>1. CASE init_state \in Q
        <3> DEFINE others == {t \in state_map[init_state] : t.stk \notin stks}
        <3>1. others \subseteq Owned
          BY <2>1, FoundIsOwned
        <3>2. /\ EraseFromMaps(others) /\ state_map' = Purged(state_map, others)
              /\ UNCHANGED <<tag, Q, F, init_state, wl>> /\ pc' = "prune"
          BY <1>9, <2>1 DEF Filter
        <3>3. wl' \subseteq Q /\ tag' \in [Q -> 0..2]
          BY <3>2 DEF Maps, TypeOK
        <3> HIDE DEF others
        <3> QED BY <3>1, <3>2, <3>3, EraseKeeps
      <2>2. CASE init_state \notin Q
        BY <1>9, <2>2 DEF Filter, trans, Maps, TypeOK, IndexesAgree, Holds, Owned
      <2> QED BY <2>1, <2>2
    <1>10. CASE Clear
      BY <1>10 DEF Clear, Maps, TypeOK, IndexesAgree, Holds, Owned, EpsOnly
    <1>11. CASE Copy
      BY <1>11, CopyKeeps DEF Copy
    <1>12. CASE Prune
      BY <1>12 DEF Prune, trans, Maps, TypeOK, IndexesAgree, Holds, Owned
    <1> QED BY <1>1, <1>2, <1>3, <1>4, <1>5, <1>6, <1>7, <1>8, <1>9, <1>10, <1>11, <1>12
        DEF AddState, EraseState, SetInitial, AddFinal, AddNew, AddAgain, Erase,
            EraseMissing, Filter, Clear, Copy, Prune

-----------------------------------------------------------------------------
(* The steps of prune.                                                     *)

LEMMA PruneStartIInv ==
    ASSUME IInv, PruneStart
    PROVE  IInv' /\ Live' = Live
    <1> DEFINE zeros == {t \in Owned : weight[t] = Zero}
    <1>1. Maps /\ wl = {} /\ F \subseteq Q
      BY DEF IInv, Maps, TypeOK, PruneStart
    <1>2. /\ EraseFromMaps(zeros) /\ state_map' = Purged(state_map, zeros)
          /\ tag' = [s \in Q |-> StartTag(s)] /\ wl' = F /\ pc' = "back"
          /\ UNCHANGED <<Q, F, init_state>>
      BY DEF PruneStart
    <1>3. zeros \subseteq Owned /\ wl' \subseteq Q /\ tag' \in [Q -> 0..2]
      BY <1>1, <1>2 DEF StartTag
    <1>4. Maps' /\ Owned' = Owned \ zeros /\ \A t \in Owned' : weight'[t] = weight[t]
      <2> HIDE DEF zeros
      <2> QED BY <1>1, <1>2, <1>3, EraseKeeps
    <1>5. Owned' = Live /\ Live' = Live
      BY <1>4 DEF Live
    <1>6. Owned' \subseteq Trans /\ F' \in SUBSET States /\ Q' = Q
      BY <1>2, <1>4 DEF Maps, TypeOK
    <1>7. \A s \in F : s \in CoReach(Owned', F')
      BY <1>2, <1>6, CoReachStep
    <1>8. BackInv'
      BY <1>1, <1>2, <1>4, <1>5, <1>7, FoundIsOwned DEF BackInv, StartTag
    <1> QED BY <1>2, <1>4, <1>5, <1>8 DEF IInv, Maps

LEMMA BackStepIInv ==
    ASSUME IInv, NEW q \in wl, BackStep(q)
    PROVE  IInv'
    <1>1. Maps /\ BackInv /\ q \in Q /\ F \subseteq Q /\ wl \subseteq Q /\ tag \in [Q -> 0..2]
      BY DEF IInv, Maps, TypeOK, BackStep
    <1>2. /\ tag' = [s \in Q |-> IF s \in NewPreds(q) THEN 1 ELSE tag[s]]
          /\ wl' = (wl \ {q}) \cup NewPreds(q) /\ pc' = "back"
          /\ UNCHANGED <<weight, kpmap, eps_map, state_map, Q, F, init_state>>
      BY DEF BackStep, trans
    <1>3. Owned' = Owned /\ Live' = Live
      BY <1>2 DEF Owned, Live
    <1>4. NewPreds(q) = {p \in Q : tag[p] = 0 /\ \E t \in Owned : t.from = p /\ t.to = q}
      BY <1>1, FoundIsOwned DEF NewPreds, Preds
    <1>5. Maps'
      BY <1>1, <1>2, <1>3, <1>4 DEF Maps, TypeOK, IndexesAgree, Holds
    <1>6. Owned \in SUBSET Trans /\ F \in SUBSET States /\ \A t \in Owned : t.from \in Q /\ t.to \in Q
      BY <1>1, FoundIsOwned DEF Maps, TypeOK
    <1>7. tag[q] = 1 /\ q \in CoReach(Owned, F)
      BY <1>1 DEF BackInv
    <1>8. \A s \in NewPreds(q) : s \in CoReach(Owned, F)
      BY <1>4, <1>6, <1>7, CoReachStep
    <1>9. BackInv'
      <2>1. Owned' = Live' /\ \A s \in Q' : tag'[s] # 2
        BY <1>1, <1>2, <1>3 DEF BackInv
      <2>2. F' \cup wl' \subseteq {s \in Q' : tag'[s] = 1}
        BY <1>1, <1>2, <1>4 DEF BackInv
      <2>3. \A s \in Q' : tag'[s] = 1 => s \in CoReach(Owned', F')
        BY <1>1, <1>2, <1>3, <1>8 DEF BackInv
      <2>4. ASSUME NEW t \in Owned', tag'[t.to] = 1, t.to \notin wl' PROVE tag'[t.from] = 1
        <3>1. t \in Owned /\ t.from \in Q /\ t.to \in Q
          BY <1>3, <1>6, <2>4
        <3>2. t.to \notin NewPreds(q) /\ tag[t.to] = 1
          BY <1>2, <2>4, <3>1
        <3>3. tag[t.from] \in {0, 1}
          BY <1>1, <3>1 DEF BackInv
        <3>4. CASE t.to = q
          BY <1>2, <1>4, <3>1, <3>3, <3>4
        <3>5. CASE t.to # q
          BY <1>1, <1>2, <2>4, <3>1, <3>2, <3>5 DEF BackInv
        <3> QED BY <3>4, <3>5
      <2> QED BY <2>1, <2>2, <2>3, <2>4 DEF BackInv
    <1> QED BY <1>2, <1>5, <1>9 DEF IInv, Maps

LEMMA BackDoneIInv ==
    ASSUME IInv, BackDone
    PROVE  IInv'
    <1>1. Maps /\ BackInv /\ wl = {} /\ F \subseteq Q /\ tag \in [Q -> 0..2]
      BY DEF IInv, Maps, TypeOK, BackDone
    <1>2. UNCHANGED <<weight, kpmap, eps_map, state_map, Q, F, init_state>> /\ Q \subseteq States
      BY <1>1 DEF BackDone, trans, Maps, TypeOK
    <1>3. Owned' = Owned /\ Live' = Live
      BY <1>2 DEF Owned, Live
    <1>4. CASE init_state \notin Q
      BY <1>1, <1>2, <1>3, <1>4 DEF BackDone, IInv, Maps, TypeOK, IndexesAgree, Holds
    <1>5. CASE init_state \in Q
      <2>1. /\ tag' = [tag EXCEPT ![init_state] = @ + 1]
            /\ wl' = {init_state} /\ pc' = "forward"
        BY <1>5 DEF BackDone
      <2>2. tag[init_state] \in {0, 1} /\ tag' \in [Q -> 0..2]
        BY <1>1, <1>5, <2>1 DEF BackInv
      <2>3. Maps'
        BY <1>1, <1>2, <1>3, <1>5, <2>1, <2>2 DEF Maps, TypeOK, IndexesAgree, Holds
      <2>4. Owned \in SUBSET Trans /\ F \in SUBSET States /\ \A t \in Owned : t.from \in Q /\ t.to \in Q
        BY <1>1, <1>2, FoundIsOwned DEF Maps, TypeOK
      <2>5. CoReach(Owned, F) = {s \in Q : tag[s] = 1}
        <3> DEFINE R == {s \in Q : tag[s] = 1}
        <3>1. R \in SUBSET States /\ F \subseteq R /\ ClosedBackward(Owned, R)
          BY <1>1, <1>2, <2>4 DEF BackInv, ClosedBackward
        <3>2. CoReach(Owned, F) \subseteq R
          BY <3>1, CoReachLeast
        <3> QED BY <1>1, <3>2 DEF BackInv
      <2>6. Start' = {init_state} /\ init_state \in Reach(Owned, {init_state})
        BY <1>2, <1>5, <2>4, ReachStep DEF Start
      <2>7. ForwardInv'
        BY <1>1, <1>2, <1>3, <1>5, <2>1, <2>2, <2>4, <2>5, <2>6 DEF ForwardInv, BackInv, Left
      <2> QED BY <2>1, <2>3, <2>7 DEF IInv, Maps
    <1> QED BY <1>4, <1>5

(***************************************************************************)
(* A state of tag 0 reaches no final state, so the transitions to it that  *)
(* the forward loop erases are off the chop.                               *)
(***************************************************************************)
LEMMA ForwardStepIInv ==
    ASSUME IInv, NEW p \in wl, ForwardStep(p)
    PROVE  IInv' /\ TheChop' = TheChop /\ Useful' = Useful
    <1> DEFINE reached == {s \in Q : tag[s] = 1 /\ \E t \in state_map[p] : t.to = s}
               D == {t \in state_map[p] : tag[t.to] = 0}
               bw == CoReach(Owned, F)
    <1>1. Maps /\ ForwardInv /\ p \in Q /\ F \subseteq Q /\ wl \subseteq Q /\ tag \in [Q -> 0..2]
      BY DEF IInv, Maps, TypeOK, ForwardStep
    <1>2. /\ tag' = [s \in Q |-> IF s \in reached THEN 2 ELSE tag[s]]
          /\ wl' = (wl \ {p}) \cup reached /\ pc' = "forward"
          /\ EraseFromMaps(D) /\ state_map' = [state_map EXCEPT ![p] = @ \ D]
          /\ UNCHANGED <<Q, F, init_state>>
      BY DEF ForwardStep
    <1>3. /\ Owned \in SUBSET Trans /\ Q \subseteq States /\ F \in SUBSET States
          /\ \A t \in Owned : t.from \in Q /\ t.to \in Q
          /\ \A s \in Q : state_map[s] = {t \in Owned : t.from = s}
      BY <1>1, FoundIsOwned DEF Maps, TypeOK
    <1>4. D = {t \in Owned : t.from = p /\ tag[t.to] = 0}
      BY <1>1, <1>3
    <1>5. reached = {s \in Q : tag[s] = 1 /\ \E t \in Owned : t.from = p /\ t.to = s}
      BY <1>1, <1>3
    <1>6. state_map' = Purged(state_map, D)
      <2>1. state_map \in [Q -> SUBSET Trans]
        BY <1>1 DEF Maps, TypeOK
      <2>2. \A s \in Q \ {p} : state_map[s] \ D = state_map[s]
        BY <1>3, <1>4
      <2> QED BY <1>1, <1>2, <2>1, <2>2 DEF Purged
    <1> HIDE DEF D, reached
    <1>7. D \subseteq Owned /\ wl' \subseteq Q /\ tag' \in [Q -> 0..2]
      BY <1>1, <1>2, <1>4, <1>5
    <1>8. Maps' /\ Owned' = Owned \ D /\ \A t \in Owned' : weight'[t] = weight[t]
      BY <1>1, <1>2, <1>6, <1>7, EraseKeeps
    <1>9. Owned = Live /\ Owned' = Live'
      BY <1>1, <1>8 DEF ForwardInv, Live
    <1>10. Start = {init_state} /\ Start' = Start /\ Start \subseteq States
      BY <1>1, <1>2, <1>3 DEF Start, ForwardInv
    <1>11. \A t \in D : t.to \notin bw
      BY <1>1, <1>3, <1>4 DEF ForwardInv
    <1>12. CoReach(Owned', F') = bw
      BY <1>2, <1>3, <1>7, <1>8, <1>11, CoReachKept
    <1>13. TheChop' = TheChop /\ Useful' = Useful
      <2>1. Chop(Owned, Start, F) \subseteq Owned \ D
        BY <1>11 DEF Chop
      <2>2. /\ Chop(Owned \ D, Start, F) = Chop(Owned, Start, F)
            /\ Reach(Owned \ D, Start) \cap CoReach(Owned \ D, F)
                 = Reach(Owned, Start) \cap CoReach(Owned, F)
        <3>1. OffChopOnly(Owned, Start, F, Owned \ D, Start, F)
          BY <1>3, <1>10, <2>1 DEF OffChopOnly
        <3> QED BY <3>1, ChopKept
      <2>3. TheChop = Chop(Owned, Start, F) /\ TheChop' = Chop(Owned \ D, Start, F)
        BY <1>2, <1>8, <1>9, <1>10 DEF TheChop
      <2>4. /\ Useful = Reach(Owned, Start) \cap CoReach(Owned, F)
            /\ Useful' = Reach(Owned \ D, Start) \cap CoReach(Owned \ D, F)
        BY <1>2, <1>8, <1>9, <1>10 DEF Useful
      <2> QED BY <2>2, <2>3, <2>4
    <1>14. p \in Reach(Owned, Start)
      BY <1>1, <1>3, <1>10, ReachStep DEF ForwardInv
    <1>15. \A s \in reached : s \in Reach(Owned, Start)
      BY <1>3, <1>5, <1>10, <1>14, ReachStep
    <1>16. ForwardInv'
      <2>1. Owned' = Live' /\ init_state' \in Q' /\ tag'[init_state'] # 0
        BY <1>1, <1>2, <1>9 DEF ForwardInv
      <2>2. \A s \in wl' : tag'[s] = 2 \/ s = init_state'
        BY <1>1, <1>2, <1>5 DEF ForwardInv
      <2>3. \A s \in Q' \ {init_state'} : tag'[s] # 0 <=> s \in CoReach(Owned', F')
        BY <1>1, <1>2, <1>5, <1>12 DEF ForwardInv
      <2>4. init_state' \in CoReach(Owned', F') => tag'[init_state'] = 2
        BY <1>1, <1>2, <1>12 DEF ForwardInv
      <2>5. \A s \in Q' : tag'[s] = 2 => s \in Reach(Owned', Start')
        <3>1. ASSUME NEW s \in Q, tag'[s] = 2 PROVE s \in Reach(Owned', Start')
          <4>1. s \in Reach(Owned, Start)
            BY <1>1, <1>2, <1>15, <3>1 DEF ForwardInv
          <4>2. CASE s = init_state
            <5>1. Owned' \in SUBSET Trans /\ Start' \in SUBSET States
              BY <1>3, <1>8, <1>10
            <5> QED BY <1>10, <4>2, <5>1, ReachStep
          <4>3. CASE s # init_state
            <5>1. s \in bw
              BY <1>2, <2>3, <1>12, <3>1, <4>3
            <5> QED BY <1>9, <1>13, <4>1, <5>1 DEF Useful
          <4> QED BY <4>2, <4>3
        <3> QED BY <1>2, <3>1
      <2>6. tag'[init_state'] = 2 /\ init_state' \notin CoReach(Owned', F') => SelfLoops' # {}
        <3> SUFFICES ASSUME tag'[init_state] = 2, init_state \notin bw
                     PROVE  \E t \in Owned : t.from = init_state /\ t.to = init_state
          <4>1. \A t \in Owned : t.from = init_state /\ t.to = init_state => t \notin D
            BY <1>1, <1>4 DEF ForwardInv
          <4> QED BY <1>2, <1>8, <1>12, <4>1 DEF SelfLoops
        <3>1. CASE tag[init_state] = 2
          BY <1>1, <3>1 DEF ForwardInv, SelfLoops
        <3>2. CASE init_state \in reached
          <4>1. PICK t \in Owned : t.from = p /\ t.to = init_state
            BY <1>5, <3>2
          <4>2. p \notin bw
            <5>1. \A s \in Reach(Owned, Start) : s \notin bw
              BY <1>3, <1>10, StartLeads
            <5> QED BY <1>14, <5>1
          <4>3. p = init_state
            BY <1>1, <4>2 DEF ForwardInv
          <4> QED BY <4>1, <4>3
        <3> QED BY <1>1, <1>2, <3>1, <3>2 DEF ForwardInv
      <2>7. ASSUME NEW t \in Owned', Left(t.from)' PROVE tag'[t.to] = 2
        <3>1. t \in Owned /\ t \notin D /\ t.from \in Q /\ t.to \in Q
          BY <1>3, <1>8, <2>7
        <3>2. CASE t.from = p
          <4>1. tag[t.to] # 0
            BY <1>4, <3>1, <3>2
          <4> QED BY <1>1, <1>2, <1>5, <3>1, <3>2, <4>1
        <3>3. CASE t.from # p
          <4>1. t.from \notin reached /\ t.from \notin wl /\ tag'[t.from] = tag[t.from]
            BY <1>2, <2>7, <3>1, <3>3 DEF Left
          <4>2. Left(t.from)
            BY <1>2, <2>7, <4>1 DEF Left
          <4> QED BY <1>1, <1>2, <3>1, <4>2 DEF ForwardInv
        <3> QED BY <3>2, <3>3
      <2> QED BY <2>1, <2>2, <2>3, <2>4, <2>5, <2>6, <2>7 DEF ForwardInv
    <1> QED BY <1>2, <1>8, <1>13, <1>16 DEF IInv, Maps

(***************************************************************************)
(* What is reached and reaches a final state has tag 2 when the forward    *)
(* loop ends, so the sweep leaves the chop; what else has tag 2 is the     *)
(* initial state that its self-loop promoted.                              *)
(***************************************************************************)
LEMMA SweepIInv ==
    ASSUME IInv, Sweep
    PROVE  /\ IInv'
           /\ TheChop' = TheChop /\ Useful' = Useful
           /\ Owned' = TheChop' \cup SelfLoops'
           /\ Q' = Useful' \cup {t.from : t \in SelfLoops'}
    <1> DEFINE S == {s \in Q : Dead(s)}
               fw == Reach(Owned, Start)
               bw == CoReach(Owned, F)
    <1>1. Maps /\ ForwardInv /\ wl = {} /\ F \subseteq Q /\ tag \in [Q -> 0..2]
      BY DEF IInv, Maps, TypeOK, Sweep
    <1>2. EraseStates(S) /\ pc' = "idle" /\ wl' = wl
      BY DEF Sweep
    <1>3. /\ Owned \in SUBSET Trans /\ Q \subseteq States /\ F \in SUBSET States
          /\ \A t \in Owned : t.from \in Q /\ t.to \in Q
      BY <1>1, FoundIsOwned DEF Maps, TypeOK
    <1>4. \A s \in Q : s \in S <=> tag[s] # 2
      BY DEF Dead
    <1>5. Q' = Q \ S /\ F' = F \ S /\ init_state' = init_state
      BY <1>2 DEF EraseStates
    <1> HIDE DEF S
    <1>6. S \in SUBSET Q /\ wl' \subseteq Q \ S
      BY <1>1, <1>2 DEF S
    <1>7. /\ Maps'
          /\ Owned' = {t \in Owned : t.from \notin S /\ t.to \notin S}
          /\ \A t \in Owned' : weight'[t] = weight[t]
      BY <1>1, <1>2, <1>6, EraseStatesKeeps
    <1>8. Live = Owned /\ Live' = Owned'
      BY <1>1, <1>7 DEF ForwardInv, Live
    <1>9. /\ Start = {init_state} /\ Start \in SUBSET States
          /\ Start' = Start \ S /\ init_state \in Q
      BY <1>1, <1>3, <1>5 DEF Start, ForwardInv
    <1>10. fw \subseteq {s \in Q : tag[s] = 2} \cup {init_state}
      <2> DEFINE R == {s \in Q : tag[s] = 2} \cup {init_state}
      <2>1. R \in SUBSET States /\ Start \subseteq R
        BY <1>3, <1>9
      <2>2. ClosedForward(Owned, R)
        BY <1>1, <1>3 DEF ClosedForward, ForwardInv, Left
      <2> QED BY <2>1, <2>2, ReachLeast
    <1>11. \A s \in fw \cap bw : s \in Q /\ s \notin S
      BY <1>1, <1>4, <1>9, <1>10 DEF ForwardInv
    <1>12. /\ F \subseteq bw /\ Start \subseteq fw
           /\ \A t \in Owned : t.from \in fw => t.to \in fw
           /\ \A t \in Owned : t.to \in bw => t.from \in bw
      BY <1>3, <1>9, ReachStep, CoReachStep
    <1>13. OffChopOnly(Owned, Start, F, Owned', Start', F')
      <2>1. Chop(Owned, Start, F) \subseteq Owned'
        BY <1>7, <1>11, <1>12 DEF Chop
      <2>2. Start \cap bw \subseteq Start' /\ F \cap fw \subseteq F'
        BY <1>5, <1>9, <1>11, <1>12
      <2> QED BY <1>3, <1>5, <1>7, <1>9, <2>1, <2>2 DEF OffChopOnly
    <1>14. TheChop' = TheChop /\ Useful' = Useful /\ Useful = fw \cap bw
      <2>1. /\ Chop(Owned', Start', F') = Chop(Owned, Start, F)
            /\ Reach(Owned', Start') \cap CoReach(Owned', F') = fw \cap bw
        BY <1>13, ChopKept
      <2> QED BY <1>8, <2>1 DEF TheChop, Useful
    <1>15. TheChop = {t \in Owned : t.from \in fw /\ t.to \in bw}
      BY <1>8 DEF TheChop, Chop
    <1>16. \A s \in Q \ S : s \in fw /\ (s # init_state => s \in bw)
      BY <1>1, <1>4 DEF ForwardInv
    <1>17. SelfLoops' \subseteq Owned' /\ \A t \in SelfLoops' : t.from = init_state
      BY <1>5 DEF SelfLoops
    <1>18. Owned' = TheChop' \cup SelfLoops'
      <2>1. TheChop \subseteq Owned'
        BY <1>7, <1>11, <1>12, <1>15
      <2>2. ASSUME NEW t \in Owned', t \notin TheChop PROVE t \in SelfLoops'
        <3>1. t \in Owned /\ t.from \in Q \ S /\ t.to \in Q \ S
          BY <1>3, <1>7
        <3>2. t.to = init_state /\ t.to \notin bw
          BY <1>15, <1>16, <2>2, <3>1
        <3>3. t.from \notin bw
          <4>1. \A s \in fw : s \notin bw
            BY <1>3, <1>9, <3>2, StartLeads
          <4> QED BY <1>16, <3>1, <4>1
        <3>4. t.from = init_state
          BY <1>16, <3>1, <3>3
        <3> QED BY <1>5, <3>2, <3>4 DEF SelfLoops
      <2> QED BY <1>14, <1>17, <2>1, <2>2
    <1>19. Q' = Useful' \cup {t.from : t \in SelfLoops'}
      <2>1. Useful \subseteq Q'
        BY <1>5, <1>11, <1>14
      <2>2. {t.from : t \in SelfLoops'} \subseteq Q'
        BY <1>3, <1>5, <1>7, <1>17
      <2>3. ASSUME NEW s \in Q', s \notin Useful PROVE \E t \in SelfLoops' : t.from = s
        <3>1. s \in Q \ S /\ s \in fw /\ s \notin bw /\ s = init_state
          BY <1>5, <1>14, <1>16, <2>3
        <3>2. PICK t \in Owned : t.from = init_state /\ t.to = init_state
          BY <1>1, <1>4, <3>1 DEF ForwardInv, SelfLoops
        <3>3. t \in Owned'
          BY <1>7, <3>1, <3>2
        <3> QED BY <1>5, <3>1, <3>2, <3>3 DEF SelfLoops
      <2> QED BY <1>14, <2>1, <2>2, <2>3
    <1>20. IInv'
      BY <1>1, <1>2, <1>7 DEF IInv, Maps
    <1> QED BY <1>14, <1>18, <1>19, <1>20

-----------------------------------------------------------------------------
(* The theorems.                                                           *)

LEMMA InitIInv == Init => IInv
    BY DEF Init, IInv, TypeOK, IndexesAgree, Holds, Owned, EpsOnly

(* Every step, with what it leaves of the chop. *)
LEMMA StepIInv ==
    ASSUME IInv, [Next]_vars
    PROVE  /\ IInv'
           /\ AtPrune => TheChop' = TheChop /\ Useful' = Useful
           /\ Returning => /\ Owned' = TheChop' \cup SelfLoops'
                           /\ Q' = Useful' \cup {t.from : t \in SelfLoops'}
    <1>1. CASE PruneStart
      <2>1. IInv' /\ Live' = Live /\ UNCHANGED <<F, Q, init_state>> /\ pc = "prune"
        BY <1>1, PruneStartIInv DEF PruneStart
      <2>2. TheChop' = TheChop /\ Useful' = Useful
        BY <2>1 DEF TheChop, Useful, Start
      <2> QED BY <2>1, <2>2 DEF Returning
    <1>2. ASSUME NEW q \in wl, BackStep(q) PROVE pc = "back" /\ IInv' /\ UNCHANGED <<Live, F, Q, init_state>>
      BY <1>2, BackStepIInv DEF BackStep, trans, Live, Owned
    <1>3. CASE BackDone
      <2>1. IInv' /\ UNCHANGED <<Live, F, Q, init_state>> /\ pc = "back"
        BY <1>3, BackDoneIInv DEF BackDone, trans, Live, Owned
      <2>2. TheChop' = TheChop /\ Useful' = Useful
        BY <2>1 DEF TheChop, Useful, Start
      <2> QED BY <2>1, <2>2 DEF Returning
    <1>4. ASSUME NEW p \in wl, ForwardStep(p)
          PROVE  IInv' /\ TheChop' = TheChop /\ Useful' = Useful /\ pc' = "forward"
      BY <1>4, ForwardStepIInv DEF ForwardStep
    <1>5. CASE Sweep
      BY <1>5, SweepIInv
    <1>6. CASE UNCHANGED vars
      <2>1. UNCHANGED <<weight, kpmap, eps_map, state_map, tag, Q, F, init_state, pc, wl>>
        BY <1>6 DEF vars
      <2>2. UNCHANGED <<Owned, Live, Start>>
        BY <2>1 DEF Owned, Live, Start
      <2>3. TheChop' = TheChop /\ Useful' = Useful
        BY <2>1, <2>2 DEF TheChop, Useful
      <2>4. IInv'
        BY <2>1, <2>2 DEF IInv, TypeOK, IndexesAgree, Holds, BackInv, ForwardInv, Left, SelfLoops
      <2> QED BY <2>1, <2>3, <2>4 DEF Returning
    <1>7. ASSUME pc = "idle", IInv' PROVE ~ AtPrune /\ ~ Returning
      BY <1>7 DEF AtPrune, Returning
    <1>8. CASE pc = "idle" /\ Next
      <2>1. wl = {} /\ Maps
        BY <1>8 DEF IInv, Maps
      <2>2. ~ Pruning
        BY <1>8, <2>1 DEF Pruning, PruneStart, BackDone, Sweep
      <2>3. Maps' /\ pc' \in {"idle", "prune", "aborted", "undefined"} /\ wl' = {}
        BY <1>8, <2>1, <2>2, ClientKeeps DEF Next
      <2>4. IInv'
        BY <2>3 DEF IInv, Maps
      <2> QED BY <1>7, <1>8, <2>4
    <1>9. ASSUME pc # "idle", Next PROVE Pruning
      BY <1>9 DEF Next, AddState, EraseState, SetInitial, AddFinal, AddNew, AddAgain, Erase,
                  EraseMissing, Filter, Clear, Copy, Prune
    <1>10. ASSUME NEW q \in wl, BackStep(q) PROVE TheChop' = TheChop /\ Useful' = Useful
      <2>1. UNCHANGED <<Live, F, Q, init_state>>
        BY <1>2, <1>10
      <2> QED BY <2>1 DEF TheChop, Useful, Start
    <1>11. CASE pc # "idle" /\ Next
      <2>1. Pruning
        BY <1>9, <1>11
      <2>2. ASSUME NEW q \in wl, BackStep(q) PROVE IInv' /\ ~ Returning
        BY <1>2, <2>2 DEF Returning
      <2>3. ASSUME NEW p \in wl, ForwardStep(p) PROVE ~ Returning
        BY <1>4, <2>3 DEF Returning
      <2> QED BY <1>1, <1>2, <1>3, <1>4, <1>5, <1>10, <2>1, <2>2, <2>3 DEF Pruning
    <1> QED BY <1>6, <1>8, <1>11

(* The inductive invariant: the maps agree and prune's tags mean what they *)
(* say, at every step of every sequence of calls.                          *)
THEOREM StoreInvariant == Spec => []IInv
    <1>1. IInv /\ [Next]_vars => IInv'
      BY StepIInv
    <1> QED BY InitIInv, <1>1, PTL DEF Spec

(* The store is well typed. *)
THEOREM StoreTyped == Spec => []TypeOK
    <1>1. IInv => TypeOK
      BY DEF IInv
    <1> QED BY StoreInvariant, <1>1, PTL

(* kpmap, eps_map and the TransSets hold the transitions there are. *)
THEOREM StoreIndexed == Spec => []IndexesAgree
    <1>1. IInv => IndexesAgree
      BY DEF IInv
    <1> QED BY StoreInvariant, <1>1, PTL

(* Pruning leaves the chop as it is, for any automaton and worklist order. *)
THEOREM PruneIsSafe == Spec => PruneKeepsChop
    <1>1. IInv /\ [Next]_vars => [AtPrune => UNCHANGED <<TheChop, Useful>>]_vars
      BY StepIInv
    <1> QED BY StoreInvariant, <1>1, PTL DEF Spec, PruneKeepsChop

(* When prune returns only the chop is left, but for the self-loops of an  *)
(* initial state from which no final state is reached.                     *)
THEOREM PruneIsThorough == Spec => PruneLeavesChop
    <1>1. IInv /\ [Next]_vars =>
             [Returning => /\ Owned' = TheChop' \cup SelfLoops'
                           /\ Q' = Useful' \cup {t.from : t \in SelfLoops'}]_vars
      BY StepIInv
    <1> QED BY StoreInvariant, <1>1, PTL DEF Spec, PruneLeavesChop
===============================================================================
