------------------------------ MODULE WpdsRules -----------------------------
(***************************************************************************)
(* The rule database of a WPDS: Config objects interned in a map, each     *)
(* with its forward and backward list of rules, rule_zeroes (the Configs   *)
(* pop rules lead to), r2hash (push rules by their second symbol) and      *)
(* pds_states, kept together by add_rule, replace_rule, erase_rule, clear  *)
(* and the copy constructor.  The queries read the rules through these     *)
(* indexes only, and add Configs of their own to the map.                  *)
(***************************************************************************)
EXTENDS Semiring, Tables

CONSTANTS
    P,          \* the control states
    Other,      \* states of automata that are no control states
    Rules,      \* the rules the client adds and erases
    Weights,    \* the weights it gives them
    Met         \* the Configs its queries meet

ConfigKey == [state : P \cup Other, stk : Symbol]

(* A rule without its weight: its two Configs and its second symbol. *)
Cfg(s, y) == [state |-> s, stk |-> y]
RuleId == {r \in [from : ConfigKey, to : ConfigKey, stk2 : Symbol] :
              /\ r.from.state \in P /\ r.from.stk # EPS /\ r.to.state \in P
              /\ r.to.stk = EPS => r.stk2 = EPS}
IsPush(r) == r.stk2 # EPS
IsPop(r) == r.to.stk = EPS

ASSUME RulesAssumption ==
    /\ Rules \subseteq RuleId /\ Weights \subseteq Weight /\ Met \subseteq ConfigKey

VARIABLES
    config_map, \* the keys of the interned Configs
    fwrules,    \* for each of them, the rules that leave it
    bwrules,    \* and the rules that lead to it
    se,         \* the weight of each rule object the lists hold
    rule_zeroes,
    r2hash,     \* r2hash[y] for each second symbol y it has a bucket for
    pds_states,
    aborted     \* an assertion has failed

db == <<config_map, fwrules, bwrules, se, rule_zeroes, r2hash, pds_states>>
rulesVars == <<config_map, fwrules, bwrules, se, rule_zeroes, r2hash, pds_states, aborted>>

RulesInit ==
    /\ config_map = {} /\ fwrules = <<>> /\ bwrules = <<>> /\ se = <<>>
    /\ rule_zeroes = {} /\ r2hash = <<>> /\ pds_states = {}
    /\ aborted = FALSE

(* Mutated forms: the bucket of a second symbol is overwritten, a Config is *)
(* taken for unused when no rule leads to it, rule_zeroes is not purged.   *)
Joined_Overwritten(f, x, e) == [Extended(f, {x}, {}) EXCEPT ![x] = {e}]
Unused_BackwardOnly(fw, bw, c) == bw[c] = {}
ZeroesAfterErase_Kept(r, eraseto) == rule_zeroes

(* r2hash with e in the bucket of x, which it makes if there is none. *)
Joined(f, x, e) == [Extended(f, {x}, {}) EXCEPT ![x] = @ \cup {e}]

(* The weight a rule that is added again, or replaced, ends up with. *)
NewWeight(old, w, replace) == IF replace THEN w ELSE Combine(old, w)

(* What Config::erase and Config::rerase return: both lists are empty. *)
Unused(fw, bw, c) == fw[c] = {} /\ bw[c] = {}

ZeroesAfterErase(r, eraseto) ==
    IF IsPop(r) /\ eraseto THEN rule_zeroes \ {r.to} ELSE rule_zeroes

(***************************************************************************)
(* add_rule and make_rule.  make_config interns both Configs, the states   *)
(* are recorded; a rule the forward list of its Config already holds only  *)
(* has its weight combined or replaced, a new one enters every index.      *)
(***************************************************************************)
AddRule(r, w, replace) ==
    LET both == {r.from, r.to}
        fw == Extended(fwrules, both, {})
        bw == Extended(bwrules, both, {})
        exists == r \in fw[r.from]
    IN  /\ ~ aborted
        /\ config_map' = config_map \cup both
        /\ pds_states' = pds_states \cup {r.from.state, r.to.state}
        /\ IF exists
           THEN /\ se' = [se EXCEPT ![r] = NewWeight(@, w, replace)]
                /\ fwrules' = fw /\ bwrules' = bw
                /\ UNCHANGED <<rule_zeroes, r2hash>>
           ELSE /\ se' = [Extended(se, {r}, w) EXCEPT ![r] = w]
                /\ fwrules' = [fw EXCEPT ![r.from] = @ \cup {r}]
                /\ bwrules' = [bw EXCEPT ![r.to] = @ \cup {r}]
                /\ rule_zeroes' = rule_zeroes \cup (IF IsPop(r) THEN {r.to} ELSE {})
                /\ r2hash' = IF IsPush(r) THEN Joined(r2hash, r.stk2, r) ELSE r2hash
        /\ UNCHANGED aborted

(***************************************************************************)
(* erase_rule, found: the rule leaves both lists, then a pop rule that was *)
(* the last at its target takes the target out of rule_zeroes, a push rule *)
(* leaves its bucket, and a Config without rules leaves the map.  Config:: *)
(* erase and Config::rerase say, one after the other, whether both lists   *)
(* are empty.                                                              *)
(***************************************************************************)
EraseRule(r) ==
    LET fw == [fwrules EXCEPT ![r.from] = @ \ {r}]
        bw == [bwrules EXCEPT ![r.to] = @ \ {r}]
        erasefrom == Unused(fw, bwrules, r.from)
        eraseto == Unused(fw, bw, r.to)
        gone == (IF erasefrom THEN {r.from} ELSE {}) \cup (IF eraseto THEN {r.to} ELSE {})
        bucket == r2hash[r.stk2] \ {r}
    IN  /\ ~ aborted
        /\ {r.from, r.to} \subseteq config_map
        /\ r \in fwrules[r.from]
        /\ se' = Without(se, {r})
        /\ rule_zeroes' = ZeroesAfterErase(r, eraseto)
        /\ r2hash' = IF ~ IsPush(r) THEN r2hash
                     ELSE IF bucket = {} THEN Without(r2hash, {r.stk2})
                     ELSE [r2hash EXCEPT ![r.stk2] = bucket]
        /\ config_map' = config_map \ gone
        /\ fwrules' = Without(fw, gone)
        /\ bwrules' = Without(bw, gone)
        /\ UNCHANGED <<pds_states, aborted>>

(* erase_rule, not found: false if a Config is missing, else an assertion. *)
EraseMissingRule(r) ==
    /\ ~ aborted
    /\ {r.from, r.to} \subseteq config_map => r \notin fwrules[r.from]
    /\ aborted' = ({r.from, r.to} \subseteq config_map)
    /\ UNCHANGED db

ClearRules ==
    /\ ~ aborted
    /\ config_map' = {} /\ fwrules' = <<>> /\ bwrules' = <<>> /\ se' = <<>>
    /\ rule_zeroes' = {} /\ r2hash' = <<>> /\ pds_states' = {}
    /\ UNCHANGED aborted

(* A query makes the Config of a transition it meets (make_config). *)
Query(c) ==
    /\ ~ aborted
    /\ config_map' = config_map \cup {c}
    /\ fwrules' = Extended(fwrules, {c}, {})
    /\ bwrules' = Extended(bwrules, {c}, {})
    /\ UNCHANGED <<se, rule_zeroes, r2hash, pds_states, aborted>>

(***************************************************************************)
(* The client goes on with a copy (WPDS::WPDS(const WPDS&)): every rule of *)
(* the forward lists is added to an empty database.                        *)
(***************************************************************************)
CopyRules ==
    LET all == UNION {fwrules[c] : c \in config_map}
        ends == {r.from : r \in all} \cup {r.to : r \in all}
    IN  /\ ~ aborted
        /\ config_map' = ends
        /\ fwrules' = [c \in ends |-> {r \in all : r.from = c}]
        /\ bwrules' = [c \in ends |-> {r \in all : r.to = c}]
        /\ se' = [r \in all |-> se[r]]
        /\ rule_zeroes' = {r.to : r \in {x \in all : IsPop(x)}}
        /\ r2hash' = [y \in {r.stk2 : r \in {x \in all : IsPush(x)}} |->
                         {r \in all : r.stk2 = y}]
        /\ pds_states' = {c.state : c \in ends}
        /\ UNCHANGED aborted

RulesNext ==
    \/ \E r \in Rules : \/ \E w \in Weights, replace \in BOOLEAN : AddRule(r, w, replace)
                        \/ EraseRule(r)
                        \/ EraseMissingRule(r)
    \/ \E c \in Met : Query(c)
    \/ ClearRules
    \/ CopyRules

RulesSpec == RulesInit /\ [][RulesNext]_rulesVars
-----------------------------------------------------------------------------
RulesTypeOK ==
    /\ config_map \subseteq ConfigKey
    /\ fwrules \in [config_map -> SUBSET Rules]
    /\ bwrules \in [config_map -> SUBSET Rules]
    /\ DOMAIN se \subseteq Rules /\ se \in [DOMAIN se -> Weight]
    /\ rule_zeroes \subseteq config_map
    /\ DOMAIN r2hash \subseteq Stack /\ r2hash \in [DOMAIN r2hash -> SUBSET Rules]
    /\ pds_states \subseteq P
    /\ aborted \in BOOLEAN

(***************************************************************************)
(* The indexes agree on the rules there are, whatever was added, replaced, *)
(* erased and queried before: the lists of a Config hold the rules that    *)
(* leave it and lead to it and both its ends are interned, rule_zeroes has *)
(* the targets of the pop rules, r2hash a bucket of exactly the push rules *)
(* with that second symbol and no empty bucket.                            *)
(***************************************************************************)
Held == DOMAIN se
ListsAgree ==
    /\ \A r \in Held : r.from \in config_map /\ r.to \in config_map
    /\ \A c \in config_map : /\ fwrules[c] = {r \in Held : r.from = c}
                             /\ bwrules[c] = {r \in Held : r.to = c}
ZeroesAgree == rule_zeroes = {r.to : r \in {x \in Held : IsPop(x)}}
HashAgrees ==
    /\ DOMAIN r2hash = {r.stk2 : r \in {x \in Held : IsPush(x)}}
    /\ \A y \in DOMAIN r2hash : r2hash[y] = {r \in Held : IsPush(r) /\ r.stk2 = y}
StatesCovered == \A r \in Held : r.from.state \in pds_states /\ r.to.state \in pds_states
RulesIndexesAgree == ListsAgree /\ ZeroesAgree /\ HashAgrees /\ StatesCovered

(***************************************************************************)
(* What a client sees through for_each is a map from rules to weights:     *)
(* copies and queries do not change it, and neither do failed erasures.    *)
(***************************************************************************)
Listed == UNION {fwrules[c] : c \in config_map}
Map == INSTANCE RuleMap WITH RuleId <- Rules, weightOf <- [r \in Listed |-> se[r]]
ImplementsRuleMap == Map!Spec
=============================================================================
