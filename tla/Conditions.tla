----------------------------- MODULE Conditions -----------------------------
(***************************************************************************)
(* The Condition objects of a Server, beside its timers.  A condition is a *)
(* node of the UA_Server and an object of _conditionMap; ~Condition deletes *)
(* the node.                                                               *)
(***************************************************************************)
EXTENDS ServerCallbacks

CONSTANTS
    Conds,       \* ids of condition nodes, each with the object made for it
    NullId       \* the null NodeId

ASSUME ConditionsAssumption == NullId \notin Conds

VARIABLES
    nodes,       \* conditions the UA_Server has
    dictionary,  \* _conditionMap by node id: the hash is taken as injective
    life         \* lifetime of each Condition object

cvars == <<nodes, dictionary, life>>

Keys == Conds \cup {NullId}

ConditionsTypeOK ==
    /\ nodes \subseteq Conds
    /\ dictionary \in [Keys -> Keys]
    /\ life \in [Conds -> {"new", "live", "dead"}]

ConditionsInit ==
    /\ nodes = {}
    /\ dictionary = [k \in Keys |-> NullId]
    /\ life = [c \in Conds |-> "new"]

(* The objects held under the keys K.                                      *)
Held(K) == {dictionary[k] : k \in K} \ {NullId}

(* Bug to detect: ~Condition leaves its node in the UA_Server.             *)
ReplaceObjects(D, C) ==
    /\ nodes' = nodes \cup C
    /\ life' = [c \in Conds |-> IF c \in D THEN "dead"
                                ELSE IF c \in C THEN "live" ELSE life[c]]

(* The objects D are destroyed, each with its node; the objects C are new.  *)
Replace(D, C) ==
    /\ nodes' = (nodes \ D) \cup C
    /\ life' = [c \in Conds |-> IF c \in D THEN "dead"
                                ELSE IF c \in C THEN "live" ELSE life[c]]

(* createCondition: the id the library returned is cleared before it is    *)
(* hashed, so the object is held under the null id, in place of the object *)
(* of the last condition.  When the library refuses nothing changes.       *)
CreateCondition(c) ==
    /\ server # "gone" /\ life[c] = "new"
    /\ dictionary' = [dictionary EXCEPT ![NullId] = c]
    /\ Replace(Held({NullId}), {c})

(* deleteCondition: _conditionMap.erase                                    *)
DeleteCondition(key) ==
    /\ server # "gone"
    /\ Held({key}) # {}
    /\ dictionary' = [dictionary EXCEPT ![key] = NullId]
    /\ Replace(Held({key}), {})

(* terminate clears _conditionMap while the UA_Server is still there; the   *)
(* UA_Server takes the rest of its nodes with it.                          *)
ClearConditions ==
    /\ dictionary' = [k \in Keys |-> NullId]
    /\ life' = [c \in Conds |-> IF c \in Held(Keys) THEN "dead" ELSE life[c]]
    /\ nodes' = {}

ConditionStep ==
    \/ \E c \in Conds : CreateCondition(c)
    \/ \E key \in Keys : DeleteCondition(key)

ServerInit == Init /\ ConditionsInit

ServerNext ==
    \/ CallbackStep /\ UNCHANGED cvars
    \/ Run /\ UNCHANGED cvars
    \/ ConditionStep /\ UNCHANGED vars
    \/ Terminate /\ ClearConditions

ServerSpec == ServerInit /\ [][ServerNext]_<<vars, cvars>>

-----------------------------------------------------------------------------
(* The wrapper's conditions are the UA_Server's: a node exists exactly as   *)
(* long as its Condition object, which the map owns, and nothing of them   *)
(* outlives the UA_Server (createCondition, deleteCondition, ~Condition,   *)
(* terminate).                                                             *)
ConditionsAreMirrored ==
    /\ nodes = {c \in Conds : life[c] = "live"}
    /\ nodes = Held(Keys)
    /\ server = "gone" => nodes = {}
=============================================================================
