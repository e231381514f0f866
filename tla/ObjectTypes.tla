----------------------------- MODULE ObjectTypes -----------------------------
(***************************************************************************)
(* ServerObjectType: making object types and instances of them.            *)
(*                                                                         *)
(* A type is made node by node: the type, then each member and, in a call   *)
(* of its own, the reference that makes the member mandatory.  Only the     *)
(* single call is protected.  In between, connected clients and other      *)
(* threads see the half made type, make instances of it and delete nodes;   *)
(* and each step may be refused, which leaves what was made before.        *)
(***************************************************************************)
EXTENDS Integers, Sequences, FiniteSets

CONSTANTS
    Threads,      \* each with a ServerObjectType of its own
    Members,      \* what addChildren of each class adds, in its order
    Names,        \* browse names of members
    Nodes,        \* node ids
    Asked,        \* those that are asked for; the others are generated
    Null,         \* NodeId::Null
    Placeholder,  \* what notNull() makes, an id no node has
    Base,         \* NodeId::BaseObjectType, which is always there
    MaxCalls      \* bound: types begun

Member == [name : Names, folder : BOOLEAN, mandatory : BOOLEAN]

(* A class gives each of its members a name of its own.                    *)
ASSUME ObjectTypesAssumption ==
    /\ Members \in [Threads -> Seq(Member)]
    /\ \A t \in Threads : \A i, j \in DOMAIN Members[t] :
          Members[t][i].name = Members[t][j].name => i = j
    /\ Null \notin Threads \cup Names
    /\ Asked \subseteq Nodes
    /\ Null # Base /\ Null # Placeholder /\ Base # Placeholder
    /\ Nodes \cap {Null, Placeholder, Base} = {}
    /\ MaxCalls \in Nat

VARIABLES
    there,      \* nodes of the address space
    parent,     \* the parent of each node, Null when it is gone
    nameOf,     \* the name of each member; Null for types and unused ids
    mandatory,  \* members with a HasModellingRule reference
    typeId,     \* m_typeId of each thread's object
    call,       \* the type each thread is making
    begun,      \* number of types begun
    maker,      \* history: the thread that made each type
    finished,   \* history: types whose making was reported as a success
    cut,        \* history: nodes that were deleted or lost a member
    instance    \* history: the last instance, its members, and those due

space == <<there, parent, nameOf, mandatory>>
history == <<maker, finished, cut, instance>>
vars == <<space, typeId, call, begun, history>>

Types == {n \in there : nameOf[n] = Null}

(* type: the node made; under: where addChildren was told to add; done:     *)
(* members added; pending: the member that waits for its reference.        *)
Idle == [type |-> Null, under |-> Null, done |-> 0, pending |-> Null]

(* The record of a call that made type n, of one whose member waits for its *)
(* reference, and of one that is done with a member.                       *)
Begun(n, under) == [type |-> n, under |-> under, done |-> 0, pending |-> Null]
Waiting(c, n) == [type |-> c.type, under |-> c.under, done |-> c.done,
                  pending |-> n]
Advanced(c) == [type |-> c.type, under |-> c.under, done |-> c.done + 1,
                pending |-> Null]

Active(t) == call[t].type # Null

TypeOK ==
    /\ there \subseteq Nodes /\ mandatory \subseteq there
    /\ parent \in [Nodes -> there \cup {Base, Null}]
    /\ nameOf \in [Nodes -> Names \cup {Null}]
    /\ typeId \in [Threads -> Nodes \cup {Null, Placeholder}]
    /\ call \in [Threads -> [type : Nodes \cup {Null},
                             under : Nodes \cup {Null},
                             done : Nat,
                             pending : Nodes \cup {Null, Placeholder}]]
    /\ begun \in 0 .. MaxCalls
    /\ maker \in [Nodes -> Threads \cup {Null}]
    /\ finished \subseteq Nodes /\ cut \subseteq Nodes
    /\ instance \in [has : SUBSET Names, due : SUBSET Names]

Init ==
    /\ there = {} /\ mandatory = {}
    /\ parent = [n \in Nodes |-> Null]
    /\ nameOf = [n \in Nodes |-> Null]
    /\ typeId = [t \in Threads |-> Null]
    /\ call = [t \in Threads |-> Idle]
    /\ begun = 0
    /\ maker = [n \in Nodes |-> Null]
    /\ finished = {} /\ cut = {}
    /\ instance = [has |-> {}, due |-> {}]

-----------------------------------------------------------------------------
(* The library (external).                                                 *)

(* The id of a new node: the one asked for, which must be free, or one that *)
(* was never used; which one makes no difference.                          *)
NewId(asked) ==
    IF asked # Null THEN {asked} \ there
    ELSE LET unused == {n \in Nodes \ Asked :
                           maker[n] = Null /\ nameOf[n] = Null}
         IN  IF unused = {} THEN {} ELSE {CHOOSE n \in unused : TRUE}

(* A node is added below one that is there.                                *)
AddNode(n, under, name) ==
    /\ under \in there \cup {Base}
    /\ there' = there \cup {n}
    /\ parent' = [parent EXCEPT ![n] = under]
    /\ nameOf' = [nameOf EXCEPT ![n] = name]

(* A type and the types it is derived from.                                *)
Supertypes(n) ==
    LET upTo[i \in 0 .. Cardinality(Nodes)] ==
            IF i = 0 THEN {n}
            ELSE upTo[i - 1] \cup ({parent[m] : m \in upTo[i - 1]} \cap there)
    IN  upTo[Cardinality(Nodes)]

MandatoryNames(n) ==
    LET members == Members[maker[n]]
    IN  {members[k].name : k \in {i \in DOMAIN members : members[i].mandatory}}

(* An instance gets the mandatory members of its type and supertypes, one   *)
(* for each name.                                                          *)
Instantiate(n) ==
    /\ n \in Types
    /\ LET copied == {m \in mandatory : parent[m] \in Supertypes(n)} IN
       instance' = [has |-> {nameOf[m] : m \in copied},
                    due |-> UNION {MandatoryNames(k) :
                                k \in Supertypes(n) \cap (finished \ cut)}]

-----------------------------------------------------------------------------
(* addChildren goes on with the next member, or has returned true.          *)
GoOn(t, c) ==
    IF c.done = Len(Members[t])
    THEN /\ call' = [call EXCEPT ![t] = Idle]
         /\ finished' = finished \cup {c.type}
    ELSE /\ call' = [call EXCEPT ![t] = c]
         /\ UNCHANGED finished

(* A step failed: the operation returns false or a null id.                *)
GiveUp(t) ==
    /\ call' = [call EXCEPT ![t] = Idle]
    /\ UNCHANGED <<finished, cut, maker>>

MadeType(t, n) ==
    /\ maker' = [maker EXCEPT ![n] = t]
    /\ UNCHANGED cut

(* Bug to detect: the members are added although the id is in use.         *)
AddTypeAgain(t, asked) ==
    /\ ~Active(t) /\ begun < MaxCalls
    /\ begun' = begun + 1
    /\ \/ /\ asked \in there
          /\ typeId' = [typeId EXCEPT ![t] = asked]
          /\ GoOn(t, Begun(asked, asked))
          /\ UNCHANGED <<space, maker, cut>>
       \/ \E n \in NewId(asked) :
             /\ AddNode(n, Base, Null)
             /\ typeId' = [typeId EXCEPT ![t] = n]
             /\ MadeType(t, n)
             /\ GoOn(t, Begun(n, n))
             /\ UNCHANGED mandatory
    /\ UNCHANGED instance

(* addBaseObjectType in addType: m_typeId receives the new id, and stays a  *)
(* placeholder when the library refuses.                                   *)
AddType(t, asked) ==
    /\ ~Active(t) /\ begun < MaxCalls
    /\ begun' = begun + 1
    /\ \/ /\ typeId' = [typeId EXCEPT ![t] = Placeholder]
          /\ GiveUp(t)
          /\ UNCHANGED space
       \/ \E n \in NewId(asked) :
             /\ AddNode(n, Base, Null)
             /\ typeId' = [typeId EXCEPT ![t] = n]
             /\ MadeType(t, n)
             /\ GoOn(t, Begun(n, n))
             /\ UNCHANGED mandatory
    /\ UNCHANGED instance

(* append: addDerivedObjectType hands the id of the new type out only if    *)
(* the caller's nodeId is not null, and without it append ends here.  The   *)
(* members are then added to the id that was asked for.                     *)
AppendType(t, super, asked, handed) ==
    /\ ~Active(t) /\ begun < MaxCalls
    /\ begun' = begun + 1
    /\ \/ GiveUp(t) /\ UNCHANGED space
       \/ \E n \in NewId(asked) :
             /\ AddNode(n, super, Null)
             /\ MadeType(t, n)
             /\ IF handed
                THEN GoOn(t, Begun(n, asked))
                ELSE UNCHANGED <<call, finished>>
             /\ UNCHANGED mandatory
    /\ UNCHANGED <<typeId, instance>>

(* Bug to detect: addChildren goes on after a refused member.              *)
SkipMember(t) ==
    LET c == call[t]
        m == Members[t][c.done + 1]
    IN  /\ Active(t) /\ c.pending = Null
        /\ \/ /\ GoOn(t, Advanced(c))
              /\ UNCHANGED <<space, cut, maker>>
           \/ \E n \in NewId(Null) :
                 /\ AddNode(n, c.under, m.name)
                 /\ IF m.mandatory
                    THEN /\ call' = [call EXCEPT ![t] = Waiting(c, n)]
                         /\ UNCHANGED finished
                    ELSE GoOn(t, Advanced(c))
                 /\ UNCHANGED <<mandatory, cut, maker>>
        /\ UNCHANGED <<typeId, begun, instance>>

(* addObjectTypeVariable and addObjectTypeFolder, their first call.  The    *)
(* id of a new folder goes to requestNodeId, while the reference is then    *)
(* added to the placeholder.                                               *)
AddMember(t) ==
    LET c == call[t]
        m == Members[t][c.done + 1]
    IN  /\ Active(t) /\ c.pending = Null
        /\ \/ GiveUp(t) /\ UNCHANGED space
           \/ \E n \in NewId(Null) :
                 /\ AddNode(n, c.under, m.name)
                 /\ IF m.mandatory
                    THEN /\ call' = [call EXCEPT ![t] =
                               Waiting(c, IF m.folder THEN Placeholder ELSE n)]
                         /\ UNCHANGED finished
                    ELSE GoOn(t, Advanced(c))
                 /\ UNCHANGED <<mandatory, cut, maker>>
        /\ UNCHANGED <<typeId, begun, instance>>

(* Bug to detect: the reference is forgotten.                              *)
MarkNothing(t) ==
    LET c == call[t] IN
    /\ Active(t) /\ c.pending # Null
    /\ GoOn(t, Advanced(c))
    /\ UNCHANGED <<space, cut, maker, typeId, begun, instance>>

(* addReference to ModellingRuleMandatory.                                 *)
MarkMandatory(t) ==
    LET c == call[t] IN
    /\ Active(t) /\ c.pending # Null
    /\ IF c.pending \in there
       THEN /\ mandatory' = mandatory \cup {c.pending}
            /\ GoOn(t, Advanced(c))
            /\ UNCHANGED <<cut, maker>>
       ELSE GiveUp(t) /\ UNCHANGED mandatory
    /\ UNCHANGED <<there, parent, nameOf, typeId, begun, instance>>

(* addInstance makes an instance of m_typeId.                              *)
AddInstance(t) ==
    /\ ~Active(t)
    /\ Instantiate(typeId[t])
    /\ UNCHANGED <<space, typeId, call, begun, maker, finished, cut>>

(* A connected client makes an instance of any type it sees.               *)
ClientInstance(n) ==
    /\ Instantiate(n)
    /\ UNCHANGED <<space, typeId, call, begun, maker, finished, cut>>

(* A client deletes a node and the references to it.                       *)
ClientDelete(n) ==
    /\ n \in there
    /\ there' = there \ {n}
    /\ parent' = [m \in Nodes |-> IF m = n \/ parent[m] = n THEN Null
                                  ELSE parent[m]]
    /\ mandatory' = mandatory \ {n}
    /\ finished' = finished \ {n}
    /\ cut' = cut \cup ({n, parent[n]} \cap Nodes)
    /\ UNCHANGED <<nameOf, typeId, call, begun, maker, instance>>

Next ==
    \/ \E t \in Threads, asked \in Asked \cup {Null} : AddType(t, asked)
    \/ \E t \in Threads, super \in Types \cup {Base},
          asked \in Asked \cup {Null}, handed \in BOOLEAN :
             AppendType(t, super, asked, handed)
    \/ \E t \in Threads : AddMember(t) \/ MarkMandatory(t) \/ AddInstance(t)
    \/ \E n \in Nodes : ClientInstance(n) \/ ClientDelete(n)

Spec == Init /\ [][Next]_vars

-----------------------------------------------------------------------------
(* What addType or append reported as made is whole: every member that      *)
(* addChildren adds is below it, marked where that was asked for, unless    *)
(* somebody deleted one.  It does not matter which steps of this or other   *)
(* calls were refused, nor what was repeated (addType, append).            *)
FinishedIsWhole ==
    \A n \in finished \ cut : \A k \in DOMAIN Members[maker[n]] :
        LET m == Members[maker[n]][k] IN
        \E c \in there : /\ parent[c] = n /\ nameOf[c] = m.name
                         /\ m.mandatory => c \in mandatory

(* No type gets a member twice, also when its making failed half way and is *)
(* repeated under the same id, by the same object or by another: who finds  *)
(* the id in use adds no members (addType).  An id that was once deleted    *)
(* (cut) is out of scope: deleted and made anew while its first maker is    *)
(* still adding members, a type does get a member from each of the two.     *)
NoTwinMembers ==
    \A c, d \in there :
        /\ parent[c] = parent[d] /\ parent[c] \in Nodes \ cut
        /\ nameOf[c] = nameOf[d] /\ nameOf[c] # Null
        => c = d

(* Instances made while a type is being made lack members; one made after  *)
(* its type, or a type it is derived from, was reported as made has all     *)
(* mandatory members of it (addInstance, markMandatory).                   *)
InstancesAreWhole == instance.due \subseteq instance.has
=============================================================================
