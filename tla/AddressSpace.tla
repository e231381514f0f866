---------------------------- MODULE AddressSpace ----------------------------
(***************************************************************************)
(* Walking, extending and cutting the address space by browse paths.       *)
(*                                                                         *)
(* createFolderPath, nodeIdFromPath, browseTree and deleteTree of Server   *)
(* and Client are sequences of calls of the library, and only the single   *)
(* call is protected: threads of the server and connected clients change   *)
(* the address space between two of them.  A node is deleted with the      *)
(* references to it; its id is not used again.  The library lists the      *)
(* references of a node in an order of its own, so here they are a set,    *)
(* and whatever comes first in a loop over them may be any.                *)
(***************************************************************************)
EXTENDS Integers, Sequences

CONSTANTS
    Servers,      \* threads that use the Server
    Clients,      \* connected Clients
    Nodes,        \* node ids; those that are not known yet can be handed out
    Standard,     \* nodes of namespace 0
    Foreign,      \* nodes of a namespace other than that of new nodes
    Names,        \* browse names
    NoName,       \* the name of a node that was never there
    Paths,        \* paths the callers ask for
    KnownNames,   \* the address space at the start: names ...
    KnownRefs,    \* ... and forward references of each node
    MaxCalls      \* bound: calls that are begun

Callers == Servers \cup Clients

ASSUME AddressSpaceAssumption ==
    /\ Servers \cap Clients = {}
    /\ Nodes # {}
    /\ Standard \subseteq Nodes /\ Foreign \subseteq Nodes \ Standard
    /\ NoName \notin Names
    /\ Paths \subseteq Seq(Names) \ {<<>>}
    /\ KnownNames \in [Nodes -> Names \cup {NoName}]
    /\ KnownRefs \in [Nodes -> SUBSET {n \in Nodes : KnownNames[n] # NoName}]
    /\ \A n \in Nodes : KnownNames[n] = NoName => KnownRefs[n] = {}
    /\ MaxCalls \in Nat

VARIABLES
    there,        \* nodes of the address space
    nameOf,       \* browse name of each node, kept when the node is deleted
    refs,         \* the nodes that the forward references of each node lead to
    linked,       \* history: all references there ever were
    call,         \* what each caller is doing
    begun,        \* number of calls begun so far
    overlapped,   \* history: two calls were under way at a time
    misread       \* history: a service a client asked for failed

vars == <<there, nameOf, refs, linked, call, begun, overlapped, misread>>

Namespace(n) ==
    IF n \in Standard THEN 0 ELSE IF n \in Foreign THEN 2 ELSE 1

(* The calls under way, and what is kept of those that returned a node or   *)
(* deleted a tree.                                                         *)
Walking == {"create", "find", "add"}
Browsing == {"browse", "delete"}
Ended == {"idle", "found", "deleted"}

Active(a) == call[a].op \notin Ended

TypeOK ==
    /\ there \subseteq Nodes
    /\ nameOf \in [Nodes -> Names \cup {NoName}]
    /\ refs \in [Nodes -> SUBSET there]
    /\ \A n \in Nodes \ there : refs[n] = {}
    /\ linked \subseteq Nodes \X Nodes
    /\ \A a \in Callers :
          /\ call[a].op \in Walking \cup Browsing \cup Ended
          /\ call[a].start \in Nodes /\ call[a].node \in Nodes
          /\ call[a].path \in Paths \cup {<<>>}
          /\ call[a].level \in 0 .. Len(call[a].path)
          /\ call[a].agenda \cup call[a].seen \subseteq Nodes
    /\ begun \in 0 .. MaxCalls
    /\ overlapped \in BOOLEAN
    /\ misread \in BOOLEAN

Request(op, start, path) ==
    [op |-> op, start |-> start, path |-> path, level |-> 0, node |-> start,
     agenda |-> {}, seen |-> {}]

Idle == Request("idle", CHOOSE n \in Nodes : TRUE, <<>>)

Init ==
    /\ there = {n \in Nodes : KnownNames[n] # NoName}
    /\ nameOf = KnownNames
    /\ refs = KnownRefs
    /\ linked = {e \in Nodes \X Nodes : e[2] \in KnownRefs[e[1]]}
    /\ call = [a \in Callers |-> Idle]
    /\ begun = 0
    /\ overlapped = FALSE
    /\ misread = FALSE

-----------------------------------------------------------------------------
(* getChildrenList: one locked call; nothing for a node that is gone.      *)
Children(n) == refs[n]

(* BrowserBase::find: the first child with the name, one of these.         *)
WithName(children, name) == {c \in children : nameOf[c] = name}

Begin(a, request) ==
    /\ ~Active(a) /\ begun < MaxCalls
    /\ begun' = begun + 1
    /\ request.start \in there
    /\ call' = [call EXCEPT ![a] = request]
    /\ overlapped' = (overlapped \/ \E b \in Callers \ {a} : Active(b))
    /\ UNCHANGED <<there, nameOf, refs, linked, misread>>

(* createFolderPath, nodeIdFromPath and getChild; of an empty path they     *)
(* make nothing of interest.                                               *)
BeginWalk(a, start, path) ==
    \E op \in {"create", "find"} : Begin(a, Request(op, start, path))

(* One level deeper, to node n, in the call c.                             *)
Deeper(c, n) ==
    [c EXCEPT !.node = n, !.level = @ + 1,
              !.op = IF c.level + 1 = Len(c.path) THEN "found" ELSE @]

(* One round of the browse loop over those children of the current node     *)
(* whose names were read: down to the first match, or out of the loop.     *)
Walk(a, children) ==
    LET c == call[a]
        matches == WithName(children, c.path[c.level + 1])
    IN  /\ c.op \in {"create", "find"}
        /\ \/ \E n \in matches : call' = [call EXCEPT ![a] = Deeper(c, n)]
           \/ /\ matches = {}
              /\ call' = [call EXCEPT ![a] =
                            IF c.op = "create" THEN [c EXCEPT !.op = "add"] ELSE Idle]

(* Bug to detect: every round browses the node the walk started from.      *)
WalkAtStart(a) ==
    /\ Walk(a, Children(call[a].start))
    /\ UNCHANGED <<there, nameOf, refs, linked, begun, overlapped, misread>>

(* Each name is read in a call of its own, and a child without one is not    *)
(* listed (process).  The Server's own reading fails only for a child that  *)
(* was deleted since: then the round is one that browses after that.       *)
ServerWalk(a) ==
    /\ Walk(a, Children(call[a].node))
    /\ UNCHANGED <<there, nameOf, refs, linked, begun, overlapped, misread>>

(* The same by a client, whose browse may fail (the status is not looked at *)
(* and the node seems to have no children), and so may the reading of each  *)
(* child's name (that child is not among those listed).                    *)
ClientWalk(a) ==
    /\ \/ Walk(a, Children(call[a].node)) /\ UNCHANGED misread
       \/ \E named \in SUBSET Children(call[a].node) :
            Walk(a, named) /\ misread' = TRUE
    /\ UNCHANGED <<there, nameOf, refs, linked, begun, overlapped>>

(* An id that was never used; which one makes no difference.               *)
Unused == {n \in Nodes : nameOf[n] = NoName}

(* Bug to detect: nodeId is not moved to the new folder.                   *)
AddAllHere(a) ==
    LET c == call[a] IN
    /\ c.op = "add"
    /\ c.node \in there /\ Unused # {}
    /\ LET n == CHOOSE m \in Unused : TRUE IN
          /\ there' = there \cup {n}
          /\ nameOf' = [nameOf EXCEPT ![n] = c.path[c.level + 1]]
          /\ refs' = [refs EXCEPT ![c.node] = @ \cup {n}]
          /\ linked' = linked \cup {<<c.node, n>>}
          /\ call' = [call EXCEPT ![a] = Deeper(c, c.node)]
    /\ UNCHANGED <<begun, overlapped, misread>>

(* addFolder for the next name of the path: one locked call, which does not *)
(* look for a sibling of the same name.                                    *)
AddFolder(a) ==
    LET c == call[a] IN
    /\ c.op = "add"
    /\ c.node \in there /\ Unused # {}
    /\ LET n == CHOOSE m \in Unused : TRUE IN
          /\ there' = there \cup {n}
          /\ nameOf' = [nameOf EXCEPT ![n] = c.path[c.level + 1]]
          /\ refs' = [refs EXCEPT ![c.node] = @ \cup {n}]
          /\ linked' = linked \cup {<<c.node, n>>}
          /\ call' = [call EXCEPT ![a] = Deeper(c, n)]
    /\ UNCHANGED <<begun, overlapped, misread>>

(* The library refuses, for one because the parent is gone: the folders    *)
(* made so far stay.                                                       *)
AddRefused(a) ==
    /\ call[a].op = "add"
    /\ call' = [call EXCEPT ![a] = Idle]
    /\ UNCHANGED <<there, nameOf, refs, linked, begun, overlapped, misread>>

-----------------------------------------------------------------------------
(* browseTree into a NodeIdMap, for itself or for deleteTree: the node      *)
(* itself is put into the map before its children are asked for.           *)
BeginBrowse(a, start) ==
    Begin(a, [Request("browse", start, <<>>) EXCEPT
                !.seen = {start}, !.agenda = Children(start)])

(* Bug to detect: nodes that are in the map already are browsed again.     *)
BrowseAgain(a, child, children) ==
    LET c == call[a] IN
    /\ c.op = "browse" /\ child \in c.agenda
    /\ call' = [call EXCEPT ![a] =
          IF Namespace(child) # Namespace(c.start)
          THEN [c EXCEPT !.agenda = @ \ {child}]
          ELSE [c EXCEPT !.seen = @ \cup {child},
                         !.agenda = (@ \ {child}) \cup children]]

(* Bug to detect: the children of a child are not browsed.                 *)
BrowseFlat(a, child, children) ==
    LET c == call[a] IN
    /\ c.op = "browse" /\ child \in c.agenda
    /\ call' = [call EXCEPT ![a].agenda = @ \ {child},
                            ![a].seen = @ \cup {child}]

(* browseChildren, for one child on the agenda, which holds what the loops  *)
(* of the recursion have yet to look at: one of another namespace or in    *)
(* the map already is passed over, any other is put into the map and its   *)
(* children are browsed.                                                   *)
BrowseChild(a, child, children) ==
    LET c == call[a] IN
    /\ c.op = "browse" /\ child \in c.agenda
    /\ call' = [call EXCEPT ![a] =
          IF Namespace(child) # Namespace(c.start) \/ child \in c.seen
          THEN [c EXCEPT !.agenda = @ \ {child}]
          ELSE [c EXCEPT !.seen = @ \cup {child},
                         !.agenda = (@ \ {child}) \cup children]]

ServerBrowse(a) ==
    /\ \E child \in call[a].agenda : BrowseChild(a, child, Children(child))
    /\ UNCHANGED <<there, nameOf, refs, linked, begun, overlapped, misread>>

(* The browse of a client may fail here as well.                           *)
ClientBrowse(a) ==
    /\ \E child \in call[a].agenda :
          \/ BrowseChild(a, child, Children(child)) /\ UNCHANGED misread
          \/ BrowseChild(a, child, {}) /\ misread' = TRUE
    /\ UNCHANGED <<there, nameOf, refs, linked, begun, overlapped>>

(* The map is what browseTree was asked for, or what deleteTree works on.   *)
BrowseEnds(a) ==
    /\ call[a].op = "browse" /\ call[a].agenda = {}
    /\ \E next \in {Idle, [call[a] EXCEPT !.op = "delete"]} :
          call' = [call EXCEPT ![a] = next]
    /\ UNCHANGED <<there, nameOf, refs, linked, begun, overlapped, misread>>

(* Bug to detect: references to the node are left.                         *)
DeleteNodeOnly(n) ==
    /\ there' = there \ {n}
    /\ refs' = [refs EXCEPT ![n] = {}]

(* UA_Server_deleteNode with deleteReferences.                             *)
Delete(n) ==
    /\ there' = there \ {n}
    /\ refs' = [m \in Nodes |-> IF m = n THEN {} ELSE refs[m] \ {n}]

(* Bug to detect: nodes of namespace 0 are deleted like any other.         *)
DeleteAny(a) ==
    LET c == call[a] IN
    /\ c.op = "delete"
    /\ \E n \in c.seen :
          /\ Delete(n)
          /\ call' = [call EXCEPT ![a].seen = @ \ {n},
                        ![a].op = IF c.seen = {n} THEN "deleted" ELSE @]
    /\ UNCHANGED <<nameOf, linked, begun, overlapped, misread>>

(* deleteTree, one node of the map: nodes of namespace 0 are spared.  The   *)
(* map is in the order of the printed ids, which may be any.               *)
DeleteOne(a) ==
    LET c == call[a] IN
    /\ c.op = "delete"
    /\ \E n \in c.seen :
          /\ IF Namespace(n) > 0 THEN Delete(n) ELSE UNCHANGED <<there, refs>>
          /\ call' = [call EXCEPT ![a].seen = @ \ {n},
                        ![a].op = IF c.seen = {n} THEN "deleted" ELSE @]
    /\ UNCHANGED <<nameOf, linked, begun, overlapped, misread>>

(* The same by a client, whose service may fail: the next node is tried.    *)
ClientDelete(a) ==
    \/ DeleteOne(a)
    \/ /\ call[a].op = "delete"
       /\ \E n \in call[a].seen :
             /\ Namespace(n) > 0
             /\ call' = [call EXCEPT ![a].seen = @ \ {n},
                          ![a].op = IF call[a].seen = {n} THEN "deleted" ELSE @]
       /\ misread' = TRUE
       /\ UNCHANGED <<there, nameOf, refs, linked, begun, overlapped>>

ServerStep(a) ==
    \/ ServerWalk(a)
    \/ AddFolder(a)
    \/ AddRefused(a)
    \/ ServerBrowse(a)
    \/ BrowseEnds(a)
    \/ DeleteOne(a)

ClientStep(a) ==
    \/ ClientWalk(a)
    \/ AddFolder(a)
    \/ AddRefused(a)
    \/ ClientBrowse(a)
    \/ BrowseEnds(a)
    \/ ClientDelete(a)

Next ==
    \/ \E a \in Callers, n \in Nodes, p \in Paths : BeginWalk(a, n, p)
    \/ \E a \in Callers, n \in Nodes : BeginBrowse(a, n)
    \/ \E a \in Servers : ServerStep(a)
    \/ \E a \in Clients : ClientStep(a)

Spec == Init /\ [][Next]_vars

(* A thread inside a call goes on, and the library answers every call.     *)
Fairness ==
    /\ \A a \in Servers : WF_vars(ServerStep(a))
    /\ \A a \in Clients : WF_vars(ClientStep(a))

FairSpec == Spec /\ Fairness

-----------------------------------------------------------------------------
(* All nodes that the references of R lead to from n: the smallest set with *)
(* n in it that they do not lead out of.                                   *)
ClosedUnder(R, C) == \A e \in R : e[1] \in C => e[2] \in C

Below(R, n) ==
    {m \in Nodes : \A C \in SUBSET Nodes : n \in C /\ ClosedUnder(R, C) => m \in C}

WithinNamespace(R) == {e \in R : Namespace(e[1]) = Namespace(e[2])}

(* A call that found or made a path returns the node at its end: the names  *)
(* of the path lead there from the start, one reference after the other,    *)
(* whatever others changed meanwhile (createFolderPath, nodeIdFromPath).   *)
FoundIsOnPath ==
    \A a \in Callers : call[a].op = "found" =>
        LET path == call[a].path IN
        \E trail \in [0 .. Len(path) -> Nodes] :
            /\ trail[0] = call[a].start
            /\ trail[Len(path)] = call[a].node
            /\ \A i \in 1 .. Len(path) :
                  /\ nameOf[trail[i]] = path[i]
                  /\ <<trail[i - 1], trail[i]>> \in linked

(* Calls that do not overlap, with no failed browse, never make a folder a  *)
(* second time, also when one gave up half way and is repeated             *)
(* (createFolderPath).                                                     *)
NoTwins ==
    ~overlapped /\ ~misread =>
        \A n \in Nodes : \A c, d \in refs[n] : nameOf[c] = nameOf[d] => c = d

(* deleteTree deletes no node of another namespace than the start's, none   *)
(* of namespace 0, and none that the start did not lead to at some time.   *)
CutsOnlyBelow ==
    [][\A n \in there \ there' :
          \E a \in Callers :
             /\ call[a].op = "delete"
             /\ Namespace(n) = Namespace(call[a].start) /\ Namespace(n) # 0
             /\ n \in Below(linked, call[a].start)]_vars

(* When deleteTree returns, no two calls overlapped and none of a client    *)
(* failed, all is gone that references within its namespace ever led to    *)
(* from the start; what hangs there in another namespace stays             *)
(* (deleteTree, browseChildren).                                           *)
DeletedIsGone ==
    \A a \in Callers :
        /\ ~overlapped /\ ~misread
        /\ call[a].op = "deleted" /\ Namespace(call[a].start) # 0
        =>
            there \cap Below(WithinNamespace(linked), call[a].start) = {}

(* Every call returns, also on references that form a cycle                *)
(* (browseChildren, createFolderPath).                                     *)
CallsReturn == \A a \in Callers : Active(a) ~> ~Active(a)
=============================================================================
