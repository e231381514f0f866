---------------------------- MODULE PropertyTree ----------------------------
(***************************************************************************)
(* PropertyTree<K, T> and its Node: an addressable tree of named data.     *)
(*                                                                         *)
(* A tree is a function on the key sequences that lead from the root to an *)
(* entry of some m_children map; the root itself is always there.  An      *)
(* entry is a Node or, where operator[] met a new key, a null pointer, here *)
(* Ghost.  Locking is left out: one thread uses both trees.                *)
(***************************************************************************)
EXTENDS Integers, Sequences

CONSTANTS
    MaxName,   \* names are 1 .. MaxName; 0 is the empty string
    MaxDepth,  \* bound: length of a path
    Data,      \* values of a node other than T()
    Default,   \* T()
    Ghost      \* a null Node* in m_children

Names == 1 .. MaxName
Keys == 0 .. MaxName
Paths == UNION {[1 .. n -> Names] : n \in 1 .. MaxDepth}
Entries == UNION {[1 .. n -> Keys] : n \in 1 .. MaxDepth}

(* linked: is m_pParent set?                                               *)
Node == [name : Keys, data : Data \cup {Default}, linked : BOOLEAN]

ASSUME PropertyTreeAssumption ==
    /\ MaxName \in Nat \ {0} /\ MaxDepth \in Nat \ {0}
    /\ Default \notin Data
    /\ Ghost \notin Node

VARIABLES
    tree,     \* the tree the operations are applied to
    changed,  \* its m_changed
    dest,     \* the tree it is copied to
    wanted,   \* history: what set() and setChild() were asked to store, less
              \* what removeChild() and clear() were asked to take away
    removed,  \* history: the part of it that remove() was asked to take away
    loaded,   \* history: read() was used
    fault

vars == <<tree, changed, dest, wanted, removed, loaded, fault>>

Parent(p) == SubSeq(p, 1, Len(p) - 1)
Prefix(p, n) == SubSeq(p, 1, n)

IsTree(T) ==
    /\ DOMAIN T \subseteq Entries
    /\ \A p \in DOMAIN T :
          /\ T[p] \in Node \cup {Ghost}
          /\ Len(p) > 1 => Parent(p) \in DOMAIN T /\ T[Parent(p)] # Ghost

TypeOK ==
    /\ IsTree(tree) /\ IsTree(dest)
    /\ changed \in BOOLEAN
    /\ DOMAIN wanted \subseteq Paths
    /\ \A p \in DOMAIN wanted : wanted[p] \in Data \cup {Default}
    /\ removed \subseteq DOMAIN wanted
    /\ loaded \in BOOLEAN
    /\ fault \in {"none", "outOfRange", "nullNode"}

Empty == [p \in {} |-> Ghost]

Init ==
    /\ tree = Empty /\ dest = Empty
    /\ changed = FALSE
    /\ wanted = [p \in {} |-> Default] /\ removed = {}
    /\ loaded = FALSE
    /\ fault = "none"

-----------------------------------------------------------------------------
IsNode(T, p) == p = <<>> \/ (p \in DOMAIN T /\ T[p] # Ghost)

(* child(name) and hasChild(name) on the node p: m_children[name] inserts a *)
(* null pointer when there is no such key.                                 *)
Subscript(T, p) ==
    IF p \in DOMAIN T THEN T
    ELSE [q \in DOMAIN T \cup {p} |-> IF q = p THEN Ghost ELSE T[q]]

(* The part of path that exists.                                           *)
Existing(T, path) ==
    CHOOSE n \in 0 .. Len(path) :
        /\ \A i \in 1 .. n : IsNode(T, Prefix(path, i))
        /\ n < Len(path) => ~IsNode(T, Prefix(path, n + 1))

(* What Node::find(path) does to the map of the first missing child.       *)
Descend(T, path) ==
    IF Existing(T, path) = Len(path) THEN T
    ELSE Subscript(T, Prefix(path, Existing(T, path) + 1))

(* What it returns: from[n] is the call for the node Prefix(path, n), which *)
(* calls the child's find if the path goes on, and falls through to        *)
(* nullptr if it does not.                                                 *)
Find(T, path) ==
    LET from[n \in 0 .. Len(path) - 1] ==
            IF IsNode(T, Prefix(path, n + 1)) /\ n + 1 < Len(path)
            THEN from[n + 1]
            ELSE "nullptr"
    IN  from[0]

(* Bugs to detect: every new node gets the data; new nodes have no parent. *)
CreateAll(T, path, d) ==
    LET new == {Prefix(path, i) : i \in Existing(T, path) + 1 .. Len(path)}
    IN  [q \in DOMAIN T \cup new |->
            IF q \in new THEN [name |-> q[Len(q)], data |-> d, linked |-> TRUE]
            ELSE T[q]]

CreateUnlinked(T, path, d) ==
    LET new == {Prefix(path, i) : i \in Existing(T, path) + 1 .. Len(path)}
    IN  [q \in DOMAIN T \cup new |->
            IF q \in new
            THEN [name |-> q[Len(q)], linked |-> FALSE,
                  data |-> IF q = path THEN d ELSE Default]
            ELSE T[q]]

(* createChild and addChild below existing nodes: the rest of path is       *)
(* created with default data, the last node then gets d.                   *)
Create(T, path, d) ==
    LET new == {Prefix(path, i) : i \in Existing(T, path) + 1 .. Len(path)}
    IN  [q \in DOMAIN T \cup new |->
            IF q = path THEN [name |-> path[Len(path)], data |-> d, linked |-> TRUE]
            ELSE IF q \in new
            THEN [name |-> q[Len(q)], data |-> Default, linked |-> TRUE]
            ELSE T[q]]

SetData(T, p, d) == [T EXCEPT ![p].data = d]

(* Bug to detect: ~Node does not clear the children.                       *)
OnlyItself(T, p) == {p} \cap DOMAIN T

(* The node and its descendants, as ~Node leaves them.                     *)
Below(T, p) == {q \in DOMAIN T : Len(q) >= Len(p) /\ Prefix(q, Len(p)) = p}
Without(T, S) == [q \in DOMAIN T \ S |-> T[q]]

(* What is wanted once d is to be stored at p, and once p and all below it  *)
(* are to be gone.                                                         *)
Want(p, d) ==
    /\ wanted' = [q \in DOMAIN wanted \cup {p} |-> IF q = p THEN d ELSE wanted[q]]
    /\ removed' = removed \ {p}
Forget(p) ==
    /\ wanted' = Without(wanted, Below(wanted, p))
    /\ removed' = removed \ Below(wanted, p)

(* PropertyTree::set: find, then Node::add, whose loop over the existing    *)
(* children has no end when the whole path exists.                         *)
Set(path, d) ==
    /\ fault = "none"
    /\ IF Find(tree, path) # "nullptr"
       THEN tree' = SetData(tree, path, d) /\ changed' = TRUE /\ UNCHANGED fault
       ELSE IF Existing(tree, path) = Len(path)
       THEN fault' = "outOfRange" /\ UNCHANGED <<tree, changed>>
       ELSE tree' = Create(tree, path, d) /\ changed' = TRUE /\ UNCHANGED fault
    /\ Want(path, d)
    /\ UNCHANGED <<dest, loaded>>

(* get, node, exists and, as node() finds nothing, listChildren.           *)
Look(path) ==
    /\ fault = "none"
    /\ tree' = Descend(tree, path)
    /\ UNCHANGED <<changed, dest, wanted, removed, loaded, fault>>

(* PropertyTree::remove goes by what find returns; what it was asked for    *)
(* does not.                                                               *)
Remove(path) ==
    /\ fault = "none"
    /\ tree' = IF Find(tree, path) = "nullptr" THEN Descend(tree, path)
               ELSE Without(tree, Below(tree, path))
    /\ removed' = removed \cup Below(wanted, path)
    /\ changed' = TRUE
    /\ UNCHANGED <<dest, wanted, loaded, fault>>

(* Bug to detect: m_changed is not set.                                    *)
SetChildSilently(p, k, d) ==
    /\ fault = "none" /\ IsNode(tree, p)
    /\ LET c == Append(p, k) IN
       /\ tree' = IF IsNode(tree, c) THEN SetData(tree, c, d)
                  ELSE Create(tree, c, d)
       /\ Want(c, d)
    /\ UNCHANGED <<changed, dest, loaded, fault>>

(* setChild and getChild of the node p.                                    *)
SetChild(p, k, d) ==
    /\ fault = "none" /\ IsNode(tree, p)
    /\ LET c == Append(p, k) IN
       /\ tree' = IF IsNode(tree, c) THEN SetData(tree, c, d)
                  ELSE Create(tree, c, d)
       /\ Want(c, d)
    /\ changed' = TRUE
    /\ UNCHANGED <<dest, loaded, fault>>

GetChild(p, k) ==
    /\ fault = "none" /\ IsNode(tree, p)
    /\ tree' = Subscript(tree, Append(p, k))
    /\ UNCHANGED <<changed, dest, wanted, removed, loaded, fault>>

(* Node::removeChild of the node p, through root(): m_changed is left to    *)
(* the caller.                                                             *)
RemoveChild(p, k) ==
    /\ fault = "none" /\ IsNode(tree, p)
    /\ LET c == Append(p, k) IN
       /\ tree' = IF IsNode(tree, c) THEN Without(tree, Below(tree, c))
                  ELSE Subscript(tree, c)
       /\ Forget(c)
    /\ UNCHANGED <<changed, dest, loaded, fault>>

Clear ==
    /\ fault = "none"
    /\ tree' = Empty
    /\ wanted' = Without(wanted, DOMAIN wanted) /\ removed' = {}
    /\ changed' = TRUE
    /\ UNCHANGED <<dest, loaded, fault>>

(* iterateNodes and write visit every entry.                               *)
Visit ==
    /\ fault = "none"
    /\ fault' = IF \E p \in DOMAIN tree : tree[p] = Ghost THEN "nullNode" ELSE "none"
    /\ UNCHANGED <<tree, changed, dest, wanted, removed, loaded>>

(* read() of what write() produced of this tree: the nodes come back from   *)
(* new Node(), without their m_pParent.                                    *)
Read ==
    /\ fault = "none"
    /\ loaded' = TRUE
    /\ \A p \in DOMAIN tree : tree[p] # Ghost
    /\ tree' = [p \in DOMAIN tree |-> [tree[p] EXCEPT !.linked = FALSE]]
    /\ changed' = TRUE
    /\ UNCHANGED <<dest, wanted, removed, fault>>

(* Each new node is added to its new parent before it has its name, so      *)
(* under the empty string, and replaces the sibling added before it: what  *)
(* remains is the copy of the last child, and of the last child of that.   *)
Rightmost(T) ==
    {p \in DOMAIN T : \A i \in 1 .. Len(p) : \A k \in Keys :
        Append(Prefix(p, i - 1), k) \in DOMAIN T => k <= p[i]}
CopyOf(T) ==
    [q \in {[i \in 1 .. Len(p) |-> 0] : p \in Rightmost(T)} |->
        LET p == CHOOSE r \in Rightmost(T) : Len(r) = Len(q)
        IN  [T[p] EXCEPT !.linked = FALSE]]

CopyTo ==
    /\ fault = "none"
    /\ IF \E p \in DOMAIN tree : tree[p] = Ghost
       THEN fault' = "nullNode" /\ UNCHANGED dest
       ELSE dest' = CopyOf(tree) /\ UNCHANGED fault
    /\ UNCHANGED <<tree, changed, wanted, removed, loaded>>

ClearChanged ==
    /\ fault = "none" /\ changed
    /\ changed' = FALSE
    /\ UNCHANGED <<tree, dest, wanted, removed, loaded, fault>>

Short == {p \in Paths \cup {<<>>} : Len(p) < MaxDepth}

Next ==
    \/ \E p \in Paths, d \in Data : Set(p, d)
    \/ \E p \in Paths : Look(p) \/ Remove(p)
    \/ \E p \in Short, k \in Names, d \in Data : SetChild(p, k, d)
    \/ \E p \in Short, k \in Names : GetChild(p, k) \/ RemoveChild(p, k)
    \/ Clear \/ Visit \/ Read \/ CopyTo \/ ClearChanged

Spec == Init /\ [][Next]_vars

-----------------------------------------------------------------------------
Nodes(T) == {p \in DOMAIN T : T[p] # Ghost}
Contents(T) == [p \in Nodes(T) |-> <<T[p].name, T[p].data>>]

(* Nothing of what was stored is lost, and nothing else gets a value: what  *)
(* set() and setChild() were asked to store, and no one to remove, is there; *)
(* the nodes that lead to it have default data; and a node that remove()    *)
(* was asked to take away is gone, has become one of these, or still has    *)
(* the value it had (set, setChild, remove, removeChild, clear).            *)
StoredIsThere ==
    fault = "none" =>
        /\ DOMAIN wanted \ removed \subseteq Nodes(tree)
        /\ \A p \in Nodes(tree) :
              tree[p].data \in IF p \in removed THEN {wanted[p], Default}
                              ELSE IF p \in DOMAIN wanted THEN {wanted[p]}
                              ELSE {Default}

(* "Remove a node identified by its path from the tree": nothing that       *)
(* remove() was asked to take away still has its value                     *)
(* (PropertyTree::remove).                                                 *)
RemovedIsGone ==
    fault = "none" =>
        \A p \in removed \cap Nodes(tree) : tree[p].data = Default

(* An operation of the tree that changes its nodes or their data sets       *)
(* m_changed; only a change made behind the tree's back, through a Node of *)
(* it, does not (setChanged, changed).                                     *)
ChangesAreFlagged ==
    [][Contents(tree)' # Contents(tree) /\ ~changed' =>
          \E p \in Short, k \in Names : RemoveChild(p, k)]_vars

(* absolutePath collects the names on the way up m_pParent; the name of the *)
(* root in front of them is left out here.                                 *)
AbsolutePath(T, p) ==
    LET from == CHOOSE i \in 1 .. Len(p) :
                    /\ i = 1 \/ ~T[Prefix(p, i)].linked
                    /\ \A j \in i + 1 .. Len(p) : T[Prefix(p, j)].linked
    IN  [i \in 1 .. Len(p) - from + 1 |-> T[Prefix(p, from + i - 1)].name]

(* The absolute path of a node ends as the path to that node does; in a     *)
(* tree that was built and not read back it is that path (absolutePath,     *)
(* createChild, setChild, read).                                           *)
AbsolutePathLeadsBack ==
    \A p \in Nodes(tree) :
        /\ ~loaded => AbsolutePath(tree, p) = p
        /\ \E from \in 1 .. Len(p) : AbsolutePath(tree, p) = SubSeq(p, from, Len(p))
=============================================================================
