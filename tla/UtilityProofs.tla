---------------------------- MODULE UtilityProofs ----------------------------
(* What holds of the two utilities beside the wrapper, for any parameters:  *)
(* of PropertyTree for any names, depth and data, and of the cache and its  *)
(* thread for any cache and any number of starts.                          *)
EXTENDS PropertyTree, CacheThread, SequenceTheorems, WellFoundedInduction, TLAPS

-----------------------------------------------------------------------------
(* A nonempty set of numbers has a least element.                          *)
LEMMA LeastNumber ==
    ASSUME NEW S, S \subseteq Nat, S # {}
    PROVE  \E n \in S : \A m \in S : n <= m
<1>1. IsWellFoundedOn(OpToRel(<, Nat), Nat)
  BY NatLessThanWellFounded
<1>2. PICK n \in S : \A m \in S : ~(<<m, n>> \in OpToRel(<, Nat))
  BY <1>1, WFMin
<1>3. \A m \in S : ~(m < n)
  BY <1>2 DEF OpToRel
<1>4. n \in Nat /\ \A m \in S : m \in Nat
  OBVIOUS
<1>5. \A m \in S : n <= m
  BY <1>3, <1>4
<1> QED
  BY <1>5

(* Paths to entries are sequences; prefixes of them are such paths again.   *)
LEMMA EntryIsSequence ==
    ASSUME NEW p \in Entries
    PROVE  /\ p \in Seq(Keys) /\ Len(p) \in 1 .. MaxDepth
           /\ \A i \in 1 .. Len(p) : p[i] \in Keys
<1> USE PropertyTreeAssumption DEF PropertyTreeAssumption
<1>1. PICK n \in 1 .. MaxDepth : p \in [1 .. n -> Keys]
  BY DEF Entries
<1>2. p \in Seq(Keys)
  BY <1>1, SeqDef
<1>3. Len(p) \in Nat /\ DOMAIN p = 1 .. Len(p) /\ p \in [1 .. Len(p) -> Keys]
  BY <1>2, LenProperties
<1>4. Len(p) = n
  BY <1>1, <1>3
<1> QED
  BY <1>2, <1>3, <1>4

LEMMA SequenceIsEntry ==
    ASSUME NEW p \in Seq(Keys), Len(p) \in 1 .. MaxDepth
    PROVE  p \in Entries
  BY LenProperties DEF Entries

LEMMA PrefixIsEntry ==
    ASSUME NEW p \in Entries, NEW i \in 1 .. Len(p)
    PROVE  /\ Prefix(p, i) \in Entries /\ Len(Prefix(p, i)) = i
           /\ \A j \in 1 .. i : Prefix(p, i)[j] = p[j]
<1> USE PropertyTreeAssumption DEF PropertyTreeAssumption
<1>1. /\ p \in Seq(Keys) /\ Len(p) \in 1 .. MaxDepth
      /\ \A j \in 1 .. i : p[j] \in Keys
  BY EntryIsSequence
<1>2. /\ SubSeq(p, 1, i) \in Seq(Keys)
      /\ Len(SubSeq(p, 1, i)) = IF 1 <= i THEN i - 1 + 1 ELSE 0
      /\ \A j \in 1 .. i - 1 + 1 : SubSeq(p, 1, i)[j] = p[1 + j - 1]
  BY <1>1, SubSeqProperties
<1>3. Len(SubSeq(p, 1, i)) = i /\ i - 1 + 1 = i
  BY <1>1, <1>2
<1>4. SubSeq(p, 1, i) \in Entries
  <2>1. Len(SubSeq(p, 1, i)) \in 1 .. MaxDepth
    BY <1>1, <1>3
  <2> QED
    BY <2>1, <1>2, SequenceIsEntry
<1>5. ASSUME NEW j \in 1 .. i PROVE SubSeq(p, 1, i)[j] = p[j]
  <2>1. SubSeq(p, 1, i)[j] = p[1 + j - 1]
    BY <1>2, <1>3
  <2>2. 1 + j - 1 = j
    OBVIOUS
  <2> QED
    BY <2>1, <2>2
<1> QED
  BY <1>3, <1>4, <1>5 DEF Prefix

(* Two paths of the same length with the same keys are the same.           *)
LEMMA SameEntry ==
    ASSUME NEW p \in Entries, NEW q \in Entries,
           Len(p) = Len(q), \A i \in 1 .. Len(p) : p[i] = q[i]
    PROVE  p = q
  BY EntryIsSequence, SeqEqual

LEMMA WholePrefix ==
    ASSUME NEW p \in Entries
    PROVE  Prefix(p, Len(p)) = p
  BY EntryIsSequence, SubSeqFull DEF Prefix

LEMMA PrefixOfPrefix ==
    ASSUME NEW p \in Entries, NEW i \in 1 .. Len(p), NEW j \in 1 .. i
    PROVE  Prefix(Prefix(p, i), j) = Prefix(p, j)
<1>1. Len(p) \in Nat /\ j \in 1 .. Len(p)
  BY EntryIsSequence
<1>2. /\ Prefix(p, i) \in Entries /\ Len(Prefix(p, i)) = i
      /\ \A k \in 1 .. i : Prefix(p, i)[k] = p[k]
  BY PrefixIsEntry
<1>3. /\ Prefix(p, j) \in Entries /\ Len(Prefix(p, j)) = j
      /\ \A k \in 1 .. j : Prefix(p, j)[k] = p[k]
  BY <1>1, PrefixIsEntry
<1>4. /\ Prefix(Prefix(p, i), j) \in Entries /\ Len(Prefix(Prefix(p, i), j)) = j
      /\ \A k \in 1 .. j : Prefix(Prefix(p, i), j)[k] = Prefix(p, i)[k]
  BY <1>2, PrefixIsEntry
<1> QED
  BY <1>2, <1>3, <1>4, SameEntry

LEMMA PathIsEntry == Paths \subseteq Entries
<1>1. Names \subseteq Keys
  BY DEF Names, Keys
<1> QED
  BY <1>1 DEF Paths, Entries

(* A name below a node that is not too deep.                               *)
LEMMA ShortAppend ==
    ASSUME NEW p \in Short, NEW k \in Names
    PROVE  /\ Append(p, k) \in Paths /\ Len(Append(p, k)) = Len(p) + 1
           /\ \A i \in 1 .. Len(p) : Prefix(Append(p, k), i) = Prefix(p, i)
<1> USE PropertyTreeAssumption DEF PropertyTreeAssumption
<1> DEFINE c == Append(p, k)
<1>1. p \in Seq(Names) /\ Len(p) \in Nat /\ Len(p) < MaxDepth
  <2>1. CASE p = <<>>
    BY <2>1, EmptySeq DEF Short
  <2>2. CASE p \in Paths
    BY <2>2, SeqDef, LenProperties DEF Short, Paths
  <2> QED
    BY <2>1, <2>2 DEF Short
<1>2. /\ c \in Seq(Names) /\ Len(c) = Len(p) + 1
      /\ \A i \in 1 .. Len(p) : c[i] = p[i]
  BY <1>1, AppendProperties
<1>3. c \in Paths
  <2>1. Len(c) \in 1 .. MaxDepth
    BY <1>1, <1>2
  <2>2. c \in [1 .. Len(c) -> Names]
    BY <1>2, LenProperties
  <2> QED
    BY <2>1, <2>2 DEF Paths
<1>4. ASSUME NEW i \in 1 .. Len(p) PROVE Prefix(c, i) = Prefix(p, i)
  <2>1. p \in Paths
    BY <1>4, EmptySeq DEF Short
  <2>2. p \in Entries /\ c \in Entries /\ i \in 1 .. Len(c)
    BY <2>1, <1>1, <1>2, <1>3, PathIsEntry
  <2>3. /\ Prefix(p, i) \in Entries /\ Len(Prefix(p, i)) = i
        /\ \A j \in 1 .. i : Prefix(p, i)[j] = p[j]
    BY <2>2, PrefixIsEntry
  <2>4. /\ Prefix(c, i) \in Entries /\ Len(Prefix(c, i)) = i
        /\ \A j \in 1 .. i : Prefix(c, i)[j] = c[j]
    BY <2>2, PrefixIsEntry
  <2> QED
    BY <1>1, <1>2, <2>3, <2>4, SameEntry
<1> QED
  BY <1>2, <1>3, <1>4

-----------------------------------------------------------------------------
(* Existing(T, path) ends where the first child is missing.                *)
LEMMA ExistingIsFirstGap ==
    ASSUME NEW T, NEW p \in Entries
    PROVE  /\ Existing(T, p) \in 0 .. Len(p)
           /\ \A i \in 1 .. Existing(T, p) : IsNode(T, Prefix(p, i))
           /\ Existing(T, p) < Len(p) => ~IsNode(T, Prefix(p, Existing(T, p) + 1))
<1>1. Len(p) \in Nat
  BY EntryIsSequence
<1> DEFINE Stops(n) == n < Len(p) => ~IsNode(T, Prefix(p, n + 1))
           S == {n \in 0 .. Len(p) : Stops(n)}
<1>2. S \subseteq Nat /\ S # {}
  <2>1. Len(p) \in S
    BY <1>1
  <2> QED
    BY <2>1
<1> HIDE DEF S
<1>3. PICK n \in S : \A m \in S : n <= m
  BY <1>2, LeastNumber
<1> USE DEF S
<1>4. \A i \in 1 .. n : IsNode(T, Prefix(p, i))
  <2> SUFFICES ASSUME NEW i \in 1 .. n PROVE IsNode(T, Prefix(p, i))
    OBVIOUS
  <2>1. i - 1 \in 0 .. Len(p) /\ i - 1 < n /\ i - 1 < Len(p) /\ (i - 1) + 1 = i
    BY <1>1, <1>3
  <2>2. i - 1 \notin S
    BY <2>1, <1>1, <1>3
  <2>3. ~Stops(i - 1)
    BY <2>1, <2>2
  <2> QED
    BY <2>1, <2>3
<1>5. /\ n \in 0 .. Len(p)
      /\ \A i \in 1 .. n : IsNode(T, Prefix(p, i))
      /\ n < Len(p) => ~IsNode(T, Prefix(p, n + 1))
  BY <1>3, <1>4
<1> HIDE DEF S, Stops
<1> QED
  BY <1>5 DEF Existing

(* Node::find returns nullptr, whatever the tree and the path.  from is a   *)
(* recursive function whose value is the same in every call; that it is     *)
(* nullptr everywhere is shown on the last call that would return something *)
(* else.                                                                   *)
THEOREM FindReturnsNull ==
    ASSUME NEW T, NEW p \in Entries
    PROVE  Find(T, p) = "nullptr"
<1>1. Len(p) \in Nat /\ 0 \in 0 .. Len(p) - 1
  BY EntryIsSequence
<1> DEFINE L == Len(p)
           Goes(n) == IsNode(T, Prefix(p, n + 1)) /\ n + 1 < L
           Solves(f) == f = [n \in 0 .. L - 1 |-> IF Goes(n) THEN f[n + 1] ELSE "nullptr"]
           from == CHOOSE f : Solves(f)
           none == [n \in 0 .. L - 1 |-> "nullptr"]
<1>2. Find(T, p) = from[0]
  BY DEF Find
<1> HIDE DEF L
<1>3. L \in Nat /\ 0 \in 0 .. L - 1
  BY <1>1 DEF L
<1>4. Solves(none)
  <2>1. \A n \in 0 .. L - 1 : (IF Goes(n) THEN none[n + 1] ELSE "nullptr") = "nullptr"
    BY <1>3
  <2> HIDE DEF Goes
  <2> QED
    BY <2>1
<1> HIDE DEF none
<1>5. Solves(from)
  BY <1>4
<1> HIDE DEF from
<1>6. ASSUME NEW n \in 0 .. L - 1
      PROVE  from[n] = IF Goes(n) THEN from[n + 1] ELSE "nullptr"
  <2> HIDE DEF Goes
  <2> QED
    BY <1>5
<1> DEFINE Bad == {m \in 0 .. L - 1 : from[L - 1 - m] # "nullptr"}
<1>7. Bad = {}
  <2> SUFFICES ASSUME Bad # {} PROVE FALSE
    OBVIOUS
  <2>1. Bad \subseteq Nat
    OBVIOUS
  <2> HIDE DEF Bad
  <2>2. PICK m \in Bad : \A k \in Bad : m <= k
    BY <2>1, LeastNumber
  <2> USE DEF Bad
  <2>3. /\ L - 1 - m \in 0 .. L - 1 /\ from[L - 1 - m] # "nullptr"
        /\ (L - 1 - m) + 1 = L - 1 - (m - 1)
    BY <1>3, <2>2
  <2>4. Goes(L - 1 - m) /\ from[(L - 1 - m) + 1] # "nullptr"
    <3> HIDE DEF Goes
    <3> QED
      BY <1>6, <2>3
  <2>5. m - 1 \in 0 .. L - 1
    BY <1>3, <2>2, <2>4
  <2>6. m - 1 \in Bad
    <3> HIDE DEF Goes
    <3> QED
      BY <2>3, <2>4, <2>5
  <2> QED
    BY <1>3, <2>2, <2>5, <2>6
<1>8. L - 1 \in 0 .. L - 1 /\ L - 1 - (L - 1) = 0
  BY <1>3
<1> QED
  BY <1>2, <1>7, <1>8

-----------------------------------------------------------------------------
(* The shape of a tree: every prefix of the path to an entry leads to a     *)
(* node.  The clause of IsTree about parents is one instance of it.        *)
Rooted(T) ==
    /\ DOMAIN T \subseteq Entries
    /\ \A p \in DOMAIN T :
          /\ T[p] \in Node \cup {Ghost}
          /\ \A i \in 1 .. Len(p) - 1 : Prefix(p, i) \in Nodes(T)

(* T and U differ at most in their null pointers.                          *)
SameNodes(T, U) ==
    /\ Nodes(U) = Nodes(T)
    /\ \A q \in Nodes(T) : U[q] = T[q]

LEMMA RootedIsTree ==
    ASSUME NEW T, Rooted(T)
    PROVE  IsTree(T)
<1> SUFFICES ASSUME NEW p \in DOMAIN T, Len(p) > 1
             PROVE  Parent(p) \in DOMAIN T /\ T[Parent(p)] # Ghost
  BY DEF IsTree, Rooted
<1>1. p \in Entries /\ Len(p) - 1 \in 1 .. Len(p) - 1
  BY EntryIsSequence DEF Rooted
<1>2. Prefix(p, Len(p) - 1) \in Nodes(T)
  BY <1>1 DEF Rooted
<1> QED
  BY <1>2 DEF Parent, Prefix, Nodes

LEMMA NodesAreEntries ==
    ASSUME NEW T, Rooted(T), NEW p \in Nodes(T)
    PROVE  /\ p \in Entries /\ p \in DOMAIN T /\ T[p] \in Node
           /\ Len(p) \in 1 .. MaxDepth
           /\ \A i \in 1 .. Len(p) : Prefix(p, i) \in Nodes(T)
<1>1. p \in Entries /\ p \in DOMAIN T /\ T[p] \in Node
  BY DEF Rooted, Nodes
<1>2. Len(p) \in 1 .. MaxDepth /\ Len(p) \in Nat
  BY <1>1, EntryIsSequence
<1>3. ASSUME NEW i \in 1 .. Len(p) PROVE Prefix(p, i) \in Nodes(T)
  <2>1. CASE i = Len(p)
    BY <2>1, <1>1, WholePrefix
  <2>2. CASE i # Len(p)
    <3>1. i \in 1 .. Len(p) - 1
      BY <2>2, <1>2
    <3> QED
      BY <3>1, <1>1 DEF Rooted
  <2> QED
    BY <2>1, <2>2
<1> QED
  BY <1>1, <1>2, <1>3

(* What IsNode says of a path that is not the root's.                      *)
LEMMA EntryIsNode ==
    ASSUME NEW T, NEW p \in Entries
    PROVE  IsNode(T, p) <=> p \in Nodes(T)
<1>1. p # <<>>
  BY EntryIsSequence, EmptySeq
<1> QED
  BY <1>1 DEF IsNode, Nodes

(* A null pointer may appear below a node.                                 *)
LEMMA SubscriptKeepsNodes ==
    ASSUME NEW T, Rooted(T), NEW p \in Entries,
           \A i \in 1 .. Len(p) - 1 : Prefix(p, i) \in Nodes(T)
    PROVE  Rooted(Subscript(T, p)) /\ SameNodes(T, Subscript(T, p))
<1>1. CASE p \in DOMAIN T
  BY <1>1 DEF Subscript, SameNodes
<1>2. CASE p \notin DOMAIN T
  <2> DEFINE U == Subscript(T, p)
  <2>1. /\ DOMAIN U = DOMAIN T \cup {p}
        /\ U[p] = Ghost /\ \A q \in DOMAIN T : U[q] = T[q]
    BY <1>2 DEF Subscript
  <2> HIDE DEF U
  <2>2. Nodes(U) = Nodes(T)
    BY <1>2, <2>1 DEF Nodes
  <2>3. Rooted(U)
    BY <2>1, <2>2 DEF Rooted
  <2>4. SameNodes(T, U)
    BY <2>1, <2>2 DEF SameNodes, Nodes
  <2> QED
    BY <2>3, <2>4 DEF U
<1> QED
  BY <1>1, <1>2

LEMMA DescendKeepsNodes ==
    ASSUME NEW T, Rooted(T), NEW p \in Entries
    PROVE  Rooted(Descend(T, p)) /\ SameNodes(T, Descend(T, p))
<1> DEFINE n == Existing(T, p)
           c == Prefix(p, n + 1)
<1>1. CASE n = Len(p)
  BY <1>1 DEF Descend, SameNodes
<1>2. CASE n # Len(p)
  <2>1. /\ n \in 0 .. Len(p) /\ Len(p) \in Nat
        /\ \A i \in 1 .. n : IsNode(T, Prefix(p, i))
    BY ExistingIsFirstGap, EntryIsSequence
  <2> HIDE DEF n
  <2>2. n + 1 \in 1 .. Len(p)
    BY <1>2, <2>1
  <2>3. c \in Entries /\ Len(c) = n + 1
    BY <2>2, PrefixIsEntry
  <2>4. ASSUME NEW i \in 1 .. Len(c) - 1 PROVE Prefix(c, i) \in Nodes(T)
    <3>1. i \in 1 .. n /\ i \in 1 .. n + 1 /\ i \in 1 .. Len(p)
      BY <2>1, <2>3
    <3>2. Prefix(c, i) = Prefix(p, i)
      BY <2>2, <3>1, PrefixOfPrefix
    <3>3. Prefix(p, i) \in Entries
      BY <3>1, PrefixIsEntry
    <3> QED
      BY <2>1, <3>1, <3>2, <3>3, EntryIsNode
  <2>5. Descend(T, p) = Subscript(T, c)
    BY <1>2 DEF Descend, n
  <2> HIDE DEF c
  <2> QED
    BY <2>3, <2>4, <2>5, SubscriptKeepsNodes
<1> QED
  BY <1>1, <1>2

(* What createChild and addChild make of the rest of a path.               *)
Fresh(T, path) == {Prefix(path, i) : i \in Existing(T, path) + 1 .. Len(path)}

LEMMA FreshIsNew ==
    ASSUME NEW T, Rooted(T), NEW p \in Entries, Existing(T, p) # Len(p)
    PROVE  /\ Fresh(T, p) \subseteq Entries /\ p \in Fresh(T, p)
           /\ Fresh(T, p) \cap Nodes(T) = {}
           /\ \A q \in Fresh(T, p) : \A i \in 1 .. Len(q) - 1 :
                 Prefix(q, i) \in Nodes(T) \cup Fresh(T, p)
<1> DEFINE n == Existing(T, p)
<1>1. /\ n \in 0 .. Len(p) /\ Len(p) \in Nat /\ n < Len(p)
      /\ \A i \in 1 .. n : IsNode(T, Prefix(p, i))
      /\ ~IsNode(T, Prefix(p, n + 1))
  BY ExistingIsFirstGap, EntryIsSequence
<1>2. Fresh(T, p) = {Prefix(p, i) : i \in n + 1 .. Len(p)}
  BY DEF Fresh
<1> HIDE DEF n
<1>3. ASSUME NEW i \in n + 1 .. Len(p)
      PROVE  i \in 1 .. Len(p) /\ Prefix(p, i) \in Entries /\ Len(Prefix(p, i)) = i
  <2>1. i \in 1 .. Len(p)
    BY <1>1
  <2> QED
    BY <2>1, PrefixIsEntry
<1>4. Fresh(T, p) \subseteq Entries
  BY <1>2, <1>3
<1>5. p \in Fresh(T, p)
  BY <1>1, <1>2, WholePrefix
<1>6. Fresh(T, p) \cap Nodes(T) = {}
  <2> SUFFICES ASSUME NEW i \in n + 1 .. Len(p), Prefix(p, i) \in Nodes(T)
               PROVE  FALSE
    BY <1>2
  <2>1. n + 1 \in 1 .. i /\ n + 1 \in 1 .. Len(p)
    BY <1>1
  <2>2. Prefix(Prefix(p, i), n + 1) \in Nodes(T)
    BY <1>3, <2>1, NodesAreEntries
  <2>3. Prefix(Prefix(p, i), n + 1) = Prefix(p, n + 1)
    BY <1>3, <2>1, PrefixOfPrefix
  <2>4. Prefix(p, n + 1) \in Entries
    BY <2>1, PrefixIsEntry
  <2> QED
    BY <1>1, <2>2, <2>3, <2>4, EntryIsNode
<1>7. ASSUME NEW j \in n + 1 .. Len(p), NEW i \in 1 .. Len(Prefix(p, j)) - 1
      PROVE  Prefix(Prefix(p, j), i) \in Nodes(T) \cup Fresh(T, p)
  <2>1. i \in 1 .. j /\ i \in 1 .. Len(p) /\ (i \in 1 .. n \/ i \in n + 1 .. Len(p))
    BY <1>1, <1>3
  <2>2. Prefix(Prefix(p, j), i) = Prefix(p, i) /\ Prefix(p, i) \in Entries
    BY <1>3, <2>1, PrefixOfPrefix, PrefixIsEntry
  <2>3. CASE i \in 1 .. n
    BY <1>1, <2>2, <2>3, EntryIsNode
  <2>4. CASE i \in n + 1 .. Len(p)
    BY <1>2, <2>2, <2>4
  <2> QED
    BY <2>1, <2>3, <2>4
<1> QED
  BY <1>2, <1>4, <1>5, <1>6, <1>7

LEMMA CreateExtends ==
    ASSUME NEW T, Rooted(T), NEW p \in Entries, NEW d \in Data,
           Existing(T, p) # Len(p)
    PROVE  /\ Rooted(Create(T, p, d))
           /\ Nodes(Create(T, p, d)) = Nodes(T) \cup Fresh(T, p)
           /\ \A q \in Nodes(T) : Create(T, p, d)[q] = T[q]
           /\ \A q \in Fresh(T, p) :
                 /\ Create(T, p, d)[q].name = q[Len(q)]
                 /\ Create(T, p, d)[q].data = IF q = p THEN d ELSE Default
                 /\ Create(T, p, d)[q].linked
<1> DEFINE U == Create(T, p, d)
           F == Fresh(T, p)
           Made(q) == [name |-> q[Len(q)], linked |-> TRUE,
                       data |-> IF q = p THEN d ELSE Default]
<1>1. /\ F \subseteq Entries /\ p \in F /\ F \cap Nodes(T) = {}
      /\ \A q \in F : \A i \in 1 .. Len(q) - 1 : Prefix(q, i) \in Nodes(T) \cup F
  BY FreshIsNew
<1>2. /\ DOMAIN U = DOMAIN T \cup F
      /\ \A q \in F : U[q] = Made(q)
      /\ \A q \in DOMAIN T \ F : U[q] = T[q]
  BY <1>1 DEF Create, Fresh
<1>3. ASSUME NEW q \in F PROVE Made(q) \in Node /\ Made(q) # Ghost
  <2>1. q[Len(q)] \in Keys
    BY <1>1, EntryIsSequence
  <2>2. Made(q) \in Node
    BY <2>1 DEF Node
  <2> QED
    BY <2>2, PropertyTreeAssumption DEF PropertyTreeAssumption
<1> HIDE DEF U, F
<1>4. \A q \in F : /\ U[q].name = q[Len(q)] /\ U[q].linked
                   /\ U[q].data = IF q = p THEN d ELSE Default
  BY <1>2
<1> HIDE DEF Made
<1>5. Nodes(U) = Nodes(T) \cup F
  BY <1>1, <1>2, <1>3 DEF Nodes
<1>6. \A q \in Nodes(T) : U[q] = T[q]
  BY <1>1, <1>2 DEF Nodes
<1>7. Rooted(U)
  <2>1. DOMAIN U \subseteq Entries
    BY <1>1, <1>2 DEF Rooted
  <2>2. ASSUME NEW q \in DOMAIN U
        PROVE  /\ U[q] \in Node \cup {Ghost}
               /\ \A i \in 1 .. Len(q) - 1 : Prefix(q, i) \in Nodes(U)
    <3>1. CASE q \in F
      BY <3>1, <1>1, <1>2, <1>3, <1>5
    <3>2. CASE q \in DOMAIN T \ F
      BY <3>2, <1>2, <1>5 DEF Rooted
    <3> QED
      BY <1>2, <3>1, <3>2
  <2> QED
    BY <2>1, <2>2 DEF Rooted
<1> QED
  BY <1>4, <1>5, <1>6, <1>7 DEF U, F

LEMMA SetDataKeepsNodes ==
    ASSUME NEW T, Rooted(T), NEW p \in Nodes(T), NEW d \in Data
    PROVE  /\ Rooted(SetData(T, p, d))
           /\ Nodes(SetData(T, p, d)) = Nodes(T)
           /\ \A q \in Nodes(T) :
                 /\ SetData(T, p, d)[q].name = T[q].name
                 /\ SetData(T, p, d)[q].linked = T[q].linked
                 /\ SetData(T, p, d)[q].data = IF q = p THEN d ELSE T[q].data
<1> DEFINE U == SetData(T, p, d)
<1>1. p \in DOMAIN T /\ T[p] \in Node
  BY NodesAreEntries
<1>2. /\ DOMAIN U = DOMAIN T
      /\ \A q \in DOMAIN T : q # p => U[q] = T[q]
      /\ U[p] = [T[p] EXCEPT !.data = d]
  BY <1>1 DEF SetData
<1> HIDE DEF U
<1>3. /\ U[p] \in Node
      /\ U[p].name = T[p].name /\ U[p].linked = T[p].linked /\ U[p].data = d
  BY <1>1, <1>2 DEF Node
<1>4. U[p] # Ghost
  BY <1>3, PropertyTreeAssumption DEF PropertyTreeAssumption
<1>5. Nodes(U) = Nodes(T)
  BY <1>2, <1>4 DEF Nodes
<1>6. Rooted(U)
  BY <1>2, <1>3, <1>5 DEF Rooted
<1>7. \A q \in Nodes(T) : /\ U[q].name = T[q].name
                          /\ U[q].linked = T[q].linked
                          /\ U[q].data = IF q = p THEN d ELSE T[q].data
  BY <1>2, <1>3 DEF Nodes
<1> QED
  BY <1>5, <1>6, <1>7 DEF U

(* Without a node and all below it the rest is a tree: what is not below it *)
(* has no prefix below it.                                                 *)
LEMMA RemovalKeepsTheRest ==
    ASSUME NEW T, Rooted(T), NEW p \in Entries
    PROVE  LET U == Without(T, Below(T, p)) IN
           /\ Rooted(U)
           /\ Nodes(U) = Nodes(T) \ Below(T, p)
           /\ \A q \in Nodes(U) : U[q] = T[q]
<1> DEFINE U == Without(T, Below(T, p))
           B == Below(T, p)
<1>1. DOMAIN U = DOMAIN T \ B /\ \A q \in DOMAIN U : U[q] = T[q]
  BY DEF Without
<1>2. \A q : q \in B <=> q \in DOMAIN T /\ Len(q) >= Len(p) /\ Prefix(q, Len(p)) = p
  BY DEF Below
<1> HIDE DEF U, B
<1>3. Nodes(U) = Nodes(T) \ B
  BY <1>1 DEF Nodes
<1>4. Rooted(U)
  <2>1. DOMAIN U \subseteq Entries
    BY <1>1 DEF Rooted
  <2>2. ASSUME NEW q \in DOMAIN U, NEW i \in 1 .. Len(q) - 1
        PROVE  Prefix(q, i) \in Nodes(U)
    <3>1. q \in DOMAIN T /\ q \in Entries /\ q \notin B
      BY <1>1, <2>1
    <3>2. Prefix(q, i) \in Nodes(T)
      BY <3>1 DEF Rooted
    <3>3. /\ Len(q) \in Nat /\ Len(p) \in Nat /\ Len(p) >= 1
          /\ i \in 1 .. Len(q) /\ i < Len(q)
      BY <3>1, EntryIsSequence
    <3>4. Len(Prefix(q, i)) = i
      BY <3>1, <3>3, PrefixIsEntry
    <3>5. ASSUME Prefix(q, i) \in B PROVE FALSE
      <4>1. i >= Len(p) /\ Prefix(Prefix(q, i), Len(p)) = p
        BY <1>2, <3>4, <3>5
      <4>2. Prefix(q, Len(p)) = p
        BY <3>1, <3>3, <4>1, PrefixOfPrefix
      <4> QED
        BY <1>2, <3>1, <3>3, <4>1, <4>2
    <3> QED
      BY <1>3, <3>2, <3>5
  <2>3. \A q \in DOMAIN U : U[q] \in Node \cup {Ghost}
    BY <1>1 DEF Rooted
  <2> QED
    BY <2>1, <2>2, <2>3 DEF Rooted
<1>5. \A q \in Nodes(U) : U[q] = T[q]
  BY <1>1 DEF Nodes
<1> QED
  BY <1>3, <1>4, <1>5 DEF U, B

(* What read() makes of a tree without null pointers.                      *)
Unlinked(T) == [p \in DOMAIN T |-> [T[p] EXCEPT !.linked = FALSE]]

LEMMA ReadKeepsContents ==
    ASSUME NEW T, Rooted(T), \A p \in DOMAIN T : T[p] # Ghost
    PROVE  /\ Rooted(Unlinked(T)) /\ Nodes(Unlinked(T)) = Nodes(T)
           /\ \A q \in Nodes(T) : /\ Unlinked(T)[q].name = T[q].name
                                  /\ Unlinked(T)[q].data = T[q].data
<1>1. ASSUME NEW q \in DOMAIN T
      PROVE  /\ Unlinked(T)[q] \in Node
             /\ Unlinked(T)[q].name = T[q].name /\ Unlinked(T)[q].data = T[q].data
  <2>1. Unlinked(T)[q] = [T[q] EXCEPT !.linked = FALSE]
    BY DEF Unlinked
  <2>2. T[q] \in Node
    BY DEF Rooted
  <2> QED
    BY <2>1, <2>2 DEF Node
<1>2. \A q \in DOMAIN T : Unlinked(T)[q] # Ghost
  BY <1>1, PropertyTreeAssumption DEF PropertyTreeAssumption
<1>3. DOMAIN Unlinked(T) = DOMAIN T
  BY DEF Unlinked
<1>4. Nodes(Unlinked(T)) = Nodes(T)
  BY <1>2, <1>3 DEF Nodes
<1>5. Rooted(Unlinked(T))
  BY <1>1, <1>3, <1>4 DEF Rooted
<1> QED
  BY <1>1, <1>4, <1>5 DEF Nodes

(* The copy has one node per level down to the last child of the last       *)
(* child; it is a tree because the parent of a last child is one.           *)
LEMMA CopyIsRooted ==
    ASSUME NEW T, Rooted(T), \A p \in DOMAIN T : T[p] # Ghost
    PROVE  Rooted(CopyOf(T))
<1> USE PropertyTreeAssumption DEF PropertyTreeAssumption
<1> DEFINE R == Rightmost(T)
           Empties(p) == [i \in 1 .. Len(p) |-> 0]
           U == CopyOf(T)
           Source(q) == CHOOSE r \in R : Len(r) = Len(q)
<1>1. R \subseteq DOMAIN T /\ DOMAIN T \subseteq Entries
  BY DEF Rightmost, Rooted
<1>2. ASSUME NEW p \in R
      PROVE  Empties(p) \in Entries /\ Len(Empties(p)) = Len(p)
  <2>1. Len(p) \in 1 .. MaxDepth
    BY <1>1, EntryIsSequence
  <2>2. Empties(p) \in [1 .. Len(p) -> Keys]
    BY DEF Keys
  <2>3. Empties(p) \in Entries
    BY <2>1, <2>2 DEF Entries
  <2>4. DOMAIN Empties(p) = 1 .. Len(p) /\ DOMAIN Empties(p) = 1 .. Len(Empties(p))
        /\ Len(Empties(p)) \in 1 .. MaxDepth
    BY <2>3, EntryIsSequence, LenProperties
  <2> QED
    BY <2>1, <2>3, <2>4
<1>3. /\ DOMAIN U = {Empties(p) : p \in R}
      /\ \A q \in DOMAIN U : U[q] = [T[Source(q)] EXCEPT !.linked = FALSE]
  BY DEF CopyOf
<1>4. ASSUME NEW p \in R, NEW i \in 1 .. Len(p)
      PROVE  Prefix(p, i) \in R
  <2> DEFINE q == Prefix(p, i)
  <2>1. p \in Entries /\ p \in DOMAIN T /\ T[p] # Ghost /\ Len(p) \in Nat
    BY <1>1, EntryIsSequence
  <2>2. q \in Entries /\ Len(q) = i /\ \A j \in 1 .. i : q[j] = p[j]
    BY <2>1, PrefixIsEntry
  <2>3. q \in DOMAIN T
    BY <2>1, NodesAreEntries DEF Nodes
  <2>4. ASSUME NEW j \in 1 .. i, NEW k \in Keys,
               Append(Prefix(q, j - 1), k) \in DOMAIN T
        PROVE  k <= q[j]
    <3>1. Prefix(q, j - 1) = Prefix(p, j - 1)
      <4>1. CASE j = 1
        BY <4>1, SubSeqEmpty DEF Prefix
      <4>2. CASE j # 1
        <5>1. j - 1 \in 1 .. i
          BY <4>2
        <5> QED
          BY <5>1, <2>1, PrefixOfPrefix
      <4> QED
        BY <4>1, <4>2
    <3>2. j \in 1 .. Len(p)
      BY <2>1
    <3>3. Append(Prefix(p, j - 1), k) \in DOMAIN T
      BY <2>4, <3>1
    <3>4. k <= p[j]
      BY <3>2, <3>3 DEF Rightmost
    <3> QED
      BY <2>2, <3>4
  <2> HIDE DEF q
  <2> QED
    BY <2>2, <2>3, <2>4 DEF Rightmost, q
<1> HIDE DEF R, U, Source
<1>5. ASSUME NEW q \in DOMAIN U
      PROVE  q \in Entries /\ U[q] \in Node /\ U[q] # Ghost
  <2>1. PICK p \in R : q = Empties(p)
    BY <1>3
  <2>2. q \in Entries /\ Len(p) = Len(q)
    BY <1>2, <2>1
  <2>3. Source(q) \in R
    BY <2>2 DEF Source
  <2>4. T[Source(q)] \in Node
    BY <1>1, <2>3 DEF Rooted
  <2>5. U[q] = [T[Source(q)] EXCEPT !.linked = FALSE]
    BY <1>3
  <2>6. U[q] \in Node
    BY <2>4, <2>5 DEF Node
  <2> QED
    BY <2>2, <2>6
<1>6. ASSUME NEW q \in DOMAIN U, NEW i \in 1 .. Len(q) - 1
      PROVE  Prefix(q, i) \in DOMAIN U
  <2>1. PICK p \in R : q = Empties(p)
    BY <1>3
  <2>2. q \in Entries /\ Len(q) = Len(p) /\ Len(p) \in Nat /\ i \in 1 .. Len(p)
    <3>1. q \in Entries /\ Len(q) = Len(p)
      BY <1>2, <2>1
    <3> QED
      BY <3>1, EntryIsSequence
  <2>3. Prefix(p, i) \in R /\ Len(Prefix(p, i)) = i
    BY <1>1, <1>4, <2>2, PrefixIsEntry
  <2>4. /\ Empties(Prefix(p, i)) \in Entries /\ Len(Empties(Prefix(p, i))) = i
        /\ \A j \in 1 .. i : Empties(Prefix(p, i))[j] = 0
    BY <1>2, <2>3
  <2>5. /\ Prefix(q, i) \in Entries /\ Len(Prefix(q, i)) = i
        /\ \A j \in 1 .. i : Prefix(q, i)[j] = q[j]
    BY <2>2, PrefixIsEntry
  <2>6. \A j \in 1 .. i : q[j] = 0
    BY <2>1, <2>2
  <2>7. Prefix(q, i) = Empties(Prefix(p, i))
    <3> HIDE DEF Empties
    <3> QED
      BY <2>4, <2>5, <2>6, SameEntry
  <2> QED
    BY <1>3, <2>3, <2>7
<1>7. Rooted(U)
  <2>1. \A q \in DOMAIN U : \A i \in 1 .. Len(q) - 1 : Prefix(q, i) \in Nodes(U)
    BY <1>5, <1>6 DEF Nodes
  <2> QED
    BY <1>5, <2>1 DEF Rooted
<1> QED
  BY <1>7 DEF U

-----------------------------------------------------------------------------
(* The inductive invariant.  Besides the shape of both trees it has the name *)
(* of each node under which its parent knows it, the parents of all nodes   *)
(* as long as nothing was read back, and what the data is by the history.   *)
Named(T) == \A p \in Nodes(T) : T[p].name = p[Len(p)]
Linked(T) == \A p \in Nodes(T) : T[p].linked
Stored(T, w) ==
    /\ DOMAIN w \subseteq Nodes(T)
    /\ \A p \in Nodes(T) : T[p].data = IF p \in DOMAIN w THEN w[p] ELSE Default
Wants(w) ==
    /\ DOMAIN w \subseteq Paths
    /\ \A p \in DOMAIN w : w[p] \in Data \cup {Default}

Built ==
    /\ Rooted(tree) /\ Rooted(dest)
    /\ Named(tree)
    /\ ~loaded => Linked(tree)
    /\ Wants(wanted) /\ removed \subseteq DOMAIN wanted
    /\ fault = "none" => Stored(tree, wanted)
    /\ changed \in BOOLEAN
    /\ loaded \in BOOLEAN
    /\ fault \in {"none", "outOfRange", "nullNode"}

(* How the operations take trees that are built to such trees: U is what T  *)
(* becomes, v what is wanted then.                                         *)
Keeps(T, w, U, v) ==
    /\ Rooted(U) /\ Named(U)
    /\ Linked(T) => Linked(U)
    /\ Wants(v) /\ Stored(U, v)

LEMMA LookupKeeps ==
    ASSUME NEW T, NEW w, NEW U,
           Named(T), Wants(w), Stored(T, w), Rooted(U), SameNodes(T, U)
    PROVE  Keeps(T, w, U, w)
  BY DEF Keeps, SameNodes, Named, Linked, Stored

LEMMA CreateKeeps ==
    ASSUME NEW T, NEW w, Rooted(T), Named(T), Wants(w), Stored(T, w),
           NEW p \in Paths, NEW d \in Data, Existing(T, p) # Len(p),
           NEW v, v = [q \in DOMAIN w \cup {p} |-> IF q = p THEN d ELSE w[q]]
    PROVE  Keeps(T, w, Create(T, p, d), v)
<1> DEFINE U == Create(T, p, d)
           F == Fresh(T, p)
<1>1. p \in Entries
  BY PathIsEntry
<1>2. /\ Rooted(U) /\ Nodes(U) = Nodes(T) \cup F
      /\ \A q \in Nodes(T) : U[q] = T[q]
      /\ \A q \in F : /\ U[q].name = q[Len(q)] /\ U[q].linked
                      /\ U[q].data = IF q = p THEN d ELSE Default
  BY <1>1, CreateExtends
<1>3. p \in F /\ F \cap Nodes(T) = {}
  BY <1>1, FreshIsNew
<1> HIDE DEF U, F
<1>4. Named(U) /\ (Linked(T) => Linked(U))
  BY <1>2 DEF Named, Linked
<1>5. DOMAIN v = DOMAIN w \cup {p} /\ v[p] = d /\ \A q \in DOMAIN w : q # p => v[q] = w[q]
  OBVIOUS
<1>6. Wants(v)
  BY <1>5 DEF Wants
<1>7. Stored(U, v)
  <2>1. DOMAIN v \subseteq Nodes(U)
    BY <1>2, <1>3, <1>5 DEF Stored
  <2>2. ASSUME NEW q \in Nodes(T)
        PROVE  U[q].data = IF q \in DOMAIN v THEN v[q] ELSE Default
    <3>1. q # p
      BY <1>3
    <3> QED
      BY <3>1, <1>2, <1>5 DEF Stored
  <2>3. ASSUME NEW q \in F
        PROVE  U[q].data = IF q \in DOMAIN v THEN v[q] ELSE Default
    <3>1. q \in DOMAIN v <=> q = p
      BY <1>3, <1>5 DEF Stored
    <3> QED
      BY <3>1, <1>2, <1>5
  <2> QED
    BY <1>2, <2>1, <2>2, <2>3 DEF Stored
<1> QED
  BY <1>2, <1>4, <1>6, <1>7 DEF Keeps, U

LEMMA SetDataKeeps ==
    ASSUME NEW T, NEW w, Rooted(T), Named(T), Wants(w), Stored(T, w),
           NEW p \in Paths, NEW d \in Data, p \in Nodes(T),
           NEW v, v = [q \in DOMAIN w \cup {p} |-> IF q = p THEN d ELSE w[q]]
    PROVE  Keeps(T, w, SetData(T, p, d), v)
<1> DEFINE U == SetData(T, p, d)
<1>1. /\ Rooted(U) /\ Nodes(U) = Nodes(T)
      /\ \A q \in Nodes(T) : /\ U[q].name = T[q].name /\ U[q].linked = T[q].linked
                             /\ U[q].data = IF q = p THEN d ELSE T[q].data
  BY SetDataKeepsNodes
<1> HIDE DEF U
<1>2. Named(U) /\ (Linked(T) => Linked(U))
  BY <1>1 DEF Named, Linked
<1>3. DOMAIN v = DOMAIN w \cup {p} /\ v[p] = d /\ \A q \in DOMAIN w : q # p => v[q] = w[q]
  OBVIOUS
<1>4. Wants(v)
  BY <1>3 DEF Wants
<1>5. Stored(U, v)
  <2>1. DOMAIN v \subseteq Nodes(U)
    BY <1>1, <1>3 DEF Stored
  <2>2. ASSUME NEW q \in Nodes(U)
        PROVE  U[q].data = IF q \in DOMAIN v THEN v[q] ELSE Default
    <3>1. CASE q = p
      BY <3>1, <1>1, <1>3
    <3>2. CASE q # p
      BY <3>2, <1>1, <1>3 DEF Stored
    <3> QED
      BY <3>1, <3>2
  <2> QED
    BY <2>1, <2>2 DEF Stored
<1> QED
  BY <1>1, <1>2, <1>4, <1>5 DEF Keeps, U

LEMMA RemovalKeeps ==
    ASSUME NEW T, NEW w, Rooted(T), Named(T), Wants(w), Stored(T, w), NEW p \in Entries
    PROVE  Keeps(T, w, Without(T, Below(T, p)), Without(w, Below(w, p)))
<1> DEFINE U == Without(T, Below(T, p))
           v == Without(w, Below(w, p))
<1>1. Rooted(U) /\ Nodes(U) = Nodes(T) \ Below(T, p) /\ \A q \in Nodes(U) : U[q] = T[q]
  BY RemovalKeepsTheRest
<1>2. DOMAIN v = DOMAIN w \ Below(w, p) /\ \A q \in DOMAIN v : v[q] = w[q]
  BY DEF Without
<1>3. ASSUME NEW q \in Nodes(T)
      PROVE  q \in DOMAIN v <=> q \in DOMAIN w /\ q \notin Below(T, p)
  BY <1>2 DEF Below, Nodes
<1> HIDE DEF U, v
<1>4. Named(U) /\ (Linked(T) => Linked(U))
  BY <1>1 DEF Named, Linked
<1>5. Wants(v)
  BY <1>2 DEF Wants
<1>6. Stored(U, v)
  <2>1. DOMAIN v \subseteq Nodes(U)
    BY <1>1, <1>2, <1>3 DEF Stored
  <2>2. ASSUME NEW q \in Nodes(U)
        PROVE  U[q].data = IF q \in DOMAIN v THEN v[q] ELSE Default
    BY <1>1, <1>2, <1>3 DEF Stored
  <2> QED
    BY <2>1, <2>2 DEF Stored
<1> QED
  BY <1>1, <1>4, <1>5, <1>6 DEF Keeps, U, v

LEMMA ClearKeeps ==
    ASSUME NEW T, NEW w
    PROVE  Keeps(T, w, Empty, Without(w, DOMAIN w))
<1>1. DOMAIN Empty = {} /\ Nodes(Empty) = {}
  BY DEF Empty, Nodes
<1>2. DOMAIN Without(w, DOMAIN w) = {}
  BY DEF Without
<1> QED
  BY <1>1, <1>2 DEF Keeps, Rooted, Named, Linked, Wants, Stored

(* Nothing is wanted below an entry that is no node: to forget it changes   *)
(* nothing.                                                                *)
LEMMA NothingBelowNoNode ==
    ASSUME NEW T, NEW w, Rooted(T), Wants(w), Stored(T, w),
           NEW p \in Entries, p \notin Nodes(T)
    PROVE  Wants(Without(w, Below(w, p))) /\ Stored(T, Without(w, Below(w, p)))
<1> DEFINE v == Without(w, Below(w, p))
<1>1. ASSUME NEW q \in DOMAIN w PROVE q \notin Below(w, p)
  <2>1. q \in Nodes(T) /\ Len(q) \in Nat /\ \A i \in 1 .. Len(q) : Prefix(q, i) \in Nodes(T)
    BY NodesAreEntries DEF Stored
  <2>2. Len(p) \in 1 .. MaxDepth
    BY EntryIsSequence
  <2>3. ASSUME Len(q) >= Len(p) PROVE Prefix(q, Len(p)) # p
    <3>1. Len(p) \in 1 .. Len(q)
      BY <2>1, <2>2, <2>3, PropertyTreeAssumption DEF PropertyTreeAssumption
    <3> QED
      BY <2>1, <3>1
  <2> QED
    BY <2>3 DEF Below
<1>2. DOMAIN v = DOMAIN w /\ \A q \in DOMAIN v : v[q] = w[q]
  BY <1>1 DEF Without
<1> HIDE DEF v
<1>3. Wants(v) /\ Stored(T, v)
  BY <1>2 DEF Wants, Stored
<1> QED
  BY <1>3 DEF v

(* The child of a node at a name, be it there or not.                      *)
LEMMA ChildOfNode ==
    ASSUME NEW T, Rooted(T), NEW p \in Short, NEW k \in Names, IsNode(T, p)
    PROVE  LET c == Append(p, k) IN
           /\ c \in Paths /\ c \in Entries
           /\ \A i \in 1 .. Len(c) - 1 : Prefix(c, i) \in Nodes(T)
           /\ IsNode(T, c) <=> c \in Nodes(T)
           /\ ~IsNode(T, c) => Existing(T, c) # Len(c)
<1> DEFINE c == Append(p, k)
<1>1. /\ c \in Paths /\ c \in Entries /\ Len(c) = Len(p) + 1
      /\ \A i \in 1 .. Len(p) : Prefix(c, i) = Prefix(p, i)
  BY ShortAppend, PathIsEntry
<1>2. IsNode(T, c) <=> c \in Nodes(T)
  BY <1>1, EntryIsNode
<1> HIDE DEF c
<1>3. Prefix(c, Len(c)) = c /\ Len(c) \in 1 .. Len(c)
  BY <1>1, WholePrefix, EntryIsSequence
<1>4. ASSUME Existing(T, c) = Len(c) PROVE IsNode(T, c)
  BY <1>1, <1>3, <1>4, ExistingIsFirstGap
<1>5. ASSUME NEW i \in 1 .. Len(c) - 1 PROVE Prefix(c, i) \in Nodes(T)
  <2>1. CASE p = <<>>
    <3>1. Len(p) = 0
      BY <2>1, EmptySeq
    <3> QED
      BY <3>1, <1>1
  <2>2. CASE p \in DOMAIN T /\ T[p] # Ghost
    <3>1. p \in Nodes(T)
      BY <2>2 DEF Nodes
    <3>2. Len(p) \in Nat /\ \A j \in 1 .. Len(p) : Prefix(p, j) \in Nodes(T)
      BY <3>1, NodesAreEntries
    <3>3. i \in 1 .. Len(p)
      BY <3>2, <1>1
    <3> QED
      BY <3>2, <3>3, <1>1
  <2> QED
    BY <2>1, <2>2 DEF IsNode
<1> QED
  BY <1>1, <1>2, <1>4, <1>5 DEF c

LEMMA KeepsBuilt ==
    ASSUME Built, fault = "none", Keeps(tree, wanted, tree', wanted'),
           removed' \subseteq DOMAIN wanted',
           changed' \in BOOLEAN, UNCHANGED <<dest, loaded, fault>>
    PROVE  Built'
<1>1. Rooted(tree') /\ Named(tree') /\ Wants(wanted') /\ Stored(tree', wanted')
  BY DEF Keeps
<1>2. ~loaded' => Linked(tree')
  BY DEF Keeps, Built
<1>3. Rooted(dest')
  BY DEF Built
<1>4. loaded' \in BOOLEAN /\ fault' \in {"none", "outOfRange", "nullNode"}
  BY DEF Built
<1> QED
  BY <1>1, <1>2, <1>3, <1>4, Zenon DEF Built

(* An operation that changes neither tree nor history.                     *)
LEMMA SameTreeBuilt ==
    ASSUME Built, UNCHANGED <<tree, wanted, removed, loaded>>, Rooted(dest'),
           fault = "none", changed' \in BOOLEAN,
           fault' \in {"none", "outOfRange", "nullNode"}
    PROVE  Built'
<1>1. Rooted(tree') /\ Named(tree') /\ Wants(wanted') /\ Stored(tree', wanted')
  BY DEF Built
<1>2. ~loaded' => Linked(tree')
  BY DEF Built
<1>3. loaded' \in BOOLEAN /\ removed' \subseteq DOMAIN wanted'
  BY DEF Built
<1> QED
  BY <1>1, <1>2, <1>3, Zenon DEF Built

(* What a request to store d at p leaves of the history.                   *)
LEMMA WantedIsKnown ==
    ASSUME NEW p, NEW d, Want(p, d), removed \subseteq DOMAIN wanted
    PROVE  /\ wanted' = [q \in DOMAIN wanted \cup {p} |->
                            IF q = p THEN d ELSE wanted[q]]
           /\ removed' \subseteq DOMAIN wanted'
  BY DEF Want

LEMMA TreesAreBuilt == Spec => []Built
<1>1. Init => Built
  <2> SUFFICES ASSUME Init PROVE Built
    OBVIOUS
  <2>1. DOMAIN Empty = {} /\ Nodes(Empty) = {}
    BY DEF Empty, Nodes
  <2>2. DOMAIN wanted = {} /\ removed = {}
    BY DEF Init
  <2>3. Rooted(Empty) /\ Named(Empty) /\ Linked(Empty)
    BY <2>1 DEF Rooted, Named, Linked
  <2>4. Wants(wanted) /\ Stored(Empty, wanted)
    BY <2>1, <2>2 DEF Wants, Stored
  <2> QED
    BY <2>2, <2>3, <2>4 DEF Init, Built
<1>2. Built /\ [Next]_vars => Built'
  <2> SUFFICES ASSUME Built, [Next]_vars PROVE Built'
    OBVIOUS
  <2>1. ASSUME fault = "none"
        PROVE  /\ Rooted(tree) /\ Rooted(dest) /\ Named(tree)
               /\ Wants(wanted) /\ removed \subseteq DOMAIN wanted
               /\ Stored(tree, wanted)
    BY <2>1 DEF Built
  <2>2. ASSUME NEW p \in Paths, NEW d \in Data, Set(p, d) PROVE Built'
    <3>1. fault = "none" /\ p \in Entries /\ Find(tree, p) = "nullptr"
      BY <2>2, PathIsEntry, FindReturnsNull DEF Set
    <3>2. CASE Existing(tree, p) = Len(p)
      (* The loop of add() runs off the path: nothing is promised any more. *)
      <4>1. /\ tree' = tree /\ changed' = changed /\ dest' = dest /\ loaded' = loaded
            /\ fault' = "outOfRange" /\ Want(p, d)
        BY <2>2, <3>1, <3>2 DEF Set
      <4>2. Wants(wanted') /\ removed' \subseteq DOMAIN wanted'
        <5>1. /\ wanted' = [q \in DOMAIN wanted \cup {p} |->
                                IF q = p THEN d ELSE wanted[q]]
              /\ removed' \subseteq DOMAIN wanted'
          BY <2>1, <3>1, <4>1, WantedIsKnown
        <5> QED
          BY <2>1, <3>1, <5>1 DEF Wants
      <4>3. Rooted(tree') /\ Rooted(dest') /\ Named(tree')
        BY <2>1, <3>1, <4>1
      <4>4. /\ ~loaded' => Linked(tree')
            /\ changed' \in BOOLEAN /\ loaded' \in BOOLEAN
        BY <4>1 DEF Built
      <4> QED
        BY <4>1, <4>2, <4>3, <4>4 DEF Built
    <3>3. CASE Existing(tree, p) # Len(p)
      <4>1. /\ tree' = Create(tree, p, d) /\ changed' = TRUE
            /\ UNCHANGED <<dest, loaded, fault>> /\ Want(p, d)
        BY <2>2, <3>1, <3>3 DEF Set
      <4>2. Keeps(tree, wanted, tree', wanted') /\ removed' \subseteq DOMAIN wanted'
        <5>1. /\ wanted' = [q \in DOMAIN wanted \cup {p} |->
                                IF q = p THEN d ELSE wanted[q]]
              /\ removed' \subseteq DOMAIN wanted'
          BY <2>1, <3>1, <4>1, WantedIsKnown
        <5> QED
          BY <2>1, <3>1, <3>3, <4>1, <5>1, CreateKeeps
      <4> QED
        BY <3>1, <4>1, <4>2, KeepsBuilt
    <3> QED
      BY <3>2, <3>3
  <2>3. ASSUME NEW p \in Paths, Look(p) PROVE Built'
    <3>1. /\ fault = "none" /\ p \in Entries /\ tree' = Descend(tree, p)
          /\ UNCHANGED <<changed, dest, wanted, removed, loaded, fault>>
      BY <2>3, PathIsEntry DEF Look
    <3>2. Keeps(tree, wanted, tree', wanted')
      BY <2>1, <3>1, DescendKeepsNodes, LookupKeeps
    <3>3. changed' \in BOOLEAN /\ removed' \subseteq DOMAIN wanted'
      BY <2>1, <3>1 DEF Built
    <3> QED
      BY <3>1, <3>2, <3>3, KeepsBuilt
  <2>4. ASSUME NEW p \in Paths, Remove(p) PROVE Built'
    <3>1. fault = "none" /\ p \in Entries /\ Find(tree, p) = "nullptr"
      BY <2>4, PathIsEntry, FindReturnsNull DEF Remove
    <3>2. /\ tree' = Descend(tree, p) /\ wanted' = wanted /\ changed' = TRUE
          /\ removed' = removed \cup Below(wanted, p)
          /\ UNCHANGED <<dest, loaded, fault>>
      BY <2>4, <3>1 DEF Remove
    <3>3. Keeps(tree, wanted, tree', wanted')
      BY <2>1, <3>1, <3>2, DescendKeepsNodes, LookupKeeps
    <3>4. removed' \subseteq DOMAIN wanted'
      BY <2>1, <3>1, <3>2 DEF Below
    <3> QED
      BY <3>1, <3>2, <3>3, <3>4, KeepsBuilt
  <2>5. ASSUME NEW p \in Short, NEW k \in Names, NEW d \in Data, SetChild(p, k, d)
        PROVE  Built'
    <3> DEFINE c == Append(p, k)
    <3>1. /\ fault = "none" /\ IsNode(tree, p)
          /\ tree' = IF IsNode(tree, c) THEN SetData(tree, c, d) ELSE Create(tree, c, d)
          /\ Want(c, d) /\ changed' = TRUE /\ UNCHANGED <<dest, loaded, fault>>
      BY <2>5 DEF SetChild
    <3>2. /\ c \in Paths /\ (IsNode(tree, c) => c \in Nodes(tree))
          /\ ~IsNode(tree, c) => Existing(tree, c) # Len(c)
      BY <2>1, <3>1, ChildOfNode
    <3> HIDE DEF c
    <3>3. /\ wanted' = [q \in DOMAIN wanted \cup {c} |-> IF q = c THEN d ELSE wanted[q]]
          /\ removed' \subseteq DOMAIN wanted'
      BY <2>1, <3>1, WantedIsKnown
    <3>4. Keeps(tree, wanted, tree', wanted')
      <4>1. CASE IsNode(tree, c)
        BY <4>1, <2>1, <3>1, <3>2, <3>3, SetDataKeeps
      <4>2. CASE ~IsNode(tree, c)
        BY <4>2, <2>1, <3>1, <3>2, <3>3, CreateKeeps
      <4> QED
        BY <4>1, <4>2
    <3> QED
      BY <3>1, <3>3, <3>4, KeepsBuilt
  <2>6. ASSUME NEW p \in Short, NEW k \in Names, GetChild(p, k) PROVE Built'
    <3> DEFINE c == Append(p, k)
    <3>1. /\ fault = "none" /\ IsNode(tree, p) /\ tree' = Subscript(tree, c)
          /\ UNCHANGED <<changed, dest, wanted, removed, loaded, fault>>
      BY <2>6 DEF GetChild
    <3>2. c \in Entries /\ \A i \in 1 .. Len(c) - 1 : Prefix(c, i) \in Nodes(tree)
      BY <2>1, <3>1, ChildOfNode
    <3> HIDE DEF c
    <3>3. Keeps(tree, wanted, tree', wanted')
      BY <2>1, <3>1, <3>2, SubscriptKeepsNodes, LookupKeeps
    <3>4. changed' \in BOOLEAN /\ removed' \subseteq DOMAIN wanted'
      BY <2>1, <3>1 DEF Built
    <3> QED
      BY <3>1, <3>3, <3>4, KeepsBuilt
  <2>7. ASSUME NEW p \in Short, NEW k \in Names, RemoveChild(p, k) PROVE Built'
    <3> DEFINE c == Append(p, k)
    <3>1. /\ fault = "none" /\ IsNode(tree, p)
          /\ tree' = IF IsNode(tree, c) THEN Without(tree, Below(tree, c))
                     ELSE Subscript(tree, c)
          /\ wanted' = Without(wanted, Below(wanted, c))
          /\ removed' = removed \ Below(wanted, c)
          /\ UNCHANGED <<changed, dest, loaded, fault>>
      BY <2>7 DEF RemoveChild, Forget
    <3>2. /\ c \in Entries /\ (c \in Nodes(tree) => IsNode(tree, c))
          /\ \A i \in 1 .. Len(c) - 1 : Prefix(c, i) \in Nodes(tree)
      BY <2>1, <3>1, ChildOfNode
    <3> HIDE DEF c
    <3>3. Keeps(tree, wanted, tree', wanted')
      <4>1. CASE IsNode(tree, c)
        BY <4>1, <2>1, <3>1, <3>2, RemovalKeeps
      <4>2. CASE ~IsNode(tree, c)
        <5>1. Wants(wanted') /\ Stored(tree, wanted')
          BY <4>2, <2>1, <3>1, <3>2, NothingBelowNoNode
        <5> QED
          BY <5>1, <4>2, <2>1, <3>1, <3>2, SubscriptKeepsNodes, LookupKeeps DEF Keeps
      <4> QED
        BY <4>1, <4>2
    <3>4. changed' \in BOOLEAN /\ removed' \subseteq DOMAIN wanted'
      BY <2>1, <3>1 DEF Built, Without
    <3> QED
      BY <3>1, <3>3, <3>4, KeepsBuilt
  <2>8. CASE Clear
    <3>1. /\ fault = "none" /\ Keeps(tree, wanted, tree', wanted') /\ changed' = TRUE
          /\ removed' \subseteq DOMAIN wanted' /\ UNCHANGED <<dest, loaded, fault>>
      BY <2>8, ClearKeeps DEF Clear
    <3> QED
      BY <3>1, KeepsBuilt
  <2>9. CASE Visit
    <3>1. /\ fault = "none" /\ fault' \in {"none", "nullNode"}
          /\ UNCHANGED <<tree, changed, dest, wanted, removed, loaded>>
      BY <2>9 DEF Visit
    <3>2. changed' \in BOOLEAN /\ Rooted(dest')
      BY <2>1, <3>1 DEF Built
    <3> QED
      BY <3>1, <3>2, SameTreeBuilt
  <2>10. CASE Read
    <3>1. /\ fault = "none" /\ loaded' = TRUE /\ changed' = TRUE
          /\ tree' = Unlinked(tree) /\ \A p \in DOMAIN tree : tree[p] # Ghost
          /\ UNCHANGED <<dest, wanted, removed, fault>>
      BY <2>10 DEF Read, Unlinked
    <3>2. /\ Rooted(tree') /\ Nodes(tree') = Nodes(tree)
          /\ \A q \in Nodes(tree) : /\ tree'[q].name = tree[q].name
                                    /\ tree'[q].data = tree[q].data
      BY <2>1, <3>1, ReadKeepsContents
    <3>3. Named(tree') /\ Stored(tree', wanted')
      BY <2>1, <3>1, <3>2 DEF Named, Stored
    <3>4. Rooted(dest') /\ Wants(wanted') /\ removed' \subseteq DOMAIN wanted'
      BY <2>1, <3>1
    <3> QED
      BY <3>1, <3>2, <3>3, <3>4 DEF Built
  <2>11. CASE CopyTo
    <3>1. /\ fault = "none" /\ fault' \in {"none", "nullNode"}
          /\ UNCHANGED <<tree, changed, wanted, removed, loaded>>
          /\ dest' = dest
             \/ (dest' = CopyOf(tree) /\ \A p \in DOMAIN tree : tree[p] # Ghost)
      BY <2>11 DEF CopyTo
    <3>2. Rooted(dest')
      BY <2>1, <3>1, CopyIsRooted
    <3>3. changed' \in BOOLEAN
      BY <3>1 DEF Built
    <3> QED
      BY <3>1, <3>2, <3>3, SameTreeBuilt
  <2>12. CASE ClearChanged
    <3>1. /\ fault = "none" /\ changed' = FALSE
          /\ UNCHANGED <<tree, dest, wanted, removed, loaded, fault>>
      BY <2>12 DEF ClearChanged
    <3>2. Rooted(dest')
      BY <2>1, <3>1
    <3> QED
      BY <3>1, <3>2, SameTreeBuilt
  <2>13. CASE UNCHANGED vars
    BY <2>13 DEF vars, Built
  <2> QED
    BY <2>2, <2>3, <2>4, <2>5, <2>6, <2>7, <2>8, <2>9, <2>10, <2>11, <2>12, <2>13 DEF Next
<1> QED
  BY <1>1, <1>2, PTL DEF Spec

(* The variables keep their types; in particular both trees stay trees.     *)
THEOREM TypeCorrect == Spec => []TypeOK
<1>1. Built => TypeOK
  BY RootedIsTree DEF Built, TypeOK, Wants
<1> QED
  BY <1>1, TreesAreBuilt, PTL

(* Whatever set, setChild, removeChild, clear and remove are asked for, in   *)
(* any order: what is stored and not asked away is in the tree under its    *)
(* path and with its data, no other node has a value, and what remove() was *)
(* asked to take away is gone or has its value or the default.             *)
THEOREM StoredUntilRemoved == Spec => []StoredIsThere
<1>1. Built => StoredIsThere
  BY DEF Built, Stored, StoredIsThere
<1> QED
  BY <1>1, TreesAreBuilt, PTL

(* The way up m_pParent ends at the root or at the last node without a      *)
(* parent.                                                                 *)
LEMMA WayUpEnds ==
    ASSUME NEW T, NEW p \in Entries
    PROVE  \E i \in 1 .. Len(p) :
              /\ i = 1 \/ ~T[Prefix(p, i)].linked
              /\ \A j \in i + 1 .. Len(p) : T[Prefix(p, j)].linked
<1> DEFINE Up(j) == T[Prefix(p, j)].linked
           L == Len(p)
           S == {n \in 0 .. L - 1 : ~Up(L - n)}
<1>1. L \in Nat /\ L >= 1
  BY EntryIsSequence
<1> HIDE DEF Up, L
<1>2. CASE S = {}
  <2>1. ASSUME NEW j \in 2 .. L PROVE Up(j)
    <3>1. L - j \in 0 .. L - 1 /\ L - (L - j) = j
      BY <1>1
    <3> QED
      BY <1>2, <3>1
  <2>2. 1 \in 1 .. L /\ 1 + 1 = 2
    BY <1>1
  <2> QED
    BY <2>1, <2>2 DEF Up, L
<1>3. CASE S # {}
  <2>1. S \subseteq Nat
    BY <1>1
  <2> HIDE DEF S
  <2>2. PICK n \in S : \A m \in S : n <= m
    BY <1>3, <2>1, LeastNumber
  <2> USE DEF S
  <2>3. L - n \in 1 .. L /\ ~Up(L - n)
    BY <1>1, <2>2
  <2>4. ASSUME NEW j \in L - n + 1 .. L PROVE Up(j)
    <3>1. L - j \in 0 .. L - 1 /\ L - (L - j) = j /\ L - j < n
      BY <1>1, <2>2
    <3>2. L - j \notin S
      BY <1>1, <2>2, <3>1
    <3> QED
      BY <3>1, <3>2
  <2> QED
    BY <2>3, <2>4 DEF Up, L
<1> QED
  BY <1>2, <1>3

(* absolutePath of each node is an end of the path under which the tree has *)
(* it, as Named makes each name a key of that path; unless the tree was     *)
(* read back it is the whole path, because then all parents are set and the *)
(* way up ends at the root.                                                *)
THEOREM PathsLeadBack == Spec => []AbsolutePathLeadsBack
<1>1. Built => AbsolutePathLeadsBack
  <2> SUFFICES ASSUME Built, NEW p \in Nodes(tree)
               PROVE  /\ ~loaded => AbsolutePath(tree, p) = p
                      /\ \E from \in 1 .. Len(p) :
                            AbsolutePath(tree, p) = SubSeq(p, from, Len(p))
    BY DEF AbsolutePathLeadsBack
  <2>1. Rooted(tree) /\ Named(tree) /\ (~loaded => Linked(tree))
    BY DEF Built
  <2>2. /\ p \in Entries /\ p \in Seq(Keys) /\ Len(p) \in Nat /\ Len(p) >= 1
        /\ \A i \in 1 .. Len(p) : Prefix(p, i) \in Nodes(tree) /\ p[i] \in Keys
    BY <2>1, NodesAreEntries, EntryIsSequence
  <2> DEFINE Up(i) == tree[Prefix(p, i)].linked
             Ends(i) == (i = 1 \/ ~Up(i)) /\ \A j \in i + 1 .. Len(p) : Up(j)
             from == CHOOSE i \in 1 .. Len(p) : Ends(i)
             way == AbsolutePath(tree, p)
  <2>3. way = [i \in 1 .. Len(p) - from + 1 |-> tree[Prefix(p, from + i - 1)].name]
    BY DEF AbsolutePath
  <2>4. from \in 1 .. Len(p) /\ Ends(from)
    <3>1. \E i \in 1 .. Len(p) : Ends(i)
      BY <2>2, WayUpEnds
    <3> HIDE DEF Ends
    <3> QED
      BY <3>1
  <2> HIDE DEF from, way
  <2>5. ASSUME NEW i \in 1 .. Len(p) PROVE tree[Prefix(p, i)].name = p[i]
    <3>1. Len(Prefix(p, i)) = i /\ Prefix(p, i)[i] = p[i]
      BY <2>2, PrefixIsEntry
    <3>2. tree[Prefix(p, i)].name = Prefix(p, i)[Len(Prefix(p, i))]
      BY <2>1, <2>2 DEF Named
    <3> QED
      BY <3>1, <3>2
  <2>6. ASSUME NEW i \in 1 .. Len(p) - from + 1
        PROVE  from + i - 1 \in 1 .. Len(p) /\ way[i] = p[from + i - 1]
    <3>1. from + i - 1 \in 1 .. Len(p)
      BY <2>2, <2>4
    <3> QED
      BY <3>1, <2>3, <2>5
  <2> DEFINE m == Len(p) - from + 1
             tail == SubSeq(p, from, Len(p))
  <2>7. way = tail
    <3>1. m \in Nat /\ \A i \in from .. Len(p) : p[i] \in Keys
      BY <2>2, <2>4
    <3>2. /\ tail \in Seq(Keys)
          /\ Len(tail) = IF from <= Len(p) THEN m ELSE 0
          /\ \A i \in 1 .. m : tail[i] = p[from + i - 1]
      BY <2>2, <2>4, <3>1, SubSeqProperties
    <3>3. Len(tail) = m
      BY <2>4, <3>2
    <3>4. way \in [1 .. m -> Keys]
      <4>1. \A i \in 1 .. m : way[i] \in Keys
        BY <2>2, <2>6
      <4>2. way = [i \in 1 .. m |-> way[i]]
        BY <2>3
      <4> QED
        BY <4>1, <4>2
    <3>5. way \in Seq(Keys)
      BY <3>1, <3>4, SeqDef
    <3>6. Len(way) = m
      BY <3>1, <3>4, <3>5, LenProperties
    <3>7. \A i \in 1 .. m : way[i] = tail[i]
      BY <2>6, <3>2
    <3> HIDE DEF m, tail
    <3> QED
      BY <3>2, <3>3, <3>5, <3>6, <3>7, SeqEqual
  <2>8. ASSUME ~loaded PROVE way = p
    <3>1. \A i \in 1 .. Len(p) : Up(i)
      BY <2>1, <2>2, <2>8 DEF Linked
    <3>2. from = 1
      BY <2>4, <3>1
    <3> QED
      BY <2>2, <2>7, <3>2, SubSeqFull
  <2> QED
    BY <2>4, <2>7, <2>8 DEF way
<1> QED
  BY <1>1, TreesAreBuilt, PTL

LEMMA SameNodesSameContents ==
    ASSUME NEW T, NEW U, SameNodes(T, U)
    PROVE  Contents(U) = Contents(T)
  BY DEF SameNodes, Contents

(* A change of the nodes or their data sets m_changed, except through       *)
(* removeChild: the other operations that leave the flag alone are lookups, *)
(* which add null pointers at most (setChanged, changed).                  *)
THEOREM ChangesSetTheFlag == Spec => ChangesAreFlagged
<1>1. Built /\ [Next]_vars =>
         [Contents(tree)' # Contents(tree) /\ ~changed' =>
             \E p \in Short, k \in Names : RemoveChild(p, k)]_vars
  <2> SUFFICES ASSUME Built, Next, Contents(tree') # Contents(tree), ~changed'
               PROVE  \E p \in Short, k \in Names : RemoveChild(p, k)
    OBVIOUS
  <2>1. tree' # tree /\ changed' # TRUE /\ Rooted(tree)
    BY DEF Built
  <2>2. ASSUME NEW p \in Paths, NEW d \in Data, Set(p, d) PROVE FALSE
    BY <2>1, <2>2 DEF Set
  <2>3. ASSUME NEW p \in Paths, Look(p) PROVE FALSE
    BY <2>1, <2>3, PathIsEntry, DescendKeepsNodes, SameNodesSameContents DEF Look
  <2>4. ASSUME NEW p \in Paths, Remove(p) PROVE FALSE
    BY <2>1, <2>4 DEF Remove
  <2>5. ASSUME NEW p \in Short, NEW k \in Names, NEW d \in Data, SetChild(p, k, d)
        PROVE  FALSE
    BY <2>1, <2>5 DEF SetChild
  <2>6. ASSUME NEW p \in Short, NEW k \in Names, GetChild(p, k) PROVE FALSE
    <3> DEFINE c == Append(p, k)
    <3>1. IsNode(tree, p) /\ tree' = Subscript(tree, c)
      BY <2>6 DEF GetChild
    <3>2. c \in Entries /\ \A i \in 1 .. Len(c) - 1 : Prefix(c, i) \in Nodes(tree)
      BY <2>1, <3>1, ChildOfNode
    <3> HIDE DEF c
    <3> QED
      BY <2>1, <3>1, <3>2, SubscriptKeepsNodes, SameNodesSameContents
  <2>7. CASE Clear \/ Visit \/ Read \/ CopyTo \/ ClearChanged
    BY <2>1, <2>7 DEF Clear, Visit, Read, CopyTo, ClearChanged
  <2> QED
    BY <2>2, <2>3, <2>4, <2>5, <2>6, <2>7 DEF Next
<1> QED
  BY <1>1, TreesAreBuilt, PTL DEF Spec, ChangesAreFlagged

-----------------------------------------------------------------------------
(* The cache and its thread: the variables keep their types.               *)
THEOREM CacheTypeCorrect == CacheSpec => []CacheTypeOK
<1>1. CacheInit => CacheTypeOK
  <2> SUFFICES ASSUME CacheInit PROVE CacheTypeOK
    OBVIOUS
  <2>1. starts \in 0 .. MaxStarts
    BY CacheThreadAssumption DEF CacheThreadAssumption, CacheInit
  <2> QED
    BY <2>1 DEF CacheInit, CacheTypeOK
<1>2. CacheTypeOK /\ [CacheNext]_cacheVars => CacheTypeOK'
  <2> SUFFICES ASSUME CacheTypeOK, [CacheNext]_cacheVars PROVE CacheTypeOK'
    OBVIOUS
  <2> USE CacheThreadAssumption DEF CacheThreadAssumption, CacheTypeOK
  <2>1. CASE Start
    <3>1. starts' \in 0 .. MaxStarts
      BY <2>1 DEF Start
    <3>2. threadFault' \in {"none", "terminate", "notJoinable", "race"}
      BY <2>1 DEF Start
    <3>3. handle' \in BOOLEAN
      BY <2>1, Zenon DEF Start
    <3>4. worker' \in {"none", "spawned", "test", "round", "ended"}
      BY <2>1 DEF Start
    <3> QED
      BY <2>1, <3>1, <3>2, <3>3, <3>4, Zenon DEF Start
  <2>2. CASE Stop
    BY <2>2 DEF Stop
  <2>3. CASE Join
    BY <2>3 DEF Join
  <2>4. ASSUME NEW e \in Endpoints, AddClient(e) PROVE CacheTypeOK'
    BY <2>4 DEF AddClient, EditCache
  <2>5. ASSUME NEW e \in Endpoints, RemoveClient(e) PROVE CacheTypeOK'
    BY <2>5 DEF RemoveClient, EditCache
  <2>6. ASSUME NEW e \in Endpoints, Connect(e) PROVE CacheTypeOK'
    BY <2>6 DEF Connect
  <2>7. CASE SetRunning
    BY <2>7 DEF SetRunning
  <2>8. CASE Test
    BY <2>8 DEF Test
  <2>9. CASE Processed
    BY <2>9 DEF Processed
  <2>10. CASE EndRound
    BY <2>10 DEF EndRound
  <2>11. ASSUME NEW e \in Endpoints, Process(e) PROVE CacheTypeOK'
    BY <2>11 DEF Process
  <2>12. CASE UNCHANGED cacheVars
    BY <2>12 DEF cacheVars
  <2>13. CASE StartFails
    BY <2>13 DEF StartFails
  <2>14. CASE Destroy
    BY <2>14, Zenon DEF Destroy
  <2> QED
    BY <2>1, <2>2, <2>3, <2>4, <2>5, <2>6, <2>7, <2>8, <2>9, <2>10, <2>11,
       <2>12, <2>13, <2>14 DEF CacheNext, Worker
<1> QED
  BY <1>1, <1>2, PTL DEF CacheSpec

(* The thread touches the cache only inside a round, and only what is left  *)
(* of the round; m_thread is joinable as long as there is a thread.         *)
RoundsAreClosed ==
    /\ at \subseteq todo
    /\ worker # "round" => todo = {}
    /\ Alive => handle

(* Once stop() returned no Client of the cache is in process() and none     *)
(* will be before the next start() (ClientCacheThread::stop).               *)
THEOREM QuietOnceStopped == CacheSpec => []StoppedIsQuiet
<1>1. CacheInit => RoundsAreClosed
  BY DEF CacheInit, RoundsAreClosed, Alive
<1>2. RoundsAreClosed /\ [CacheNext]_cacheVars => RoundsAreClosed'
  <2> SUFFICES ASSUME RoundsAreClosed, [CacheNext]_cacheVars PROVE RoundsAreClosed'
    OBVIOUS
  <2> USE DEF RoundsAreClosed, Alive
  (* The caller: start() makes a thread joinable, and join() only returns   *)
  (* after the thread's end.                                               *)
  <2>1. CASE Start
    BY <2>1 DEF Start
  <2>2. CASE Join
    BY <2>2 DEF Join
  <2>3. CASE Stop \/ \E e \in Endpoints : AddClient(e) \/ RemoveClient(e) \/ Connect(e)
    BY <2>3 DEF Stop, AddClient, RemoveClient, EditCache, Connect
  <2>9. CASE StartFails \/ Destroy
    BY <2>9 DEF StartFails, Destroy
  (* The thread: a round begins with all entries and ends with none.        *)
  <2>4. CASE Test
    BY <2>4 DEF Test
  <2>5. ASSUME NEW e \in Endpoints, Process(e) PROVE RoundsAreClosed'
    BY <2>5 DEF Process
  <2>6. CASE Processed
    BY <2>6 DEF Processed
  <2>7. CASE SetRunning \/ EndRound
    BY <2>7 DEF SetRunning, EndRound
  <2>8. CASE UNCHANGED cacheVars
    BY <2>8 DEF cacheVars
  <2> QED
    BY <2>1, <2>2, <2>3, <2>4, <2>5, <2>6, <2>7, <2>8, <2>9 DEF CacheNext, Worker
<1>3. RoundsAreClosed => StoppedIsQuiet
  BY DEF RoundsAreClosed, StoppedIsQuiet, Alive
<1> QED
  BY <1>1, <1>2, <1>3, PTL DEF CacheSpec
=============================================================================
