-------------------------- MODULE AddressSpaceProofs --------------------------
(***************************************************************************)
(* Proofs about AddressSpace for any address space, any number of threads  *)
(* and clients, and any number of calls.                                   *)
(*                                                                         *)
(* Every step changes the record of one caller, in one of eleven ways, and *)
(* only two of these change the address space (Stepping).  What a walk     *)
(* returns and what deleteTree may delete is proved whatever the other     *)
(* callers do meanwhile (Walks, Marks).  That folders are made once and    *)
(* deletions are complete needs calls that do not overlap (Orderly).       *)
(***************************************************************************)
EXTENDS AddressSpace, TLAPS

Calls == [op : Walking \cup Browsing \cup Ended, start : Nodes,
          path : Paths \cup {<<>>}, level : Nat, node : Nodes,
          agenda : SUBSET Nodes, seen : SUBSET Nodes]

(* How far a walk is.                                                      *)
Leveled(c) ==
    /\ c.level <= Len(c.path)
    /\ c.op \in Walking => c.level < Len(c.path)
    /\ c.op = "found" => c.level = Len(c.path)

Typing ==
    /\ there \subseteq Nodes
    /\ nameOf \in [Nodes -> Names \cup {NoName}]
    /\ refs \in [Nodes -> SUBSET there]
    /\ \A n \in Nodes \ there : refs[n] = {}
    /\ linked \subseteq Nodes \X Nodes
    /\ call \in [Callers -> Calls]
    /\ \A a \in Callers : Leveled(call[a])
    /\ begun \in 0 .. MaxCalls
    /\ overlapped \in BOOLEAN
    /\ misread \in BOOLEAN

-----------------------------------------------------------------------------
(* The records a call goes through.                                        *)
Planned(c) == [c EXCEPT !.op = "add"]
Without(c, n) == [c EXCEPT !.agenda = @ \ {n}]
With(c, n, children) == [c EXCEPT !.seen = @ \cup {n}, !.agenda = (@ \ {n}) \cup children]
Complete(c) == [c EXCEPT !.op = "delete"]
Reduced(c, n) == [c EXCEPT !.seen = @ \ {n},
                           !.op = IF c.seen = {n} THEN "deleted" ELSE @]

(* The steps of a caller, from its record c to its record d.               *)
SpaceStays == UNCHANGED <<there, nameOf, refs, linked>>
Noted(a) == /\ overlapped' = (overlapped \/ \E b \in Callers \ {a} : Active(b))
            /\ UNCHANGED misread

StartsWalk(a, c, d) ==
    /\ Noted(a) /\ c.op \in Ended
    /\ \E o \in {"create", "find"}, n \in there, p \in Paths : d = Request(o, n, p)

StartsBrowse(a, c, d) ==
    /\ Noted(a) /\ c.op \in Ended
    /\ \E n \in there : d = [Request("browse", n, <<>>) EXCEPT
                               !.seen = {n}, !.agenda = refs[n]]

(* down by a reference to the node with the next name,                      *)
Descends(c, d) ==
    /\ c.op \in {"create", "find"}
    /\ \E n \in refs[c.node] : nameOf[n] = c.path[c.level + 1] /\ d = Deeper(c, n)

(* no such node was seen, and it is to be made,                             *)
Plans(c, d) ==
    /\ c.op = "create"
    /\ misread' \/ \A n \in refs[c.node] : nameOf[n] # c.path[c.level + 1]
    /\ d = Planned(c)

(* or it is given up; a browse whose map was asked for ends so as well,     *)
GivesUp(c, d) == c.op # "delete" /\ d = Idle

(* or it is done,                                                          *)
Adds(c, d) ==
    /\ c.op = "add" /\ c.node \in there
    /\ \E n \in Unused :
          /\ there' = there \cup {n}
          /\ nameOf' = [nameOf EXCEPT ![n] = c.path[c.level + 1]]
          /\ refs' = [refs EXCEPT ![c.node] = @ \cup {n}]
          /\ linked' = linked \cup {<<c.node, n>>}
          /\ d = Deeper(c, n)

(* a child is passed over, or taken with children of its own,               *)
PassesOver(c, d) ==
    /\ c.op = "browse"
    /\ \E n \in c.agenda : /\ Namespace(n) # Namespace(c.start) \/ n \in c.seen
                           /\ d = Without(c, n)

Takes(c, d) ==
    /\ c.op = "browse"
    /\ \E n \in c.agenda : \E children \in SUBSET refs[n] :
          /\ Namespace(n) = Namespace(c.start)
          /\ misread' \/ children = refs[n]
          /\ d = With(c, n, children)

(* all were, and are deleted one by one.                                   *)
Collects(c, d) == c.op = "browse" /\ c.agenda = {} /\ d = Complete(c)

Cuts(c, d) ==
    /\ UNCHANGED <<nameOf, linked>>
    /\ c.op = "delete"
    /\ \E n \in c.seen :
          /\ \/ Namespace(n) > 0 /\ Delete(n)
             \/ Namespace(n) = 0 /\ UNCHANGED <<there, refs>>
             \/ misread' /\ UNCHANGED <<there, refs>>
          /\ d = Reduced(c, n)

(* A step inside a call: it does not begin one.                            *)
Continues(c, d) ==
    /\ UNCHANGED overlapped
    /\ misread => misread'
    /\ \/ /\ SpaceStays
          /\ \/ Descends(c, d) \/ Plans(c, d) \/ GivesUp(c, d)
             \/ PassesOver(c, d) \/ Takes(c, d) \/ Collects(c, d)
       \/ Adds(c, d)
       \/ Cuts(c, d)

Steps(a, d) ==
    \/ SpaceStays /\ (StartsWalk(a, call[a], d) \/ StartsBrowse(a, call[a], d))
    \/ call[a].op \notin Ended /\ Continues(call[a], d)

-----------------------------------------------------------------------------
LEMMA PathFacts ==
    /\ Nodes # {}
    /\ \A p \in Paths : /\ p \in Seq(Names) /\ Len(p) \in Nat /\ Len(p) > 0
                        /\ \A i \in 1 .. Len(p) : p[i] \in Names
    /\ <<>> \notin Paths /\ Len(<<>>) = 0
<1>1. Paths \subseteq Seq(Names) \ {<<>>} /\ Nodes # {}
  BY AddressSpaceAssumption DEF AddressSpaceAssumption
<1>2. \A p \in Seq(Names) : p # <<>> => Len(p) \in Nat /\ Len(p) > 0
  OBVIOUS
<1>3. \A p \in Seq(Names) : \A i \in 1 .. Len(p) : p[i] \in Names
  OBVIOUS
<1> QED
  BY <1>1, <1>2, <1>3

LEMMA IdleTypes == Idle \in Calls /\ Idle.op = "idle" /\ Leveled(Idle)
<1>1. (CHOOSE n \in Nodes : TRUE) \in Nodes
  BY PathFacts
<1>2. Len(<<>>) = 0
  BY PathFacts
<1> QED
  BY <1>1, <1>2 DEF Idle, Request, Calls, Leveled, Ended, Walking

(* The name a walk looks for.                                              *)
LEMMA NextName ==
    ASSUME NEW c \in Calls, Leveled(c), c.op \in Walking
    PROVE  c.path \in Paths /\ c.level + 1 \in 1 .. Len(c.path)
           /\ c.path[c.level + 1] \in Names
<1>1. c.path \in Paths \cup {<<>>} /\ c.level \in Nat /\ c.level < Len(c.path)
  BY DEF Calls, Leveled
<1>2. c.path \in Paths
  BY <1>1, PathFacts
<1>3. Len(c.path) \in Nat
  BY <1>2, PathFacts
<1>4. c.level + 1 \in 1 .. Len(c.path)
  BY <1>1, <1>3
<1> QED
  BY <1>2, <1>4, PathFacts

LEMMA DeeperTypes ==
    ASSUME NEW c \in Calls, Leveled(c), c.op \in Walking, NEW n \in Nodes
    PROVE  /\ Deeper(c, n) \in Calls /\ Leveled(Deeper(c, n))
           /\ Deeper(c, n).level = c.level + 1 /\ Deeper(c, n).node = n
           /\ Deeper(c, n).start = c.start /\ Deeper(c, n).path = c.path
           /\ Deeper(c, n).op \in {c.op, "found"}
<1>1. c.level + 1 \in 1 .. Len(c.path) /\ Len(c.path) \in Nat
  BY NextName, PathFacts
<1> DEFINE o == IF c.level + 1 = Len(c.path) THEN "found" ELSE c.op
           d == [c EXCEPT !.node = n, !.level = @ + 1, !.op = o]
<1>2. c.level \in Nat /\ c.level + 1 \in Nat /\ c.op \in Walking
  BY DEF Calls
<1>3. o \in Walking \cup Browsing \cup Ended /\ o \in {c.op, "found"}
  BY <1>2 DEF Ended
<1> HIDE DEF o
<1>4. /\ d \in Calls /\ d.level = c.level + 1 /\ d.node = n
      /\ d.start = c.start /\ d.path = c.path /\ d.op = o
  BY <1>2, <1>3 DEF Calls
<1> HIDE DEF d
<1>5. d.op \in Walking => d.level < Len(d.path)
  BY <1>1, <1>2, <1>4 DEF o, Walking
<1>6. d.op = "found" => d.level = Len(d.path)
  BY <1>1, <1>2, <1>4 DEF o, Walking
<1>7. Leveled(d)
  BY <1>1, <1>2, <1>4, <1>5, <1>6 DEF Leveled
<1>8. Deeper(c, n) = d
  BY DEF Deeper, d, o
<1> QED
  BY <1>3, <1>4, <1>7, <1>8

(* Every action is one of the steps.                                       *)
LEMMA WalkSteps ==
    ASSUME NEW a \in Callers, NEW children, Walk(a, children),
           SpaceStays, UNCHANGED overlapped,
           \/ children = refs[call[a].node] /\ UNCHANGED misread
           \/ children \subseteq refs[call[a].node] /\ misread'
    PROVE  \E d : Steps(a, d) /\ call' = [call EXCEPT ![a] = d]
<1> DEFINE c == call[a]
           matches == WithName(children, c.path[c.level + 1])
<1>1. /\ c.op \in {"create", "find"} /\ c.op \notin Ended
      /\ \/ \E n \in matches : call' = [call EXCEPT ![a] = Deeper(c, n)]
         \/ matches = {} /\ c.op = "create" /\ call' = [call EXCEPT ![a] = Planned(c)]
         \/ matches = {} /\ call' = [call EXCEPT ![a] = Idle]
  BY DEF Walk, Ended, Planned
<1>2. /\ matches \subseteq refs[c.node] /\ \A n \in matches : nameOf[n] = c.path[c.level + 1]
      /\ matches = {} => misread' \/ \A n \in refs[c.node] : nameOf[n] # c.path[c.level + 1]
      /\ misread => misread'
  BY DEF WithName
<1> HIDE DEF c, matches
<1>3. \E d : /\ Descends(c, d) \/ Plans(c, d) \/ GivesUp(c, d)
             /\ call' = [call EXCEPT ![a] = d]
  BY <1>1, <1>2 DEF Descends, Plans, GivesUp
<1>4. ASSUME NEW d, Descends(c, d) \/ Plans(c, d) \/ GivesUp(c, d)
      PROVE  Steps(a, d)
  BY <1>1, <1>2, <1>4 DEF Steps, Continues, c
<1> QED
  BY <1>3, <1>4

LEMMA BrowseSteps ==
    ASSUME NEW a \in Callers, NEW n \in call[a].agenda, NEW children,
           BrowseChild(a, n, children), SpaceStays, UNCHANGED overlapped,
           \/ children = refs[n] /\ UNCHANGED misread
           \/ children = {} /\ misread'
    PROVE  \E d : Steps(a, d) /\ call' = [call EXCEPT ![a] = d]
<1> DEFINE c == call[a]
<1>1. /\ c.op = "browse" /\ c.op \notin Ended
      /\ call' = [call EXCEPT ![a] =
            IF Namespace(n) # Namespace(c.start) \/ n \in c.seen
            THEN Without(c, n) ELSE With(c, n, children)]
  BY DEF BrowseChild, Without, With, Ended
<1>2. /\ children \in SUBSET refs[n]
      /\ misread' \/ children = refs[n]
      /\ misread => misread'
  OBVIOUS
<1> HIDE DEF c
<1>3. \E d : /\ PassesOver(c, d) \/ Takes(c, d)
             /\ call' = [call EXCEPT ![a] = d]
  <2>1. n \in c.agenda
    BY DEF c
  <2>2. CASE Namespace(n) # Namespace(c.start) \/ n \in c.seen
    BY <1>1, <2>1, <2>2 DEF PassesOver
  <2>3. CASE ~ (Namespace(n) # Namespace(c.start) \/ n \in c.seen)
    BY <1>1, <1>2, <2>1, <2>3 DEF Takes
  <2> QED
    BY <2>2, <2>3
<1>4. ASSUME NEW d, PassesOver(c, d) \/ Takes(c, d)
      PROVE  Steps(a, d)
  BY <1>1, <1>2, <1>4 DEF Steps, Continues, c
<1> QED
  BY <1>3, <1>4

LEMMA CutSteps ==
    ASSUME Typing, NEW a \in Callers, DeleteOne(a) \/ ClientDelete(a)
    PROVE  \E d : Steps(a, d) /\ call' = [call EXCEPT ![a] = d]
<1> DEFINE c == call[a]
<1>1. c \in Calls /\ call \in [Callers -> Calls]
  BY DEF Typing
<1>2. PICK n \in c.seen :
         /\ c.op = "delete" /\ UNCHANGED <<nameOf, linked, overlapped>>
         /\ call' = [call EXCEPT ![a].seen = @ \ {n},
                        ![a].op = IF c.seen = {n} THEN "deleted" ELSE @]
         /\ \/ /\ UNCHANGED misread
               /\ IF Namespace(n) > 0 THEN Delete(n) ELSE UNCHANGED <<there, refs>>
            \/ misread' = TRUE /\ UNCHANGED <<there, refs>>
  BY DEF DeleteOne, ClientDelete
<1>3. call' = [call EXCEPT ![a] = Reduced(c, n)]
  BY <1>1, <1>2 DEF Calls, Reduced
<1> HIDE DEF c
<1>4. Namespace(n) > 0 \/ Namespace(n) = 0
  BY DEF Namespace
<1>5. \/ Namespace(n) > 0 /\ Delete(n)
      \/ Namespace(n) = 0 /\ UNCHANGED <<there, refs>>
      \/ misread' /\ UNCHANGED <<there, refs>>
  BY <1>2, <1>4
<1>6. Cuts(c, Reduced(c, n))
  BY <1>2, <1>5 DEF Cuts
<1>7. Continues(c, Reduced(c, n)) /\ c.op \notin Ended
  BY <1>2, <1>6 DEF Continues, Ended
<1> QED
  BY <1>3, <1>7 DEF Steps, c

LEMMA Stepping ==
    ASSUME Typing, Next
    PROVE  /\ \E a \in Callers : \E d : Steps(a, d) /\ call' = [call EXCEPT ![a] = d]
           /\ begun' \in 0 .. MaxCalls
<1>1. ASSUME NEW a \in Callers, NEW n \in Nodes, NEW p \in Paths, BeginWalk(a, n, p)
      PROVE  \E d : Steps(a, d) /\ call' = [call EXCEPT ![a] = d]
  <2>1. PICK o \in {"create", "find"} : Begin(a, Request(o, n, p))
    BY <1>1 DEF BeginWalk
  <2> DEFINE d == Request(o, n, p)
  <2>2. call' = [call EXCEPT ![a] = d] /\ SpaceStays /\ Noted(a) /\ n \in there
    BY <2>1 DEF Begin, SpaceStays, Noted, Request
  <2>3. call[a].op \in Ended
    BY <2>1 DEF Begin, Active
  <2>4. StartsWalk(a, call[a], d)
    BY <2>2, <2>3 DEF StartsWalk
  <2> QED
    BY <2>2, <2>4 DEF Steps
<1>2. ASSUME NEW a \in Callers, NEW n \in Nodes, BeginBrowse(a, n)
      PROVE  \E d : Steps(a, d) /\ call' = [call EXCEPT ![a] = d]
  <2> DEFINE d == [Request("browse", n, <<>>) EXCEPT !.seen = {n}, !.agenda = Children(n)]
  <2>1. Begin(a, d)
    BY <1>2 DEF BeginBrowse
  <2>2. call' = [call EXCEPT ![a] = d] /\ SpaceStays /\ Noted(a) /\ n \in there
    BY <2>1 DEF Begin, SpaceStays, Noted, Request
  <2>3. call[a].op \in Ended
    BY <2>1 DEF Begin, Active
  <2>4. StartsBrowse(a, call[a], d)
    BY <2>2, <2>3 DEF StartsBrowse, Children
  <2> QED
    BY <2>2, <2>4 DEF Steps
<1>3. ASSUME NEW a \in Callers, ServerWalk(a) \/ ClientWalk(a)
      PROVE  \E d : Steps(a, d) /\ call' = [call EXCEPT ![a] = d]
  <2>1. SpaceStays /\ UNCHANGED overlapped
    BY <1>3 DEF ServerWalk, ClientWalk, SpaceStays
  <2>2. \/ Walk(a, refs[call[a].node]) /\ UNCHANGED misread
        \/ \E named \in SUBSET refs[call[a].node] : Walk(a, named) /\ misread'
    BY <1>3 DEF ServerWalk, ClientWalk, Children
  <2>3. CASE \E named \in SUBSET refs[call[a].node] : Walk(a, named) /\ misread'
    <3>1. PICK named \in SUBSET refs[call[a].node] : Walk(a, named) /\ misread'
      BY <2>3
    <3> QED
      BY <2>1, <3>1, WalkSteps
  <2> QED
    BY <2>1, <2>2, <2>3, WalkSteps
<1>4. ASSUME NEW a \in Callers, AddFolder(a) \/ AddRefused(a)
      PROVE  \E d : Steps(a, d) /\ call' = [call EXCEPT ![a] = d]
  <2>1. CASE AddRefused(a)
    BY <2>1 DEF AddRefused, Steps, Continues, GivesUp, SpaceStays, Ended
  <2>2. CASE AddFolder(a)
    <3> DEFINE n == CHOOSE m \in Unused : TRUE
    <3>1. n \in Unused
      BY <2>2 DEF AddFolder
    <3> HIDE DEF n
    <3>2. /\ UNCHANGED <<overlapped, misread>>
          /\ call[a].op = "add" /\ call[a].node \in there
          /\ there' = there \cup {n}
          /\ nameOf' = [nameOf EXCEPT ![n] = call[a].path[call[a].level + 1]]
          /\ refs' = [refs EXCEPT ![call[a].node] = @ \cup {n}]
          /\ linked' = linked \cup {<<call[a].node, n>>}
          /\ call' = [call EXCEPT ![a] = Deeper(call[a], n)]
      BY <2>2 DEF AddFolder, n
    <3>3. Adds(call[a], Deeper(call[a], n))
      BY <3>1, <3>2 DEF Adds
    <3> QED
      BY <3>2, <3>3 DEF Steps, Continues, Ended
  <2> QED
    BY <1>4, <2>1, <2>2
<1>5. ASSUME NEW a \in Callers, ServerBrowse(a) \/ ClientBrowse(a)
      PROVE  \E d : Steps(a, d) /\ call' = [call EXCEPT ![a] = d]
  <2>1. SpaceStays /\ UNCHANGED overlapped
    BY <1>5 DEF ServerBrowse, ClientBrowse, SpaceStays
  <2>2. \E n \in call[a].agenda :
           \/ BrowseChild(a, n, refs[n]) /\ UNCHANGED misread
           \/ BrowseChild(a, n, {}) /\ misread'
    BY <1>5 DEF ServerBrowse, ClientBrowse, Children
  <2> QED
    BY <2>1, <2>2, BrowseSteps
<1>6. ASSUME NEW a \in Callers, BrowseEnds(a)
      PROVE  \E d : Steps(a, d) /\ call' = [call EXCEPT ![a] = d]
  <2>1. /\ SpaceStays /\ UNCHANGED <<overlapped, misread>>
        /\ call[a].op = "browse" /\ call[a].agenda = {} /\ call[a].op \notin Ended
        /\ \E d \in {Idle, Complete(call[a])} : call' = [call EXCEPT ![a] = d]
    BY <1>6 DEF BrowseEnds, SpaceStays, Ended, Complete
  <2> QED
    BY <2>1 DEF Steps, Continues, Collects, GivesUp
<1>7. \E a \in Callers : \E d : Steps(a, d) /\ call' = [call EXCEPT ![a] = d]
  BY <1>1, <1>2, <1>3, <1>4, <1>5, <1>6, CutSteps
     DEF Next, ServerStep, ClientStep, Callers
<1>8. begun' \in 0 .. MaxCalls
  <2>1. MaxCalls \in Nat /\ begun \in 0 .. MaxCalls
    BY AddressSpaceAssumption DEF AddressSpaceAssumption, Typing
  <2>2. begun' = begun \/ (begun' = begun + 1 /\ begun < MaxCalls)
    BY DEF Next, ServerStep, ClientStep, BeginWalk, BeginBrowse, Begin, ServerWalk,
           ClientWalk, AddFolder, AddRefused, ServerBrowse, ClientBrowse, BrowseEnds,
           DeleteOne, ClientDelete
  <2> QED
    BY <2>1, <2>2
<1> QED
  BY <1>7, <1>8

-----------------------------------------------------------------------------
LEMMA TypingInit == Init => Typing
<1> SUFFICES ASSUME Init
             PROVE  Typing
  OBVIOUS
<1>1. /\ KnownNames \in [Nodes -> Names \cup {NoName}]
      /\ KnownRefs \in [Nodes -> SUBSET there]
      /\ \A n \in Nodes \ there : KnownRefs[n] = {}
      /\ MaxCalls \in Nat
  BY AddressSpaceAssumption DEF AddressSpaceAssumption, Init
<1>2. call \in [Callers -> Calls] /\ \A a \in Callers : Leveled(call[a])
  BY IdleTypes DEF Init
<1>3. /\ there \subseteq Nodes /\ nameOf = KnownNames /\ refs = KnownRefs
      /\ linked \subseteq Nodes \X Nodes
      /\ begun = 0 /\ overlapped = FALSE /\ misread = FALSE
  BY DEF Init
<1>4. begun \in 0 .. MaxCalls
  BY <1>1, <1>3
<1> QED
  BY <1>1, <1>2, <1>3, <1>4 DEF Typing

(* The records are records.                                                *)
LEMMA RecordTypes ==
    ASSUME NEW c \in Calls, Leveled(c), NEW n \in Nodes, NEW children \in SUBSET Nodes
    PROVE  /\ c.op = "create" =>
                 /\ Planned(c) \in Calls /\ Leveled(Planned(c))
                 /\ Planned(c) = [c EXCEPT !.op = "add"]
           /\ c.op \in Browsing =>
                 /\ Without(c, n) \in Calls /\ Leveled(Without(c, n))
                 /\ With(c, n, children) \in Calls /\ Leveled(With(c, n, children))
                 /\ Complete(c) \in Calls /\ Leveled(Complete(c))
                 /\ Reduced(c, n) \in Calls /\ Leveled(Reduced(c, n))
<1>1. ASSUME NEW d \in Calls, d.level = c.level, d.path = c.path,
             d.op \in Browsing \cup {"deleted"}
      PROVE  Leveled(d)
  BY <1>1 DEF Leveled, Browsing, Walking
<1>2. CASE c.op = "create"
  <2>1. /\ Planned(c) \in Calls /\ Planned(c).level = c.level /\ Planned(c).path = c.path
        /\ Planned(c).op = "add"
    BY DEF Planned, Calls, Walking
  <2>2. Leveled(Planned(c))
    BY <1>2, <2>1 DEF Leveled, Walking
  <2> QED
    BY <1>2, <2>1, <2>2 DEF Browsing, Planned
<1>3. CASE c.op \in Browsing
  <2>1. /\ Without(c, n) \in Calls /\ Without(c, n).level = c.level
        /\ Without(c, n).path = c.path /\ Without(c, n).op = c.op
    BY DEF Without, Calls
  <2>2. /\ With(c, n, children) \in Calls /\ With(c, n, children).level = c.level
        /\ With(c, n, children).path = c.path /\ With(c, n, children).op = c.op
    BY DEF With, Calls
  <2>3. /\ Complete(c) \in Calls /\ Complete(c).level = c.level
        /\ Complete(c).path = c.path /\ Complete(c).op = "delete"
    BY DEF Complete, Calls, Browsing
  <2>4. /\ Reduced(c, n) \in Calls /\ Reduced(c, n).level = c.level
        /\ Reduced(c, n).path = c.path /\ Reduced(c, n).op \in {c.op, "deleted"}
    BY <1>3 DEF Reduced, Calls, Browsing, Ended
  <2> QED
    BY <1>1, <1>3, <2>1, <2>2, <2>3, <2>4 DEF Browsing
<1> QED
  BY <1>2, <1>3

(* The record of a caller stays one.                                       *)
LEMMA StepTypes ==
    ASSUME Typing, NEW a \in Callers, NEW d, Steps(a, d)
    PROVE  d \in Calls /\ Leveled(d)
<1> DEFINE c == call[a]
<1>1. /\ c \in Calls /\ Leveled(c) /\ there \subseteq Nodes
      /\ \A n \in Nodes : refs[n] \subseteq Nodes
  BY DEF Typing
<1>2. c.seen \subseteq Nodes /\ c.agenda \subseteq Nodes /\ c.node \in Nodes
  BY <1>1 DEF Calls
<1> HIDE DEF c
<1>3. CASE StartsWalk(a, c, d)
  BY <1>1, <1>3, PathFacts DEF StartsWalk, Request, Calls, Leveled, Walking, Ended
<1>4. CASE StartsBrowse(a, c, d)
  <2>1. PICK n \in there : d = [Request("browse", n, <<>>) EXCEPT
                                  !.seen = {n}, !.agenda = refs[n]]
    BY <1>4 DEF StartsBrowse
  <2>2. d = [op |-> "browse", start |-> n, path |-> <<>>, level |-> 0, node |-> n,
             agenda |-> refs[n], seen |-> {n}]
    BY <2>1 DEF Request
  <2>3. d \in Calls
    BY <1>1, <2>2 DEF Calls, Browsing
  <2> QED
    BY <2>2, <2>3, PathFacts DEF Leveled, Walking
<1>5. CASE Descends(c, d) \/ Adds(c, d)
  <2>1. c.op \in Walking
    BY <1>5 DEF Descends, Adds, Walking
  <2>2. \E n \in Nodes : d = Deeper(c, n)
    BY <1>1, <1>2, <1>5 DEF Descends, Adds, Unused
  <2> QED
    BY <1>1, <2>1, <2>2, DeeperTypes
<1>6. CASE Plans(c, d)
  BY <1>1, <1>2, <1>6, RecordTypes DEF Plans
<1>7. CASE d = Idle
  BY <1>7, IdleTypes
<1>8. CASE PassesOver(c, d) \/ Takes(c, d) \/ Collects(c, d) \/ Cuts(c, d)
  <2>1. c.op \in Browsing
    BY <1>8 DEF PassesOver, Takes, Collects, Cuts, Browsing
  <2>2. \/ \E n \in Nodes : d = Without(c, n) \/ d = Reduced(c, n)
        \/ \E n \in Nodes, children \in SUBSET Nodes : d = With(c, n, children)
        \/ d = Complete(c)
    BY <1>1, <1>2, <1>8 DEF PassesOver, Takes, Collects, Cuts
  <2>3. CASE \E n \in Nodes : d = Without(c, n) \/ d = Reduced(c, n)
    BY <1>1, <2>1, <2>3, RecordTypes
  <2>4. CASE \E n \in Nodes, children \in SUBSET Nodes : d = With(c, n, children)
    BY <1>1, <2>1, <2>4, RecordTypes
  <2>5. CASE d = Complete(c)
    <3>1. PICK n \in Nodes : TRUE
      BY PathFacts
    <3> QED
      BY <1>1, <2>1, <2>5, <3>1, RecordTypes
  <2> QED
    BY <2>2, <2>3, <2>4, <2>5
<1> QED
  BY <1>3, <1>4, <1>5, <1>6, <1>7, <1>8 DEF Steps, Continues, GivesUp, c

LEMMA Moves ==
    ASSUME Typing, Next
    PROVE  \E a \in Callers, d \in Calls :
              Leveled(d) /\ Steps(a, d) /\ call' = [call EXCEPT ![a] = d]
BY Stepping, StepTypes

(* Only two of the steps change the address space.                         *)
LEMMA SpaceChanges ==
    ASSUME NEW a, NEW d, Steps(a, d)
    PROVE  SpaceStays \/ Adds(call[a], d) \/ Cuts(call[a], d)
BY DEF Steps, Continues

(* What deleteTree does to it.                                             *)
LEMMA CutsSpace ==
    ASSUME Typing, NEW c \in Calls, NEW d, Cuts(c, d)
    PROVE  /\ UNCHANGED <<nameOf, linked>>
           /\ \/ UNCHANGED <<there, refs>>
              \/ \E n \in c.seen :
                    /\ Namespace(n) > 0 /\ n \in Nodes
                    /\ there' = there \ {n}
                    /\ refs' \in [Nodes -> SUBSET there']
                    /\ \A m \in Nodes : refs'[m] = IF m = n THEN {} ELSE refs[m] \ {n}
<1>1. UNCHANGED <<nameOf, linked>>
  BY DEF Cuts
<1>2. UNCHANGED <<there, refs>> \/ \E n \in c.seen : Namespace(n) > 0 /\ Delete(n)
  BY DEF Cuts
<1>3. c.seen \subseteq Nodes
  BY DEF Calls
<1>4. ASSUME NEW n \in Nodes, Delete(n)
      PROVE  /\ there' = there \ {n}
             /\ refs' \in [Nodes -> SUBSET there']
             /\ \A m \in Nodes : refs'[m] = IF m = n THEN {} ELSE refs[m] \ {n}
  BY <1>4 DEF Delete, Typing
<1> QED
  BY <1>1, <1>2, <1>3, <1>4

LEMMA TypingStep == Typing /\ [Next]_vars => Typing'
<1> SUFFICES ASSUME Typing, [Next]_vars
             PROVE  Typing'
  OBVIOUS
<1>1. CASE UNCHANGED vars
  BY <1>1 DEF vars, Typing
<1>2. CASE Next
  <2>1. PICK a \in Callers, d \in Calls : Steps(a, d) /\ call' = [call EXCEPT ![a] = d]
    BY <1>2, Moves
  <2>2. call' \in [Callers -> Calls] /\ \A b \in Callers : Leveled(call'[b])
    BY <2>1, StepTypes DEF Typing
  <2>3. begun' \in 0 .. MaxCalls
    BY <1>2, Stepping
  <2>4. overlapped' \in BOOLEAN /\ misread' \in BOOLEAN
    BY <1>2 DEF Typing, Next, ServerStep, ClientStep, BeginWalk, BeginBrowse, Begin,
                ServerWalk, ClientWalk, AddFolder, AddRefused, ServerBrowse, ClientBrowse,
                BrowseEnds, DeleteOne, ClientDelete
  <2>5. /\ there' \subseteq Nodes /\ nameOf' \in [Nodes -> Names \cup {NoName}]
        /\ refs' \in [Nodes -> SUBSET there'] /\ linked' \subseteq Nodes \X Nodes
        /\ \A n \in Nodes \ there' : refs'[n] = {}
    <3>1. CASE SpaceStays
      BY <3>1 DEF SpaceStays, Typing
    <3>2. CASE Adds(call[a], d)
      <4>1. PICK n \in Unused :
              /\ there' = there \cup {n}
              /\ nameOf' = [nameOf EXCEPT ![n] = call[a].path[call[a].level + 1]]
              /\ refs' = [refs EXCEPT ![call[a].node] = @ \cup {n}]
              /\ linked' = linked \cup {<<call[a].node, n>>}
              /\ call[a].op = "add" /\ call[a].node \in there
        BY <3>2 DEF Adds
      <4>2. call[a].path[call[a].level + 1] \in Names /\ n \in Nodes
        BY <4>1, NextName DEF Typing, Walking, Unused
      <4> QED
        BY <4>1, <4>2 DEF Typing
    <3>3. CASE Cuts(call[a], d)
      <4>1. call[a] \in Calls
        BY DEF Typing
      <4>2. /\ UNCHANGED <<nameOf, linked>>
            /\ \/ UNCHANGED <<there, refs>>
               \/ \E n \in Nodes :
                     /\ there' = there \ {n} /\ refs' \in [Nodes -> SUBSET there']
                     /\ \A m \in Nodes : refs'[m] = IF m = n THEN {} ELSE refs[m] \ {n}
        BY <3>3, <4>1, CutsSpace
      <4>3. CASE UNCHANGED <<there, refs>>
        BY <4>2, <4>3 DEF Typing
      <4>4. CASE \E n \in Nodes :
                     /\ there' = there \ {n} /\ refs' \in [Nodes -> SUBSET there']
                     /\ \A m \in Nodes : refs'[m] = IF m = n THEN {} ELSE refs[m] \ {n}
        BY <4>2, <4>4 DEF Typing
      <4> QED
        BY <4>2, <4>3, <4>4
    <3> QED
      BY <2>1, <3>1, <3>2, <3>3, SpaceChanges
  <2> QED
    BY <2>2, <2>3, <2>4, <2>5 DEF Typing
<1> QED
  BY <1>1, <1>2

(* Types: references lead only to nodes that are there, and no caller is    *)
(* deeper in its path than that is long (createFolderPath, deleteTree).    *)
THEOREM TypeCorrect == Spec => []TypeOK
<1>1. Typing => TypeOK
  <2> SUFFICES ASSUME Typing, NEW a \in Callers
               PROVE  call[a].level \in 0 .. Len(call[a].path)
    BY DEF Typing, TypeOK, Calls
  <2>1. call[a] \in Calls /\ Leveled(call[a])
    BY DEF Typing
  <2>2. Len(call[a].path) \in Nat
    BY <2>1, PathFacts DEF Calls
  <2> QED
    BY <2>1, <2>2 DEF Calls, Leveled
<1> QED
  BY <1>1, TypingInit, TypingStep, PTL DEF Spec

-----------------------------------------------------------------------------
(* The address space and its history.                                      *)
Graph ==
    /\ \A n \in there : nameOf[n] # NoName
    /\ \A e \in linked : nameOf[e[1]] # NoName /\ nameOf[e[2]] # NoName
    /\ \A n \in Nodes : \A m \in refs[n] : <<n, m>> \in linked
    /\ \A e \in linked : e[1] \in there /\ e[2] \in there => e[2] \in refs[e[1]]
    /\ \A n \in Standard : nameOf[n] # NoName => n \in there

LEMMA GraphInit == Init => Graph
<1> SUFFICES ASSUME Init
             PROVE  Graph
  OBVIOUS
<1>1. /\ KnownRefs \in [Nodes -> SUBSET there]
      /\ \A n \in Nodes : KnownNames[n] = NoName => KnownRefs[n] = {}
      /\ Standard \subseteq Nodes
  BY AddressSpaceAssumption DEF AddressSpaceAssumption, Init
<1> QED
  BY <1>1 DEF Init, Graph

(* What is new in the address space is a node with a name of a path, and    *)
(* what goes is a node that deleteTree collected.                          *)
LEMMA GraphStep == Typing /\ Graph /\ [Next]_vars => Graph'
<1> SUFFICES ASSUME Typing, Graph, [Next]_vars
             PROVE  Graph'
  OBVIOUS
<1>1. CASE SpaceStays
  BY <1>1 DEF SpaceStays, Graph
<1>2. ASSUME NEW a \in Callers, NEW d, Adds(call[a], d)
      PROVE  Graph'
  <2> DEFINE c == call[a]
  <2>1. PICK n \in Unused :
          /\ there' = there \cup {n}
          /\ nameOf' = [nameOf EXCEPT ![n] = c.path[c.level + 1]]
          /\ refs' = [refs EXCEPT ![c.node] = @ \cup {n}]
          /\ linked' = linked \cup {<<c.node, n>>}
          /\ c.op = "add" /\ c.node \in there
    BY <1>2 DEF Adds
  <2>2. /\ c.path[c.level + 1] \in Names /\ NoName \notin Names
        /\ n \in Nodes /\ nameOf[n] = NoName /\ c.node \in Nodes
    BY <2>1, NextName, AddressSpaceAssumption
       DEF AddressSpaceAssumption, Typing, Walking, Unused
  <2>3. \A m \in Nodes : nameOf'[m] = IF m = n THEN c.path[c.level + 1] ELSE nameOf[m]
    BY <2>1 DEF Typing
  <2>4. \A m \in Nodes : refs'[m] = IF m = c.node THEN refs[m] \cup {n} ELSE refs[m]
    BY <2>1 DEF Typing
  <2> HIDE DEF c
  <2>5. n \notin there /\ there \subseteq Nodes /\ linked \subseteq Nodes \X Nodes
    BY <2>2 DEF Graph, Typing
  <2>6. \A e \in linked : e[1] \in Nodes /\ e[2] \in Nodes /\ e[1] # n /\ e[2] # n
    BY <2>2, <2>5 DEF Graph
  <2>7. \A m \in there' : nameOf'[m] # NoName
    BY <2>1, <2>2, <2>3, <2>5 DEF Graph
  <2>8. \A e \in linked' : nameOf'[e[1]] # NoName /\ nameOf'[e[2]] # NoName
    BY <2>1, <2>2, <2>3, <2>6, <2>7 DEF Graph
  <2>9. ASSUME NEW m \in Nodes, NEW k \in refs'[m]
        PROVE  <<m, k>> \in linked'
    <3>1. k \in refs[m] \/ (m = c.node /\ k = n)
      BY <2>4
    <3>2. CASE k \in refs[m]
      BY <2>1, <3>2 DEF Graph
    <3>3. CASE m = c.node /\ k = n
      BY <2>1, <3>3
    <3> QED
      BY <3>1, <3>2, <3>3
  <2>10. \A e \in linked' : e[1] \in there' /\ e[2] \in there' => e[2] \in refs'[e[1]]
    BY <2>1, <2>2, <2>4, <2>6 DEF Graph
  <2>11. \A m \in Standard : nameOf'[m] # NoName => m \in there'
    BY <2>1, <2>3, AddressSpaceAssumption DEF AddressSpaceAssumption, Graph
  <2> QED
    BY <2>7, <2>8, <2>9, <2>10, <2>11 DEF Graph
<1>3. ASSUME NEW a \in Callers, NEW d, Cuts(call[a], d)
      PROVE  Graph'
  <2>1. /\ UNCHANGED <<nameOf, linked>>
        /\ \/ UNCHANGED <<there, refs>>
           \/ \E n \in Nodes :
                 /\ Namespace(n) > 0
                 /\ there' = there \ {n}
                 /\ \A m \in Nodes : refs'[m] = IF m = n THEN {} ELSE refs[m] \ {n}
    BY <1>3, CutsSpace DEF Typing
  <2>2. CASE UNCHANGED <<there, refs>>
    BY <2>1, <2>2 DEF Graph
  <2>3. ASSUME NEW n \in Nodes, Namespace(n) > 0, there' = there \ {n},
               \A m \in Nodes : refs'[m] = IF m = n THEN {} ELSE refs[m] \ {n}
        PROVE  Graph'
    <3>1. n \notin Standard
      BY <2>3 DEF Namespace
    <3>2. \A e \in linked : e[1] \in Nodes /\ e[2] \in Nodes
      BY DEF Typing
    <3>3. \A m \in there' : nameOf'[m] # NoName
      BY <2>1, <2>3 DEF Graph
    <3>4. \A e \in linked' : nameOf'[e[1]] # NoName /\ nameOf'[e[2]] # NoName
      BY <2>1 DEF Graph
    <3>5. ASSUME NEW m \in Nodes, NEW k \in refs'[m]
          PROVE  <<m, k>> \in linked'
      <4>1. k \in refs[m]
        BY <2>3
      <4> QED
        BY <2>1, <4>1 DEF Graph
    <3>6. \A e \in linked' : e[1] \in there' /\ e[2] \in there' => e[2] \in refs'[e[1]]
      BY <2>1, <2>3, <3>2 DEF Graph
    <3>7. \A m \in Standard : nameOf'[m] # NoName => m \in there'
      BY <2>1, <2>3, <3>1 DEF Graph
    <3> QED
      BY <3>3, <3>4, <3>5, <3>6, <3>7 DEF Graph
  <2> QED
    BY <2>1, <2>2, <2>3
<1>4. CASE UNCHANGED vars
  BY <1>4 DEF vars, Graph
<1> QED
  BY <1>1, <1>2, <1>3, <1>4, Stepping, SpaceChanges

(* Names are kept and links remembered.                                    *)
LEMMA HistoryStays ==
    ASSUME Typing, NEW a \in Callers, NEW d, Steps(a, d)
    PROVE  /\ linked \subseteq linked'
           /\ \A n \in Nodes : nameOf[n] # NoName => nameOf'[n] = nameOf[n]
<1>1. CASE SpaceStays \/ Cuts(call[a], d)
  <2>1. UNCHANGED <<nameOf, linked>>
    BY <1>1, CutsSpace DEF SpaceStays, Typing
  <2> QED
    BY <2>1
<1>2. CASE Adds(call[a], d)
  BY <1>2 DEF Adds, Unused, Typing
<1> QED
  BY <1>1, <1>2, SpaceChanges

(* What the records of a browse or a deletion say.                         *)
LEMMA RecordFields ==
    ASSUME NEW c \in Calls, NEW n, NEW children
    PROVE  /\ Without(c, n).op = c.op /\ Without(c, n).start = c.start
           /\ Without(c, n).seen = c.seen /\ Without(c, n).agenda = c.agenda \ {n}
           /\ With(c, n, children).op = c.op /\ With(c, n, children).start = c.start
           /\ With(c, n, children).seen = c.seen \cup {n}
           /\ With(c, n, children).agenda = (c.agenda \ {n}) \cup children
           /\ Complete(c).op = "delete" /\ Complete(c).start = c.start
           /\ Complete(c).seen = c.seen
           /\ Reduced(c, n).start = c.start /\ Reduced(c, n).seen = c.seen \ {n}
           /\ Reduced(c, n).op = IF c.seen = {n} THEN "deleted" ELSE c.op
<1>1. /\ Without(c, n).op = c.op /\ Without(c, n).start = c.start
      /\ Without(c, n).seen = c.seen /\ Without(c, n).agenda = c.agenda \ {n}
  BY DEF Without, Calls
<1>2. /\ With(c, n, children).op = c.op /\ With(c, n, children).start = c.start
      /\ With(c, n, children).seen = c.seen \cup {n}
      /\ With(c, n, children).agenda = (c.agenda \ {n}) \cup children
  BY DEF With, Calls
<1>3. /\ Complete(c).op = "delete" /\ Complete(c).start = c.start
      /\ Complete(c).seen = c.seen
  BY DEF Complete, Calls
<1>4. /\ Reduced(c, n).start = c.start /\ Reduced(c, n).seen = c.seen \ {n}
      /\ Reduced(c, n).op = IF c.seen = {n} THEN "deleted" ELSE c.op
  BY DEF Reduced, Calls
<1> QED
  BY <1>1, <1>2, <1>3, <1>4

LEMMA BrowseFields ==
    ASSUME NEW c \in Calls, NEW d,
           PassesOver(c, d) \/ Takes(c, d) \/ Collects(c, d) \/ Cuts(c, d)
    PROVE  c.op \in Browsing /\ d.op \in Browsing \cup {"deleted"} /\ d.start = c.start
<1>1. CASE PassesOver(c, d)
  <2>1. \E n : c.op = "browse" /\ d = Without(c, n)
    BY <1>1 DEF PassesOver
  <2> QED
    BY <2>1 DEF Without, Calls, Browsing
<1>2. CASE Takes(c, d)
  BY <1>2, RecordFields DEF Takes, Browsing
<1>3. CASE Collects(c, d)
  BY <1>3, RecordFields DEF Collects, Browsing
<1>4. CASE Cuts(c, d)
  <2>1. \E n : c.op = "delete" /\ d = Reduced(c, n)
    BY <1>4 DEF Cuts
  <2> QED
    BY <2>1, RecordFields DEF Browsing
<1> QED
  BY <1>1, <1>2, <1>3, <1>4

-----------------------------------------------------------------------------
(* The way a walk has come.                                                *)
Trail(c, trail, names, links) ==
    /\ trail \in [0 .. c.level -> Nodes]
    /\ trail[0] = c.start
    /\ trail[c.level] = c.node
    /\ \A i \in 1 .. c.level : /\ names[trail[i]] = c.path[i]
                               /\ <<trail[i - 1], trail[i]>> \in links

Walks == \A a \in Callers :
    call[a].op \in Walking \cup {"found"} => \E trail : Trail(call[a], trail, nameOf, linked)

(* One reference further.                                                  *)
LEMMA TrailGrows ==
    ASSUME NEW c \in Calls, Leveled(c), c.op \in Walking, NEW n \in Nodes, NEW t,
           NEW names, NEW links, Trail(c, t, names, links),
           <<c.node, n>> \in links, names[n] = c.path[c.level + 1]
    PROVE  \E trail : Trail(Deeper(c, n), trail, names, links)
<1> DEFINE d == Deeper(c, n)
           u == [i \in 0 .. d.level |-> IF i = d.level THEN n ELSE t[i]]
<1>1. /\ d.level = c.level + 1 /\ d.node = n /\ d.start = c.start /\ d.path = c.path
      /\ c.level \in Nat
  BY DeeperTypes DEF Calls
<1>2. /\ t \in [0 .. c.level -> Nodes] /\ t[0] = c.start /\ t[c.level] = c.node
      /\ \A i \in 1 .. c.level : /\ names[t[i]] = c.path[i]
                                 /\ <<t[i - 1], t[i]>> \in links
  BY DEF Trail
<1> HIDE DEF d
<1>3. u \in [0 .. d.level -> Nodes]
  BY <1>1, <1>2
<1>4. u[0] = d.start /\ u[d.level] = d.node
  BY <1>1, <1>2
<1>5. ASSUME NEW i \in 1 .. d.level
      PROVE  names[u[i]] = d.path[i] /\ <<u[i - 1], u[i]>> \in links
  <2>1. CASE i = d.level
    <3>1. u[i] = n /\ u[i - 1] = c.node
      BY <1>1, <1>2, <2>1
    <3> QED
      BY <1>1, <2>1, <3>1
  <2>2. CASE i # d.level
    <3>1. i \in 1 .. c.level
      BY <1>1, <2>2
    <3>2. u[i] = t[i] /\ u[i - 1] = t[i - 1]
      BY <1>1, <2>2, <3>1
    <3> QED
      BY <1>1, <1>2, <3>1, <3>2
  <2> QED
    BY <2>1, <2>2
<1>6. Trail(d, u, names, links)
  BY <1>3, <1>4, <1>5 DEF Trail
<1> QED
  BY <1>6 DEF d

(* A trail stays one as names are kept and links remembered.               *)
LEMMA TrailStays ==
    ASSUME Typing, NEW a \in Callers, NEW d, Steps(a, d), NEW c \in Calls, Leveled(c), NEW t,
           Trail(c, t, nameOf, linked)
    PROVE  Trail(c, t, nameOf', linked')
<1>1. c.level \in Nat /\ c.level <= Len(c.path) /\ Len(c.path) \in Nat
  BY PathFacts DEF Calls, Leveled
<1>2. ASSUME NEW i \in 1 .. c.level
      PROVE  t[i] \in Nodes /\ nameOf[t[i]] = c.path[i]
  <2>1. i \in 0 .. c.level
    BY <1>1
  <2> QED
    BY <2>1 DEF Trail
<1>3. \A i \in 1 .. c.level : c.path[i] \in Names
  <2>1. \A i \in 1 .. c.level : i \in 1 .. Len(c.path)
    BY <1>1
  <2>2. c.path \in Paths \/ c.level = 0
    BY <1>1, PathFacts DEF Calls
  <2> QED
    BY <2>1, <2>2, PathFacts
<1>4. \A i \in 1 .. c.level : nameOf'[t[i]] = c.path[i]
  BY <1>2, <1>3, HistoryStays, AddressSpaceAssumption DEF AddressSpaceAssumption
<1> QED
  BY <1>4, HistoryStays DEF Trail

LEMMA WalksInit == Init => Walks
BY IdleTypes DEF Init, Walks, Walking

LEMMA WalksStep == Typing /\ Graph /\ Walks /\ [Next]_vars => Walks'
<1> SUFFICES ASSUME Typing, Graph, Walks, Next
             PROVE  Walks'
  <2>1. CASE UNCHANGED vars
    BY <2>1 DEF vars, Walks
  <2> QED
    BY <2>1
<1>1. PICK a \in Callers, d \in Calls : Steps(a, d) /\ call' = [call EXCEPT ![a] = d]
  BY Moves
<1>2. \A b \in Callers : call'[b] = IF b = a THEN d ELSE call[b]
  BY <1>1 DEF Typing
<1>3. ASSUME NEW b \in Callers, call[b].op \in Walking \cup {"found"}
      PROVE  \E t : Trail(call[b], t, nameOf', linked')
  <2>1. PICK t : Trail(call[b], t, nameOf, linked)
    BY <1>3 DEF Walks
  <2>2. call[b] \in Calls /\ Leveled(call[b])
    BY DEF Typing
  <2> QED
    BY <1>1, <2>1, <2>2, TrailStays
<1> DEFINE c == call[a]
<1>4. c \in Calls /\ Leveled(c)
  BY DEF Typing
<1>5. ASSUME d.op \in Walking \cup {"found"}
      PROVE  \E t : Trail(d, t, nameOf', linked')
  <2>1. CASE StartsWalk(a, c, d)
    <3>1. PICK o \in {"create", "find"}, n \in there, p \in Paths : d = Request(o, n, p)
      BY <2>1 DEF StartsWalk
    <3>2. d.level = 0 /\ d.start = n /\ d.node = n /\ n \in Nodes
      BY <3>1 DEF Request, Typing
    <3>3. Trail(d, [i \in 0 .. 0 |-> n], nameOf', linked')
      BY <3>2 DEF Trail
    <3> QED
      BY <3>3
  <2>2. CASE Descends(c, d) \/ Adds(c, d)
    <3>1. c.op \in Walking /\ c.node \in Nodes
      BY <1>4, <2>2 DEF Descends, Adds, Walking, Calls
    <3>2. PICK n \in Nodes : /\ d = Deeper(c, n) /\ <<c.node, n>> \in linked'
                             /\ nameOf'[n] = c.path[c.level + 1]
      <4>1. CASE Descends(c, d)
        <5>1. PICK n \in refs[c.node] : nameOf[n] = c.path[c.level + 1] /\ d = Deeper(c, n)
          BY <4>1 DEF Descends
        <5>2. n \in Nodes /\ <<c.node, n>> \in linked /\ nameOf[n] # NoName
          BY <3>1, <5>1 DEF Typing, Graph
        <5> QED
          BY <1>1, <5>1, <5>2, HistoryStays
      <4>2. CASE Adds(c, d)
        BY <4>2 DEF Adds, Unused, Typing
      <4> QED
        BY <2>2, <4>1, <4>2
    <3>3. PICK t : Trail(c, t, nameOf', linked')
      BY <1>3, <3>1
    <3> QED
      BY <1>4, <3>1, <3>2, <3>3, TrailGrows
  <2>3. CASE Plans(c, d)
    <3>1. c.op \in Walking
      BY <2>3 DEF Plans, Walking
    <3>2. PICK t : Trail(c, t, nameOf', linked')
      BY <1>3, <3>1
    <3>3. d.level = c.level /\ d.path = c.path /\ d.start = c.start /\ d.node = c.node
      BY <1>4, <2>3 DEF Plans, Planned, Calls
    <3> QED
      BY <3>2, <3>3 DEF Trail
  <2>4. d.op \notin Browsing \cup {"idle", "deleted"}
    BY <1>5 DEF Walking, Browsing
  <2>5. ~ StartsBrowse(a, c, d) /\ d # Idle
    BY <2>4, IdleTypes DEF StartsBrowse, Request, Browsing
  <2>6. ~ (PassesOver(c, d) \/ Takes(c, d) \/ Collects(c, d) \/ Cuts(c, d))
    BY <1>4, <2>4, BrowseFields
  <2> QED
    BY <1>1, <2>1, <2>2, <2>3, <2>5, <2>6 DEF Steps, Continues, GivesUp
<1> QED
  BY <1>2, <1>3, <1>5 DEF Walks

(* The walks of the other callers change nothing about it: a node that was *)
(* found is at the end of the path (createFolderPath, nodeIdFromPath).     *)
THEOREM WalksFollowTheirPath == Spec => []FoundIsOnPath
<1>1. Typing /\ Walks => FoundIsOnPath
  <2> SUFFICES ASSUME Typing, Walks, NEW a \in Callers, call[a].op = "found"
               PROVE  \E trail \in [0 .. Len(call[a].path) -> Nodes] :
                         /\ trail[0] = call[a].start
                         /\ trail[Len(call[a].path)] = call[a].node
                         /\ \A i \in 1 .. Len(call[a].path) :
                               /\ nameOf[trail[i]] = call[a].path[i]
                               /\ <<trail[i - 1], trail[i]>> \in linked
    BY DEF FoundIsOnPath
  <2>1. PICK trail : Trail(call[a], trail, nameOf, linked)
    BY DEF Walks
  <2>2. call[a].level = Len(call[a].path)
    BY DEF Typing, Leveled
  <2> QED
    BY <2>1, <2>2 DEF Trail
<1> QED
  BY <1>1, TypingInit, TypingStep, GraphInit, GraphStep, WalksInit, WalksStep, PTL DEF Spec
-----------------------------------------------------------------------------
(* What lies below a node.                                                 *)
LEMMA BelowFacts ==
    ASSUME NEW R, NEW n \in Nodes
    PROVE  /\ n \in Below(R, n)
           /\ Below(R, n) \subseteq Nodes
           /\ \A m \in Below(R, n), k \in Nodes : <<m, k>> \in R => k \in Below(R, n)
BY DEF Below, ClosedUnder

LEMMA BelowIsLeast ==
    ASSUME NEW R, NEW n \in Nodes, NEW C \in SUBSET Nodes, n \in C, ClosedUnder(R, C)
    PROVE  Below(R, n) \subseteq C
BY DEF Below

LEMMA BelowGrows ==
    ASSUME NEW R, NEW S, R \subseteq S, NEW n \in Nodes
    PROVE  Below(R, n) \subseteq Below(S, n)
BY DEF Below, ClosedUnder

(* What a browse has taken lies below its start, in one namespace.         *)
Marked(c, links) ==
    c.op \in Browsing =>
        /\ c.seen \cup c.agenda \subseteq Below(links, c.start)
        /\ \A n \in c.seen : Namespace(n) = Namespace(c.start)

Marks == \A a \in Callers : Marked(call[a], linked)

LEMMA MarksInit == Init => Marks
BY IdleTypes DEF Init, Marks, Marked, Browsing

LEMMA MarksStep == Typing /\ Graph /\ Marks /\ [Next]_vars => Marks'
<1> SUFFICES ASSUME Typing, Graph, Marks, Next
             PROVE  Marks'
  <2>1. CASE UNCHANGED vars
    BY <2>1 DEF vars, Marks
  <2> QED
    BY <2>1
<1>1. PICK a \in Callers, d \in Calls : Steps(a, d) /\ call' = [call EXCEPT ![a] = d]
  BY Moves
<1>2. \A b \in Callers : call'[b] = IF b = a THEN d ELSE call[b]
  BY <1>1 DEF Typing
<1>3. ASSUME NEW c \in Calls, Marked(c, linked)
      PROVE  Marked(c, linked')
  <2>1. Below(linked, c.start) \subseteq Below(linked', c.start)
    BY <1>1, HistoryStays, BelowGrows DEF Calls
  <2> QED
    BY <1>3, <2>1 DEF Marked
<1>4. \A b \in Callers : call[b] \in Calls /\ Marked(call[b], linked)
  BY DEF Typing, Marks
<1> DEFINE c == call[a]
<1>5. Marked(d, linked')
  <2>1. CASE StartsBrowse(a, c, d)
    <3>1. PICK n \in there : d = [Request("browse", n, <<>>) EXCEPT
                                    !.seen = {n}, !.agenda = refs[n]]
      BY <2>1 DEF StartsBrowse
    <3>2. d.seen = {n} /\ d.agenda = refs[n] /\ d.start = n
      BY <3>1 DEF Request
    <3>3. n \in Nodes /\ \A m \in refs[n] : m \in Nodes /\ <<n, m>> \in linked'
      BY <1>1, HistoryStays DEF Typing, Graph
    <3> QED
      BY <3>2, <3>3, BelowFacts DEF Marked
  <2>2. CASE PassesOver(c, d) \/ Takes(c, d) \/ Collects(c, d) \/ Cuts(c, d)
    <3>1. /\ c \in Calls /\ c.op \in Browsing /\ d.start = c.start
          /\ c.start \in Nodes /\ c.agenda \subseteq Nodes
      BY <1>4, <2>2, BrowseFields DEF Calls
    <3> DEFINE B == Below(linked', c.start)
    <3>2. c.seen \cup c.agenda \subseteq B /\ \A n \in c.seen : Namespace(n) = Namespace(c.start)
      BY <1>3, <1>4, <3>1 DEF Marked
    <3>3. \A n \in c.agenda : refs[n] \subseteq B
      <4>1. \A n \in c.agenda : \A m \in refs[n] : m \in Nodes /\ <<n, m>> \in linked'
        BY <1>1, <3>1, HistoryStays DEF Typing, Graph
      <4> QED
        BY <3>1, <3>2, <4>1, BelowFacts
    <3> HIDE DEF B, c
    <3>4. /\ d.seen \subseteq B /\ \A n \in d.seen : Namespace(n) = Namespace(c.start)
          /\ d.op \in Browsing => d.agenda \subseteq B
      <4>1. CASE PassesOver(c, d)
        <5>1. \E n : d = Without(c, n)
          BY <4>1 DEF PassesOver
        <5>2. d.seen = c.seen /\ d.agenda \subseteq c.agenda
          BY <3>1, <5>1 DEF Without, Calls
        <5> QED
          BY <3>2, <5>2
      <4>2. CASE Takes(c, d)
        <5>1. PICK n \in c.agenda : \E children \in SUBSET refs[n] :
                Namespace(n) = Namespace(c.start) /\ d = With(c, n, children)
          BY <4>2 DEF Takes
        <5>2. PICK children \in SUBSET refs[n] : d = With(c, n, children)
          BY <5>1
        <5>3. d.seen = c.seen \cup {n} /\ d.agenda = (c.agenda \ {n}) \cup children
          BY <3>1, <5>2, RecordFields
        <5> QED
          BY <3>2, <3>3, <5>1, <5>3
      <4>3. CASE Collects(c, d)
        BY <3>1, <3>2, <4>3 DEF Collects, Complete, Calls
      <4>4. CASE Cuts(c, d)
        <5>1. PICK n \in c.seen : d = Reduced(c, n)
          BY <4>4 DEF Cuts
        <5>2. d.seen = c.seen \ {n} /\ d.agenda = c.agenda
          BY <3>1, <5>1 DEF Reduced, Calls
        <5> QED
          BY <3>2, <5>2
      <4> QED
        BY <2>2, <4>1, <4>2, <4>3, <4>4
    <3> QED
      BY <3>1, <3>4 DEF Marked, B
  <2>3. CASE StartsWalk(a, c, d) \/ GivesUp(c, d)
    BY <2>3, IdleTypes DEF StartsWalk, GivesUp, Request, Marked, Browsing
  <2>4. CASE Plans(c, d)
    BY <1>4, <2>4 DEF Plans, Planned, Calls, Marked, Browsing
  <2>5. CASE Descends(c, d) \/ Adds(c, d)
    <3>1. c.op \in Walking /\ Leveled(c) /\ c \in Calls
      BY <2>5 DEF Descends, Adds, Walking, Typing
    <3>2. \E n \in Nodes : d = Deeper(c, n)
      BY <2>5, <3>1 DEF Descends, Adds, Unused, Typing, Calls
    <3>3. d.op \in {c.op, "found"}
      BY <3>1, <3>2, DeeperTypes
    <3> QED
      BY <3>1, <3>3 DEF Marked, Walking, Browsing
  <2> QED
    BY <1>1, <2>1, <2>2, <2>3, <2>4, <2>5 DEF Steps, Continues
<1> QED
  BY <1>2, <1>3, <1>4, <1>5 DEF Marks

(* Whatever the other callers add or delete meanwhile, deleteTree stays     *)
(* below its start, in the start's namespace, and out of namespace 0.      *)
THEOREM DeletionsStayBelow == Spec => CutsOnlyBelow
<1> DEFINE MayGo(n) ==
        \E a \in Callers :
           /\ call[a].op = "delete"
           /\ Namespace(n) = Namespace(call[a].start) /\ Namespace(n) # 0
           /\ n \in Below(linked, call[a].start)
<1>1. ASSUME Typing, Marks, Next, NEW n \in there \ there'
      PROVE  MayGo(n)
  <2>1. PICK a \in Callers, d \in Calls : Steps(a, d)
    BY <1>1, Moves
  <2>2. Cuts(call[a], d)
    BY <1>1, <2>1, SpaceChanges DEF SpaceStays, Adds
  <2>3. call[a] \in Calls /\ call[a].op = "delete"
    BY <1>1, <2>2 DEF Typing, Cuts
  <2>4. n \in call[a].seen /\ Namespace(n) > 0
    BY <1>1, <2>2, <2>3, CutsSpace
  <2>5. /\ Namespace(n) = Namespace(call[a].start)
        /\ n \in Below(linked, call[a].start)
    BY <1>1, <2>3, <2>4 DEF Marks, Marked, Browsing
  <2> QED
    BY <2>3, <2>4, <2>5
<1>2. Typing /\ Marks /\ [Next]_vars => [\A n \in there \ there' : MayGo(n)]_vars
  BY <1>1 DEF vars
<1> QED
  BY <1>2, TypingInit, TypingStep, GraphInit, GraphStep, MarksInit, MarksStep, PTL
     DEF Spec, CutsOnlyBelow

-----------------------------------------------------------------------------
(* A call starts at a node that was there.                                 *)
Rooted == \A a \in Callers : call[a].op # "idle" => nameOf[call[a].start] # NoName

(* A call leaves the start it has.                                         *)
LEMMA StartStays ==
    ASSUME Typing, NEW a \in Callers, NEW d, Steps(a, d), d.op # "idle"
    PROVE  d.start \in there \/ (call[a].op # "idle" /\ d.start = call[a].start)
<1> DEFINE c == call[a]
<1>1. c \in Calls /\ Leveled(c)
  BY DEF Typing
<1>2. CASE StartsWalk(a, c, d)
  BY <1>2 DEF StartsWalk, Request
<1>3. CASE StartsBrowse(a, c, d)
  BY <1>3 DEF StartsBrowse, Request
<1>4. CASE Continues(c, d) /\ c.op # "idle"
  <2>1. CASE Descends(c, d) \/ Adds(c, d)
    <3>1. c.op \in Walking
      BY <2>1 DEF Descends, Adds, Walking
    <3>2. \E n \in Nodes : d = Deeper(c, n)
      BY <1>1, <2>1 DEF Descends, Adds, Unused, Typing, Calls
    <3> QED
      BY <1>1, <1>4, <3>1, <3>2, DeeperTypes
  <2>2. CASE Plans(c, d)
    BY <1>1, <1>4, <2>2 DEF Plans, Planned, Calls
  <2>3. ~ GivesUp(c, d)
    BY IdleTypes DEF GivesUp
  <2>4. CASE PassesOver(c, d) \/ Takes(c, d) \/ Collects(c, d) \/ Cuts(c, d)
    BY <1>1, <1>4, <2>4, BrowseFields
  <2> QED
    BY <1>4, <2>1, <2>2, <2>3, <2>4 DEF Continues
<1> QED
  BY <1>2, <1>3, <1>4 DEF Steps, Ended

LEMMA RootedInit == Init => Rooted
BY IdleTypes DEF Init, Rooted

LEMMA RootedStep == Typing /\ Graph /\ Rooted /\ [Next]_vars => Rooted'
<1> SUFFICES ASSUME Typing, Graph, Rooted, Next
             PROVE  Rooted'
  <2>1. CASE UNCHANGED vars
    BY <2>1 DEF vars, Rooted
  <2> QED
    BY <2>1
<1>1. PICK a \in Callers, d \in Calls : Steps(a, d) /\ call' = [call EXCEPT ![a] = d]
  BY Moves
<1>2. \A b \in Callers : call'[b] = IF b = a THEN d ELSE call[b]
  BY <1>1 DEF Typing
<1>3. \A n \in Nodes : nameOf[n] # NoName => nameOf'[n] # NoName
  BY <1>1, HistoryStays
<1>4. \A b \in Callers : call[b].start \in Nodes
  BY DEF Typing, Calls
<1>5. d.op # "idle" => nameOf'[d.start] # NoName
  <2>1. \A n \in there : n \in Nodes /\ nameOf[n] # NoName
    BY DEF Typing, Graph
  <2> QED
    BY <1>1, <1>3, <1>4, <2>1, StartStays DEF Rooted
<1> QED
  BY <1>2, <1>3, <1>4, <1>5 DEF Rooted

-----------------------------------------------------------------------------
(* Calls one after the other.  A folder is to be made only where its name   *)
(* is not taken, a browse has looked at all nodes in its map but those on   *)
(* its agenda, and what is cut off is about to be deleted as well.         *)
Alone == \A a, b \in Callers : Active(a) /\ Active(b) => a = b

Fresh(c, names, children) ==
    c.op = "add" => \A m \in children[c.node] : names[m] # c.path[c.level + 1]

Spread(c, nodes, children) ==
    /\ c.op = "browse" =>
          /\ c.start \in c.seen
          /\ \A n \in c.seen : \A m \in children[n] :
                Namespace(m) = Namespace(c.start) => m \in c.seen \cup c.agenda
    /\ c.op = "delete" /\ Namespace(c.start) # 0 =>
          /\ c.start \in c.seen \/ c.start \notin nodes
          /\ \A n \in c.seen : \A m \in children[n] :
                Namespace(m) = Namespace(c.start) => m \in c.seen

Cut == \A e \in WithinNamespace(linked) :
          e[1] \notin there /\ e[2] \in there =>
              \E a \in Callers : call[a].op = "delete" /\ e[2] \in call[a].seen

Orderly ==
    ~overlapped /\ ~misread =>
        /\ Alone
        /\ \A a \in Callers : Fresh(call[a], nameOf, refs) /\ Spread(call[a], there, refs)
        /\ Cut

LEMMA OrderlyInit == Init => Orderly
<1> SUFFICES ASSUME Init
             PROVE  /\ Alone /\ Cut
                    /\ \A a \in Callers :
                          Fresh(call[a], nameOf, refs) /\ Spread(call[a], there, refs)
  BY DEF Orderly
<1>1. \A a \in Callers : call[a].op = "idle"
  BY IdleTypes DEF Init
<1>2. Alone /\ \A a \in Callers : Fresh(call[a], nameOf, refs) /\ Spread(call[a], there, refs)
  BY <1>1 DEF Alone, Active, Ended, Fresh, Spread
<1>3. Cut
  <2>1. \A e \in linked : e[1] \in there
    BY AddressSpaceAssumption DEF AddressSpaceAssumption, Init
  <2> QED
    BY <2>1 DEF Cut, WithinNamespace
<1> QED
  BY <1>2, <1>3

(* Then all other callers are at rest.                                     *)
LEMMA OthersRest ==
    ASSUME Orderly, NEW a \in Callers, NEW d, Steps(a, d), ~ overlapped', ~ misread'
    PROVE  /\ ~ overlapped /\ ~ misread
           /\ \A b \in Callers \ {a} : call[b].op \in Ended
<1>1. CASE call[a].op \in Ended
  <2>1. Noted(a)
    BY <1>1 DEF Steps, StartsWalk, StartsBrowse
  <2>2. ~ overlapped /\ ~ \E b \in Callers \ {a} : Active(b)
    BY <2>1, Zenon DEF Noted
  <2>3. ~ misread
    BY <2>1 DEF Noted
  <2> QED
    BY <2>2, <2>3 DEF Active
<1>2. CASE call[a].op \notin Ended
  <2>1. Continues(call[a], d)
    BY <1>2 DEF Steps, StartsWalk, StartsBrowse
  <2>2. ~ overlapped /\ ~ misread
    BY <2>1 DEF Continues
  <2> QED
    BY <1>2, <2>2 DEF Orderly, Alone, Active
<1> QED
  BY <1>1, <1>2

LEMMA FreshStep ==
    ASSUME Typing, Graph, NEW a \in Callers, NEW d, Steps(a, d), ~ misread'
    PROVE  Fresh(d, nameOf', refs')
<1> SUFFICES ASSUME d.op = "add"
             PROVE  \A m \in refs'[d.node] : nameOf'[m] # d.path[d.level + 1]
  BY DEF Fresh
<1> DEFINE c == call[a]
<1>1. c \in Calls /\ Leveled(c)
  BY DEF Typing
<1>2. ~ StartsWalk(a, c, d) /\ ~ StartsBrowse(a, c, d) /\ ~ GivesUp(c, d)
  <2>1. ~ StartsWalk(a, c, d)
    BY DEF StartsWalk, Request
  <2>2. ~ StartsBrowse(a, c, d)
    BY DEF StartsBrowse, Request
  <2>3. ~ GivesUp(c, d)
    BY IdleTypes DEF GivesUp
  <2> QED
    BY <2>1, <2>2, <2>3
<1>3. ~ (PassesOver(c, d) \/ Takes(c, d) \/ Collects(c, d) \/ Cuts(c, d))
  BY <1>1, BrowseFields DEF Browsing
<1>4. ~ Descends(c, d)
  <2> SUFFICES ASSUME Descends(c, d)
               PROVE  FALSE
    OBVIOUS
  <2>1. c.op \in {"create", "find"} /\ \E n \in Nodes : d = Deeper(c, n)
    BY <1>1 DEF Descends, Typing, Calls
  <2> QED
    BY <1>1, <2>1, DeeperTypes DEF Walking
<1>5. CASE Adds(c, d)
  <2>1. PICK n \in Unused : /\ refs' = [refs EXCEPT ![c.node] = @ \cup {n}]
                            /\ d = Deeper(c, n)
                            /\ c.op = "add" /\ c.node \in there
    BY <1>5 DEF Adds
  <2>2. n \in Nodes /\ n \notin there
    BY <2>1 DEF Unused, Graph
  <2>3. d.node = n
    BY <1>1, <2>1, <2>2, DeeperTypes DEF Walking
  <2> QED
    BY <2>1, <2>2, <2>3 DEF Typing
<1>6. CASE SpaceStays /\ Plans(c, d)
  <2>1. d.node = c.node /\ d.path = c.path /\ d.level = c.level
    BY <1>1, <1>6 DEF Plans, Planned, Calls
  <2> QED
    BY <1>6, <2>1 DEF Plans, SpaceStays
<1> QED
  BY <1>2, <1>3, <1>4, <1>5, <1>6 DEF Steps, Continues

LEMMA SpreadStep ==
    ASSUME Typing, Marks, NEW a \in Callers, Spread(call[a], there, refs),
           NEW d, Steps(a, d), ~ misread'
    PROVE  Spread(d, there', refs')
<1> DEFINE c == call[a]
<1>1. c \in Calls /\ Leveled(c) /\ Marked(c, linked)
  BY DEF Typing, Marks
<1>2. CASE SpaceStays /\ StartsBrowse(a, c, d)
  <2>1. PICK n \in there : d = [Request("browse", n, <<>>) EXCEPT
                                  !.seen = {n}, !.agenda = refs[n]]
    BY <1>2 DEF StartsBrowse
  <2>2. d.seen = {n} /\ d.agenda = refs[n] /\ d.start = n /\ d.op = "browse"
    BY <2>1 DEF Request
  <2> QED
    BY <1>2, <2>2 DEF Spread, SpaceStays
<1>3. CASE StartsWalk(a, c, d) \/ GivesUp(c, d)
  BY <1>3, IdleTypes DEF StartsWalk, GivesUp, Request, Spread
<1>4. CASE Descends(c, d) \/ Plans(c, d) \/ Adds(c, d)
  <2>1. c.op \in Walking
    BY <1>4 DEF Descends, Plans, Adds, Walking
  <2>2. Plans(c, d) \/ \E n \in Nodes : d = Deeper(c, n)
    BY <1>1, <1>4 DEF Descends, Adds, Unused, Typing, Calls
  <2>3. d.op \in Walking \cup {"found"}
    <3>1. CASE Plans(c, d)
      BY <1>1, <3>1 DEF Plans, Planned, Calls, Walking
    <3>2. CASE \E n \in Nodes : d = Deeper(c, n)
      BY <1>1, <2>1, <3>2, DeeperTypes
    <3> QED
      BY <2>2, <3>1, <3>2
  <2> QED
    BY <2>3 DEF Walking, Spread
<1>5. CASE SpaceStays /\ PassesOver(c, d)
  <2>1. PICK n \in c.agenda : /\ Namespace(n) # Namespace(c.start) \/ n \in c.seen
                              /\ d = Without(c, n) /\ c.op = "browse"
    BY <1>5 DEF PassesOver
  <2>2. d.op = c.op /\ d.start = c.start /\ d.seen = c.seen /\ d.agenda = c.agenda \ {n}
    BY <1>1, <2>1 DEF Without, Calls
  <2> QED
    BY <1>5, <2>1, <2>2 DEF Spread, SpaceStays
<1>6. CASE SpaceStays /\ Takes(c, d)
  <2>1. PICK n \in c.agenda : d = With(c, n, refs[n]) /\ c.op = "browse"
    BY <1>6 DEF Takes
  <2>2. /\ d.op = c.op /\ d.start = c.start /\ d.seen = c.seen \cup {n}
        /\ d.agenda = (c.agenda \ {n}) \cup refs[n]
    BY <1>1, <2>1, RecordFields
  <2> QED
    BY <1>6, <2>1, <2>2 DEF Spread, SpaceStays
<1>7. CASE SpaceStays /\ Collects(c, d)
  <2>1. d.op = "delete" /\ d.start = c.start /\ d.seen = c.seen
    BY <1>1, <1>7 DEF Collects, Complete, Calls
  <2> QED
    BY <1>7, <2>1 DEF Spread, SpaceStays, Collects
<1>8. CASE Cuts(c, d)
  <2>1. PICK n \in c.seen :
          /\ c.op = "delete" /\ d = Reduced(c, n)
          /\ Namespace(n) = 0 \/ (Namespace(n) > 0 /\ Delete(n))
    BY <1>8 DEF Cuts
  <2>2. d.start = c.start /\ d.seen = c.seen \ {n} /\ d.op \in {"delete", "deleted"}
    BY <1>1, <2>1 DEF Reduced, Calls
  <2> SUFFICES ASSUME Namespace(c.start) # 0
               PROVE  /\ d.start \in d.seen \/ d.start \notin there'
                      /\ \A k \in d.seen : \A m \in refs'[k] :
                            Namespace(m) = Namespace(d.start) => m \in d.seen
    BY <2>2 DEF Spread
  <2>3. Namespace(n) # 0 /\ Delete(n)
    BY <1>1, <2>1 DEF Marked, Browsing
  <2>4. /\ c.start \in c.seen \/ c.start \notin there
        /\ \A k \in c.seen : \A m \in refs[k] :
              Namespace(m) = Namespace(c.start) => m \in c.seen
    BY <2>1 DEF Spread
  <2>5. c.seen \subseteq Nodes /\ there' = there \ {n}
    BY <1>1, <2>3 DEF Calls, Delete
  <2>6. \A k \in c.seen : refs'[k] \subseteq refs[k] \ {n}
    BY <2>3, <2>5 DEF Delete, Typing
  <2> QED
    BY <2>2, <2>4, <2>5, <2>6
<1> QED
  BY <1>2, <1>3, <1>4, <1>5, <1>6, <1>7, <1>8 DEF Steps, Continues

LEMMA CutStep ==
    ASSUME Typing, Graph, Marks, Cut, NEW a \in Callers, Spread(call[a], there, refs),
           \A b \in Callers \ {a} : call[b].op \in Ended,
           NEW d, Steps(a, d), call' = [call EXCEPT ![a] = d], ~ misread'
    PROVE  Cut'
<1> SUFFICES ASSUME NEW e \in WithinNamespace(linked'), e[1] \notin there', e[2] \in there'
             PROVE  call'[a].op = "delete" /\ e[2] \in call'[a].seen
  BY DEF Cut
<1> DEFINE c == call[a]
<1>1. /\ c \in Calls /\ Marked(c, linked) /\ call'[a] = d
      /\ \A f \in linked : f[1] \in Nodes /\ f[2] \in Nodes
  BY DEF Typing, Marks
<1>2. ASSUME e \in linked, e[1] \notin there, e[2] \in there
      PROVE  c.op = "delete" /\ e[2] \in c.seen
  <2>1. PICK b \in Callers : call[b].op = "delete" /\ e[2] \in call[b].seen
    BY <1>2 DEF Cut, WithinNamespace
  <2> QED
    BY <2>1 DEF Ended
<1>3. e \in linked' /\ Namespace(e[1]) = Namespace(e[2])
  BY DEF WithinNamespace
<1>4. CASE SpaceStays /\ ~ Cuts(c, d)
  <2>1. c.op = "delete"
    BY <1>2, <1>3, <1>4 DEF SpaceStays
  <2> QED
    BY <1>4, <2>1 DEF Steps, Continues, StartsWalk, StartsBrowse, Descends, Plans, GivesUp,
                      PassesOver, Takes, Collects, Ended, Adds
<1>5. CASE Adds(c, d)
  <2>1. PICK n \in Unused : /\ there' = there \cup {n} /\ linked' = linked \cup {<<c.node, n>>}
                            /\ c.op = "add" /\ c.node \in there
    BY <1>5 DEF Adds
  <2>2. e \in linked /\ e[2] # n
    BY <1>3, <2>1 DEF Graph, Unused
  <2> QED
    BY <1>2, <2>1, <2>2
<1>6. CASE Cuts(c, d)
  <2>1. PICK n \in c.seen :
          /\ c.op = "delete" /\ d = Reduced(c, n) /\ UNCHANGED linked
          /\ \/ Namespace(n) = 0 /\ UNCHANGED <<there, refs>>
             \/ Namespace(n) > 0 /\ Delete(n)
    <3>1. PICK n \in c.seen :
            /\ c.op = "delete" /\ d = Reduced(c, n) /\ UNCHANGED linked
            /\ \/ Namespace(n) > 0 /\ Delete(n)
               \/ Namespace(n) = 0 /\ UNCHANGED <<there, refs>>
               \/ misread' /\ UNCHANGED <<there, refs>>
      BY <1>6 DEF Cuts
    <3> QED
      BY <3>1
  <2>2. d.seen = c.seen \ {n} /\ d.op = IF c.seen = {n} THEN "deleted" ELSE c.op
    BY <1>1, <2>1, RecordFields
  <2>3. e[2] \in c.seen /\ e[2] # n
    <3>1. CASE e[1] \notin there
      <4>1. e[2] \in c.seen
        BY <1>2, <1>3, <2>1, <3>1 DEF Delete
      <4>2. CASE e[2] = n
        <5>1. Namespace(n) = 0
          BY <2>1, <4>2 DEF Delete
        <5>2. e[1] \in Standard
          BY <1>3, <4>2, <5>1 DEF Namespace
        <5>3. nameOf[e[1]] # NoName
          BY <1>3, <2>1 DEF Graph
        <5> QED
          BY <3>1, <5>2, <5>3 DEF Graph
      <4> QED
        BY <4>1, <4>2
    <3>2. CASE e[1] \in there
      <4>1. e[1] = n /\ Namespace(n) > 0 /\ e[2] # n /\ e[2] \in there
        BY <2>1, <3>2 DEF Delete
      <4>2. e[2] \in refs[n]
        BY <1>3, <2>1, <3>2, <4>1 DEF Graph
      <4>3. Namespace(e[2]) = Namespace(c.start) /\ Namespace(c.start) # 0
        BY <1>1, <1>3, <2>1, <4>1 DEF Marked, Browsing
      <4> QED
        BY <2>1, <4>1, <4>2, <4>3 DEF Spread
    <3> QED
      BY <3>1, <3>2
  <2> QED
    BY <1>1, <2>1, <2>2, <2>3
<1> QED
  BY <1>4, <1>5, <1>6, SpaceChanges

LEMMA OrderlyStep == Typing /\ Graph /\ Marks /\ Orderly /\ [Next]_vars => Orderly'
<1> SUFFICES ASSUME Typing, Graph, Marks, Orderly, Next
             PROVE  Orderly'
  <2>1. CASE UNCHANGED vars
    BY <2>1 DEF vars, Orderly, Alone, Active, Cut
  <2> QED
    BY <2>1
<1> SUFFICES ASSUME ~ overlapped', ~ misread'
             PROVE  (Alone /\ Cut /\ \A a \in Callers :
                        Fresh(call[a], nameOf, refs) /\ Spread(call[a], there, refs))'
  BY DEF Orderly
<1>1. PICK a \in Callers, d \in Calls : Steps(a, d) /\ call' = [call EXCEPT ![a] = d]
  BY Moves
<1>2. /\ \A b \in Callers : call'[b] = IF b = a THEN d ELSE call[b]
      /\ ~ overlapped /\ ~ misread
      /\ \A b \in Callers \ {a} : call[b].op \in Ended
  BY <1>1, OthersRest DEF Typing
<1>3. Alone'
  BY <1>2 DEF Alone, Active
<1>4. Cut'
  BY <1>1, <1>2, CutStep DEF Orderly
<1>5. Fresh(d, nameOf', refs') /\ Spread(d, there', refs')
  BY <1>1, <1>2, FreshStep, SpreadStep DEF Orderly
<1>6. ASSUME NEW b \in Callers \ {a}
      PROVE  Fresh(call[b], nameOf', refs') /\ Spread(call[b], there', refs')
  BY <1>2 DEF Fresh, Spread, Ended
<1> QED
  BY <1>2, <1>3, <1>4, <1>5, <1>6

-----------------------------------------------------------------------------
LEMMA NoTwinsStep == Typing /\ Graph /\ Orderly /\ NoTwins /\ [Next]_vars => NoTwins'
<1> SUFFICES ASSUME Typing, Graph, Orderly, NoTwins, Next
             PROVE  NoTwins'
  <2>1. CASE UNCHANGED vars
    BY <2>1 DEF vars, NoTwins
  <2> QED
    BY <2>1
<1> SUFFICES ASSUME ~ overlapped', ~ misread', NEW n \in Nodes,
                    NEW i \in refs'[n], NEW j \in refs'[n], nameOf'[i] = nameOf'[j]
             PROVE  i = j
  BY DEF NoTwins
<1>1. PICK a \in Callers, d \in Calls : Steps(a, d)
  BY Moves
<1>2. ~ overlapped /\ ~ misread
  BY <1>1, OthersRest
<1>3. \A m \in Nodes : \A k, l \in refs[m] : nameOf[k] = nameOf[l] => k = l
  BY <1>2 DEF NoTwins
<1>4. CASE SpaceStays
  BY <1>3, <1>4 DEF SpaceStays
<1> DEFINE c == call[a]
<1>5. CASE Adds(c, d)
  <2>1. PICK k \in Unused :
          /\ nameOf' = [nameOf EXCEPT ![k] = c.path[c.level + 1]]
          /\ refs' = [refs EXCEPT ![c.node] = @ \cup {k}]
          /\ c.op = "add"
    BY <1>5 DEF Adds
  <2>2. \A m \in refs[c.node] : nameOf[m] # c.path[c.level + 1]
    BY <1>2, <2>1 DEF Orderly, Fresh
  <2> HIDE DEF c
  <2>3. k \in Nodes /\ \A m \in refs[n] : m \in Nodes /\ m # k
    BY <2>1 DEF Unused, Typing, Graph
  <2>4. /\ nameOf'[k] = c.path[c.level + 1]
        /\ \A m \in refs[n] : nameOf'[m] = nameOf[m]
    BY <2>1, <2>3 DEF Typing
  <2>5. refs'[n] = IF n = c.node THEN refs[n] \cup {k} ELSE refs[n]
    BY <2>1 DEF Typing
  <2> QED
    BY <1>3, <2>2, <2>4, <2>5
<1>6. CASE Cuts(c, d)
  <2>1. c \in Calls
    BY DEF Typing
  <2>2. nameOf' = nameOf /\ refs'[n] \subseteq refs[n]
    <3>1. CASE refs' = refs
      BY <1>6, <3>1 DEF Cuts
    <3>2. CASE \E m \in c.seen : \A k \in Nodes : refs'[k] = IF k = m THEN {} ELSE refs[k] \ {m}
      BY <1>6, <3>2 DEF Cuts
    <3> QED
      BY <1>6, <2>1, <3>1, <3>2, CutsSpace
  <2> QED
    BY <1>3, <2>2
<1> QED
  BY <1>1, <1>4, <1>5, <1>6, SpaceChanges

(* Where no folder holds two nodes of one name at the start, calls one      *)
(* after the other, with no failed browse, add none that is there already  *)
(* (createFolderPath).                                                     *)
THEOREM FoldersAreMadeOnce == NoTwins /\ Spec => []NoTwins
BY TypingInit, TypingStep, GraphInit, GraphStep, MarksInit, MarksStep, OrderlyInit,
   OrderlyStep, NoTwinsStep, PTL DEF Spec

-----------------------------------------------------------------------------
(* What a deletion leaves behind.                                          *)
Cleared(c, nodes, links) ==
    c.op = "deleted" /\ Namespace(c.start) # 0 =>
        nodes \cap Below(WithinNamespace(links), c.start) = {}

(* Only a deletion ends as one.                                            *)
LEMMA LastIsACut ==
    ASSUME Typing, NEW a \in Callers, NEW d, Steps(a, d), d.op = "deleted"
    PROVE  Cuts(call[a], d)
<1> DEFINE c == call[a]
<1>1. c \in Calls /\ Leveled(c)
  BY DEF Typing
<1>2. ~ StartsWalk(a, c, d)
  BY DEF StartsWalk, Request
<1>3. ~ StartsBrowse(a, c, d)
  BY DEF StartsBrowse, Request
<1>4. ~ GivesUp(c, d)
  BY IdleTypes DEF GivesUp
<1>5. ~ Plans(c, d)
  BY <1>1 DEF Plans, Planned, Calls
<1>6. ~ (Descends(c, d) \/ Adds(c, d))
  <2> SUFFICES ASSUME Descends(c, d) \/ Adds(c, d)
               PROVE  FALSE
    OBVIOUS
  <2>1. c.op \in Walking
    BY DEF Descends, Adds, Walking
  <2>2. \E n \in Nodes : d = Deeper(c, n)
    BY <1>1 DEF Descends, Adds, Unused, Typing, Calls
  <2> QED
    BY <1>1, <2>1, <2>2, DeeperTypes DEF Walking
<1>7. ~ PassesOver(c, d)
  BY <1>1 DEF PassesOver, Without, Calls
<1>8. ~ Takes(c, d)
  <2> SUFFICES ASSUME Takes(c, d)
               PROVE  FALSE
    OBVIOUS
  <2>1. c.op = "browse" /\ \E n, children : d = With(c, n, children)
    BY DEF Takes
  <2> QED
    BY <1>1, <2>1, RecordFields
<1>9. ~ Collects(c, d)
  BY <1>1 DEF Collects, Complete, Calls
<1> QED
  BY <1>2, <1>3, <1>4, <1>5, <1>6, <1>7, <1>8, <1>9 DEF Steps, Continues

(* It is complete when the last node is deleted: no reference leads from    *)
(* what is gone to what is there.                                          *)
LEMMA LastCut ==
    ASSUME Typing, NEW a \in Callers, Spread(call[a], there, refs), NEW d, Steps(a, d),
           ~ misread', Cut', \A b \in Callers : call'[b].op # "delete"
    PROVE  Cleared(d, there', linked')
<1> SUFFICES ASSUME d.op = "deleted", Namespace(d.start) # 0
             PROVE  there' \cap Below(WithinNamespace(linked'), d.start) = {}
  BY DEF Cleared
<1> DEFINE c == call[a]
<1>1. c \in Calls /\ c.start \in Nodes
  BY DEF Typing, Calls
<1>2. Cuts(c, d)
  BY LastIsACut
<1>3. PICK n \in c.seen :
        /\ c.op = "delete" /\ d = Reduced(c, n)
        /\ Namespace(n) = 0 \/ (Namespace(n) > 0 /\ Delete(n))
  BY <1>2 DEF Cuts
<1>4. c.seen = {n} /\ d.start = c.start
  BY <1>1, <1>3, RecordFields
<1>5. c.start \notin there'
  <2>1. c.start = n \/ c.start \notin there
    BY <1>3, <1>4 DEF Spread
  <2> QED
    BY <1>1, <1>2, <1>3, <1>4, <2>1, CutsSpace DEF Delete
<1>6. ClosedUnder(WithinNamespace(linked'), Nodes \ there')
  <2>1. \A e \in WithinNamespace(linked') : e[1] \notin there' => e[2] \notin there'
    BY DEF Cut
  <2>2. \A e \in WithinNamespace(linked') : e[2] \in Nodes
    BY <1>2 DEF Cuts, Typing, WithinNamespace
  <2> QED
    BY <2>1, <2>2 DEF ClosedUnder
<1> QED
  BY <1>1, <1>4, <1>5, <1>6, BelowIsLeast

(* It stays so: what is new hangs on nodes that are there, and was never    *)
(* referred to before.                                                     *)
LEMMA ClearedStays ==
    ASSUME Typing, Graph, NEW a \in Callers, NEW d, Steps(a, d),
           NEW c \in Calls, nameOf[c.start] # NoName, Cleared(c, there, linked)
    PROVE  Cleared(c, there', linked')
<1> DEFINE B == Below(WithinNamespace(linked), c.start)
<1> SUFFICES ASSUME c.op = "deleted", there \cap B = {}
             PROVE  there' \cap Below(WithinNamespace(linked'), c.start) = {}
  BY DEF Cleared
<1>1. c.start \in Nodes /\ c.start \in B /\ B \subseteq Nodes
  BY BelowFacts DEF Calls
<1>2. CASE SpaceStays
  BY <1>2 DEF SpaceStays
<1>3. CASE Cuts(call[a], d)
  <2>1. call[a] \in Calls
    BY DEF Typing
  <2>2. there' \subseteq there /\ linked' = linked
    <3>1. CASE there' = there
      BY <1>3, <3>1 DEF Cuts
    <3>2. CASE \E n : there' = there \ {n}
      BY <1>3, <3>2 DEF Cuts
    <3> QED
      BY <1>3, <2>1, <3>1, <3>2, CutsSpace
  <2> QED
    BY <2>2
<1>4. CASE Adds(call[a], d)
  <2> DEFINE p == call[a].node
  <2>1. PICK n \in Unused : /\ there' = there \cup {n} /\ linked' = linked \cup {<<p, n>>}
                            /\ p \in there
    BY <1>4 DEF Adds
  <2> HIDE DEF p
  <2>2. \A e \in linked : e[1] # n /\ e[2] # n
    BY <2>1 DEF Graph, Unused
  <2>3. c.start \in B \ {n} /\ n \notin there /\ p \notin B
    BY <1>1, <2>1 DEF Unused, Graph
  <2>4. ClosedUnder(WithinNamespace(linked), B)
    <3>1. \A e \in linked : e[1] \in Nodes /\ e[2] \in Nodes /\ e = <<e[1], e[2]>>
      BY DEF Typing
    <3>2. \A m \in B, k \in Nodes : <<m, k>> \in WithinNamespace(linked) => k \in B
      BY <1>1, BelowFacts
    <3> QED
      BY <3>1, <3>2 DEF ClosedUnder, WithinNamespace
  <2> HIDE DEF B
  <2>5. ClosedUnder(WithinNamespace(linked'), B \ {n})
    BY <2>1, <2>2, <2>3, <2>4 DEF ClosedUnder, WithinNamespace
  <2>6. Below(WithinNamespace(linked'), c.start) \subseteq B \ {n}
    BY <1>1, <2>3, <2>5, BelowIsLeast
  <2> QED
    BY <2>1, <2>6
<1> QED
  BY <1>2, <1>3, <1>4, SpaceChanges

Clearing ==
    ~overlapped /\ ~misread => \A a \in Callers : Cleared(call[a], there, linked)

LEMMA ClearingStep ==
    Typing /\ Graph /\ Rooted /\ Marks /\ Orderly /\ Clearing /\ [Next]_vars => Clearing'
<1> SUFFICES ASSUME Typing, Graph, Rooted, Marks, Orderly, Clearing, Next
             PROVE  Clearing'
  <2>1. CASE UNCHANGED vars
    BY <2>1 DEF vars, Clearing
  <2> QED
    BY <2>1
<1> SUFFICES ASSUME ~ overlapped', ~ misread', NEW b \in Callers
             PROVE  Cleared(call'[b], there', linked')
  BY DEF Clearing
<1>1. PICK a \in Callers, d \in Calls : Steps(a, d) /\ call' = [call EXCEPT ![a] = d]
  BY Moves
<1>2. /\ \A k \in Callers : call'[k] = IF k = a THEN d ELSE call[k]
      /\ ~ overlapped /\ ~ misread
      /\ \A k \in Callers \ {a} : call[k].op \in Ended
  BY <1>1, OthersRest DEF Typing
<1>3. CASE b = a
  <2>1. CASE d.op = "deleted"
    <3>1. \A k \in Callers : call'[k].op # "delete"
      BY <1>2, <2>1 DEF Ended
    <3>2. Cut'
      BY OrderlyStep DEF Orderly
    <3> QED
      BY <1>1, <1>2, <1>3, <3>1, <3>2, LastCut DEF Orderly
  <2>2. CASE d.op # "deleted"
    BY <1>2, <1>3, <2>2 DEF Cleared
  <2> QED
    BY <2>1, <2>2
<1>4. CASE b # a
  <2>1. call'[b] = call[b] /\ call[b] \in Calls /\ Cleared(call[b], there, linked)
    BY <1>2, <1>4 DEF Typing, Clearing
  <2>2. CASE call[b].op = "idle"
    BY <2>1, <2>2 DEF Cleared
  <2>3. CASE call[b].op # "idle"
    BY <1>1, <2>1, <2>3, ClearedStays DEF Rooted
  <2> QED
    BY <2>2, <2>3
<1> QED
  BY <1>3, <1>4

(* A deleted tree stays gone, with all that ever was in it, as long as      *)
(* calls do not overlap and none of a client fails (deleteTree).           *)
THEOREM DeletionsAreComplete == Spec => []DeletedIsGone
<1>1. Init => Clearing
  BY IdleTypes DEF Init, Clearing, Cleared
<1>2. Clearing => DeletedIsGone
  BY DEF Clearing, Cleared, DeletedIsGone
<1> QED
  BY <1>1, <1>2, TypingInit, TypingStep, GraphInit, GraphStep, RootedInit, RootedStep,
     MarksInit, MarksStep, OrderlyInit, OrderlyStep, ClearingStep, PTL DEF Spec
=============================================================================
