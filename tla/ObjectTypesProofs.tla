-------------------------- MODULE ObjectTypesProofs --------------------------
(***************************************************************************)
(* Proofs about ObjectTypes for any classes, threads and node ids.         *)
(*                                                                         *)
(* FinishedIsWhole and NoTwinMembers speak of what is there in the end; the *)
(* inductive invariants say what is there when a call has come half way.    *)
(* Bookkeeping holds for every call, Progress for those whose type nobody   *)
(* deleted or took a member from.                                          *)
(***************************************************************************)
EXTENDS ObjectTypes, TLAPS

Call == [type : Nodes \cup {Null}, under : Nodes \cup {Null}, done : Nat,
         pending : Nodes \cup {Null, Placeholder}]

(* Every node there was made by somebody, or has a name.                   *)
SpaceIsUsed ==
    /\ \A n \in there \ Asked : maker[n] # Null \/ nameOf[n] # Null
    /\ \A n \in mandatory : nameOf[n] \in Names
    /\ \A n \in finished : maker[n] \in Threads

(* What waits for its reference is the next member of its class, under a    *)
(* generated id.                                                           *)
CallIsSound(t) == Active(t) =>
    /\ call[t].done < Len(Members[t])
    /\ call[t].under \in {call[t].type, Null}
    /\ maker[call[t].type] \in Threads
    /\ call[t].pending # Null => Members[t][call[t].done + 1].mandatory
    /\ call[t].pending \in Nodes =>
          /\ call[t].pending \notin Asked
          /\ nameOf[call[t].pending] = Members[t][call[t].done + 1].name

Bookkeeping == TypeOK /\ SpaceIsUsed /\ \A t \in Threads : CallIsSound(t)

(* A member that is below a type, and marked if it shall be.               *)
Has(n, m) == \E c \in there : /\ parent[c] = n /\ nameOf[c] = m.name
                              /\ m.mandatory => c \in mandatory

IsWhole(n) == \A k \in DOMAIN Members[maker[n]] : Has(n, Members[maker[n]][k])

(* What a call has made of its type so far.                                *)
WholeSoFar(t) == Active(t) /\ call[t].type \notin cut =>
    /\ call[t].type \in there /\ maker[call[t].type] = t
    /\ call[t].pending \in there => parent[call[t].pending] = call[t].type
    /\ \A k \in 1 .. call[t].done : Has(call[t].type, Members[t][k])

Progress ==
    /\ \A n \in finished \ cut : n \in there /\ IsWhole(n)
    /\ \A t \in Threads : WholeSoFar(t)

(* Below the type of a call there is nothing but what the call has added.   *)
OnlyItsMembers(t) == Active(t) /\ call[t].type \notin cut =>
    \A c \in there : parent[c] = call[t].type /\ nameOf[c] # Null =>
        \E k \in 1 .. call[t].done + 1 :
            /\ nameOf[c] = Members[t][k].name
            /\ k = call[t].done + 1 => call[t].pending # Null

Siblings == NoTwinMembers /\ \A t \in Threads : OnlyItsMembers(t)

-----------------------------------------------------------------------------
(* The classes are lists of members.                                       *)
LEMMA MemberTypes ==
    ASSUME NEW t \in Threads
    PROVE  /\ Members[t] \in Seq(Member)
           /\ Len(Members[t]) \in Nat
           /\ \A k \in 1 .. Len(Members[t]) :
                 /\ k \in DOMAIN Members[t]
                 /\ Members[t][k] \in Member
                 /\ Members[t][k].name \in Names
                 /\ Members[t][k].name # Null
<1>1. Members[t] \in Seq(Member) /\ Null \notin Names
  BY ObjectTypesAssumption DEF ObjectTypesAssumption
<1>2. Len(Members[t]) \in Nat /\ DOMAIN Members[t] = 1 .. Len(Members[t])
  BY <1>1
<1>3. \A k \in 1 .. Len(Members[t]) : Members[t][k] \in Member
  BY <1>1
<1> QED
  BY <1>1, <1>2, <1>3 DEF Member

(* A new id is not in use, and a generated one never was.                   *)
LEMMA NewIdIsFresh ==
    ASSUME TypeOK, NEW asked \in Asked \cup {Null}, NEW n \in NewId(asked)
    PROVE  /\ n \in Nodes
           /\ asked # Null => n = asked /\ n \notin there
           /\ asked = Null => /\ n \notin Asked
                              /\ maker[n] = Null /\ nameOf[n] = Null
<1> USE ObjectTypesAssumption DEF ObjectTypesAssumption
<1>1. CASE asked # Null
  BY <1>1 DEF NewId
<1>2. CASE asked = Null
  <2> DEFINE unused == {m \in Nodes \ Asked :
                         maker[m] = Null /\ nameOf[m] = Null}
  <2>1. n \in unused
    BY <1>2, Zenon DEF NewId
  <2> QED
    BY <1>2, <2>1
<1> QED
  BY <1>1, <1>2

(* Null is the parent of nothing that is added.                            *)
LEMMA AddNodeKeepsTypes ==
    ASSUME TypeOK, NEW n \in Nodes, NEW under, NEW name \in Names \cup {Null},
           AddNode(n, under, name)
    PROVE  /\ there' \subseteq Nodes /\ there \subseteq there'
           /\ parent' \in [Nodes -> there' \cup {Base, Null}]
           /\ nameOf' \in [Nodes -> Names \cup {Null}]
           /\ under # Null
BY ObjectTypesAssumption DEF ObjectTypesAssumption, TypeOK, AddNode

(* GoOn either goes on or finishes.                                        *)
LEMMA GoOnCases ==
    ASSUME TypeOK, NEW t \in Threads, NEW c \in Call, GoOn(t, c),
           c.done <= Len(Members[t])
    PROVE  /\ call' \in [Threads -> Call]
           /\ \A u \in Threads \ {t} : call'[u] = call[u]
           /\ \/ /\ call'[t] = c /\ c.done < Len(Members[t])
                 /\ finished' = finished
              \/ /\ call'[t] = Idle /\ c.done = Len(Members[t])
                 /\ finished' = finished \cup {c.type}
<1>1. Idle \in Call
  BY DEF Idle, Call
<1>2. call \in [Threads -> Call]
  BY DEF TypeOK, Call
<1>3. Len(Members[t]) \in Nat /\ c.done \in Nat
  BY MemberTypes DEF Call
<1> QED
  BY <1>1, <1>2, <1>3 DEF GoOn

LEMMA GiveUpCase ==
    ASSUME TypeOK, NEW t \in Threads, GiveUp(t)
    PROVE  /\ call' \in [Threads -> Call]
           /\ \A u \in Threads \ {t} : call'[u] = call[u]
           /\ call'[t] = Idle
           /\ finished' = finished /\ cut' = cut /\ maker' = maker
<1>1. Idle \in Call
  BY DEF Idle, Call
<1>2. call \in [Threads -> Call]
  BY DEF TypeOK, Call
<1> QED
  BY <1>1, <1>2 DEF GiveUp

(* The records of a call.                                                  *)
LEMMA Records ==
    /\ \A n \in Nodes, u \in Nodes \cup {Null} : Begun(n, u) \in Call
    /\ \A c \in Call, n \in Nodes \cup {Placeholder} : Waiting(c, n) \in Call
    /\ \A c \in Call : Advanced(c) \in Call
BY DEF Call, Begun, Waiting, Advanced

-----------------------------------------------------------------------------
(* A call that makes no step stays sound while others make types and add    *)
(* members: the names of generated nodes stay.                             *)
LEMMA OtherCallsStaySound ==
    ASSUME TypeOK, NEW u \in Threads, CallIsSound(u), call'[u] = call[u],
           \A m \in Nodes : maker[m] \in Threads => maker'[m] \in Threads,
           \A m \in Nodes \ Asked :
              nameOf[m] # Null => nameOf'[m] = nameOf[m]
    PROVE  CallIsSound(u)'
<1> SUFFICES ASSUME Active(u) PROVE CallIsSound(u)'
  BY DEF CallIsSound, Active
<1>1. /\ call[u] \in Call /\ call[u].type \in Nodes
      /\ call[u].done < Len(Members[u])
  BY DEF TypeOK, Call, Active, CallIsSound
<1>2. call[u].done + 1 \in 1 .. Len(Members[u])
  BY <1>1, MemberTypes DEF Call
<1>3. Members[u][call[u].done + 1].name # Null
  BY <1>2, MemberTypes
<1>4. CASE call[u].pending \in Nodes
  <2>1. nameOf'[call[u].pending] = nameOf[call[u].pending]
    BY <1>3, <1>4 DEF CallIsSound
  <2> QED
    BY <1>1, <1>4, <2>1 DEF CallIsSound, Active
<1>5. CASE call[u].pending \notin Nodes
  BY <1>1, <1>5 DEF CallIsSound, Active
<1> QED
  BY <1>4, <1>5

(* A new call, or one that goes on, is sound.                              *)
LEMMA CallStaysSound ==
    ASSUME TypeOK, NEW t \in Threads, NEW c \in Call, GoOn(t, c),
           c.done <= Len(Members[t]), c.pending = Null,
           c.type \in Nodes, c.under \in {c.type, Null},
           maker'[c.type] \in Threads
    PROVE  CallIsSound(t)'
<1>1. \/ call'[t] = c /\ c.done < Len(Members[t])
      \/ call'[t] = Idle
  BY GoOnCases
<1>2. CASE call'[t] = Idle
  BY <1>2 DEF CallIsSound, Active, Idle
<1>3. CASE call'[t] = c /\ c.done < Len(Members[t])
  <2>1. c.pending \notin Nodes
    BY ObjectTypesAssumption DEF ObjectTypesAssumption
  <2> QED
    BY <1>3, <2>1 DEF CallIsSound, Active
<1> QED
  BY <1>1, <1>2, <1>3

LEMMA BookkeepingInit == Init => Bookkeeping
<1> SUFFICES ASSUME Init PROVE Bookkeeping
  OBVIOUS
<1>1. 0 \in 0 .. MaxCalls
  BY ObjectTypesAssumption DEF ObjectTypesAssumption
<1>2. TypeOK
  BY <1>1 DEF Init, TypeOK, Idle
<1>3. SpaceIsUsed
  BY DEF Init, SpaceIsUsed
<1>4. \A t \in Threads : CallIsSound(t)
  BY DEF Init, CallIsSound, Active, Idle
<1> QED
  BY <1>2, <1>3, <1>4 DEF Bookkeeping

(* Making a type.                                                          *)
LEMMA TypeMadeKeepsBooks ==
    ASSUME Bookkeeping, NEW t \in Threads, NEW asked \in Asked \cup {Null},
           NEW n \in NewId(asked), NEW super, AddNode(n, super, Null),
           MadeType(t, n), mandatory' = mandatory, instance' = instance,
           typeId' \in [Threads -> Nodes \cup {Null, Placeholder}],
           begun' \in 0 .. MaxCalls,
           \/ \E under \in {n, asked} : GoOn(t, Begun(n, under))
           \/ call' = call /\ finished' = finished /\ ~Active(t)
    PROVE  Bookkeeping'
<1> USE DEF Bookkeeping
<1>0. /\ n \in Nodes /\ n \notin mandatory
      /\ n \notin there /\ asked \in {n, Null}
      /\ n \in Asked \/ nameOf[n] = Null
  BY NewIdIsFresh DEF SpaceIsUsed, TypeOK
<1>1. /\ there' \subseteq Nodes /\ there \subseteq there'
      /\ parent' \in [Nodes -> there' \cup {Base, Null}]
      /\ nameOf' \in [Nodes -> Names \cup {Null}]
  BY <1>0, AddNodeKeepsTypes
<1>2. /\ maker' \in [Nodes -> Threads \cup {Null}] /\ maker'[n] = t
      /\ \A m \in Nodes \ {n} : maker'[m] = maker[m]
      /\ t # Null
  BY <1>0, ObjectTypesAssumption DEF ObjectTypesAssumption, MadeType, TypeOK
<1>3. /\ call' \in [Threads -> Call]
      /\ finished' \subseteq finished \cup {n}
      /\ \A u \in Threads : u # t => call'[u] = call[u]
      /\ CallIsSound(t)'
  <2>1. CASE call' = call /\ finished' = finished /\ ~Active(t)
    BY <2>1 DEF TypeOK, Call, CallIsSound, Active
  <2>2. ASSUME NEW under \in {n, asked}, GoOn(t, Begun(n, under))
        PROVE  /\ call' \in [Threads -> Call]
               /\ finished' \subseteq finished \cup {n}
               /\ \A u \in Threads : u # t => call'[u] = call[u]
               /\ CallIsSound(t)'
    <3>1. /\ Begun(n, under) \in Call
          /\ Begun(n, under).type = n /\ Begun(n, under).under = under
          /\ Begun(n, under).done = 0 /\ Begun(n, under).pending = Null
      BY <1>0, Records DEF Begun
    <3>2. 0 <= Len(Members[t])
      BY MemberTypes
    <3>3. CallIsSound(t)'
      BY <1>0, <1>2, <2>2, <3>1, <3>2, CallStaysSound
    <3> QED
      BY <2>2, <3>1, <3>2, <3>3, GoOnCases
  <2> QED
    BY <2>1, <2>2
<1>4. TypeOK'
  BY <1>0, <1>1, <1>2, <1>3 DEF TypeOK, Call, MadeType
<1>5. SpaceIsUsed'
  <2>1. \A m \in there' : m # n => m \in there /\ nameOf'[m] = nameOf[m]
    BY <1>0 DEF AddNode, TypeOK
  <2> QED
    BY <1>0, <1>1, <1>2, <1>3, <2>1 DEF SpaceIsUsed, TypeOK, AddNode
<1>6. \A u \in Threads : CallIsSound(u)'
  <2>1. \A m \in Nodes \ Asked : nameOf[m] # Null => nameOf'[m] = nameOf[m]
    BY <1>0 DEF AddNode, TypeOK
  <2> QED
    BY <1>2, <1>3, <2>1, OtherCallsStaySound
<1> QED
  BY <1>4, <1>5, <1>6

(* A step that fails ends the call and changes nothing else.                *)
LEMMA FailureKeepsBooks ==
    ASSUME Bookkeeping, NEW t \in Threads, GiveUp(t), UNCHANGED space,
           instance' = instance, begun' \in 0 .. MaxCalls,
           typeId' \in [Threads -> Nodes \cup {Null, Placeholder}]
    PROVE  Bookkeeping'
<1> USE DEF Bookkeeping, space
<1>1. /\ call' \in [Threads -> Call]
      /\ \A u \in Threads \ {t} : call'[u] = call[u]
      /\ call'[t] = Idle
      /\ finished' = finished /\ cut' = cut /\ maker' = maker
  BY GiveUpCase
<1>2. TypeOK'
  BY <1>1 DEF TypeOK, Call
<1>3. SpaceIsUsed'
  BY <1>1 DEF SpaceIsUsed
<1>4. CallIsSound(t)'
  BY <1>1 DEF CallIsSound, Active, Idle
<1>5. \A u \in Threads : CallIsSound(u)'
  BY <1>1, <1>4, OtherCallsStaySound
<1> QED
  BY <1>2, <1>3, <1>5

(* The member a call is at.                                                *)
LEMMA NextMember ==
    ASSUME TypeOK, NEW t \in Threads, Active(t), CallIsSound(t)
    PROVE  /\ call[t] \in Call /\ call[t].type \in Nodes
           /\ call[t].done + 1 \in 1 .. Len(Members[t])
           /\ Members[t][call[t].done + 1].name \in Names
           /\ Members[t][call[t].done + 1].name # Null
<1>1. call[t] \in Call /\ call[t].type \in Nodes
  BY DEF TypeOK, Call, Active
<1>2. call[t].done + 1 \in 1 .. Len(Members[t])
  BY <1>1, MemberTypes DEF Call, CallIsSound
<1> QED
  BY <1>1, <1>2, MemberTypes

(* The record that goes on after the member is sound.                      *)
LEMMA AdvancedStaysSound ==
    ASSUME TypeOK, NEW t \in Threads, Active(t), CallIsSound(t),
           GoOn(t, Advanced(call[t])), maker' = maker
    PROVE  /\ CallIsSound(t)'
           /\ call' \in [Threads -> Call]
           /\ \A u \in Threads \ {t} : call'[u] = call[u]
           /\ finished' \subseteq finished \cup {call[t].type}
<1> DEFINE c == Advanced(call[t])
<1>1. call[t] \in Call /\ call[t].type \in Nodes
  BY NextMember
<1>2. c \in Call /\ c.done = call[t].done + 1 /\ c.pending = Null
      /\ c.type = call[t].type /\ c.under = call[t].under
  BY <1>1, Records DEF Advanced
<1>3. c.done <= Len(Members[t])
  BY <1>1, <1>2, NextMember
<1>4. maker'[c.type] \in Threads /\ c.under \in {c.type, Null}
  BY <1>2 DEF CallIsSound
<1> HIDE DEF c
<1>5. GoOn(t, c)
  BY DEF c
<1> QED
  BY <1>1, <1>2, <1>3, <1>4, <1>5, CallStaysSound, GoOnCases

LEMMA AddMemberKeepsBooks ==
    ASSUME Bookkeeping, NEW t \in Threads, AddMember(t)
    PROVE  Bookkeeping'
<1> USE DEF Bookkeeping
<1> DEFINE c == call[t]
           m == Members[t][c.done + 1]
<1>0. /\ Active(t) /\ CallIsSound(t)
      /\ begun' = begun /\ begun \in 0 .. MaxCalls
      /\ typeId' = typeId /\ instance' = instance
      /\ typeId \in [Threads -> Nodes \cup {Null, Placeholder}]
  BY DEF AddMember, TypeOK
<1>1. CASE GiveUp(t) /\ UNCHANGED space
  BY <1>0, <1>1, FailureKeepsBooks
<1>2. ASSUME NEW n \in NewId(Null), AddNode(n, c.under, m.name),
             mandatory' = mandatory, cut' = cut, maker' = maker,
             IF m.mandatory
             THEN /\ call' = [call EXCEPT ![t] =
                               Waiting(c, IF m.folder THEN Placeholder ELSE n)]
                  /\ finished' = finished
             ELSE GoOn(t, Advanced(c))
      PROVE  Bookkeeping'
  <2>0. c \in Call /\ c.type \in Nodes /\ m.name \in Names /\ m.name # Null
    BY <1>0, NextMember
  <2>1. n \in Nodes /\ n \notin Asked /\ maker[n] = Null /\ nameOf[n] = Null
    BY <1>2, NewIdIsFresh
  <2>2. n \notin there
    BY <2>1 DEF SpaceIsUsed
  <2>3. /\ there' \subseteq Nodes /\ there \subseteq there'
        /\ parent' \in [Nodes -> there' \cup {Base, Null}]
        /\ nameOf' \in [Nodes -> Names \cup {Null}]
    BY <1>2, <2>0, <2>1, AddNodeKeepsTypes
  <2>4. /\ nameOf'[n] = m.name
        /\ \A k \in Nodes \ {n} : nameOf'[k] = nameOf[k]
    BY <1>2, <2>1 DEF AddNode, TypeOK
  <2>5. /\ CallIsSound(t)'
        /\ call' \in [Threads -> Call]
        /\ \A u \in Threads \ {t} : call'[u] = call[u]
        /\ finished' \subseteq finished \cup {c.type}
    <3>1. CASE ~m.mandatory
      BY <1>0, <1>2, <3>1, AdvancedStaysSound
    <3>2. CASE m.mandatory
      <4> DEFINE p == IF m.folder THEN Placeholder ELSE n
                 w == Waiting(c, p)
      <4>1. p \in Nodes \cup {Placeholder} /\ (p \in Nodes => p = n)
        BY <2>1, ObjectTypesAssumption DEF ObjectTypesAssumption
      <4>2. w \in Call /\ w.type = c.type /\ w.under = c.under
            /\ w.done = c.done /\ w.pending = p
        BY <2>0, <4>1, Records DEF Waiting
      <4>3. call' = [call EXCEPT ![t] = w] /\ finished' = finished
        BY <1>2, <3>2
      <4>4. call \in [Threads -> Call]
        BY DEF TypeOK, Call
      <4> HIDE DEF w, p
      <4>5. call'[t] = w
        BY <4>3, <4>4
      <4>6. CallIsSound(t)'
        BY <1>0, <1>2, <2>1, <2>4, <3>2, <4>1, <4>2, <4>5
           DEF CallIsSound, Active
      <4> QED
        BY <4>2, <4>3, <4>4, <4>6
    <3> QED
      BY <3>1, <3>2
  <2>6. TypeOK'
    BY <1>0, <1>2, <2>0, <2>3, <2>5 DEF TypeOK, Call
  <2>7. SpaceIsUsed'
    <3>1. \A k \in there' : k # n => k \in there
      BY <1>2 DEF AddNode
    <3>2. \A k \in finished' : maker'[k] \in Threads
      BY <1>0, <1>2, <2>5 DEF CallIsSound, SpaceIsUsed
    <3>3. \A k \in there' \ Asked : maker'[k] # Null \/ nameOf'[k] # Null
      BY <1>2, <2>0, <2>3, <2>4, <3>1 DEF SpaceIsUsed
    <3>4. \A k \in mandatory' : nameOf'[k] \in Names
      BY <1>2, <2>2, <2>4 DEF SpaceIsUsed, TypeOK
    <3> QED
      BY <3>2, <3>3, <3>4 DEF SpaceIsUsed
  <2>8. \A u \in Threads : CallIsSound(u)'
    BY <1>2, <2>1, <2>4, <2>5, OtherCallsStaySound
  <2> QED
    BY <2>6, <2>7, <2>8
<1> QED
  BY <1>1, <1>2 DEF AddMember

LEMMA MarkMandatoryKeepsBooks ==
    ASSUME Bookkeeping, NEW t \in Threads, MarkMandatory(t)
    PROVE  Bookkeeping'
<1> USE DEF Bookkeeping
<1> DEFINE c == call[t]
<1>0. /\ Active(t) /\ CallIsSound(t)
      /\ begun' = begun /\ begun \in 0 .. MaxCalls
      /\ typeId' = typeId /\ instance' = instance
      /\ typeId \in [Threads -> Nodes \cup {Null, Placeholder}]
      /\ there' = there /\ parent' = parent /\ nameOf' = nameOf
  BY DEF MarkMandatory, TypeOK
<1>1. CASE GiveUp(t) /\ mandatory' = mandatory
  BY <1>0, <1>1, FailureKeepsBooks DEF space
<1>2. CASE /\ c.pending \in there
           /\ mandatory' = mandatory \cup {c.pending}
           /\ GoOn(t, Advanced(c))
           /\ cut' = cut /\ maker' = maker
  <2>1. /\ CallIsSound(t)'
        /\ call' \in [Threads -> Call]
        /\ \A u \in Threads \ {t} : call'[u] = call[u]
        /\ finished' \subseteq finished \cup {c.type}
    BY <1>0, <1>2, AdvancedStaysSound
  <2>2. nameOf[c.pending] \in Names
    BY <1>0, <1>2, NextMember DEF CallIsSound, TypeOK
  <2>3. c.type \in Nodes /\ maker[c.type] \in Threads
    BY <1>0, NextMember DEF CallIsSound
  <2>4. TypeOK'
    BY <1>0, <1>2, <2>1, <2>3 DEF TypeOK, Call
  <2>5. SpaceIsUsed'
    BY <1>0, <1>2, <2>1, <2>2, <2>3 DEF SpaceIsUsed
  <2>6. \A u \in Threads : CallIsSound(u)'
    BY <1>0, <1>2, <2>1, OtherCallsStaySound
  <2> QED
    BY <2>4, <2>5, <2>6
<1> QED
  BY <1>1, <1>2 DEF MarkMandatory

(* An instance has names, and lacks names.                                 *)
LEMMA InstantiateKeepsBooks ==
    ASSUME Bookkeeping, NEW n, Instantiate(n),
           UNCHANGED <<space, typeId, call, begun, maker, finished, cut>>
    PROVE  Bookkeeping'
<1> USE DEF Bookkeeping
<1> DEFINE up == Supertypes(n)
           copied == {m \in mandatory : parent[m] \in up}
           due == UNION {MandatoryNames(k) : k \in up \cap (finished \ cut)}
<1>1. {nameOf[m] : m \in copied} \subseteq Names
  BY DEF SpaceIsUsed
<1>2. due \subseteq Names
  <2> SUFFICES ASSUME NEW k \in finished PROVE MandatoryNames(k) \subseteq Names
    OBVIOUS
  <2>1. maker[k] \in Threads
    BY DEF SpaceIsUsed
  <2>2. \A i \in DOMAIN Members[maker[k]] : Members[maker[k]][i].name \in Names
    BY <2>1, MemberTypes
  <2> QED
    BY <2>2 DEF MandatoryNames
<1>3. instance' = [has |-> {nameOf[m] : m \in copied}, due |-> due]
  BY Zenon DEF Instantiate
<1>4. instance' \in [has : SUBSET Names, due : SUBSET Names]
  <2> HIDE DEF copied, due
  <2> QED
    BY <1>1, <1>2, <1>3
<1>5. TypeOK' /\ SpaceIsUsed'
  BY <1>4 DEF TypeOK, SpaceIsUsed, space
<1>6. \A u \in Threads : CallIsSound(u)'
  BY OtherCallsStaySound DEF space
<1> QED
  BY <1>5, <1>6

LEMMA ClientDeleteKeepsBooks ==
    ASSUME Bookkeeping, NEW n \in Nodes, ClientDelete(n)
    PROVE  Bookkeeping'
<1> USE DEF Bookkeeping
<1>1. /\ there' = there \ {n} /\ mandatory' = mandatory \ {n}
      /\ finished' = finished \ {n}
      /\ parent' = [m \in Nodes |-> IF m = n \/ parent[m] = n THEN Null
                                    ELSE parent[m]]
      /\ cut' = cut \cup ({n, parent[n]} \cap Nodes)
      /\ UNCHANGED <<nameOf, typeId, call, begun, maker, instance>>
  BY DEF ClientDelete
<1>2. parent' \in [Nodes -> there' \cup {Base, Null}]
  BY <1>1 DEF TypeOK
<1>3. TypeOK' /\ SpaceIsUsed'
  BY <1>1, <1>2 DEF TypeOK, SpaceIsUsed
<1>4. \A u \in Threads : CallIsSound(u)'
  BY <1>1, OtherCallsStaySound
<1> QED
  BY <1>3, <1>4

LEMMA BookkeepingStep == Bookkeeping /\ [Next]_vars => Bookkeeping'
<1> SUFFICES ASSUME Bookkeeping, [Next]_vars PROVE Bookkeeping'
  OBVIOUS
<1>0. /\ begun \in 0 .. MaxCalls
      /\ begun < MaxCalls => begun + 1 \in 0 .. MaxCalls
      /\ typeId \in [Threads -> Nodes \cup {Null, Placeholder}]
  BY ObjectTypesAssumption
     DEF ObjectTypesAssumption, Bookkeeping, TypeOK
<1>1. ASSUME NEW t \in Threads, NEW asked \in Asked \cup {Null},
             AddType(t, asked)
      PROVE  Bookkeeping'
  <2>1. CASE /\ typeId' = [typeId EXCEPT ![t] = Placeholder]
             /\ GiveUp(t) /\ UNCHANGED space
    BY <1>0, <1>1, <2>1, FailureKeepsBooks DEF AddType
  <2>2. ASSUME NEW n \in NewId(asked),
               AddNode(n, Base, Null), MadeType(t, n),
               typeId' = [typeId EXCEPT ![t] = n],
               GoOn(t, Begun(n, n)), mandatory' = mandatory
        PROVE  Bookkeeping'
    <3>1. n \in Nodes
      BY NewIdIsFresh DEF Bookkeeping
    <3> QED
      BY <1>0, <1>1, <2>2, <3>1, TypeMadeKeepsBooks DEF AddType
  <2> QED
    BY <1>1, <2>1, <2>2 DEF AddType
<1>2. ASSUME NEW t \in Threads, NEW super \in Types \cup {Base},
             NEW asked \in Asked \cup {Null}, NEW handed \in BOOLEAN,
             AppendType(t, super, asked, handed)
      PROVE  Bookkeeping'
  <2>1. CASE GiveUp(t) /\ UNCHANGED space
    BY <1>0, <1>2, <2>1, FailureKeepsBooks DEF AppendType
  <2>2. ASSUME NEW n \in NewId(asked),
               AddNode(n, super, Null), MadeType(t, n), mandatory' = mandatory,
               IF handed THEN GoOn(t, Begun(n, asked))
               ELSE UNCHANGED <<call, finished>>
        PROVE  Bookkeeping'
    BY <1>0, <1>2, <2>2, TypeMadeKeepsBooks DEF AppendType
  <2> QED
    BY <1>2, <2>1, <2>2 DEF AppendType
<1>3. ASSUME NEW t \in Threads, AddMember(t) PROVE Bookkeeping'
  BY <1>3, AddMemberKeepsBooks
<1>4. ASSUME NEW t \in Threads, MarkMandatory(t) PROVE Bookkeeping'
  BY <1>4, MarkMandatoryKeepsBooks
<1>5. ASSUME NEW t \in Threads, AddInstance(t) PROVE Bookkeeping'
  BY <1>5, InstantiateKeepsBooks DEF AddInstance
<1>6. ASSUME NEW n \in Nodes, ClientInstance(n) PROVE Bookkeeping'
  BY <1>6, InstantiateKeepsBooks DEF ClientInstance
<1>7. ASSUME NEW n \in Nodes, ClientDelete(n) PROVE Bookkeeping'
  BY <1>7, ClientDeleteKeepsBooks
<1>8. CASE UNCHANGED vars
  BY <1>8 DEF vars, space, history, Bookkeeping, TypeOK, SpaceIsUsed,
     CallIsSound, Active
<1> QED
  BY <1>1, <1>2, <1>3, <1>4, <1>5, <1>6, <1>7, <1>8 DEF Next

(* The variables keep their types.                                         *)
THEOREM TypeCorrect == Spec => []TypeOK
<1>1. Bookkeeping => TypeOK
  BY DEF Bookkeeping
<1> QED
  BY <1>1, BookkeepingInit, BookkeepingStep, PTL DEF Spec

-----------------------------------------------------------------------------
(* What every step leaves of types that nobody cut: the type and its        *)
(* members; and what waits for its reference is not made once more.         *)
Kept ==
    /\ cut \subseteq cut'
    /\ \A n \in there \ cut' : n \in there' /\ maker'[n] = maker[n]
    /\ \A c \in there : parent[c] \in Nodes \ cut' =>
          /\ c \in there' /\ parent'[c] = parent[c] /\ nameOf'[c] = nameOf[c]
          /\ c \in mandatory => c \in mandatory'
    /\ \A c \in there' \ Asked : nameOf[c] # Null => c \in there

LEMMA HasIsKept ==
    ASSUME Kept, NEW n \in Nodes \ cut', NEW m, Has(n, m)
    PROVE  Has(n, m)'
BY DEF Kept, Has

LEMMA WholeIsKept ==
    ASSUME Bookkeeping, Progress, Kept, NEW n \in finished \ cut'
    PROVE  (n \in there /\ IsWhole(n))'
<1>1. n \in Nodes /\ n \in there /\ IsWhole(n)
  BY DEF Kept, Progress, Bookkeeping, TypeOK
<1>2. n \in there' /\ maker'[n] = maker[n]
  BY <1>1 DEF Kept
<1>3. PICK t : t = maker[n]
  OBVIOUS
<1>4. ASSUME NEW k \in DOMAIN Members[t] PROVE Has(n, Members[t][k])'
  <2>1. Has(n, Members[t][k])
    BY <1>1, <1>3, <1>4 DEF IsWhole
  <2> QED
    BY <1>1, <2>1, HasIsKept
<1> QED
  BY <1>2, <1>3, <1>4 DEF IsWhole, Has

LEMMA OtherCallsStayWhole ==
    ASSUME Bookkeeping, TypeOK', Progress, Kept,
           NEW u \in Threads, call'[u] = call[u]
    PROVE  WholeSoFar(u)'
<1> SUFFICES ASSUME Active(u), call[u].type \notin cut'
             PROVE  WholeSoFar(u)'
  BY DEF WholeSoFar, Active
<1>1. PICK c \in Call : c = call[u]
  BY DEF Bookkeeping, TypeOK, Call
<1>2. /\ c.type \in Nodes /\ c.type \notin cut' /\ c.type \notin cut
      /\ c.type \in there /\ maker[c.type] = u
      /\ c.pending \in there => parent[c.pending] = c.type
      /\ \A k \in 1 .. c.done : Has(c.type, Members[u][k])
  BY <1>1 DEF Call, Active, Kept, Progress, WholeSoFar
<1>3. c.type \in there' /\ maker'[c.type] = u
  BY <1>2 DEF Kept
<1>4. c.pending \in there' => parent'[c.pending] = c.type
  <2> SUFFICES ASSUME c.pending \in there' PROVE parent'[c.pending] = c.type
    OBVIOUS
  <2>1. c.pending \in Nodes
    BY DEF TypeOK
  <2>2. c.pending \notin Asked /\ nameOf[c.pending] # Null
    BY <1>1, <2>1, NextMember DEF Bookkeeping, CallIsSound
  <2>3. c.pending \in there
    BY <2>2 DEF Kept
  <2> QED
    BY <1>2, <2>3 DEF Kept
<1>5. \A k \in 1 .. c.done : Has(c.type, Members[u][k])'
  BY <1>2, HasIsKept
<1> QED
  BY <1>1, <1>2, <1>3, <1>4, <1>5 DEF WholeSoFar, Has

(* A call that ends early, or another's step.                              *)
LEMMA NoMoreProgress ==
    ASSUME Bookkeeping, TypeOK', Progress, Kept, finished' \subseteq finished,
           \A u \in Threads : call'[u] \in {call[u], Idle}
    PROVE  Progress'
<1>1. \A n \in finished' \ cut' : (n \in there /\ IsWhole(n))'
  BY WholeIsKept
<1>2. ASSUME NEW u \in Threads PROVE WholeSoFar(u)'
  <2>1. CASE call'[u] = Idle
    BY <2>1 DEF WholeSoFar, Active, Idle
  <2>2. CASE call'[u] = call[u]
    BY <2>2, OtherCallsStayWhole
  <2> QED
    BY <2>1, <2>2
<1> QED
  BY <1>1, <1>2 DEF Progress

(* A call that goes on, or finishes its type, with what it has made.        *)
LEMMA MoreProgress ==
    ASSUME Bookkeeping, TypeOK', Progress, Kept,
           NEW t \in Threads, NEW c \in Call, GoOn(t, c),
           c.done <= Len(Members[t]), c.pending = Null, c.type \in Nodes,
           c.type \notin cut' =>
              /\ c.type \in there' /\ maker'[c.type] = t
              /\ \A k \in 1 .. c.done : Has(c.type, Members[t][k])'
    PROVE  Progress'
<1>1. /\ \A u \in Threads \ {t} : call'[u] = call[u]
      /\ \/ /\ call'[t] = c /\ c.done < Len(Members[t])
            /\ finished' = finished
         \/ /\ call'[t] = Idle /\ c.done = Len(Members[t])
            /\ finished' = finished \cup {c.type}
  BY GoOnCases DEF Bookkeeping
<1>2. Null \notin there'
  BY ObjectTypesAssumption DEF ObjectTypesAssumption, TypeOK
<1>3. WholeSoFar(t)'
  <2>1. CASE call'[t] = c
    BY <1>2, <2>1 DEF WholeSoFar, Active, Has
  <2>2. CASE call'[t] = Idle
    BY <2>2 DEF WholeSoFar, Active, Idle
  <2> QED
    BY <1>1, <2>1, <2>2
<1>4. \A u \in Threads : WholeSoFar(u)'
  BY <1>1, <1>3, OtherCallsStayWhole
<1>5. ASSUME NEW n \in finished' \ cut' PROVE (n \in there /\ IsWhole(n))'
  <2>1. CASE n \in finished
    BY <1>5, <2>1, WholeIsKept
  <2>2. CASE n = c.type /\ c.done = Len(Members[t])
    <3>1. DOMAIN Members[t] = 1 .. c.done
      BY <2>2, MemberTypes
    <3>2. n \in there' /\ maker'[n] = t
      BY <1>5, <2>2
    <3>3. \A k \in DOMAIN Members[t] : Has(n, Members[t][k])'
      BY <1>5, <2>2, <3>1
    <3> QED
      BY <3>2, <3>3 DEF IsWhole, Has
  <2> QED
    BY <1>1, <1>5, <2>1, <2>2
<1> QED
  BY <1>4, <1>5 DEF Progress

(* Adding a node with a new id takes nothing away.                         *)
LEMMA AddNodeKeeps ==
    ASSUME Bookkeeping, NEW asked \in Asked \cup {Null},
           NEW n \in NewId(asked), NEW under, NEW name \in Names \cup {Null},
           AddNode(n, under, name), mandatory' = mandatory, cut' = cut,
           \A k \in Nodes \ {n} : maker'[k] = maker[k]
    PROVE  Kept /\ n \notin there
<1>1. /\ n \in Nodes /\ n \notin there
      /\ n \in Asked \/ nameOf[n] = Null
  BY NewIdIsFresh DEF Bookkeeping, SpaceIsUsed
<1>2. /\ there' = there \cup {n} /\ there \subseteq Nodes
      /\ \A k \in Nodes \ {n} : parent'[k] = parent[k] /\ nameOf'[k] = nameOf[k]
  BY <1>1 DEF AddNode, Bookkeeping, TypeOK
<1> QED
  BY <1>1, <1>2 DEF Kept

LEMMA ProgressInit == Init => Progress
BY DEF Init, Progress, WholeSoFar, Active, Idle

LEMMA TypeMadeKeepsProgress ==
    ASSUME Bookkeeping, TypeOK', Progress,
           NEW t \in Threads, NEW asked \in Asked \cup {Null},
           NEW n \in NewId(asked), NEW super, AddNode(n, super, Null),
           MadeType(t, n), mandatory' = mandatory,
           \/ \E under \in {n, asked} : GoOn(t, Begun(n, under))
           \/ call' = call /\ finished' = finished
    PROVE  Progress'
<1>1. n \in Nodes /\ asked \in {n, Null} /\ n \notin there
  BY NewIdIsFresh DEF Bookkeeping, SpaceIsUsed
<1>2. /\ maker'[n] = t /\ cut' = cut
      /\ \A k \in Nodes \ {n} : maker'[k] = maker[k]
  BY <1>1 DEF MadeType, Bookkeeping, TypeOK
<1>3. Kept
  BY <1>2, AddNodeKeeps
<1>4. CASE call' = call /\ finished' = finished
  BY <1>3, <1>4, NoMoreProgress
<1>5. ASSUME NEW under \in {n, asked}, GoOn(t, Begun(n, under))
      PROVE  Progress'
  <2>1. PICK c \in Call : c = Begun(n, under)
    BY <1>1, Records
  <2>2. c.type = n /\ c.done = 0 /\ c.pending = Null
    BY <2>1 DEF Begun
  <2>3. c.done <= Len(Members[t])
    BY <2>2, MemberTypes
  <2>4. c.type \in there' /\ maker'[c.type] = t /\ 1 .. c.done = {}
    BY <1>2, <2>2 DEF AddNode
  <2> QED
    BY <1>1, <1>3, <1>5, <2>1, <2>2, <2>3, <2>4, MoreProgress
<1> QED
  BY <1>4, <1>5

(* What the call of an active thread looks like when it may add something   *)
(* to a type that nobody cut.                                              *)
LEMMA ActiveCall ==
    ASSUME Bookkeeping, NEW t \in Threads, Active(t)
    PROVE  /\ call[t] \in Call /\ call[t].type \in Nodes
           /\ call[t].done + 1 \in 1 .. Len(Members[t])
           /\ call[t].under \in {call[t].type, Null}
           /\ Members[t][call[t].done + 1].name \in Names
           /\ Advanced(call[t]).done = call[t].done + 1
           /\ Advanced(call[t]).done <= Len(Members[t])
           /\ Advanced(call[t]).pending = Null
           /\ Advanced(call[t]).type = call[t].type
           /\ Advanced(call[t]) \in Call
<1>1. /\ call[t] \in Call /\ call[t].type \in Nodes
      /\ call[t].done + 1 \in 1 .. Len(Members[t])
      /\ Members[t][call[t].done + 1].name \in Names
  BY NextMember DEF Bookkeeping
<1>2. Len(Members[t]) \in Nat
  BY MemberTypes
<1> QED
  BY <1>1, <1>2, Records DEF Advanced, Bookkeeping, CallIsSound

(* The members of the call with one more.                                  *)
LEMMA OneMoreMember ==
    ASSUME Bookkeeping, Progress, Kept, NEW t \in Threads, Active(t),
           NEW c \in Call, c = call[t], c.type \notin cut',
           Has(c.type, Members[t][c.done + 1])'
    PROVE  /\ c.type \in there' /\ maker'[c.type] = t
           /\ \A k \in 1 .. c.done + 1 : Has(c.type, Members[t][k])'
<1>1. /\ c.type \in Nodes \ cut' /\ c.type \in there /\ maker[c.type] = t
      /\ \A k \in 1 .. c.done : Has(c.type, Members[t][k])
  BY DEF Call, Active, Kept, Progress, WholeSoFar
<1>2. \A k \in 1 .. c.done : Has(c.type, Members[t][k])'
  BY <1>1, HasIsKept
<1>3. \A k \in 1 .. c.done + 1 : k \in 1 .. c.done \/ k = c.done + 1
  BY DEF Call
<1> QED
  BY <1>1, <1>2, <1>3 DEF Kept

LEMMA AddMemberKeepsProgress ==
    ASSUME Bookkeeping, TypeOK', Progress, NEW t \in Threads, AddMember(t)
    PROVE  Progress'
<1>0. Active(t) /\ call[t].pending = Null
  BY DEF AddMember
<1>1. PICK c \in Call : c = call[t]
  BY <1>0, ActiveCall
<1>2. PICK m : m = Members[t][c.done + 1]
  OBVIOUS
<1>3. CASE GiveUp(t) /\ UNCHANGED space
  <2>1. /\ \A u \in Threads : call'[u] \in {call[u], Idle}
        /\ finished' = finished /\ Kept
    BY <1>3, GiveUpCase DEF Kept, space, Bookkeeping
  <2> QED
    BY <2>1, NoMoreProgress
<1>4. ASSUME NEW n \in NewId(Null), AddNode(n, c.under, m.name),
             mandatory' = mandatory, cut' = cut, maker' = maker,
             IF m.mandatory
             THEN /\ call' = [call EXCEPT ![t] =
                               Waiting(c, IF m.folder THEN Placeholder ELSE n)]
                  /\ finished' = finished
             ELSE GoOn(t, Advanced(c))
      PROVE  Progress'
  <2>0. n \in Nodes /\ m.name \in Names
    BY <1>0, <1>1, <1>2, <1>4, NewIdIsFresh, ActiveCall DEF Bookkeeping
  <2>1. Kept /\ n \notin there
    BY <1>4, <2>0, AddNodeKeeps
  <2>2. c.under = c.type /\ c.type \in Nodes
    BY <1>0, <1>1, <1>4, <2>0, AddNodeKeepsTypes, ActiveCall DEF Bookkeeping
  <2>3. n \in there' /\ parent'[n] = c.type /\ nameOf'[n] = m.name
    BY <1>4, <2>0, <2>2 DEF AddNode, Bookkeeping, TypeOK
  <2>4. CASE ~m.mandatory
    <3>1. PICK d \in Call : d = Advanced(c)
      BY <1>0, <1>1, ActiveCall
    <3>2. /\ d.done = c.done + 1 /\ d.done <= Len(Members[t])
          /\ d.pending = Null /\ d.type = c.type
      BY <1>0, <1>1, <3>1, ActiveCall
    <3>3. Has(c.type, m)'
      BY <2>3, <2>4 DEF Has
    <3>4. Has(c.type, Members[t][c.done + 1])'
      BY <1>2, <3>3
    <3>5. c.type \notin cut' =>
             /\ d.type \in there' /\ maker'[d.type] = t
             /\ \A k \in 1 .. d.done : Has(d.type, Members[t][k])'
      BY <1>0, <1>1, <2>1, <3>2, <3>4, OneMoreMember DEF Has
    <3> QED
      BY <1>4, <2>1, <2>2, <2>4, <3>1, <3>2, <3>5, MoreProgress
  <2>5. CASE m.mandatory
    <3>1. PICK p : p = IF m.folder THEN Placeholder ELSE n
      OBVIOUS
    <3>2. PICK w \in Call : w = Waiting(c, p)
      BY <2>0, <3>1, Records
    <3>3. w.type = c.type /\ w.done = c.done /\ w.pending = p
      BY <3>2 DEF Waiting
    <3>4. call' = [call EXCEPT ![t] = w] /\ finished' = finished
      BY <1>4, <2>5, <3>1, <3>2
    <3>5. call'[t] = w /\ \A u \in Threads \ {t} : call'[u] = call[u]
      BY <3>4 DEF Bookkeeping, TypeOK
    <3>6. p \in there' => parent'[p] = c.type
      BY <2>3, <3>1, ObjectTypesAssumption DEF ObjectTypesAssumption, TypeOK
    <3>7. c.type \notin cut' =>
             /\ c.type \in there' /\ maker'[c.type] = t
             /\ \A k \in 1 .. c.done : Has(c.type, Members[t][k])'
      <4> SUFFICES ASSUME c.type \notin cut'
                   PROVE  /\ c.type \in there' /\ maker'[c.type] = t
                          /\ \A k \in 1 .. c.done : Has(c.type, Members[t][k])'
        OBVIOUS
      <4>1. /\ c.type \in there /\ maker[c.type] = t
            /\ \A k \in 1 .. c.done : Has(c.type, Members[t][k])
        BY <1>0, <1>1, <2>1 DEF Kept, Progress, WholeSoFar
      <4> QED
        BY <2>1, <2>2, <4>1, HasIsKept DEF Kept
    <3>8. WholeSoFar(t)'
      BY <3>3, <3>5, <3>6, <3>7 DEF WholeSoFar, Has
    <3>9. \A u \in Threads : WholeSoFar(u)'
      BY <2>1, <3>5, <3>8, OtherCallsStayWhole
    <3>10. \A k \in finished' \ cut' : (k \in there /\ IsWhole(k))'
      BY <2>1, <3>4, WholeIsKept
    <3> QED
      BY <3>9, <3>10 DEF Progress
  <2> QED
    BY <2>4, <2>5
<1> QED
  BY <1>1, <1>2, <1>3, <1>4 DEF AddMember

LEMMA MarkMandatoryKeepsProgress ==
    ASSUME Bookkeeping, TypeOK', Progress, NEW t \in Threads, MarkMandatory(t)
    PROVE  Progress'
<1>0. Active(t) /\ there' = there /\ parent' = parent /\ nameOf' = nameOf
  BY DEF MarkMandatory
<1>1. PICK c \in Call : c = call[t]
  BY <1>0, ActiveCall
<1>2. CASE GiveUp(t) /\ mandatory' = mandatory
  <2>1. /\ \A u \in Threads : call'[u] \in {call[u], Idle}
        /\ finished' = finished /\ Kept
    BY <1>0, <1>2, GiveUpCase DEF Kept, Bookkeeping
  <2> QED
    BY <2>1, NoMoreProgress
<1>3. CASE /\ c.pending \in there
           /\ mandatory' = mandatory \cup {c.pending}
           /\ GoOn(t, Advanced(c))
           /\ cut' = cut /\ maker' = maker
  <2>1. Kept /\ c.pending \in Nodes
    BY <1>0, <1>3 DEF Kept, Bookkeeping, TypeOK
  <2>2. PICK d \in Call : d = Advanced(c)
    BY <1>0, <1>1, ActiveCall
  <2>3. /\ d.done = c.done + 1 /\ d.done <= Len(Members[t])
        /\ d.pending = Null /\ d.type = c.type /\ c.type \in Nodes
    BY <1>0, <1>1, <2>2, ActiveCall
  <2>4. c.type \notin cut' => Has(c.type, Members[t][c.done + 1])'
    <3> SUFFICES ASSUME c.type \notin cut'
                 PROVE  Has(c.type, Members[t][c.done + 1])'
      OBVIOUS
    <3>1. parent[c.pending] = c.type
      BY <1>0, <1>1, <1>3 DEF Progress, WholeSoFar
    <3>2. nameOf[c.pending] = Members[t][c.done + 1].name
      BY <1>0, <1>1, <2>1 DEF Bookkeeping, CallIsSound
    <3> QED
      BY <1>0, <1>3, <3>1, <3>2 DEF Has
  <2>5. c.type \notin cut' =>
           /\ d.type \in there' /\ maker'[d.type] = t
           /\ \A k \in 1 .. d.done : Has(d.type, Members[t][k])'
    BY <1>0, <1>1, <2>1, <2>3, <2>4, OneMoreMember DEF Has
  <2> QED
    BY <1>3, <2>1, <2>2, <2>3, <2>5, MoreProgress
<1> QED
  BY <1>1, <1>2, <1>3 DEF MarkMandatory

LEMMA ClientDeleteKeeps ==
    ASSUME Bookkeeping, NEW n \in Nodes, ClientDelete(n)
    PROVE  Kept
<1>1. /\ there' = there \ {n} /\ mandatory' = mandatory \ {n}
      /\ \A m \in Nodes : parent'[m] = IF m = n \/ parent[m] = n THEN Null
                                        ELSE parent[m]
      /\ cut' = cut \cup ({n, parent[n]} \cap Nodes)
      /\ nameOf' = nameOf /\ maker' = maker
  BY DEF ClientDelete
<1>2. there \subseteq Nodes
  BY DEF Bookkeeping, TypeOK
<1> QED
  BY <1>1, <1>2 DEF Kept

LEMMA ProgressStep ==
    Bookkeeping /\ Progress /\ [Next]_vars => Progress'
<1> SUFFICES ASSUME Bookkeeping, Progress, [Next]_vars PROVE Progress'
  OBVIOUS
<1>0. TypeOK'
  BY BookkeepingStep DEF Bookkeeping
<1>1. ASSUME NEW t \in Threads, NEW asked \in Asked \cup {Null},
             AddType(t, asked)
      PROVE  Progress'
  <2>1. CASE GiveUp(t) /\ UNCHANGED space
    <3>1. /\ \A u \in Threads : call'[u] \in {call[u], Idle}
          /\ finished' = finished /\ Kept
      BY <2>1, GiveUpCase DEF Kept, space, Bookkeeping
    <3> QED
      BY <1>0, <3>1, NoMoreProgress
  <2>2. ASSUME NEW n \in NewId(asked), AddNode(n, Base, Null), MadeType(t, n),
               GoOn(t, Begun(n, n)), mandatory' = mandatory
        PROVE  Progress'
    BY <1>0, <2>2, TypeMadeKeepsProgress
  <2> QED
    BY <1>1, <2>1, <2>2 DEF AddType
<1>2. ASSUME NEW t \in Threads, NEW super \in Types \cup {Base},
             NEW asked \in Asked \cup {Null}, NEW handed \in BOOLEAN,
             AppendType(t, super, asked, handed)
      PROVE  Progress'
  <2>1. CASE GiveUp(t) /\ UNCHANGED space
    <3>1. /\ \A u \in Threads : call'[u] \in {call[u], Idle}
          /\ finished' = finished /\ Kept
      BY <2>1, GiveUpCase DEF Kept, space, Bookkeeping
    <3> QED
      BY <1>0, <3>1, NoMoreProgress
  <2>2. ASSUME NEW n \in NewId(asked), AddNode(n, super, Null),
               MadeType(t, n), mandatory' = mandatory,
               IF handed THEN GoOn(t, Begun(n, asked))
               ELSE UNCHANGED <<call, finished>>
        PROVE  Progress'
    BY <1>0, <2>2, TypeMadeKeepsProgress
  <2> QED
    BY <1>2, <2>1, <2>2 DEF AppendType
<1>3. ASSUME NEW t \in Threads, AddMember(t) PROVE Progress'
  BY <1>0, <1>3, AddMemberKeepsProgress
<1>4. ASSUME NEW t \in Threads, MarkMandatory(t) PROVE Progress'
  BY <1>0, <1>4, MarkMandatoryKeepsProgress
<1>5. CASE UNCHANGED <<space, call, maker, finished, cut>>
  BY <1>0, <1>5, NoMoreProgress DEF space, Kept
<1>6. ASSUME NEW n \in Nodes, ClientDelete(n) PROVE Progress'
  <2>1. Kept
    BY <1>6, ClientDeleteKeeps
  <2> QED
    BY <1>0, <1>6, <2>1, NoMoreProgress DEF ClientDelete
<1> QED
  BY <1>1, <1>2, <1>3, <1>4, <1>5, <1>6
     DEF Next, AddInstance, ClientInstance, vars, history

(* What addType or append reported as made is whole, unless somebody        *)
(* deleted a part of it, for any classes and any number of threads.         *)
THEOREM FinishedTypesAreWhole == Spec => []FinishedIsWhole
<1>1. Progress => FinishedIsWhole
  BY DEF Progress, IsWhole, Has, FinishedIsWhole
<1> QED
  BY <1>1, BookkeepingInit, BookkeepingStep, ProgressInit, ProgressStep, PTL
     DEF Spec

-----------------------------------------------------------------------------
(* An instance copies the marked members of whole types.                   *)
LEMMA InstanceStep ==
    Progress /\ InstancesAreWhole /\ [Next]_vars => InstancesAreWhole'
<1> SUFFICES ASSUME Progress, InstancesAreWhole, [Next]_vars
             PROVE  InstancesAreWhole'
  OBVIOUS
<1>1. CASE instance' = instance
  BY <1>1 DEF InstancesAreWhole
<1>2. ASSUME NEW n, Instantiate(n) PROVE InstancesAreWhole'
  <2> DEFINE up == Supertypes(n)
             copied == {m \in mandatory : parent[m] \in up}
             has == {nameOf[m] : m \in copied}
             due == UNION {MandatoryNames(k) : k \in up \cap (finished \ cut)}
  <2>1. ASSUME NEW k \in up \cap (finished \ cut), NEW x \in MandatoryNames(k)
        PROVE  x \in has
    <3>1. PICK i \in DOMAIN Members[maker[k]] :
             /\ Members[maker[k]][i].mandatory
             /\ x = Members[maker[k]][i].name
      BY <2>1 DEF MandatoryNames
    <3>2. Has(k, Members[maker[k]][i])
      BY <2>1, <3>1 DEF Progress, IsWhole
    <3> QED
      BY <2>1, <3>1, <3>2 DEF Has
  <2>2. due \subseteq has
    BY <2>1
  <2>3. instance' = [has |-> has, due |-> due]
    BY <1>2, Zenon DEF Instantiate
  <2> HIDE DEF has, due
  <2> QED
    BY <2>2, <2>3 DEF InstancesAreWhole
<1> QED
  BY <1>1, <1>2
     DEF Next, vars, history, AddInstance, ClientInstance, AddType, AppendType,
         AddMember, MarkMandatory, ClientDelete

(* An instance has all mandatory members of its type and the types that is  *)
(* derived from, of those that were reported as made and not cut.           *)
THEOREM WholeTypesMakeWholeInstances == Spec => []InstancesAreWhole
<1>1. Init => InstancesAreWhole
  BY DEF Init, InstancesAreWhole
<1> QED
  BY <1>1, InstanceStep, BookkeepingInit, BookkeepingStep, ProgressInit,
     ProgressStep, PTL DEF Spec

-----------------------------------------------------------------------------
(* A step that adds no named node makes no twins; calls that go on have     *)
(* added what they had.                                                    *)
LEMMA NoTwinsMade ==
    ASSUME NoTwinMembers, cut \subseteq cut', Null \notin Nodes,
           \A c \in there' : nameOf'[c] # Null /\ parent'[c] \in Nodes \ cut' =>
              c \in there /\ parent[c] = parent'[c] /\ nameOf[c] = nameOf'[c]
    PROVE  NoTwinMembers'
BY DEF NoTwinMembers

LEMMA StillOnlyItsMembers ==
    ASSUME Bookkeeping, NEW u \in Threads, OnlyItsMembers(u),
           cut \subseteq cut',
           \A c \in there' :
              nameOf'[c] # Null /\ parent'[c] = call[u].type
                 /\ call[u].type \in Nodes \ cut' =>
              c \in there /\ parent[c] = parent'[c] /\ nameOf[c] = nameOf'[c],
           \/ call'[u] = call[u]
           \/ call'[u] = Idle
           \/ /\ call[u].pending # Null /\ Active(u)
              /\ call'[u] = Advanced(call[u])
    PROVE  OnlyItsMembers(u)'
<1>1. call[u] \in Call
  BY DEF Bookkeeping, TypeOK, Call
<1>2. CASE call'[u] = call[u]
  BY <1>1, <1>2 DEF OnlyItsMembers, Active, Call
<1>3. CASE call'[u] = Idle
  BY <1>3 DEF OnlyItsMembers, Active, Idle
<1>4. CASE call[u].pending # Null /\ Active(u) /\ call'[u] = Advanced(call[u])
  <2>1. /\ call'[u].type = call[u].type /\ call'[u].done = call[u].done + 1
        /\ call[u].done \in Nat /\ call[u].type \in Nodes
    BY <1>1, <1>4 DEF Advanced, Call, Active
  <2> SUFFICES ASSUME call[u].type \notin cut', NEW c \in there',
                      parent'[c] = call[u].type, nameOf'[c] # Null
               PROVE  \E k \in 1 .. call'[u].done + 1 :
                         /\ nameOf'[c] = Members[u][k].name
                         /\ k = call'[u].done + 1 => call'[u].pending # Null
    BY <2>1 DEF OnlyItsMembers
  <2>2. c \in there /\ parent[c] = call[u].type /\ nameOf[c] = nameOf'[c]
    BY <2>1
  <2>3. PICK k \in 1 .. call[u].done + 1 : nameOf[c] = Members[u][k].name
    BY <1>4, <2>2 DEF OnlyItsMembers
  <2>4. k \in 1 .. call'[u].done + 1 /\ k # call'[u].done + 1
    BY <2>1, <2>3
  <2> QED
    BY <2>2, <2>3, <2>4
<1> QED
  BY <1>2, <1>3, <1>4

LEMMA SiblingsInit == Init => Siblings
BY DEF Init, Siblings, NoTwinMembers, OnlyItsMembers, Active, Idle

(* A new type has no members, and no call but its own.                     *)
LEMMA TypeMadeKeepsSiblings ==
    ASSUME Bookkeeping, Siblings,
           NEW t \in Threads, NEW asked \in Asked \cup {Null},
           NEW n \in NewId(asked), NEW super \in there \cup {Base},
           AddNode(n, super, Null), MadeType(t, n),
           \/ \E under \in {n, asked} : GoOn(t, Begun(n, under))
           \/ call' = call
    PROVE  Siblings'
<1> USE ObjectTypesAssumption DEF ObjectTypesAssumption
<1>1. n \in Nodes /\ asked \in {n, Null} /\ n \notin there /\ cut' = cut
      /\ there \subseteq Nodes
  BY NewIdIsFresh DEF Bookkeeping, SpaceIsUsed, MadeType, TypeOK
<1>2. /\ \A c \in there' : nameOf'[c] # Null =>
             /\ c \in there
             /\ parent[c] = parent'[c] /\ nameOf[c] = nameOf'[c]
      /\ \A c \in there : parent[c] # n
  BY <1>1 DEF AddNode, Bookkeeping, TypeOK
<1>3. NoTwinMembers'
  BY <1>1, <1>2, NoTwinsMade DEF Siblings
<1>4. ASSUME NEW u \in Threads PROVE OnlyItsMembers(u)'
  <2>1. CASE call'[u] \in {call[u], Idle}
    BY <1>1, <1>2, <2>1, StillOnlyItsMembers DEF Siblings
  <2>2. CASE call'[u].type = n
    BY <1>2, <2>2 DEF OnlyItsMembers
  <2>3. ASSUME NEW under \in {n, asked}, GoOn(t, Begun(n, under))
        PROVE  call'[u] \in {call[u], Idle} \/ call'[u].type = n
    <3>1. Begun(n, under) \in Call /\ Begun(n, under).type = n
          /\ Begun(n, under).done = 0
      BY <1>1, Records DEF Begun
    <3>2. 0 <= Len(Members[t])
      BY MemberTypes
    <3> QED
      BY <2>3, <3>1, <3>2, GoOnCases DEF Bookkeeping
  <2> QED
    BY <2>1, <2>2, <2>3
<1> QED
  BY <1>3, <1>4 DEF Siblings

LEMMA AddMemberKeepsSiblings ==
    ASSUME Bookkeeping, Progress, Siblings, NEW t \in Threads, AddMember(t)
    PROVE  Siblings'
<1> USE ObjectTypesAssumption DEF ObjectTypesAssumption
<1>0. Active(t) /\ call[t].pending = Null
  BY DEF AddMember
<1>1. PICK c \in Call : c = call[t]
  BY <1>0, ActiveCall
<1>2. PICK m : m = Members[t][c.done + 1]
  OBVIOUS
<1>3. CASE GiveUp(t) /\ UNCHANGED space
  <2>1. /\ \A u \in Threads : call'[u] \in {call[u], Idle}
        /\ cut' = cut
    BY <1>3, GiveUpCase DEF Bookkeeping
  <2>2. NoTwinMembers'
    BY <1>3, <2>1 DEF space, Siblings, NoTwinMembers
  <2>3. \A u \in Threads : OnlyItsMembers(u)'
    BY <1>3, <2>1, StillOnlyItsMembers DEF space, Siblings
  <2> QED
    BY <2>2, <2>3 DEF Siblings
<1>4. ASSUME NEW n \in NewId(Null), AddNode(n, c.under, m.name),
             mandatory' = mandatory, cut' = cut, maker' = maker,
             IF m.mandatory
             THEN /\ call' = [call EXCEPT ![t] =
                               Waiting(c, IF m.folder THEN Placeholder ELSE n)]
                  /\ finished' = finished
             ELSE GoOn(t, Advanced(c))
      PROVE  Siblings'
  <2>0. /\ n \in Nodes /\ n \notin there /\ m.name \in Names /\ m.name # Null
        /\ c.done \in Nat /\ c.done + 1 \in DOMAIN Members[t]
    <3>1. n \in Nodes /\ n \notin there
      BY NewIdIsFresh DEF Bookkeeping, SpaceIsUsed
    <3>2. c.done + 1 \in 1 .. Len(Members[t]) /\ m.name \in Names
      BY <1>0, <1>1, <1>2, ActiveCall
    <3> QED
      BY <3>1, <3>2, MemberTypes DEF Call
  <2>1. c.under = c.type /\ c.type \in Nodes
    BY <1>0, <1>1, <1>4, <2>0, AddNodeKeepsTypes, ActiveCall DEF Bookkeeping
  <2>2. /\ n \in there' /\ parent'[n] = c.type /\ nameOf'[n] = m.name
        /\ \A k \in there' : k # n => /\ k \in there /\ parent[k] = parent'[k]
                                      /\ nameOf[k] = nameOf'[k]
    BY <1>4, <2>0, <2>1 DEF AddNode, Bookkeeping, TypeOK
  (* Before the step every named node below the type was an earlier member. *)
  <2>3. ASSUME c.type \notin cut, NEW k \in there,
               parent[k] = c.type, nameOf[k] # Null
        PROVE  \E i \in 1 .. c.done : nameOf[k] = Members[t][i].name
    <3>1. PICK i \in 1 .. c.done + 1 :
             /\ nameOf[k] = Members[t][i].name
             /\ i = c.done + 1 => c.pending # Null
      BY <1>0, <1>1, <2>3 DEF Siblings, OnlyItsMembers
    <3> QED
      BY <1>0, <1>1, <2>0, <3>1
  <2>4. ASSUME c.type \notin cut, NEW k \in there, parent[k] = c.type
        PROVE  nameOf[k] # m.name
    <3> SUFFICES ASSUME nameOf[k] = m.name PROVE FALSE
      OBVIOUS
    <3>1. PICK i \in 1 .. c.done : nameOf[k] = Members[t][i].name
      BY <2>0, <2>3, <2>4
    <3>2. i \in DOMAIN Members[t] /\ i # c.done + 1
      BY <2>0, <3>1, MemberTypes
    <3> QED
      BY <1>2, <2>0, <3>1, <3>2
  <2>5. NoTwinMembers'
    <3> SUFFICES ASSUME NEW d \in there', NEW e \in there',
                        parent'[d] = parent'[e], parent'[d] \in Nodes \ cut',
                        nameOf'[d] = nameOf'[e], nameOf'[d] # Null
                 PROVE  d = e
      BY DEF NoTwinMembers
    <3>1. CASE d # n /\ e # n
      BY <1>4, <2>2, <3>1 DEF Siblings, NoTwinMembers
    <3>2. CASE d = n /\ e # n
      BY <1>4, <2>2, <2>4, <3>2
    <3>3. CASE d # n /\ e = n
      BY <1>4, <2>2, <2>4, <3>3
    <3> QED
      BY <3>1, <3>2, <3>3
  <2>6. ASSUME NEW u \in Threads \ {t} PROVE OnlyItsMembers(u)'
    <3>1. call'[u] = call[u]
      <4>1. CASE m.mandatory
        BY <1>4, <4>1 DEF Bookkeeping, TypeOK
      <4>2. CASE ~m.mandatory
        BY <1>0, <1>1, <1>4, <4>2, ActiveCall, GoOnCases DEF Bookkeeping
      <4> QED
        BY <4>1, <4>2
    <3>2. CASE call[u].type # c.type
      BY <1>4, <2>2, <3>1, <3>2, StillOnlyItsMembers DEF Siblings
    <3>3. CASE call[u].type = c.type
      <4>1. c.type \in cut
        BY <1>0, <1>1, <3>3 DEF Progress, WholeSoFar, Active
      <4> QED
        BY <1>4, <3>1, <3>3, <4>1 DEF OnlyItsMembers
    <3> QED
      BY <3>2, <3>3
  <2>7. OnlyItsMembers(t)'
    <3> SUFFICES ASSUME Active(t)', call'[t].type \notin cut,
                        NEW k \in there', parent'[k] = call'[t].type,
                        nameOf'[k] # Null
                 PROVE  \E i \in 1 .. call'[t].done + 1 :
                           /\ nameOf'[k] = Members[t][i].name
                           /\ i = call'[t].done + 1 => call'[t].pending # Null
      BY <1>4 DEF OnlyItsMembers
    <3>1. CASE m.mandatory
      <4>1. PICK p : p = IF m.folder THEN Placeholder ELSE n
        OBVIOUS
      <4>2. p # Null
        BY <2>0, <4>1
      <4>3. /\ call'[t].type = c.type /\ call'[t].done = c.done
            /\ call'[t].pending = p
        BY <1>4, <3>1, <4>1 DEF Waiting, Bookkeeping, TypeOK
      <4>4. CASE k = n
        BY <1>2, <2>0, <2>2, <4>2, <4>3, <4>4
      <4>5. CASE k # n
        <5>1. PICK i \in 1 .. c.done : nameOf[k] = Members[t][i].name
          BY <2>2, <2>3, <4>3, <4>5
        <5> QED
          BY <2>0, <2>2, <4>2, <4>3, <4>5, <5>1
      <4> QED
        BY <4>4, <4>5
    <3>2. CASE ~m.mandatory
      <4>1. call'[t] = Advanced(c)
        BY <1>0, <1>1, <1>4, <3>2, ActiveCall, GoOnCases
           DEF Bookkeeping, Active, Idle
      <4>2. call'[t].type = c.type /\ call'[t].done = c.done + 1
        BY <4>1 DEF Advanced
      <4>3. CASE k = n
        <5>1. c.done + 1 \in 1 .. call'[t].done + 1
              /\ c.done + 1 # call'[t].done + 1
          BY <2>0, <4>2
        <5> QED
          BY <1>2, <2>2, <4>3, <5>1
      <4>4. CASE k # n
        <5>1. PICK i \in 1 .. c.done : nameOf[k] = Members[t][i].name
          BY <2>2, <2>3, <4>2, <4>4
        <5>2. i \in 1 .. call'[t].done + 1 /\ i # call'[t].done + 1
          BY <2>0, <4>2
        <5> QED
          BY <2>2, <4>4, <5>1, <5>2
      <4> QED
        BY <4>3, <4>4
    <3> QED
      BY <3>1, <3>2
  <2> QED
    BY <2>5, <2>6, <2>7 DEF Siblings
<1> QED
  BY <1>1, <1>2, <1>3, <1>4 DEF AddMember

LEMMA MarkMandatoryKeepsSiblings ==
    ASSUME Bookkeeping, Siblings, NEW t \in Threads, MarkMandatory(t)
    PROVE  Siblings'
<1>1. /\ Active(t) /\ call[t].pending # Null /\ cut' = cut
      /\ there' = there /\ parent' = parent /\ nameOf' = nameOf
  BY DEF MarkMandatory, GiveUp
<1>2. ASSUME NEW u \in Threads
      PROVE  \/ call'[u] \in {call[u], Idle}
             \/ u = t /\ call'[u] = Advanced(call[u])
  <2>1. CASE GiveUp(t)
    BY <2>1, GiveUpCase DEF Bookkeeping
  <2>2. CASE GoOn(t, Advanced(call[t]))
    BY <1>1, <2>2, ActiveCall, GoOnCases DEF Bookkeeping
  <2> QED
    BY <2>1, <2>2 DEF MarkMandatory
<1>3. NoTwinMembers'
  BY <1>1 DEF Siblings, NoTwinMembers
<1>4. \A u \in Threads : OnlyItsMembers(u)'
  BY <1>1, <1>2, StillOnlyItsMembers DEF Siblings
<1> QED
  BY <1>3, <1>4 DEF Siblings

LEMMA ClientDeleteKeepsSiblings ==
    ASSUME Bookkeeping, Siblings, NEW n \in Nodes, ClientDelete(n)
    PROVE  Siblings'
<1>1. /\ \A c \in there' : parent'[c] \in Nodes =>
             c \in there /\ parent[c] = parent'[c]
      /\ cut \subseteq cut' /\ nameOf' = nameOf /\ call' = call
      /\ Null \notin Nodes
  BY ObjectTypesAssumption
     DEF ObjectTypesAssumption, ClientDelete, Bookkeeping, TypeOK
<1>2. NoTwinMembers'
  BY <1>1, NoTwinsMade DEF Siblings
<1>3. \A u \in Threads : OnlyItsMembers(u)'
  BY <1>1, StillOnlyItsMembers DEF Siblings
<1> QED
  BY <1>2, <1>3 DEF Siblings

LEMMA SiblingsStep ==
    Bookkeeping /\ Progress /\ Siblings /\ [Next]_vars => Siblings'
<1> SUFFICES ASSUME Bookkeeping, Progress, Siblings, [Next]_vars
             PROVE  Siblings'
  OBVIOUS
(* What leaves the nodes alone and ends a call, or does nothing to calls.   *)
<1>0. ASSUME UNCHANGED <<there, parent, nameOf>>, cut' = cut,
             \A u \in Threads : call'[u] \in {call[u], Idle}
      PROVE  Siblings'
  <2>1. there' = there /\ parent' = parent /\ nameOf' = nameOf
    BY <1>0
  <2>2. NoTwinMembers'
    BY <1>0, <2>1 DEF Siblings, NoTwinMembers
  <2>3. ASSUME NEW u \in Threads PROVE OnlyItsMembers(u)'
    BY <1>0, <2>1, StillOnlyItsMembers DEF Siblings
  <2> QED
    BY <2>2, <2>3 DEF Siblings
<1>1. ASSUME NEW t \in Threads, NEW asked \in Asked \cup {Null},
             AddType(t, asked)
      PROVE  Siblings'
  <2>1. CASE GiveUp(t) /\ UNCHANGED space
    BY <1>0, <2>1, GiveUpCase DEF Bookkeeping, space
  <2>2. ASSUME NEW n \in NewId(asked), AddNode(n, Base, Null), MadeType(t, n),
               GoOn(t, Begun(n, n))
        PROVE  Siblings'
    BY <2>2, TypeMadeKeepsSiblings
  <2> QED
    BY <1>1, <2>1, <2>2 DEF AddType
<1>2. ASSUME NEW t \in Threads, NEW super \in Types \cup {Base},
             NEW asked \in Asked \cup {Null}, NEW handed \in BOOLEAN,
             AppendType(t, super, asked, handed)
      PROVE  Siblings'
  <2>1. CASE GiveUp(t) /\ UNCHANGED space
    BY <1>0, <2>1, GiveUpCase DEF Bookkeeping, space
  <2>2. ASSUME NEW n \in NewId(asked), AddNode(n, super, Null),
               MadeType(t, n),
               IF handed THEN GoOn(t, Begun(n, asked))
               ELSE UNCHANGED <<call, finished>>
        PROVE  Siblings'
    BY <2>2, TypeMadeKeepsSiblings DEF Types
  <2> QED
    BY <1>2, <2>1, <2>2 DEF AppendType
<1>3. ASSUME NEW t \in Threads, AddMember(t) PROVE Siblings'
  BY <1>3, AddMemberKeepsSiblings
<1>4. ASSUME NEW t \in Threads, MarkMandatory(t) PROVE Siblings'
  BY <1>4, MarkMandatoryKeepsSiblings
<1>5. CASE UNCHANGED <<space, call, cut>>
  BY <1>0, <1>5 DEF space
<1>6. ASSUME NEW n \in Nodes, ClientDelete(n) PROVE Siblings'
  BY <1>6, ClientDeleteKeepsSiblings
<1> QED
  BY <1>1, <1>2, <1>3, <1>4, <1>5, <1>6
     DEF Next, AddInstance, ClientInstance, vars, history

(* No type gets a member twice, whatever fails and is repeated.             *)
THEOREM MembersAreAddedOnce == Spec => []NoTwinMembers
<1>1. Siblings => NoTwinMembers
  BY DEF Siblings
<1> QED
  BY <1>1, BookkeepingInit, BookkeepingStep, ProgressInit, ProgressStep,
     SiblingsInit, SiblingsStep, PTL DEF Spec
=============================================================================
