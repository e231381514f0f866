----------------------- MODULE ClientSubscriptionsProofs -----------------------
(***************************************************************************)
(* Proofs about ClientSubscriptions for any sets of subscriptions and      *)
(* items.                                                                  *)
(*                                                                         *)
(* ObjectsAreOwned is inductive together with the types; KeysAreUsedUp is  *)
(* what keeps keys from being given twice.  LibraryMirrorsWrapper needs    *)
(* that ownership: what the library still knows is owned, and what is      *)
(* owned is deleted before its owner.                                      *)
(***************************************************************************)
EXTENDS ClientSubscriptions, TLAPS

KeysAreUsedUp ==
    \A s \in Subs, k \in Keys : map[s][k] # NoItem => k <= monitorId[s]

Ownership == TypeOK /\ ObjectsAreOwned /\ KeysAreUsedUp

-----------------------------------------------------------------------------
(* What is in m_map, key by key.                                           *)
LEMMA ItemsOfMember ==
    \A s \in Subs : \A i : i \in ItemsOf(s) <=> i # NoItem /\ \E k \in Keys : map[s][k] = i
BY DEF ItemsOf

(* Event filters are all that DeleteFilters changes, besides reporting a    *)
(* second deletion.                                                        *)
LEMMA DeleteFiltersTypes ==
    ASSUME TypeOK, NEW n, DeleteFilters(n)
    PROVE  /\ filter' \in [Items -> {"none", "held", "deleted"}]
           /\ fault' \in {fault, "doubleDelete"}
BY DEF TypeOK, DeleteFilters

(* Inserting an item of a subscription under the next key.                  *)
LEMMA InsertKeepsMaps ==
    ASSUME TypeOK, KeysAreUsedUp, NEW s \in Subs, NEW i \in Items, Insert(s, i)
    PROVE  /\ map' \in [Subs -> [Keys -> Items \cup {NoItem}]]
           /\ monitorId' \in [Subs -> 0 .. MaxKey]
           /\ monitorId[s] + 1 \in Keys
           /\ \A r \in Subs, k \in Keys :
                map'[r][k] = IF r = s /\ k = monitorId[s] + 1 THEN i ELSE map[r][k]
           /\ map[s][monitorId[s] + 1] = NoItem
           /\ KeysAreUsedUp'
<1>1. /\ MaxKey \in Nat /\ monitorId[s] \in 0 .. MaxKey /\ monitorId[s] < MaxKey
      /\ \A k \in Keys : k \in Int
  BY ClientSubscriptionsAssumption
     DEF ClientSubscriptionsAssumption, TypeOK, Insert, Keys
<1>2. monitorId[s] + 1 \in Keys /\ monitorId[s] + 1 \in 0 .. MaxKey
  BY <1>1 DEF Keys
<1>3. /\ map' = [map EXCEPT ![s][monitorId[s] + 1] = i]
      /\ monitorId' = [monitorId EXCEPT ![s] = monitorId[s] + 1]
  BY DEF Insert
<1>4. \A r \in Subs, k \in Keys :
         map'[r][k] = IF r = s /\ k = monitorId[s] + 1 THEN i ELSE map[r][k]
  BY <1>2, <1>3 DEF TypeOK
<1>5. map' \in [Subs -> [Keys -> Items \cup {NoItem}]]
  BY <1>2, <1>3 DEF TypeOK
<1>6. monitorId' \in [Subs -> 0 .. MaxKey]
  BY <1>2, <1>3 DEF TypeOK
<1>7. map[s][monitorId[s] + 1] = NoItem
  BY <1>1, <1>2 DEF KeysAreUsedUp
<1>8. KeysAreUsedUp'
  <2> SUFFICES ASSUME NEW r \in Subs, NEW k \in Keys, map'[r][k] # NoItem
               PROVE  k <= monitorId'[r]
    BY DEF KeysAreUsedUp
  <2>1. monitorId[r] \in Int /\ k \in Int
    BY <1>1 DEF TypeOK
  <2>2. monitorId'[r] = IF r = s THEN monitorId[s] + 1 ELSE monitorId[r]
    BY <1>3 DEF TypeOK
  <2> QED
    BY <1>1, <1>4, <2>1, <2>2 DEF KeysAreUsedUp
<1> QED
  BY <1>2, <1>4, <1>5, <1>6, <1>7, <1>8

(* Destroying subscriptions with all that they own keeps the ownership.     *)
LEMMA DestroyKeepsOwnership ==
    ASSUME Ownership, NEW D \in SUBSET inMap, NEW C \in SUBSET Subs,
           NEW left \in SUBSET libItems, Destroy(D, C, left),
           fault' \in {fault, "useAfterFree"}
    PROVE  Ownership'
<1> USE DEF Ownership
<1>a. ClientSubscriptionsAssumption /\ D \subseteq Subs
  BY ClientSubscriptionsAssumption DEF TypeOK
<1> DEFINE gone == UNION {ItemsOf(s) : s \in D}
<1>1. /\ inMap' = inMap \ D
      /\ subState' = [s \in Subs |-> IF s \in D THEN "dead" ELSE subState[s]]
      /\ itemState' = [i \in Items |-> IF i \in gone THEN "dead" ELSE itemState[i]]
      /\ map' = [s \in Subs |-> IF s \in D THEN [k \in Keys |-> NoItem] ELSE map[s]]
      /\ UNCHANGED <<monitorId, owner, isEvent, filter, good>>
  BY DEF Destroy
<1>2. \A i : i \in gone <=> \E s \in D : i \in ItemsOf(s)
  OBVIOUS
<1> HIDE DEF gone
<1>3. TypeOK'
  <2>1. /\ libSubs' \subseteq Subs /\ libItems' \subseteq Items
        /\ clean' \in BOOLEAN /\ assigned' \in [Items -> BOOLEAN]
    BY DEF Destroy, TypeOK
  <2>2. /\ subState' \in [Subs -> States] /\ inMap' \subseteq Subs
        /\ itemState' \in [Items -> States]
        /\ map' \in [Subs -> [Keys -> Items \cup {NoItem}]]
    BY <1>1 DEF TypeOK, States
  <2> QED
    BY <1>1, <2>1, <2>2 DEF TypeOK
<1>4. \A s \in Subs : ItemsOf(s)' = IF s \in D THEN {} ELSE ItemsOf(s)
  BY <1>1 DEF ItemsOf
<1>5. ObjectsAreOwned'
  <2>1. \A s \in Subs : subState'[s] = "live" <=> s \in inMap'
    BY <1>1 DEF ObjectsAreOwned
  <2>2. ASSUME NEW i \in Items
        PROVE  itemState'[i] = "live" <=> i \in ItemsOf(owner[i])'
    <3>1. owner[i] \in Subs
      BY DEF TypeOK
    <3>2. i \in gone => owner[i] \in D
      BY <1>a, <1>2 DEF ObjectsAreOwned
    <3>3. itemState[i] = "live" /\ owner[i] \in D => i \in gone
      BY <1>2 DEF ObjectsAreOwned
    <3> QED
      BY <1>1, <1>4, <3>1, <3>2, <3>3 DEF ObjectsAreOwned
  <2>3. \A s \in Subs : \A i \in ItemsOf(s)' : owner[i] = s /\ s \in inMap'
    BY <1>1, <1>4 DEF ObjectsAreOwned
  <2> QED
    BY <1>1, <2>1, <2>2, <2>3 DEF ObjectsAreOwned
<1>6. KeysAreUsedUp'
  BY <1>1 DEF KeysAreUsedUp
<1> QED
  BY <1>3, <1>5, <1>6

(* So does a subscription that takes the place of another: what that owned  *)
(* goes with it.                                                           *)
LEMMA ReplacingKeepsOwnership ==
    ASSUME Ownership, NEW s \in Subs, NEW u \in Subs, AddSubscriptionOver(s, u)
    PROVE  Ownership'
<1> USE DEF Ownership
<1> DEFINE gone == ItemsOf(u)
<1>1. /\ u \in inMap /\ subState[s] = "free" /\ s # u
      /\ inMap' = (inMap \ {u}) \cup {s}
      /\ subState' = [subState EXCEPT ![s] = "live", ![u] = "dead"]
      /\ itemState' = [i \in Items |-> IF i \in gone THEN "dead" ELSE itemState[i]]
      /\ map' = [map EXCEPT ![u] = [k \in Keys |-> NoItem]]
      /\ UNCHANGED <<monitorId, owner, isEvent, libItems, filter, good, fault>>
  BY DEF AddSubscriptionOver, ObjectsAreOwned
<1>2. /\ \A i \in gone : owner[i] = u
      /\ \A i \in Items : itemState[i] = "live" /\ owner[i] = u => i \in gone
  BY DEF ObjectsAreOwned
<1>3. \A r \in Subs : ItemsOf(r)' = IF r = u THEN {} ELSE ItemsOf(r)
  BY <1>1 DEF ItemsOf, TypeOK
<1> HIDE DEF gone
<1>4. TypeOK'
  <2>1. /\ libSubs' \subseteq Subs /\ clean' \in BOOLEAN /\ assigned' \in [Items -> BOOLEAN]
    BY DEF AddSubscriptionOver, TypeOK
  <2>2. /\ subState' \in [Subs -> States] /\ inMap' \subseteq Subs
        /\ itemState' \in [Items -> States]
        /\ map' \in [Subs -> [Keys -> Items \cup {NoItem}]]
    BY <1>1 DEF TypeOK, States
  <2> QED
    BY <1>1, <2>1, <2>2 DEF TypeOK
<1>5. ObjectsAreOwned'
  <2>1. \A r \in Subs : subState'[r] = "live" <=> r \in inMap'
    BY <1>1 DEF ObjectsAreOwned, TypeOK
  <2>2. ASSUME NEW i \in Items
        PROVE  itemState'[i] = "live" <=> i \in ItemsOf(owner[i])'
    <3>1. owner[i] \in Subs
      BY DEF TypeOK
    <3> QED
      BY <1>1, <1>2, <1>3, <3>1 DEF ObjectsAreOwned
  <2>3. \A r \in Subs : \A i \in ItemsOf(r)' : owner[i] = r /\ r \in inMap'
    BY <1>1, <1>3 DEF ObjectsAreOwned
  <2> QED
    BY <1>1, <2>1, <2>2, <2>3 DEF ObjectsAreOwned
<1>6. KeysAreUsedUp'
  BY <1>1 DEF KeysAreUsedUp, TypeOK
<1> QED
  BY <1>4, <1>5, <1>6

(* An object that was not created yet is referenced from nowhere.           *)
LEMMA FreeIsNowhere ==
    ASSUME Ownership
    PROVE  /\ \A s \in Subs : subState[s] = "free" => s \notin inMap /\ ItemsOf(s) = {}
           /\ \A i \in Items : itemState[i] = "free" => \A s \in Subs : i \notin ItemsOf(s)
BY DEF Ownership, ObjectsAreOwned

(* Inserting adds one item to one subscription and loses none.              *)
LEMMA InsertAddsOne ==
    ASSUME Ownership, NEW s \in Subs, NEW i \in Items, Insert(s, i)
    PROVE  \A r \in Subs : ItemsOf(r)' = IF r = s THEN ItemsOf(r) \cup {i} ELSE ItemsOf(r)
<1> SUFFICES ASSUME NEW r \in Subs
             PROVE  ItemsOf(r)' = IF r = s THEN ItemsOf(r) \cup {i} ELSE ItemsOf(r)
  OBVIOUS
<1>1. /\ monitorId[s] + 1 \in Keys
      /\ \A k \in Keys :
            map'[r][k] = IF r = s /\ k = monitorId[s] + 1 THEN i ELSE map[r][k]
      /\ map[s][monitorId[s] + 1] = NoItem
      /\ i # NoItem
  BY InsertKeepsMaps, ClientSubscriptionsAssumption
     DEF Ownership, ClientSubscriptionsAssumption
<1>2. \A j : j \in ItemsOf(r)' <=> j # NoItem /\ \E k \in Keys : map'[r][k] = j
  BY DEF ItemsOf
<1>3. \A j : j \in ItemsOf(r) <=> j # NoItem /\ \E k \in Keys : map[r][k] = j
  BY DEF ItemsOf
<1>4. CASE r = s
  <2>1. i \in ItemsOf(r)'
    BY <1>1, <1>2, <1>4
  <2>2. \A j : j \in ItemsOf(r) => j \in ItemsOf(r)'
    BY <1>1, <1>2, <1>3, <1>4
  <2>3. \A j : j \in ItemsOf(r)' => j = i \/ j \in ItemsOf(r)
    BY <1>1, <1>2, <1>3, <1>4
  <2> QED
    BY <1>4, <2>1, <2>2, <2>3
<1>5. CASE r # s
  BY <1>1, <1>2, <1>3, <1>5
<1> QED
  BY <1>4, <1>5

-----------------------------------------------------------------------------
LEMMA OwnershipInit == Init => Ownership
<1> SUFFICES ASSUME Init
             PROVE  Ownership
  OBVIOUS
<1> USE ClientSubscriptionsAssumption DEF ClientSubscriptionsAssumption, Init
<1>1. TypeOK
  BY DEF TypeOK, States
<1>2. \A s \in Subs : ItemsOf(s) = {}
  BY DEF ItemsOf
<1>3. ObjectsAreOwned
  BY <1>1, <1>2 DEF ObjectsAreOwned, TypeOK
<1>4. KeysAreUsedUp
  BY DEF KeysAreUsedUp
<1> QED
  BY <1>1, <1>3, <1>4 DEF Ownership

LEMMA OwnershipStep == Ownership /\ [Next]_vars => Ownership'
<1> SUFFICES ASSUME Ownership, [Next]_vars
             PROVE  Ownership'
  OBVIOUS
<1> USE DEF Ownership
<1>1. ASSUME NEW s \in Subs, AddSubscription(s)
      PROVE  Ownership'
  <2> USE <1>1 DEF AddSubscription, itemVars
  <2>1. TypeOK'
    BY DEF TypeOK, States
  <2>2. \A r \in Subs : ItemsOf(r)' = ItemsOf(r)
    BY DEF ItemsOf
  <2>3. ObjectsAreOwned'
    <3>1. \A r \in Subs : subState'[r] = "live" <=> r \in inMap'
      BY DEF TypeOK, ObjectsAreOwned
    <3>2. \A i \in Items : itemState'[i] = "live" <=> i \in ItemsOf(owner[i])'
      BY <2>2 DEF ObjectsAreOwned, TypeOK
    <3>3. \A r \in Subs : \A i \in ItemsOf(r)' : owner'[i] = r /\ r \in inMap'
      BY <2>2 DEF ObjectsAreOwned
    <3> QED
      BY <3>1, <3>2, <3>3 DEF ObjectsAreOwned
  <2>4. KeysAreUsedUp'
    BY DEF KeysAreUsedUp
  <2> QED
    BY <2>1, <2>3, <2>4
<1>2. ASSUME NEW s \in Subs, NEW i \in Items, NEW event \in BOOLEAN, AddItem(s, i, event)
      PROVE  Ownership'
  <2>1. Insert(s, i) /\ itemState[i] = "free" /\ s \in inMap
    BY <1>2 DEF AddItem
  <2>2. /\ itemState' = [itemState EXCEPT ![i] = "live"]
        /\ owner' = [owner EXCEPT ![i] = s]
        /\ UNCHANGED <<subState, inMap, libSubs, good, clean, fault>>
    BY <1>2 DEF AddItem, subVars
  <2>3. /\ isEvent' \in [Items -> BOOLEAN] /\ assigned' \in [Items -> BOOLEAN]
        /\ libItems' \subseteq Items /\ filter' \in [Items -> {"none", "held", "deleted"}]
    BY <1>2 DEF AddItem, TypeOK
  <2>4. TypeOK'
    BY <2>1, <2>2, <2>3, InsertKeepsMaps DEF TypeOK, States
  <2>5. \A r \in Subs : ItemsOf(r)' = IF r = s THEN ItemsOf(r) \cup {i} ELSE ItemsOf(r)
    BY <2>1, InsertAddsOne
  <2>6. \A r \in Subs : i \notin ItemsOf(r)
    BY <2>1, FreeIsNowhere
  <2>7. ObjectsAreOwned'
    <3>1. \A r \in Subs : subState'[r] = "live" <=> r \in inMap'
      BY <2>2 DEF ObjectsAreOwned
    <3>2. ASSUME NEW j \in Items
          PROVE  itemState'[j] = "live" <=> j \in ItemsOf(owner[j])'
      <4>1. owner'[j] = IF j = i THEN s ELSE owner[j]
        BY <2>2 DEF TypeOK
      <4>2. itemState'[j] = IF j = i THEN "live" ELSE itemState[j]
        BY <2>2 DEF TypeOK
      <4>3. owner[j] \in Subs
        BY DEF TypeOK
      <4> QED
        BY <2>5, <4>1, <4>2, <4>3 DEF ObjectsAreOwned
    <3>3. ASSUME NEW r \in Subs, NEW j \in ItemsOf(r)'
          PROVE  owner'[j] = r /\ r \in inMap'
      <4>1. j \in Items
        BY <2>4 DEF ItemsOf, TypeOK
      <4>2. owner'[j] = IF j = i THEN s ELSE owner[j]
        BY <2>2, <4>1 DEF TypeOK
      <4> QED
        BY <2>1, <2>2, <2>5, <2>6, <3>3, <4>2 DEF ObjectsAreOwned
    <3> QED
      BY <3>1, <3>2, <3>3 DEF ObjectsAreOwned
  <2> QED
    BY <2>1, <2>4, <2>7, InsertKeepsMaps
<1>3. ASSUME NEW s \in Subs, NEW i \in Items, AddEventFails(s, i)
      PROVE  Ownership'
  <2>1. /\ itemState[i] = "free" /\ s \in inMap
        /\ itemState' = [itemState EXCEPT ![i] = "dead"]
        /\ owner' = [owner EXCEPT ![i] = s]
        /\ UNCHANGED <<subState, inMap, libSubs, map, monitorId, assigned, libItems,
                       good, clean, fault>>
        /\ isEvent' = [isEvent EXCEPT ![i] = TRUE]
        /\ filter' = [filter EXCEPT ![i] = "held"]
    BY <1>3 DEF AddEventFails, subVars
  <2>2. TypeOK'
    BY <2>1 DEF TypeOK, States
  <2>3. \A r \in Subs : ItemsOf(r)' = ItemsOf(r)
    BY <2>1 DEF ItemsOf
  <2>4. \A r \in Subs : i \notin ItemsOf(r)
    BY <2>1, FreeIsNowhere
  <2>5. ObjectsAreOwned'
    <3>1. \A r \in Subs : subState'[r] = "live" <=> r \in inMap'
      BY <2>1 DEF ObjectsAreOwned
    <3>2. ASSUME NEW j \in Items
          PROVE  itemState'[j] = "live" <=> j \in ItemsOf(owner[j])'
      <4>1. /\ owner'[j] = IF j = i THEN s ELSE owner[j]
            /\ itemState'[j] = IF j = i THEN "dead" ELSE itemState[j]
            /\ owner[j] \in Subs
        BY <2>1 DEF TypeOK
      <4> QED
        BY <2>3, <2>4, <4>1 DEF ObjectsAreOwned
    <3>3. ASSUME NEW r \in Subs, NEW j \in ItemsOf(r)'
          PROVE  owner'[j] = r /\ r \in inMap'
      <4>1. j # i /\ j \in ItemsOf(r)
        BY <2>3, <2>4
      <4>2. owner'[j] = owner[j]
        BY <2>1, <4>1 DEF TypeOK
      <4> QED
        BY <2>1, <4>1, <4>2 DEF ObjectsAreOwned
    <3> QED
      BY <3>1, <3>2, <3>3 DEF ObjectsAreOwned
  <2>6. KeysAreUsedUp'
    BY <2>1 DEF KeysAreUsedUp
  <2> QED
    BY <2>2, <2>5, <2>6
<1>4. ASSUME NEW s \in Subs, NEW i \in Items, AddAgain(s, i)
      PROVE  Ownership'
  <2>1. /\ Insert(s, i) /\ i \in ItemsOf(s)
        /\ UNCHANGED <<subVars, itemState, owner, isEvent, assigned, libItems,
                       filter, good, clean, fault>>
    BY <1>4 DEF AddAgain
  <2>2. TypeOK'
    BY <2>1, InsertKeepsMaps DEF TypeOK, subVars
  <2>3. \A r \in Subs : ItemsOf(r)' = ItemsOf(r)
    BY <2>1, InsertAddsOne
  <2>4. ObjectsAreOwned'
    <3>1. \A r \in Subs : subState'[r] = "live" <=> r \in inMap'
      BY <2>1 DEF ObjectsAreOwned, subVars
    <3>2. \A j \in Items : itemState'[j] = "live" <=> j \in ItemsOf(owner[j])'
      BY <2>1, <2>3 DEF ObjectsAreOwned, TypeOK
    <3>3. \A r \in Subs : \A j \in ItemsOf(r)' : owner'[j] = r /\ r \in inMap'
      BY <2>1, <2>3 DEF ObjectsAreOwned, subVars
    <3> QED
      BY <3>1, <3>2, <3>3 DEF ObjectsAreOwned
  <2> QED
    BY <2>1, <2>2, <2>4, InsertKeepsMaps
<1>5. ASSUME NEW s \in Subs, NEW k \in Keys, DeleteMonitorItem(s, k)
      PROVE  Ownership'
  <2> DEFINE i == map[s][k]
             last == ~ \E l \in Keys \ {k} : map[s][l] = i
  <2>1. /\ s \in inMap /\ i # NoItem
        /\ itemState' = [itemState EXCEPT ![i] = IF last THEN "dead" ELSE @]
        /\ map' = [map EXCEPT ![s][k] = NoItem]
        /\ assigned' = [assigned EXCEPT ![i] = FALSE]
        /\ UNCHANGED <<subVars, monitorId, owner, isEvent, good>>
    BY <1>5 DEF DeleteMonitorItem
  <2>2. i \in Items /\ i \in ItemsOf(s)
    BY <2>1, ItemsOfMember DEF TypeOK
  <2>3. /\ libItems' \subseteq Items /\ clean' \in BOOLEAN
        /\ \E n : DeleteFilters(n)
    BY <1>5 DEF DeleteMonitorItem, TypeOK
  <2>4. TypeOK'
    BY <2>1, <2>2, <2>3, DeleteFiltersTypes DEF TypeOK, States, subVars
  <2>5. \A r \in Subs, l \in Keys :
           map'[r][l] = IF r = s /\ l = k THEN NoItem ELSE map[r][l]
    BY <2>1 DEF TypeOK
  <2>6. ASSUME NEW r \in Subs, NEW j
        PROVE  j \in ItemsOf(r)' <=> j \in ItemsOf(r) /\ ~(r = s /\ j = i /\ last)
    <3>1. j \in ItemsOf(r)' <=> j # NoItem /\ \E l \in Keys : map'[r][l] = j
      BY DEF ItemsOf
    <3>2. j \in ItemsOf(r) <=> j # NoItem /\ \E l \in Keys : map[r][l] = j
      BY DEF ItemsOf
    <3>3. CASE r # s
      BY <2>5, <3>1, <3>2, <3>3
    <3>4. CASE r = s /\ j = i
      BY <2>1, <2>5, <3>1, <3>2, <3>4
    <3>5. CASE r = s /\ j # i
      BY <2>5, <3>1, <3>2, <3>5
    <3> QED
      BY <3>3, <3>4, <3>5
  <2>7. owner[i] = s
    BY <2>2 DEF ObjectsAreOwned
  <2> HIDE DEF i, last
  <2>8. ObjectsAreOwned'
    <3>1. \A r \in Subs : subState'[r] = "live" <=> r \in inMap'
      BY <2>1 DEF ObjectsAreOwned, subVars
    <3>2. ASSUME NEW j \in Items
          PROVE  itemState'[j] = "live" <=> j \in ItemsOf(owner[j])'
      <4>1. /\ itemState'[j] = IF j = i /\ last THEN "dead" ELSE itemState[j]
            /\ owner'[j] = owner[j] /\ owner[j] \in Subs
        BY <2>1, <2>2 DEF TypeOK
      <4> QED
        BY <2>6, <2>7, <4>1 DEF ObjectsAreOwned
    <3>3. \A r \in Subs : \A j \in ItemsOf(r)' : owner'[j] = r /\ r \in inMap'
      BY <2>1, <2>6 DEF ObjectsAreOwned, subVars
    <3> QED
      BY <2>1, <3>1, <3>2, <3>3 DEF ObjectsAreOwned
  <2>9. KeysAreUsedUp'
    BY <2>1, <2>5 DEF KeysAreUsedUp
  <2> QED
    BY <2>4, <2>8, <2>9
<1>6. ASSUME NEW s \in Subs, RemoveSubscription(s)
      PROVE  Ownership'
  <2>1. PICK items \in Confirmed(ToDelete({s})), subs \in Confirmed({s} \cap libSubs) :
            Destroy({s}, subs, libItems \ items)
    BY <1>6 DEF RemoveSubscription
  <2>2. s \in inMap /\ fault' = fault
    BY <1>6 DEF RemoveSubscription
  <2>3. subs \subseteq Subs
    BY <2>1 DEF Confirmed
  <2> QED
    BY <2>1, <2>2, <2>3, DestroyKeepsOwnership
<1>7. CASE ClearSubscriptions
  <2>1. PICK items \in Confirmed(ToDelete(inMap)), subs \in Confirmed(inMap \cap libSubs) :
            /\ Destroy(inMap, subs, libItems \ items)
            /\ fault' \in {fault, "useAfterFree"}
    BY <1>7 DEF ClearSubscriptions
  <2>2. subs \subseteq Subs
    BY <2>1 DEF Confirmed, TypeOK
  <2> QED
    BY <2>1, <2>2, DestroyKeepsOwnership
<1>8. CASE LibraryCleanup
  <2>1. /\ libSubs' = {} /\ libItems' = {}
        /\ UNCHANGED <<subState, inMap, map, monitorId, itemState, owner, isEvent,
                       good, clean>>
    BY <1>8 DEF LibraryCleanup
  <2>2. /\ assigned' \in [Items -> BOOLEAN]
        /\ filter' \in [Items -> {"none", "held", "deleted"}]
        /\ fault' \in {fault, "useAfterFree", "doubleDelete"}
    <3>1. \/ fault' = "useAfterFree" /\ UNCHANGED <<assigned, filter>>
          \/ /\ assigned' \in [Items -> BOOLEAN]
             /\ \E n : DeleteFilters(n)
      BY <1>8 DEF LibraryCleanup, TypeOK
    <3> QED
      BY <3>1, DeleteFiltersTypes DEF TypeOK
  <2>3. TypeOK'
    BY <2>1, <2>2 DEF TypeOK
  <2>4. ObjectsAreOwned' /\ KeysAreUsedUp'
    BY <2>1 DEF ObjectsAreOwned, KeysAreUsedUp, ItemsOf
  <2> QED
    BY <2>3, <2>4
<1>9. CASE Lose \/ Recover \/ UNCHANGED vars
  <2>1. /\ UNCHANGED <<subVars, itemVars, fault>>
        /\ good' \in BOOLEAN /\ clean' \in BOOLEAN
    BY <1>9 DEF Lose, Recover, vars, TypeOK
  <2> USE <2>1 DEF subVars, itemVars
  <2>2. TypeOK'
    BY DEF TypeOK
  <2>3. ObjectsAreOwned' /\ KeysAreUsedUp'
    BY DEF ObjectsAreOwned, KeysAreUsedUp, ItemsOf
  <2> QED
    BY <2>2, <2>3
<1>10. ASSUME NEW s \in Subs, NEW u \in Subs, AddSubscriptionOver(s, u)
       PROVE  Ownership'
  BY <1>10, ReplacingKeepsOwnership
<1> QED
  BY <1>1, <1>2, <1>3, <1>4, <1>5, <1>6, <1>7, <1>8, <1>9, <1>10 DEF Next

(* Types, and the ownership of subscriptions and items, hold for any number *)
(* of them (ClientSubscription, MonitoredItem).                            *)
THEOREM TypeCorrect == Spec => []TypeOK
<1>1. Ownership => TypeOK
  BY DEF Ownership
<1> QED
  BY <1>1, OwnershipInit, OwnershipStep, PTL DEF Spec

(* A subscription lives exactly as long as m_subscriptions holds it, an item *)
(* exactly as long as the m_map of its subscription references it.         *)
THEOREM OwnersDecideLifetimes == Spec => []ObjectsAreOwned
<1>1. Ownership => ObjectsAreOwned
  BY DEF Ownership
<1> QED
  BY <1>1, OwnershipInit, OwnershipStep, PTL DEF Spec
(* A key of m_map is never given to another item, not even after its item   *)
(* was deleted: only addMonitorItem writes an item, and every key in use is *)
(* at most m_monitorId.                                                    *)
THEOREM KeysStayUsed == Spec => KeysAreNotRecycled
<1> DEFINE NewKey(s, k) ==
               map'[s][k] \notin {NoItem, map[s][k]} =>
                   /\ k > monitorId[s]
                   /\ \A l \in Keys : map[s][l] # NoItem => l < k
<1>1. ASSUME Ownership, [Next]_vars
      PROVE  [\A s \in Subs, k \in Keys : NewKey(s, k)]_vars
  <2> SUFFICES ASSUME NEW s \in Subs, NEW k \in Keys, Next,
                      map'[s][k] \notin {NoItem, map[s][k]}
               PROVE  k > monitorId[s] /\ \A l \in Keys : map[s][l] # NoItem => l < k
    BY <1>1
  <2> USE <1>1 DEF Ownership
  <2>1. ASSUME NEW r \in Subs, NEW i \in Items, Insert(r, i)
        PROVE  k > monitorId[s] /\ \A l \in Keys : map[s][l] # NoItem => l < k
    <3>1. s = r /\ k = monitorId[s] + 1
      BY <2>1, InsertKeepsMaps
    <3>2. monitorId[s] \in Int /\ \A l \in Keys : l \in Int
      BY ClientSubscriptionsAssumption
         DEF ClientSubscriptionsAssumption, TypeOK, Keys
    <3> QED
      BY <3>1, <3>2 DEF KeysAreUsedUp
  <2>2. ASSUME NEW r \in Subs, NEW j \in Keys, DeleteMonitorItem(r, j)
        PROVE  FALSE
    <3>1. map' = [map EXCEPT ![r][j] = NoItem]
      BY <2>2 DEF DeleteMonitorItem
    <3> QED
      BY <3>1 DEF TypeOK
  <2>3. ASSUME NEW D, NEW C, NEW left, Destroy(D, C, left)
        PROVE  FALSE
    <3>1. map' = [r \in Subs |-> IF r \in D THEN [l \in Keys |-> NoItem] ELSE map[r]]
      BY <2>3 DEF Destroy
    <3> QED
      BY <3>1
  <2>4. ASSUME UNCHANGED map
        PROVE  FALSE
    BY <2>4
  <2>5. ASSUME NEW r \in Subs, NEW i, AddAgain(r, i)
        PROVE  Insert(r, i) /\ i \in Items
    BY <2>5, ItemsOfMember DEF AddAgain, TypeOK
  <2>6. ASSUME NEW r \in Subs, NEW u \in Subs, AddSubscriptionOver(r, u)
        PROVE  FALSE
    <3>1. map' = [map EXCEPT ![u] = [l \in Keys |-> NoItem]]
      BY <2>6 DEF AddSubscriptionOver
    <3> QED
      BY <3>1 DEF TypeOK
  <2>7. \/ \E r \in Subs, i \in Items : Insert(r, i)
        \/ \E r \in Subs, j \in Keys : DeleteMonitorItem(r, j)
        \/ \E r, u \in Subs : AddSubscriptionOver(r, u)
        \/ \E D, C, left : Destroy(D, C, left)
        \/ UNCHANGED map
    BY <2>5 DEF Next, AddSubscription, AddItem, AddEventFails, RemoveSubscription,
                ClearSubscriptions, LibraryCleanup, Lose, Recover, itemVars
  <2> QED
    BY <2>1, <2>2, <2>3, <2>4, <2>6, <2>7
<1> QED
  BY <1>1, OwnershipInit, OwnershipStep, PTL DEF Spec, KeysAreNotRecycled

-----------------------------------------------------------------------------
(* While the connection lasted and every deletion was confirmed, what the   *)
(* library knows is what the wrapper owns; and it knows no item without    *)
(* its subscription.                                                       *)
Mirror ==
    /\ Ownership
    /\ clean => good /\ \A i \in libItems : owner[i] \in libSubs
    /\ LibraryMirrorsWrapper

(* Destroying subscriptions, with every deletion confirmed, takes from the  *)
(* library all that goes, and nothing else.                                *)
LEMMA DestroyKeepsMirror ==
    ASSUME Mirror, clean', NEW D \in SUBSET inMap,
           NEW C \in SUBSET (D \cap libSubs), NEW items \in SUBSET ToDelete(D),
           Destroy(D, C, libItems \ items)
    PROVE  /\ clean /\ good'
           /\ libSubs' \subseteq inMap'
           /\ \A i \in libItems' : itemState'[i] = "live" /\ assigned'[i]
           /\ \A i \in Items : assigned'[i] => i \in libItems'
           /\ \A i \in libItems' : owner'[i] \in libSubs'
           /\ \A i \in libItems \ items : owner[i] \notin C
<1> USE DEF Mirror, Ownership
<1> DEFINE gone == UNION {ItemsOf(s) : s \in D}
           left == libItems \ items
<1>1. /\ clean /\ good' /\ good
      /\ inMap' = inMap \ D /\ libSubs' = libSubs \ C
      /\ libItems' = {i \in left : owner[i] \notin C}
      /\ itemState' = [i \in Items |-> IF i \in gone THEN "dead" ELSE itemState[i]]
      /\ assigned' = [i \in Items |-> assigned[i] /\ i \notin gone]
      /\ left \cap ToDelete(D) = {} /\ D \cap libSubs \subseteq C
      /\ owner' = owner
  BY DEF Destroy
<1>2. ToDelete(D) = {i \in gone : assigned[i]} \cap libItems
  BY DEF ToDelete
<1>3. \A i \in Items : itemState[i] = "live" /\ owner[i] \in D => i \in gone
  BY DEF ObjectsAreOwned
<1>4. libItems \subseteq Items /\ libSubs \subseteq inMap
  BY <1>1 DEF TypeOK, LibraryMirrorsWrapper
<1>5. /\ \A i \in libItems : itemState[i] = "live" /\ assigned[i]
      /\ \A i \in Items : assigned[i] => i \in libItems
  BY <1>1 DEF LibraryMirrorsWrapper
<1> HIDE DEF gone
<1>6. \A i \in left : i \notin gone
  BY <1>1, <1>2, <1>5
<1>7. \A i \in left : owner[i] \notin D
  BY <1>3, <1>4, <1>5, <1>6
<1>8. libSubs' \subseteq inMap'
  BY <1>1, <1>4
<1>9. \A i \in libItems' : itemState'[i] = "live" /\ assigned'[i]
  BY <1>1, <1>4, <1>5, <1>6
<1>10. \A i \in Items : assigned'[i] => i \in libItems'
  <2> SUFFICES ASSUME NEW i \in Items, assigned'[i]
               PROVE  i \in libItems'
    OBVIOUS
  <2>1. assigned[i] /\ i \notin gone
    BY <1>1
  <2>2. i \in left
    BY <1>2, <1>5, <2>1
  <2> QED
    BY <1>1, <1>7, <2>2
<1>11. \A i \in libItems' : owner'[i] \in libSubs'
  BY <1>1
<1> QED
  BY <1>1, <1>7, <1>8, <1>9, <1>10, <1>11

LEMMA MirrorStep == Mirror /\ [Next]_vars => Mirror'
<1> SUFFICES ASSUME Mirror, [Next]_vars
             PROVE  Mirror'
  OBVIOUS
<1>1. Ownership'
  BY OwnershipStep DEF Mirror
<1> USE DEF Mirror, Ownership
<1> SUFFICES ASSUME clean'
             PROVE  /\ good' /\ LibraryMirrorsWrapper'
                    /\ \A i \in libItems' : owner'[i] \in libSubs'
  BY <1>1 DEF LibraryMirrorsWrapper
<1> DEFINE Agree == /\ libSubs \subseteq inMap
                    /\ \A i \in libItems : itemState[i] = "live" /\ assigned[i]
                    /\ \A i \in Items : assigned[i] => i \in libItems
                    /\ \A i \in libItems : owner[i] \in libSubs
<1>2. clean => good /\ Agree /\ fault # "useAfterFree"
  BY DEF LibraryMirrorsWrapper
<1>3. SUFFICES good' /\ Agree' /\ fault' # "useAfterFree"
  BY DEF LibraryMirrorsWrapper
<1>4. ASSUME NEW s \in Subs, AddSubscription(s)
      PROVE  good' /\ Agree' /\ fault' # "useAfterFree"
  BY <1>2, <1>4 DEF AddSubscription, itemVars
<1>5. ASSUME NEW s \in Subs, NEW i \in Items, NEW event \in BOOLEAN, AddItem(s, i, event)
      PROVE  good' /\ Agree' /\ fault' # "useAfterFree"
  <2>1. /\ itemState' = [itemState EXCEPT ![i] = "live"]
        /\ assigned' = [assigned EXCEPT ![i] = TRUE]
        /\ libItems' = libItems \cup {i}
        /\ owner' = [owner EXCEPT ![i] = s] /\ s \in libSubs
        /\ UNCHANGED <<subVars, good, clean, fault>>
    BY <1>5 DEF AddItem
  <2> QED
    BY <1>2, <2>1 DEF TypeOK, subVars
<1>6. ASSUME NEW s \in Subs, NEW i \in Items, AddEventFails(s, i)
      PROVE  good' /\ Agree' /\ fault' # "useAfterFree"
  <2>1. /\ itemState[i] = "free"
        /\ itemState' = [itemState EXCEPT ![i] = "dead"]
        /\ owner' = [owner EXCEPT ![i] = s]
        /\ UNCHANGED <<subVars, assigned, libItems, good, clean, fault>>
    BY <1>6 DEF AddEventFails
  <2> QED
    BY <1>2, <2>1 DEF TypeOK, subVars
<1>7. ASSUME NEW s \in Subs, NEW i \in Items, AddAgain(s, i)
      PROVE  good' /\ Agree' /\ fault' # "useAfterFree"
  BY <1>2, <1>7 DEF AddAgain, subVars
<1>8. ASSUME NEW s \in Subs, NEW k \in Keys, DeleteMonitorItem(s, k)
      PROVE  good' /\ Agree' /\ fault' # "useAfterFree"
  <2> DEFINE i == map[s][k]
  <2>1. PICK done \in Confirmed({i} \cap libItems) :
           LET gone == IF assigned[i] THEN done ELSE {}
           IN  /\ libItems' = libItems \ gone
               /\ clean' = (clean /\ {i} \cap libItems \subseteq done)
               /\ \E n : DeleteFilters(n)
               /\ assigned' = [assigned EXCEPT ![i] = FALSE]
               /\ itemState' = [itemState EXCEPT ![i] =
                     IF \E l \in Keys \ {k} : map[s][l] = i THEN @ ELSE "dead"]
    BY <1>8 DEF DeleteMonitorItem
  <2>2. UNCHANGED <<subVars, owner, good>> /\ i \in Items /\ fault = "none"
    BY <1>8 DEF DeleteMonitorItem, TypeOK
  <2>3. fault' # "useAfterFree"
    BY <2>1, <2>2, DeleteFiltersTypes
  <2>4. clean /\ {i} \cap libItems \subseteq done /\ done \subseteq {i} \cap libItems
    BY <2>1 DEF Confirmed
  <2>5. libItems' = libItems \ {i}
    BY <1>2, <2>1, <2>4
  <2> HIDE DEF i
  <2>6. \A j \in Items \ {i} : itemState'[j] = itemState[j] /\ assigned'[j] = assigned[j]
    BY <2>1 DEF TypeOK
  <2>7. ~assigned'[i]
    BY <2>1, <2>2 DEF TypeOK
  <2>8. libItems \subseteq Items
    BY DEF TypeOK
  <2> QED
    BY <1>2, <2>2, <2>3, <2>4, <2>5, <2>6, <2>7, <2>8 DEF subVars
<1>9. ASSUME NEW s \in Subs, RemoveSubscription(s)
      PROVE  good' /\ Agree' /\ fault' # "useAfterFree"
  <2>1. /\ fault' = "none" /\ s \in inMap
        /\ \E items \in Confirmed(ToDelete({s})), subs \in Confirmed({s} \cap libSubs) :
              Destroy({s}, subs, libItems \ items)
    BY <1>9 DEF RemoveSubscription
  <2> QED
    BY <2>1, DestroyKeepsMirror DEF Confirmed
<1>10. CASE ClearSubscriptions
  <2>1. PICK items \in Confirmed(ToDelete(inMap)), subs \in Confirmed(inMap \cap libSubs) :
          /\ Destroy(inMap, subs, libItems \ items)
          /\ fault' \in {fault} \cup
                (IF \E i \in libItems \ items : owner[i] \in subs
                 THEN {"useAfterFree"} ELSE {})
    BY <1>10 DEF ClearSubscriptions
  <2>2. /\ items \subseteq ToDelete(inMap) /\ subs \subseteq inMap \cap libSubs
        /\ fault = "none"
    BY <1>10, <2>1 DEF Confirmed, ClearSubscriptions
  <2>3. good' /\ Agree' /\ \A i \in libItems \ items : owner[i] \notin subs
    BY <2>1, <2>2, DestroyKeepsMirror
  <2> QED
    BY <2>1, <2>2, <2>3
<1>11. CASE LibraryCleanup
  <2> DEFINE told == {i \in libItems : Routed(i)}
  <2>1. /\ fault = "none" /\ libSubs' = {} /\ libItems' = {}
        /\ \/ \E i \in told : itemState[i] = "dead"
           \/ \E s \in libSubs : subState[s] = "dead"
           \/ /\ assigned' = [i \in Items |-> assigned[i] /\ i \notin told]
              /\ \E n : DeleteFilters(n)
        /\ UNCHANGED <<inMap, owner, good, clean>>
    BY <1>11 DEF LibraryCleanup
  <2>2. clean /\ good /\ Agree
    BY <1>2, <2>1
  <2>3. told = libItems
    <3>1. \A i \in libItems : owner[i] \in Subs /\ i \in ItemsOf(owner[i])
      BY <2>2 DEF ObjectsAreOwned, TypeOK
    <3>2. \A i \in libItems : owner[i] \in inMap
      BY <3>1 DEF ObjectsAreOwned
    <3> QED
      BY <2>2, <3>2 DEF Routed
  <2>4. \A s \in libSubs : subState[s] = "live"
    BY <2>2 DEF ObjectsAreOwned, TypeOK
  <2> HIDE DEF told
  <2>5. /\ assigned' = [i \in Items |-> assigned[i] /\ i \notin told]
        /\ \E n : DeleteFilters(n)
    BY <2>1, <2>2, <2>3, <2>4
  <2>6. fault' # "useAfterFree"
    BY <2>1, <2>5, DeleteFiltersTypes
  <2> QED
    BY <2>1, <2>2, <2>3, <2>5, <2>6
<1>12. CASE Lose \/ Recover \/ UNCHANGED vars
  BY <1>2, <1>12 DEF Lose, Recover, vars, subVars, itemVars
<1>13. ASSUME NEW s \in Subs, NEW u \in Subs, AddSubscriptionOver(s, u)
       PROVE  good' /\ Agree' /\ fault' # "useAfterFree"
  <2>1. /\ u \in inMap \ libSubs /\ subState[s] = "free"
        /\ inMap' = (inMap \ {u}) \cup {s}
        /\ itemState' = [i \in Items |-> IF i \in ItemsOf(u) THEN "dead" ELSE itemState[i]]
        /\ assigned' = [i \in Items |-> assigned[i] /\ i \notin ItemsOf(u)]
        /\ UNCHANGED <<owner, libItems, good, fault>>
    BY <1>13 DEF AddSubscriptionOver
  <2>2. PICK deleted \in Confirmed({s}) :
           /\ libSubs' = libSubs \cup ({s} \ deleted)
           /\ clean' = (clean /\ s \in deleted)
    BY <1>13 DEF AddSubscriptionOver
  <2>3. clean /\ libSubs' = libSubs
    BY <2>2
  <2>4. good /\ Agree /\ fault # "useAfterFree"
    BY <1>2, <2>3
  <2>5. \A i \in libItems : i \notin ItemsOf(u) /\ i \in Items
    BY <2>1, <2>4 DEF ObjectsAreOwned, TypeOK
  <2>6. libSubs' \subseteq inMap'
    BY <2>1, <2>3, <2>4
  <2>7. \A i \in libItems' : itemState'[i] = "live" /\ assigned'[i]
    BY <2>1, <2>4, <2>5
  <2>8. \A i \in Items : assigned'[i] => i \in libItems'
    BY <2>1, <2>4
  <2> QED
    BY <2>1, <2>3, <2>4, <2>6, <2>7, <2>8
<1> QED
  BY <1>4, <1>5, <1>6, <1>7, <1>8, <1>9, <1>10, <1>11, <1>12, <1>13 DEF Next

(* While the connection lasted and every deletion was confirmed, no callback *)
(* of the library reaches an object that is gone, and no item with an id is *)
(* unknown to the library (MonitoredItem::remove, ~ClientSubscription).    *)
THEOREM LibraryKnowsTheOwned == Spec => []LibraryMirrorsWrapper
<1>1. Init => Mirror
  BY OwnershipInit DEF Init, Mirror, LibraryMirrorsWrapper
<1>2. Mirror => LibraryMirrorsWrapper
  BY DEF Mirror
<1> QED
  BY <1>1, <1>2, MirrorStep, PTL DEF Spec
=============================================================================
