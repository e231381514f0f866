------------------------ MODULE ClientSubscriptions ------------------------
(***************************************************************************)
(* Subscriptions and monitored items of Open62541::Client: who owns the    *)
(* objects, and what the raw pointers handed to the library point to.      *)
(*                                                                         *)
(* m_subscriptions owns the ClientSubscriptions, the m_map of each owns    *)
(* its MonitoredItems, a MonitoredItemEvent owns its event filter.  The    *)
(* library keeps a subscription and a monitored item as long as the server *)
(* did not confirm their deletion, and calls back with raw pointers.  The  *)
(* notification and deletion callbacks of a monitored item use its pointer *)
(* only when the status is good and the subscription is still in           *)
(* m_subscriptions; those of a subscription use theirs always.             *)
(*                                                                         *)
(* One thread drives the client; locking is the subject of ClientSession.  *)
(***************************************************************************)
EXTENDS Integers, FiniteSets

CONSTANTS
    Subs,       \* identities of ClientSubscription objects
    Items,      \* identities of MonitoredItem objects
    NoItem,     \* no item under a key of m_map
    MaxKey      \* bound: keys handed out by one subscription

ASSUME ClientSubscriptionsAssumption ==
    /\ NoItem \notin Items
    /\ MaxKey \in Nat

Keys == 1 .. MaxKey

VARIABLES
    subState,   \* lifetime of each ClientSubscription
    inMap,      \* m_subscriptions
    libSubs,    \* subscriptions the library knows
    map,        \* m_map of each subscription: key -> item
    monitorId,  \* m_monitorId of each subscription
    itemState,  \* lifetime of each MonitoredItem
    owner,      \* MonitoredItem::m_sub
    isEvent,    \* is it a MonitoredItemEvent?
    assigned,   \* is id(), the monitoredItemId of m_response, not zero?
    libItems,   \* monitored items the library knows
    filter,     \* m_pEvents: not set, allocated, or deleted
    good,       \* _connectStatus is good
    clean,      \* history: the connection lasted, every deletion was confirmed
    fault       \* undefined behaviour reached

subVars == <<subState, inMap, libSubs>>
itemVars == <<map, monitorId, itemState, owner, isEvent, assigned, libItems, filter>>
vars == <<subVars, itemVars, good, clean, fault>>

States == {"free", "live", "dead"}

TypeOK ==
    /\ subState \in [Subs -> States]
    /\ inMap \subseteq Subs /\ libSubs \subseteq Subs
    /\ map \in [Subs -> [Keys -> Items \cup {NoItem}]]
    /\ monitorId \in [Subs -> 0 .. MaxKey]
    /\ itemState \in [Items -> States]
    /\ owner \in [Items -> Subs]
    /\ isEvent \in [Items -> BOOLEAN]
    /\ assigned \in [Items -> BOOLEAN]
    /\ libItems \subseteq Items
    /\ filter \in [Items -> {"none", "held", "deleted"}]
    /\ good \in BOOLEAN /\ clean \in BOOLEAN
    /\ fault \in {"none", "useAfterFree", "doubleDelete"}

Init ==
    /\ subState = [s \in Subs |-> "free"]
    /\ inMap = {} /\ libSubs = {}
    /\ map = [s \in Subs |-> [k \in Keys |-> NoItem]]
    /\ monitorId = [s \in Subs |-> 0]
    /\ itemState = [i \in Items |-> "free"]
    /\ owner \in {[i \in Items |-> s] : s \in Subs}
    /\ isEvent = [i \in Items |-> FALSE]
    /\ assigned = [i \in Items |-> FALSE]
    /\ libItems = {}
    /\ filter = [i \in Items |-> "none"]
    /\ good = TRUE /\ clean = TRUE
    /\ fault = "none"

-----------------------------------------------------------------------------
(* deleteMonitoredItemCallback, dataChangeNotificationCallback and          *)
(* eventNotificationCallback use the item pointer.                         *)
Routed(i) == good /\ owner[i] \in inMap

(* The items of s, those referenced from its m_map.                        *)
ItemsOf(s) == {map[s][k] : k \in Keys} \ {NoItem}

(* The deletions the server may confirm among those of X: it may refuse or  *)
(* not answer some, and confirms none when the connection is lost.         *)
Confirmed(X) == IF good THEN SUBSET X ELSE {{}}

(* Deleting the event filters of the items D, n[i] times each.             *)
DeleteFilters(n) ==
    /\ filter' = [i \in Items |-> IF filter[i] = "held" /\ n[i] > 0
                                  THEN "deleted" ELSE filter[i]]
    /\ fault' = IF \E i \in Items : \/ filter[i] = "held" /\ n[i] > 1
                                    \/ filter[i] = "deleted" /\ n[i] > 0
                THEN "doubleDelete" ELSE fault

(* addSubscription: create, and on success insert into m_subscriptions.  On *)
(* failure the object has no id and its destructor does nothing.           *)
AddSubscription(s) ==
    /\ fault = "none" /\ good
    /\ subState[s] = "free"
    /\ subState' = [subState EXCEPT ![s] = "live"]
    /\ inMap' = inMap \cup {s}
    /\ libSubs' = libSubs \cup {s}
    /\ UNCHANGED <<itemVars, good, clean, fault>>

(* Bugs to detect: the key counter runs ahead; the size of the map is the   *)
(* next key.                                                               *)
InsertSkipping(s, i) ==
    /\ monitorId[s] < MaxKey
    /\ monitorId' = [monitorId EXCEPT ![s] = @ + 2]
    /\ map' = [map EXCEPT ![s][monitorId[s] + 1] = i]

InsertAtSize(s, i) ==
    /\ monitorId[s] < MaxKey
    /\ monitorId' = [monitorId EXCEPT ![s] = @ + 1]
    /\ map' = [map EXCEPT ![s][Cardinality(ItemsOf(s)) + 1] = i]

(* addMonitorItem: m_map[++m_monitorId] = item                             *)
Insert(s, i) ==
    /\ monitorId[s] < MaxKey
    /\ monitorId' = [monitorId EXCEPT ![s] = @ + 1]
    /\ map' = [map EXCEPT ![s][monitorId[s] + 1] = i]

(* Bug to detect: the answer with the monitored item's id is not kept.     *)
AddItemWithoutId(s, i, event) ==
    /\ fault = "none" /\ good
    /\ s \in inMap \cap libSubs /\ itemState[i] = "free"
    /\ Insert(s, i)
    /\ itemState' = [itemState EXCEPT ![i] = "live"]
    /\ owner' = [owner EXCEPT ![i] = s]
    /\ isEvent' = [isEvent EXCEPT ![i] = event]
    /\ libItems' = libItems \cup {i}
    /\ filter' = [filter EXCEPT ![i] = IF event THEN "held" ELSE "none"]
    /\ UNCHANGED <<subVars, assigned, good, clean, fault>>

(* addMonitorNodeId and addEventMonitor, accepted by the server.           *)
AddItem(s, i, event) ==
    /\ fault = "none" /\ good
    /\ s \in inMap \cap libSubs /\ itemState[i] = "free"
    /\ Insert(s, i)
    /\ itemState' = [itemState EXCEPT ![i] = "live"]
    /\ owner' = [owner EXCEPT ![i] = s]
    /\ isEvent' = [isEvent EXCEPT ![i] = event]
    /\ assigned' = [assigned EXCEPT ![i] = TRUE]
    /\ libItems' = libItems \cup {i}
    /\ filter' = [filter EXCEPT ![i] = IF event THEN "held" ELSE "none"]
    /\ UNCHANGED <<subVars, good, clean, fault>>

(* Bug to detect: the refused item is not deleted.                         *)
AddEventLeaks(s, i) ==
    /\ fault = "none"
    /\ s \in inMap /\ itemState[i] = "free"
    /\ itemState' = [itemState EXCEPT ![i] = "live"]
    /\ owner' = [owner EXCEPT ![i] = s]
    /\ isEvent' = [isEvent EXCEPT ![i] = TRUE]
    /\ filter' = [filter EXCEPT ![i] = "held"]
    /\ UNCHANGED <<subVars, map, monitorId, assigned, libItems, good, clean, fault>>

(* addEventMonitor, refused: addEvent took the filter, and the item is      *)
(* deleted without an id.                                                  *)
AddEventFails(s, i) ==
    /\ fault = "none"
    /\ s \in inMap /\ itemState[i] = "free"
    /\ itemState' = [itemState EXCEPT ![i] = "dead"]
    /\ owner' = [owner EXCEPT ![i] = s]
    /\ isEvent' = [isEvent EXCEPT ![i] = TRUE]
    /\ filter' = [filter EXCEPT ![i] = "held"]
    /\ UNCHANGED <<subVars, map, monitorId, assigned, libItems, good, clean, fault>>

(* addMonitorItem with an item that is already in the map.                 *)
AddAgain(s, i) ==
    /\ fault = "none"
    /\ i \in ItemsOf(s)
    /\ Insert(s, i)
    /\ UNCHANGED <<subVars, itemState, owner, isEvent, assigned, libItems,
                   filter, good, clean, fault>>

(* deleteMonitorItem: remove(), then the key is erased and with the last    *)
(* key the item.  When the library confirms the deletion it calls          *)
(* deleteMonitoredItem, which runs remove() a second time before the first *)
(* one is over; each run of MonitoredItemEvent::remove deletes the filter. *)
DeleteMonitorItem(s, k) ==
    /\ fault = "none"
    /\ s \in inMap /\ map[s][k] # NoItem
    /\ \E done \in Confirmed({map[s][k]} \cap libItems) :
          LET i == map[s][k]
              gone == IF assigned[i] THEN done ELSE {}
          IN /\ libItems' = libItems \ gone
             /\ clean' = (clean /\ {i} \cap libItems \subseteq done)
             /\ DeleteFilters([j \in Items |-> IF j # i \/ ~isEvent[i] THEN 0
                                              ELSE IF i \in gone THEN 2 ELSE 1])
             /\ assigned' = [assigned EXCEPT ![i] = FALSE]
             /\ itemState' = [itemState EXCEPT ![i] =
                    IF \E l \in Keys \ {k} : map[s][l] = i THEN @ ELSE "dead"]
    /\ map' = [map EXCEPT ![s][k] = NoItem]
    /\ UNCHANGED <<subVars, monitorId, owner, isEvent, good>>

(* The items of D whose destructors ask for their deletion.                *)
ToDelete(D) == {i \in UNION {ItemsOf(s) : s \in D} : assigned[i]} \cap libItems

(* The subscriptions D are destroyed: their items first, whose destructors  *)
(* ask for the deletion of those with an id, then each subscription asks   *)
(* for its own; the library drops what is confirmed, and with a            *)
(* subscription whatever items it still has of it.                         *)
Destroy(D, confirmedSubs, left) ==
    /\ inMap' = inMap \ D
    /\ subState' = [s \in Subs |-> IF s \in D THEN "dead" ELSE subState[s]]
    /\ libSubs' = libSubs \ confirmedSubs
    /\ libItems' = {i \in left : owner[i] \notin confirmedSubs}
    /\ LET gone == UNION {ItemsOf(s) : s \in D} IN
       /\ itemState' = [i \in Items |-> IF i \in gone THEN "dead" ELSE itemState[i]]
       /\ assigned' = [i \in Items |-> assigned[i] /\ i \notin gone]
    /\ clean' = (clean /\ left \cap ToDelete(D) = {} /\ D \cap libSubs \subseteq confirmedSubs)
    /\ map' = [s \in Subs |-> IF s \in D THEN [k \in Keys |-> NoItem] ELSE map[s]]
    /\ UNCHANGED <<monitorId, owner, isEvent, filter, good>>

(* removeSubscription: the entry is out of m_subscriptions before the       *)
(* object dies, so no callback about its items is routed.                  *)
RemoveSubscription(s) ==
    /\ fault = "none"
    /\ s \in inMap
    /\ \E items \in Confirmed(ToDelete({s})), subs \in Confirmed({s} \cap libSubs) :
          Destroy({s}, subs, libItems \ items)
    /\ UNCHANGED fault

(* subscriptions().clear(), called by the handlers of a closed or closing   *)
(* session or channel and by applications: the map is looked up while it   *)
(* destroys its elements.  An item still known to the library is then      *)
(* possibly called after its destruction.                                  *)
ClearSubscriptions ==
    /\ fault = "none"
    /\ inMap # {}
    /\ \E items \in Confirmed(ToDelete(inMap)), subs \in Confirmed(inMap \cap libSubs) :
          /\ Destroy(inMap, subs, libItems \ items)
          /\ fault' \in {fault} \cup
                (IF \E i \in libItems \ items : owner[i] \in subs
                 THEN {"useAfterFree"} ELSE {})

(* addSubscription when the server gives the id of u, which is still in     *)
(* m_subscriptions though the library lost it with its session: the new    *)
(* one takes the place of u, whose destructor then deletes by that id.     *)
AddSubscriptionOver(s, u) ==
    /\ fault = "none" /\ good
    /\ subState[s] = "free" /\ u \in inMap \ libSubs
    /\ inMap' = (inMap \ {u}) \cup {s}
    /\ subState' = [subState EXCEPT ![s] = "live", ![u] = "dead"]
    /\ \E deleted \in Confirmed({s}) :
          /\ libSubs' = libSubs \cup ({s} \ deleted)
          /\ clean' = (clean /\ s \in deleted)
    /\ itemState' = [i \in Items |-> IF i \in ItemsOf(u) THEN "dead" ELSE itemState[i]]
    /\ assigned' = [i \in Items |-> assigned[i] /\ i \notin ItemsOf(u)]
    /\ map' = [map EXCEPT ![u] = [k \in Keys |-> NoItem]]
    /\ UNCHANGED <<monitorId, owner, isEvent, libItems, filter, good, fault>>

(* The library drops all its subscriptions, when the session is closed or   *)
(* the UA_Client deleted, and calls back for each item and subscription.   *)
LibraryCleanup ==
    /\ fault = "none"
    /\ libSubs # {}
    /\ libSubs' = {} /\ libItems' = {}
    /\ LET told == {i \in libItems : Routed(i)} IN
       IF \/ \E i \in told : itemState[i] = "dead"
          \/ \E s \in libSubs : subState[s] = "dead"
       THEN fault' = "useAfterFree" /\ UNCHANGED <<assigned, filter>>
       ELSE /\ assigned' = [i \in Items |-> assigned[i] /\ i \notin told]
            /\ DeleteFilters([i \in Items |-> IF i \in told /\ isEvent[i] THEN 1 ELSE 0])
    /\ UNCHANGED <<subState, inMap, map, monitorId, itemState, owner, isEvent, good,
                   clean>>

(* stateCallback reports a lost connection, and a new one once the library  *)
(* starts afresh.                                                          *)
Lose == /\ fault = "none" /\ good
        /\ good' = FALSE /\ clean' = FALSE
        /\ UNCHANGED <<subVars, itemVars, fault>>

Recover == /\ fault = "none" /\ ~good /\ libSubs = {}
           /\ good' = TRUE
           /\ UNCHANGED <<subVars, itemVars, clean, fault>>

Next ==
    \/ \E s \in Subs : AddSubscription(s)
    \/ \E s, u \in Subs : AddSubscriptionOver(s, u)
    \/ \E s \in Subs, i \in Items, event \in BOOLEAN : AddItem(s, i, event)
    \/ \E s \in Subs, i \in Items : AddEventFails(s, i)
    \/ \E s \in Subs, i \in Items : AddAgain(s, i)
    \/ \E s \in Subs, k \in Keys : DeleteMonitorItem(s, k)
    \/ \E s \in Subs : RemoveSubscription(s)
    \/ ClearSubscriptions
    \/ LibraryCleanup
    \/ Lose
    \/ Recover

Spec == Init /\ [][Next]_vars

-----------------------------------------------------------------------------
(* A subscription lives exactly as long as m_subscriptions holds it, and a  *)
(* monitored item exactly as long as the m_map of its live subscription    *)
(* references it, however often it was added (addMonitorItem,              *)
(* deleteMonitorItem, ~ClientSubscription).                                *)
ObjectsAreOwned ==
    /\ \A s \in Subs : subState[s] = "live" <=> s \in inMap
    /\ \A i \in Items : itemState[i] = "live" <=> i \in ItemsOf(owner[i])
    /\ \A s \in Subs : \A i \in ItemsOf(s) : owner[i] = s /\ s \in inMap

(* A key of m_map is never given to another item, not even after its item   *)
(* was deleted (addMonitorItem: the ids are not recycled).                 *)
KeysAreNotRecycled ==
    [][\A s \in Subs, k \in Keys :
          map'[s][k] \notin {NoItem, map[s][k]} =>
              /\ k > monitorId[s]
              /\ \A l \in Keys : map[s][l] # NoItem => l < k]_vars

(* While the connection lasted and the server confirmed every deletion, the *)
(* library knows no subscription and no monitored item but those the       *)
(* wrapper still owns, so no callback reaches a destroyed one; and an item *)
(* with an id is known to the library (MonitoredItem::remove,              *)
(* ~ClientSubscription).                                                   *)
LibraryMirrorsWrapper ==
    clean =>
        /\ libSubs \subseteq inMap
        /\ \A i \in libItems : itemState[i] = "live" /\ assigned[i]
        /\ \A i \in Items : assigned[i] => i \in libItems
        /\ fault # "useAfterFree"

(* An event filter is deleted once (MonitoredItemEvent::remove).           *)
FilterDeletedOnce == fault # "doubleDelete"
=============================================================================
