------------------------- MODULE ClientTimersProofs -------------------------
(***************************************************************************)
(* Proofs about ClientTimers for any number of Timers, ids and UA_Clients. *)
(*                                                                         *)
(* Ownership is the inductive invariant: RegisteredIsOwned alone is not    *)
(* inductive, because destroying an object must unregister the one id that *)
(* may point to it, which takes OwnedUnderItsId.                           *)
(***************************************************************************)
EXTENDS ClientTimers, TLAPS

Ownership == TypeOK /\ RegisteredIsOwned /\ OwnedUnderItsId

-----------------------------------------------------------------------------
(* What Owned means for one key and for all of them.                       *)
LEMMA OwnedKeys ==
    /\ \A id \in Ids : \A t : t \in Owned({id}) <=> t = timerMap[id] /\ t # NoTimer
    /\ \A t : t \in Owned(Ids) <=> t # NoTimer /\ \E k \in Ids : timerMap[k] = t
BY DEF Owned

(* Ownership holds initially: both tables are empty.                       *)
LEMMA OwnershipInit == Init => Ownership
<1> SUFFICES ASSUME Init PROVE Ownership
  OBVIOUS
<1> USE ClientTimersAssumption DEF Init
<1>1. 0 \in Ids /\ 1 \in 1 .. MaxId + 1 /\ 0 \in 0 .. MaxClients
  BY DEF Ids
<1>2. TypeOK
  BY <1>1 DEF TypeOK, TimerOrNone
<1>3. RegisteredIsOwned /\ OwnedUnderItsId
  BY DEF RegisteredIsOwned, OwnedUnderItsId
<1>4. QED
  BY <1>2, <1>3 DEF Ownership

(* Storing a fresh Timer under id keeps Ownership, whether the library      *)
(* registered it under that id or refused it.                              *)
LEMMA StoreKeepsOwnership ==
    ASSUME Ownership,
           NEW t \in Timers, state[t] = "free",
           NEW id \in Ids, NEW os \in BOOLEAN,
           nextId' \in 1 .. MaxId + 1, refused' \in BOOLEAN,
           \/ Store(t, id, os, registered)
           \/ Store(t, id, os, [registered EXCEPT ![id] = t])
    PROVE  Ownership'
<1> USE ClientTimersAssumption DEF Ownership, TimerOrNone
<1>1. TypeOK'
  BY DEF TypeOK, Store, Unregister
<1>2. \A k \in Ids : timerMap[k] # t /\ registered[k] # t
  <2>1. t # NoTimer
    OBVIOUS
  <2>2. \A k \in Ids : timerMap[k] # t
    BY <2>1 DEF OwnedUnderItsId
  <2>3. QED
    BY <2>1, <2>2 DEF RegisteredIsOwned
<1>3. \A k \in Ids \ {id} : registered'[k] # NoTimer => registered'[k] = registered[k]
  BY DEF Store, Unregister, TypeOK
<1>4. registered'[id] # NoTimer => registered'[id] = t
  <2>1. CASE timerMap[id] = NoTimer
    BY <2>1 DEF Store, Unregister, TypeOK, RegisteredIsOwned
  <2>2. CASE timerMap[id] # NoTimer
    BY <2>2, OwnedKeys DEF Store, Unregister, TypeOK, OwnedUnderItsId
  <2>3. QED
    BY <2>1, <2>2
<1>5. RegisteredIsOwned'
  BY <1>1, <1>2, <1>3, <1>4 DEF RegisteredIsOwned, OwnedUnderItsId, Store, TypeOK
<1>6. OwnedUnderItsId'
  BY <1>1, <1>2 DEF OwnedUnderItsId, Store, TypeOK
<1>7. QED
  BY <1>1, <1>5, <1>6

(* Dropping keys of the map with the objects they own keeps Ownership.     *)
LEMMA DestroyKeepsOwnership ==
    ASSUME Ownership,
           NEW K \in SUBSET Ids,
           timerMap' = [k \in Ids |-> IF k \in K THEN NoTimer ELSE timerMap[k]],
           Destroy(Owned(K), registered),
           UNCHANGED <<client, made, nextId, idOf, oneShot, refused>>,
           running' \in TimerOrNone
    PROVE  Ownership'
<1> USE ClientTimersAssumption DEF Ownership, TimerOrNone
<1>1. \A t \in Timers : t \in Owned(K) <=> \E k \in K : timerMap[k] = t
  BY DEF Owned
<1>2. TypeOK'
  <2>1. state' \in [Timers -> {"free", "live", "dead"}]
    BY DEF TypeOK, Destroy
  <2>2. registered' \in [Ids -> TimerOrNone]
    BY DEF TypeOK, Destroy, Unregister
  <2>3. timerMap' \in [Ids -> TimerOrNone]
    BY DEF TypeOK
  <2>4. QED
    BY <2>1, <2>2, <2>3 DEF TypeOK, Destroy
<1>3. \A k \in Ids : registered'[k] # NoTimer =>
          registered'[k] = registered[k] /\ k \notin K
  <2>1. \A k \in K : registered[k] # NoTimer =>
            registered[k] \in Owned(K) /\ idOf[registered[k]] = k
    BY <1>1 DEF RegisteredIsOwned, OwnedUnderItsId, TypeOK
  <2>2. QED
    BY <2>1 DEF Destroy, Unregister, Owned, TypeOK
<1>4. RegisteredIsOwned'
  BY <1>1, <1>2, <1>3 DEF RegisteredIsOwned, OwnedUnderItsId, Destroy, TypeOK
<1>5. OwnedUnderItsId'
  BY <1>1, <1>2 DEF OwnedUnderItsId, Destroy, TypeOK
<1>6. QED
  BY <1>2, <1>4, <1>5

(* Erasing one key and clearing the map are instances of it.               *)
LEMMA EraseKeepsOwnership ==
    ASSUME Ownership, NEW id \in Ids, Erase(id),
           UNCHANGED <<client, made, nextId, idOf, oneShot, refused>>,
           running' \in TimerOrNone
    PROVE  Ownership'
<1>1. timerMap' = [k \in Ids |-> IF k \in {id} THEN NoTimer ELSE timerMap[k]]
  BY DEF Erase, Ownership, TypeOK
<1>2. QED
  BY <1>1, DestroyKeepsOwnership DEF Erase

-----------------------------------------------------------------------------
(* One step of the specification keeps Ownership.                          *)
LEMMA OwnershipStep == Ownership /\ [Next]_vars => Ownership'
<1> SUFFICES ASSUME Ownership, [Next]_vars PROVE Ownership'
  OBVIOUS
<1> USE ClientTimersAssumption
<1>1. CASE Initialise
  <2>1. client' \in 0 .. MaxClients /\ made' \in 0 .. MaxClients /\ nextId' \in 1 .. MaxId + 1
    BY <1>1 DEF Initialise, Ownership, TypeOK
  <2>2. TypeOK'
    BY <1>1, <2>1 DEF Initialise, Ownership, TypeOK, TimerOrNone
  <2>3. RegisteredIsOwned' /\ OwnedUnderItsId'
    BY <1>1 DEF Initialise, Ownership, RegisteredIsOwned, OwnedUnderItsId
  <2>4. QED
    BY <2>2, <2>3 DEF Ownership
<1>2. ASSUME NEW t \in Timers, NEW os \in BOOLEAN, AddTimer(t, os)
      PROVE  Ownership'
  <2>1. nextId \in Ids /\ nextId' \in 1 .. MaxId + 1
    BY <1>2 DEF AddTimer, Ownership, TypeOK, Ids
  <2>2. PICK id \in Ids : id = nextId
    BY <2>1
  <2>3. /\ Store(t, id, os, [registered EXCEPT ![id] = t])
        /\ state[t] = "free" /\ refused' \in BOOLEAN
    BY <1>2, <2>2 DEF AddTimer, Ownership, TypeOK
  <2>4. QED
    BY <2>1, <2>3, StoreKeepsOwnership
<1>3. ASSUME NEW t \in Timers, NEW os \in BOOLEAN, NEW id \in Ids,
             AddTimerFails(t, os, id)
      PROVE  Ownership'
  <2>1. nextId' \in 1 .. MaxId + 1
    BY <1>3 DEF AddTimerFails, Ownership, TypeOK
  <2>2. Store(t, id, os, registered) /\ state[t] = "free" /\ refused' \in BOOLEAN
    BY <1>3 DEF AddTimerFails
  <2>3. QED
    BY <2>1, <2>2, StoreKeepsOwnership
<1>4. ASSUME NEW id \in Ids, RemoveTimerEvent(id)
      PROVE  Ownership'
  BY <1>4, EraseKeepsOwnership DEF RemoveTimerEvent, Ownership, TypeOK
<1>5. CASE ClearTimerMap
  <2>1. timerMap' = [k \in Ids |-> IF k \in Ids THEN NoTimer ELSE timerMap[k]]
    BY <1>5 DEF ClearTimerMap
  <2>2. QED
    BY <1>5, <2>1, DestroyKeepsOwnership DEF ClearTimerMap, Ownership, TypeOK
<1>6. ASSUME NEW id \in Ids, Fire(id)
      PROVE  Ownership'
  <2>1. \/ registered' = registered
        \/ registered' = [registered EXCEPT ![id] = NoTimer]
    BY <1>6 DEF Fire
  <2>2. TypeOK'
    BY <1>6, <2>1 DEF Fire, Ownership, TypeOK, TimerOrNone
  <2>3. RegisteredIsOwned'
    BY <1>6, <2>1 DEF Fire, Ownership, TypeOK, RegisteredIsOwned
  <2>4. OwnedUnderItsId'
    BY <1>6 DEF Fire, Ownership, OwnedUnderItsId
  <2>5. QED
    BY <2>2, <2>3, <2>4 DEF Ownership
<1>7. CASE HandlerReturns
  <2>1. CASE state[running] # "live" \/ ~oneShot[running]
    BY <1>7, <2>1
    DEF HandlerReturns, Ownership, TypeOK, RegisteredIsOwned, OwnedUnderItsId,
        TimerOrNone
  <2>2. CASE state[running] = "live" /\ oneShot[running]
    <3>1. PICK id \in Ids : id = idOf[running]
      BY <1>7 DEF HandlerReturns, Ownership, TypeOK, TimerOrNone
    <3>2. Erase(id) /\ running' \in TimerOrNone
      BY <1>7, <2>2, <3>1 DEF HandlerReturns, TimerOrNone
    <3>3. QED
      BY <1>7, <3>2, EraseKeepsOwnership DEF HandlerReturns
  <2>3. QED
    BY <1>7, <2>1, <2>2
    DEF Ownership, TypeOK, TimerOrNone, HandlerReturns
<1>8. CASE UNCHANGED vars
  BY <1>8
  DEF vars, Ownership, TypeOK, RegisteredIsOwned, OwnedUnderItsId
<1>9. QED
  BY <1>1, <1>2, <1>3, <1>4, <1>5, <1>6, <1>7, <1>8 DEF Next

(* The timers of a client are well typed, whatever the constants.          *)
THEOREM TypeCorrect == Spec => []TypeOK
<1>1. Ownership => TypeOK
  BY DEF Ownership
<1>2. QED
  BY <1>1, OwnershipInit, OwnershipStep, PTL DEF Spec

(* The library never holds a pointer to a destroyed Timer.                 *)
THEOREM NoDanglingCallback == Spec => []RegisteredIsOwned
<1>1. Ownership => RegisteredIsOwned
  BY DEF Ownership
<1>2. QED
  BY <1>1, OwnershipInit, OwnershipStep, PTL DEF Spec

(* A Timer lives as long as the map owns it: no leak, no second destruction. *)
THEOREM LifetimeIsOwnership == Spec => []OwnedUnderItsId
<1>1. Ownership => OwnedUnderItsId
  BY DEF Ownership
<1>2. QED
  BY <1>1, OwnershipInit, OwnershipStep, PTL DEF Spec

-----------------------------------------------------------------------------
(* Returning from the handler of a live one-shot Timer destroys it and      *)
(* leaves no registration of it behind.                                    *)
THEOREM OneShotTimersAreSpent == Spec => OneShotIsSpent
<1>1. ASSUME Ownership, [Next]_vars,
             NEW t \in Timers,
             running = t, running' # t, oneShot[t], state[t] = "live"
      PROVE  state'[t] = "dead" /\ \A k \in Ids : registered'[k] # t
  <2>1. running # NoTimer
    BY <1>1, ClientTimersAssumption
  <2>2. HandlerReturns
    BY <1>1, <2>1
    DEF Next, vars, Initialise, AddTimer, AddTimerFails, Store,
        RemoveTimerEvent, ClearTimerMap, Fire
  <2>3. PICK id \in Ids : id = idOf[t]
    BY <1>1 DEF Ownership, TypeOK
  <2>4. Erase(id)
    BY <1>1, <2>2, <2>3 DEF HandlerReturns
  <2>5. Owned({id}) = {t}
    BY <1>1, <2>1, <2>3 DEF Owned, Ownership, OwnedUnderItsId
  <2>6. state'[t] = "dead"
    BY <2>4, <2>5 DEF Erase, Destroy
  <2>7. registered' = [k \in Ids |-> IF k = id THEN NoTimer ELSE registered[k]]
    BY <2>3, <2>4, <2>5 DEF Erase, Destroy, Unregister
  <2>8. \A k \in Ids : registered[k] = t => k = id
    BY <1>1, <2>1, <2>3 DEF Ownership, RegisteredIsOwned, OwnedUnderItsId
  <2>9. QED
    BY <1>1, <2>1, <2>6, <2>7, <2>8
<1>2. Ownership /\ [Next]_vars =>
        [\A t \in Timers :
            running = t /\ running' # t /\ oneShot[t] /\ state[t] = "live" =>
                state'[t] = "dead" /\ \A k \in Ids : registered'[k] # t]_vars
  BY <1>1
<1>3. QED
  BY <1>2, OwnershipInit, OwnershipStep, PTL DEF Spec, OneShotIsSpent

-----------------------------------------------------------------------------
(* Every id in the queue has been handed out, and so has the one of the     *)
(* Timer whose handler runs: no UA_Client is made meanwhile.               *)
IdsHandedOut ==
    /\ \A k \in Ids : registered[k] # NoTimer => k < nextId
    /\ running # NoTimer => state[running] # "free" /\ idOf[running] < nextId

(* A step that registers nothing and hands out no id.                      *)
LEMMA IdsStayHandedOut ==
    ASSUME Ownership, IdsHandedOut,
           \A k \in Ids : registered'[k] \in {NoTimer, registered[k]},
           \A t \in Timers : state[t] # "free" =>
               state'[t] # "free" /\ idOf'[t] = idOf[t],
           nextId' = nextId, running' \in {running, NoTimer}
    PROVE  IdsHandedOut'
<1>1. running \in TimerOrNone
  BY DEF Ownership, TypeOK
<1>2. \A k \in Ids : registered'[k] # NoTimer => k < nextId'
  BY DEF IdsHandedOut
<1>3. running' # NoTimer => state'[running'] # "free" /\ idOf'[running'] < nextId'
  BY <1>1 DEF IdsHandedOut, TimerOrNone
<1> QED
  BY <1>2, <1>3 DEF IdsHandedOut

LEMMA IdsHandedOutStep ==
    ASSUME Ownership, IdsHandedOut, [Next]_vars
    PROVE  IdsHandedOut'
<1> USE ClientTimersAssumption
<1>a. TypeOK
  BY DEF Ownership
<1>1. CASE Initialise
  BY <1>1 DEF Initialise, IdsHandedOut
<1>2. ASSUME NEW t \in Timers, NEW os \in BOOLEAN, AddTimer(t, os)
      PROVE  IdsHandedOut'
  <2>1. nextId \in Ids /\ nextId \in Int /\ nextId' = nextId + 1 /\ running' = running
    BY <1>a, <1>2 DEF AddTimer, Store, TypeOK, Ids
  <2>2. \A k \in Ids : k \in Int
    BY DEF Ids
  <2>3. \A k \in Ids \ {nextId} : registered'[k] \in {NoTimer, registered[k]}
    BY <1>a, <1>2 DEF AddTimer, Store, Unregister, TypeOK
  <2>4. \A k \in Ids : registered'[k] # NoTimer => k < nextId'
    BY <2>1, <2>2, <2>3 DEF IdsHandedOut
  <2>5. ASSUME running # NoTimer
        PROVE  state'[running] # "free" /\ idOf'[running] < nextId'
    <3>1. running \in Timers /\ running # t
      BY <1>a, <1>2, <2>5 DEF AddTimer, TypeOK, TimerOrNone, IdsHandedOut
    <3>2. state'[running] # "free" /\ idOf'[running] = idOf[running]
      BY <1>a, <1>2, <2>5, <3>1 DEF AddTimer, Store, TypeOK, IdsHandedOut
    <3>3. PICK id \in Ids : id = idOf[running]
      BY <1>a, <3>1 DEF TypeOK
    <3>4. id < nextId
      BY <2>5, <3>3 DEF IdsHandedOut
    <3>5. id < nextId'
      BY <2>1, <2>2, <3>4
    <3> QED
      BY <3>2, <3>3, <3>5
  <2> QED
    BY <2>1, <2>4, <2>5 DEF IdsHandedOut
<1>3. ASSUME NEW t \in Timers, NEW os \in BOOLEAN, NEW id \in Ids,
             AddTimerFails(t, os, id)
      PROVE  IdsHandedOut'
  <2>1. \A k \in Ids : registered'[k] \in {NoTimer, registered[k]}
    BY <1>3 DEF AddTimerFails, Store, Unregister
  <2>2. \A u \in Timers : state[u] # "free" =>
            state'[u] # "free" /\ idOf'[u] = idOf[u]
    BY <1>a, <1>3 DEF AddTimerFails, Store, TypeOK
  <2> QED
    BY <1>3, <2>1, <2>2, IdsStayHandedOut DEF AddTimerFails, Store
<1>4. ASSUME NEW id \in Ids, RemoveTimerEvent(id) PROVE IdsHandedOut'
  BY <1>4, IdsStayHandedOut DEF RemoveTimerEvent, Erase, Destroy, Unregister
<1>5. CASE ClearTimerMap
  BY <1>5, IdsStayHandedOut DEF ClearTimerMap, Destroy, Unregister
<1>6. ASSUME NEW id \in Ids, Fire(id) PROVE IdsHandedOut'
  <2>1. PICK t \in Timers : t = registered[id] /\ running' = t
    BY <1>a, <1>6 DEF Fire, TypeOK, TimerOrNone
  <2>2. state[t] = "live" /\ idOf[t] = id /\ id < nextId
    BY <1>6, <2>1
    DEF Fire, IdsHandedOut, Ownership, RegisteredIsOwned, OwnedUnderItsId
  <2>3. \A k \in Ids : registered'[k] \in {NoTimer, registered[k]}
    BY <1>a, <1>6 DEF Fire, TypeOK
  <2> QED
    BY <1>6, <2>1, <2>2, <2>3 DEF Fire, IdsHandedOut
<1>7. CASE HandlerReturns
  <2>1. /\ \A k \in Ids : registered'[k] \in {NoTimer, registered[k]}
        /\ \A t \in Timers : state[t] # "free" => state'[t] # "free"
        /\ idOf' = idOf /\ nextId' = nextId /\ running' = NoTimer
    BY <1>7 DEF HandlerReturns, Erase, Destroy, Unregister
  <2> QED
    BY <2>1, IdsStayHandedOut
<1>8. CASE UNCHANGED vars
  BY <1>8, IdsStayHandedOut DEF vars
<1> QED
  BY <1>1, <1>2, <1>3, <1>4, <1>5, <1>6, <1>7, <1>8 DEF Next

(* An accepted addition takes no other Timer out of the schedule, and does  *)
(* not destroy the one whose handler made it (addTimedEvent,               *)
(* addRepeatedTimerEvent, clientCallback).                                 *)
THEOREM AdditionsAreHarmless == Spec => AdditionSparesTheScheduled
<1>1. Init => IdsHandedOut
  BY DEF Init, IdsHandedOut
<1>2. ASSUME Ownership, IdsHandedOut, [Next]_vars, nextId' > nextId,
             NEW t \in Timers
      PROVE  /\ state[t] = "live" /\ t = running => state'[t] = "live"
             /\ \A k \in Ids : registered[k] = t =>
                    registered'[k] = t /\ state'[t] = "live"
  <2> USE ClientTimersAssumption
  <2>1. TypeOK /\ nextId \in Int
    BY <1>2 DEF Ownership, TypeOK
  <2>2. PICK u \in Timers, os \in BOOLEAN : AddTimer(u, os)
    <3>1. ~Initialise
      BY <1>2, <2>1 DEF Initialise, TypeOK
    <3>2. nextId' # nextId
      BY <1>2, <2>1
    <3> QED
      BY <3>1, <3>2, <1>2
      DEF Next, vars, AddTimerFails, RemoveTimerEvent, ClearTimerMap, Fire,
          HandlerReturns
  <2>3. nextId \in Ids /\ \A k \in Ids : k \in Int
    BY <2>1, <2>2 DEF AddTimer, TypeOK, Ids
  <2>4. \A v \in Timers : v # u /\ v # timerMap[nextId] => state'[v] = state[v]
    BY <2>1, <2>2 DEF AddTimer, Store, TypeOK
(* What is destroyed under the new id is neither running nor registered.   *)
  <2>5. ASSUME timerMap[nextId] # NoTimer
        PROVE  /\ timerMap[nextId] # running
               /\ idOf[timerMap[nextId]] = nextId
    <3>1. idOf[timerMap[nextId]] = nextId
      BY <1>2, <2>3, <2>5 DEF Ownership, OwnedUnderItsId
    <3> QED
      BY <1>2, <2>1, <2>5, <3>1 DEF IdsHandedOut
  <2>6. \A k \in Ids : registered[k] # NoTimer =>
            /\ k # nextId
            /\ timerMap[k] = registered[k] /\ idOf[registered[k]] = k
            /\ state[registered[k]] = "live"
    BY <1>2, <2>1, <2>3
    DEF IdsHandedOut, Ownership, RegisteredIsOwned, OwnedUnderItsId
  <2>7. ASSUME state[t] = "live", t = running
        PROVE  state'[t] = "live"
    BY <2>2, <2>4, <2>5, <2>7 DEF AddTimer
  <2>8. ASSUME NEW k \in Ids, registered[k] = t
        PROVE  registered'[k] = t /\ state'[t] = "live"
    <3>1. k # nextId /\ idOf[t] = k /\ state[t] = "live" /\ timerMap[k] = t
      BY <2>6, <2>8
    <3>2. t # timerMap[nextId]
      BY <2>5, <3>1
    <3>3. \A v \in Owned({nextId}) : idOf[v] = nextId
      BY <2>5 DEF Owned
    <3>4. registered'[k] = t
      BY <2>1, <2>2, <2>8, <3>1, <3>3 DEF AddTimer, Store, Unregister, TypeOK
    <3> QED
      BY <2>2, <2>4, <3>1, <3>2, <3>4 DEF AddTimer
  <2> QED
    BY <2>7, <2>8
<1>3. Ownership /\ IdsHandedOut /\ [Next]_vars =>
        [nextId' > nextId =>
            \A t \in Timers :
                /\ state[t] = "live" /\ t = running => state'[t] = "live"
                /\ \A k \in Ids : registered[k] = t =>
                       registered'[k] = t /\ state'[t] = "live"]_vars
  BY <1>2
<1>4. Ownership /\ IdsHandedOut /\ [Next]_vars => IdsHandedOut'
  BY IdsHandedOutStep
<1> QED
  BY <1>1, <1>3, <1>4, OwnershipInit, OwnershipStep, PTL
     DEF Spec, AdditionSparesTheScheduled

-----------------------------------------------------------------------------
(* LiveIsScheduled is not inductive alone: with a single UA_Client that     *)
(* refused nothing, the map holds no entry for an id still to be handed    *)
(* out.                                                                    *)
OneClient ==
    /\ client = 0 => \A k \in Ids : timerMap[k] = NoTimer
    /\ made = 0 => client = 0
    /\ \A k \in Ids : timerMap[k] # NoTimer => k < nextId
    /\ LiveIsScheduled

(* Destroying owned objects leaves the others scheduled.                   *)
LEMMA DestroyKeepsOneClient ==
    ASSUME Ownership, OneClient,
           NEW K \in SUBSET Ids,
           timerMap' = [k \in Ids |-> IF k \in K THEN NoTimer ELSE timerMap[k]],
           Destroy(Owned(K), registered),
           UNCHANGED <<client, made, nextId, idOf, oneShot, refused>>,
           \/ running' = running
           \/ running' = NoTimer /\ (running \in Timers =>
                  ~oneShot[running] \/ running \in Owned(K))
    PROVE  OneClient'
<1>1. \A t \in Timers : t \in Owned(K) <=> \E k \in K : timerMap[k] = t
  BY ClientTimersAssumption DEF Owned
<1>2. ASSUME NEW u \in Timers, state'[u] = "live"
      PROVE  state[u] = "live" /\ u \notin Owned(K) /\ idOf[u] \in Ids
             /\ registered'[idOf[u]] = registered[idOf[u]]
  <2>1. state[u] = "live" /\ u \notin Owned(K) /\ idOf[u] \in Ids
    BY <1>2 DEF Destroy, Ownership, TypeOK
  <2>2. \A t \in Owned(K) : t \in Timers /\ timerMap[idOf[t]] = t
    BY <1>1 DEF Owned, Ownership, TypeOK, TimerOrNone, OwnedUnderItsId
  <2>3. ~ \E t \in Owned(K) : idOf[t] = idOf[u]
    BY <2>1, <2>2 DEF Ownership, OwnedUnderItsId
  <2>4. QED
    BY <2>1, <2>3 DEF Destroy, Unregister
<1>3. LiveIsScheduled'
  BY <1>2 DEF OneClient, LiveIsScheduled
<1>4. QED
  BY <1>3 DEF OneClient

LEMMA EraseKeepsOneClient ==
    ASSUME Ownership, OneClient, NEW id \in Ids, Erase(id),
           UNCHANGED <<client, made, nextId, idOf, oneShot, refused>>,
           \/ running' = running
           \/ running' = NoTimer /\ (running \in Timers =>
                  ~oneShot[running] \/ running \in Owned({id}))
    PROVE  OneClient'
<1>1. timerMap' = [k \in Ids |-> IF k \in {id} THEN NoTimer ELSE timerMap[k]]
  BY DEF Erase, Ownership, TypeOK
<1>2. QED
  BY <1>1, DestroyKeepsOneClient DEF Erase

LEMMA OneClientStep ==
    ASSUME Ownership, made <= 1 /\ ~refused => OneClient, [Next]_vars,
           made' <= 1, ~refused'
    PROVE  OneClient'
<1> USE ClientTimersAssumption
<1>0. made <= 1 /\ ~refused /\ OneClient
  <2>1. made \in Nat
    BY DEF Ownership, TypeOK
  <2>2. CASE Initialise
    BY <2>1, <2>2 DEF Initialise
  <2>3. CASE ~Initialise
    <3>1. made' = made
      BY <2>3 DEF Next, vars, AddTimer, AddTimerFails, Store,
             RemoveTimerEvent, ClearTimerMap, Fire, HandlerReturns
    <3>2. refused' = refused
      BY <2>3 DEF Next, vars, AddTimer, AddTimerFails, Store,
             RemoveTimerEvent, ClearTimerMap, Fire, HandlerReturns
    <3>3. QED
      BY <3>1, <3>2
  <2>4. QED
    BY <2>2, <2>3
<1>1. CASE Initialise
  <2>1. made = 0 /\ made' = 1
    BY <1>1 DEF Initialise, Ownership, TypeOK
  <2>2. \A k \in Ids : timerMap[k] = NoTimer
    BY <1>0, <2>1 DEF OneClient
  <2>3. \A t \in Timers : state[t] # "live"
    BY <2>2 DEF Ownership, TypeOK, OwnedUnderItsId
  <2>4. QED
    BY <1>1, <2>1, <2>2, <2>3 DEF Initialise, OneClient, LiveIsScheduled
<1>2. ASSUME NEW t \in Timers, NEW os \in BOOLEAN, AddTimer(t, os)
      PROVE  OneClient'
  <2>1. nextId \in Ids /\ nextId' = nextId + 1 /\ nextId \in Nat /\ client # 0
    BY <1>2 DEF AddTimer, Ownership, TypeOK, Ids
  <2>2. PICK id \in Ids : id = nextId
    BY <2>1
  <2>3. timerMap[id] = NoTimer
    BY <1>0, <2>2, <2>1 DEF OneClient
  <2>4. Owned({id}) = {}
    BY <2>3 DEF Owned
  <2>5. registered' = [registered EXCEPT ![id] = t]
    BY <1>2, <2>2, <2>4 DEF AddTimer, Store, Unregister, Ownership, TypeOK
  <2>6. /\ timerMap' = [timerMap EXCEPT ![id] = t]
        /\ idOf' = [idOf EXCEPT ![t] = id]
        /\ \A u \in Timers : state'[u] = "live" => u = t \/ state[u] = "live"
        /\ UNCHANGED <<client, made, running, refused>>
        /\ oneShot' = [oneShot EXCEPT ![t] = os]
    BY <1>2, <2>2 DEF AddTimer, Store
  <2>7. \A u \in Timers : state[u] = "live" => idOf[u] # id
    BY <2>3 DEF Ownership, OwnedUnderItsId
  <2>8. LiveIsScheduled'
    BY <1>0, <2>5, <2>6, <2>7 DEF OneClient, LiveIsScheduled, Ownership, TypeOK
  <2>9. \A k \in Ids : k \in Int
    BY DEF Ids
  <2>10. \A k \in Ids : timerMap'[k] # NoTimer => k < nextId'
    <3>1. \A k \in Ids : timerMap[k] # NoTimer => k < nextId
      BY <1>0 DEF OneClient
    <3>2. \A k \in Ids : timerMap'[k] # NoTimer => k = id \/ timerMap[k] # NoTimer
      BY <2>6 DEF Ownership, TypeOK
    <3>3. QED
      BY <2>1, <2>2, <2>9, <3>1, <3>2
  <2>11. QED
    BY <1>0, <2>1, <2>6, <2>8, <2>10 DEF OneClient
<1>3. ASSUME NEW t \in Timers, NEW os \in BOOLEAN, NEW id \in Ids,
             AddTimerFails(t, os, id)
      PROVE  OneClient'
  BY <1>3 DEF AddTimerFails
<1>4. ASSUME NEW id \in Ids, RemoveTimerEvent(id)
      PROVE  OneClient'
  BY <1>0, <1>4, EraseKeepsOneClient DEF RemoveTimerEvent
<1>5. CASE ClearTimerMap
  <2>1. timerMap' = [k \in Ids |-> IF k \in Ids THEN NoTimer ELSE timerMap[k]]
    BY <1>5 DEF ClearTimerMap
  <2>2. QED
    BY <1>0, <1>5, <2>1, DestroyKeepsOneClient DEF ClearTimerMap
<1>6. ASSUME NEW id \in Ids, Fire(id)
      PROVE  OneClient'
  <2>1. PICK t \in Timers : t = registered[id]
    BY <1>6 DEF Fire, Ownership, TypeOK, TimerOrNone
  <2>2. running = NoTimer /\ running' = t /\ idOf[t] = id
    BY <1>6, <2>1 DEF Fire, Ownership, RegisteredIsOwned, OwnedUnderItsId
  <2>3. \A u \in Timers : state[u] = "live" /\ u # t => idOf[u] # id
    BY <1>6, <2>1 DEF Fire, Ownership, RegisteredIsOwned, OwnedUnderItsId
  <2>4. LiveIsScheduled'
    BY <1>0, <1>6, <2>1, <2>2, <2>3
    DEF Fire, OneClient, LiveIsScheduled, Ownership, TypeOK
  <2>5. QED
    BY <1>0, <1>6, <2>4 DEF Fire, OneClient
<1>7. CASE HandlerReturns
  <2>1. running \in Timers
    BY <1>7 DEF HandlerReturns, Ownership, TypeOK, TimerOrNone
  <2>2. CASE state[running] = "live" /\ oneShot[running]
    <3>1. PICK id \in Ids : id = idOf[running]
      BY <2>1 DEF Ownership, TypeOK
    <3>2. Erase(id)
      BY <1>7, <2>2, <3>1 DEF HandlerReturns
    <3>3. running \in Owned({id})
      BY <2>1, <2>2, <3>1 DEF Owned, Ownership, OwnedUnderItsId
    <3>4. QED
      BY <1>0, <1>7, <3>2, <3>3, EraseKeepsOneClient DEF HandlerReturns
  <2>3. CASE ~(state[running] = "live" /\ oneShot[running])
    BY <1>0, <1>7, <2>1, <2>3 DEF HandlerReturns, OneClient, LiveIsScheduled
  <2>4. QED
    BY <2>2, <2>3
<1>8. CASE UNCHANGED vars
  BY <1>0, <1>8 DEF vars, OneClient, LiveIsScheduled
<1>9. QED
  BY <1>1, <1>2, <1>3, <1>4, <1>5, <1>6, <1>7, <1>8 DEF Next

(* While the wrapper has had one UA_Client and no addition was refused, a   *)
(* Timer that was not removed stays scheduled until it is spent.           *)
THEOREM ScheduledUntilSpent == Spec => []LiveIsScheduled
<1> DEFINE IInv == made <= 1 /\ ~refused => OneClient
<1>1. Init => IInv
  BY DEF Init, OneClient, LiveIsScheduled
<1>2. IInv => LiveIsScheduled
  BY DEF OneClient, LiveIsScheduled
<1>3. Ownership /\ IInv /\ [Next]_vars => IInv'
  BY OneClientStep
<1> HIDE DEF IInv
<1>4. QED
  BY <1>1, <1>2, <1>3, OwnershipInit, OwnershipStep, PTL DEF Spec

-----------------------------------------------------------------------------
(* The Timers of a Client as a Scheduler.                                  *)

(* Nothing happens to the Timer t that would schedule it.                  *)
NotScheduled(t) ==
    /\ state[t] = "dead" => state'[t] = "dead"
    /\ \A k \in Ids : registered'[k] = t => registered[k] = t
    /\ (\E k \in Ids : registered'[k] = t) => oneShot'[t] = oneShot[t]

LEMMA NotScheduledLapses ==
    ASSUME NEW t \in Timers, NotScheduled(t)
    PROVE  SchedulePhase'[t] \in Abstract!Lapsing(SchedulePhase[t])
<1> USE DEF NotScheduled, Abstract!Lapsing, Abstract!Scheduled, SchedulePhase
<1>1. CASE state'[t] = "dead"
  BY <1>1
<1>2. CASE state'[t] # "dead" /\ \A k \in Ids : registered'[k] # t
  BY <1>2
<1>3. CASE state'[t] # "dead" /\ \E k \in Ids : registered'[k] = t
  BY <1>3
<1> QED
  BY <1>1, <1>2, <1>3

(* A step that schedules nothing and after which the same handler runs, or  *)
(* none, is a Lapse.                                                       *)
LEMMA LapseStep ==
    ASSUME \A t \in Timers : NotScheduled(t), running' \in {running, NoTimer}
    PROVE  Abstract!Next
<1>1. SchedulePhase' \in [Timers -> Abstract!Phases]
  BY DEF SchedulePhase, Abstract!Phases, Abstract!Scheduled
<1>2. Abstract!OthersLapse({})
  BY NotScheduledLapses DEF Abstract!OthersLapse
<1> QED
  BY <1>1, <1>2 DEF Abstract!Lapse, Abstract!Next

(* Storing a fresh Timer schedules at most that one; a stale Timer it       *)
(* replaces may take its registration away.                                *)
LEMMA StoreStep ==
    ASSUME Ownership, NEW t \in Timers, state[t] = "free",
           NEW id \in Ids, NEW os \in BOOLEAN, NEW reg,
           Store(t, id, os, reg),
           \A k \in Ids : reg[k] # t => reg[k] = registered[k]
    PROVE  Abstract!Next
<1> USE ClientTimersAssumption
<1>1. \A k \in Ids : registered'[k] \in {NoTimer, reg[k]}
  BY DEF Store, Unregister
<1>2. /\ \A u \in Timers \ {t} : /\ state'[u] \in {state[u], "dead"}
                               /\ oneShot'[u] = oneShot[u]
      /\ state'[t] = "live" /\ running' = running
  BY DEF Store, Ownership, TypeOK
<1>3. \A k \in Ids : registered[k] # t
  BY DEF Ownership, RegisteredIsOwned
<1>4. ASSUME NEW u \in Timers \ {t} PROVE NotScheduled(u)
  BY <1>1, <1>2 DEF NotScheduled
<1>5. CASE \A k \in Ids : registered'[k] # t
  <2>1. NotScheduled(t)
    BY <1>5 DEF NotScheduled
  <2> QED
    BY <1>2, <1>4, <2>1, LapseStep
<1>6. CASE \E k \in Ids : registered'[k] = t
  <2>1. SchedulePhase[t] = "idle"
    BY <1>3 DEF SchedulePhase
  <2>2. /\ SchedulePhase' \in [Timers -> Abstract!Phases]
        /\ SchedulePhase'[t] \in Abstract!Scheduled
    BY <1>2, <1>6 DEF SchedulePhase, Abstract!Phases, Abstract!Scheduled
  <2>3. Abstract!OthersLapse({t})
    BY <1>4, NotScheduledLapses DEF Abstract!OthersLapse
  <2> QED
    BY <1>2, <2>1, <2>2, <2>3 DEF Abstract!Schedule, Abstract!Next
<1> QED
  BY <1>5, <1>6

LEMMA SchedulerStep ==
    ASSUME Ownership, [Next]_vars
    PROVE  [Abstract!Next]_<<SchedulePhase, running>>
<1> USE ClientTimersAssumption
<1>a. TypeOK
  BY DEF Ownership
(* The steps that only take something out of the queue.                    *)
<1>1. ASSUME \A k \in Ids : registered'[k] \in {NoTimer, registered[k]},
             \A t \in Timers : state[t] = "dead" => state'[t] = "dead",
             oneShot' = oneShot, running' \in {running, NoTimer}
      PROVE  Abstract!Next
  BY <1>1, LapseStep DEF NotScheduled
<1>2. CASE Initialise
  BY <1>1, <1>2 DEF Initialise
<1>3. ASSUME NEW t \in Timers, NEW os \in BOOLEAN, AddTimer(t, os)
      PROVE  Abstract!Next
  <2>1. nextId \in Ids
    BY <1>a, <1>3 DEF AddTimer, TypeOK, Ids
  <2> DEFINE reg == [registered EXCEPT ![nextId] = t]
  <2>2. \A k \in Ids : reg[k] # t => reg[k] = registered[k]
    BY <1>a, <2>1 DEF TypeOK
  <2>3. state[t] = "free" /\ Store(t, nextId, os, reg)
    BY <1>3 DEF AddTimer
  <2> HIDE DEF reg
  <2> QED
    BY <2>1, <2>2, <2>3, StoreStep
<1>4. ASSUME NEW t \in Timers, NEW os \in BOOLEAN, NEW id \in Ids,
             AddTimerFails(t, os, id)
      PROVE  Abstract!Next
  BY <1>4, StoreStep DEF AddTimerFails
<1>5. ASSUME NEW id \in Ids, RemoveTimerEvent(id) PROVE Abstract!Next
  BY <1>1, <1>5 DEF RemoveTimerEvent, Erase, Destroy, Unregister
<1>6. CASE ClearTimerMap
  BY <1>1, <1>6 DEF ClearTimerMap, Destroy, Unregister
(* The Timer called is registered under its id only, so a last call ends    *)
(* its scheduling.                                                         *)
<1>7. ASSUME NEW id \in Ids, Fire(id) PROVE Abstract!Next
  <2>1. PICK t \in Timers : t = registered[id]
    BY <1>a, <1>7 DEF Fire, TypeOK, TimerOrNone
  <2>2. /\ state[t] = "live" /\ running = NoTimer /\ running' = t
        /\ state' = state /\ oneShot' = oneShot
        /\ \A k \in Ids : registered[k] = t => k = id
    BY <1>7, <2>1 DEF Fire, Ownership, RegisteredIsOwned, OwnedUnderItsId
  <2>3. SchedulePhase[t] = IF oneShot[t] THEN "once" ELSE "repeat"
    BY <2>1, <2>2 DEF SchedulePhase
  <2>4. SchedulePhase' = [SchedulePhase EXCEPT
                            ![t] = IF @ = "once" THEN "idle" ELSE @]
    <3>1. CASE oneShot[t]
      <4>1. \A k \in Ids : registered'[k] = IF k = id THEN NoTimer ELSE registered[k]
        BY <1>a, <1>7, <2>1, <3>1 DEF Fire, TypeOK
      <4>2. \A u \in Timers \ {t} :
               (\A k \in Ids : registered'[k] # u) <=> (\A k \in Ids : registered[k] # u)
        BY <2>1, <4>1
      <4>3. \A k \in Ids : registered'[k] # t
        BY <2>2, <4>1
      <4>4. \A u \in Timers \ {t} : SchedulePhase'[u] = SchedulePhase[u]
        BY <2>2, <4>2 DEF SchedulePhase
      <4>5. SchedulePhase'[t] = "idle"
        BY <2>2, <4>3 DEF SchedulePhase
      <4>6. SchedulePhase[t] = "once"
        BY <2>3, <3>1
      <4>7. /\ SchedulePhase' = [u \in Timers |-> SchedulePhase'[u]]
            /\ SchedulePhase = [u \in Timers |-> SchedulePhase[u]]
        BY DEF SchedulePhase
      <4> QED
        BY <4>4, <4>5, <4>6, <4>7
    <3>2. CASE ~oneShot[t]
      <4>1. SchedulePhase' = SchedulePhase
        BY <1>7, <2>1, <2>2, <3>2 DEF Fire, SchedulePhase
      <4>2. SchedulePhase[t] = "repeat"
        BY <2>3, <3>2
      <4>3. SchedulePhase = [u \in Timers |-> SchedulePhase[u]]
        BY DEF SchedulePhase
      <4> QED
        BY <4>1, <4>2, <4>3
    <3> QED
      BY <3>1, <3>2
  <2>5. SchedulePhase[t] \in Abstract!Scheduled
    BY <2>3 DEF Abstract!Scheduled
  <2> QED
    BY <2>2, <2>4, <2>5 DEF Abstract!Call, Abstract!Next
<1>8. CASE HandlerReturns
  BY <1>1, <1>8 DEF HandlerReturns, Erase, Destroy, Unregister
<1>9. CASE UNCHANGED vars
  BY <1>9 DEF vars, SchedulePhase
<1> QED
  BY <1>2, <1>3, <1>4, <1>5, <1>6, <1>7, <1>8, <1>9 DEF Next

(* The Timers are a Scheduler, however many there are, refused additions    *)
(* and new UA_Clients included: a handler runs only while its Timer is      *)
(* scheduled and alive, a one-shot one at most once, and never inside       *)
(* another handler (addTimedEvent, clientCallback, ~Timer).                *)
THEOREM ClientTimersAreScheduled == Spec => ImplementsScheduler
<1>1. Init => Abstract!Init
  BY ClientTimersAssumption DEF Init, Abstract!Init, SchedulePhase
<1>2. Ownership /\ [Next]_vars => [Abstract!Next]_<<SchedulePhase, running>>
  BY SchedulerStep
<1> QED
  BY <1>1, <1>2, OwnershipInit, OwnershipStep, PTL
     DEF Spec, ImplementsScheduler, Abstract!Spec, Abstract!vars
=============================================================================
