------------------------ MODULE ServerCallbacksProofs ------------------------
(***************************************************************************)
(* Proofs about ServerCallbacks for any number of Timers, callback objects *)
(* and ids.                                                                *)
(*                                                                         *)
(* QueuedIsAlive and TimersAreOwned need each other: what is destroyed      *)
(* unregisters its own id only, so that must be the one id the queue has    *)
(* for it.  QueueIsBounded adds where the queue can have nothing.          *)
(*                                                                         *)
(* AcceptedStaysQueued needs that an id nobody was given yet has no Timer    *)
(* and has not ended, unless a refusal is to blame (IdsAreHandedOut).  At   *)
(* the end Timers and callback objects are shown to be a Scheduler, and    *)
(* the conditions join them.                                               *)
(***************************************************************************)
EXTENDS Conditions, TLAPS

(* No id 0 is ever handed out, and the queue goes with the UA_Server.      *)
QueueIsBounded ==
    /\ queue[0] = None
    /\ server = "gone" => \A k \in Ids : queue[k] = None

Ownership == TypeOK /\ QueuedIsAlive /\ TimersAreOwned /\ QueueIsBounded

-----------------------------------------------------------------------------
(* The variables keep their types when a Timer is stored.                  *)
LEMMA StoreKeepsTypes ==
    ASSUME TypeOK, NEW t \in Timers, NEW os \in BOOLEAN, NEW id \in Ids,
           NEW q \in [Ids -> Objects \cup {None}], Store(t, id, os, q),
           nextId' \in 1 .. MaxId + 1, refused' \subseteq Ids
    PROVE  TypeOK'
<1> USE DEF TypeOK, Store
<1>1. idOf' \in [Objects -> Ids] /\ oneShot' \in [Timers -> BOOLEAN]
  BY DEF Objects
<1>2. timerMap' \in [Ids -> Timers \cup {None}]
  OBVIOUS
<1>3. queue' \in [Ids -> Objects \cup {None}]
  BY DEF Unqueue
<1>4. state' \in [Objects -> {"new", "live", "dead"}]
  OBVIOUS
<1> QED
  BY <1>1, <1>2, <1>3, <1>4

(* ... and when the Timers under some keys are destroyed.                  *)
LEMMA DropKeepsTypes ==
    ASSUME TypeOK, NEW K \in SUBSET Ids, Drop(K, queue)
    PROVE  /\ queue' \in [Ids -> Objects \cup {None}]
           /\ state' \in [Objects -> {"new", "live", "dead"}]
BY DEF TypeOK, Drop, Unqueue

LEMMA TypeStep == TypeOK /\ [Next]_vars => TypeOK'
<1> SUFFICES ASSUME TypeOK, [Next]_vars PROVE TypeOK'
  OBVIOUS
<1>0. 0 \in Ids /\ MaxId \in Nat /\ Ids \subseteq Int
  BY ServerCallbacksAssumption DEF ServerCallbacksAssumption, Ids
<1>1. ASSUME NEW t \in Timers, NEW os \in BOOLEAN, AddTimer(t, os)
      PROVE  TypeOK'
  <2>1. nextId \in Ids /\ nextId' \in 1 .. MaxId + 1
    BY <1>0, <1>1 DEF TypeOK, AddTimer, Ids
  <2>2. [queue EXCEPT ![nextId] = t] \in [Ids -> Objects \cup {None}]
    BY DEF TypeOK, Objects
  <2> QED
    BY <1>1, <2>1, <2>2, StoreKeepsTypes DEF AddTimer, TypeOK
<1>2. ASSUME NEW t \in Timers, NEW os \in BOOLEAN, NEW id \in Ids,
             AddTimerFails(t, os, id)
      PROVE  TypeOK'
  BY <1>2, StoreKeepsTypes DEF AddTimerFails, TypeOK
<1>3. ASSUME NEW id \in Ids, RemoveTimerEvent(id) PROVE TypeOK'
  BY <1>3, DropKeepsTypes DEF RemoveTimerEvent, TypeOK
<1>4. ASSUME NEW o \in Callbacks, Construct(o) PROVE TypeOK'
  BY <1>4 DEF Construct, TypeOK
<1>5. ASSUME NEW o \in Callbacks, Start(o) PROVE TypeOK'
  <2>1. nextId \in Ids /\ nextId' \in 1 .. MaxId + 1
    BY <1>0, <1>5 DEF TypeOK, Start, Ids
  <2> QED
    BY <1>5, <2>1 DEF Start, TypeOK, Objects
<1>6. ASSUME NEW o \in Callbacks, Stop(o) PROVE TypeOK'
  BY <1>0, <1>6 DEF Stop, RemoveId, Unqueue, TypeOK, Objects
<1>7. ASSUME NEW o \in Callbacks, DestroyCallback(o) PROVE TypeOK'
  BY <1>0, <1>7 DEF DestroyCallback, RemoveId, Unqueue, TypeOK, Objects
<1>8. ASSUME NEW id \in Ids, Fire(id) PROVE TypeOK'
  BY <1>8 DEF Fire, TypeOK
<1>9. CASE HandlerReturns
  <2>1. fault' \in {"none", "useAfterDestroy"}
    BY <1>9 DEF HandlerReturns, TypeOK
  <2>2. CASE UNCHANGED <<timerMap, queue, state>>
    BY <1>9, <2>1, <2>2 DEF HandlerReturns, TypeOK
  <2>3. CASE /\ running \in Timers
             /\ timerMap' = [timerMap EXCEPT ![idOf[running]] = None]
             /\ Drop({idOf[running]}, queue)
    <3>1. idOf[running] \in Ids
      BY <2>3 DEF TypeOK, Objects
    <3> QED
      BY <1>9, <2>1, <2>3, <3>1, DropKeepsTypes DEF HandlerReturns, TypeOK
  <2> QED
    BY <1>9, <2>2, <2>3 DEF HandlerReturns
<1>10. CASE Run
  BY <1>10 DEF Run, TypeOK
<1>11. CASE Terminate
  BY <1>11 DEF Terminate, TypeOK
<1>12. CASE UNCHANGED vars
  BY <1>12 DEF vars, TypeOK
<1> QED
  BY <1>1, <1>2, <1>3, <1>4, <1>5, <1>6, <1>7, <1>8, <1>9, <1>10, <1>11,
     <1>12 DEF Next, CallbackStep

(* The variables keep their types.                                         *)
THEOREM TypeCorrect == Spec => []TypeOK
<1>1. Init => TypeOK
  <2>1. 0 \in Ids /\ 1 \in 1 .. MaxId + 1
    BY ServerCallbacksAssumption DEF ServerCallbacksAssumption, Ids
  <2> QED
    BY <2>1 DEF Init, TypeOK
<1> QED
  BY <1>1, TypeStep, PTL DEF Spec

-----------------------------------------------------------------------------
(* Storing a fresh Timer keeps the ownership, whether it was queued or the  *)
(* library refused it: the Timer it replaces takes its own entry along.     *)
LEMMA StoreKeepsOwnership ==
    ASSUME Ownership, TypeOK', server # "gone",
           NEW t \in Timers, state[t] = "new",
           NEW os \in BOOLEAN, NEW id \in Ids,
           \/ Store(t, id, os, queue)
           \/ id # 0 /\ Store(t, id, os, [queue EXCEPT ![id] = t])
    PROVE  Ownership'
<1> USE ServerCallbacksAssumption
    DEF Ownership, ServerCallbacksAssumption, Objects, Callbacks
<1>1. timerMap[id] # None => timerMap[id] \in Timers /\ idOf[timerMap[id]] = id
  BY DEF TypeOK, TimersAreOwned
<1>2. /\ idOf' = [idOf EXCEPT ![t] = id]
      /\ timerMap' = [timerMap EXCEPT ![id] = t]
      /\ server' = server
      /\ \A o \in Objects : state'[o] = IF o = t THEN "live"
                                        ELSE IF o = timerMap[id] THEN "dead"
                                        ELSE state[o]
  BY DEF Store
<1>3. \A k \in Ids : timerMap[k] # t /\ queue[k] # t
  BY DEF TimersAreOwned, QueuedIsAlive
<1>4. \A k \in Ids \ {id} : queue'[k] \in {None, queue[k]}
  BY DEF Store, Unqueue
<1>5. queue'[id] # None => \/ queue'[id] = t
                           \/ queue'[id] = queue[id] /\ timerMap[id] = None
  <2>1. CASE timerMap[id] = None
    BY <2>1 DEF Store, Unqueue, TypeOK
  <2>2. CASE timerMap[id] # None
    <3>1. id \in {idOf[timerMap[k]] : k \in OwnedIds({id})}
      BY <1>1, <2>2 DEF OwnedIds
    <3> QED
      BY <3>1 DEF Store, Unqueue
  <2> QED
    BY <2>1, <2>2
<1>6. TimersAreOwned'
  <2>1. ASSUME NEW u \in Timers, state'[u] = "live"
        PROVE  server' # "gone" /\ timerMap'[idOf'[u]] = u
    <3>1. CASE u = t
      BY <1>2, <3>1 DEF TypeOK
    <3>2. CASE u # t
      <4>1. state[u] = "live" /\ u # timerMap[id] /\ idOf'[u] = idOf[u]
        BY <1>2, <2>1, <3>2 DEF TypeOK
      <4>2. timerMap[idOf[u]] = u /\ idOf[u] \in Ids
        BY <4>1 DEF TimersAreOwned, TypeOK
      <4> QED
        BY <1>2, <4>1, <4>2 DEF TypeOK
    <3> QED
      BY <3>1, <3>2
  <2>2. ASSUME NEW k \in Ids, timerMap'[k] # None
        PROVE  state'[timerMap'[k]] = "live" /\ idOf'[timerMap'[k]] = k
    <3>1. CASE k = id
      BY <1>2, <3>1 DEF TypeOK
    <3>2. CASE k # id
      <4>1. /\ timerMap'[k] = timerMap[k] /\ timerMap[k] \in Timers
            /\ timerMap[k] # t
        BY <1>2, <1>3, <2>2, <3>2 DEF TypeOK
      <4>2. state[timerMap[k]] = "live" /\ idOf[timerMap[k]] = k
        BY <2>2, <4>1 DEF TimersAreOwned
      <4>3. timerMap[k] # timerMap[id]
        BY <1>1, <2>2, <3>2, <4>1, <4>2
      <4> QED
        BY <1>2, <4>1, <4>2, <4>3 DEF TypeOK
    <3> QED
      BY <3>1, <3>2
  <2> QED
    BY <2>1, <2>2 DEF TimersAreOwned
<1>7. QueuedIsAlive'
  <2> SUFFICES ASSUME NEW k \in Ids, queue'[k] # None
               PROVE  /\ state'[queue'[k]] = "live"
                      /\ idOf'[queue'[k]] = k
                      /\ queue'[k] \in Timers => timerMap'[k] = queue'[k]
    BY DEF QueuedIsAlive
  <2>1. CASE k = id /\ queue'[k] = t
    BY <1>2, <2>1 DEF TypeOK
  <2>2. CASE k # id \/ timerMap[id] = None
    <3>1. CASE queue'[k] = t
      BY <1>3, <1>4, <2>1, <3>1
    <3>2. CASE queue'[k] = queue[k]
      <4>1. /\ state[queue[k]] = "live" /\ idOf[queue[k]] = k
            /\ queue[k] \in Timers => timerMap[k] = queue[k]
            /\ queue[k] \in Objects /\ queue[k] # t
        BY <1>3, <3>2 DEF QueuedIsAlive, TypeOK
      <4>2. queue[k] # timerMap[id]
        BY <1>1, <2>2, <4>1
      <4>3. queue[k] \in Timers => k # id
        BY <2>2, <4>1
      <4> QED
        BY <1>2, <3>2, <4>1, <4>2, <4>3 DEF TypeOK
    <3> QED
      BY <1>4, <1>5, <2>2, <3>1, <3>2
  <2> QED
    BY <1>5, <2>1, <2>2
<1>8. QueueIsBounded'
  <2>1. queue'[0] = None
    <3>1. 0 \in Ids
      BY DEF Ids
    <3> QED
      BY <3>1 DEF Store, Unqueue, QueueIsBounded, TypeOK
  <2> QED
    BY <1>2, <2>1 DEF QueueIsBounded
<1> QED
  BY <1>6, <1>7, <1>8

(* Destroying the Timer under one key keeps the ownership.                 *)
LEMMA DropKeepsOwnership ==
    ASSUME Ownership, TypeOK', NEW id \in Ids, timerMap[id] # None,
           Drop({id}, queue), timerMap' = [timerMap EXCEPT ![id] = None],
           idOf' = idOf, server' = server
    PROVE  Ownership'
<1> USE ServerCallbacksAssumption
    DEF Ownership, ServerCallbacksAssumption, Objects, Callbacks
<1>1. timerMap[id] \in Timers /\ idOf[timerMap[id]] = id
  BY DEF TypeOK, TimersAreOwned
<1>2. \A k \in Ids : queue'[k] = IF k = id THEN None ELSE queue[k]
  <2>1. {idOf[timerMap[k]] : k \in OwnedIds({id})} = {id}
    BY <1>1 DEF OwnedIds
  <2> QED
    BY <2>1 DEF Drop, Unqueue
<1>3. \A o \in Objects :
        state'[o] = IF o = timerMap[id] THEN "dead" ELSE state[o]
  BY DEF Drop
<1>4. TimersAreOwned'
  <2>1. ASSUME NEW u \in Timers, state'[u] = "live"
        PROVE  server' # "gone" /\ timerMap'[idOf'[u]] = u
    <3>1. state[u] = "live" /\ u # timerMap[id] /\ idOf[u] \in Ids
      BY <1>3, <2>1 DEF TypeOK
    <3> QED
      BY <3>1 DEF TimersAreOwned, TypeOK
  <2>2. ASSUME NEW k \in Ids, timerMap'[k] # None
        PROVE  state'[timerMap'[k]] = "live" /\ idOf'[timerMap'[k]] = k
    <3>1. k # id /\ timerMap'[k] = timerMap[k] /\ timerMap[k] \in Timers
      BY <2>2 DEF TypeOK
    <3>2. state[timerMap[k]] = "live" /\ idOf[timerMap[k]] = k
      BY <2>2, <3>1 DEF TimersAreOwned
    <3> QED
      BY <1>1, <1>3, <3>1, <3>2
  <2> QED
    BY <2>1, <2>2 DEF TimersAreOwned
<1>5. QueuedIsAlive'
  <2> SUFFICES ASSUME NEW k \in Ids, queue'[k] # None
               PROVE  /\ state'[queue'[k]] = "live"
                      /\ idOf'[queue'[k]] = k
                      /\ queue'[k] \in Timers => timerMap'[k] = queue'[k]
    BY DEF QueuedIsAlive
  <2>1. k # id /\ queue'[k] = queue[k] /\ queue[k] \in Objects
    BY <1>2 DEF TypeOK
  <2>2. /\ state[queue[k]] = "live" /\ idOf[queue[k]] = k
        /\ queue[k] \in Timers => timerMap[k] = queue[k]
    BY <2>1 DEF QueuedIsAlive
  <2> QED
    BY <1>1, <1>3, <2>1, <2>2 DEF TypeOK
<1>6. QueueIsBounded'
  <2>1. 0 \in Ids
    BY DEF Ids
  <2> QED
    BY <1>2, <2>1 DEF QueueIsBounded
<1> QED
  BY <1>4, <1>5, <1>6

(* A callback object is not queued under any id once its own was removed.   *)
LEMMA RemovedIsNotQueued ==
    ASSUME Ownership, NEW o \in Callbacks, RemoveId(o)
    PROVE  /\ \A k \in Ids : queue'[k] # o
           /\ \A k \in Ids : queue'[k] \in {None, queue[k]}
<1> USE ServerCallbacksAssumption DEF ServerCallbacksAssumption, Ownership
<1>1. CASE server = "gone"
  BY <1>1 DEF RemoveId, QueueIsBounded, Objects
<1>2. CASE server # "gone"
  BY <1>2 DEF RemoveId, Unqueue, QueuedIsAlive, Objects
<1> QED
  BY <1>1, <1>2

LEMMA OwnershipStep == Ownership /\ [Next]_vars => Ownership'
<1> SUFFICES ASSUME Ownership, [Next]_vars PROVE Ownership'
  OBVIOUS
<1> USE DEF Ownership
<1>0. TypeOK'
  BY TypeStep
<1>a. 0 \in Ids /\ \A k \in 1 .. MaxId : k \in Ids /\ k # 0
  BY ServerCallbacksAssumption DEF ServerCallbacksAssumption, Ids
<1>b. nextId <= MaxId => nextId \in Ids /\ nextId # 0
  BY ServerCallbacksAssumption DEF ServerCallbacksAssumption, Ids, TypeOK
<1>c. Timers \cap Callbacks = {} /\ None \notin Objects
  BY ServerCallbacksAssumption DEF ServerCallbacksAssumption
<1>1. ASSUME NEW t \in Timers, NEW os \in BOOLEAN, AddTimer(t, os)
      PROVE  Ownership'
  BY <1>0, <1>b, <1>1, StoreKeepsOwnership DEF AddTimer
<1>2. ASSUME NEW t \in Timers, NEW os \in BOOLEAN, NEW id \in Ids,
             AddTimerFails(t, os, id)
      PROVE  Ownership'
  BY <1>0, <1>2, StoreKeepsOwnership DEF AddTimerFails
<1>3. ASSUME NEW id \in Ids, RemoveTimerEvent(id) PROVE Ownership'
  BY <1>0, <1>3, DropKeepsOwnership DEF RemoveTimerEvent
(* A callback object that was not alive is not queued, and no Timer.        *)
<1>4. ASSUME NEW o \in Callbacks, Construct(o) PROVE Ownership'
  <2>1. QueuedIsAlive'
    BY <1>4 DEF Construct, QueuedIsAlive, TypeOK
  <2>2. TimersAreOwned'
    BY <1>4, <1>c DEF Construct, TimersAreOwned, TypeOK
  <2> QED
    BY <1>0, <1>4, <2>1, <2>2 DEF Construct, QueueIsBounded
(* A callback object without an id is not queued, so the new id is its only *)
(* one.                                                                    *)
<1>5. ASSUME NEW o \in Callbacks, Start(o) PROVE Ownership'
  <2>1. \A k \in Ids : queue[k] # o
    BY <1>5, <1>c DEF Start, QueuedIsAlive, QueueIsBounded, Objects
  <2>2. QueuedIsAlive'
    BY <1>5, <1>b, <1>c, <2>1 DEF Start, QueuedIsAlive, TypeOK, Objects
  <2>3. TimersAreOwned'
    BY <1>5, <1>c DEF Start, TimersAreOwned, TypeOK
  <2> QED
    BY <1>0, <1>5, <1>a, <1>b, <2>2, <2>3 DEF Start, QueueIsBounded, TypeOK
<1>6. ASSUME NEW o \in Callbacks, Stop(o) PROVE Ownership'
  <2>1. /\ \A k \in Ids : queue'[k] # o
        /\ \A k \in Ids : queue'[k] \in {None, queue[k]}
    BY <1>6, RemovedIsNotQueued DEF Stop
  <2>2. QueuedIsAlive'
    BY <1>6, <2>1 DEF Stop, QueuedIsAlive, TypeOK
  <2>3. TimersAreOwned'
    BY <1>6, <1>c DEF Stop, TimersAreOwned, TypeOK
  <2> QED
    BY <1>0, <1>6, <1>a, <2>1, <2>2, <2>3 DEF Stop, QueueIsBounded
<1>7. ASSUME NEW o \in Callbacks, DestroyCallback(o) PROVE Ownership'
  <2>1. /\ \A k \in Ids : queue'[k] # o
        /\ \A k \in Ids : queue'[k] \in {None, queue[k]}
    BY <1>7, RemovedIsNotQueued DEF DestroyCallback
  <2>2. QueuedIsAlive'
    BY <1>7, <2>1 DEF DestroyCallback, QueuedIsAlive, TypeOK
  <2>3. TimersAreOwned'
    BY <1>7, <1>c DEF DestroyCallback, TimersAreOwned, TypeOK
  <2> QED
    BY <1>0, <1>7, <1>a, <2>1, <2>2, <2>3 DEF DestroyCallback, QueueIsBounded
<1>8. ASSUME NEW id \in Ids, Fire(id) PROVE Ownership'
  <2>1. \A k \in Ids : queue'[k] \in {None, queue[k]}
    BY <1>8 DEF Fire, TypeOK
  <2>2. QueuedIsAlive'
    BY <1>8, <2>1 DEF Fire, QueuedIsAlive
  <2>3. TimersAreOwned'
    BY <1>8 DEF Fire, TimersAreOwned
  <2> QED
    BY <1>0, <1>8, <1>a, <2>1, <2>2, <2>3 DEF Fire, QueueIsBounded
(* The Timer that was called once is dropped from where the map owns it.    *)
<1>9. CASE HandlerReturns
  <2>1. CASE running \in Timers /\ state[running] = "live" /\ oneShot[running]
    <3>1. /\ timerMap[idOf[running]] = running
          /\ idOf[running] \in Ids /\ running # None
      BY <1>9, <2>1 DEF HandlerReturns, TimersAreOwned, TypeOK, Objects
    <3> QED
      BY <1>0, <1>9, <2>1, <3>1, DropKeepsOwnership DEF HandlerReturns
  <2>2. CASE UNCHANGED <<timerMap, queue, state>>
    BY <1>0, <1>9, <2>2
       DEF HandlerReturns, QueuedIsAlive, TimersAreOwned, QueueIsBounded
  <2> QED
    BY <1>9, <2>1, <2>2 DEF HandlerReturns
<1>10. CASE Run
  BY <1>0, <1>10 DEF Run, QueuedIsAlive, TimersAreOwned, QueueIsBounded
<1>11. CASE Terminate
  <2>1. \A u \in Timers : state'[u] # "live"
    BY <1>11 DEF Terminate, TimersAreOwned, TypeOK, Objects
  <2> QED
    BY <1>0, <1>11, <1>a, <2>1
       DEF Terminate, QueuedIsAlive, TimersAreOwned, QueueIsBounded
<1>12. CASE UNCHANGED vars
  BY <1>0, <1>12 DEF vars, QueuedIsAlive, TimersAreOwned, QueueIsBounded
<1> QED
  BY <1>1, <1>2, <1>3, <1>4, <1>5, <1>6, <1>7, <1>8, <1>9, <1>10, <1>11,
     <1>12 DEF Next, CallbackStep

LEMMA OwnershipInit == Init => Ownership
<1> SUFFICES ASSUME Init PROVE Ownership
  OBVIOUS
<1>1. 0 \in Ids /\ 1 \in 1 .. MaxId + 1
  BY ServerCallbacksAssumption DEF ServerCallbacksAssumption, Ids
<1>2. TypeOK
  BY <1>1 DEF Init, TypeOK
<1>3. QueuedIsAlive /\ TimersAreOwned /\ QueueIsBounded
  BY <1>1 DEF Init, QueuedIsAlive, TimersAreOwned, QueueIsBounded, Objects
<1> QED
  BY <1>2, <1>3 DEF Ownership

(* Every pointer in the queue leads to a living object that knows the id    *)
(* it is queued under: the UA_Server never calls into a destroyed one       *)
(* (~Timer, ~ServerTimedCallback, ~ServerRepeatedCallback).                 *)
THEOREM NoDanglingCallback == Spec => []QueuedIsAlive
<1>1. Ownership => QueuedIsAlive
  BY DEF Ownership
<1> QED
  BY <1>1, OwnershipInit, OwnershipStep, PTL DEF Spec

(* A Timer lives exactly as long as _timerMap owns it, under its own id     *)
(* (Server::_timerMap).                                                     *)
THEOREM LifetimeIsOwnership == Spec => []TimersAreOwned
<1>1. Ownership => TimersAreOwned
  BY DEF Ownership
<1> QED
  BY <1>1, OwnershipInit, OwnershipStep, PTL DEF Spec

-----------------------------------------------------------------------------
(* What the removal of an id relies on: the ids of callback objects, and of *)
(* Timers no refusal is to blame for, are handed out; nothing ended before  *)
(* it was; and the id of a Timer that is called for the last time has      *)
(* ended.                                                                  *)
IdsAreHandedOut ==
    /\ \A o \in Callbacks : idOf[o] < nextId
    /\ \A k \in Ids \ refused :
          /\ timerMap[k] # None => k < nextId
          /\ k \in ended => k < nextId
    /\ running \in Timers =>
          /\ state[running] # "new"
          /\ oneShot[running] => idOf[running] \in ended

Acceptance == Ownership /\ IdsAreHandedOut /\ AcceptedStaysQueued

(* A step that hands out no id, and takes an id out of the queue only when   *)
(* it has ended by then.                                                   *)
LEMMA EndingKeepsAcceptance ==
    ASSUME Acceptance, Ownership', nextId' = nextId, server' = server,
           \A k \in Ids \ refused' :
               \/ queue'[k] = queue[k] /\ (k \in ended' <=> k \in ended)
               \/ queue'[k] = None /\ k \in ended',
           refused \subseteq refused',
           IdsAreHandedOut'
    PROVE  Acceptance'
<1>1. 1 .. nextId - 1 \subseteq Ids
  BY ServerCallbacksAssumption
     DEF ServerCallbacksAssumption, Acceptance, Ownership, TypeOK, Ids
<1>2. AcceptedStaysQueued'
  BY <1>1 DEF Acceptance, AcceptedStaysQueued
<1> QED
  BY <1>2 DEF Acceptance

(* The next id goes to an object.                                          *)
LEMMA HandingOutKeepsAcceptance ==
    ASSUME Acceptance, Ownership', nextId <= MaxId, nextId' = nextId + 1,
           NEW o \in Objects, server' = server,
           UNCHANGED <<ended, refused>>,
           \A k \in Ids \ refused :
               queue'[k] = IF k = nextId THEN o ELSE queue[k],
           IdsAreHandedOut'
    PROVE  Acceptance'
<1>1. /\ nextId \in Nat /\ nextId \in Ids /\ nextId' - 1 = nextId
      /\ \A k \in 1 .. nextId : k \in Ids /\ (k = nextId \/ k \in 1 .. nextId - 1)
  BY ServerCallbacksAssumption
     DEF ServerCallbacksAssumption, Acceptance, Ownership, TypeOK, Ids
<1>2. nextId \notin refused => nextId \notin ended
  BY <1>1 DEF Acceptance, IdsAreHandedOut
<1>3. o # None
  BY ServerCallbacksAssumption DEF ServerCallbacksAssumption
<1>4. AcceptedStaysQueued'
  <2> SUFFICES ASSUME server # "gone", NEW k \in 1 .. nextId, k \notin refused
               PROVE  queue'[k] # None <=> k \notin ended
    BY <1>1 DEF AcceptedStaysQueued
  <2>1. CASE k = nextId
    BY <1>1, <1>2, <1>3, <2>1
  <2>2. CASE k # nextId
    <3>1. k \in Ids /\ k \in 1 .. nextId - 1
      BY <1>1, <2>2
    <3> QED
      BY <2>2, <3>1 DEF Acceptance, AcceptedStaysQueued
  <2> QED
    BY <2>1, <2>2
<1> QED
  BY <1>4 DEF Acceptance

LEMMA AcceptanceStep ==
    ASSUME Acceptance, [Next]_vars
    PROVE  Acceptance'
<1>0. Ownership /\ Ownership' /\ TypeOK
  BY OwnershipStep DEF Acceptance, Ownership
<1>a. /\ 0 \in Ids /\ MaxId \in Nat /\ \A k \in Ids : k \in Int
      /\ Timers \cap Callbacks = {} /\ None \notin Objects
      /\ Timers \subseteq Objects /\ Callbacks \subseteq Objects
      /\ None \notin Timers
  BY ServerCallbacksAssumption DEF ServerCallbacksAssumption, Ids, Objects
<1>b. nextId \in Int /\ (nextId <= MaxId => nextId \in Ids)
  BY <1>0, <1>a DEF TypeOK, Ids
<1>c. /\ \A o \in Objects : idOf[o] \in Ids
      /\ \A k \in Ids : timerMap[k] # None =>
             timerMap[k] \in Timers /\ idOf[timerMap[k]] = k
  BY <1>0 DEF TypeOK, Ownership, TimersAreOwned
(* Destroying the Timer under id takes id out of the queue and nothing else. *)
<1>d. ASSUME NEW id \in Ids, NEW q, NEW k \in Ids
      PROVE  Unqueue({idOf[timerMap[i]] : i \in OwnedIds({id})}, q)[k]
                 = IF timerMap[id] # None /\ k = id THEN None ELSE q[k]
  <2>1. CASE timerMap[id] = None
    BY <2>1 DEF Unqueue, OwnedIds
  <2>2. CASE timerMap[id] # None
    <3>1. {idOf[timerMap[i]] : i \in OwnedIds({id})} = {id}
      BY <1>c, <2>2 DEF OwnedIds
    <3> QED
      BY <2>2, <3>1 DEF Unqueue
  <2> QED
    BY <2>1, <2>2
<1>1. ASSUME NEW t \in Timers, NEW os \in BOOLEAN, AddTimer(t, os)
      PROVE  Acceptance'
  <2>1. /\ nextId \in Ids /\ nextId <= MaxId /\ nextId' = nextId + 1
        /\ UNCHANGED <<server, running, ended, refused>>
        /\ state[t] = "new"
    BY <1>b, <1>1 DEF AddTimer, Store
  <2>2. nextId \notin refused => timerMap[nextId] = None
    BY <1>b, <2>1 DEF Acceptance, IdsAreHandedOut
  <2>3. \A k \in Ids \ refused :
            queue'[k] = IF k = nextId THEN t ELSE queue[k]
    <3> DEFINE q == [queue EXCEPT ![nextId] = t]
    <3>1. /\ queue' = Unqueue({idOf[timerMap[i]] : i \in OwnedIds({nextId})}, q)
          /\ \A k \in Ids : q[k] = IF k = nextId THEN t ELSE queue[k]
      BY <1>0, <1>1 DEF AddTimer, Store, TypeOK
    <3> HIDE DEF q
    <3>2. \A k \in Ids : queue'[k] = IF timerMap[nextId] # None /\ k = nextId
                                    THEN None ELSE q[k]
      BY <1>d, <2>1, <3>1
    <3> QED
      BY <2>2, <3>1, <3>2
  <2>4. IdsAreHandedOut'
    <3>1. /\ \A k \in Ids : timerMap'[k] # None =>
                 k = nextId \/ timerMap[k] # None
          /\ \A o \in Objects \ {t} :
                 /\ idOf'[o] = idOf[o]
                 /\ state[o] # "new" => state'[o] # "new"
          /\ \A u \in Timers \ {t} : oneShot'[u] = oneShot[u]
      BY <1>0, <1>1 DEF AddTimer, Store, TypeOK
    <3>2. \A k \in Ids : k < nextId => k < nextId'
      BY <1>a, <1>b, <2>1
    <3>3. \A o \in Callbacks : idOf'[o] < nextId'
      BY <1>a, <1>c, <3>1, <3>2 DEF Acceptance, IdsAreHandedOut
    <3>4. \A k \in Ids \ refused :
              /\ timerMap'[k] # None => k < nextId'
              /\ k \in ended => k < nextId'
      BY <1>b, <2>1, <3>1, <3>2 DEF Acceptance, IdsAreHandedOut
    <3>5. running \in Timers =>
              /\ running # t /\ state'[running] # "new"
              /\ oneShot'[running] => idOf'[running] \in ended
      BY <1>a, <2>1, <3>1 DEF Acceptance, IdsAreHandedOut
    <3> QED
      BY <2>1, <3>3, <3>4, <3>5 DEF IdsAreHandedOut
  <2> QED
    BY <1>0, <1>a, <2>1, <2>3, <2>4, HandingOutKeepsAcceptance
<1>2. ASSUME NEW t \in Timers, NEW os \in BOOLEAN, NEW id \in Ids,
             AddTimerFails(t, os, id)
      PROVE  Acceptance'
  <2>1. /\ UNCHANGED <<server, nextId, running, ended>>
        /\ refused' = refused \cup {id} /\ state[t] = "new"
    BY <1>2 DEF AddTimerFails, Store
  <2>2. \A k \in Ids \ refused' : queue'[k] = queue[k]
    <3>1. queue' = Unqueue({idOf[timerMap[i]] : i \in OwnedIds({id})}, queue)
      BY <1>2 DEF AddTimerFails, Store
    <3>2. \A k \in Ids : queue'[k] = IF timerMap[id] # None /\ k = id
                                    THEN None ELSE queue[k]
      BY <1>d, <3>1
    <3> QED
      BY <2>1, <3>2
  <2>3. IdsAreHandedOut'
    <3>1. /\ \A k \in Ids \ refused' : timerMap'[k] = timerMap[k]
          /\ \A o \in Objects \ {t} :
                 /\ idOf'[o] = idOf[o]
                 /\ state[o] # "new" => state'[o] # "new"
          /\ \A u \in Timers \ {t} : oneShot'[u] = oneShot[u]
      BY <1>0, <1>2, <2>1 DEF AddTimerFails, Store, TypeOK
    <3>2. \A o \in Callbacks : idOf'[o] < nextId'
      BY <1>a, <2>1, <3>1 DEF Acceptance, IdsAreHandedOut
    <3>3. \A k \in Ids \ refused' :
              /\ timerMap'[k] # None => k < nextId'
              /\ k \in ended => k < nextId'
      BY <2>1, <3>1 DEF Acceptance, IdsAreHandedOut
    <3>4. running \in Timers =>
              /\ running # t /\ state'[running] # "new"
              /\ oneShot'[running] => idOf'[running] \in ended
      BY <1>a, <2>1, <3>1 DEF Acceptance, IdsAreHandedOut
    <3> QED
      BY <2>1, <3>2, <3>3, <3>4 DEF IdsAreHandedOut
  <2> QED
    BY <1>0, <2>1, <2>2, <2>3, EndingKeepsAcceptance
(* The Timer under id goes, id has ended before or ends now.                *)
<1>3. ASSUME NEW id \in Ids, timerMap[id] # None,
             Drop({id}, queue), timerMap' = [timerMap EXCEPT ![id] = None],
             ended' = ended \cup {id}, running' \in {running, None},
             UNCHANGED <<server, nextId, idOf, oneShot, refused>>
      PROVE  Acceptance'
  <2>1. \A k \in Ids : queue'[k] = IF k = id THEN None ELSE queue[k]
    <3>1. queue' = Unqueue({idOf[timerMap[i]] : i \in OwnedIds({id})}, queue)
      BY <1>3 DEF Drop
    <3>2. \A k \in Ids : queue'[k] = IF timerMap[id] # None /\ k = id
                                    THEN None ELSE queue[k]
      BY <1>d, <3>1
    <3> QED
      BY <1>3, <3>2
  <2>2. id \notin refused => id < nextId
    BY <1>3 DEF Acceptance, IdsAreHandedOut
  <2>3. IdsAreHandedOut'
    <3>1. /\ \A k \in Ids : timerMap'[k] # None => timerMap[k] # None
          /\ \A o \in Objects : state[o] # "new" => state'[o] # "new"
      BY <1>0, <1>3 DEF Drop, TypeOK
    <3> QED
      BY <1>a, <1>3, <2>2, <3>1 DEF Acceptance, IdsAreHandedOut
  <2> QED
    BY <1>0, <1>3, <2>1, <2>3, EndingKeepsAcceptance
<1>4. ASSUME NEW o \in Callbacks, Construct(o) PROVE Acceptance'
  <2>1. \A p \in Objects : state[p] # "new" => state'[p] # "new"
    BY <1>0, <1>4 DEF Construct, TypeOK
  <2>2. IdsAreHandedOut'
    BY <1>a, <1>4, <2>1 DEF Construct, Acceptance, IdsAreHandedOut
  <2> QED
    BY <1>0, <1>4, <2>2 DEF Construct, Acceptance, AcceptedStaysQueued
<1>5. ASSUME NEW o \in Callbacks, Start(o) PROVE Acceptance'
  <2>1. /\ nextId \in Ids /\ nextId <= MaxId /\ nextId' = nextId + 1
        /\ UNCHANGED <<server, running, ended, refused, timerMap, state, oneShot>>
    BY <1>b, <1>5 DEF Start
  <2>2. \A k \in Ids : queue'[k] = IF k = nextId THEN o ELSE queue[k]
    BY <1>0, <1>5, <2>1 DEF Start, TypeOK
  <2>3. \A p \in Objects : idOf'[p] = IF p = o THEN nextId ELSE idOf[p]
    BY <1>0, <1>5 DEF Start, TypeOK
  <2>4. \A k \in Ids : k < nextId => k < nextId'
    BY <1>a, <1>b, <2>1
  <2>5. \A p \in Callbacks : idOf'[p] < nextId'
    BY <1>a, <1>b, <1>c, <2>1, <2>3, <2>4 DEF Acceptance, IdsAreHandedOut
  <2>6. \A k \in Ids \ refused :
            /\ timerMap[k] # None => k < nextId'
            /\ k \in ended => k < nextId'
    BY <2>4 DEF Acceptance, IdsAreHandedOut
  <2>7. IdsAreHandedOut'
    BY <1>a, <2>1, <2>3, <2>5, <2>6 DEF Acceptance, IdsAreHandedOut
  <2> QED
    BY <1>0, <1>a, <2>1, <2>2, <2>7, HandingOutKeepsAcceptance
(* Nothing but the callback object's own id is removed, and only that ends. *)
<1>6. ASSUME NEW o \in Callbacks, RemoveId(o),
             ended' = ended \cup {idOf[o]},
             \A p \in Callbacks : idOf'[p] \in {0, idOf[p]},
             \A t \in Timers : idOf'[t] = idOf[t],
             \A p \in Objects : state[p] # "new" => state'[p] # "new",
             UNCHANGED <<server, nextId, timerMap, oneShot, running, refused>>
      PROVE  Acceptance'
  <2>1. idOf[o] \in Ids /\ idOf[o] < nextId
    BY <1>a, <1>c DEF Acceptance, IdsAreHandedOut
  <2>2. 0 < nextId
    BY <1>0 DEF TypeOK
  <2>3. \A k \in Ids : queue'[k] = IF k = idOf[o] THEN None ELSE queue[k]
    <3>1. CASE server = "gone"
      BY <1>0, <1>6, <3>1 DEF RemoveId, Ownership, QueueIsBounded
    <3>2. CASE server # "gone"
      BY <1>6, <3>2 DEF RemoveId, Unqueue
    <3> QED
      BY <3>1, <3>2
  <2>4. \A p \in Callbacks : idOf'[p] < nextId'
    BY <1>6, <2>2 DEF Acceptance, IdsAreHandedOut
  <2>5. IdsAreHandedOut'
    BY <1>a, <1>6, <2>1, <2>4 DEF Acceptance, IdsAreHandedOut
  <2> QED
    BY <1>0, <1>6, <2>3, <2>5, EndingKeepsAcceptance
<1>7. ASSUME NEW o \in Callbacks, Stop(o) \/ DestroyCallback(o)
      PROVE  Acceptance'
  <2>1. /\ \A p \in Callbacks : idOf'[p] \in {0, idOf[p]}
        /\ \A t \in Timers : idOf'[t] = idOf[t]
    BY <1>0, <1>a, <1>7 DEF Stop, DestroyCallback, TypeOK
  <2>2. \A p \in Objects : state[p] # "new" => state'[p] # "new"
    BY <1>0, <1>7 DEF Stop, DestroyCallback, TypeOK
  <2> QED
    BY <1>6, <1>7, <2>1, <2>2 DEF Stop, DestroyCallback
(* What leaves the queue by being called was called for the last time.     *)
<1>8. ASSUME NEW id \in Ids, Fire(id) PROVE Acceptance'
  <2>1. PICK o \in Objects : /\ o = queue[id] /\ running' = o
                             /\ state[o] = "live" /\ idOf[o] = id
    BY <1>0, <1>8 DEF Fire, TypeOK, Ownership, QueuedIsAlive
  <2>2. id \notin refused /\ server # "gone" => id < nextId
    <3>1. o \in Timers => timerMap[id] # None
      BY <1>0, <1>a, <2>1 DEF Ownership, QueuedIsAlive
    <3>2. o \in Timers \/ o \in Callbacks
      BY DEF Objects
    <3> QED
      BY <2>1, <3>1, <3>2 DEF Acceptance, IdsAreHandedOut
  <2>3. server = "running" /\ UNCHANGED <<server, nextId, timerMap, state, idOf,
                                          oneShot, refused>>
    BY <1>8 DEF Fire
  <2>4. CASE CalledOnce(o)
    <3>1. /\ ended' = ended \cup {id}
          /\ \A k \in Ids : queue'[k] = IF k = id THEN None ELSE queue[k]
      BY <1>0, <1>8, <2>1, <2>4 DEF Fire, TypeOK
    <3>2. IdsAreHandedOut'
      BY <1>a, <2>1, <2>2, <2>3, <3>1 DEF Acceptance, IdsAreHandedOut
    <3> QED
      BY <1>0, <2>3, <3>1, <3>2, EndingKeepsAcceptance
  <2>5. CASE ~CalledOnce(o)
    <3>1. UNCHANGED <<queue, ended>>
      BY <1>8, <2>1, <2>5 DEF Fire
    <3>2. IdsAreHandedOut'
      BY <1>a, <2>1, <2>3, <2>5, <3>1 DEF Acceptance, IdsAreHandedOut, CalledOnce
    <3> QED
      BY <1>0, <2>3, <3>1, <3>2 DEF Acceptance, AcceptedStaysQueued
  <2> QED
    BY <2>4, <2>5
<1>9. CASE HandlerReturns
  <2>1. /\ UNCHANGED <<server, nextId, idOf, oneShot, refused, ended>>
        /\ running' = None
    BY <1>9 DEF HandlerReturns
  <2>2. CASE running \in Timers /\ state[running] = "live" /\ oneShot[running]
    <3>1. /\ idOf[running] \in Ids /\ timerMap[idOf[running]] # None
          /\ ended = ended \cup {idOf[running]}
      BY <1>0, <1>a, <1>c, <2>2
         DEF Acceptance, IdsAreHandedOut, Ownership, TimersAreOwned
    <3> QED
      BY <1>3, <1>9, <2>1, <2>2, <3>1 DEF HandlerReturns
  <2>3. CASE UNCHANGED <<timerMap, queue, state>>
    <3>1. IdsAreHandedOut'
      BY <1>a, <2>1, <2>3 DEF Acceptance, IdsAreHandedOut
    <3> QED
      BY <1>0, <2>1, <2>3, <3>1 DEF Acceptance, AcceptedStaysQueued
  <2> QED
    BY <1>9, <2>2, <2>3 DEF HandlerReturns
<1>10. CASE Run \/ UNCHANGED vars
  <2>1. /\ server' # "gone" => server # "gone"
        /\ UNCHANGED <<nextId, queue, timerMap, state, idOf, oneShot, running,
                       refused, ended>>
    BY <1>10 DEF Run, vars
  <2> QED
    BY <1>0, <2>1 DEF Acceptance, IdsAreHandedOut, AcceptedStaysQueued
<1>11. CASE Terminate
  <2>1. IdsAreHandedOut'
    BY <1>a, <1>11 DEF Terminate, Acceptance, IdsAreHandedOut
  <2> QED
    BY <1>0, <1>11, <2>1 DEF Terminate, Acceptance, AcceptedStaysQueued
<1>12. ASSUME NEW id \in Ids, RemoveTimerEvent(id) PROVE Acceptance'
  BY <1>3, <1>12 DEF RemoveTimerEvent
<1> QED
  BY <1>1, <1>2, <1>4, <1>5, <1>7, <1>8, <1>9, <1>10, <1>11, <1>12
     DEF Next, CallbackStep

(* An id that was handed out, and that no refused addition used, is in the  *)
(* queue until it was called for the last time or its owner removed,        *)
(* stopped or destroyed what it stands for, and no longer (addTimedEvent,   *)
(* removeTimerEvent, ServerTimedCallback::stop, ~ServerRepeatedCallback).   *)
THEOREM AcceptedUntilEnded == Spec => []AcceptedStaysQueued
<1>1. Init => IdsAreHandedOut /\ AcceptedStaysQueued
  BY ServerCallbacksAssumption
     DEF ServerCallbacksAssumption, Init, IdsAreHandedOut, AcceptedStaysQueued,
         Objects
<1>2. Init => Acceptance
  BY <1>1, OwnershipInit DEF Acceptance
<1>3. Acceptance /\ [Next]_vars => Acceptance'
  BY AcceptanceStep
<1>4. Acceptance => AcceptedStaysQueued
  BY DEF Acceptance
<1> QED
  BY <1>2, <1>3, <1>4, PTL DEF Spec

-----------------------------------------------------------------------------
(* The Timers and callback objects as a Scheduler.                         *)

(* Nothing happens to the object o that would schedule it.                 *)
NotScheduled(o) ==
    /\ state[o] = "dead" => state'[o] = "dead"
    /\ \A k \in Ids : queue'[k] = o => queue[k] = o
    /\ (\E k \in Ids : queue'[k] = o) => (CalledOnce(o)' <=> CalledOnce(o))

LEMMA PhasesAreTyped ==
    /\ SchedulePhase \in [Objects -> Abstract!Phases]
    /\ \A o \in Objects :
          /\ SchedulePhase[o] \in Abstract!Scheduled <=>
                 state[o] # "dead" /\ \E k \in Ids : queue[k] = o
          /\ SchedulePhase[o] = "idle" <=>
                 state[o] # "dead" /\ \A k \in Ids : queue[k] # o
BY DEF SchedulePhase, Abstract!Phases, Abstract!Scheduled

LEMMA NotScheduledLapses ==
    ASSUME NEW o \in Objects, NotScheduled(o)
    PROVE  SchedulePhase'[o] \in Abstract!Lapsing(SchedulePhase[o])
<1> USE DEF NotScheduled, Abstract!Lapsing, Abstract!Scheduled
<1>1. CASE state'[o] = "dead"
  BY <1>1 DEF SchedulePhase
<1>2. CASE state'[o] # "dead" /\ \A k \in Ids : queue'[k] # o
  <2>1. SchedulePhase'[o] = "idle" /\ state[o] # "dead"
    BY <1>2 DEF SchedulePhase
  <2>2. SchedulePhase[o] \in {"idle", "once", "repeat"}
    BY <2>1 DEF SchedulePhase
  <2> QED
    BY <2>1, <2>2
<1>3. CASE state'[o] # "dead" /\ \E k \in Ids : queue'[k] = o
  BY <1>3 DEF SchedulePhase
<1> QED
  BY <1>1, <1>2, <1>3

(* A step that schedules nothing and after which the same handler runs, or  *)
(* none, is a Lapse.                                                       *)
LEMMA LapseStep ==
    ASSUME \A o \in Objects : NotScheduled(o), running' \in {running, None}
    PROVE  Abstract!Lapse
<1>1. SchedulePhase' \in [Objects -> Abstract!Phases]
  BY DEF SchedulePhase, Abstract!Phases, Abstract!Scheduled
<1>2. Abstract!OthersLapse({})
  BY NotScheduledLapses DEF Abstract!OthersLapse
<1> QED
  BY <1>1, <1>2 DEF Abstract!Lapse

(* A step that puts an idle object into the queue, and schedules no other.  *)
LEMMA ScheduleStep ==
    ASSUME NEW o \in Objects, state[o] # "dead", state'[o] # "dead",
           \A k \in Ids : queue[k] # o, \E k \in Ids : queue'[k] = o,
           \A p \in Objects \ {o} : NotScheduled(p), running' = running
    PROVE  Abstract!Schedule(o)
<1>1. /\ SchedulePhase' \in [Objects -> Abstract!Phases]
      /\ SchedulePhase'[o] \in Abstract!Scheduled
  BY DEF SchedulePhase, Abstract!Phases, Abstract!Scheduled
<1>2. SchedulePhase[o] = "idle"
  BY PhasesAreTyped
<1>3. Abstract!OthersLapse({o})
  BY NotScheduledLapses DEF Abstract!OthersLapse
<1> QED
  BY <1>1, <1>2, <1>3 DEF Abstract!Schedule

LEMMA SchedulerStep ==
    ASSUME Ownership, [Next]_vars
    PROVE  [Abstract!Next]_<<SchedulePhase, running>>
<1>a. /\ Timers \cap Callbacks = {} /\ None \notin Objects
      /\ Timers \subseteq Objects /\ Callbacks \subseteq Objects
      /\ Timed \subseteq Callbacks /\ MaxId \in Nat /\ 0 \in Ids
  BY ServerCallbacksAssumption
     DEF ServerCallbacksAssumption, Objects, Callbacks, Ids
<1>b. TypeOK
  BY DEF Ownership
<1>1. ASSUME NEW t \in Timers, NEW os \in BOOLEAN, NEW id \in Ids,
             NEW q, Store(t, id, os, q), state[t] = "new",
             \A k \in Ids : q[k] # t => q[k] = queue[k]
      PROVE  /\ \A o \in Objects \ {t} : NotScheduled(o)
             /\ state'[t] = "live" /\ running' = running
             /\ \A k \in Ids : queue[k] # t
             /\ \A k \in Ids : queue'[k] = t => q[k] = t
  <2>1. \A k \in Ids : queue'[k] \in {None, q[k]}
    BY <1>1 DEF Store, Unqueue
  <2>2. /\ \A o \in Objects \ {t} : state'[o] \in {state[o], "dead"}
        /\ \A o \in Objects \ {t} : CalledOnce(o)' = CalledOnce(o)
        /\ state'[t] = "live" /\ running' = running
    BY <1>a, <1>b, <1>1 DEF Store, CalledOnce, TypeOK
  <2>3. \A k \in Ids : queue[k] # t
    BY <1>a, <1>1 DEF Ownership, QueuedIsAlive
  <2>4. ASSUME NEW o \in Objects \ {t} PROVE NotScheduled(o)
    BY <1>a, <1>1, <2>1, <2>2 DEF NotScheduled
  <2> QED
    BY <1>a, <2>1, <2>2, <2>3, <2>4
<1>2. ASSUME NEW t \in Timers, NEW os \in BOOLEAN, AddTimer(t, os)
      PROVE  Abstract!Next
  <2>1. nextId \in Ids /\ state[t] = "new"
    BY <1>a, <1>b, <1>2 DEF AddTimer, TypeOK, Ids
  <2> DEFINE q == [queue EXCEPT ![nextId] = t]
  <2>2. Store(t, nextId, os, q) /\ \A k \in Ids : q[k] # t => q[k] = queue[k]
    BY <1>b, <1>2, <2>1 DEF AddTimer, TypeOK
  <2> HIDE DEF q
  <2>3. /\ \A o \in Objects \ {t} : NotScheduled(o)
        /\ state'[t] = "live" /\ running' = running
        /\ \A k \in Ids : queue[k] # t
    BY <1>1, <2>1, <2>2
  <2>4. CASE \E k \in Ids : queue'[k] = t
    BY <1>a, <2>1, <2>3, <2>4, ScheduleStep DEF Abstract!Next
  <2>5. CASE \A k \in Ids : queue'[k] # t
    <3>1. \A o \in Objects : NotScheduled(o)
      BY <2>1, <2>3, <2>5 DEF NotScheduled
    <3> QED
      BY <2>3, <3>1, LapseStep DEF Abstract!Next
  <2> QED
    BY <2>4, <2>5
<1>3. ASSUME NEW t \in Timers, NEW os \in BOOLEAN, NEW id \in Ids,
             AddTimerFails(t, os, id)
      PROVE  Abstract!Next
  <2>1. /\ \A o \in Objects \ {t} : NotScheduled(o)
        /\ running' = running
        /\ \A k \in Ids : queue'[k] # t
    BY <1>1, <1>3 DEF AddTimerFails
  <2>2. \A o \in Objects : NotScheduled(o)
    BY <1>3, <2>1 DEF NotScheduled, AddTimerFails
  <2> QED
    BY <2>1, <2>2, LapseStep DEF Abstract!Next
(* The steps that only take something out of the queue.                    *)
<1>4. ASSUME \A k \in Ids : queue'[k] \in {None, queue[k]},
             \A o \in Objects : state[o] = "dead" => state'[o] = "dead",
             oneShot' = oneShot, running' \in {running, None}
      PROVE  Abstract!Next
  <2>1. \A o \in Objects : NotScheduled(o)
    BY <1>a, <1>4 DEF NotScheduled, CalledOnce
  <2> QED
    BY <1>4, <2>1, LapseStep DEF Abstract!Next
<1>5. ASSUME NEW id \in Ids, RemoveTimerEvent(id) PROVE Abstract!Next
  BY <1>4, <1>5 DEF RemoveTimerEvent, Drop, Unqueue
<1>6. ASSUME NEW o \in Callbacks, Construct(o) PROVE Abstract!Next
  BY <1>4, <1>6, <1>b DEF Construct, TypeOK
<1>7. ASSUME NEW o \in Callbacks, Start(o) PROVE Abstract!Next
  <2>1. nextId \in Ids /\ o \in Objects
    BY <1>a, <1>b, <1>7 DEF Start, TypeOK, Ids
  <2>2. \A k \in Ids : queue[k] # o
    BY <1>a, <1>7 DEF Start, Ownership, QueuedIsAlive, QueueIsBounded
  <2>3. /\ queue'[nextId] = o /\ \A k \in Ids \ {nextId} : queue'[k] = queue[k]
        /\ UNCHANGED <<state, oneShot, running>> /\ state[o] = "live"
    BY <1>b, <1>7, <2>1 DEF Start, TypeOK
  <2>4. \A p \in Objects \ {o} : NotScheduled(p)
    BY <2>1, <2>3 DEF NotScheduled, CalledOnce
  <2> QED
    BY <2>1, <2>2, <2>3, <2>4, ScheduleStep DEF Abstract!Next
<1>8. ASSUME NEW o \in Callbacks, Stop(o) \/ DestroyCallback(o)
      PROVE  Abstract!Next
  <2>1. \A k \in Ids : queue'[k] \in {None, queue[k]}
    BY <1>8 DEF Stop, DestroyCallback, RemoveId, Unqueue
  <2>2. \A p \in Objects : state[p] = "dead" => state'[p] = "dead"
    BY <1>b, <1>8 DEF Stop, DestroyCallback, TypeOK
  <2> QED
    BY <1>4, <1>8, <2>1, <2>2 DEF Stop, DestroyCallback
(* The object called is queued under its id only, so a last call ends its   *)
(* scheduling.                                                             *)
<1>9. ASSUME NEW id \in Ids, Fire(id) PROVE Abstract!Next
  <2>1. PICK o \in Objects : o = queue[id]
    BY <1>b, <1>9 DEF Fire, TypeOK
  <2>2. /\ state[o] = "live" /\ idOf[o] = id /\ running = None /\ running' = o
        /\ state' = state /\ oneShot' = oneShot
        /\ \A k \in Ids : queue[k] = o => k = id
    BY <1>a, <1>9, <2>1 DEF Fire, Ownership, QueuedIsAlive
  <2>3. SchedulePhase[o] = IF CalledOnce(o) THEN "once" ELSE "repeat"
    BY <2>1, <2>2 DEF SchedulePhase
  <2>4. SchedulePhase' = [SchedulePhase EXCEPT
                            ![o] = IF @ = "once" THEN "idle" ELSE @]
    <3>1. CASE CalledOnce(o)
      <4>1. \A k \in Ids : queue'[k] = IF k = id THEN None ELSE queue[k]
        BY <1>b, <1>9, <2>1, <3>1 DEF Fire, TypeOK
      <4>2. \A p \in Objects \ {o} :
               (\A k \in Ids : queue'[k] # p) <=> (\A k \in Ids : queue[k] # p)
        BY <1>a, <2>1, <4>1
      <4>3. \A k \in Ids : queue'[k] # o
        BY <1>a, <2>2, <4>1
      <4>4. \A p \in Objects : CalledOnce(p)' = CalledOnce(p)
        BY <2>2 DEF CalledOnce
      <4>5. \A p \in Objects \ {o} : SchedulePhase'[p] = SchedulePhase[p]
        BY <2>2, <4>2, <4>4 DEF SchedulePhase
      <4>6. SchedulePhase'[o] = "idle"
        BY <2>2, <4>3 DEF SchedulePhase
      <4>7. SchedulePhase[o] = "once"
        BY <2>3, <3>1
      <4>8. /\ SchedulePhase' = [p \in Objects |-> SchedulePhase'[p]]
            /\ SchedulePhase = [p \in Objects |-> SchedulePhase[p]]
        BY DEF SchedulePhase
      <4> HIDE DEF SchedulePhase
      <4> QED
        BY <4>5, <4>6, <4>7, <4>8
    <3>2. CASE ~CalledOnce(o)
      <4>1. queue' = queue
        BY <1>9, <2>1, <3>2 DEF Fire
      <4>2. SchedulePhase' = SchedulePhase
        BY <2>2, <4>1 DEF SchedulePhase, CalledOnce
      <4>3. SchedulePhase[o] = "repeat"
        BY <2>3, <3>2
      <4>4. SchedulePhase = [p \in Objects |-> SchedulePhase[p]]
        BY DEF SchedulePhase
      <4> QED
        BY <4>2, <4>3, <4>4
    <3> QED
      BY <3>1, <3>2
  <2>5. SchedulePhase[o] \in Abstract!Scheduled
    BY <2>3 DEF Abstract!Scheduled
  <2> QED
    BY <2>2, <2>4, <2>5 DEF Abstract!Call, Abstract!Next
<1>10. CASE HandlerReturns
  BY <1>4, <1>10 DEF HandlerReturns, Drop, Unqueue
<1>11. CASE Run
  BY <1>4, <1>11 DEF Run
<1>12. CASE Terminate
  BY <1>4, <1>12 DEF Terminate
<1>13. CASE UNCHANGED vars
  BY <1>13 DEF vars, SchedulePhase, CalledOnce
<1> QED
  BY <1>2, <1>3, <1>5, <1>6, <1>7, <1>8, <1>9, <1>10, <1>11, <1>12, <1>13
     DEF Next, CallbackStep

(* Timers and callback objects are a Scheduler, however many there are: a   *)
(* handler runs only while its object is scheduled and alive, at most once  *)
(* for each start of a timed callback, and never inside another handler     *)
(* (timerCallback, start, stop).                                           *)
THEOREM ServerCallbacksAreScheduled == Spec => ImplementsScheduler
<1>1. Init => Abstract!Init
  BY ServerCallbacksAssumption
     DEF ServerCallbacksAssumption, Init, Abstract!Init, SchedulePhase
<1>2. Ownership /\ [Next]_vars => [Abstract!Next]_<<SchedulePhase, running>>
  BY SchedulerStep
<1> QED
  BY <1>1, <1>2, OwnershipInit, OwnershipStep, PTL
     DEF Spec, ImplementsScheduler, Abstract!Spec, Abstract!vars

-----------------------------------------------------------------------------
(* The Server with its conditions.                                         *)

(* Only the null id ever leads to a Condition.                             *)
NullIdHoldsAll == \A c \in Conds : dictionary[c] = NullId

Mirror == ConditionsTypeOK /\ NullIdHoldsAll /\ ConditionsAreMirrored

LEMMA HeldIsLive ==
    ASSUME Mirror
    PROVE  /\ Held(Keys) = IF dictionary[NullId] = NullId THEN {}
                           ELSE {dictionary[NullId]}
           /\ \A c \in Conds : life[c] = "live" <=> c = dictionary[NullId]
           /\ \A c \in Conds : Held({c}) = {}
           /\ Held({NullId}) = Held(Keys)
<1> USE ConditionsAssumption
    DEF ConditionsAssumption, Mirror, Keys, Held, NullIdHoldsAll
<1>1. dictionary[NullId] \in Conds \cup {NullId}
  BY DEF ConditionsTypeOK
<1>2. Held(Keys) = IF dictionary[NullId] = NullId THEN {} ELSE {dictionary[NullId]}
  <2>1. \A x : x \in Held(Keys) <=> x = dictionary[NullId] /\ x # NullId
    OBVIOUS
  <2> QED
    BY <2>1
<1> QED
  BY <1>1, <1>2 DEF ConditionsAreMirrored

LEMMA MirrorStep ==
    ASSUME Mirror, [ServerNext]_<<vars, cvars>>
    PROVE  Mirror'
<1> USE ConditionsAssumption
    DEF ConditionsAssumption, Mirror, ConditionsTypeOK, Keys
<1>1. ASSUME NEW c \in Conds, CreateCondition(c), UNCHANGED vars PROVE Mirror'
  <2>1. /\ dictionary' = [dictionary EXCEPT ![NullId] = c] /\ server' = server
        /\ nodes' = (nodes \ Held({NullId})) \cup {c} /\ life[c] = "new"
        /\ life' = [d \in Conds |-> IF d \in Held({NullId}) THEN "dead"
                                    ELSE IF d = c THEN "live" ELSE life[d]]
        /\ server # "gone"
    BY <1>1 DEF CreateCondition, Replace, vars
  <2>2. ConditionsTypeOK' /\ NullIdHoldsAll' /\ dictionary'[NullId] = c
    BY <2>1 DEF NullIdHoldsAll
  <2>3. Held(Keys)' = {c}
    <3>1. \A x : x \in Held(Keys)' <=> x = c
      BY <2>2 DEF Held, NullIdHoldsAll
    <3> QED
      BY <3>1
  <2>4. nodes = Held({NullId}) /\ c \notin Held({NullId})
    BY <2>1, HeldIsLive DEF ConditionsAreMirrored
  <2>5. nodes' = {c}
    BY <2>1, <2>4
  <2>6. \A d \in Conds : life'[d] = "live" <=> d = c
    BY <2>1, <2>4, HeldIsLive DEF ConditionsAreMirrored
  <2>7. {d \in Conds : life'[d] = "live"} = {c}
    BY <2>6
  <2> QED
    BY <2>1, <2>2, <2>3, <2>5, <2>7 DEF ConditionsAreMirrored
<1>2. ASSUME NEW key \in Keys, DeleteCondition(key), UNCHANGED vars PROVE Mirror'
  <2>1. key = NullId
    BY <1>2, HeldIsLive DEF DeleteCondition
  <2>2. /\ dictionary' = [dictionary EXCEPT ![NullId] = NullId] /\ server' = server
        /\ nodes' = nodes \ Held({NullId}) /\ server # "gone"
        /\ life' = [d \in Conds |-> IF d \in Held({NullId}) THEN "dead" ELSE life[d]]
    BY <1>2, <2>1 DEF DeleteCondition, Replace, vars
  <2>3. ConditionsTypeOK' /\ NullIdHoldsAll' /\ dictionary'[NullId] = NullId
    BY <2>2 DEF NullIdHoldsAll
  <2>4. Held(Keys)' = {}
    BY <2>3 DEF Held, NullIdHoldsAll
  <2>5. nodes' = {} /\ nodes = Held({NullId})
    BY <2>2, HeldIsLive DEF ConditionsAreMirrored
  <2>6. {d \in Conds : life'[d] = "live"} = {}
    BY <2>2, <2>5 DEF ConditionsAreMirrored
  <2> QED
    BY <2>2, <2>3, <2>4, <2>5, <2>6 DEF ConditionsAreMirrored
<1>3. CASE Terminate /\ ClearConditions
  <2>1. ConditionsTypeOK' /\ NullIdHoldsAll'
    BY <1>3 DEF ClearConditions, NullIdHoldsAll
  <2>2. Held(Keys)' = {} /\ nodes' = {}
    BY <1>3 DEF ClearConditions, Held
  <2>3. {d \in Conds : life'[d] = "live"} = {}
    BY <1>3 DEF ClearConditions, ConditionsAreMirrored
  <2> QED
    BY <2>1, <2>2, <2>3 DEF ConditionsAreMirrored
(* The end of the UA_Server is the only step that changes m_pServer to null. *)
<1>4. CASE (CallbackStep \/ Run) /\ UNCHANGED cvars
  <2>1. server' = "gone" => server = "gone"
    BY <1>4 DEF CallbackStep, Run, AddTimer, AddTimerFails, Store,
           RemoveTimerEvent, Construct, Start, Stop, DestroyCallback, Fire,
           HandlerReturns
  <2> QED
    BY <1>4, <2>1 DEF cvars, NullIdHoldsAll, ConditionsAreMirrored, Held
<1>5. CASE UNCHANGED <<vars, cvars>>
  BY <1>5 DEF vars, cvars, NullIdHoldsAll, ConditionsAreMirrored, Held
<1> QED
  BY <1>1, <1>2, <1>3, <1>4, <1>5 DEF ServerNext, ConditionStep

(* The Server's conditions are the UA_Server's: a node exists as long as    *)
(* its Condition object, which the map owns, and nothing of them outlives   *)
(* the UA_Server (createCondition, deleteCondition, ~Condition, terminate).  *)
THEOREM ConditionsMirrorNodes == ServerSpec => []ConditionsAreMirrored
<1>1. ServerInit => Mirror
  BY DEF ServerInit, ConditionsInit, Init, Mirror, ConditionsTypeOK,
         NullIdHoldsAll, ConditionsAreMirrored, Held, Keys
<1>2. Mirror /\ [ServerNext]_<<vars, cvars>> => Mirror'
  BY MirrorStep
<1>3. Mirror => ConditionsAreMirrored
  BY DEF Mirror
<1> QED
  BY <1>1, <1>2, <1>3, PTL DEF ServerSpec

(* Conditions do not get in the way of the timers: the Server with its      *)
(* conditions is a ServerCallbacks, with all that was proved about it.      *)
THEOREM ConditionsLeaveCallbacksAlone == ServerSpec => Spec
<1>1. ServerInit => Init
  BY DEF ServerInit
<1>2. [ServerNext]_<<vars, cvars>> => [Next]_vars
  BY DEF ServerNext, Next
<1> QED
  BY <1>1, <1>2, PTL DEF ServerSpec, Spec
=============================================================================
