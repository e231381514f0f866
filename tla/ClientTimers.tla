---------------------------- MODULE ClientTimers ----------------------------
(***************************************************************************)
(* The timed and repeated callbacks of Open62541::Client.                  *)
(*                                                                         *)
(* Two tables have to agree.  The wrapper's _timerMap owns the Timer       *)
(* objects, keyed by callback id.  The timer queue of the UA_Client holds, *)
(* for every registered id, a raw pointer to one of those objects.  The    *)
(* destructor of a Timer unregisters its id from whatever UA_Client the    *)
(* wrapper has at that moment, and ids restart with each UA_Client.        *)
(*                                                                         *)
(* One thread drives the client: it calls the operations below and the     *)
(* handlers run inside its runIterate, so a handler may call them as well. *)
(* Locking is the subject of ClientSession.                                *)
(***************************************************************************)
EXTENDS Integers

CONSTANTS
    Timers,      \* identities of Timer objects; an identity is never reused
    NoTimer,     \* the null TimerPtr
    MaxId,       \* bound: ids one UA_Client hands out
    MaxClients   \* bound: UA_Client_new calls of one wrapper

ASSUME ClientTimersAssumption ==
    /\ NoTimer \notin Timers
    /\ MaxId \in Nat \ {0}
    /\ MaxClients \in Nat \ {0}

Ids == 0 .. MaxId

VARIABLES
    client,      \* m_pClient: 0 is nullptr, n the n-th UA_Client
    made,        \* number of UA_Clients made so far
    nextId,      \* id counter of the UA_Client's timer queue
    registered,  \* timer queue of the UA_Client: id -> data pointer
    timerMap,    \* _timerMap: id -> owned Timer
    state,       \* lifetime of each Timer object
    idOf,        \* Timer::_id
    oneShot,     \* Timer::_oneShot
    running,     \* the Timer whose handler is executing
    refused,     \* history: the library has refused an addition
    fault        \* undefined behaviour reached, "none" while there is none

vars == <<client, made, nextId, registered, timerMap, state, idOf, oneShot,
          running, refused, fault>>

TimerOrNone == Timers \cup {NoTimer}

TypeOK ==
    /\ client \in 0 .. MaxClients
    /\ made \in 0 .. MaxClients
    /\ nextId \in 1 .. MaxId + 1
    /\ registered \in [Ids -> TimerOrNone]
    /\ timerMap \in [Ids -> TimerOrNone]
    /\ state \in [Timers -> {"free", "live", "dead"}]
    /\ idOf \in [Timers -> Ids]
    /\ oneShot \in [Timers -> BOOLEAN]
    /\ running \in TimerOrNone
    /\ refused \in BOOLEAN
    /\ fault \in {"none", "nullClient", "useAfterDestroy"}

Init ==
    /\ client = 0
    /\ made = 0
    /\ nextId = 1
    /\ registered = [k \in Ids |-> NoTimer]
    /\ timerMap = [k \in Ids |-> NoTimer]
    /\ state = [t \in Timers |-> "free"]
    /\ idOf = [t \in Timers |-> 0]
    /\ oneShot = [t \in Timers |-> FALSE]
    /\ running = NoTimer
    /\ refused = FALSE
    /\ fault = "none"

-----------------------------------------------------------------------------
(* Bug to detect: ~Timer does not unregister its id.                       *)
UnregisterNothing(reg, D) == reg

(* ~Timer of every object of D, once the table reg holds the registrations: *)
(* each id is unregistered.  Without a UA_Client the library is handed a    *)
(* null pointer.                                                           *)
Unregister(reg, D) ==
    [k \in Ids |-> IF \E t \in D : idOf[t] = k THEN NoTimer ELSE reg[k]]

Destroy(D, reg) ==
    /\ state' = [t \in Timers |-> IF t \in D THEN "dead" ELSE state[t]]
    /\ registered' = Unregister(reg, D)
    /\ fault' = IF D # {} /\ client = 0 THEN "nullClient" ELSE fault

(* The objects the map owns under the keys K.                              *)
Owned(K) == {timerMap[k] : k \in K} \ {NoTimer}

(* initialise: the old UA_Client is deleted with its timer queue, _timerMap *)
(* is left as it is.  UA_Client_new may fail.                              *)
Initialise ==
    /\ fault = "none" /\ running = NoTimer
    /\ made < MaxClients
    /\ made' = made + 1
    /\ client' \in {0, made + 1}
    /\ nextId' = 1
    /\ registered' = [k \in Ids |-> NoTimer]
    /\ UNCHANGED <<timerMap, state, idOf, oneShot, running, refused, fault>>

(* Bug to detect: setId is not called.                                     *)
StoreWithoutId(t, id, os, reg) ==
    /\ oneShot' = [oneShot EXCEPT ![t] = os]
    /\ timerMap' = [timerMap EXCEPT ![id] = t]
    /\ state' = [u \in Timers |-> IF u = t THEN "live"
                                  ELSE IF u = timerMap[id] THEN "dead"
                                  ELSE state[u]]
    /\ registered' = Unregister(reg, Owned({id}))
    /\ UNCHANGED <<client, made, idOf, running, fault>>

(* _timerMap[id] = std::move(t) with a new Timer t whose _id is id: an      *)
(* object already held under id is destroyed after the new one took its    *)
(* place.                                                                  *)
Store(t, id, os, reg) ==
    /\ idOf' = [idOf EXCEPT ![t] = id]
    /\ oneShot' = [oneShot EXCEPT ![t] = os]
    /\ timerMap' = [timerMap EXCEPT ![id] = t]
    /\ state' = [u \in Timers |-> IF u = t THEN "live"
                                  ELSE IF u = timerMap[id] THEN "dead"
                                  ELSE state[u]]
    /\ registered' = Unregister(reg, Owned({id}))
    /\ UNCHANGED <<client, made, running, fault>>

(* Bug to detect: the id the library chose does not reach callbackId.       *)
AddTimerUnderZero(t, os) ==
    /\ fault = "none"
    /\ client # 0 /\ state[t] = "free"
    /\ nextId <= MaxId
    /\ nextId' = nextId + 1
    /\ UNCHANGED refused
    /\ Store(t, 0, os, [registered EXCEPT ![nextId] = t])

(* addTimedEvent (os) and addRepeatedTimerEvent (~os), accepted.           *)
AddTimer(t, os) ==
    /\ fault = "none"
    /\ client # 0 /\ state[t] = "free"
    /\ nextId <= MaxId
    /\ nextId' = nextId + 1
    /\ UNCHANGED refused
    /\ Store(t, nextId, os, [registered EXCEPT ![nextId] = t])

(* The same, refused by the library: callbackId keeps whatever the caller  *)
(* had in it, for one the id of a timer added before, to this UA_Client or *)
(* to an earlier one, and the Timer is stored under it all the same.       *)
AddTimerFails(t, os, callbackId) ==
    /\ fault = "none"
    /\ client # 0 /\ state[t] = "free"
    /\ refused' = TRUE
    /\ UNCHANGED nextId
    /\ Store(t, callbackId, os, registered)

(* _timerMap.erase(id)                                                     *)
Erase(id) ==
    /\ timerMap' = [timerMap EXCEPT ![id] = NoTimer]
    /\ Destroy(Owned({id}), registered)

RemoveTimerEvent(id) ==
    /\ fault = "none"
    /\ timerMap[id] # NoTimer
    /\ Erase(id)
    /\ UNCHANGED <<client, made, nextId, idOf, oneShot, running, refused>>

(* _timerMap.clear(): the state handlers SessionStateClosed,               *)
(* SecureChannelStateClosed and SecureChannelStateClosing, and ~Client.    *)
ClearTimerMap ==
    /\ fault = "none"
    /\ Owned(Ids) # {}
    /\ timerMap' = [k \in Ids |-> NoTimer]
    /\ Destroy(Owned(Ids), registered)
    /\ UNCHANGED <<client, made, nextId, idOf, oneShot, running, refused>>

(* The library runs an expired callback from runIterate; it takes a        *)
(* one-shot entry out of its queue first.                                  *)
Fire(id) ==
    /\ fault = "none"
    /\ client # 0 /\ running = NoTimer
    /\ registered[id] # NoTimer
    /\ running' = registered[id]
    /\ registered' = IF oneShot[registered[id]]
                     THEN [registered EXCEPT ![id] = NoTimer]
                     ELSE registered
    /\ UNCHANGED <<client, made, nextId, timerMap, state, idOf, oneShot, refused,
                   fault>>

(* Bug to detect: one-shot Timers are left in the map.                     *)
HandlerReturnsOnly ==
    /\ fault = "none"
    /\ running # NoTimer
    /\ running' = NoTimer
    /\ fault' = IF state[running] # "live" THEN "useAfterDestroy" ELSE fault
    /\ UNCHANGED <<client, made, nextId, registered, timerMap, state, idOf, oneShot,
                   refused>>

(* clientCallback after t->handle(): t->oneShot() is read, and a one-shot   *)
(* Timer is erased from the map.                                           *)
HandlerReturns ==
    /\ fault = "none"
    /\ running # NoTimer
    /\ running' = NoTimer
    /\ IF state[running] # "live"
       THEN /\ fault' = "useAfterDestroy"
            /\ UNCHANGED <<registered, timerMap, state>>
       ELSE IF oneShot[running]
       THEN Erase(idOf[running])
       ELSE UNCHANGED <<registered, timerMap, state, fault>>
    /\ UNCHANGED <<client, made, nextId, idOf, oneShot, refused>>

Next ==
    \/ Initialise
    \/ \E t \in Timers, os \in BOOLEAN : AddTimer(t, os)
    \/ \E t \in Timers, os \in BOOLEAN, id \in Ids : AddTimerFails(t, os, id)
    \/ \E id \in Ids : RemoveTimerEvent(id)
    \/ ClearTimerMap
    \/ \E id \in Ids : Fire(id)
    \/ HandlerReturns

Spec == Init /\ [][Next]_vars

-----------------------------------------------------------------------------
(* Every pointer in the library's queue is the Timer the map owns under the *)
(* same id: the queue never calls into a destroyed Timer, whatever the      *)
(* order of additions, failures, removals, firings and new UA_Clients      *)
(* (Client::clientCallback, ~Timer).                                       *)
RegisteredIsOwned ==
    \A k \in Ids : registered[k] # NoTimer =>
        /\ timerMap[k] = registered[k]
        /\ state[registered[k]] = "live"

(* A Timer object lives exactly as long as _timerMap owns it, and under its *)
(* own id: none is leaked and none is destroyed twice.                     *)
OwnedUnderItsId ==
    /\ \A t \in Timers : state[t] = "live" => timerMap[idOf[t]] = t
    /\ \A k \in Ids : timerMap[k] # NoTimer =>
           /\ idOf[timerMap[k]] = k
           /\ state[timerMap[k]] = "live"

(* Returning from the handler of a one-shot Timer leaves nothing of it: the *)
(* map has dropped it and its id is not registered for it                  *)
(* (Client::clientCallback).                                               *)
OneShotIsSpent ==
    [][\A t \in Timers :
          running = t /\ running' # t /\ oneShot[t] /\ state[t] = "live" =>
              state'[t] = "dead" /\ \A k \in Ids : registered'[k] # t]_vars

(* An accepted addition takes no other Timer out of the schedule: neither    *)
(* one the queue still points to nor the one whose handler made the call,   *)
(* although it destroys what an earlier UA_Client left under the new id    *)
(* (addTimedEvent, addRepeatedTimerEvent, clientCallback).                 *)
AdditionSparesTheScheduled ==
    [][nextId' > nextId =>
          \A t \in Timers :
              /\ state[t] = "live" /\ t = running => state'[t] = "live"
              /\ \A k \in Ids : registered[k] = t =>
                     registered'[k] = t /\ state'[t] = "live"]_vars

(* While the wrapper has had one UA_Client, and no addition was refused, a  *)
(* Timer that was not removed stays scheduled until it has fired, if it is *)
(* one-shot, and for ever otherwise (addTimedEvent, addRepeatedTimerEvent, *)
(* clientCallback).                                                        *)
LiveIsScheduled ==
    made <= 1 /\ ~refused =>
        \A t \in Timers : state[t] = "live" =>
            registered[idOf[t]] = t \/ (oneShot[t] /\ running = t)

(* What the queue still owes each Timer object, in the terms of Scheduler. *)
SchedulePhase == [t \in Timers |->
    IF state[t] = "dead" THEN "gone"
    ELSE IF \A k \in Ids : registered[k] # t THEN "idle"
    ELSE IF oneShot[t] THEN "once" ELSE "repeat"]

Abstract == INSTANCE Scheduler WITH
    Jobs <- Timers, NoJob <- NoTimer,
    phase <- SchedulePhase, current <- running

(* The two tables together are a scheduler: a handler runs only while its   *)
(* Timer is scheduled and alive, a one-shot one at most once, and never     *)
(* inside another handler (addTimedEvent, clientCallback, ~Timer).         *)
ImplementsScheduler == Abstract!Spec
=============================================================================
