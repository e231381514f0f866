--------------------------- MODULE ServerCallbacks ---------------------------
(***************************************************************************)
(* What a Server lets the timer queue of its UA_Server call: the Timers it  *)
(* owns in _timerMap, and the ServerTimedCallback and ServerRepeatedCallback *)
(* objects that belong to the application.  All of them share one sequence  *)
(* of ids, and the queue keeps raw pointers to them.                       *)
(*                                                                         *)
(* A Server has one UA_Server in its life: the constructor makes it and    *)
(* terminate deletes it.  The thread that runs the server performs every   *)
(* step, from a handler or between two iterations; the Server outlives the *)
(* callback objects made for it, and no handler terminates it.             *)
(***************************************************************************)
EXTENDS Integers

CONSTANTS
    Timers,      \* Timer objects; an identity is never reused
    Timed,       \* ServerTimedCallback objects
    Repeated,    \* ServerRepeatedCallback objects
    None,        \* the null pointer
    MaxId        \* bound: ids the UA_Server hands out

Callbacks == Timed \cup Repeated
Objects == Timers \cup Callbacks

ASSUME ServerCallbacksAssumption ==
    /\ None \notin Objects
    /\ Timers \cap Callbacks = {}
    /\ Timed \cap Repeated = {}
    /\ MaxId \in Nat \ {0}

Ids == 0 .. MaxId

VARIABLES
    server,      \* m_pServer: "built", "running" or, when null, "gone"
    nextId,      \* id counter of the UA_Server's timer queue
    queue,       \* the timer queue: id -> data pointer
    timerMap,    \* _timerMap: id -> owned Timer
    state,       \* lifetime of each object
    idOf,        \* the _id of each object
    oneShot,     \* Timer::_oneShot
    running,     \* the object whose handler is executing
    refused,     \* history: ids a refused addition stored its Timer under
    ended,       \* history: ids called for the last time, or given up by a
                 \* removal, a stop or the end of their callback object
    fault        \* undefined behaviour reached

vars == <<server, nextId, queue, timerMap, state, idOf, oneShot, running,
          refused, ended, fault>>

TypeOK ==
    /\ server \in {"built", "running", "gone"}
    /\ nextId \in 1 .. MaxId + 1
    /\ queue \in [Ids -> Objects \cup {None}]
    /\ timerMap \in [Ids -> Timers \cup {None}]
    /\ state \in [Objects -> {"new", "live", "dead"}]
    /\ idOf \in [Objects -> Ids]
    /\ oneShot \in [Timers -> BOOLEAN]
    /\ running \in Objects \cup {None}
    /\ refused \subseteq Ids
    /\ ended \subseteq Ids
    /\ fault \in {"none", "useAfterDestroy"}

Init ==
    /\ server = "built"
    /\ nextId = 1
    /\ queue = [k \in Ids |-> None]
    /\ timerMap = [k \in Ids |-> None]
    /\ state = [o \in Objects |-> "new"]
    /\ idOf = [o \in Objects |-> 0]
    /\ oneShot = [t \in Timers |-> FALSE]
    /\ running = None
    /\ refused = {}
    /\ ended = {}
    /\ fault = "none"

-----------------------------------------------------------------------------
(* UA_Server_removeCallback of every id of K; an unknown id is no one's.   *)
Unqueue(K, q) == [k \in Ids |-> IF k \in K THEN None ELSE q[k]]

OwnedIds(K) == {k \in K : timerMap[k] # None}

(* The Timers held under the keys K are destroyed: ~Timer unregisters the   *)
(* Timer's id from the queue.                                              *)
Drop(K, q) ==
    /\ queue' = Unqueue({idOf[timerMap[k]] : k \in OwnedIds(K)}, q)
    /\ state' = [o \in Objects |->
                   IF \E k \in K : timerMap[k] = o THEN "dead" ELSE state[o]]

(* Bug to detect: the id is set off by one.                                *)
StoreOffByOne(t, id, os, q) ==
    /\ idOf' = [idOf EXCEPT ![t] = id - 1]
    /\ oneShot' = [oneShot EXCEPT ![t] = os]
    /\ timerMap' = [timerMap EXCEPT ![id] = t]
    /\ queue' = Unqueue({idOf[timerMap[k]] : k \in OwnedIds({id})}, q)
    /\ state' = [o \in Objects |-> IF o = t THEN "live"
                                   ELSE IF o = timerMap[id] THEN "dead"
                                   ELSE state[o]]
    /\ UNCHANGED <<server, running, ended, fault>>

(* _timerMap[id] = std::move(t) after t->setId(id).                        *)
Store(t, id, os, q) ==
    /\ idOf' = [idOf EXCEPT ![t] = id]
    /\ oneShot' = [oneShot EXCEPT ![t] = os]
    /\ timerMap' = [timerMap EXCEPT ![id] = t]
    /\ queue' = Unqueue({idOf[timerMap[k]] : k \in OwnedIds({id})}, q)
    /\ state' = [o \in Objects |-> IF o = t THEN "live"
                                   ELSE IF o = timerMap[id] THEN "dead"
                                   ELSE state[o]]
    /\ UNCHANGED <<server, running, ended, fault>>

(* addTimedEvent (os) and addRepeatedTimerEvent (~os), accepted.           *)
AddTimer(t, os) ==
    /\ fault = "none"
    /\ server # "gone" /\ state[t] = "new"
    /\ nextId <= MaxId
    /\ nextId' = nextId + 1
    /\ UNCHANGED refused
    /\ Store(t, nextId, os, [queue EXCEPT ![nextId] = t])

(* The same, refused: callbackId keeps what the caller had in it, be that   *)
(* the id of another Timer or callback object, one that is not handed out   *)
(* yet, or nothing sensible, and the new Timer is stored under it.         *)
AddTimerFails(t, os, callbackId) ==
    /\ fault = "none"
    /\ server # "gone" /\ state[t] = "new"
    /\ refused' = refused \cup {callbackId}
    /\ UNCHANGED nextId
    /\ Store(t, callbackId, os, queue)

RemoveTimerEvent(id) ==
    /\ fault = "none"
    /\ timerMap[id] # None
    /\ timerMap' = [timerMap EXCEPT ![id] = None]
    /\ Drop({id}, queue)
    /\ ended' = ended \cup {id}
    /\ UNCHANGED <<server, nextId, idOf, oneShot, running, refused, fault>>

-----------------------------------------------------------------------------
(* Constructors of ServerTimedCallback and ServerRepeatedCallback.         *)
Construct(o) ==
    /\ fault = "none"
    /\ state[o] = "new"
    /\ state' = [state EXCEPT ![o] = "live"]
    /\ UNCHANGED <<server, nextId, queue, timerMap, idOf, oneShot, running,
                   refused, ended, fault>>

(* start: a callback that holds an id is left alone, and so is one whose    *)
(* addition the library refuses.                                           *)
Start(o) ==
    /\ fault = "none"
    /\ state[o] = "live"
    /\ idOf[o] = 0 /\ server # "gone"
    /\ nextId <= MaxId
    /\ nextId' = nextId + 1
    /\ idOf' = [idOf EXCEPT ![o] = nextId]
    /\ queue' = [queue EXCEPT ![nextId] = o]
    /\ UNCHANGED <<server, timerMap, state, oneShot, running, refused, ended,
                   fault>>

(* UA_Server_removeRepeatedCallback, while there is a UA_Server.           *)
RemoveId(o) ==
    queue' = IF server = "gone" THEN queue ELSE Unqueue({idOf[o]}, queue)

(* Bug to detect: the id is reset before it is removed.                    *)
StopResetsFirst(o) ==
    /\ fault = "none"
    /\ state[o] = "live" /\ idOf[o] # 0
    /\ idOf' = [idOf EXCEPT ![o] = 0]
    /\ queue' = Unqueue({0}, queue)
    /\ ended' = ended \cup {idOf[o]}
    /\ UNCHANGED <<server, nextId, timerMap, state, oneShot, running, refused,
                   fault>>

Stop(o) ==
    /\ fault = "none"
    /\ state[o] = "live" /\ idOf[o] # 0
    /\ RemoveId(o)
    /\ idOf' = [idOf EXCEPT ![o] = 0]
    /\ ended' = ended \cup {idOf[o]}
    /\ UNCHANGED <<server, nextId, timerMap, state, oneShot, running, refused,
                   fault>>

(* Bug to detect: a callback object is destroyed while it is scheduled.    *)
DestroyScheduled(o) ==
    /\ fault = "none"
    /\ state[o] = "live"
    /\ state' = [state EXCEPT ![o] = "dead"]
    /\ idOf' = IF o \in Timed THEN [idOf EXCEPT ![o] = 0] ELSE idOf
    /\ ended' = ended \cup {idOf[o]}
    /\ UNCHANGED <<server, nextId, queue, timerMap, oneShot, running, refused,
                   fault>>

(* ~ServerTimedCallback stops the callback; ~ServerRepeatedCallback removes *)
(* its id, also the id 0 of one that is not scheduled.                     *)
DestroyCallback(o) ==
    /\ fault = "none"
    /\ state[o] = "live"
    /\ RemoveId(o)
    /\ state' = [state EXCEPT ![o] = "dead"]
    /\ idOf' = IF o \in Timed THEN [idOf EXCEPT ![o] = 0] ELSE idOf
    /\ ended' = ended \cup {idOf[o]}
    /\ UNCHANGED <<server, nextId, timerMap, oneShot, running, refused, fault>>

-----------------------------------------------------------------------------
CalledOnce(o) == o \in Timed \/ (o \in Timers /\ oneShot[o])

(* The UA_Server calls an expired entry from UA_Server_run_iterate, after   *)
(* taking it out of the queue if it is called once.                        *)
Fire(id) ==
    /\ fault = "none"
    /\ server = "running" /\ running = None
    /\ queue[id] # None
    /\ running' = queue[id]
    /\ IF CalledOnce(queue[id])
       THEN /\ queue' = [queue EXCEPT ![id] = None]
            /\ ended' = ended \cup {id}
       ELSE UNCHANGED <<queue, ended>>
    /\ UNCHANGED <<server, nextId, timerMap, state, idOf, oneShot, refused,
                   fault>>

(* The rest of timerCallback after t->handle(), which reads oneShot() of    *)
(* the Timer; the callbackFunctions have nothing left to do.               *)
HandlerReturns ==
    /\ fault = "none"
    /\ running # None
    /\ running' = None
    /\ fault' = IF running \in Timers /\ state[running] = "dead"
                THEN "useAfterDestroy" ELSE fault
    /\ IF running \in Timers /\ state[running] = "live" /\ oneShot[running]
       THEN /\ timerMap' = [timerMap EXCEPT ![idOf[running]] = None]
            /\ Drop({idOf[running]}, queue)
       ELSE UNCHANGED <<timerMap, queue, state>>
    /\ UNCHANGED <<server, nextId, idOf, oneShot, refused, ended>>

(* create: the server can be found by its callbacks and starts to iterate. *)
Run ==
    /\ fault = "none"
    /\ server = "built"
    /\ server' = "running"
    /\ UNCHANGED <<nextId, queue, timerMap, state, idOf, oneShot, running,
                   refused, ended, fault>>

(* Bug to detect: _timerMap is not cleared before the UA_Server goes.      *)
TerminateOnly ==
    /\ fault = "none"
    /\ server # "gone" /\ running = None
    /\ server' = "gone"
    /\ queue' = [k \in Ids |-> None]
    /\ UNCHANGED <<nextId, timerMap, state, idOf, oneShot, running, refused,
                   ended, fault>>

(* terminate, from ~Server or at the end of start: the Timers go, then the  *)
(* UA_Server with the rest of its queue.                                   *)
Terminate ==
    /\ fault = "none"
    /\ server # "gone" /\ running = None
    /\ server' = "gone"
    /\ timerMap' = [k \in Ids |-> None]
    /\ queue' = [k \in Ids |-> None]
    /\ state' = [o \in Objects |->
                   IF \E k \in Ids : timerMap[k] = o THEN "dead" ELSE state[o]]
    /\ UNCHANGED <<nextId, idOf, oneShot, running, refused, ended, fault>>

(* The steps that do not touch the UA_Server itself.                       *)
CallbackStep ==
    \/ \E t \in Timers, os \in BOOLEAN : AddTimer(t, os)
    \/ \E t \in Timers, os \in BOOLEAN, id \in Ids : AddTimerFails(t, os, id)
    \/ \E id \in Ids : RemoveTimerEvent(id)
    \/ \E o \in Callbacks : Construct(o)
    \/ \E o \in Callbacks : Start(o)
    \/ \E o \in Callbacks : Stop(o)
    \/ \E o \in Callbacks : DestroyCallback(o)
    \/ \E id \in Ids : Fire(id)
    \/ HandlerReturns

Next == CallbackStep \/ Run \/ Terminate

Spec == Init /\ [][Next]_vars

-----------------------------------------------------------------------------
(* Every pointer in the queue leads to a living object that knows the id    *)
(* it is queued under, and a queued Timer is the one _timerMap owns there: *)
(* the UA_Server never calls into a destroyed object (~Timer,              *)
(* ~ServerTimedCallback, ~ServerRepeatedCallback).                         *)
QueuedIsAlive ==
    \A k \in Ids : queue[k] # None =>
        /\ state[queue[k]] = "live"
        /\ idOf[queue[k]] = k
        /\ queue[k] \in Timers => timerMap[k] = queue[k]

(* A Timer lives exactly as long as _timerMap owns it, under its own id; in *)
(* particular no Timer survives terminate (Server::_timerMap).             *)
TimersAreOwned ==
    /\ \A t \in Timers : state[t] = "live" =>
           server # "gone" /\ timerMap[idOf[t]] = t
    /\ \A k \in Ids : timerMap[k] # None =>
           state[timerMap[k]] = "live" /\ idOf[timerMap[k]] = k

(* Every id the UA_Server handed out stays in the queue until it was called *)
(* for the last time, or until its owner removed, stopped or destroyed what *)
(* it stands for, and no longer: the removal of an id 0, of a spent id or of *)
(* another's id makes no difference to it.  The ids a refused addition put   *)
(* its Timer under are lost to this: that Timer destroys the one it         *)
(* replaces, and unregisters whatever has its id when it is destroyed itself *)
(* (addTimedEvent, removeTimerEvent, ServerTimedCallback::stop,             *)
(* ~ServerRepeatedCallback).                                               *)
AcceptedStaysQueued ==
    server # "gone" =>
        \A k \in 1 .. nextId - 1 : k \notin refused =>
            (queue[k] # None <=> k \notin ended)

(* What the queue still owes each object, in the terms of Scheduler.       *)
SchedulePhase == [o \in Objects |->
    IF state[o] = "dead" THEN "gone"
    ELSE IF \A k \in Ids : queue[k] # o THEN "idle"
    ELSE IF CalledOnce(o) THEN "once" ELSE "repeat"]

Abstract == INSTANCE Scheduler WITH
    Jobs <- Objects, NoJob <- None,
    phase <- SchedulePhase, current <- running

(* Timers and callback objects together are a scheduler: a handler runs     *)
(* only while its object is scheduled and alive, at most once for each     *)
(* start of a timed callback, and never inside another handler             *)
(* (timerCallback, start, stop).                                           *)
ImplementsScheduler == Abstract!Spec
=============================================================================
