----------------------------- MODULE CacheThread -----------------------------
(***************************************************************************)
(* ClientCache and ClientCacheThread: a thread that runs process() on every *)
(* Client of a cache, round after round, until m_running is reset.         *)
(*                                                                         *)
(* One caller starts and stops the thread and maintains the cache.  The    *)
(* map and m_running are shared without a lock.  m_running is a plain bool *)
(* that the two threads may write at the same time: either order of the    *)
(* writes can be the outcome.                                              *)
(***************************************************************************)
EXTENDS Integers

CONSTANTS
    Endpoints,    \* keys of the cache
    MaxStarts     \* bound: calls of start()

ASSUME CacheThreadAssumption == MaxStarts \in Nat

VARIABLES
    cache,     \* keys of m_cache
    connected, \* those whose Client has a UA_Client
    caller,    \* "idle", inside stop(): "joining", or done with the
               \* ClientCacheThread: "gone"
    handle,    \* is m_thread joinable?
    early,     \* history: the last stop() came before the thread had begun
    starts,    \* calls of start() so far
    worker,    \* the thread: "none", "spawned", "test", "round", "ended"
    todo,      \* entries the round under way has not reached
    at,        \* the entry whose Client is in process(), {} for none
    m_running,
    threadFault

cacheVars == <<cache, connected, caller, handle, early, starts, worker, todo, at,
               m_running, threadFault>>

CacheTypeOK ==
    /\ cache \subseteq Endpoints /\ connected \subseteq cache
    /\ caller \in {"idle", "joining", "gone"}
    /\ handle \in BOOLEAN /\ early \in BOOLEAN
    /\ starts \in 0 .. MaxStarts
    /\ worker \in {"none", "spawned", "test", "round", "ended"}
    /\ todo \subseteq Endpoints /\ at \subseteq Endpoints
    /\ m_running \in BOOLEAN
    /\ threadFault \in {"none", "terminate", "notJoinable", "race"}

CacheInit ==
    /\ cache = {} /\ connected = {}
    /\ caller = "idle"
    /\ handle = FALSE /\ early = FALSE
    /\ starts = 0
    /\ worker = "none"
    /\ todo = {} /\ at = {}
    /\ m_running = FALSE
    /\ threadFault = "none"

-----------------------------------------------------------------------------
Alive == worker \in {"spawned", "test", "round"}

(* start(): the new thread is moved into m_thread.  If that still is        *)
(* joinable the assignment terminates the program, despite the catch.      *)
Start ==
    /\ threadFault = "none" /\ caller = "idle" /\ starts < MaxStarts
    /\ starts' = starts + 1
    /\ IF handle
       THEN threadFault' = "terminate" /\ UNCHANGED <<handle, worker>>
       ELSE handle' = TRUE /\ worker' = "spawned" /\ UNCHANGED threadFault
    /\ UNCHANGED <<cache, connected, caller, early, todo, at, m_running>>

(* std::thread cannot make one: the exception is caught and start() returns *)
(* false, with m_thread as it was.                                         *)
StartFails ==
    /\ threadFault = "none" /\ caller = "idle" /\ starts < MaxStarts
    /\ starts' = starts + 1
    /\ UNCHANGED <<cache, connected, caller, handle, early, worker, todo, at,
                   m_running, threadFault>>

(* The destructor is the compiler's: that of a joinable m_thread ends the   *)
(* program.                                                                *)
Destroy ==
    /\ threadFault = "none" /\ caller = "idle"
    /\ caller' = "gone"
    /\ threadFault' = IF handle THEN "terminate" ELSE threadFault
    /\ UNCHANGED <<cache, connected, handle, early, starts, worker, todo, at,
                   m_running>>

(* Bug to detect: m_running stays set.                                     *)
StopOnlyJoins ==
    /\ threadFault = "none" /\ caller = "idle"
    /\ early' = (worker = "spawned")
    /\ IF handle
       THEN caller' = "joining" /\ UNCHANGED threadFault
       ELSE threadFault' = "notJoinable" /\ UNCHANGED caller
    /\ UNCHANGED <<cache, connected, handle, starts, worker, todo, at,
                   m_running>>

(* stop(): join() of a thread that was never started throws.               *)
Stop ==
    /\ threadFault = "none" /\ caller = "idle"
    /\ early' = (worker = "spawned")
    /\ m_running' = FALSE
    /\ IF handle
       THEN caller' = "joining" /\ UNCHANGED threadFault
       ELSE threadFault' = "notJoinable" /\ UNCHANGED caller
    /\ UNCHANGED <<cache, connected, handle, starts, worker, todo, at>>

(* Bug to detect: the thread is detached and not waited for.               *)
Detach ==
    /\ threadFault = "none" /\ caller = "joining"
    /\ caller' = "idle" /\ handle' = FALSE
    /\ UNCHANGED <<cache, connected, early, starts, worker, todo, at,
                   m_running, threadFault>>

(* m_thread.join() returns.                                                *)
Join ==
    /\ threadFault = "none" /\ caller = "joining"
    /\ ~Alive
    /\ caller' = "idle" /\ handle' = FALSE
    /\ UNCHANGED <<cache, connected, early, starts, worker, todo, at,
                   m_running, threadFault>>

(* The map must not change under the thread's iteration.                   *)
EditCache(c) ==
    /\ threadFault = "none" /\ caller = "idle"
    /\ cache' = c
    /\ connected' = connected \cap c
    /\ threadFault' = IF worker = "round" THEN "race" ELSE threadFault
    /\ UNCHANGED <<caller, handle, early, starts, worker, todo, at, m_running>>

(* ClientCache::add.  remove calls disconnect(), which throws for a Client  *)
(* that was never connected; that entry stays.                             *)
AddClient(e) == e \notin cache /\ EditCache(cache \cup {e})
RemoveClient(e) == e \in connected /\ EditCache(cache \ {e})

(* The caller connects the Client it was given.                            *)
Connect(e) ==
    /\ threadFault = "none" /\ caller = "idle"
    /\ e \in cache \ connected
    /\ connected' = connected \cup {e}
    /\ UNCHANGED <<cache, caller, handle, early, starts, worker, todo, at,
                   m_running, threadFault>>

-----------------------------------------------------------------------------
(* The thread.                                                             *)
SetRunning ==
    /\ threadFault = "none" /\ worker = "spawned"
    /\ m_running' = TRUE
    /\ worker' = "test"
    /\ UNCHANGED <<cache, connected, caller, handle, early, starts, todo, at,
                   threadFault>>

(* while (m_running) m_cache.process()                                     *)
Test ==
    /\ threadFault = "none" /\ worker = "test"
    /\ IF m_running THEN worker' = "round" /\ todo' = cache
       ELSE worker' = "ended" /\ UNCHANGED todo
    /\ UNCHANGED <<cache, connected, caller, handle, early, starts, at,
                   m_running, threadFault>>

(* client.second->process() for one entry after the other.                 *)
Process(e) ==
    /\ threadFault = "none" /\ worker = "round" /\ at = {}
    /\ e \in todo
    /\ at' = {e}
    /\ UNCHANGED <<cache, connected, caller, handle, early, starts, worker,
                   todo, m_running, threadFault>>

Processed ==
    /\ threadFault = "none" /\ worker = "round" /\ at # {}
    /\ todo' = todo \ at
    /\ at' = {}
    /\ UNCHANGED <<cache, connected, caller, handle, early, starts, worker,
                   m_running, threadFault>>

EndRound ==
    /\ threadFault = "none" /\ worker = "round" /\ todo = {}
    /\ worker' = "test"
    /\ UNCHANGED <<cache, connected, caller, handle, early, starts, todo, at,
                   m_running, threadFault>>

Worker ==
    \/ SetRunning \/ Test \/ Processed \/ EndRound
    \/ \E e \in Endpoints : Process(e)

CacheNext ==
    \/ Start \/ StartFails \/ Stop \/ Join \/ Destroy
    \/ \E e \in Endpoints : AddClient(e) \/ RemoveClient(e) \/ Connect(e)
    \/ Worker

CacheSpec == CacheInit /\ [][CacheNext]_cacheVars

(* The thread is scheduled, process() returns, and join() does once the     *)
(* thread has ended.                                                       *)
CacheFairness == WF_cacheVars(Worker) /\ WF_cacheVars(Join)

-----------------------------------------------------------------------------
(* Once stop() returned the cache is the caller's alone: no Client is in    *)
(* process() and none will be before the next start()                      *)
(* (ClientCacheThread::stop).                                              *)
StoppedIsQuiet == ~handle => ~Alive /\ at = {} /\ todo = {}

(* stop() returns once the round under way is over, if the thread had begun *)
(* when it was called (ClientCacheThread::stop and the thread of start()).    *)
BegunThreadStops == caller = "joining" /\ ~early ~> caller = "idle"
=============================================================================
