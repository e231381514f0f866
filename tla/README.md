# open62541Cpp in TLA+

open62541Cpp wraps the C library open62541 (an OPC UA stack) in C++ classes: a
`Client`, a `Server`, and around them subscriptions, monitored items, timers,
node contexts, browsers, a history database, a client cache and a property tree.
The stack itself, and everything that goes over the network, belongs to the C
library and is *external* here: the modules have just as much of it as the
wrapper relies on.

The wrapper's own logic is bookkeeping between two worlds. It keeps maps that
own C++ objects; the library keeps raw pointers to the same objects, and calls
back with them on whatever thread happens to be inside it. Nearly every
property below relates those two pieces of state.

## 1. Inventory

| part | state it keeps | operations that change it | hard part | correct means |
|---|---|---|---|---|
| Client timers (`open62541client.h`, `.cpp`) | `_timerMap` of owned `Timer`s; the timer queue of the `UA_Client` (external) | `addTimedEvent`, `addRepeatedTimerEvent`, `removeTimerEvent`, `clientCallback`, the `_timerMap.clear()` of the state handlers, `initialise` | destructors that unregister, ids that start again with each `UA_Client`, handlers that call back | the queue points at live, owned Timers; a one-shot Timer leaves nothing; a live Timer is scheduled |
| Client session (`open62541client.*`) | `m_pClient`, `m_mutex`, cached and last channel and session states | `connect*`, `disconnect*`, `runIterate`, the services, `stateCallback`/`stateChange` and its handlers | threads, callbacks on the calling thread under the lock, lost connections | operations called thread-safe exclude each other; the states handed out are the library's; no subscription survives its session; calls return |
| Subscriptions and monitored items (`clientsubscription.*`, `monitoreditem.*`) | `m_subscriptions`, `m_map`, `m_monitorId`, `m_response`, `m_pEvents` | add, delete, remove, clear, the deletion callbacks | the server may refuse, the connection may be lost, deletions call back into themselves | objects live exactly while they are owned; keys never come back; the library knows what the wrapper owns |
| Server life cycle and routing (`open62541server.*`) | `s_serverMap` (static), `m_pServer`, `m_running`, `m_mutex` | `start`, `stop`, `create`, `iterate`, `shutdown`, `terminate`, `~Server`, node operations with a `NodeContext`, the node constructor and destructor callbacks | addresses are reused, several servers share one map, other threads call in | a callback reaches its own Server; `construct` and `destruct` come in pairs; `stop` ends `start` |
| Client cache (`clientcache.*`, `clientcachethread.*`) | `m_cache`, `m_thread`, `m_running` | `add`, `remove`, `process`, `start`, `stop` | a plain `bool` shared by two threads | after `stop` nothing is processed; `stop` returns |
| Property tree (`propertytree.h`) | nodes with name, data, children and parent; `m_changed` | `set`, `get`, `remove`, `setChild`, `clear`, `copyTo`, `read`, `write`, ... | lookups that insert, removal of subtrees, parents | what was stored is there, nothing else is, changes are flagged, the path of a node leads to it |
| Server timers, timed and repeated callbacks | `_timerMap` of the Server; `_id` of each callback object; the timer queue of the `UA_Server` (external) | add, remove, `start`, `stop`, destructors, the callback, `terminate` | one sequence of ids for three kinds of objects; ids that stay after firing; refusals | the queue never leads to a dead object, and what was accepted stays queued |
| Address space, browsing (`open62541server.*`, `open62541client.*`, `BrowserBase`) | the nodes and references of the `UA_Server` (external); the state of each walk | `nodeIdFromPath`, `createFolderPath`, `browseTree`, `deleteTree` of Server and Client | only the single library call is protected; cycles; a failure half way | what is returned lies on the path; what is deleted lies below the start; calls return |
| Conditions | `_conditionMap`; the condition nodes (external) | `createCondition`, `deleteCondition`, `terminate` | ownership through one key | a node exists as long as its `Condition` |
| Node contexts, access control | none, or what the user adds | the static callbacks for construction, values and permissions | callbacks before `create()` and after `shutdown()` | part of life cycle and routing |
| History (`historydatabase.*`) | the back end (external or the user's) | the static callbacks | as above, with a null Server | part of life cycle and routing |
| Server object types (`serverobjecttype.*`) | `m_typeId`; the nodes of a type (external) | `addType`, `append`, the members and their references, `addInstance` | many calls make one type; each may be refused, clients see it half made, and the whole is retried | a type reported as made is whole, has no member twice, and its instances have what is mandatory |
| Node trees (`UANodeTree`) | a tree of node ids | `createPath`, `createPathFolders` | a failure at each step | planned: `NodeTree` |
| Type wrappers (`objects/`) | an owned `UA_*` value | copies, moves, assignment, array resizing | ownership of deep copies | not modelled |
| Methods, discovery | none besides arguments, or one loop | forwarding | | not modelled: nothing a step could get wrong that the modules above do not have |
| jsoncpp, examples | | | third-party code; programs using the library | not modelled |

How the parts interact:

* **Client -> library**: calls, most of them under `m_mutex` held exclusively.
  `initialise`, `runIterate` and the deletion of the `UA_Client` are outside it.
* **library -> Client**: `stateCallback`, `clientCallback`, the subscription and
  monitored item callbacks, always on the thread that is inside the library. They
  find their object through a raw context pointer.
* **Client -> subscriptions -> monitored items**: ownership by `unique_ptr`s and
  `shared_ptr`s in maps. Destructors call the library, and `Client::client()`, which
  takes `m_mutex` shared.
* **library -> callback objects**: the queue of the `UA_Server` holds the addresses of
  Timers, which the Server owns, and of callback objects, which the application owns.
* **callers -> address space**: server threads and remote clients read and change the
  same nodes, each through calls that are atomic one by one.
* **library -> Server**: static callbacks find the Server in the static
  `s_serverMap` by the address of the `UA_Server`.
* **cache thread -> Clients**: `process()` on every entry of a shared map.

`PROJECT.json` lists the hazards of this code one by one, each at its line.

## 2. Modules

| module | models | proofs |
|---|---|---|
| `ClientTimers` | timers of a Client | `ClientTimersProofs` |
| `ClientSession` | connection, states and locking of a Client | `ClientSessionProofs` |
| `ClientSubscriptions` | subscriptions, monitored items and filters of a Client | `ClientSubscriptionsProofs` |
| `ServerLifecycle` | life cycle of Servers, `s_serverMap`, node contexts | `ServerLifecycleProofs` |
| `Scheduler` | abstract: what any of the timers promises | - |
| `ServerCallbacks` | timers and callback objects of a Server | `ServerCallbacksProofs` |
| `Conditions` | `ServerCallbacks` together with the conditions of the Server | in `ServerCallbacksProofs` |
| `AddressSpace` | paths and trees of Server and Client | `AddressSpaceProofs` |
| `ObjectTypes` | `ServerObjectType` over the address space | `ObjectTypesProofs` |
| `CacheThread` | `ClientCache` and `ClientCacheThread` | `UtilityProofs` |
| `PropertyTree` | `PropertyTree` and `Node` on one thread | `UtilityProofs` |

Each concrete one has an `MC...` module and one or more `.cfg` files; `ServerCallbacks`
is checked as part of `Conditions`, which extends it: the two share the UA_Server and
its end. `CacheThread` and `PropertyTree` share nothing; `MCUtilities` explores them in one run,
each while the other is in its initial state. `ClientTimers` and `ServerCallbacks` implement
`Scheduler`. The three client
modules
look at one Client under three angles and share no variable: `ClientSession` counts
subscriptions and timers, whose identities are the subject of the other two, and
those take the connection as a Boolean and locking for granted.

Conventions. Objects (`Timer`, `ClientSubscription`, `MonitoredItem`) are members
of a constant set, each used for one object only, with a life `"free"`, `"live"`,
`"dead"`. Where the code reaches undefined behaviour (a use after destruction, an
unordered write) the step sets `fault` (`ClientSession`: `pc = "undefined"`), and no
further step is enabled: nothing is said about what follows. A variable marked
*history* records what happened and guards no step. The definitions under a *bug to
detect* comment are wrong on purpose: each is the code with a plausible mistake, and
shows that a property can tell.

### ClientTimers

`registered` is the library's queue, `timerMap` is `_timerMap`, `state`, `idOf` and
`oneShot` are the Timer objects. `~Timer` unregisters its id *in the UA_Client the
wrapper has at that moment*: `Unregister`. `_timerMap[id] = std::move(t)` destroys a
Timer already there after the new one took its place: `Store`. `AddTimerFails` has
what the code does when the library refuses: `callbackId` still holds whatever the
caller had in it, and the Timer is stored under it. Handlers run between `Fire` and
`HandlerReturns`, and may take any step in between, `initialise` apart.

### ClientSession

A thread runs `connect` as `initialise` (without the lock: `Initialise`, `Replace`),
then the lock (`TakeLock`), then the library, which moves from state to state
(`Advance`) and reports every change by calling back on the same thread:
`StateChange`, `SessionHook`, `ChannelEdge`, `ChannelHook`, in the order of
`Client::stateChange`. `disconnectAsync` clears the timers under the lock first
(`ClearTimersThenDisconnect`). All services under the lock (`readAttribute`,
`writeAttribute`, `callMethod`, ...) are one call, `"service"`. The library's channel and
session states are grouped into four phases; a lost connection comes with a bad
status, which `stateChange` passes to `connectFail` only. On its way down the library may
report a session that is closing before one that is closed (`Downwards`).

### ClientSubscriptions

`inMap` is `m_subscriptions`, `map` the `m_map` of each subscription, `libSubs` and
`libItems` what the library knows. `Confirmed` is the answer of the server to a
deletion: while the connection is good it may confirm any part, afterwards none.
A server that lost a session may give the id of one of its subscriptions, still in
`m_subscriptions`, to a new one, which then replaces it (`AddSubscriptionOver`) and whose
deletion the destructor of the old one asks for.
`DeleteMonitorItem` contains the nested run of `remove()` that the library's deletion
callback causes. `ClearSubscriptions` differs from `RemoveSubscription` in that the
map is looked up while it destroys its elements.

### ServerLifecycle

Each Server has an owner thread, which runs `start()` (phases `"create"`,
`"initialise"`, `"test"`, `"iterate"`) or calls `create()` and `shutdown()` itself
(`"own"`, `"shut"`), and then `terminate()` in three steps: shut down, delete the
`UA_Server`, erase the key. `UA_Server_new` returns any address at which there is no
`UA_Server`, also one whose key is still to be erased. Node operations test `server()`
(`Call`), take the lock and enter the library (`Locked`), where the constructor or
destructor callback looks the Server up and calls the `NodeContext`; a node whose
`construct()` fails is dropped (`ConstructFails`). `Request` is the same on behalf of a
remote client inside `iterate()`. Deleting the `UA_Server` destructs what nodes are left.

The library's callbacks differ in what they do when no Server is found. Construction,
destruction and the value callbacks of a `NodeContext` do nothing
(`Called`, `ContextCallback`), a type's constructor fails the node, which is destructed
and dropped (`TypeConstructFails`), access control refuses (`AccessDenied`), and the
history callbacks use the null pointer (`UseServer`, fault `"nullServer"`), most of those
of the back end only with a session. Reading an attribute reaches the NodeContext only,
writing one the history as well.

### Scheduler, ServerCallbacks, Conditions

`Scheduler` knows jobs with a phase: idle, scheduled once or repeatedly, gone. Jobs are
called one at a time and only while scheduled; scheduling ends with the call of a
once-only job, and may end at any other moment. `SchedulePhase` in `ClientTimers` and in
`ServerCallbacks` computes the phase of each object from the queue, its life and its
`oneShot`; `current` is the object whose handler runs.

`ServerCallbacks` has the queue of the UA_Server (`queue`), `_timerMap` and the objects:
Timers, `ServerTimedCallback`s and `ServerRepeatedCallback`s, each with its `_id`. A fired
callback object keeps its `_id`, so `Start` is disabled until `Stop`; `Stop` and
`DestroyCallback` remove whatever id there is, 0 included. All run on the server's
thread, from a handler or in between; `Terminate` clears `_timerMap` before the queue goes
with the UA_Server.

`Conditions` adds the condition nodes and `_conditionMap`. The code clears the id of a new
condition before it hashes it, so each is stored under the null id and destroys the one
before (`CreateCondition`); `DeleteCondition` finds something under no other key.

### AddressSpace

`there`, `nameOf` and `refs` are the address space; `call` is what each caller is doing.
`refs` has a set of nodes for each node: the library lists references in an order of its
own, so a walk may go down to any child of the right name, and the loops of a browse may
take its children in any order.
A walk (`Walk`) goes down one level for each browse, and adds folders from where the path
ends (`AddFolder`). A browse of a tree keeps an agenda, which is what the loops of
`browseChildren` in the recursion have yet to look at, and the map of what it has seen; the map is the
result, or is deleted node by node (`BrowseEnds`, `DeleteOne`). One step is one library
call, so everything else may happen between two of them. The services of a client may
fail: a browse that fails looks like a node without children, a child whose name cannot be
read is not listed, neither of which the code tells apart, and a node that was not deleted is
passed over (`misread` records it). The calls that read the names of one round are one step
with its browse (`Walk`): names do not change, and a Server fails to read only those of
children that are gone by then, as if it had browsed later.
`linked` records every reference there ever was, `overlapped` whether two calls ran at
a time.

### ObjectTypes

A class is the list of members its `addChildren` adds, joined by `&&` as in
`examples/TestServer/testobject.h`: `GoOn` takes the next one or reports success,
`GiveUp` is a refused call, after which what was made stays. A type is one node
(`AddType`, `AppendType`), a member another (`AddMember`), and its reference to
ModellingRuleMandatory a call of its own (`MarkMandatory`). The thread that is making a
type, the other threads and the clients take turns between these calls.

Where the code passes ids in a surprising way the model does: a folder's reference goes to
the placeholder that `notNull()` makes, so a mandatory folder always fails; `append` adds
the members to the id that was asked for, and ends before them when the caller's id is null.
`finished` are the types reported as made and still there, `cut` the nodes that were
deleted or lost a member (a type deleted and made anew while its first maker is still at it
gets members from both, so `NoTwinMembers` leaves `cut` out), `instance` what the last instance has and what was due.

### CacheThread, PropertyTree

`CacheThread` has one caller and the thread. A start may fail (`StartFails`), and the
caller may drop the object at any time between two calls (`Destroy`), which ends the
program if the thread was not joined. `early` records whether the last
`stop()` came before the thread had set `m_running`.

`PropertyTree` is a function on key sequences; an entry is a node or `Ghost`, the null
pointer that `operator[]` leaves under an unknown name. `Find` is translated as it is
written: it never returns a node. The history follows the requests and not what `find`
returns: `wanted` is what `set` and `setChild` were asked to store, less what `removeChild`
and `clear` were asked to take away, and `removed` the part of it that `remove` was asked to
take away. `StoredIsThere` allows either outcome for that part; that it is gone is
`RemovedIsGone`, which the code violates.

## 3. Runs

| run | instance | shows |
|---|---|---|
| `client_timers` | 4 Timers, 3 ids, 3 UA_Clients, refusals | `RegisteredIsOwned`, `OwnedUnderItsId`, `OneShotIsSpent`, `AdditionSparesTheScheduled`, `ImplementsScheduler`; `LiveIsScheduled` for the first UA_Client |
| `client_session` | 1 thread, 3 UA_Clients, 2 subscriptions, 2 timers, losses | `QuietStatesAgree`, `SubscriptionsHaveASession`, `CallsReturn` |
| `client_session_threads` | 2 threads, 1 UA_Client, 1 timer, losses | `LockedCallsExclude`, `CallsReturn` |
| `client_subscriptions` | 2 subscriptions, 3 items, 3 keys, losses, refusals | `ObjectsAreOwned`, `KeysAreNotRecycled`; `LibraryMirrorsWrapper` while nothing was lost or refused |
| `server_lifecycle` | 2 Servers, 1 worker, 1 node, 1 address | `RoutedToItsWrapper`, `ReachableWhileIterating`, `ContextsArePaired`, `StopEndsStart` |
| `server_callbacks` | 2 Timers, 1 timed and 1 repeated callback, 3 ids, 2 conditions, refusals | `QueuedIsAlive`, `TimersAreOwned`, `AcceptedStaysQueued`, `ConditionsAreMirrored`, `ImplementsScheduler` |
| `address_space` | 1 server thread, 1 client, 4 nodes with a cycle and a foreign one, 2 nodes to be added, 3 calls | `FoundIsOnPath`, `NoTwins`, `CutsOnlyBelow`, `DeletedIsGone`, `CallsReturn` |
| `object_types` | 3 classes with 1 or 2 members, 6 nodes, one id asked for again and again, 2 types begun | `FinishedIsWhole`, `NoTwinMembers`, `InstancesAreWhole` |
| `utilities` | cache: 3 entries, 3 starts | `StoppedIsQuiet`, `BegunThreadStops` |
| | tree: 2 names, 2 levels, 1 value | `StoredIsThere`, `ChangesAreFlagged`, `AbsolutePathLeadsBack` |
| `property_tree_remove` | 1 name, 1 level, 1 value | violated: `RemovedIsGone` |
| `client_session_self_deadlock` | 1 thread | violated: `NoSelfDeadlock` |
| `client_subscriptions_double_delete` | 1 item | violated: `FilterDeletedOnce` |

The bounds. Timers: a stale Timer, the one that replaces it and a third to be hit by
mistake are needed, one more is spare; a third UA_Client makes a Timer two clients
old. Sessions: a second connect deletes an open client, a third one that was
replaced before. Subscriptions: an item can be in the map under two keys while a key
of a deleted item is free, and both subscriptions can have items. Servers: two
Servers hold the one address in turn, or the second while the first has yet to erase
its key; two Servers with different addresses touch different keys. Server callbacks: three ids are one for each
kind of object, or two for an object that is started again while another holds the
third; two Timers collide under one id after a refusal; the second condition is the one
that replaces. Address space: the path of two names needs two new nodes; a third call
repeats a call that gave up half way while another is under way, or deletes what two
calls made; the cycle and the foreign node are what browsing must stop at. Object types: a type, one
derived from it or a retry under the same id, and the four members they have, are six nodes;
the classes differ in the order of folders, variables and marks. Property
tree:
two levels have siblings, descendants and a path that exists in part; the state is
the product of two trees, so that a third level is out of reach, and `CopiedOrRemoved` leaves
out trees that were copied to after a `remove` or the other way round: `remove` does not
touch the copy, nor `copyTo` the tree.

`CHECK_DEADLOCK FALSE` is set throughout: objects, ids and starts are used up, undefined
behaviour ends a behaviour, and a terminated Server does nothing more.

### Fairness

* `ClientSession`: strong fairness of each thread's own steps and weak fairness of
  `Return`. Strong, because a thread waits for a mutex that others take again and
  again; `m_mutex` is a `boost::shared_mutex`, which lets every waiter have its turn, and
  `std::shared_mutex` would have to be assumed to. The rest says that
  the library comes back from a call it has finished, which its timeouts make true.
* `ServerLifecycle`: the owner goes on inside `create`, the loop and `terminate`; node
  operations get the lock as above. The users' hooks `initialise()` and `process()`
  return.
* `AddressSpace`: a thread inside a call goes on and the library answers every call, if
  only with a failure; its timeouts make that true for a client.
* `CacheThread`: the thread is scheduled, `process()` returns, `join()` does after the
  thread's end.

No fairness is assumed of the callers: nobody has to call anything.

## 4. Proofs

For any number of Timers, callback objects, conditions, ids, UA_Clients, Servers, threads,
subscriptions, items, nodes, paths and classes, trees of any depth, and any bounds on the
calls. The
exceptions are marked: `(1)` holds for any one thread, `(2)` from a start where no node has two
children of one name.

| module | theorem | property |
|---|---|---|
| `ClientTimersProofs` | `NoDanglingCallback` | `RegisteredIsOwned` |
| | `LifetimeIsOwnership` | `OwnedUnderItsId` |
| | `OneShotTimersAreSpent` | `OneShotIsSpent` |
| | `AdditionsAreHarmless` | `AdditionSparesTheScheduled` |
| | `ScheduledUntilSpent` | `LiveIsScheduled` |
| | `ClientTimersAreScheduled` | `ImplementsScheduler` |
| `ClientSessionProofs` | `LockedOperationsExclude` | `LockedCallsExclude` |
| | `OneThreadReadsTheStates` (1) | `QuietStatesAgree` |
| | `SubscriptionsEndWithTheirSession` (1) | `SubscriptionsHaveASession` |
| `ClientSubscriptionsProofs` | `TypeCorrect` | `TypeOK` |
| | `OwnersDecideLifetimes` | `ObjectsAreOwned` |
| | `KeysStayUsed` | `KeysAreNotRecycled` |
| | `LibraryKnowsTheOwned` | `LibraryMirrorsWrapper` |
| `ServerLifecycleProofs` | `TypeCorrect` | `TypeOK` |
| | `CallbacksReachTheirWrapper` | `RoutedToItsWrapper` |
| | `IteratingServersAreFound` | `ReachableWhileIterating` |
| | `ContextsPair` | `ContextsArePaired` |
| `ServerCallbacksProofs` | `NoDanglingCallback` | `QueuedIsAlive` |
| | `LifetimeIsOwnership` | `TimersAreOwned` |
| | `AcceptedUntilEnded` | `AcceptedStaysQueued` |
| | `ServerCallbacksAreScheduled` | `ImplementsScheduler` |
| | `ConditionsMirrorNodes` | `ConditionsAreMirrored` |
| | `ConditionsLeaveCallbacksAlone` | `Spec` of `ServerCallbacks` |
| `AddressSpaceProofs` | `TypeCorrect` | `TypeOK` |
| | `WalksFollowTheirPath` | `FoundIsOnPath` |
| | `DeletionsStayBelow` | `CutsOnlyBelow` |
| | `FoldersAreMadeOnce` (2) | `NoTwins` |
| | `DeletionsAreComplete` | `DeletedIsGone` |
| `ObjectTypesProofs` | `FinishedTypesAreWhole` | `FinishedIsWhole` |
| | `MembersAreAddedOnce` | `NoTwinMembers` |
| | `WholeTypesMakeWholeInstances` | `InstancesAreWhole` |
| `UtilityProofs` | `TypeCorrect` | `TypeOK` of `PropertyTree` |
| | `StoredUntilRemoved` | `StoredIsThere` |
| | `PathsLeadBack` | `AbsolutePathLeadsBack` |
| | `ChangesSetTheFlag` | `ChangesAreFlagged` |
| | `FindReturnsNull` | the value of `Find` |
| | `QuietOnceStopped` | `StoppedIsQuiet` of `CacheThread` |

`TypeOK` of `ClientTimers`, `ClientSession`, `ServerCallbacks` and `ObjectTypes` is the
theorem `TypeCorrect` of the module's proofs, `CacheTypeOK` of `CacheThread` the
theorem `CacheTypeCorrect`; they are therefore in no run.

**Client timers.** `RegisteredIsOwned` is not inductive: destroying a Timer unregisters one
id, and if another id led to that Timer too, a dangling pointer would remain. The
inductive invariant is `Ownership`, the conjunction of `TypeOK`, `RegisteredIsOwned` and
`OwnedUnderItsId`. All that changes the tables is either storing a fresh Timer
(`StoreKeepsOwnership`, accepted or refused) or destroying what the map owns under some
keys (`DestroyKeepsOwnership`, of which erasing one key and clearing the map are
instances). `OneShotIsSpent` follows from `Ownership` in one step.

`AdditionSparesTheScheduled` needs an order as well: `IdsHandedOut` says that the queue,
and the Timer whose handler runs, have ids below the next one. What an addition finds
under its new id was therefore left by an earlier UA_Client, and is neither in the queue
nor running.

`LiveIsScheduled` takes more: a Timer is stored under the id the library just handed
out, and nothing else must be there. `OneClient` says that the map has no entry for an
id still to come; it is inductive together with `Ownership` as long as there was one
UA_Client and no refusal. Without those conditions the property fails: a stale Timer that
is replaced takes the registration of the new one away.

**The scheduler.** Both refinements go by the phase an object has before and after a step. A
step of the code is, for `Scheduler`, one object put on the schedule, the call of one,
the return from a handler, or any number of objects that fall off (`LapseStep`,
`ScheduleStep`, `SchedulerStep`): destroying Timers, stopping callbacks and the end of the
UA_Client or UA_Server are all of the last kind. What the mapping needs of the code is
`Ownership`: an object that is queued is alive, so it never comes back from `"gone"`.

**Client session.** `LockedCallsExclude` needs to know which calls can be under way at each
`pc`, and that a thread which is to take the lock does not hold it: the invariant
`Exclusion`. That `made` stays within its bound (`TypeCorrect`) is a counting argument: a
thread that began to connect has yet to make its UA_Client, and `Budget` counts those
threads; it is why the set of threads is assumed to be finite.

`Tracking` says what the wrapper knows at each step of one thread: outside the handlers
the cached states are the library's, or the UA_Client is new and down; inside them the report
that is handled is the library's state; and with subscriptions the session is open.
It is inductive for one thread. With two, a report can overtake another between
the library and the handlers, and TLC finds `QuietStatesAgree` violated, so the hypothesis
cannot be dropped: the code tells the states to one caller at a time.

**Client subscriptions.** `ObjectsAreOwned` is inductive together with `KeysAreUsedUp`, that
every key in use is at most `m_monitorId`; the latter gives `KeysAreNotRecycled`.
`LibraryMirrorsWrapper` needs that ownership (`Mirror`): what is destroyed is what
was owned, and with every deletion confirmed the library has forgotten it before.

**Server life cycle.** Who is found by a callback depends on three things (`Routing`): two Servers
with UA_Servers of their own have different addresses unless one was reused
(`Pointers`); a key belongs to a Server that has that address and has registered itself
(`KeysAreHeld`); and such a Server is found as long as it iterates. For `ContextsArePaired`,
`Homes` adds that a node which is not `strayed` has a Server that was not reused and still finds
itself, so that the destructor has a NodeContext to call. The bound on `balance` in
`TypeOK` is the other counting argument: a construction or destruction can only miss its
counterpart when a key came or went in between, and each Server brings one key once
(`Balanced`, over the Servers `Past` and `Unkeyed`).

**Server callbacks and conditions.** As for the client's timers, with callback objects beside the
Timers: `Ownership` adds to `QueuedIsAlive` and `TimersAreOwned` that the queue has nothing
under the id 0 and nothing at all once the UA_Server is gone (`QueueIsBounded`), so that a
callback object without an id is not queued. `AcceptedStaysQueued` is about removals
that hit the wrong object: a spent callback object keeps its id and removes it once more, and
one without an id removes the id 0. `ended` has the ids that were called for the last time, or
whose owner removed, stopped or destroyed what they stand for; all others that were handed out
are in the queue. `refused` has the ids under which a refused addition stored its Timer, and
these are excepted: that Timer destroys, and so unqueues, the one it replaces, and later
unregisters whatever has its id. `IdsAreHandedOut` says that callback objects, and Timers no
refusal is to blame for, have ids below the next one, that nothing ended before it was handed
out, and that the id of a one-shot Timer whose handler runs has ended; with `Ownership` that
makes it inductive (`Acceptance`).

`ConditionsMirrorNodes` rests on what the code's clearing of the id leads to: all conditions
are in the map under the null id (`NullIdHoldsAll`). The theorems about timers are about `Spec` of
`ServerCallbacks`; `ConditionsLeaveCallbacksAlone` carries them over to the specification the
run checks.

**Address space.** All steps of both kinds of callers are brought under one form (`Stepping`): the
record of one caller changes in one of eleven ways, and only `Adds` and `Cuts` change the
address space. `Graph` relates it to its history: what was ever referred to has a name, so
that a new node is new to `linked` as well, and namespace 0 stays.

`FoundIsOnPath`: each walk has a trail of references, made at some time, from its start to the
node it is at (`Walks`). Names are kept and links remembered, so no step of another
caller breaks a trail (`TrailStays`); its own step makes it longer (`TrailGrows`).
`CutsOnlyBelow`: what a browse has in its map or on its agenda is below its start, and what is in
the map is in the start's namespace (`Marks`). What is below a node is defined as the
smallest set closed under the references, so that no recursion is needed.

`NoTwins` and `DeletedIsGone` exclude calls that overlap and services that fail; then all but
one caller are at rest (`OthersRest`), and what a call learned is still so. `Orderly` has four
parts: one call at a time (`Alone`); a folder is to be added only where its name is not
taken (`Fresh`); the references of what is in the map lead, within the namespace, into the map
or the agenda, and only into the map once the agenda is empty (`Spread`); and a node that
hangs on one that is gone is about to be deleted too (`Cut`). When the last node of a map is deleted,
`Cut` makes what is gone closed under references (`LastCut`). It stays gone, because what is new
hangs on nodes that are there (`ClearedStays`).

**Object types.** What is reported in the end is whole because of what a call has made half
way: `Progress` says that the members up to `done` are there, unless the type was cut.
`Bookkeeping` supports it: ids that wait for their reference were generated, so nobody gets
them again. Every step keeps all nodes below uncut types (`Kept`), so that the proof of each
action only deals with what the action adds. `Siblings` says that below a type in the making
there is nothing but what the call has added; it needs that a class names its members
apart, which `ObjectTypesAssumption` says. `InstancesAreWhole` follows from `Progress` in one
step.

**Property tree.** `IsTree` asks for the parent of each entry only, and that is not enough:
`Create` fills the rest of a path from the first gap on, and must know that nothing beyond
the gap is there. `Rooted` says that *every* prefix of the path to an entry leads to a node.
`Built` is the inductive invariant: `Rooted` for both trees, each node named as its
parent knows it (`Named`), all parents set as long as nothing was read back (`Linked`), and the data
as the history has it, up to what `remove` was asked for (`Stored`). Each operation makes of a tree that is built another one
(`LookupKeeps`, `CreateKeeps`, `SetDataKeeps`, `RemovalKeeps`, `ClearKeeps`); under them are facts
about what `Create`, `SetData`, `Without`, `CopyOf` do to the set of nodes, and about
prefixes of sequences. The copy is a tree because the parent of a last child of last
children is one too (`CopyIsRooted`).

`set` and `remove` would break `StoredIsThere` if `find` returned something: they go on
with a node that need not be there. `FindReturnsNull` is what excludes it. `Find` is a recursive
function, and what such a function computes cannot be proved by induction here; but one
that returns the same value in every call is a solution of its equation that can be
written down, and any other solution would have a last call in which it differs
(`LeastNumber`). The same argument finds the first gap in a path (`ExistingIsFirstGap`) and the
end of the way up to the root (`WayUpEnds`).

`UtilityProofs` has both utilities in one module and extends both; the definitions of
`CacheThread` whose names `PropertyTree` uses too carry the word `Cache` (`CacheSpec`).

**Cache thread.** `RoundsAreClosed`: the thread holds entries only during a round and
`m_thread` is joinable as long as there is a thread.

Assumptions: those named in the modules (`...Assumption`). They say that null values are
not objects, that bounds are natural numbers, that there are finitely many threads
(`ClientSession`) and Servers (`ServerLifecycle`), that a null pointer is not a node
(`PropertyTree`), that a class names its members apart, and that
the address space at the start has references only between nodes that are there. TLC
evaluates them in the runs. The invariants above were checked by TLC on the instances of section
3 before they were proved.

Model-checked only: the liveness properties (`CallsReturn` of `ClientSession` and of `AddressSpace`,
`StopEndsStart`, `BegunThreadStops`), which are out of the prover's reach. Every safety property
and every action property of a passing run has a theorem.

## 5. Where the code does something else than it says

With a run of its own, and the line quoted in `PROJECT.json`:

* `disconnect` of a client with a timer or a subscription waits for itself
  (`client_session_self_deadlock`);
* deleting an event item deletes its filter twice (`client_subscriptions_double_delete`);
* `PropertyTree::remove` removes nothing (`property_tree_remove`).

Reached by the models as outcomes or excluded by name from a property:

* `initialise` keeps the Timers of the old UA_Client and the new one counts its ids from 1
  again: an accepted timer is stored over a stale one, whose destructor unregisters the
  new one (`Store`; `made <= 1` in `LiveIsScheduled`);
* a refused timer destroys the Timer whose id the caller's variable holds
  (`AddTimerFails`); a handler that removes its own timer returns into a destroyed
  object (`HandlerReturns`, `"useAfterDestroy"`); clearing timers without a UA_Client
  calls the library with a null pointer (`Destroy`, `"nullClient"`);
* `connect` deletes the UA_Client under a thread that is inside it (`Replace`,
  `"undefined"`);
* a subscription or item whose deletion was not confirmed is destroyed and called later
  (`LibraryCleanup`, `"useAfterFree"`; `clean` excludes it); the filter of an event item
  that is destroyed with its subscription is never released (`Destroy` leaves `filter`);
* a `stop()` before `start()` is lost (`stopped` counts those during `start()`); a node
  operation may enter a UA_Server that was deleted after it tested it (`Locked`,
  `"useAfterDelete"`); `terminate()` erases the key of another Server that got its
  address (`reused` excludes those Servers); nodes added before `create()` or deleted
  after `shutdown()` miss their `NodeContext` (`strayed`); a `construct()` or `destruct()`
  hook that uses its Server waits for the lock its caller holds;
* `stop()` right after `start()` of the cache thread is overwritten by the thread and does
  not return (`Stop`; `early` in `BegunThreadStops`);
* a value written before `create()` or after `shutdown()` to a historizing node goes
  through a null Server (`UseServer`, `"nullServer"`);
* a second condition destroys the first, `findCondition` finds none of them and
  `deleteCondition` with a condition's id deletes nothing (`CreateCondition`, whose key is
  the hash of a cleared id);
* a refused Server timer destroys the Timer whose id the caller's variable holds
  (`AddTimerFails` of `ServerCallbacks`; `refused` excepts that id from
  `AcceptedStaysQueued`), and a timed
  callback that fired does not start again before it is stopped (`Start`);
* two callers of `createFolderPath` at a time, or a client whose browse failed, make a
  folder twice (`overlapped` and `misread` exclude them from `NoTwins`); `deleteTree` leaves
  the children of another namespace without a parent, and returns the status of the
  last call that stored one (`DeletedIsGone` speaks of one namespace);
* the cache must not change during a round (`EditCache`, `"race"`); a second `start()`
  terminates the program (`Start`), and so does destroying a `ClientCacheThread` whose thread
  was not joined (`Destroy`); a `stop()` without a thread throws;
* a path that was set is never found, nor read back (`Find`); setting an existing path
  again reads behind its end (`Set`, `"outOfRange"`); a traversal
  after a failed lookup follows a null pointer (`Visit`, `CopyTo`, `"nullNode"`); `copyTo` keeps one child per node, under the empty name (`CopyOf`);
  nodes that were read have no parent (`Read`; `loaded`).

* `append` without a requested id makes the type and no members, and reports a failure
  (`serverobjecttype.h`: "The derived object type's children are added as well"); with a
  null receiver it does so with one; `addObjectTypeFolder` exchanges the requested id and the
  receiver, so a mandatory folder is never marked (`AppendType`, `AddMember`).

Read in the code that is not modelled:

* `UANodeTree::createPath` and `createPathFolders` take the new id into a `NodeId` that was
  not marked as a receiver, so the tree keeps null ids; `ServerNodeTree` hides instead of
  overrides the operations of its base; `browseTree` into a tree recurses without asking
  for cycles.
* `ServerObjectType::setMandatory` compares a `bool` with a status code, and so reports a
  success as a failure.
* `DiscoveryServer` deletes a configuration that the `UA_Server` deletes as well.
* the continuation points of `_getHistoryData` and `_copyDataValues` point into a string that
  is gone when they return.
* `Server::variable` returns the status of an earlier call; `writeObjectProperty` does not take
  `m_mutex`; `setEnable` and `setReadOnly` read and write the access level in two calls.
* `Server::call` runs methods under `m_mutex`, which a method that uses its Server waits for.
* assigning a type wrapper to itself loses its value, and copies of an `Array` share it.

## 6. Not modelled

* Data: node ids, variants, attribute values, strings. They do not decide anything in
  the parts above.
* Data races proper (a `std::map` written by two threads): each access is one step. Only
  where the outcome is a choice of the code's (`m_running`) the order is explored.
* User hooks that call back into the operation that called them, except from timer
  handlers.
* The type wrappers, whose faults are those of sequential code; jsoncpp, which is third-party
  code; the examples.
* The parts marked *planned* or *not modelled* in the inventory, with reasons in
  `PROJECT.json`.

## 7. Plan

1. `TreeLocks`: the locking of `PropertyTree`, whose `set` and `copyTo` take several locks.
2. `NodeTree`: `UANodeTree` over `AddressSpace`, with failures half way.
