---------------------------- MODULE ClientSession ----------------------------
(***************************************************************************)
(* Connection, state tracking and locking of Open62541::Client.            *)
(*                                                                         *)
(* Threads call the client's operations.  Most of them hold m_mutex        *)
(* exclusively while they are inside the library; initialise, runIterate   *)
(* and UA_Client_delete are not covered by it.  The library reports each   *)
(* change of its secure channel and session by calling stateCallback on    *)
(* the thread that is inside it, and the handlers of a closed session or   *)
(* channel destroy the subscriptions and timers, whose destructors take    *)
(* m_mutex shared through client().                                        *)
(*                                                                         *)
(* The library's states are grouped: "opening" stands for the handshake    *)
(* states between closed and open.                                         *)
(***************************************************************************)
EXTENDS Integers, FiniteSets

CONSTANTS
    Threads,         \* threads using the client
    NoThread,
    MaxClients,      \* bound: UA_Clients made by one wrapper
    MaxSubs,         \* bound: subscriptions held at a time
    MaxTimers,       \* bound: timers held at a time
    MayLose          \* may an established connection be lost?

ASSUME ClientSessionAssumption ==
    /\ NoThread \notin Threads /\ IsFiniteSet(Threads)
    /\ MaxClients \in Nat /\ MaxSubs \in Nat /\ MaxTimers \in Nat
    /\ MayLose \in BOOLEAN

Phases == {"closed", "opening", "open", "closing"}
Link == [channel : Phases, session : Phases, ok : BOOLEAN]
Down == [channel |-> "closed", session |-> "closed", ok |-> TRUE]

VARIABLES
    pc,        \* where each thread is
    call,      \* the library call a thread makes or is about to make
    target,    \* what its connect operation asks for: "channel" or "session"
    sync,      \* does that operation wait for the answer?
    report,    \* the arguments of the stateChange a thread is executing
    inside,    \* the UA_Client a thread is inside of, 0 for none
    writer,    \* the thread holding m_mutex exclusively
    client,    \* m_pClient: 0 is nullptr, n the n-th UA_Client
    made,      \* UA_Clients made so far
    lib,       \* the UA_Client's own channel and session state
    goal,      \* what the library was last asked to reach
    cached,    \* _channelState, _sessionState and _connectStatus
    last,      \* _lastSecureChannelState and _lastSessionState
    subs,      \* number of entries of m_subscriptions
    timers     \* number of entries of _timerMap

thread == <<pc, call, target, sync, report, inside>>
wrapper == <<client, made, cached, last, subs, timers>>
vars == <<thread, wrapper, writer, lib, goal>>

Calls == {"none", "initDisconnect", "delete", "connect", "disconnect",
          "disconnectAsync", "service", "iterate"}
Connecting == {"connect", "initDisconnect", "delete"}
Closing == {"initDisconnect", "delete", "disconnect", "disconnectAsync"}
Locked == {"initDisconnect", "connect", "disconnect", "disconnectAsync",
           "service"}

TypeOK ==
    /\ pc \in [Threads -> {"idle", "initialise", "lock", "clearTimers", "lib",
                           "stateChange", "sessionHook", "channelEdge",
                           "channelHook", "undefined"}]
    /\ call \in [Threads -> Calls]
    /\ target \in [Threads -> {"channel", "session"}]
    /\ sync \in [Threads -> BOOLEAN]
    /\ report \in [Threads -> Link]
    /\ inside \in [Threads -> 0 .. MaxClients]
    /\ writer \in Threads \cup {NoThread}
    /\ client \in 0 .. MaxClients /\ made \in 0 .. MaxClients
    /\ lib \in Link
    /\ goal \in {"closed", "channel", "session"}
    /\ cached \in Link
    /\ last \in [channel : Phases, session : Phases]
    /\ subs \in 0 .. MaxSubs /\ timers \in 0 .. MaxTimers

Init ==
    /\ pc = [t \in Threads |-> "idle"]
    /\ call = [t \in Threads |-> "none"]
    /\ target = [t \in Threads |-> "session"]
    /\ sync = [t \in Threads |-> TRUE]
    /\ report = [t \in Threads |-> Down]
    /\ inside = [t \in Threads |-> 0]
    /\ writer = NoThread
    /\ client = 0 /\ made = 0
    /\ lib = Down /\ goal = "closed"
    /\ cached = Down
    /\ last = [channel |-> "closed", session |-> "closed"]
    /\ subs = 0 /\ timers = 0

-----------------------------------------------------------------------------
Goto(t, where) == pc' = [pc EXCEPT ![t] = where]
Calling(t, what) == call' = [call EXCEPT ![t] = what]

(* A shared lock can be taken by t: even the exclusive owner has to wait.   *)
CanRead == writer = NoThread
CanWrite == writer = NoThread

(* The arguments of stateChange are gone when t goes back to the library,   *)
(* and its other locals when the operation returns.                        *)
BackToLibrary(t) ==
    /\ Goto(t, "lib")
    /\ report' = [report EXCEPT ![t] = Down]

BackToCaller(t) ==
    /\ Goto(t, "idle") /\ Calling(t, "none")
    /\ inside' = [inside EXCEPT ![t] = 0]
    /\ target' = [target EXCEPT ![t] = "session"]
    /\ sync' = [sync EXCEPT ![t] = TRUE]

(* t enters the library with the current m_pClient.                        *)
Enter(t, what) ==
    /\ Goto(t, "lib")
    /\ Calling(t, what)
    /\ inside' = [inside EXCEPT ![t] = client]

(* connect, connectUsername, connectAsync, connectSecureChannel and         *)
(* connectSecureChannelAsync start by calling initialise.                  *)
BeginConnect(t, to, wait) ==
    /\ pc[t] = "idle"
    /\ made + Cardinality({u \in Threads : call[u] \in Connecting}) < MaxClients
    /\ Goto(t, "initialise")
    /\ Calling(t, "connect")
    /\ target' = [target EXCEPT ![t] = to]
    /\ sync' = [sync EXCEPT ![t] = wait]
    /\ UNCHANGED <<report, inside, wrapper, writer, lib, goal>>

(* initialise: getState under the shared lock; an open session is          *)
(* disconnected first, otherwise the UA_Client is deleted at once.         *)
Initialise(t) ==
    /\ pc[t] = "initialise"
    /\ IF client = 0
       THEN /\ made' = made + 1 /\ client' = made + 1
            /\ Goto(t, "lock")
            /\ UNCHANGED <<call, inside, goal>>
       ELSE /\ CanRead
            /\ IF lib.session # "closed"
               THEN Goto(t, "lock") /\ Calling(t, "initDisconnect")
                    /\ UNCHANGED <<inside, goal>>
               ELSE Enter(t, "delete") /\ goal' = "closed"
            /\ UNCHANGED <<made, client>>
    /\ UNCHANGED <<target, sync, report, writer, lib, cached, last, subs,
                   timers>>

(* disconnect and disconnectAsync throw without a UA_Client; readAttribute  *)
(* and the other services return false.                                    *)
BeginLocked(t, what) ==
    /\ pc[t] = "idle" /\ client # 0
    /\ Goto(t, "lock")
    /\ Calling(t, what)
    /\ UNCHANGED <<target, sync, report, inside, wrapper, writer, lib, goal>>

(* Bug to detect: the lock is taken without waiting for it.                *)
TakeLockAtOnce(t) ==
    /\ pc[t] = "lock"
    /\ writer' = t
    /\ goal' = CASE call[t] = "connect" -> target[t]
                 [] call[t] = "service" -> goal
                 [] OTHER -> "closed"
    /\ IF call[t] = "disconnectAsync"
       THEN Goto(t, "clearTimers") /\ UNCHANGED <<call, inside>>
       ELSE Enter(t, call[t])
    /\ UNCHANGED <<target, sync, report, wrapper, lib>>

(* WriteLock l(m_mutex), then the call into the library.  disconnectAsync   *)
(* clears _timerMap in between.                                            *)
TakeLock(t) ==
    /\ pc[t] = "lock" /\ CanWrite
    /\ writer' = t
    /\ goal' = CASE call[t] = "connect" -> target[t]
                 [] call[t] = "service" -> goal
                 [] OTHER -> "closed"
    /\ IF call[t] = "disconnectAsync"
       THEN Goto(t, "clearTimers") /\ UNCHANGED <<call, inside>>
       ELSE Enter(t, call[t])
    /\ UNCHANGED <<target, sync, report, wrapper, lib>>

(* _timerMap.clear() under the exclusive lock: ~Timer calls client().      *)
ClearTimersThenDisconnect(t) ==
    /\ pc[t] = "clearTimers"
    /\ timers > 0 => CanRead
    /\ timers' = 0
    /\ Enter(t, "disconnectAsync")
    /\ UNCHANGED <<target, sync, report, client, made, cached, last, subs,
                   writer, lib, goal>>

(* runIterate: no lock.                                                    *)
RunIterate(t) ==
    /\ pc[t] = "idle" /\ client # 0 /\ cached.ok
    /\ Enter(t, "iterate")
    /\ UNCHANGED <<target, sync, report, wrapper, writer, lib, goal>>

-----------------------------------------------------------------------------
(* The library (external).                                                 *)

(* The states the library may report next on its way up or down.  An open   *)
(* session is reported to be closing before the channel is, or with it, or *)
(* not at all.                                                             *)
Downwards ==
    {l \in Link : /\ l.ok
                  /\ \/ l.channel \in {"closing", "closed"}
                     \/ l.channel = lib.channel /\ l.session = "closing"
                  /\ \/ l.session \in {"closed", lib.session}
                     \/ l.session = "closing" /\ lib.session = "open"
                  /\ l.channel = "closed" => l.session = "closed"
                  /\ lib.channel = "closed" => l.channel = "closed"}

Upwards ==
    IF lib.channel # "open"
    THEN {[lib EXCEPT !.channel = c] : c \in {"opening", "open"}}
    ELSE IF goal = "session" /\ lib.session # "open"
    THEN {[lib EXCEPT !.session = s] : s \in {"opening", "open"}}
    ELSE {}

Lost == [channel |-> "closed", session |-> "closed", ok |-> FALSE]

(* The library moves on and reports every change of its state.  A lost      *)
(* connection is reported once, with a bad status.                         *)
Advance(t) ==
    /\ pc[t] = "lib" /\ lib.ok
    /\ LET down == goal = "closed" \/ call[t] \in Closing IN
       \E l \in (IF down THEN Downwards ELSE Upwards)
               \cup (IF MayLose /\ ~down THEN {Lost} ELSE {}) :
          /\ l # lib
          /\ lib' = l
          /\ report' = [report EXCEPT ![t] = l]
    /\ Goto(t, "stateChange")
    /\ UNCHANGED <<call, target, sync, inside, wrapper, writer, goal>>

(* May the library call of t return?  Synchronous calls return when they    *)
(* reached their goal or failed, connectAsync once the handshake started.  *)
MayReturn(t) ==
    CASE call[t] \in {"initDisconnect", "disconnect", "delete"} ->
             lib.channel = "closed" /\ lib.session = "closed"
      [] call[t] = "connect" ->
             \/ ~lib.ok
             \/ ~sync[t] /\ lib # Down
             \/ IF target[t] = "session" THEN lib.session = "open"
                ELSE lib.channel = "open"
      [] OTHER -> TRUE

(* Bug to detect: the lock is not released.                                *)
ReturnLocked(t) ==
    /\ pc[t] = "lib" /\ call[t] # "delete"
    /\ MayReturn(t)
    /\ IF call[t] = "initDisconnect"
       THEN Enter(t, "delete") /\ UNCHANGED <<target, sync>>
       ELSE BackToCaller(t)
    /\ UNCHANGED <<report, wrapper, writer, lib, goal>>

(* The call returns: the lock, if any, is released, and initialise goes on. *)
Return(t) ==
    /\ pc[t] = "lib" /\ call[t] # "delete"
    /\ MayReturn(t)
    /\ writer' = IF call[t] \in Locked THEN NoThread ELSE writer
    /\ IF call[t] = "initDisconnect"
       THEN Enter(t, "delete") /\ UNCHANGED <<target, sync>>
       ELSE BackToCaller(t)
    /\ UNCHANGED <<report, wrapper, lib, goal>>

(* UA_Client_delete returns, UA_Client_new follows; connect goes on to take *)
(* the lock.  A UA_Client deleted under another thread is undefined        *)
(* behaviour, and nothing is said of what follows.                         *)
Replace(t) ==
    /\ pc[t] = "lib" /\ call[t] = "delete"
    /\ MayReturn(t)
    /\ inside' = [inside EXCEPT ![t] = 0]
    /\ made' = made + 1 /\ client' = made + 1
    /\ lib' = Down
    /\ Calling(t, "connect")
    /\ IF \E u \in Threads \ {t} : inside[u] = client
       THEN pc' = [u \in Threads |-> "undefined"]
       ELSE Goto(t, "lock")
    /\ UNCHANGED <<target, sync, report, cached, last, subs, timers, writer, goal>>

-----------------------------------------------------------------------------
(* Client::stateChange, run by the thread inside the library.              *)

Ends == {"closed", "closing"}

(* The cached states are set; with a good status a session edge is handled  *)
(* first.  A bad status only reaches connectFail.                          *)
StateChange(t) ==
    /\ pc[t] = "stateChange"
    /\ cached' = report[t]
    /\ IF report[t].ok
       THEN /\ Goto(t, IF report[t].session # last.session THEN "sessionHook"
                       ELSE "channelEdge")
            /\ UNCHANGED report
       ELSE BackToLibrary(t)
    /\ UNCHANGED <<call, target, sync, inside, client, made, last, subs,
                   timers, writer, lib, goal>>

(* The destructors of what the handler clears need client().               *)
CanClear(tm) == (subs > 0 \/ (tm /\ timers > 0)) => CanRead

(* Bugs to detect: the last session state is not kept; the subscriptions    *)
(* are not cleared.                                                        *)
SessionHookForgets(t) ==
    /\ pc[t] = "sessionHook"
    /\ LET s == report[t].session IN
       /\ s \in Ends => CanClear(s = "closed")
       /\ subs' = IF s \in Ends THEN 0 ELSE subs
       /\ timers' = IF s = "closed" THEN 0 ELSE timers
    /\ Goto(t, "channelEdge")
    /\ UNCHANGED <<call, target, sync, report, inside, client, made, cached,
                   last, writer, lib, goal>>

SessionHookKeepsSubscriptions(t) ==
    /\ pc[t] = "sessionHook"
    /\ LET s == report[t].session IN
       /\ timers' = IF s = "closed" THEN 0 ELSE timers
       /\ last' = [last EXCEPT !.session = s]
    /\ Goto(t, "channelEdge")
    /\ UNCHANGED <<call, target, sync, report, inside, client, made, cached,
                   subs, writer, lib, goal>>

(* SessionStateClosed clears both maps, SessionStateClosing the             *)
(* subscriptions, the other session handlers nothing.                      *)
SessionHook(t) ==
    /\ pc[t] = "sessionHook"
    /\ LET s == report[t].session IN
       /\ s \in Ends => CanClear(s = "closed")
       /\ subs' = IF s \in Ends THEN 0 ELSE subs
       /\ timers' = IF s = "closed" THEN 0 ELSE timers
       /\ last' = [last EXCEPT !.session = s]
    /\ Goto(t, "channelEdge")
    /\ UNCHANGED <<call, target, sync, report, inside, client, made, cached,
                   writer, lib, goal>>

ChannelEdge(t) ==
    /\ pc[t] = "channelEdge"
    /\ IF report[t].channel # last.channel
       THEN Goto(t, "channelHook") /\ UNCHANGED report
       ELSE BackToLibrary(t)
    /\ UNCHANGED <<call, target, sync, inside, wrapper, writer, lib, goal>>

(* SecureChannelStateClosed and SecureChannelStateClosing clear both maps. *)
ChannelHook(t) ==
    /\ pc[t] = "channelHook"
    /\ LET c == report[t].channel IN
       /\ c \in Ends => CanClear(TRUE)
       /\ subs' = IF c \in Ends THEN 0 ELSE subs
       /\ timers' = IF c \in Ends THEN 0 ELSE timers
       /\ last' = [last EXCEPT !.channel = c]
    /\ BackToLibrary(t)
    /\ UNCHANGED <<call, target, sync, inside, client, made, cached, writer,
                   lib, goal>>

-----------------------------------------------------------------------------
(* addSubscription succeeds inside a session; removeSubscription,           *)
(* addTimedEvent or addRepeatedTimerEvent, removeTimerEvent.               *)
AddSubscription(t) ==
    /\ pc[t] = "idle" /\ client # 0 /\ CanRead
    /\ lib.session = "open" /\ subs < MaxSubs
    /\ subs' = subs + 1
    /\ UNCHANGED <<thread, client, made, cached, last, timers, writer, lib,
                   goal>>

RemoveSubscription(t) ==
    /\ pc[t] = "idle" /\ subs > 0 /\ CanRead
    /\ subs' = subs - 1
    /\ UNCHANGED <<thread, client, made, cached, last, timers, writer, lib,
                   goal>>

AddTimer(t) ==
    /\ pc[t] = "idle" /\ client # 0 /\ timers < MaxTimers
    /\ timers' = timers + 1
    /\ UNCHANGED <<thread, client, made, cached, last, subs, writer, lib, goal>>

RemoveTimer(t) ==
    /\ pc[t] = "idle" /\ timers > 0 /\ CanRead
    /\ timers' = timers - 1
    /\ UNCHANGED <<thread, client, made, cached, last, subs, writer, lib, goal>>

Begin(t) ==
    \/ \E to \in {"channel", "session"}, wait \in BOOLEAN : BeginConnect(t, to, wait)
    \/ \E what \in {"disconnect", "disconnectAsync", "service"} : BeginLocked(t, what)
    \/ RunIterate(t)
    \/ AddSubscription(t) \/ RemoveSubscription(t)
    \/ AddTimer(t) \/ RemoveTimer(t)

Continue(t) ==
    \/ Initialise(t) \/ TakeLock(t) \/ ClearTimersThenDisconnect(t)
    \/ Advance(t) \/ Return(t) \/ Replace(t)
    \/ StateChange(t) \/ SessionHook(t) \/ ChannelEdge(t) \/ ChannelHook(t)

Next == \E t \in Threads : Begin(t) \/ Continue(t)

(* A call that was started goes on: a thread is scheduled, obtains a lock   *)
(* that keeps becoming free, and the library returns from a call it has    *)
(* finished.                                                               *)
Fairness ==
    \A t \in Threads :
        /\ SF_vars(Continue(t))
        /\ WF_vars(Return(t))

Spec == Init /\ [][Next]_vars
FairSpec == Spec /\ Fairness

-----------------------------------------------------------------------------
Idle == \A t \in Threads : pc[t] = "idle"

(* The operations documented as thread-safe exclude each other: whoever is  *)
(* inside the library on behalf of one of them, or runs a handler it       *)
(* called, is the exclusive owner of m_mutex (connect, disconnect,         *)
(* disconnectAsync, readAttribute).                                        *)
LockedCallsExclude ==
    \A t \in Threads :
        pc[t] \notin {"idle", "initialise", "lock", "undefined"} /\ call[t] \in Locked
            => writer = t

(* Whenever no call is under way the states the wrapper hands out are those *)
(* of its UA_Client, and with a good status the handlers have been told of *)
(* them (Client::stateChange, getSessionState, getChannelState).           *)
QuietStatesAgree ==
    Idle => /\ cached = lib
            /\ cached.ok => /\ last.channel = lib.channel
                            /\ last.session = lib.session

(* A subscription never outlives the session the handlers last saw opened: *)
(* none is carried from one session into the next                          *)
(* (Client::stateChange, SessionStateClosed, SessionStateClosing).         *)
SubscriptionsHaveASession == subs > 0 => last.session = "open"

(* Nobody waits for a lock it holds itself: the destructors of timers and   *)
(* subscriptions call Client::client(), which takes m_mutex shared         *)
(* (disconnect, disconnectAsync, connect).                                 *)
NoSelfDeadlock ==
    \A t \in Threads : writer = t =>
        /\ pc[t] = "clearTimers" => timers = 0
        /\ pc[t] = "sessionHook" /\ report[t].session \in Ends =>
               CanClear(report[t].session = "closed")
        /\ pc[t] = "channelHook" /\ report[t].channel \in Ends => CanClear(TRUE)

(* A thread is inside the UA_Client that another one is deleting.          *)
DeletedUnderThread ==
    \E t, u \in Threads :
        t # u /\ call[t] = "delete" /\ inside[t] # 0 /\ inside[u] = inside[t]

(* Every call returns, however the threads interleave and whichever states  *)
(* the library passes through, unless a thread waits for itself or works   *)
(* with a UA_Client being deleted (connect, disconnect, runIterate and the *)
(* services).                                                              *)
CallsReturn ==
    \A t \in Threads :
        pc[t] # "idle" ~>
            pc[t] \in {"idle", "undefined"} \/ ~NoSelfDeadlock \/ DeletedUnderThread
=============================================================================
