------------------------- MODULE ClientSessionProofs -------------------------
(***************************************************************************)
(* Proofs about ClientSession for any bounds and any finite set of threads, *)
(* or for any one thread where it says so.                                 *)
(*                                                                         *)
(* LockedCallsExclude is almost inductive.  What it lacks is which call a  *)
(* thread is making when it clears _timerMap with the lock held.  The       *)
(* bound on UA_Clients holds because each connect that is under way has    *)
(* yet to make its own (Budget).                                           *)
(*                                                                         *)
(* That the states handed out are the library's is proved for one thread    *)
(* (Tracking): two threads report their states in either order, and with   *)
(* two QuietStatesAgree does not hold.                                     *)
(***************************************************************************)
EXTENDS ClientSession, FiniteSetTheorems, TLAPS

Places == {"idle", "initialise", "lock", "clearTimers", "lib", "stateChange",
           "sessionHook", "channelEdge", "channelHook", "undefined"}

Programs == pc \in [Threads -> Places] /\ call \in [Threads -> Calls]

ClearingIsDisconnecting ==
    \A t \in Threads : pc[t] = "clearTimers" => call[t] = "disconnectAsync"

Exclusion == Programs /\ ClearingIsDisconnecting /\ LockedCallsExclude

(* A step moves one thread, or leaves every thread in "undefined".          *)
Moves(t) ==
    \E where \in Places, what \in Calls :
        pc' = [pc EXCEPT ![t] = where] /\ call' = [call EXCEPT ![t] = what]

Outside == {"idle", "initialise", "lock", "undefined"}

(* What a step of t may do to the lock: t takes it while nobody has it, t   *)
(* gives it up when it leaves its locked call, or nothing happens to it.   *)
Takes(t) == writer = NoThread /\ writer' = t
Keeps(t) ==
    /\ writer' = writer
    /\ pc'[t] \in Outside \/ call'[t] \notin Locked
       \/ (pc[t] \notin Outside /\ call[t] \in Locked)
Leaves(t) ==
    /\ pc[t] \notin Outside
    /\ writer' = IF call[t] \in Locked THEN NoThread ELSE writer
    /\ pc'[t] \in Outside \/ call'[t] \notin Locked

(* Every operation of a thread moves that thread alone and handles the lock *)
(* in one of the three ways, or ends in undefined behaviour.               *)
LEMMA StepShape ==
    ASSUME NEW t \in Threads, Exclusion, Begin(t) \/ Continue(t)
    PROVE  \/ /\ Moves(t)
              /\ Takes(t) \/ Keeps(t) \/ Leaves(t)
              /\ pc'[t] = "clearTimers" => call'[t] = "disconnectAsync"
           \/ /\ pc' = [u \in Threads |-> "undefined"]
              /\ call' = [call EXCEPT ![t] = "connect"]
<1> USE DEF Exclusion, Programs, Places, Calls, Locked, Outside, Goto, Calling
<1>1. CASE \E to \in {"channel", "session"}, wait \in BOOLEAN :
              BeginConnect(t, to, wait)
  <2>1. /\ pc' = [pc EXCEPT ![t] = "initialise"]
        /\ call' = [call EXCEPT ![t] = "connect"] /\ writer' = writer
    BY <1>1 DEF BeginConnect
  <2> QED BY <2>1 DEF Moves, Keeps
<1>2. CASE \E what \in {"disconnect", "disconnectAsync", "service"} :
              BeginLocked(t, what)
  <2>1. PICK what \in {"disconnect", "disconnectAsync", "service"} :
              BeginLocked(t, what)
    BY <1>2
  <2>2. /\ pc' = [pc EXCEPT ![t] = "lock"]
        /\ call' = [call EXCEPT ![t] = what] /\ writer' = writer
    BY <2>1 DEF BeginLocked
  <2> QED BY <2>2 DEF Moves, Keeps
<1>3. CASE RunIterate(t)
  <2>1. /\ pc' = [pc EXCEPT ![t] = "lib"]
        /\ call' = [call EXCEPT ![t] = "iterate"] /\ writer' = writer
    BY <1>3 DEF RunIterate, Enter
  <2> QED BY <2>1 DEF Moves, Keeps
<1>4. CASE AddSubscription(t) \/ RemoveSubscription(t)
           \/ AddTimer(t) \/ RemoveTimer(t)
  <2>1. /\ pc[t] = "idle" /\ pc' = pc /\ call' = call /\ writer' = writer
    BY <1>4 DEF AddSubscription, RemoveSubscription, AddTimer, RemoveTimer, thread
  <2>2. Moves(t)
    BY <2>1 DEF Moves
  <2> QED BY <2>1, <2>2 DEF Keeps
<1>5. CASE Initialise(t)
  <2>1. PICK where \in {"lock", "lib"}, what \in {call[t], "initDisconnect", "delete"} :
           /\ pc' = [pc EXCEPT ![t] = where]
           /\ call' = [call EXCEPT ![t] = what]
           /\ writer' = writer
           /\ where = "lib" => what = "delete"
    BY <1>5 DEF Initialise, Enter
  <2> QED BY <2>1 DEF Moves, Keeps
<1>6. CASE TakeLock(t)
  <2>1. /\ writer = NoThread /\ writer' = t
        /\ \/ pc' = [pc EXCEPT ![t] = "clearTimers"] /\ call' = call
              /\ call[t] = "disconnectAsync"
           \/ /\ pc' = [pc EXCEPT ![t] = "lib"]
              /\ call' = [call EXCEPT ![t] = call[t]]
    BY <1>6 DEF TakeLock, CanWrite, Enter
  <2> QED BY <2>1 DEF Moves, Takes
<1>7. CASE ClearTimersThenDisconnect(t)
  <2>1. /\ pc[t] = "clearTimers" /\ writer' = writer
        /\ pc' = [pc EXCEPT ![t] = "lib"]
        /\ call' = [call EXCEPT ![t] = "disconnectAsync"]
    BY <1>7 DEF ClearTimersThenDisconnect, Enter
  <2>2. call[t] = "disconnectAsync"
    BY <2>1 DEF ClearingIsDisconnecting
  <2> QED BY <2>1, <2>2 DEF Moves, Keeps
<1>8. CASE Advance(t) \/ StateChange(t) \/ SessionHook(t) \/ ChannelEdge(t)
           \/ ChannelHook(t)
  <2>1. /\ pc[t] \notin Outside /\ call' = call /\ writer' = writer
        /\ \E where \in {"lib", "stateChange", "sessionHook", "channelEdge",
                         "channelHook"} : pc' = [pc EXCEPT ![t] = where]
    BY <1>8 DEF Advance, StateChange, SessionHook, ChannelEdge, ChannelHook,
                BackToLibrary, wrapper
  <2>2. Moves(t)
    BY <2>1 DEF Moves
  <2> QED BY <2>1, <2>2 DEF Keeps
<1>9. CASE Return(t)
  <2>1. /\ pc[t] = "lib"
        /\ writer' = IF call[t] \in Locked THEN NoThread ELSE writer
        /\ \/ pc' = [pc EXCEPT ![t] = "lib"] /\ call' = [call EXCEPT ![t] = "delete"]
           \/ pc' = [pc EXCEPT ![t] = "idle"] /\ call' = [call EXCEPT ![t] = "none"]
    BY <1>9 DEF Return, Enter, BackToCaller
  <2> QED BY <2>1 DEF Moves, Leaves
<1>10. CASE Replace(t)
  <2>1. /\ writer' = writer /\ call' = [call EXCEPT ![t] = "connect"]
        /\ \/ pc' = [u \in Threads |-> "undefined"]
           \/ pc' = [pc EXCEPT ![t] = "lock"]
    BY <1>10 DEF Replace
  <2> QED BY <2>1 DEF Moves, Keeps
<1> QED BY <1>1, <1>2, <1>3, <1>4, <1>5, <1>6, <1>7, <1>8, <1>9, <1>10
        DEF Begin, Continue

(* Exclusion holds initially and every step preserves it.                  *)
LEMMA ExclusionInductive == Spec => []Exclusion
<1>1. Init => Exclusion
  BY DEF Init, Exclusion, Programs, Places, Calls, ClearingIsDisconnecting,
         LockedCallsExclude
<1>2. Exclusion /\ [Next]_vars => Exclusion'
  <2> SUFFICES ASSUME Exclusion, [Next]_vars PROVE Exclusion'
    OBVIOUS
  <2> USE DEF Exclusion, Programs, Places, Calls
  <2>1. CASE UNCHANGED vars
    BY <2>1 DEF vars, thread, ClearingIsDisconnecting, LockedCallsExclude
  <2>2. ASSUME NEW t \in Threads, Begin(t) \/ Continue(t) PROVE Exclusion'
    <3>1. CASE /\ pc' = [u \in Threads |-> "undefined"]
               /\ call' = [call EXCEPT ![t] = "connect"]
      BY <3>1 DEF ClearingIsDisconnecting, LockedCallsExclude
    <3>2. CASE /\ Moves(t)
               /\ Takes(t) \/ Keeps(t) \/ Leaves(t)
               /\ pc'[t] = "clearTimers" => call'[t] = "disconnectAsync"
      <4>1. PICK where \in Places, what \in Calls :
               /\ pc' = [pc EXCEPT ![t] = where]
               /\ call' = [call EXCEPT ![t] = what]
        BY <3>2 DEF Moves
      <4>2. Programs' /\ \A u \in Threads \ {t} : pc'[u] = pc[u] /\ call'[u] = call[u]
        BY <4>1
      <4>3. ClearingIsDisconnecting'
        BY <3>2, <4>2 DEF ClearingIsDisconnecting
      <4>4. LockedCallsExclude'
        <5> SUFFICES ASSUME NEW u \in Threads, pc'[u] \notin Outside,
                            call'[u] \in Locked
                     PROVE  writer' = u
          BY DEF LockedCallsExclude, Outside
        <5>1. CASE u = t
          BY <3>2, <5>1 DEF Takes, Keeps, Leaves, LockedCallsExclude, Outside
        <5>2. CASE u # t
          <6>1. writer = u
            BY <4>2, <5>2 DEF LockedCallsExclude, Outside
          <6>2. ~Takes(t)
            BY <6>1, ClientSessionAssumption DEF Takes
          <6>3. Leaves(t) => call[t] \notin Locked
            BY <5>2, <6>1 DEF Leaves, LockedCallsExclude, Outside
          <6> QED BY <3>2, <6>1, <6>2, <6>3 DEF Keeps, Leaves
        <5> QED BY <5>1, <5>2
      <4> QED BY <4>2, <4>3, <4>4
    <3> QED BY <2>2, <3>1, <3>2, StepShape
  <2> QED BY <2>1, <2>2 DEF Next
<1> QED BY <1>1, <1>2, PTL DEF Spec

(* Whoever is inside the library on behalf of a thread-safe operation of    *)
(* the Client, or in a handler called from there, is the exclusive owner   *)
(* of m_mutex, for any set of threads.                                     *)
THEOREM LockedOperationsExclude == Spec => []LockedCallsExclude
<1>1. Exclusion => LockedCallsExclude
  BY DEF Exclusion
<1> QED BY <1>1, ExclusionInductive, PTL

-----------------------------------------------------------------------------
(* The threads that will make another UA_Client before they return.        *)
Pending ==
    {u \in Threads : pc[u] = "initialise" \/ call[u] \in {"initDisconnect", "delete"}}

Begun ==
    \A t \in Threads : /\ pc[t] = "idle" => call[t] = "none"
                       /\ pc[t] = "initialise" => call[t] = "connect"

Budget == made + Cardinality(Pending) <= MaxClients

Typing == TypeOK /\ Begun /\ Budget

(* Removing threads that are pending makes room for as many UA_Clients.     *)
LEMMA PendingIsFinite ==
    /\ IsFiniteSet(Pending) /\ Cardinality(Pending) \in Nat
    /\ \A S : S \subseteq Pending =>
          /\ IsFiniteSet(S) /\ Cardinality(S) \in Nat
          /\ Cardinality(S) <= Cardinality(Pending)
          /\ S # Pending => Cardinality(S) < Cardinality(Pending)
<1>1. IsFiniteSet(Pending)
  BY FS_Subset, ClientSessionAssumption DEF ClientSessionAssumption, Pending
<1> QED
  BY <1>1, FS_Subset, FS_CardinalityType

LEMMA BudgetStep ==
    ASSUME Typing, NEW t \in Threads, Begin(t) \/ Continue(t)
    PROVE  Budget' /\ made' \in 0 .. MaxClients /\ client' \in 0 .. MaxClients
<1> USE DEF Typing
<1>a. /\ made \in Nat /\ client \in 0 .. MaxClients /\ MaxClients \in Nat
      /\ Cardinality(Pending) \in Nat /\ made + Cardinality(Pending) <= MaxClients
  BY PendingIsFinite, ClientSessionAssumption
     DEF ClientSessionAssumption, TypeOK, Budget
<1>b. pc \in [Threads -> Places] /\ call \in [Threads -> Calls]
  BY DEF TypeOK, Places
<1>1. ASSUME Pending' \subseteq Pending, made' = made, client' = client
      PROVE  Budget' /\ made' \in 0 .. MaxClients /\ client' \in 0 .. MaxClients
  BY <1>a, <1>1, PendingIsFinite DEF Budget
<1>2. ASSUME Pending' \subseteq Pending, Pending' # Pending,
             made' = made + 1, client' = made'
      PROVE  Budget' /\ made' \in 0 .. MaxClients /\ client' \in 0 .. MaxClients
  BY <1>a, <1>2, PendingIsFinite DEF Budget
<1>3. CASE \E to \in {"channel", "session"}, wait \in BOOLEAN :
              BeginConnect(t, to, wait)
  <2> DEFINE C == {u \in Threads : call[u] \in Connecting}
  <2>1. /\ pc[t] = "idle" /\ made + Cardinality(C) < MaxClients
        /\ pc' = [pc EXCEPT ![t] = "initialise"]
        /\ call' = [call EXCEPT ![t] = "connect"]
        /\ made' = made /\ client' = client
    BY <1>3 DEF BeginConnect, Goto, Calling, wrapper
  <2>2. Pending' = Pending \cup {t} /\ t \notin C /\ Pending \subseteq C
    BY <1>b, <2>1 DEF Pending, Begun, Connecting, Calls, Places
  <2>3. IsFiniteSet(C) /\ Cardinality(C) \in Nat
    BY FS_Subset, FS_CardinalityType, ClientSessionAssumption
       DEF ClientSessionAssumption
  <2>4. Cardinality(C \cup {t}) = Cardinality(C) + 1
    BY <2>2, <2>3, FS_AddElement
  <2>5. IsFiniteSet(C \cup {t}) /\ Pending' \subseteq C \cup {t}
    BY <2>2, <2>3, FS_AddElement
  <2>6. Cardinality(Pending') <= Cardinality(C \cup {t}) /\ Cardinality(Pending') \in Nat
    BY <2>5, FS_Subset, FS_CardinalityType
  <2> HIDE DEF C
  <2>7. made + Cardinality(Pending') <= MaxClients
    BY <1>a, <2>1, <2>3, <2>4, <2>6
  <2> QED
    BY <1>a, <2>1, <2>7 DEF Budget
<1>4. CASE \E what \in {"disconnect", "disconnectAsync", "service"} :
              BeginLocked(t, what)
  BY <1>b, <1>1, <1>4 DEF BeginLocked, Goto, Calling, wrapper, Pending
<1>5. CASE RunIterate(t)
  BY <1>b, <1>1, <1>5 DEF RunIterate, Enter, Goto, Calling, wrapper, Pending
<1>6. CASE AddSubscription(t) \/ RemoveSubscription(t) \/ AddTimer(t) \/ RemoveTimer(t)
  BY <1>1, <1>6 DEF AddSubscription, RemoveSubscription, AddTimer, RemoveTimer,
     thread, Pending
<1>7. CASE Initialise(t)
  <2>1. CASE client = 0
    <3>1. /\ pc[t] = "initialise" /\ pc' = [pc EXCEPT ![t] = "lock"]
          /\ call' = call /\ made' = made + 1 /\ client' = made'
      BY <1>7, <2>1 DEF Initialise, Goto
    <3>2. t \in Pending /\ Pending' = Pending \ {t}
      BY <1>b, <3>1 DEF Pending, Begun
    <3> QED
      BY <1>2, <3>1, <3>2
  <2>2. CASE client # 0
    <3>1. /\ pc[t] = "initialise" /\ made' = made /\ client' = client
          /\ \A u \in Threads \ {t} : pc'[u] = pc[u] /\ call'[u] = call[u]
      BY <1>b, <1>7, <2>2 DEF Initialise, Enter, Goto, Calling
    <3>2. Pending' \subseteq Pending
      BY <3>1 DEF Pending
    <3> QED
      BY <1>1, <3>1, <3>2
  <2> QED
    BY <2>1, <2>2
<1>8. CASE TakeLock(t)
  <2>1. /\ pc[t] = "lock" /\ pc'[t] \in {"clearTimers", "lib"} /\ call' = call
        /\ \A u \in Threads \ {t} : pc'[u] = pc[u]
        /\ made' = made /\ client' = client
    BY <1>b, <1>8 DEF TakeLock, Enter, Goto, Calling, wrapper
  <2> QED
    BY <1>1, <2>1 DEF Pending
<1>9. CASE ClearTimersThenDisconnect(t)
  BY <1>b, <1>1, <1>9 DEF ClearTimersThenDisconnect, Enter, Goto, Calling, Pending
<1>10. CASE Advance(t) \/ StateChange(t) \/ SessionHook(t) \/ ChannelEdge(t)
            \/ ChannelHook(t)
  <2>1. /\ call' = call /\ made' = made /\ client' = client
        /\ pc'[t] # "initialise" /\ \A u \in Threads \ {t} : pc'[u] = pc[u]
    BY <1>b, <1>10 DEF Advance, StateChange, SessionHook, ChannelEdge, ChannelHook,
                BackToLibrary, Goto, wrapper
  <2> QED
    BY <1>1, <2>1 DEF Pending
<1>11. CASE Return(t)
  <2>1. /\ made' = made /\ client' = client /\ pc'[t] # "initialise"
        /\ call[t] = "initDisconnect" \/ call'[t] = "none"
        /\ \A u \in Threads \ {t} : pc'[u] = pc[u] /\ call'[u] = call[u]
    BY <1>b, <1>11 DEF Return, Enter, BackToCaller, Goto, Calling, wrapper
  <2> QED
    BY <1>1, <2>1 DEF Pending
<1>12. CASE Replace(t)
  <2>1. /\ made' = made + 1 /\ client' = made' /\ call[t] = "delete"
        /\ call'[t] = "connect" /\ \A u \in Threads \ {t} : call'[u] = call[u]
        /\ pc'[t] \in {"lock", "undefined"}
        /\ \A u \in Threads \ {t} : pc'[u] \in {pc[u], "undefined"}
    BY <1>b, <1>12 DEF Replace, Goto, Calling
  <2>2. t \in Pending /\ t \notin Pending' /\ Pending' \subseteq Pending
    BY <2>1 DEF Pending
  <2> QED
    BY <1>2, <2>1, <2>2
<1> QED
  BY <1>3, <1>4, <1>5, <1>6, <1>7, <1>8, <1>9, <1>10, <1>11, <1>12
     DEF Begin, Continue

(* The states the library reports are states of a Link.                    *)
LEMMA LinksAreTyped ==
    ASSUME TypeOK
    PROVE  Downwards \subseteq Link /\ Upwards \subseteq Link /\ Lost \in Link
           /\ Down \in Link
BY DEF TypeOK, Downwards, Upwards, Lost, Down, Link, Phases

LEMMA TypingStep ==
    ASSUME Typing, NEW t \in Threads, Begin(t) \/ Continue(t)
    PROVE  Typing'
<1> USE DEF Typing
<1>0. Budget' /\ made' \in 0 .. MaxClients /\ client' \in 0 .. MaxClients
  BY BudgetStep
<1>a. /\ pc \in [Threads -> Places] /\ call \in [Threads -> Calls]
      /\ target \in [Threads -> {"channel", "session"}]
      /\ sync \in [Threads -> BOOLEAN] /\ report \in [Threads -> Link]
      /\ inside \in [Threads -> 0 .. MaxClients]
      /\ client \in 0 .. MaxClients /\ 0 \in 0 .. MaxClients
      /\ subs \in 0 .. MaxSubs /\ timers \in 0 .. MaxTimers
      /\ 0 \in 0 .. MaxSubs /\ 0 \in 0 .. MaxTimers
      /\ Down \in Link
  BY LinksAreTyped, ClientSessionAssumption
     DEF ClientSessionAssumption, TypeOK, Places
<1> USE DEF Places, Calls, Goto, Calling
<1>1. CASE \E to \in {"channel", "session"}, wait \in BOOLEAN :
              BeginConnect(t, to, wait)
  BY <1>0, <1>1, <1>a DEF BeginConnect, wrapper, TypeOK, Begun
<1>2. CASE \E what \in {"disconnect", "disconnectAsync", "service"} :
              BeginLocked(t, what)
  BY <1>0, <1>2, <1>a DEF BeginLocked, wrapper, TypeOK, Begun
<1>3. CASE RunIterate(t)
  BY <1>0, <1>3, <1>a DEF RunIterate, Enter, wrapper, TypeOK, Begun
<1>4. CASE AddSubscription(t) \/ RemoveSubscription(t) \/ AddTimer(t) \/ RemoveTimer(t)
  <2>1. subs' \in 0 .. MaxSubs /\ timers' \in 0 .. MaxTimers
    BY <1>4, <1>a, ClientSessionAssumption
       DEF ClientSessionAssumption, AddSubscription, RemoveSubscription,
           AddTimer, RemoveTimer
  <2> QED
    BY <1>0, <1>4, <2>1 DEF AddSubscription, RemoveSubscription, AddTimer,
       RemoveTimer, thread, TypeOK, Begun
<1>5. CASE Initialise(t)
  <2>1. /\ pc' \in [Threads -> Places] /\ call' \in [Threads -> Calls]
        /\ inside' \in [Threads -> 0 .. MaxClients]
        /\ goal' \in {"closed", goal}
        /\ pc'[t] \notin {"idle", "initialise"}
        /\ \A u \in Threads \ {t} : pc'[u] = pc[u] /\ call'[u] = call[u]
    BY <1>5, <1>a DEF Initialise, Enter
  <2> QED
    BY <1>0, <1>5, <2>1 DEF Initialise, TypeOK, Begun
<1>6. CASE TakeLock(t)
  <2>1. /\ pc' \in [Threads -> Places] /\ call' \in [Threads -> Calls]
        /\ inside' \in [Threads -> 0 .. MaxClients]
        /\ goal' \in {"closed", goal, target[t]}
        /\ pc'[t] \notin {"idle", "initialise"}
        /\ \A u \in Threads \ {t} : pc'[u] = pc[u] /\ call'[u] = call[u]
    BY <1>6, <1>a DEF TakeLock, Enter
  <2>2. target[t] \in {"channel", "session"}
    BY <1>a
  <2> QED
    BY <1>0, <1>6, <2>1, <2>2 DEF TakeLock, wrapper, TypeOK, Begun
<1>7. CASE ClearTimersThenDisconnect(t)
  BY <1>0, <1>7, <1>a DEF ClearTimersThenDisconnect, Enter, TypeOK, Begun
<1>8. CASE Advance(t)
  <2>1. lib' \in Link /\ report' \in [Threads -> Link]
    BY <1>8, <1>a, LinksAreTyped DEF Advance
  <2> QED
    BY <1>0, <1>8, <1>a, <2>1 DEF Advance, wrapper, TypeOK, Begun
<1>9. CASE StateChange(t)
  <2>1. cached' \in Link /\ report' \in [Threads -> Link]
        /\ pc' \in [Threads -> Places] /\ pc'[t] \notin {"idle", "initialise"}
        /\ \A u \in Threads \ {t} : pc'[u] = pc[u]
    BY <1>9, <1>a DEF StateChange, BackToLibrary
  <2> QED
    BY <1>0, <1>9, <2>1 DEF StateChange, TypeOK, Begun
<1>10. CASE SessionHook(t)
  <2>1. report[t].session \in Phases /\ report[t].channel \in Phases
    BY <1>a DEF Link
  <2>2. last' \in [channel : Phases, session : Phases]
    BY <1>10, <2>1 DEF SessionHook, TypeOK
  <2> QED
    BY <1>0, <1>10, <1>a, <2>2 DEF SessionHook, TypeOK, Begun
<1>11. CASE ChannelEdge(t)
  BY <1>0, <1>11, <1>a DEF ChannelEdge, BackToLibrary, wrapper, TypeOK, Begun
<1>12. CASE ChannelHook(t)
  <2>1. report[t].session \in Phases /\ report[t].channel \in Phases
    BY <1>a DEF Link
  <2>2. last' \in [channel : Phases, session : Phases]
    BY <1>12, <2>1 DEF ChannelHook, TypeOK
  <2> QED
    BY <1>0, <1>12, <1>a, <2>2 DEF ChannelHook, BackToLibrary, TypeOK, Begun
<1>13. CASE Return(t)
  <2>1. writer' \in Threads \cup {NoThread}
    BY <1>13 DEF Return, TypeOK
  <2>2. /\ pc' \in [Threads -> Places] /\ call' \in [Threads -> Calls]
        /\ inside' \in [Threads -> 0 .. MaxClients]
        /\ target' \in [Threads -> {"channel", "session"}]
        /\ sync' \in [Threads -> BOOLEAN]
    <3>1. CASE call[t] = "initDisconnect"
      BY <1>13, <1>a, <3>1 DEF Return, Enter
    <3>2. CASE call[t] # "initDisconnect"
      BY <1>13, <1>a, <3>2 DEF Return, BackToCaller
    <3> QED
      BY <3>1, <3>2
  <2>3. Begun'
    BY <1>13, <1>a DEF Return, Enter, BackToCaller, Begun
  <2> QED
    BY <1>0, <1>13, <2>1, <2>2, <2>3 DEF Return, wrapper, TypeOK
<1>14. CASE Replace(t)
  <2>1. /\ pc' \in [Threads -> Places] /\ call' \in [Threads -> Calls]
        /\ inside' \in [Threads -> 0 .. MaxClients] /\ lib' \in Link
    BY <1>14, <1>a DEF Replace
  <2>2. Begun'
    BY <1>14, <1>a DEF Replace, Begun
  <2> QED
    BY <1>0, <1>14, <2>1, <2>2 DEF Replace, TypeOK
<1> QED
  BY <1>1, <1>2, <1>3, <1>4, <1>5, <1>6, <1>7, <1>8, <1>9, <1>10, <1>11,
     <1>12, <1>13, <1>14 DEF Begin, Continue

LEMMA TypingInductive == Spec => []Typing
<1>1. Init => Typing
  <2> SUFFICES ASSUME Init PROVE Typing
    OBVIOUS
  <2> USE ClientSessionAssumption DEF ClientSessionAssumption
  <2>1. TypeOK /\ Begun
    BY DEF Init, TypeOK, Begun, Calls, Link, Down, Phases
  <2>2. Pending = {}
    BY DEF Init, Pending
  <2>3. Budget
    BY <2>2, FS_EmptySet DEF Init, Budget
  <2> QED
    BY <2>1, <2>3 DEF Typing
<1>2. Typing /\ [Next]_vars => Typing'
  <2> SUFFICES ASSUME Typing, [Next]_vars PROVE Typing'
    OBVIOUS
  <2>1. CASE UNCHANGED vars
    BY <2>1 DEF vars, thread, wrapper, Typing, TypeOK, Begun, Budget, Pending
  <2> QED
    BY <2>1, TypingStep DEF Next
<1> QED
  BY <1>1, <1>2, PTL DEF Spec

(* The variables keep their types, for any finite set of threads; no        *)
(* wrapper makes more UA_Clients than the bound says.                      *)
THEOREM TypeCorrect == Spec => []TypeOK
<1>1. Typing => TypeOK
  BY DEF Typing
<1> QED
  BY <1>1, TypingInductive, PTL

-----------------------------------------------------------------------------
(* A client that one thread t uses.  Between two of its operations, and as  *)
(* long as the library has nothing to report, the wrapper has been told of  *)
(* the library's states, unless it just got a new UA_Client.               *)

Fresh(t) == lib = Down /\ call[t] = "connect" /\ pc[t] \in {"lock", "lib"}

Told == cached = lib /\ (cached.ok => /\ last.channel = lib.channel
                                     /\ last.session = lib.session)

Handling == {"stateChange", "sessionHook", "channelEdge", "channelHook"}

Tracking(t) ==
    /\ pc[t] # "undefined"
    /\ pc[t] \notin Handling => Fresh(t) \/ Told
    /\ pc[t] \in Handling => report[t] = lib
    /\ pc[t] \in Handling \ {"stateChange"} => cached = lib /\ lib.ok
    /\ pc[t] \in {"channelEdge", "channelHook"} => last.session = lib.session
    /\ ~lib.ok => lib = Lost
    /\ subs > 0 => last.session = "open" /\ lib.session # "opening"

LEMMA TrackingStep ==
    ASSUME NEW t \in Threads, Threads = {t}, TypeOK, Tracking(t),
           Begin(t) \/ Continue(t)
    PROVE  Tracking(t)'
<1> USE DEF Tracking, Handling
<1>a. /\ pc \in [Threads -> Places] /\ call \in [Threads -> Calls]
      /\ report \in [Threads -> Link] /\ lib \in Link /\ cached \in Link
      /\ last \in [channel : Phases, session : Phases]
      /\ subs \in Nat
  BY ClientSessionAssumption DEF ClientSessionAssumption, TypeOK, Places
<1> USE DEF Goto, Calling
<1>1. CASE \E to \in {"channel", "session"}, wait \in BOOLEAN :
              BeginConnect(t, to, wait)
  BY <1>1, <1>a DEF BeginConnect, wrapper, Fresh, Told
<1>2. CASE \E what \in {"disconnect", "disconnectAsync", "service"} :
              BeginLocked(t, what)
  BY <1>2, <1>a DEF BeginLocked, wrapper, Fresh, Told
<1>3. CASE RunIterate(t)
  BY <1>3, <1>a DEF RunIterate, Enter, wrapper, Fresh, Told
<1>4. CASE AddSubscription(t)
  <2>1. last.session = "open" /\ lib.session = "open"
    BY <1>4, <1>a DEF AddSubscription, Fresh, Told, Lost
  <2> QED
    BY <1>4, <2>1 DEF AddSubscription, thread, Fresh, Told
<1>5. CASE RemoveSubscription(t)
  BY <1>5, <1>a DEF RemoveSubscription, thread, Fresh, Told
<1>6. CASE AddTimer(t) \/ RemoveTimer(t)
  BY <1>6 DEF AddTimer, RemoveTimer, thread, Fresh, Told
<1>7. CASE Initialise(t)
  <2>1. pc'[t] \in {"lock", "lib"} /\ Told
    BY <1>7, <1>a DEF Initialise, Enter, Fresh
  <2> QED
    BY <1>7, <2>1 DEF Initialise, Told
<1>8. CASE TakeLock(t)
  <2>1. pc'[t] \in {"clearTimers", "lib"} /\ call'[t] = call[t]
        /\ (pc'[t] = "clearTimers" => call[t] # "connect")
    BY <1>8, <1>a DEF TakeLock, Enter
  <2> QED
    BY <1>8, <2>1 DEF TakeLock, wrapper, Fresh, Told
<1>9. CASE ClearTimersThenDisconnect(t)
  BY <1>9, <1>a DEF ClearTimersThenDisconnect, Enter, Fresh, Told
(* A subscription has a session that the library has open, unless the       *)
(* UA_Client is new, and then its next state still has no session.         *)
<1>10. CASE Advance(t)
  <2>1. /\ lib.ok /\ lib' \in Downwards \cup Upwards \cup {Lost}
        /\ report' = [report EXCEPT ![t] = lib']
        /\ pc[t] = "lib" /\ pc' = [pc EXCEPT ![t] = "stateChange"]
        /\ UNCHANGED <<call, cached, last, subs>>
    BY <1>10 DEF Advance, wrapper
  <2>2. ~lib'.ok => lib' = Lost
    BY <1>a, <2>1 DEF Downwards, Upwards, Link
  <2>3. subs > 0 => lib'.session # "opening"
    <3> SUFFICES ASSUME subs > 0 PROVE lib'.session # "opening"
      OBVIOUS
    <3>1. lib = Down \/ lib.session = "open"
      BY <2>1 DEF Fresh, Told
    <3>2. CASE lib' \in Downwards
      BY <3>1, <3>2 DEF Downwards, Down
    <3>3. CASE lib' \in Upwards
      BY <1>a, <3>1, <3>3 DEF Upwards, Down, Link
    <3>4. CASE lib' = Lost
      BY <3>4 DEF Lost
    <3> QED
      BY <2>1, <3>2, <3>3, <3>4
  <2> QED
    BY <1>a, <2>1, <2>2, <2>3
<1>11. CASE StateChange(t)
  <2>1. CASE lib.ok
    BY <1>11, <1>a, <2>1 DEF StateChange
  <2>2. CASE ~lib.ok
    BY <1>11, <1>a, <2>2 DEF StateChange, BackToLibrary, Told
  <2> QED
    BY <2>1, <2>2
<1>12. CASE SessionHook(t)
  <2>1. /\ last' = [last EXCEPT !.session = lib.session]
        /\ pc[t] = "sessionHook" /\ pc' = [pc EXCEPT ![t] = "channelEdge"]
        /\ subs' = IF lib.session \in Ends THEN 0 ELSE subs
        /\ UNCHANGED <<report, cached, lib>>
    BY <1>12 DEF SessionHook
  <2>2. last'.session = lib.session
    BY <1>a, <2>1
  <2>3. subs' > 0 => lib.session = "open"
    BY <1>a, <2>1 DEF Ends, Link, Phases
  <2> QED
    BY <1>a, <2>1, <2>2, <2>3
<1>13. CASE ChannelEdge(t)
  BY <1>13, <1>a DEF ChannelEdge, BackToLibrary, wrapper, Told
<1>14. CASE ChannelHook(t)
  <2>1. /\ last' = [last EXCEPT !.channel = lib.channel]
        /\ pc[t] = "channelHook" /\ pc' = [pc EXCEPT ![t] = "lib"]
        /\ subs' \in {0, subs}
        /\ UNCHANGED <<cached, lib>>
    BY <1>14 DEF ChannelHook, BackToLibrary
  <2>2. last'.channel = lib.channel /\ last'.session = last.session
    BY <1>a, <2>1
  <2> QED
    BY <1>a, <2>1, <2>2 DEF Told
(* connect does not return from a UA_Client that has reported nothing.      *)
<1>15. CASE Return(t)
  <2>1. ~Fresh(t)
    BY <1>15 DEF Return, MayReturn, Fresh, Down
  <2>2. pc'[t] \in {"lib", "idle"} /\ Told
    BY <1>15, <1>a, <2>1 DEF Return, Enter, BackToCaller
  <2> QED
    BY <1>15, <2>2 DEF Return, wrapper, Told
<1>16. CASE Replace(t)
  <2>1. /\ pc' = [pc EXCEPT ![t] = "lock"] /\ call' = [call EXCEPT ![t] = "connect"]
        /\ lib' = Down /\ UNCHANGED <<cached, last, subs>>
    BY <1>16 DEF Replace
  <2> QED
    BY <1>a, <2>1 DEF Fresh, Down
<1> QED
  BY <1>1, <1>2, <1>3, <1>4, <1>5, <1>6, <1>7, <1>8, <1>9, <1>10, <1>11,
     <1>12, <1>13, <1>14, <1>15, <1>16 DEF Begin, Continue

LEMMA TrackingInductive ==
    ASSUME NEW t \in Threads, Threads = {t}
    PROVE  Spec => []Tracking(t)
<1>1. Init => Tracking(t)
  BY DEF Init, Tracking, Handling, Told, Down
<1>2. TypeOK /\ Tracking(t) /\ [Next]_vars => Tracking(t)'
  <2> SUFFICES ASSUME TypeOK, Tracking(t), [Next]_vars PROVE Tracking(t)'
    OBVIOUS
  <2>1. CASE UNCHANGED vars
    BY <2>1 DEF vars, thread, wrapper, Tracking, Handling, Fresh, Told
  <2> QED
    BY <2>1, TrackingStep DEF Next
<1> QED
  BY <1>1, <1>2, TypeCorrect, PTL DEF Spec

(* When one thread uses the client, the states it reads between two of its  *)
(* calls are those of the UA_Client, and with a good status the handlers    *)
(* have been told of them, however often connections were lost and the      *)
(* UA_Client replaced (Client::stateChange, getSessionState,                *)
(* getChannelState).  Two threads inside the library may report their       *)
(* states in the other order.                                              *)
THEOREM OneThreadReadsTheStates ==
    ASSUME NEW t \in Threads, Threads = {t}
    PROVE  Spec => []QuietStatesAgree
<1>1. Tracking(t) => QuietStatesAgree
  BY DEF Tracking, Handling, Fresh, Told, QuietStatesAgree, Idle
<1> QED
  BY <1>1, TrackingInductive, PTL

(* When one thread uses the client, no subscription outlives the session    *)
(* the handlers last saw opened (Client::stateChange, SessionStateClosed,   *)
(* SessionStateClosing).                                                   *)
THEOREM SubscriptionsEndWithTheirSession ==
    ASSUME NEW t \in Threads, Threads = {t}
    PROVE  Spec => []SubscriptionsHaveASession
<1>1. Tracking(t) => SubscriptionsHaveASession
  BY DEF Tracking, SubscriptionsHaveASession
<1> QED
  BY <1>1, TrackingInductive, PTL
=============================================================================
