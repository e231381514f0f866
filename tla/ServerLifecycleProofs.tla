------------------------- MODULE ServerLifecycleProofs -------------------------
(***************************************************************************)
(* Proofs about ServerLifecycle for any number of Servers, threads, nodes  *)
(* and addresses.                                                          *)
(*                                                                         *)
(* The invariant says who holds an address (Pointers), whose key           *)
(* s_serverMap has for it (KeysAreHeld, ReachableWhileIterating), what a    *)
(* node's Server still has to do (Homes), and how far construct() and       *)
(* destruct() calls can drift apart when keys come and go (Balanced).      *)
(***************************************************************************)
EXTENDS ServerLifecycle, FiniteSetTheorems, TLAPS

(* A thread inside a node operation has one.                               *)
Pending == \A t \in Threads : pc[t] # "idle" => op[t] \in Ops

(* TypeOK without the bounds of balance, which need all of the rest.       *)
Typing ==
    /\ phase \in [Servers -> Phases]
    /\ ptr \in [Servers -> Addrs \cup {None}]
    /\ running \in [Servers -> BOOLEAN] /\ stopped \in [Servers -> BOOLEAN]
    /\ live \subseteq Addrs
    /\ serverMap \in [Addrs -> Servers \cup {None, Absent}]
    /\ writer \in [Servers -> Threads \cup {None}]
    /\ pc \in [Threads -> {"idle", "tested", "hook"}]
    /\ op \in [Threads -> Ops \cup {None}]
    /\ home \in [Nodes -> Servers \cup {None}]
    /\ balance \in [Nodes -> Int]
    /\ strayed \subseteq Nodes /\ reused \subseteq Servers
    /\ fault \in {"none", "useAfterDelete", "nullServer"}
    /\ Pending

(* A Server has a UA_Server of its own until it has deleted it, and one     *)
(* whose address was not reused shares that with no other Server at all.   *)
Holding(s) == phase[s] \notin {"unborn", "erase", "over"}

Pointers ==
    /\ \A s \in Servers : ptr[s] = None <=> phase[s] \in {"unborn", "over"}
    /\ \A s \in Servers : Holding(s) => ptr[s] \in live
    /\ \A s, u \in Servers :
          s # u /\ Holding(s) /\ (s \notin reused \/ Holding(u)) => ptr[s] # ptr[u]

(* A key leads to a Server at that address which registered itself.        *)
Registered == Hooks \cup {"test", "clear", "delete", "erase"}

KeysAreHeld ==
    \A a \in Addrs : serverMap[a] \in Servers =>
        ptr[serverMap[a]] = a /\ phase[serverMap[a]] \in Registered

Routing == Pointers /\ KeysAreHeld /\ ReachableWhileIterating

-----------------------------------------------------------------------------
(* What the library does with a node, as far as nodes are concerned.       *)
Weight(o) == IF Found(ptr[o.server]) THEN 1 ELSE 0

NodeAdded(o) ==
    /\ home[o.node] = None
    /\ home' = [home EXCEPT ![o.node] = o.server]
    /\ balance' = [balance EXCEPT ![o.node] = @ + Weight(o)]
    /\ strayed' = IF Span(o.server) THEN strayed ELSE strayed \cup {o.node}

NodeDeleted(o) ==
    /\ home[o.node] = o.server
    /\ home' = [home EXCEPT ![o.node] = None]
    /\ balance' = [balance EXCEPT ![o.node] = @ - Weight(o)]
    /\ strayed' = IF Span(o.server) THEN strayed ELSE strayed \cup {o.node}

Looked(o) == Lookup(ptr[o.server]) \/ UNCHANGED serverMap

Answered(o) ==
    \/ InLibrary(o) \/ ConstructFails(o) \/ TypeConstructFails(o)
    \/ HistoryRequest(o) \/ AccessDenied(o)

(* Whatever the library does for an operation, it looks a key up at most,   *)
(* and adds or deletes the node or leaves it.                              *)
LEMMA LibraryEffects ==
    ASSUME Typing, NEW o \in Ops, Answered(o)
    PROVE  /\ Looked(o)
           /\ NodeAdded(o) \/ NodeDeleted(o) \/ UNCHANGED nodes
           /\ fault' \in {fault, "nullServer"}
<1>1. o.kind \in {"add", "delete", "read", "write"} /\ o.node \in Nodes
      /\ o.server \in Servers
  BY DEF Ops
<1>2. CASE InLibrary(o)
  <2>1. CASE o.kind = "add" /\ home[o.node] = None
    BY <1>2, <2>1 DEF InLibrary, Change, Called, NodeAdded, Looked, Weight
  <2>2. CASE o.kind = "delete" /\ home[o.node] = o.server
    <3>1. Called("delete", Found(ptr[o.server])) = 0 - Weight(o)
      BY DEF Called, Weight
    <3>2. balance[o.node] + (0 - Weight(o)) = balance[o.node] - Weight(o)
      BY <1>1 DEF Typing, Weight
    <3>3. /\ home' = [home EXCEPT ![o.node] = None]
          /\ balance' = [balance EXCEPT ![o.node] =
                            balance[o.node] + Called("delete", Found(ptr[o.server]))]
          /\ strayed' = IF Span(o.server) THEN strayed ELSE strayed \cup {o.node}
          /\ UNCHANGED fault /\ Lookup(ptr[o.server])
      BY <1>2, <2>2 DEF InLibrary, Change
    <3> QED
      BY <2>2, <3>1, <3>2, <3>3 DEF NodeDeleted, Looked
  <2>3. CASE o.kind \in {"read", "write"}
    BY <1>2, <2>3 DEF InLibrary, Access, ReadCallback, WriteCallback, ContextCallback,
                      GatheringCallback, BackendCallback, DatabaseCallback, UseServer,
                      Looked
  <2>4. CASE ~ (home[o.node] = IF o.kind = "add" THEN None ELSE o.server)
    BY <1>2, <2>4 DEF InLibrary, Looked
  <2> QED
    BY <1>1, <2>1, <2>2, <2>3, <2>4
<1>3. CASE ConstructFails(o)
  BY <1>3 DEF ConstructFails, Looked
<1>4. CASE TypeConstructFails(o)
  <2>1. balance' = balance
    BY <1>1, <1>4 DEF TypeConstructFails, Called, Typing
  <2> QED
    BY <1>4, <2>1 DEF TypeConstructFails, Looked, nodes
<1>5. CASE HistoryRequest(o)
  BY <1>5 DEF HistoryRequest, HistoryCallback, GetHistoryData, BackendCallback,
              DatabaseCallback, UseServer, Looked
<1>6. CASE AccessDenied(o)
  BY <1>6 DEF AccessDenied, Looked
<1> QED
  BY <1>2, <1>3, <1>4, <1>5, <1>6 DEF Answered

(* An operation in the library leaves the owners alone.                    *)
LEMMA Serving ==
    ASSUME Typing,
           \/ \E t \in Threads : Locked(t)
           \/ \E s \in Servers, o \in Ops : Request(s, o)
    PROVE  /\ UNCHANGED <<phase, ptr, running, stopped, live, reused>>
           /\ \/ UNCHANGED <<serverMap, nodes>>
              \/ \E o \in Ops : /\ ptr[o.server] \in live /\ Looked(o)
                                /\ NodeAdded(o) \/ NodeDeleted(o) \/ UNCHANGED nodes
           /\ fault' \in {fault, "nullServer", "useAfterDelete"}
<1>1. ASSUME NEW t \in Threads, Locked(t)
      PROVE  /\ \/ UNCHANGED <<serverMap, nodes>>
                \/ \E o \in Ops : ptr[o.server] \in live /\ Answered(o)
             /\ UNCHANGED <<phase, ptr, running, stopped, live, reused>>
             /\ fault' = "useAfterDelete" \/ \E o \in Ops : Answered(o)
  <2>1. op[t] \in Ops
    BY <1>1 DEF Locked, Typing, Pending
  <2>2. CASE ptr[op[t].server] \notin live
    BY <1>1, <2>2 DEF Locked
  <2>3. CASE ptr[op[t].server] \in live
    BY <1>1, <2>1, <2>3 DEF Locked, Answered
  <2> QED
    BY <2>2, <2>3
<1>2. ASSUME NEW s \in Servers, NEW o \in Ops, Request(s, o)
      PROVE  /\ ptr[o.server] \in live /\ Answered(o)
             /\ UNCHANGED <<phase, ptr, running, stopped, live, reused>>
  BY <1>2 DEF Request, Answered
<1> QED
  BY <1>1, <1>2, LibraryEffects

-----------------------------------------------------------------------------
LEMMA TypingInit == Init => Typing
BY DEF Init, Typing, Phases, Pending

LEMMA TypingStep == Typing /\ [Next]_vars => Typing'
<1> SUFFICES ASSUME Typing, [Next]_vars
             PROVE  Typing'
  OBVIOUS
<1> USE DEF Typing, Pending
<1>1. ASSUME NEW s \in Servers, OwnerStep(s)
      PROVE  Typing'
  <2>1. CASE Construct(s)
    BY <2>1 DEF Construct, Goto, nodes, Phases
  <2>2. CASE Start(s)
    BY <2>2 DEF Start, Goto, nodes, Phases
  <2>3. CASE Create(s)
    <3>1. phase' \in [Servers -> Phases]
      BY <2>3 DEF Create, Goto, Phases
    <3>2. serverMap' \in [Addrs -> Servers \cup {None, Absent}]
      BY <2>3 DEF Create
    <3> QED
      BY <2>3, <3>1, <3>2 DEF Create, nodes
  <2>4. CASE Loop(s)
    BY <2>4 DEF Loop, Goto, nodes, Phases
  <2>5. CASE Shutdown(s)
    BY <2>5 DEF Shutdown, Goto, nodes, Phases
  <2>6. CASE Destruct(s)
    BY <2>6 DEF Destruct, Goto, Phases, Threads
  <2>7. CASE Terminate(s)
    BY <2>7 DEF Terminate, Goto, nodes, Phases
  <2>8. CASE DeleteServer(s)
    <3>1. phase' \in [Servers -> Phases]
      BY <2>8 DEF DeleteServer, Goto, Phases
    <3>2. serverMap' \in [Addrs -> Servers \cup {None, Absent}]
      BY <2>8 DEF DeleteServer, Lookup
    <3>3. home' \in [Nodes -> Servers \cup {None}]
      BY <2>8 DEF DeleteServer
    <3>4. balance' \in [Nodes -> Int]
      BY <2>8 DEF DeleteServer, Called
    <3> QED
      BY <2>8, <3>1, <3>2, <3>3, <3>4 DEF DeleteServer
  <2>9. CASE EraseServer(s)
    BY <2>9 DEF EraseServer, Goto, nodes, Phases
  <2> QED
    BY <1>1, <2>1, <2>2, <2>3, <2>4, <2>5, <2>6, <2>7, <2>8, <2>9 DEF OwnerStep
<1>2. ASSUME NEW s \in Servers, Stop(s)
      PROVE  Typing'
  BY <1>2 DEF Stop, nodes
<1>3. ASSUME NEW t \in Threads, NEW o \in Ops, Call(t, o)
      PROVE  Typing'
  BY <1>3 DEF Call, owner, nodes
<1>4. ASSUME NEW t \in Threads, Return(t)
      PROVE  Typing'
  BY <1>4 DEF Return, owner, nodes
<1>5. CASE \/ \E t \in Threads : Locked(t)
           \/ \E s \in Servers, o \in Ops : Request(s, o)
  <2>1. /\ UNCHANGED <<phase, ptr, running, stopped, live, reused>>
        /\ \/ UNCHANGED <<serverMap, nodes>>
           \/ \E o \in Ops : Looked(o) /\ (NodeAdded(o) \/ NodeDeleted(o) \/ UNCHANGED nodes)
        /\ fault' \in {fault, "nullServer", "useAfterDelete"}
    BY <1>5, Serving
  <2>2. /\ writer' \in [Servers -> Threads \cup {None}]
        /\ pc' \in [Threads -> {"idle", "tested", "hook"}]
        /\ op' = op
        /\ \A t \in Threads : pc'[t] # "idle" => pc[t] # "idle"
    BY <1>5 DEF Locked, Request
  <2>3. ASSUME NEW o \in Ops, Looked(o), NodeAdded(o) \/ NodeDeleted(o) \/ UNCHANGED nodes
        PROVE  /\ serverMap' \in [Addrs -> Servers \cup {None, Absent}]
               /\ home' \in [Nodes -> Servers \cup {None}]
               /\ balance' \in [Nodes -> Int] /\ strayed' \subseteq Nodes
    BY <2>3 DEF Looked, Lookup, NodeAdded, NodeDeleted, Weight, nodes, Ops
  <2> QED
    BY <2>1, <2>2, <2>3 DEF nodes
<1>6. CASE UNCHANGED vars
  BY <1>6 DEF vars, owner, nodes
<1> QED
  BY <1>1, <1>2, <1>3, <1>4, <1>5, <1>6 DEF Next

-----------------------------------------------------------------------------
(* Looking a key up finds what was found before, and nothing new.          *)
LEMMA LookupFindsTheSame ==
    ASSUME Typing, NEW b, Lookup(b) \/ UNCHANGED serverMap
    PROVE  \A a \in Addrs :
              /\ serverMap[a] \in Servers => serverMap'[a] = serverMap[a]
              /\ serverMap'[a] \in Servers => serverMap'[a] = serverMap[a]
BY ServerLifecycleAssumption DEF ServerLifecycleAssumption, Lookup, Typing

(* So routing does not depend on it.                                       *)
LEMMA LookupKeepsRouting ==
    ASSUME Typing, Routing, UNCHANGED <<phase, ptr, live, reused>>,
           \A a \in Addrs :
              /\ serverMap[a] \in Servers => serverMap'[a] = serverMap[a]
              /\ serverMap'[a] \in Servers => serverMap'[a] = serverMap[a]
    PROVE  Routing'
<1>1. Pointers'
  BY DEF Routing, Pointers, Holding
<1>2. KeysAreHeld'
  BY DEF Routing, KeysAreHeld
<1>3. ReachableWhileIterating'
  <2> SUFFICES ASSUME NEW s \in Servers, Span(s)
               PROVE  serverMap'[ptr[s]] = s
    BY DEF ReachableWhileIterating, Span
  <2>1. ptr[s] \in Addrs
    BY DEF Routing, Pointers, Typing, Holding, Span, Hooks
  <2>2. serverMap[ptr[s]] = s
    BY DEF Routing, ReachableWhileIterating
  <2> QED
    BY <2>1, <2>2
<1> QED
  BY <1>1, <1>2, <1>3 DEF Routing

LEMMA RoutingInit == Init => Routing
<1> SUFFICES ASSUME Init
             PROVE  Routing
  OBVIOUS
<1> USE ServerLifecycleAssumption DEF ServerLifecycleAssumption, Init
<1>1. Pointers
  BY DEF Pointers, Holding
<1>2. KeysAreHeld
  BY DEF KeysAreHeld
<1>3. ReachableWhileIterating
  BY DEF ReachableWhileIterating, Span, Hooks
<1> QED
  BY <1>1, <1>2, <1>3 DEF Routing

(* Steps of the owner of s that only move it on.                           *)
LEMMA MovingOnKeepsRouting ==
    ASSUME Typing, Routing, NEW s \in Servers,
           NEW where \in {"create", "test", "iterate", "clear", "delete"},
           Goto(s, where), UNCHANGED <<ptr, live, serverMap, reused>>,
           Holding(s),
           where \in {"test", "iterate"} => phase[s] \in {"initialise", "test", "iterate"},
           phase[s] \in Registered => where \in Registered
    PROVE  Routing'
<1> USE DEF Routing
<1>1. phase' = [phase EXCEPT ![s] = where]
  BY DEF Goto
<1>2. \A u \in Servers : Holding(u)' <=> Holding(u)
  BY <1>1 DEF Holding, Typing
<1>3. Pointers'
  <2>1. \A u \in Servers : phase'[u] \in {"unborn", "over"} <=> phase[u] \in {"unborn", "over"}
    BY <1>1 DEF Typing, Holding
  <2> QED
    BY <1>2, <2>1 DEF Pointers
<1>4. KeysAreHeld'
  BY <1>1 DEF KeysAreHeld, Typing, Registered, Hooks
<1>5. \A u \in Servers : Span(u)' => Span(u)
  BY <1>1 DEF Span, Hooks, Typing
<1>6. ReachableWhileIterating'
  BY <1>5 DEF ReachableWhileIterating
<1> QED
  BY <1>3, <1>4, <1>6

LEMMA RoutingStep == Typing /\ Routing /\ [Next]_vars => Routing'
<1> SUFFICES ASSUME Typing, Routing, [Next]_vars
             PROVE  Routing'
  OBVIOUS
<1> USE DEF Routing
<1>a. ServerLifecycleAssumption
  BY ServerLifecycleAssumption
<1>b. \A s \in Servers : Holding(s) => ptr[s] \in Addrs /\ ptr[s] \in live
  BY DEF Pointers, Typing
<1>1. ASSUME NEW s \in Servers, Construct(s)
      PROVE  Routing'
  <2>1. PICK a \in Addrs \ live :
           /\ reused' = IF \E u \in Servers : ptr[u] = a THEN reused \cup {s} ELSE reused
           /\ ptr' = [ptr EXCEPT ![s] = a]
           /\ live' = live \cup {a}
    BY <1>1 DEF Construct
  <2>2. /\ phase[s] = "unborn" /\ phase' = [phase EXCEPT ![s] = "ready"]
        /\ UNCHANGED serverMap
    BY <1>1 DEF Construct, OwnerIn, Goto
  <2>3. a # None
    BY <1>a DEF ServerLifecycleAssumption
  <2>4. /\ \A u \in Servers \ {s} : ptr'[u] = ptr[u] /\ phase'[u] = phase[u]
        /\ ptr'[s] = a /\ phase'[s] = "ready"
    BY <2>1, <2>2 DEF Typing
  <2>5. Pointers'
    <3>1. \A u \in Servers : ptr'[u] = None <=> phase'[u] \in {"unborn", "over"}
      BY <2>3, <2>4 DEF Pointers
    <3>2. \A u \in Servers : Holding(u)' => ptr'[u] \in live'
      BY <2>1, <2>4 DEF Pointers, Holding
    <3>3. ASSUME NEW u \in Servers, NEW v \in Servers, u # v, Holding(u)',
                 u \notin reused' \/ Holding(v)'
          PROVE  ptr'[u] # ptr'[v]
      <4>1. CASE u = s
        BY <1>b, <2>1, <2>4, <3>3, <4>1 DEF Holding
      <4>2. CASE v = s
        BY <1>b, <2>1, <2>4, <3>3, <4>2 DEF Holding
      <4>3. CASE u # s /\ v # s
        <5>1. u \notin reused' => u \notin reused
          BY <2>1
        <5> QED
          BY <2>4, <3>3, <4>3, <5>1 DEF Pointers, Holding
      <4> QED
        BY <4>1, <4>2, <4>3
    <3> QED
      BY <3>1, <3>2, <3>3 DEF Pointers
  <2>6. KeysAreHeld'
    BY <2>2, <2>4 DEF KeysAreHeld, Registered, Hooks
  <2>7. ReachableWhileIterating'
    <3> SUFFICES ASSUME NEW u \in Servers, Span(u)'
                 PROVE  serverMap'[ptr'[u]] = u
      BY DEF ReachableWhileIterating
    <3>1. u # s /\ Span(u)
      BY <2>1, <2>4 DEF Span, Hooks
    <3> QED
      BY <2>2, <2>4, <3>1 DEF ReachableWhileIterating
  <2> QED
    BY <2>5, <2>6, <2>7
<1>2. ASSUME NEW s \in Servers, Start(s)
      PROVE  Routing'
  BY <1>2, MovingOnKeepsRouting DEF Start, OwnerIn, Holding, Registered, Hooks
<1>3. ASSUME NEW s \in Servers, Create(s)
      PROVE  Routing'
  <2> DEFINE where == IF phase[s] = "create" THEN "initialise" ELSE "own"
  <2>1. /\ phase[s] \in {"ready", "create"} /\ phase' = [phase EXCEPT ![s] = where]
        /\ serverMap' = [serverMap EXCEPT ![ptr[s]] = s]
        /\ UNCHANGED <<ptr, live, reused>>
    BY <1>3 DEF Create, OwnerIn, Goto
  <2>2. Holding(s) /\ ptr[s] \in Addrs
    BY <1>b, <2>1 DEF Holding
  <2>3. /\ \A u \in Servers \ {s} : phase'[u] = phase[u]
        /\ phase'[s] \in {"initialise", "own"}
    BY <2>1 DEF Typing
  <2>4. \A a \in Addrs : serverMap'[a] = IF a = ptr[s] THEN s ELSE serverMap[a]
    BY <2>1 DEF Typing
  <2>5. Pointers'
    BY <2>1, <2>3 DEF Pointers, Holding
  <2>6. KeysAreHeld'
    BY <2>1, <2>3, <2>4 DEF KeysAreHeld, Registered, Hooks
  <2>7. ReachableWhileIterating'
    <3> SUFFICES ASSUME NEW u \in Servers, Span(u)', u # s
                 PROVE  serverMap'[ptr[u]] = u
      BY <2>1, <2>2, <2>4 DEF ReachableWhileIterating
    <3>1. Span(u) /\ Holding(u) /\ u \notin reused
      BY <2>1, <2>3 DEF Span, Hooks, Holding
    <3>2. ptr[u] # ptr[s]
      BY <3>1 DEF Pointers
    <3> QED
      BY <1>b, <2>4, <3>1, <3>2 DEF ReachableWhileIterating
  <2> QED
    BY <2>5, <2>6, <2>7
<1>4. ASSUME NEW s \in Servers, Loop(s)
      PROVE  Routing'
  BY <1>4, MovingOnKeepsRouting DEF Loop, OwnerIn, Holding, Registered, Hooks
<1>5. ASSUME NEW s \in Servers, Shutdown(s) \/ EraseServer(s)
      PROVE  Routing'
  <2>1. /\ serverMap' = [serverMap EXCEPT ![ptr[s]] = Absent]
        /\ UNCHANGED <<live, reused>>
        /\ \/ /\ phase[s] = "own" /\ phase' = [phase EXCEPT ![s] = "shut"]
              /\ ptr' = ptr
           \/ /\ phase[s] = "erase" /\ phase' = [phase EXCEPT ![s] = "over"]
              /\ ptr' = [ptr EXCEPT ![s] = None]
    BY <1>5 DEF Shutdown, EraseServer, OwnerIn, Goto
  <2>2. /\ \A u \in Servers \ {s} : phase'[u] = phase[u] /\ ptr'[u] = ptr[u]
        /\ \/ phase'[s] = "shut" /\ ptr'[s] = ptr[s] /\ phase[s] = "own"
           \/ phase'[s] = "over" /\ ptr'[s] = None
    BY <2>1 DEF Typing
  <2>3. \A a \in Addrs : serverMap'[a] = IF a = ptr[s] THEN Absent ELSE serverMap[a]
    BY <2>1 DEF Typing
  <2>4. Pointers'
    <3>1. \A u \in Servers : ptr'[u] = None <=> phase'[u] \in {"unborn", "over"}
      BY <2>2 DEF Pointers
    <3>2. \A u \in Servers : Holding(u)' => Holding(u) /\ ptr'[u] = ptr[u]
      BY <2>2 DEF Holding
    <3>3. \A u \in Servers : Holding(u)' => ptr'[u] \in live'
      BY <2>1, <3>2 DEF Pointers
    <3>4. ASSUME NEW u \in Servers, NEW v \in Servers, u # v, Holding(u)',
                 u \notin reused' \/ Holding(v)'
          PROVE  ptr'[u] # ptr'[v]
      <4>1. ptr'[u] \in Addrs /\ ptr[u] = ptr'[u] /\ Holding(u)
        BY <1>b, <3>2, <3>4
      <4>2. ptr'[v] = ptr[v] \/ ptr'[v] = None
        BY <2>2
      <4>3. ptr[u] # ptr[v]
        BY <2>1, <3>2, <3>4, <4>1 DEF Pointers
      <4> QED
        BY <1>a, <4>1, <4>2, <4>3 DEF ServerLifecycleAssumption
    <3> QED
      BY <3>1, <3>3, <3>4 DEF Pointers
  <2>5. KeysAreHeld'
    <3> SUFFICES ASSUME NEW a \in Addrs, serverMap'[a] \in Servers
                 PROVE  ptr'[serverMap'[a]] = a /\ phase'[serverMap'[a]] \in Registered
      BY DEF KeysAreHeld
    <3>1. a # ptr[s] /\ serverMap'[a] = serverMap[a]
      BY <1>a, <2>3 DEF ServerLifecycleAssumption
    <3>2. ptr[serverMap[a]] = a /\ phase[serverMap[a]] \in Registered
      BY <3>1 DEF KeysAreHeld
    <3> QED
      BY <2>2, <3>1, <3>2
  <2>6. ReachableWhileIterating'
    <3> SUFFICES ASSUME NEW u \in Servers, Span(u)'
                 PROVE  serverMap'[ptr'[u]] = u
      BY DEF ReachableWhileIterating
    <3>1. u # s /\ Span(u) /\ Holding(u) /\ u \notin reused
      BY <2>1, <2>2 DEF Span, Hooks, Holding
    <3>2. ptr[u] # ptr[s] /\ ptr'[u] = ptr[u]
      BY <2>2, <3>1 DEF Pointers
    <3> QED
      BY <1>b, <2>3, <3>1, <3>2 DEF ReachableWhileIterating
  <2> QED
    BY <2>4, <2>5, <2>6
<1>6. ASSUME NEW s \in Servers, Destruct(s) \/ Terminate(s)
      PROVE  Routing'
  BY <1>6, MovingOnKeepsRouting
     DEF Destruct, Terminate, OwnerIn, Holding, Registered, Hooks
<1>7. ASSUME NEW s \in Servers, DeleteServer(s)
      PROVE  Routing'
  <2>1. /\ phase[s] = "delete" /\ phase' = [phase EXCEPT ![s] = "erase"]
        /\ UNCHANGED <<ptr, reused>> /\ live' = live \ {ptr[s]}
        /\ Lookup(ptr[s]) \/ UNCHANGED serverMap
    BY <1>7 DEF DeleteServer, OwnerIn, Goto
  <2>2. /\ \A u \in Servers \ {s} : phase'[u] = phase[u]
        /\ phase'[s] = "erase"
    BY <2>1 DEF Typing
  <2>3. \A a \in Addrs : /\ serverMap[a] \in Servers => serverMap'[a] = serverMap[a]
                         /\ serverMap'[a] \in Servers => serverMap'[a] = serverMap[a]
    BY <2>1, LookupFindsTheSame
  <2>4. Pointers'
    <3>1. \A u \in Servers : ptr'[u] = None <=> phase'[u] \in {"unborn", "over"}
      BY <2>1, <2>2 DEF Pointers
    <3>2. \A u \in Servers : Holding(u)' => Holding(u) /\ u # s
      BY <2>1, <2>2 DEF Holding
    <3>3. Holding(s)
      BY <2>1 DEF Holding
    <3>4. \A u \in Servers : Holding(u)' => ptr'[u] \in live'
      BY <2>1, <3>2, <3>3 DEF Pointers
    <3> QED
      BY <2>1, <3>1, <3>2, <3>4 DEF Pointers
  <2>5. KeysAreHeld'
    BY <2>1, <2>2, <2>3 DEF KeysAreHeld, Registered
  <2>6. ReachableWhileIterating'
    <3> SUFFICES ASSUME NEW u \in Servers, Span(u)'
                 PROVE  serverMap'[ptr[u]] = u
      BY <2>1 DEF ReachableWhileIterating
    <3>1. Span(u) /\ Holding(u)
      BY <2>1, <2>2 DEF Span, Hooks, Holding
    <3> QED
      BY <1>b, <2>3, <3>1 DEF ReachableWhileIterating
  <2> QED
    BY <2>4, <2>5, <2>6
<1>8. CASE \/ \E t \in Threads : Locked(t)
           \/ \E s \in Servers, o \in Ops : Request(s, o)
  <2>1. /\ UNCHANGED <<phase, ptr, live, reused>>
        /\ UNCHANGED serverMap \/ \E o \in Ops : Lookup(ptr[o.server])
    BY <1>8, Serving DEF Looked
  <2>2. \A a \in Addrs : /\ serverMap[a] \in Servers => serverMap'[a] = serverMap[a]
                         /\ serverMap'[a] \in Servers => serverMap'[a] = serverMap[a]
    BY <2>1, LookupFindsTheSame
  <2> QED
    BY <2>1, <2>2, LookupKeepsRouting
<1>9. CASE \/ \E s \in Servers : Stop(s)
           \/ \E t \in Threads, o \in Ops : Call(t, o)
           \/ \E t \in Threads : Return(t)
           \/ UNCHANGED vars
  <2>1. UNCHANGED <<phase, ptr, live, serverMap, reused>>
    BY <1>9 DEF Stop, Call, Return, owner, vars
  <2> QED
    BY <2>1, LookupKeepsRouting
<1> QED
  BY <1>1, <1>2, <1>3, <1>4, <1>5, <1>6, <1>7, <1>8, <1>9 DEF Next, OwnerStep

(* The callbacks of a UA_Server never reach another Server than its wrapper, *)
(* for any number of Servers that come and go with any addresses, unless    *)
(* its address was reused before the key was erased (findServer).          *)
THEOREM CallbacksReachTheirWrapper == Spec => []RoutedToItsWrapper
<1>1. Typing /\ Routing => RoutedToItsWrapper
  <2> SUFFICES ASSUME Typing, Routing, NEW s \in Servers,
                      ptr[s] \in live, phase[s] # "erase", s \notin reused, Found(ptr[s])
               PROVE  serverMap[ptr[s]] = s
    BY DEF RoutedToItsWrapper
  <2>1. ptr[s] \in Addrs /\ ptr[s] # None
    BY ServerLifecycleAssumption DEF ServerLifecycleAssumption, Typing
  <2>2. Holding(s)
    BY <2>1 DEF Routing, Pointers, Holding
  <2>3. serverMap[ptr[s]] \in Servers /\ ptr[serverMap[ptr[s]]] = ptr[s]
    BY <2>1 DEF Routing, KeysAreHeld, Found
  <2> QED
    BY <2>2, <2>3 DEF Routing, Pointers
<1> QED
  BY <1>1, TypingInit, TypingStep, RoutingInit, RoutingStep, PTL DEF Spec

(* From create() on and as long as it iterates, such a Server is found by   *)
(* its callbacks (create, terminate, findServer).                          *)
THEOREM IteratingServersAreFound == Spec => []ReachableWhileIterating
<1>1. Routing => ReachableWhileIterating
  BY DEF Routing
<1> QED
  BY <1>1, TypingInit, TypingStep, RoutingInit, RoutingStep, PTL DEF Spec

-----------------------------------------------------------------------------
(* Nodes belong to Servers that were constructed; one that was not added or *)
(* deleted outside of the span is still to be destructed by a Server that  *)
(* is found, unless that was shut down.                                    *)
Tended(u) ==
    /\ u \notin reused
    /\ \/ phase[u] = "shut"
       \/ phase[u] \in Registered \ {"erase"} /\ serverMap[ptr[u]] = u

Homes ==
    /\ \A n \in Nodes : home[n] # None => phase[home[n]] # "unborn"
    /\ \A n \in Nodes \ strayed : home[n] # None => Tended(home[n])

Pairing == Homes /\ ContextsArePaired

LEMMA PairingInit == Init => Pairing
BY DEF Init, Pairing, Homes, ContextsArePaired

(* Steps that leave the nodes alone.                                       *)
LEMMA TendingKeepsPairing ==
    ASSUME Typing, Pairing, UNCHANGED <<home, balance>>,
           strayed \subseteq strayed',
           \A u \in Servers : phase[u] # "unborn" => phase'[u] # "unborn",
           \A u \in Servers :
              Tended(u) => Tended(u)' \/ \A n \in Nodes : home[n] = u => n \in strayed'
    PROVE  Pairing'
<1>1. \A n \in Nodes : home[n] # None => home[n] \in Servers
  BY DEF Typing
<1>2. Homes'
  <2>1. \A n \in Nodes : home'[n] # None => phase'[home'[n]] # "unborn"
    BY <1>1 DEF Pairing, Homes
  <2>2. ASSUME NEW n \in Nodes \ strayed', home'[n] # None
        PROVE  Tended(home[n])'
    <3>1. Tended(home[n]) /\ home[n] \in Servers
      BY <1>1, <2>2 DEF Pairing, Homes
    <3> QED
      BY <2>2, <3>1 DEF Tended
  <2> QED
    BY <2>1, <2>2 DEF Homes
<1>3. ContextsArePaired'
  BY DEF Pairing, ContextsArePaired
<1> QED
  BY <1>2, <1>3 DEF Pairing

LEMMA PairingStep == Typing /\ Routing /\ Pairing /\ [Next]_vars => Pairing'
<1> SUFFICES ASSUME Typing, Routing, Pairing, [Next]_vars
             PROVE  Pairing'
  OBVIOUS
<1>a. ServerLifecycleAssumption
  BY ServerLifecycleAssumption
<1>b. \A u \in Servers : Tended(u) => Holding(u) /\ u \notin reused /\ ptr[u] \in Addrs
  BY DEF Tended, Holding, Registered, Hooks, Routing, Pointers, Typing
<1>c. \A u, v \in Servers : u # v /\ Tended(u) => ptr[u] # ptr[v]
  BY <1>b DEF Routing, Pointers
<1>1. ASSUME NEW s \in Servers, Construct(s)
      PROVE  Pairing'
  <2>1. /\ phase[s] = "unborn" /\ phase' = [phase EXCEPT ![s] = "ready"]
        /\ reused' \subseteq reused \cup {s}
        /\ \E a : ptr' = [ptr EXCEPT ![s] = a]
        /\ UNCHANGED <<serverMap, home, balance, strayed>>
    BY <1>1 DEF Construct, OwnerIn, Goto, nodes
  <2>2. \A u \in Servers \ {s} : phase'[u] = phase[u] /\ ptr'[u] = ptr[u]
    BY <2>1 DEF Typing
  <2>3. phase'[s] = "ready" /\ ~Tended(s)
    BY <2>1 DEF Typing, Tended, Registered, Hooks
  <2>4. \A u \in Servers : Tended(u) => Tended(u)'
    BY <2>1, <2>2, <2>3 DEF Tended
  <2> QED
    BY <2>1, <2>2, <2>3, <2>4, TendingKeepsPairing
<1>2. ASSUME NEW s \in Servers, Start(s) \/ Loop(s) \/ Terminate(s)
      PROVE  Pairing'
  <2>1. UNCHANGED <<ptr, serverMap, home, balance, strayed, reused>>
    BY <1>2 DEF Start, Loop, Terminate, nodes
  <2>2. \/ phase[s] = "ready" /\ phase' = [phase EXCEPT ![s] = "create"]
        \/ /\ phase[s] \in {"initialise", "test", "iterate", "clear"}
           /\ \E to \in {"test", "iterate", "clear", "delete"} :
                 phase' = [phase EXCEPT ![s] = to]
    BY <1>2 DEF Start, Loop, Terminate, OwnerIn, Goto
  <2>3. \A u \in Servers : phase[u] # "unborn" => phase'[u] # "unborn"
    BY <2>2 DEF Typing
  <2>4. \A u \in Servers : Tended(u) => Tended(u)'
    BY <2>1, <2>2 DEF Tended, Registered, Hooks, Typing
  <2> QED
    BY <2>1, <2>3, <2>4, TendingKeepsPairing
<1>3. ASSUME NEW s \in Servers, Create(s)
      PROVE  Pairing'
  <2>1. /\ phase[s] \in {"ready", "create"}
        /\ \E to \in {"initialise", "own"} : phase' = [phase EXCEPT ![s] = to]
        /\ serverMap' = [serverMap EXCEPT ![ptr[s]] = s]
        /\ UNCHANGED <<ptr, reused, home, balance, strayed>>
    BY <1>3 DEF Create, OwnerIn, Goto, nodes
  <2>2. ~Tended(s)
    BY <2>1 DEF Tended, Registered, Hooks
  <2>3. \A u \in Servers : Tended(u) => Tended(u)'
    BY <1>b, <1>c, <2>1, <2>2 DEF Tended, Typing
  <2>4. \A u \in Servers : phase[u] # "unborn" => phase'[u] # "unborn"
    BY <2>1 DEF Typing
  <2> QED
    BY <2>1, <2>3, <2>4, TendingKeepsPairing
<1>4. ASSUME NEW s \in Servers, Shutdown(s)
      PROVE  Pairing'
  <2>1. /\ phase' = [phase EXCEPT ![s] = "shut"]
        /\ serverMap' = [serverMap EXCEPT ![ptr[s]] = Absent]
        /\ UNCHANGED <<ptr, reused, home, balance, strayed>>
    BY <1>4 DEF Shutdown, Goto, nodes
  <2>2. \A u \in Servers : Tended(u) => Tended(u)'
    BY <1>b, <1>c, <2>1 DEF Tended, Typing
  <2>3. \A u \in Servers : phase[u] # "unborn" => phase'[u] # "unborn"
    BY <2>1 DEF Typing
  <2> QED
    BY <2>1, <2>2, <2>3, TendingKeepsPairing
<1>5. ASSUME NEW s \in Servers, Destruct(s)
      PROVE  Pairing'
  <2>1. /\ phase[s] \in {"ready", "own", "shut"}
        /\ phase' = [phase EXCEPT ![s] = "clear"]
        /\ strayed' = IF phase[s] = "own" THEN strayed
                      ELSE strayed \cup {n \in Nodes : home[n] = s}
        /\ UNCHANGED <<ptr, serverMap, reused, home, balance>>
    BY <1>5 DEF Destruct, OwnerIn, Goto
  <2>2. \A u \in Servers : phase[u] # "unborn" => phase'[u] # "unborn"
    BY <2>1 DEF Typing
  <2>3. \A u \in Servers :
           Tended(u) => Tended(u)' \/ \A n \in Nodes : home[n] = u => n \in strayed'
    BY <2>1 DEF Tended, Registered, Typing
  <2> QED
    BY <2>1, <2>2, <2>3, TendingKeepsPairing
<1>6. ASSUME NEW s \in Servers, DeleteServer(s)
      PROVE  Pairing'
  <2>1. /\ phase[s] = "delete" /\ phase' = [phase EXCEPT ![s] = "erase"]
        /\ home' = [n \in Nodes |-> IF home[n] = s THEN None ELSE home[n]]
        /\ balance' = [n \in Nodes |-> IF home[n] = s
                                   THEN balance[n] + Called("delete", Found(ptr[s]))
                                   ELSE balance[n]]
        /\ Lookup(ptr[s]) \/ UNCHANGED serverMap
        /\ UNCHANGED <<ptr, reused, strayed>>
    BY <1>6 DEF DeleteServer, OwnerIn, Goto
  <2>2. \A u \in Servers : Tended(u) /\ u # s => Tended(u)'
    <3>1. \A a \in Addrs : serverMap[a] \in Servers => serverMap'[a] = serverMap[a]
      BY <2>1, LookupFindsTheSame
    <3> QED
      BY <1>b, <2>1, <3>1 DEF Tended, Typing
  <2>3. ASSUME NEW n \in Nodes, home'[n] # None
        PROVE  /\ home[n] \in Servers \ {s} /\ home'[n] = home[n]
               /\ balance'[n] = balance[n] /\ phase'[home[n]] = phase[home[n]]
    BY <2>1, <2>3 DEF Typing
  <2>4. Homes'
    BY <2>1, <2>2, <2>3 DEF Pairing, Homes
  <2>5. ContextsArePaired'
    <3> SUFFICES ASSUME NEW n \in Nodes \ strayed
                 PROVE  balance'[n] = IF home'[n] = None THEN 0 ELSE 1
      BY <2>1 DEF ContextsArePaired
    <3>1. balance[n] = IF home[n] = None THEN 0 ELSE 1
      BY DEF Pairing, ContextsArePaired
    <3>2. CASE home[n] # s
      BY <2>1, <3>1, <3>2
    <3>3. CASE home[n] = s
      <4>1. Tended(s) /\ s # None
        BY <1>a, <3>3 DEF Pairing, Homes, ServerLifecycleAssumption
      <4>2. Found(ptr[s])
        BY <2>1, <4>1 DEF Tended, Found
      <4>3. balance[n] = 1 /\ balance'[n] = balance[n] + (-1)
        BY <2>1, <3>1, <3>3, <4>1, <4>2 DEF Called
      <4> QED
        BY <2>1, <3>3, <4>3
    <3> QED
      BY <3>2, <3>3
  <2> QED
    BY <2>4, <2>5 DEF Pairing
<1>7. ASSUME NEW s \in Servers, EraseServer(s)
      PROVE  Pairing'
  <2>1. /\ phase[s] = "erase" /\ phase' = [phase EXCEPT ![s] = "over"]
        /\ ptr' = [ptr EXCEPT ![s] = None]
        /\ serverMap' = [serverMap EXCEPT ![ptr[s]] = Absent]
        /\ UNCHANGED <<reused, home, balance, strayed>>
    BY <1>7 DEF EraseServer, OwnerIn, Goto, nodes
  <2>2. ~Tended(s)
    BY <2>1 DEF Tended, Registered, Hooks
  <2>3. \A u \in Servers : Tended(u) => Tended(u)'
    BY <1>b, <1>c, <2>1, <2>2 DEF Tended, Typing
  <2>4. \A u \in Servers : phase[u] # "unborn" => phase'[u] # "unborn"
    BY <2>1 DEF Typing
  <2> QED
    BY <2>1, <2>3, <2>4, TendingKeepsPairing
<1>8. CASE \/ \E t \in Threads : Locked(t)
           \/ \E s \in Servers, o \in Ops : Request(s, o)
  <2>1. /\ UNCHANGED <<phase, ptr, reused>>
        /\ UNCHANGED serverMap \/ \E o \in Ops : Lookup(ptr[o.server])
    BY <1>8, Serving DEF Looked
  <2>2. \A u \in Servers : Tended(u) => Tended(u)'
    <3>1. \A a \in Addrs : serverMap[a] \in Servers => serverMap'[a] = serverMap[a]
      BY <2>1, LookupFindsTheSame
    <3> QED
      BY <1>b, <2>1, <3>1 DEF Tended
  <2>3. CASE UNCHANGED nodes
    BY <2>1, <2>2, <2>3, TendingKeepsPairing DEF nodes
  <2>4. ASSUME NEW o \in Ops, ptr[o.server] \in live, NodeAdded(o) \/ NodeDeleted(o)
        PROVE  Pairing'
    <3> DEFINE u == o.server
               m == o.node
    <3>1. u \in Servers /\ m \in Nodes /\ u # None
      BY <1>a DEF Ops, ServerLifecycleAssumption
    <3>2. /\ strayed \subseteq strayed'
          /\ \A n \in Nodes \ {m} : home'[n] = home[n] /\ balance'[n] = balance[n]
          /\ m \notin strayed' => Span(u) /\ m \notin strayed
      BY <2>4, <3>1 DEF NodeAdded, NodeDeleted, Typing
    <3>3. \/ home[m] = None /\ home'[m] = u /\ balance'[m] = balance[m] + Weight(o)
          \/ home[m] = u /\ home'[m] = None /\ balance'[m] = balance[m] - Weight(o)
      BY <2>4, <3>1 DEF NodeAdded, NodeDeleted, Typing
    <3>4. Span(u) => Tended(u) /\ Weight(o) = 1
      <4> SUFFICES ASSUME Span(u)
                   PROVE  Tended(u) /\ Weight(o) = 1
        OBVIOUS
      <4>1. serverMap[ptr[u]] = u
        BY <3>1 DEF Routing, ReachableWhileIterating
      <4> QED
        BY <3>1, <4>1 DEF Span, Tended, Registered, Hooks, Weight, Found
    <3>5. phase'[u] # "unborn"
      <4>1. ptr[u] # None
        BY <1>a, <2>4 DEF ServerLifecycleAssumption, Typing
      <4> QED
        BY <2>1, <3>1, <4>1 DEF Routing, Pointers
    <3> HIDE DEF u, m
    <3>6. Homes'
      <4>1. ASSUME NEW n \in Nodes, home'[n] # None
            PROVE  phase'[home'[n]] # "unborn"
        BY <2>1, <3>2, <3>3, <3>5, <4>1 DEF Pairing, Homes
      <4>2. ASSUME NEW n \in Nodes \ strayed', home'[n] # None
            PROVE  Tended(home[n])'
        <5>1. CASE n # m
          <6>1. Tended(home[n]) /\ home[n] \in Servers /\ home'[n] = home[n]
            BY <3>2, <4>2, <5>1 DEF Pairing, Homes, Typing
          <6> QED
            BY <2>2, <6>1 DEF Tended
        <5>2. CASE n = m
          <6>1. home'[n] = u /\ Tended(u)
            BY <3>2, <3>3, <3>4, <4>2, <5>2
          <6> QED
            BY <2>2, <3>1, <6>1 DEF Tended
        <5> QED
          BY <5>1, <5>2
      <4> QED
        BY <4>1, <4>2 DEF Homes
    <3>7. ContextsArePaired'
      <4> SUFFICES ASSUME NEW n \in Nodes \ strayed'
                   PROVE  balance'[n] = IF home'[n] = None THEN 0 ELSE 1
        BY DEF ContextsArePaired
      <4>1. n \notin strayed /\ balance[n] = IF home[n] = None THEN 0 ELSE 1
        BY <3>2 DEF Pairing, ContextsArePaired
      <4>2. CASE n # m
        BY <3>2, <4>1, <4>2
      <4>3. CASE n = m
        BY <3>1, <3>2, <3>3, <3>4, <4>1, <4>3
      <4> QED
        BY <4>2, <4>3
    <3> QED
      BY <3>6, <3>7 DEF Pairing
  <2>5. UNCHANGED nodes
        \/ \E o \in Ops : ptr[o.server] \in live /\ (NodeAdded(o) \/ NodeDeleted(o))
    BY <1>8, Serving
  <2> QED
    BY <2>3, <2>4, <2>5
<1>9. CASE \/ \E s \in Servers : Stop(s)
           \/ \E t \in Threads, o \in Ops : Call(t, o)
           \/ \E t \in Threads : Return(t)
           \/ UNCHANGED vars
  <2>1. UNCHANGED <<phase, ptr, serverMap, reused, home, balance, strayed>>
    BY <1>9 DEF Stop, Call, Return, owner, nodes, vars
  <2>2. \A u \in Servers : Tended(u) => Tended(u)'
    BY <2>1 DEF Tended
  <2> QED
    BY <2>1, <2>2, TendingKeepsPairing
<1> QED
  BY <1>1, <1>2, <1>3, <1>4, <1>5, <1>6, <1>7, <1>8, <1>9 DEF Next, OwnerStep

(* A node that is only added and deleted while its Server is in the map was *)
(* constructed by its NodeContext once more than it was destructed while it *)
(* is there and as often when it is gone, whoever did it in which order    *)
(* (Server::constructor, Server::destructor).                              *)
THEOREM ContextsPair == Spec => []ContextsArePaired
<1>1. Pairing => ContextsArePaired
  BY DEF Pairing
<1> QED
  BY <1>1, TypingInit, TypingStep, RoutingInit, RoutingStep, PairingInit, PairingStep,
     PTL DEF Spec

-----------------------------------------------------------------------------
(* How often construct() and destruct() calls can miss each other: a        *)
(* construct() is left over when the key went between the two calls, and a  *)
(* destruct() when it came; each Server brings one key, once.              *)
Past == {s \in Servers : phase[s] \notin {"unborn", "ready", "create"}}
Unkeyed == {s \in Past : \A a \in Addrs : serverMap[a] # s}

Located(u) == ptr[u] \in Addrs /\ Found(ptr[u])
Seen(n) == IF home[n] # None /\ Located(home[n]) THEN 1 ELSE 0

Balanced ==
    \A n \in Nodes : /\ balance[n] <= Cardinality(Unkeyed) + Seen(n)
                     /\ balance[n] >= Seen(n) - Cardinality(Past)

(* Counting Servers.                                                       *)
LEMMA Counting ==
    ASSUME NEW B \in SUBSET Servers, NEW A \in SUBSET B
    PROVE  /\ Cardinality(A) \in Nat /\ Cardinality(B) \in Nat
           /\ Cardinality(Servers) \in Nat
           /\ Cardinality(A) <= Cardinality(B)
           /\ Cardinality(B) <= Cardinality(Servers)
           /\ \A x \in B \ A : Cardinality(A) + 1 <= Cardinality(B)
<1>1. IsFiniteSet(Servers)
  BY ServerLifecycleAssumption DEF ServerLifecycleAssumption
<1>2. IsFiniteSet(B) /\ Cardinality(B) <= Cardinality(Servers)
  BY <1>1, FS_Subset
<1>3. IsFiniteSet(A) /\ Cardinality(A) <= Cardinality(B)
  BY <1>2, FS_Subset
<1>4. ASSUME NEW x \in B \ A
      PROVE  Cardinality(A) + 1 <= Cardinality(B)
  <2>1. Cardinality(A \cup {x}) = Cardinality(A) + 1
    BY <1>3, FS_AddElement
  <2>2. A \cup {x} \in SUBSET B
    OBVIOUS
  <2> QED
    BY <1>2, <2>1, <2>2, FS_Subset
<1> QED
  BY <1>1, <1>2, <1>3, <1>4, FS_CardinalityType

(* Bounds that grow, with no node further from its own.                     *)
LEMMA GrowingBounds ==
    ASSUME Typing, Typing', Balanced, Past \subseteq Past', Unkeyed \subseteq Unkeyed',
           \A n \in Nodes : balance'[n] - Seen(n)' = balance[n] - Seen(n)
    PROVE  Balanced'
<1>1. /\ Past' \subseteq Servers /\ Unkeyed' \subseteq Servers
      /\ Past \subseteq Servers /\ Unkeyed \subseteq Servers
  BY DEF Past, Unkeyed
<1>2. /\ Cardinality(Past) \in Nat /\ Cardinality(Past') \in Nat
      /\ Cardinality(Past) <= Cardinality(Past')
  BY <1>1, Counting
<1>3. /\ Cardinality(Unkeyed) \in Nat /\ Cardinality(Unkeyed') \in Nat
      /\ Cardinality(Unkeyed) <= Cardinality(Unkeyed')
  BY <1>1, Counting
<1> SUFFICES ASSUME NEW n \in Nodes
             PROVE  /\ balance'[n] <= Cardinality(Unkeyed') + Seen(n)'
                    /\ balance'[n] >= Seen(n)' - Cardinality(Past')
  BY DEF Balanced
<1>4. /\ balance[n] <= Cardinality(Unkeyed) + Seen(n)
      /\ balance[n] >= Seen(n) - Cardinality(Past)
  BY DEF Balanced
<1>5. Seen(n) \in Int /\ Seen(n)' \in Int /\ balance[n] \in Int /\ balance'[n] \in Int
  BY DEF Seen, Typing
<1>6. balance'[n] - Seen(n)' = balance[n] - Seen(n)
  OBVIOUS
<1> QED
  BY <1>2, <1>3, <1>4, <1>5, <1>6

LEMMA BalancedInit == Init => Balanced
<1> SUFFICES ASSUME Init
             PROVE  Balanced
  OBVIOUS
<1>1. Past \subseteq Servers /\ Unkeyed \subseteq Servers
  BY DEF Past, Unkeyed
<1>2. Cardinality(Past) \in Nat /\ Cardinality(Unkeyed) \in Nat
  BY <1>1, Counting
<1>3. \A n \in Nodes : Seen(n) = 0 /\ balance[n] = 0
  BY DEF Init, Seen
<1> QED
  BY <1>2, <1>3 DEF Balanced

LEMMA BalancedStep ==
    Typing /\ Routing /\ Pairing /\ Balanced /\ [Next]_vars => Balanced'
<1> SUFFICES ASSUME Typing, Routing, Pairing, Balanced, [Next]_vars
             PROVE  Balanced'
  OBVIOUS
<1>t. Typing'
  BY TypingStep
<1>a. ServerLifecycleAssumption
  BY ServerLifecycleAssumption
<1>b. \A n \in Nodes : /\ home[n] \in Servers \cup {None}
                       /\ home[n] # None => phase[home[n]] # "unborn"
                       /\ balance[n] \in Int
  BY DEF Typing, Pairing, Homes
<1>1. ASSUME NEW s \in Servers, Construct(s)
      PROVE  Balanced'
  <2>1. /\ phase[s] = "unborn" /\ phase' = [phase EXCEPT ![s] = "ready"]
        /\ \E a : ptr' = [ptr EXCEPT ![s] = a]
        /\ UNCHANGED <<serverMap, home, balance>>
    BY <1>1 DEF Construct, OwnerIn, Goto, nodes
  <2>2. Past' = Past /\ Unkeyed' = Unkeyed
    BY <2>1 DEF Past, Unkeyed, Typing
  <2>3. \A n \in Nodes : Seen(n)' = Seen(n)
    BY <1>b, <2>1 DEF Seen, Located, Found, Typing
  <2> QED
    BY <1>t, <2>1, <2>2, <2>3, GrowingBounds
<1>2. ASSUME NEW s \in Servers, Start(s) \/ Loop(s) \/ Terminate(s) \/ Destruct(s)
      PROVE  Balanced'
  <2>1. UNCHANGED <<ptr, serverMap, home, balance>>
    BY <1>2 DEF Start, Loop, Terminate, Destruct, nodes
  <2>2. \/ phase[s] = "ready" /\ phase' = [phase EXCEPT ![s] = "create"]
        \/ \E to \in {"test", "iterate", "clear", "delete"} :
              phase' = [phase EXCEPT ![s] = to]
    BY <1>2 DEF Start, Loop, Terminate, Destruct, OwnerIn, Goto
  <2>3. Past \subseteq Past' /\ Unkeyed \subseteq Unkeyed'
    BY <2>1, <2>2 DEF Past, Unkeyed, Typing
  <2>4. \A n \in Nodes : Seen(n)' = Seen(n)
    BY <2>1 DEF Seen, Located, Found
  <2> QED
    BY <1>t, <2>1, <2>3, <2>4, GrowingBounds
<1>3. ASSUME NEW s \in Servers, Create(s)
      PROVE  Balanced'
  <2>1. /\ phase[s] \in {"ready", "create"}
        /\ \E to \in {"initialise", "own"} : phase' = [phase EXCEPT ![s] = to]
        /\ serverMap' = [serverMap EXCEPT ![ptr[s]] = s]
        /\ UNCHANGED <<ptr, home, balance>>
    BY <1>3 DEF Create, OwnerIn, Goto, nodes
  <2>2. s \in Past' \ Past /\ Past \subseteq Past' /\ Past' \subseteq Servers
    BY <2>1 DEF Past, Typing
  <2>3. Unkeyed \subseteq Unkeyed' /\ Unkeyed' \subseteq Servers
    BY <2>1, <2>2 DEF Unkeyed, Past, Typing
  <2>4. /\ Cardinality(Past) \in Nat /\ Cardinality(Past') \in Nat
        /\ Cardinality(Past) + 1 <= Cardinality(Past')
    BY <2>2, Counting
  <2>5. /\ Cardinality(Unkeyed) \in Nat /\ Cardinality(Unkeyed') \in Nat
        /\ Cardinality(Unkeyed) <= Cardinality(Unkeyed')
    BY <2>3, Counting
  <2>6. ASSUME NEW n \in Nodes
        PROVE  Seen(n) \in {0, 1} /\ Seen(n)' \in {0, 1} /\ Seen(n) <= Seen(n)'
    <3>1. \A u : Located(u) => Located(u)'
      BY <2>1 DEF Located, Found, Typing
    <3> QED
      BY <2>1, <3>1 DEF Seen
  <2> SUFFICES ASSUME NEW n \in Nodes
               PROVE  /\ balance[n] <= Cardinality(Unkeyed') + Seen(n)'
                      /\ balance[n] >= Seen(n)' - Cardinality(Past')
    BY <2>1 DEF Balanced
  <2>7. /\ balance[n] <= Cardinality(Unkeyed) + Seen(n)
        /\ balance[n] >= Seen(n) - Cardinality(Past)
    BY DEF Balanced
  <2> QED
    BY <1>b, <2>4, <2>5, <2>6, <2>7
<1>4. ASSUME NEW s \in Servers, Shutdown(s) \/ EraseServer(s)
      PROVE  Balanced'
  <2>1. /\ serverMap' = [serverMap EXCEPT ![ptr[s]] = Absent]
        /\ \/ /\ phase[s] = "own" /\ phase' = [phase EXCEPT ![s] = "shut"]
              /\ ptr' = ptr
           \/ /\ phase[s] = "erase" /\ phase' = [phase EXCEPT ![s] = "over"]
              /\ ptr' = [ptr EXCEPT ![s] = None]
        /\ UNCHANGED <<home, balance>>
    BY <1>4 DEF Shutdown, EraseServer, OwnerIn, Goto, nodes
  <2>2. Past' = Past /\ Past \subseteq Servers
    BY <2>1 DEF Past, Typing
  <2>3. \A a \in Addrs : serverMap'[a] = IF a = ptr[s] THEN Absent ELSE serverMap[a]
    BY <2>1 DEF Typing
  <2>4. Unkeyed \subseteq Unkeyed' /\ Unkeyed' \subseteq Servers
    BY <1>a, <2>2, <2>3 DEF Unkeyed, Past, ServerLifecycleAssumption
  <2>5. /\ Cardinality(Past) \in Nat
        /\ Cardinality(Unkeyed) \in Nat /\ Cardinality(Unkeyed') \in Nat
        /\ Cardinality(Unkeyed) <= Cardinality(Unkeyed')
    BY <2>2, <2>4, Counting
  <2>6. \A u \in Servers : Located(u)' => Located(u)
    <3>1. None \notin Addrs /\ Absent \notin Servers
      BY <1>a DEF ServerLifecycleAssumption
    <3>2. \A u \in Servers : ptr'[u] = ptr[u] \/ ptr'[u] = None
      BY <2>1 DEF Typing
    <3> QED
      BY <2>3, <3>1, <3>2 DEF Located, Found
  <2>7. ASSUME NEW u \in Servers, Located(u), ~Located(u)'
        PROVE  Cardinality(Unkeyed) + 1 <= Cardinality(Unkeyed')
    <3>1. ptr[u] = ptr[s] /\ ptr[u] \in Addrs
      <4>1. CASE u = s
        BY <2>7, <4>1 DEF Located
      <4>2. CASE u # s
        <5>1. ptr'[u] = ptr[u]
          BY <2>1, <4>2 DEF Typing
        <5> QED
          BY <2>3, <2>7, <5>1 DEF Located, Found
      <4> QED
        BY <4>1, <4>2
    <3> DEFINE k == serverMap[ptr[u]]
    <3>2. k \in Servers /\ ptr[k] = ptr[u] /\ phase[k] \in Registered
      BY <2>7, <3>1 DEF Located, Found, Routing, KeysAreHeld
    <3>3. k \in Past /\ k \notin Unkeyed
      BY <3>1, <3>2 DEF Past, Unkeyed, Registered, Hooks
    <3>4. \A a \in Addrs : serverMap'[a] # k
      <4>1. \A a \in Addrs : serverMap[a] = k => a = ptr[u]
        BY <3>2 DEF Routing, KeysAreHeld
      <4> QED
        BY <1>a, <2>3, <3>1, <3>2, <4>1 DEF ServerLifecycleAssumption
    <3>5. k \in Unkeyed' \ Unkeyed
      BY <2>2, <3>3, <3>4 DEF Unkeyed
    <3> QED
      BY <2>4, <3>5, Counting
  <2> SUFFICES ASSUME NEW n \in Nodes
               PROVE  /\ balance[n] <= Cardinality(Unkeyed') + Seen(n)'
                      /\ balance[n] >= Seen(n)' - Cardinality(Past')
    BY <2>1 DEF Balanced
  <2>8. /\ balance[n] <= Cardinality(Unkeyed) + Seen(n)
        /\ balance[n] >= Seen(n) - Cardinality(Past)
    BY DEF Balanced
  <2>9. \/ Seen(n)' = Seen(n)
        \/ Seen(n) = 1 /\ Seen(n)' = 0 /\ Cardinality(Unkeyed) + 1 <= Cardinality(Unkeyed')
    BY <1>b, <2>1, <2>6, <2>7 DEF Seen
  <2>10. Seen(n) \in {0, 1}
    BY DEF Seen
  <2> QED
    BY <1>b, <2>2, <2>5, <2>8, <2>9, <2>10
<1>5. ASSUME NEW s \in Servers, DeleteServer(s)
      PROVE  Balanced'
  <2>1. /\ phase[s] = "delete" /\ phase' = [phase EXCEPT ![s] = "erase"]
        /\ home' = [n \in Nodes |-> IF home[n] = s THEN None ELSE home[n]]
        /\ balance' = [n \in Nodes |-> IF home[n] = s
                                   THEN balance[n] + Called("delete", Found(ptr[s]))
                                   ELSE balance[n]]
        /\ Lookup(ptr[s]) \/ UNCHANGED serverMap
        /\ ptr' = ptr
    BY <1>5 DEF DeleteServer, OwnerIn, Goto
  <2>2. \A a \in Addrs : /\ serverMap[a] \in Servers => serverMap'[a] = serverMap[a]
                         /\ serverMap'[a] \in Servers => serverMap'[a] = serverMap[a]
    BY <2>1, LookupFindsTheSame
  <2>3. Past' = Past /\ Unkeyed' = Unkeyed
    <3>1. Past' = Past
      BY <2>1 DEF Past, Typing
    <3> QED
      BY <2>2, <3>1 DEF Unkeyed, Past
  <2>4. \A u : Located(u)' <=> Located(u)
    BY <2>1, <2>2 DEF Located, Found
  <2>5. ptr[s] \in Addrs /\ s # None
    BY <1>a, <2>1 DEF Routing, Pointers, Typing, ServerLifecycleAssumption
  <2>6. ASSUME NEW n \in Nodes
        PROVE  balance'[n] - Seen(n)' = balance[n] - Seen(n)
    <3>1. CASE home[n] = s
      <4>1. Seen(n) = IF Found(ptr[s]) THEN 1 ELSE 0
        BY <2>5, <3>1 DEF Seen, Located
      <4>2. balance'[n] = balance[n] - (IF Found(ptr[s]) THEN 1 ELSE 0)
        <5>1. balance'[n] = balance[n] + Called("delete", Found(ptr[s]))
          BY <2>1, <3>1
        <5> QED
          BY <1>b, <5>1 DEF Called
      <4>3. Seen(n)' = 0
        BY <2>1, <3>1 DEF Seen
      <4> QED
        BY <1>b, <4>1, <4>2, <4>3
    <3>2. CASE home[n] # s
      <4>1. Seen(n)' = Seen(n)
        BY <2>1, <2>4, <3>2 DEF Seen
      <4> QED
        BY <2>1, <3>2, <4>1
    <3> QED
      BY <3>1, <3>2
  <2> QED
    BY <1>t, <2>3, <2>6, GrowingBounds
<1>6. CASE \/ \E t \in Threads : Locked(t)
           \/ \E s \in Servers, o \in Ops : Request(s, o)
  <2>1. /\ UNCHANGED <<phase, ptr>>
        /\ UNCHANGED serverMap \/ \E o \in Ops : Lookup(ptr[o.server])
    BY <1>6, Serving DEF Looked
  <2>2. \A a \in Addrs : /\ serverMap[a] \in Servers => serverMap'[a] = serverMap[a]
                         /\ serverMap'[a] \in Servers => serverMap'[a] = serverMap[a]
    BY <2>1, LookupFindsTheSame
  <2>3. Past' = Past /\ Unkeyed' = Unkeyed
    BY <2>1, <2>2 DEF Past, Unkeyed
  <2>4. \A u : Located(u)' <=> Located(u)
    BY <2>1, <2>2 DEF Located, Found
  <2>5. ASSUME NEW n \in Nodes
        PROVE  balance'[n] - Seen(n)' = balance[n] - Seen(n)
    <3>1. CASE UNCHANGED nodes
      BY <2>4, <3>1 DEF nodes, Seen
    <3>2. ASSUME NEW o \in Ops, ptr[o.server] \in live, NodeAdded(o) \/ NodeDeleted(o)
          PROVE  balance'[n] - Seen(n)' = balance[n] - Seen(n)
      <4>1. o.server \in Servers /\ o.node \in Nodes /\ o.server # None
        BY <1>a DEF Ops, ServerLifecycleAssumption
      <4>2. CASE n # o.node
        <5>1. home'[n] = home[n] /\ balance'[n] = balance[n]
          BY <3>2, <4>1, <4>2 DEF NodeAdded, NodeDeleted, Typing
        <5> QED
          BY <2>4, <5>1 DEF Seen
      <4>3. CASE n = o.node
        <5>1. \/ /\ home[n] = None /\ home'[n] = o.server
                 /\ balance'[n] = balance[n] + Weight(o)
              \/ /\ home[n] = o.server /\ home'[n] = None
                 /\ balance'[n] = balance[n] - Weight(o)
          BY <3>2, <4>1, <4>3 DEF NodeAdded, NodeDeleted, Typing
        <5>2. (IF Located(o.server) THEN 1 ELSE 0) = Weight(o) /\ Weight(o) \in {0, 1}
          BY <3>2 DEF Located, Weight, Typing
        <5>3. \/ Seen(n) = 0 /\ Seen(n)' = Weight(o) /\ balance'[n] = balance[n] + Weight(o)
              \/ Seen(n) = Weight(o) /\ Seen(n)' = 0 /\ balance'[n] = balance[n] - Weight(o)
          BY <2>4, <4>1, <5>1, <5>2 DEF Seen
        <5> QED
          BY <1>b, <5>2, <5>3
      <4> QED
        BY <4>2, <4>3
    <3> QED
      BY <1>6, <3>1, <3>2, Serving
  <2> QED
    BY <1>t, <2>3, <2>5, GrowingBounds
<1>7. CASE \/ \E s \in Servers : Stop(s)
           \/ \E t \in Threads, o \in Ops : Call(t, o)
           \/ \E t \in Threads : Return(t)
           \/ UNCHANGED vars
  <2>1. UNCHANGED <<phase, ptr, serverMap, home, balance>>
    BY <1>7 DEF Stop, Call, Return, owner, nodes, vars
  <2> QED
    BY <2>1 DEF Balanced, Past, Unkeyed, Seen, Located, Found
<1> QED
  BY <1>1, <1>2, <1>3, <1>4, <1>5, <1>6, <1>7 DEF Next, OwnerStep

(* Types, and the bounds on the constructions and destructions of a node    *)
(* that missed each other: at most one for every Server.                   *)
THEOREM TypeCorrect == Spec => []TypeOK
<1>1. Typing /\ Balanced => TypeOK
  <2> SUFFICES ASSUME Typing, Balanced, NEW n \in Nodes
               PROVE  balance[n] \in -Cardinality(Servers) .. Cardinality(Servers)
    BY DEF Typing, TypeOK
  <2>1. Past \subseteq Servers /\ Unkeyed \subseteq Past
    BY DEF Past, Unkeyed
  <2>2. /\ Cardinality(Past) \in Nat /\ Cardinality(Unkeyed) \in Nat
        /\ Cardinality(Servers) \in Nat
        /\ Cardinality(Past) <= Cardinality(Servers)
        /\ Cardinality(Unkeyed) <= Cardinality(Servers)
        /\ \A x \in Servers \ Unkeyed : Cardinality(Unkeyed) + 1 <= Cardinality(Servers)
    BY <2>1, Counting
  <2>3. CASE Seen(n) = 1
    <3>1. serverMap[ptr[home[n]]] \in Servers \ Unkeyed
      BY <2>3 DEF Seen, Located, Found, Unkeyed
    <3>2. Cardinality(Unkeyed) + 1 <= Cardinality(Servers)
      BY <2>2, <3>1
    <3> QED
      BY <2>2, <2>3, <3>2 DEF Balanced, Typing
  <2>4. CASE Seen(n) = 0
    BY <2>2, <2>4 DEF Balanced, Typing
  <2> QED
    BY <2>3, <2>4 DEF Seen
<1> QED
  BY <1>1, TypingInit, TypingStep, RoutingInit, RoutingStep, PairingInit, PairingStep,
     BalancedInit, BalancedStep, PTL DEF Spec
=============================================================================
