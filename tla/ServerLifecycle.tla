--------------------------- MODULE ServerLifecycle ---------------------------
(***************************************************************************)
(* Life cycle of Open62541::Server and the routing of its callbacks.       *)
(*                                                                         *)
(* The static s_serverMap leads from the address of a UA_Server to the     *)
(* Server the library's callbacks are meant for.  A Server is in it from   *)
(* create() to shutdown() or terminate(), while its UA_Server lives from   *)
(* the constructor to terminate(), so the nodes added or deleted outside   *)
(* of that span miss their NodeContext.  Each Server has an owner thread,  *)
(* which runs start() or a life cycle of its own; other threads call its   *)
(* node operations, which hold m_mutex, and stop().                        *)
(*                                                                         *)
(* UA_Server_new, UA_Server_delete and the address space are external.     *)
(***************************************************************************)
EXTENDS Integers, FiniteSets

CONSTANTS
    Servers,       \* Server objects; each also names its owner thread
    Workers,       \* other threads, which call node operations
    Nodes,         \* nodes with a NodeContext
    Addrs,         \* addresses a UA_Server can have
    None,          \* nullptr, and no thread
    Absent         \* no key in s_serverMap

ASSUME ServerLifecycleAssumption ==
    /\ Servers \cap Workers = {}
    /\ None \notin Servers \cup Workers \cup Nodes \cup Addrs
    /\ Absent \notin Servers \cup {None}
    /\ IsFiniteSet(Servers)

Threads == Servers \cup Workers

VARIABLES
    phase,      \* where the owner of each Server is
    ptr,        \* m_pServer
    running,    \* m_running
    stopped,    \* history: stop() was called during start()
    live,       \* addresses at which there is a UA_Server
    serverMap,  \* s_serverMap
    writer,     \* the thread holding m_mutex of each Server
    pc,         \* node operations: "idle", "tested", "hook"
    op,         \* the operation of each thread: server, node, kind
    home,       \* the Server whose UA_Server has the node
    balance,    \* history: construct() minus destruct() calls for the node
    strayed,    \* history: nodes added or deleted outside of the span above
    reused,     \* history: Servers that got an address not yet erased
    fault

owner == <<phase, ptr, running, stopped, live, serverMap, reused>>
nodes == <<home, balance, strayed>>
vars == <<owner, writer, pc, op, nodes, fault>>

Phases == {"unborn", "ready", "create", "initialise", "test", "iterate",
           "own", "shut", "clear", "delete", "erase", "over"}
Ops == [server : Servers, node : Nodes, kind : {"add", "delete", "read", "write"}]

TypeOK ==
    /\ phase \in [Servers -> Phases]
    /\ ptr \in [Servers -> Addrs \cup {None}]
    /\ running \in [Servers -> BOOLEAN] /\ stopped \in [Servers -> BOOLEAN]
    /\ live \subseteq Addrs
    /\ serverMap \in [Addrs -> Servers \cup {None, Absent}]
    /\ writer \in [Servers -> Threads \cup {None}]
    /\ pc \in [Threads -> {"idle", "tested", "hook"}]
    /\ op \in [Threads -> Ops \cup {None}]
    /\ home \in [Nodes -> Servers \cup {None}]
    /\ balance \in [Nodes -> -Cardinality(Servers) .. Cardinality(Servers)]
    /\ strayed \subseteq Nodes /\ reused \subseteq Servers
    /\ fault \in {"none", "useAfterDelete", "nullServer"}

Init ==
    /\ phase = [s \in Servers |-> "unborn"]
    /\ ptr = [s \in Servers |-> None]
    /\ running = [s \in Servers |-> FALSE]
    /\ stopped = [s \in Servers |-> FALSE]
    /\ live = {}
    /\ serverMap = [a \in Addrs |-> Absent]
    /\ writer = [s \in Servers |-> None]
    /\ pc = [t \in Threads |-> "idle"]
    /\ op = [t \in Threads |-> None]
    /\ home = [n \in Nodes |-> None]
    /\ balance = [n \in Nodes |-> 0]
    /\ strayed = {} /\ reused = {}
    /\ fault = "none"

-----------------------------------------------------------------------------
(* Callbacks of the library.                                               *)

(* findServer: operator[] inserts a null pointer under an unknown key.     *)
Lookup(a) ==
    serverMap' = [serverMap EXCEPT ![a] = IF @ = Absent THEN None ELSE @]
Found(a) == serverMap[a] \in Servers

(* Bugs to detect: both callbacks construct; the destructor is not set.    *)
CalledTwice(kind, found) == IF found THEN 1 ELSE 0
CalledOnce(kind, found) == IF found /\ kind = "add" THEN 1 ELSE 0

(* constructor and destructor: if a Server is found, and the node has a     *)
(* context, construct() or destruct() is called.                           *)
Called(kind, found) == IF ~found THEN 0 ELSE IF kind = "add" THEN 1 ELSE -1

(* readDataSource, writeDataSource and the value callbacks of NodeContext   *)
(* do nothing, and report success, when no Server is found.                *)
ContextCallback(found) == UNCHANGED fault

(* The callbacks of the history classes use the Server that findServer      *)
(* returns unseen: HistoryDataGathering,                                   *)
UseServer(found) == fault' = IF found THEN fault ELSE "nullServer"
GatheringCallback(found) == UseServer(found)

(* getHistoryData of HistoryDataBackend, its other callbacks unless the     *)
(* session is missing,                                                     *)
GetHistoryData(found) == UseServer(found)
BackendCallback(found) == UseServer(found) \/ UNCHANGED fault

(* and HistoryDatabase.                                                    *)
DatabaseCallback(found) == UseServer(found)

(* What readAttribute, and a read of a client, lead to,                     *)
ReadCallback(found) == ContextCallback(found)

(* what writeAttribute does: the value goes to the history as well,         *)
WriteCallback(found) ==
    \/ ContextCallback(found)
    \/ GatheringCallback(found)
    \/ BackendCallback(found)
    \/ DatabaseCallback(found)

(* and what reading or updating the history does.                          *)
HistoryCallback(found) ==
    \/ GetHistoryData(found)
    \/ BackendCallback(found)
    \/ DatabaseCallback(found)

-----------------------------------------------------------------------------
(* Owner threads.                                                          *)

Goto(s, where) == phase' = [phase EXCEPT ![s] = where]

(* A step of the owner of s from one of the phases F; while one of its node *)
(* operations is under way it is inside that.                              *)
OwnerIn(s, F) == phase[s] \in F /\ pc[s] = "idle" /\ fault = "none"

(* The Server constructors: UA_Server_new yields an address that is free,   *)
(* for one that of a UA_Server whose terminate() has yet to erase it.      *)
Construct(s) ==
    /\ OwnerIn(s, {"unborn"})
    /\ \E a \in Addrs \ live :
          /\ reused' = IF \E u \in Servers : ptr[u] = a THEN reused \cup {s} ELSE reused
          /\ ptr' = [ptr EXCEPT ![s] = a]
          /\ live' = live \cup {a}
    /\ Goto(s, "ready")
    /\ UNCHANGED <<running, stopped, serverMap, writer, pc, op, nodes, fault>>

(* start(): m_running is set before anything else is done.                 *)
Start(s) ==
    /\ OwnerIn(s, {"ready"})
    /\ ~running[s]
    /\ running' = [running EXCEPT ![s] = TRUE]
    /\ Goto(s, "create")
    /\ UNCHANGED <<ptr, stopped, live, serverMap, writer, pc, op, nodes,
                   fault, reused>>

(* Bug to detect: create() does not register the Server.                   *)
CreateUnregistered(s) ==
    /\ OwnerIn(s, {"ready", "create"})
    /\ Goto(s, IF phase[s] = "create" THEN "initialise" ELSE "own")
    /\ UNCHANGED <<ptr, running, stopped, live, serverMap, writer, pc, op,
                   nodes, fault, reused>>

(* create(), called by start() or by the owner's own life cycle.           *)
Create(s) ==
    /\ OwnerIn(s, {"ready", "create"})
    /\ serverMap' = [serverMap EXCEPT ![ptr[s]] = s]
    /\ Goto(s, IF phase[s] = "create" THEN "initialise" ELSE "own")
    /\ UNCHANGED <<ptr, running, stopped, live, writer, pc, op, nodes,
                   fault, reused>>

(* The loop of start(): the hook initialise(), then iterate() with its hook *)
(* process() for as long as m_running is set.                              *)
Loop(s) ==
    /\ OwnerIn(s, {"initialise", "test", "iterate"})
    /\ Goto(s, IF phase[s] # "test" THEN "test"
               ELSE IF running[s] THEN "iterate" ELSE "clear")
    /\ UNCHANGED <<ptr, running, stopped, live, serverMap, writer, pc, op,
                   nodes, fault, reused>>

(* shutdown(), the end of the owner's own life cycle.                      *)
Shutdown(s) ==
    /\ OwnerIn(s, {"own"})
    /\ serverMap' = [serverMap EXCEPT ![ptr[s]] = Absent]
    /\ Goto(s, "shut")
    /\ UNCHANGED <<ptr, running, stopped, live, writer, pc, op, nodes,
                   fault, reused>>

(* ~Server of a Server that start() did not terminate: m_mutex is taken and *)
(* held during terminate().  Nobody destroys a Server in use.  The nodes of *)
(* one that is not in s_serverMap will be deleted outside of its span.     *)
Destruct(s) ==
    /\ OwnerIn(s, {"ready", "own", "shut"})
    /\ \A t \in Threads : pc[t] # "idle" => op[t].server # s
    /\ writer[s] = None
    /\ writer' = [writer EXCEPT ![s] = s]
    /\ strayed' = IF phase[s] = "own" THEN strayed
                  ELSE strayed \cup {n \in Nodes : home[n] = s}
    /\ Goto(s, "clear")
    /\ UNCHANGED <<ptr, running, stopped, live, serverMap, pc, op, home,
                   balance, fault, reused>>

(* terminate(): UA_Server_run_shutdown, then UA_Server_delete, after which  *)
(* the address is free and the nodes are destructed and gone,              *)
Terminate(s) ==
    /\ OwnerIn(s, {"clear"})
    /\ Goto(s, "delete")
    /\ UNCHANGED <<ptr, running, stopped, live, serverMap, writer, pc, op,
                   nodes, fault, reused>>

DeleteServer(s) ==
    /\ OwnerIn(s, {"delete"})
    /\ live' = live \ {ptr[s]}
    /\ home' = [n \in Nodes |-> IF home[n] = s THEN None ELSE home[n]]
    /\ balance' = [n \in Nodes |-> IF home[n] = s
                                   THEN balance[n] + Called("delete", Found(ptr[s]))
                                   ELSE balance[n]]
    /\ IF \E n \in Nodes : home[n] = s THEN Lookup(ptr[s]) ELSE UNCHANGED serverMap
    /\ Goto(s, "erase")
    /\ UNCHANGED <<ptr, running, stopped, writer, pc, op, fault,
                   reused, strayed>>

(* Bug to detect: the key stays in s_serverMap.                            *)
EraseNothing(s) ==
    /\ OwnerIn(s, {"erase"})
    /\ ptr' = [ptr EXCEPT ![s] = None]
    /\ running' = [running EXCEPT ![s] = FALSE]
    /\ writer' = [writer EXCEPT ![s] = IF @ = s THEN None ELSE @]
    /\ Goto(s, "over")
    /\ UNCHANGED <<stopped, live, serverMap, pc, op, nodes, fault, reused>>

(* then the key is erased and m_pServer reset; start() resets m_running,    *)
(* ~Server releases m_mutex.                                               *)
EraseServer(s) ==
    /\ OwnerIn(s, {"erase"})
    /\ serverMap' = [serverMap EXCEPT ![ptr[s]] = Absent]
    /\ ptr' = [ptr EXCEPT ![s] = None]
    /\ running' = [running EXCEPT ![s] = FALSE]
    /\ writer' = [writer EXCEPT ![s] = IF @ = s THEN None ELSE @]
    /\ Goto(s, "over")
    /\ UNCHANGED <<stopped, live, pc, op, nodes, fault, reused>>

(* Bug to detect: m_running stays set.                                     *)
StopNothing(s) ==
    /\ fault = "none"
    /\ phase[s] \notin {"unborn", "over"}
    /\ stopped' = [stopped EXCEPT ![s] = @ \/ running[s]]
    /\ UNCHANGED <<phase, ptr, running, live, serverMap, writer, pc, op,
                   nodes, fault, reused>>

(* stop(), from any thread or a signal handler.                            *)
Stop(s) ==
    /\ fault = "none"
    /\ phase[s] \notin {"unborn", "over"}
    /\ running' = [running EXCEPT ![s] = FALSE]
    /\ stopped' = [stopped EXCEPT ![s] = @ \/ running[s]]
    /\ UNCHANGED <<phase, ptr, live, serverMap, writer, pc, op, nodes,
                   fault, reused>>

-----------------------------------------------------------------------------
(* Node operations: addVariableNode and the other add operations with a     *)
(* NodeContext, deleteNode, and the readers and writers of attributes.     *)

Hooks == {"initialise", "iterate", "own"}

(* The span in which a Server is in s_serverMap under its address.          *)
Span(s) == phase[s] \in Hooks \cup {"test"} /\ s \notin reused

(* When t uses the Server s: its owner before and after the library runs,   *)
(* in the hooks of the life cycle and between the calls of its own, a      *)
(* worker while the Server is known to run.                                *)
MayUse(t, s) ==
    IF t \in Servers THEN t = s /\ phase[s] \in Hooks \cup {"ready", "shut"}
    ELSE phase[s] \in Hooks

(* if (!server()) return false                                             *)
Call(t, o) ==
    /\ fault = "none"
    /\ pc[t] = "idle" /\ MayUse(t, o.server)
    /\ ptr[o.server] # None
    /\ pc' = [pc EXCEPT ![t] = "tested"]
    /\ op' = [op EXCEPT ![t] = o]
    /\ UNCHANGED <<owner, writer, nodes, fault>>

(* The node of o is added or deleted, and its constructor or destructor    *)
(* called.                                                                 *)
Change(o, found) ==
    /\ home' = [home EXCEPT ![o.node] =
                   IF o.kind = "add" THEN o.server ELSE None]
    /\ balance' = [balance EXCEPT ![o.node] = @ + Called(o.kind, found)]
    /\ strayed' = IF Span(o.server) THEN strayed ELSE strayed \cup {o.node}
    /\ UNCHANGED fault

(* Its value is read or written.                                           *)
Access(o, found) ==
    /\ IF o.kind = "read" THEN ReadCallback(found) ELSE WriteCallback(found)
    /\ UNCHANGED nodes

(* What the library does with the node of o, if it can.                    *)
InLibrary(o) ==
    LET found == Found(ptr[o.server])
        possible == home[o.node] = IF o.kind = "add" THEN None ELSE o.server
    IN  IF ~possible THEN UNCHANGED <<serverMap, nodes, fault>>
        ELSE /\ Lookup(ptr[o.server])
             /\ IF o.kind \in {"add", "delete"}
                THEN Change(o, found) ELSE Access(o, found)

(* A node whose construct() fails is dropped.                              *)
ConstructFails(o) ==
    /\ o.kind = "add" /\ home[o.node] = None /\ Found(ptr[o.server])
    /\ UNCHANGED <<serverMap, nodes, fault>>

(* A node whose type's typeConstruct() fails, or whose Server is not found  *)
(* by typeConstructor, is destructed at once and dropped.                  *)
TypeConstructFails(o) ==
    LET found == Found(ptr[o.server]) IN
    /\ o.kind = "add" /\ home[o.node] = None
    /\ Lookup(ptr[o.server])
    /\ balance' = [balance EXCEPT
                     ![o.node] = @ + Called("add", found) + Called("delete", found)]
    /\ UNCHANGED <<home, strayed, fault>>

(* The access control handlers: a client's request is refused by the Server *)
(* that is found, and also when none is found.                             *)
AccessDenied(o) ==
    /\ Lookup(ptr[o.server])
    /\ UNCHANGED <<nodes, fault>>

(* A client reads or updates the history of a node.                        *)
HistoryRequest(o) ==
    /\ o.kind \in {"read", "write"} /\ home[o.node] = o.server
    /\ Lookup(ptr[o.server])
    /\ HistoryCallback(Found(ptr[o.server]))
    /\ UNCHANGED nodes

(* WriteLock l(m_mutex), and the call into the library with m_pServer as it *)
(* is then.  A construct() or destruct() hook runs under the lock.         *)
Locked(t) ==
    LET o == op[t] IN
    /\ fault = "none"
    /\ pc[t] = "tested" /\ writer[o.server] = None
    /\ IF ptr[o.server] \notin live
       THEN /\ fault' = "useAfterDelete"
            /\ UNCHANGED <<serverMap, nodes, writer, pc, op>>
       ELSE /\ InLibrary(o) \/ ConstructFails(o) \/ TypeConstructFails(o)
            /\ pc' = [pc EXCEPT ![t] = "hook"]
            /\ writer' = [writer EXCEPT ![o.server] = t]
            /\ UNCHANGED op
    /\ UNCHANGED <<phase, ptr, running, stopped, live, reused>>

(* The hook is done, and with it the operation.                            *)
Return(t) ==
    /\ fault = "none"
    /\ pc[t] = "hook"
    /\ pc' = [pc EXCEPT ![t] = "idle"]
    /\ op' = [op EXCEPT ![t] = None]
    /\ writer' = [writer EXCEPT ![op[t].server] = None]
    /\ UNCHANGED <<owner, nodes, fault>>

(* A client's request, served inside iterate() without m_mutex.            *)
Request(s, o) ==
    /\ OwnerIn(s, {"iterate", "own"})
    /\ o.server = s /\ ptr[s] \in live
    /\ IF Found(ptr[s])
       THEN \/ InLibrary(o) \/ ConstructFails(o) \/ TypeConstructFails(o)
            \/ HistoryRequest(o) \/ AccessDenied(o)
       ELSE AccessDenied(o)
    /\ UNCHANGED <<phase, ptr, running, stopped, live, writer, pc, op, reused>>

OwnerStep(s) ==
    \/ Construct(s) \/ Start(s) \/ Create(s) \/ Loop(s) \/ Shutdown(s)
    \/ Destruct(s) \/ Terminate(s) \/ DeleteServer(s) \/ EraseServer(s)

Next ==
    \/ \E s \in Servers : OwnerStep(s) \/ Stop(s)
    \/ \E t \in Threads, o \in Ops : Call(t, o)
    \/ \E t \in Threads : Locked(t) \/ Return(t)
    \/ \E s \in Servers, o \in Ops : Request(s, o)

Spec == Init /\ [][Next]_vars

(* A thread that is inside start(), terminate() or a node operation is      *)
(* scheduled, and gets a lock that keeps becoming free; the user's hooks    *)
(* initialise() and process() return.                                      *)
FairSpec ==
    /\ Spec
    /\ \A s \in Servers : /\ WF_vars(phase[s] = "create" /\ Create(s))
                          /\ SF_vars(Loop(s))
                          /\ WF_vars(Terminate(s) \/ DeleteServer(s) \/ EraseServer(s))
    /\ \A t \in Threads : SF_vars(Locked(t)) /\ WF_vars(Return(t))

-----------------------------------------------------------------------------
(* The callbacks of a UA_Server never reach another Server than its         *)
(* wrapper, as long as its address was not reused before the key of the    *)
(* previous holder was erased: also after other Servers, with the same     *)
(* address in turn, came and went (findServer, create, terminate).         *)
RoutedToItsWrapper ==
    \A s \in Servers :
        ptr[s] \in live /\ phase[s] # "erase" /\ s \notin reused /\ Found(ptr[s])
            => serverMap[ptr[s]] = s

(* From create() on and as long as it iterates, such a Server is found by   *)
(* the callbacks of its UA_Server (create, terminate, findServer).         *)
ReachableWhileIterating ==
    \A s \in Servers : Span(s) => serverMap[ptr[s]] = s

(* A node that is only added and deleted while its Server is between        *)
(* create() and shutdown() or terminate() was constructed by its           *)
(* NodeContext once more than it was destructed as long as it is there,    *)
(* and as often when it is not, whoever added and deleted it               *)
(* (Server::constructor, Server::destructor).                              *)
ContextsArePaired ==
    \A n \in Nodes \ strayed : balance[n] = IF home[n] = None THEN 0 ELSE 1

(* After a stop() during start() the loop ends and start() returns, unless  *)
(* undefined behaviour was reached before (start, stop, terminate).        *)
StopEndsStart ==
    \A s \in Servers : stopped[s] ~> phase[s] = "over" \/ fault # "none"
=============================================================================
