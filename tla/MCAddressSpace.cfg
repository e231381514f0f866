\* A thread of the server and a client; two nodes can be added.
SPECIFICATION FairSpec
CONSTANTS
    root = root
    p = p
    q = q
    f = f
    x = x
    y = y
    Servers = {s}
    Clients = {c}
    Nodes = {root, p, q, f, n1, n2}
    Standard = {root}
    Foreign = {f}
    Names = {x, y}
    NoName = NoName
    Paths <- PathsToMake
    KnownNames <- GraphNames
    KnownRefs <- GraphRefs
    MaxCalls = 3
INVARIANTS TypeOK FoundIsOnPath NoTwins DeletedIsGone
PROPERTIES CutsOnlyBelow CallsReturn
\* A caller may have no more calls to make.
CHECK_DEADLOCK FALSE
