\* Two Servers whose UA_Servers compete for one address, and a worker thread.
SPECIFICATION FairSpec
CONSTANTS
    Servers = {s1, s2}
    Workers = {w}
    Nodes = {n}
    Addrs = {a}
    None = None
    Absent = Absent
INVARIANTS TypeOK RoutedToItsWrapper ReachableWhileIterating ContextsArePaired
PROPERTY StopEndsStart
\* The Servers are terminated at last.
CHECK_DEADLOCK FALSE
