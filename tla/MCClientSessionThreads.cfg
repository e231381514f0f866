\* Two threads sharing a client whose connection may be lost.
SPECIFICATION FairSpec
CONSTANTS
    Threads = {a, b}
    NoThread = NoThread
    MaxClients = 1
    MaxSubs = 0
    MaxTimers = 1
    MayLose = TRUE
INVARIANT LockedCallsExclude
PROPERTY CallsReturn
\* Undefined behaviour ends a behaviour.
CHECK_DEADLOCK FALSE
