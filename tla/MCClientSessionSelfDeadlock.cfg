SPECIFICATION Spec
CONSTANTS
    Threads = {a}
    NoThread = NoThread
    MaxClients = 1
    MaxSubs = 1
    MaxTimers = 1
    MayLose = FALSE
INVARIANT NoSelfDeadlock
CHECK_DEADLOCK FALSE
