\* One thread, three UA_Clients in a row, connections that may be lost.
SPECIFICATION FairSpec
CONSTANTS
    Threads = {a}
    NoThread = NoThread
    MaxClients = 3
    MaxSubs = 2
    MaxTimers = 2
    MayLose = TRUE
INVARIANTS QuietStatesAgree SubscriptionsHaveASession
PROPERTY CallsReturn
CHECK_DEADLOCK FALSE
