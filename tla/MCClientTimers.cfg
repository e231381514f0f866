\* Four Timer objects, three UA_Clients in a row, additions that may be refused.
SPECIFICATION Spec
CONSTANTS
    Timers = {t1, t2, t3, t4}
    NoTimer = NoTimer
    MaxId = 3
    MaxClients = 3
SYMMETRY Symmetry
INVARIANTS RegisteredIsOwned OwnedUnderItsId LiveIsScheduled
PROPERTIES OneShotIsSpent AdditionSparesTheScheduled ImplementsScheduler
\* Undefined behaviour and the bounds end a behaviour.
CHECK_DEADLOCK FALSE
