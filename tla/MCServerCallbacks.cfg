\* Two Timers and one callback object of each kind share three ids, beside two
\* conditions.
SPECIFICATION ServerSpec
CONSTANTS
    Timers = {t1, t2}
    Timed = {d}
    Repeated = {r}
    None = None
    MaxId = 3
    Conds = {c1, c2}
    NullId = NullId
SYMMETRY Symmetry
INVARIANTS QueuedIsAlive TimersAreOwned AcceptedStaysQueued
    ConditionsAreMirrored
PROPERTY ImplementsScheduler
\* Undefined behaviour and the end of the server end a behaviour.
CHECK_DEADLOCK FALSE
