\* A tree of one level is enough for a removal that removes nothing.
SPECIFICATION Spec
CONSTANTS
    MaxName = 1
    MaxDepth = 1
    Data = {d}
    Default = Default
    Ghost = Ghost
INVARIANT RemovedIsGone
\* Undefined behaviour ends a behaviour.
CHECK_DEADLOCK FALSE
