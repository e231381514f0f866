\* All trees of two levels with two names on each; three cached clients, whose
\* thread is started up to three times.
SPECIFICATION UtilitiesSpec
CONSTANTS
    MaxName = 2
    MaxDepth = 2
    Data = {d}
    Default = Default
    Ghost = Ghost
    Endpoints = {a, b, c}
    MaxStarts = 3
INVARIANTS TypeOK StoredIsThere AbsolutePathLeadsBack StoppedIsQuiet
PROPERTIES ChangesAreFlagged BegunThreadStops
CONSTRAINT CopiedOrRemoved
\* Undefined behaviour and the bound on starts end a behaviour.
CHECK_DEADLOCK FALSE
