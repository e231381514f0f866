\* Connections are lost and recovered, deletions confirmed or refused.
SPECIFICATION Spec
CONSTANTS
    Subs = {s1, s2}
    Items = {i1, i2, i3}
    NoItem = NoItem
    MaxKey = 3
SYMMETRY Symmetry
INVARIANTS TypeOK ObjectsAreOwned LibraryMirrorsWrapper
PROPERTY KeysAreNotRecycled
\* Undefined behaviour and the bounds end a behaviour.
CHECK_DEADLOCK FALSE
