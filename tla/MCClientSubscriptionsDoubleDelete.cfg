\* An event item is deleted by its key.
SPECIFICATION Spec
CONSTANTS
    Subs = {s1, s2}
    Items = {i1}
    NoItem = NoItem
    MaxKey = 3
SYMMETRY Symmetry
INVARIANT FilterDeletedOnce
CHECK_DEADLOCK FALSE
