\* Three classes, two types begun; one id is asked for, five are generated.
SPECIFICATION Spec
CONSTANTS
    a = a
    b = b
    d = d
    current = current
    average = average
    Threads = {a, b, d}
    Members <- Classes
    Names = {current, average}
    Nodes = {n0, n1, n2, n3, n4, n5}
    Asked = {n0}
    Null = Null
    Placeholder = Placeholder
    Base = Base
    MaxCalls = 2
INVARIANTS FinishedIsWhole NoTwinMembers InstancesAreWhole
\* The callers may have no more calls to make.
CHECK_DEADLOCK FALSE
