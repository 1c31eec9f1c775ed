SPECIFICATION Spec
CHECK_DEADLOCK FALSE
CONSTANTS
    Paths = {a, b}
    Selected = {a}
    Rejected = {b}
    Stabilize = 2
    MaxWrites = 2
    MaxRestores = 1
    a = a
    b = b
INVARIANT JobsAreStable
PROPERTIES
    NoRepeat
    StableIsSent
