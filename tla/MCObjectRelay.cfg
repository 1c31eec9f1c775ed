\* Two senders of one of two contents and two receivers; two sends,
\* three receives, one fault.
CONSTANTS
    a = a
    b = b
    Senders = {s1, s2}
    Receivers = {r1, r2}
    Contents = {a, b}
    Hole = hole
    Size = 2
    Stores <- AllStores
    StartFiles <- NoFile
    Modes = {"auto", "stdout"}
    MaxSends = 2
    MaxRuns = 3
    MaxFaults = 1
SPECIFICATION Spec
SYMMETRY Symmetric
INVARIANTS
    ObjectsAreWhole
    TicketKeepsObject
PROPERTIES
    DeletedBySuccess
CHECK_DEADLOCK FALSE
