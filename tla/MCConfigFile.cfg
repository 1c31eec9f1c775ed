CONSTANTS
    s1 = s1
    s2 = s2
    gui = gui
    t1 = t1
    t2 = t2
    Sessions = {s1, s2}
    Gui = gui
    Tickets = {t1, t2}
    Uses <- MCUses
    Names <- MCNames
    Default = "default"
    KeyFile <- MCKeyFile
    Handwritten <- MCHandwritten
    MaxSaves = 1
    MaxFaults = 1
SYMMETRY Symmetry
SPECIFICATION Spec
INVARIANTS
    DiskAgrees
    OnlyMalformedFails
PROPERTIES
    OtherProfilesKept
    SavesAreUsable
CHECK_DEADLOCK FALSE
