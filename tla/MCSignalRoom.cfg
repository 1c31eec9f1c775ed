\* Two pages, each of which may leave or be forgotten; a queue that one signal
\* fills; the retry of an offer; one fault.
CONSTANTS
    Pages = {p1, p2}
    MaxPending = 1
    MaxIds = 2
    MaxLists = 2
    MaxTries = 2
    MaxFaults = 1
SPECIFICATION FairRoomSpec
CHECK_DEADLOCK FALSE
PROPERTIES
    WorkingKept
    PairConnects
