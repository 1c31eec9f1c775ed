\* Two clients, a folder with a file and a free place beside it; four requests,
\* two of which may be locks.
CONSTANTS
    Clients = {c1, c2}
    Paths <- TwoLevels
    StartTrees <- FolderWithFile
    MaxLocks = 2
    MaxRequests = 4
SPECIFICATION DavSpec
SYMMETRY Symmetric
INVARIANTS
    LocksAgree
PROPERTIES
    LocksRespected
CHECK_DEADLOCK FALSE
