CONSTANTS
    g1 = g1
    g2 = g2
    i1 = i1
    i2 = i2
    send = send
    recv = recv
    Guis = {g1, g2}
    Sends = {send}
    Recvs = {recv}
    Windows <- MCWindows
    Ids = {i1, i2}
    MaxRefusals = 1
    MaxClears = 2
    MaxCloses = 1
SPECIFICATION QueueSpec
INVARIANTS
    RowTellsOutcome
    RowsAreKept
PROPERTIES
    EndIsShown
CHECK_DEADLOCK FALSE
