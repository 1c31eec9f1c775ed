\* Every command; a connection with a block each way and one without
\* any; a single permit.
CONSTANTS
    c1 = c1
    c2 = c2
    Conns = {c1, c2}
    Kinds <- AllKinds
    Blocks <- OneBusy
    MaxPermits = 1
    MaxFaults = 1
SPECIFICATION FairSpec
INVARIANTS
    WithinPermits
    EndsAreOrderly
PROPERTIES
    RelayEnds
CHECK_DEADLOCK FALSE
