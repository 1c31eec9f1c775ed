\* Four attempts against two slots and one queue place: one attempt more than
\* the capacity, so refusal, queueing and refill all happen.
CONSTANTS
    Peers = {p1, p2, p3, p4}
    MaxActive = 2
    MaxQueued = 1
SPECIFICATION FairSpec
INVARIANTS
    StaysWithinLimits
    NoIdleSlot
    NoOvertaking
    CountsSent
PROPERTIES
    ServesFirstCome
    AdmittedIsServed
CHECK_DEADLOCK FALSE
