\* Two receivers, one with a shorter and one with a longer file of another
\* content; three runs between them, one slow dial or lost write, and both
\* blocks of the payload in flight at once.
CONSTANTS
    r1 = r1
    r2 = r2
    Receivers = {r1, r2}
    Payload <- TwoBlocks
    StartFiles <- TwoFiles
    Modes = {"auto", "resume", "stdout"}
    MaxRuns = 3
    MaxSlow = 1
    Window = 2
SPECIFICATION FairSpec
INVARIANTS
    OnlyKeptBytesDiffer
    ExitsAfterSuccess
PROPERTIES
    ProgressIsKept
    BothEnd
CHECK_DEADLOCK FALSE
