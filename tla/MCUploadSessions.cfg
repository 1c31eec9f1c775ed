\* Two tabs, two versions of one file in two chunks, two uploads; an upload
\* creates at most two sessions, so MaxIds = 4 never stops one.
CONSTANTS
    Tabs = {t1, t2}
    Files = {f1, f2}
    Chunks = 2
    MaxIds = 4
    MaxUploads = 2
SPECIFICATION FairSpec
INVARIANTS
    TargetIsWhole
    FilesMatch
PROPERTIES
    ReplacesAtOnce
    UploadEnds
CHECK_DEADLOCK FALSE
