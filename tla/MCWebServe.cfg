\* Two connections of which one makes any request, a file of up to two bytes, one edit.
CONSTANTS
    Clients = {c1, c2}
    Requests <- OneAsksAnything
    MaxSize = 2
    MaxEdits = 1
SPECIFICATION Spec
INVARIANTS
    OnlyDownloadsConsume
    RangeIsExact
PROPERTIES
    DownloadEndsService
CHECK_DEADLOCK FALSE
