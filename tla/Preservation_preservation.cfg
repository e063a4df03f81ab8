SPECIFICATION Spec
CONSTANTS
    Workspace = {"source", "restored"}
    Checkpoint = {"kept"}
    Operation <- SourceRequests
    MaxOperations = 2
    MaxRetained = 1
    MaxFaults = 1
    MaxRequests = 4
CHECK_DEADLOCK FALSE
INVARIANTS
    PurgedStaysPurged
    ReadyHasArchive
PROPERTIES
    RestoreNeedsSource
