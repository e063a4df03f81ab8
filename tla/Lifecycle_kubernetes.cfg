SPECIFICATION Spec
CONSTANTS
    Workspace = {w1}
    MaxLaunchAttempts = 2
    Receipts = TRUE
    Manifest = TRUE
    SlowLaunch = FALSE
    Detached = 2
    MaxFaults = 2
INVARIANT TerminalLeavesNoProvider
INVARIANT RequeueIsClean
INVARIANT RegisteredIsCurrent
CHECK_DEADLOCK FALSE
