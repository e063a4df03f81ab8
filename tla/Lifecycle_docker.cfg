SPECIFICATION FairSpec
CONSTANTS
    Workspace = {w1}
    MaxLaunchAttempts = 2
    Receipts = FALSE
    Manifest = FALSE
    SlowLaunch = TRUE
    Detached = 2
    MaxFaults = 1
INVARIANT ObjectIsCurrent
PROPERTY IntentSticks
PROPERTY EventuallyTerminal
PROPERTY ImplementsMachine
CHECK_DEADLOCK FALSE
