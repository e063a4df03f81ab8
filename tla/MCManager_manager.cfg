INIT MCInit
NEXT MCNext
CONSTANTS
    Releases <- Catalog
    First = 1
    OffNode = {TRUE, FALSE}
    MaxOps = 4
    MaxPods = 3
    MaxFaults = 1
    Ids = {1, 2}
    MaxRestarts = 3
    Hosts = {1, 2, 3}
    MaxTransfers = 2
    MaxOutages = 5
    Item = {k1}
    MaxFolders = 2
    MaxRecords = 4
    MaxCrashes = 1
    Place = {w1, w2}
    WindowOps = 2
    MaxFailures = 2
INVARIANTS
    ControllersAreSafe
    AccountsAreAsShown
    PurgeIsFinal
    OpenHasLineage
    DenialsHold
    WindowsAreQuiet
CHECK_DEADLOCK FALSE
