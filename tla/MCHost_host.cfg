INIT MCInit
NEXT MCNext
CONSTANTS
    Runtime = {"r1"}
    Customer = {"w1", "w2"}
    MinReady = 1
    MaxTrouble = 2
    JobPod = {"p1", "p2"}
    Finalizer = {"f1", "f2"}
    MaxBreaks = 1
    WithInputs = TRUE
    Restricted = TRUE
    MaxAttempts = 2
    MaxOutages = 3
    Name = {"a", "b"}
    Device = {"d", "e"}
    Width = 2
    Alloc = {"a1", "a2", "a3"}
    Extracted = {"a1"}
    VolumeCapacity = 2
    MaxInputs = 2
    AllocationStops = 2
    Reservation = {1, 2}
    Quota = 2
    DiskFree = 2
    Headroom = 1
    InputFile = {f1, f2}
    Manifest = {m1}
    MaxInputFaults = 1
    Selection <- MCSelection
    Object = {"o1", "o2"}
    PublisherCapacity = 5
    MaxPublisherFaults = 1
    Restore = {r1, r2}
    Archive = {a1, a2}
    Staging = 1
    MaxGenerations = 3
    MaxObjects = 3
    MaxSealed = 3
    BackupStops = 3
    Up <- MCUp
    Folder = {1, 3}
    First = {1, 3, 4}
    MaxFiles = 4
    MaxWrites = 2
    MaxSort = 5
    Unit = 2
    MaxSize = 3
    MaxEntries = 2
    Tree <- MCTree
    FileSize = 2
    MaxArchive = 2
    Names <- MCNames
    MaxEdits = 3
    MaxKills = 2
    MaxTransfers = 2
    MaxTroubles = 2
    Shot = {"x1", "x2"}
    MaxAdmitted = 2
    MaxCharged = 1
    MaxUpsets = 1
    Request = {q1, q2}
    Host <- MCHosts
    Policy <- MCPolicy
    MaxEvents = 2
    Batch = 2
    MaxFrames = 1
    MaxFaults = 1
    MaxGen = 2
    TurnFiles = 1
    MaxTurns = 1
    MaxMishaps = 1
INVARIANTS
    ProvidersAccount
    AcceptedIsIsolated
    InputFilesAreSafe
    BackupRecovers
    CheckpointIsWhole
    SupervisorAccounts
    EgressIsAccounted
    
CHECK_DEADLOCK FALSE
