INIT MCInit
NEXT MCNext
CONSTANTS
    MaxSockets = 2
    MaxFrames = 1
    ChannelEvents = 2
    MaxLeases = 2
    MaxTasks = 2
    LeaseFaults = 1
    Key = {1, 2, 3}
    Principal = {"ops"}
    Grants <- MCGrants
    Configured <- MCConfigured
    Delegable = {"ops"}
    KeyTime = 1
    MaxEdits = 1
    MaxKeys = 7
    Lifetime = 7
    RenewBefore = 4
    KeyOverlap = 2
    RenewalTime = 9
    RenewalTroubles = 2
    Stream = {s1}
    Buffered = {b1}
    Control = {b1}
    MaxChunks = 3
    MaxResponse = 2
    MaxInflight = 1
    Session = {"s1", "s2"}
    Client = {"c1", "c2"}
    MaxSessions = 1
    ReplayLimit = 1
    MaxShellEvents = 3
    Display = {v1, v2}
    ViewControl = {v1}
    HttpView = {h1}
    BrowserMode = TRUE
    MaxViewers = 2
    MaxViews = 2
    QueueBudget = 1
    MaxMsgs = 1
    MaxUsed = 2
    MaxGen = 2
    Ws = {"w1", "w2"}
    Turn = {"t1"}
    LegacyRows <- MCLegacy
    Keep = 1
    HistoryTime = 2
    MaxMessages = 3
    MaxBytes = 3
    HistoryFrames = 2
    HistoryTroubles = 1
INVARIANTS
    ChannelIsHonest
    LeasesAreSafe
    KeysAreGranted
    StreamsAreLossless
    SeatsAreCounted
    HistoryIsWhole
CHECK_DEADLOCK FALSE
