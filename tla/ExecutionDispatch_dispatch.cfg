SPECIFICATION Spec
CONSTANTS
    Executions = {e1}
    Conversation <- MCConversation
    Workloads <- MCWorkloads
    Concurrency = 1
    Losses = {"enabled"}
    MaxFaults = 1
    MaxFrames = 1
    MaxLate = 1
INVARIANTS
    StartedOnce
    CanceledNeverRuns
    TerminalIsReal
    InputsHeld
CHECK_DEADLOCK FALSE
