SPECIFICATION Spec
CONSTANTS
    Executions = {e1}
    Conversation <- MCConversation
    Workloads <- MCWeak
    Concurrency = 1
    Losses = {"enabled"}
    MaxFaults = 1
    MaxFrames = 1
    MaxLate = 1
INVARIANTS
    NoAutomaticReplay
CHECK_DEADLOCK FALSE
