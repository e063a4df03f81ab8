SPECIFICATION FairSpec
CONSTANTS
    Event = {e1, e2, e3}
    Limit = 2
    MaxFaults = 2
INVARIANT DeliveredWasAccepted
INVARIANT DuplicatesNeedFaults
PROPERTY EveryEventDelivered
CHECK_DEADLOCK FALSE
