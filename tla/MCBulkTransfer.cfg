SPECIFICATION BulkFairSpec
CONSTANTS
    N = 3
    Files = 2
    ReceiveWindow = 2
    ReadAhead = 2
    MaxSessions = 2
    MaxFaults = 2
INVARIANTS
    SaidIsStored HonestNeverRefused
PROPERTIES
    PromotedVerified
    EventuallySettles
CHECK_DEADLOCK FALSE
