\* Beside the runs.
SPECIFICATION BulkSpec
CONSTANTS
    N = 3
    Files = 2
    ReceiveWindow = 2
    ReadAhead = 2
    MaxSessions = 2
    MaxFaults = 2
INVARIANTS
    BulkTypeOK NothingStoredTwice
CHECK_DEADLOCK FALSE
