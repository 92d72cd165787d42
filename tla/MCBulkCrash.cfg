\* Beside the runs: a documented claim the code does not keep.
SPECIFICATION BulkSpec
CONSTANTS
    N = 2
    Files = 1
    ReceiveWindow = 2
    ReadAhead = 2
    MaxSessions = 2
    MaxFaults = 2
INVARIANT VisibleIsWhole
CHECK_DEADLOCK FALSE
