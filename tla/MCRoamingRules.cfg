\* Beside the runs: statements of the code that it does not keep; run with
\* -continue, so that TLC reports each.
SPECIFICATION FairSpec
CONSTANTS
  Addresses = {"a", "b"}
  ScanAfter = 1
  RedialAfter = 2
  Grace = 1
  Budget = 2
  ScanFloor = 1
  ScanCeiling = 2
  DialFloor = 1
  DialCeiling = 2
  Faults = 2
  MaxBrowses = 2
INVARIANTS
  WaiverAllows SilenceClockRuns
PROPERTIES
  TickIdempotent LiveTierRides
