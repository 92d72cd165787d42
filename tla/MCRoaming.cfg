SPECIFICATION FairSpec
CONSTANTS
  Addresses = {"a", "b"}
  ScanAfter = 1
  RedialAfter = 2
  Grace = 1
  Budget = 2
  ScanFloor = 1
  ScanCeiling = 2
  DialFloor = 1
  DialCeiling = 2
  Faults = 2
  MaxBrowses = 2
INVARIANTS
  NeverStranded
PROPERTIES
  MovingStands Reattaches
