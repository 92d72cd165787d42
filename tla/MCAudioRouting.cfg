SPECIFICATION AudioFairSpec
CONSTANTS
  Originals = {"speakers", "unset"}
  SinkTrips = 3
  MaxLives = 3
  MaxLeaves = 3
  MaxErrors = 1
INVARIANTS
  OriginalKept StopTruthful
PROPERTIES
  StopEnds
\* The last process may be killed.
CHECK_DEADLOCK FALSE
