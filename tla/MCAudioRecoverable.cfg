\* Beside the runs: two documented claims the code does not keep (-continue).
SPECIFICATION AudioSpec
CONSTANTS
  Originals = {"speakers"}
  SinkTrips = 3
  MaxLives = 2
  MaxLeaves = 2
  MaxErrors = 0
INVARIANT OriginalRecoverable
PROPERTY ErrorIsFinal
CHECK_DEADLOCK FALSE
