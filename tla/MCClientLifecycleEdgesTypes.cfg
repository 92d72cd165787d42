\* Beside the runs.
SPECIFICATION EdgesSpec
CONSTANTS
  Config <- Baseline
  TightenedBlackout = 1
  Kinds = {"idle", "teardown", "audio", "quiet"}
  MaxDatagrams = 2
INVARIANTS
  EdgesTypeOK ClosedOnce StampsReachMachine
