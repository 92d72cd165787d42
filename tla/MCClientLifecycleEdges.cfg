SPECIFICATION EdgesFairSpec
CONSTANTS
  Config <- Baseline
  TightenedBlackout = 1
  Kinds = {"idle", "teardown", "audio", "quiet"}
  MaxDatagrams = 2
INVARIANTS
  OwnerSeesState
PROPERTIES
  HeardThaws
