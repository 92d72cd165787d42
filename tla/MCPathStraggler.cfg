\* Beside the runs: a documented claim the code does not keep.
SPECIFICATION MCSpec
CONSTANTS
  Tuples = {a, b}
  None = none
  First = a
  Channels = {ctrl, feedback}
  Ctrl = ctrl
  Tokens = {t1, t2, t3}
  Timeout = 1
  Retention = 2
  Factor = 3
  Cost = 61
  Sizes = {51}
  NetCapacity = 2
  MaxMoves = 2
  AskCapacity = 1
PROPERTIES
  StragglerCannotFlip
