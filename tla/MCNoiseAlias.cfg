\* Beside the runs: a documented claim the code does not keep.
SPECIFICATION NoiseSpec
CONSTANTS
  SeqSpace = 4
  FirstSeq = 0
  WindowBits = 2
  Threshold = 2
  Wraps = 1
  Damaged = {}
  MaxCounter = 11
  MaxEpoch = 1
INVARIANTS
  ResyncTriesEvery
CHECK_DEADLOCK FALSE
