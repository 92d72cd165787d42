SPECIFICATION NoiseSpec
CONSTANTS
  SeqSpace = 4
  FirstSeq = 2
  WindowBits = 2
  Threshold = 2
  Wraps = 1
  Damaged = {0, 3}
  MaxCounter = 11
  MaxEpoch = 1
INVARIANTS
  EachOnce OrdinaryOpens ResyncReaches
CHECK_DEADLOCK FALSE
