\* Two units in the client at once; two faults at any moments.
SPECIFICATION MCSpec
CONSTANTS
  Depth = 2
  Capacity = 2
  FrameSpace = 5
  Faults = 2
INVARIANTS
  GateBacked
PROPERTIES
  FlushThenKey Recovers
