\* Beside the runs: a documented claim the code does not keep.
SPECIFICATION MCSpec
CONSTANTS
  Depth = 2
  Capacity = 2
  FrameSpace = 5
  Faults = 1
PROPERTIES
  Lights
