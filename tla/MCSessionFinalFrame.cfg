\* Beside the runs: a documented claim the code does not keep.
SPECIFICATION Spec
CONSTANTS
  HostConfig <- EvidenceAnchored
  ClientConfig <- Baseline
  Tightened = 1
  Ratchet = TRUE
  MaxWords = 2
  MaxFrames = 2
INVARIANTS
  TypeOK ConvergedFrameHeld
