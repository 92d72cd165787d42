SPECIFICATION FairSpec
CONSTANTS
  HostConfig <- SendAnchored
  ClientConfig <- Baseline
  Tightened = 1
  Ratchet = TRUE
  MaxWords = 1
  MaxFrames = 1
INVARIANTS
  DeadlineNeverLate ModesAgree
PROPERTIES
  FreezesJustly
  DarkPathCloses Thaws
