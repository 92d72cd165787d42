\* Beside the runs: three documented claims the code does not keep
\* (-continue).  The instance is input_path's.
SPECIFICATION InputSpec
CONSTANTS
  Keys <- TwoKeys
  CodesOf <- TwoCodes
  Button = "BTN_LEFT"
  WireBound = 0
  Missed = 1
  Sessions = 2
INVARIANT ControlPressedOnce
PROPERTIES
  CapsLockFollows
  FlagsAreTheTruth
CHECK_DEADLOCK FALSE
