\* Two keys, Control, Command and a button; one event swallowed; a second
\* session on the devices of the first.
SPECIFICATION InputSpec
CONSTANTS
  Keys <- TwoKeys
  CodesOf <- TwoCodes
  Button = "BTN_LEFT"
  WireBound = 0
  Missed = 1
  Sessions = 2
INVARIANTS
  HeldAgrees NothingStranded
PROPERTIES
  UnderTheRightModifiers
CHECK_DEADLOCK FALSE
