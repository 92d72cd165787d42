\* Beside the runs: a statement of the documentation that the code does not keep.
SPECIFICATION Spec
CONSTANTS
  Clients = {"a", "b"}
  Persistent = "a"
  Ephemerals = {1, 2, 3}
  Places = {"home", "away"}
  Home = "home"
  Attempts = 2
  Lifetime = 3
  Silence = 4
  Burst = 1
  CookieBurst = 1
  ShareBurst = 1
  Enter = 2
  Exit = 1
  Dialings = 1
  Faults = 1
INVARIANTS
  TypeOK
PROPERTIES
  NewerReplaces
