\* Beside the runs: a documented claim the code does not keep.
SPECIFICATION GroupsSpec
CONSTANTS
  GroupSpace = 65536
  Groups <- WrapGroups
  Persistent = {}
  Length <- WrapLength
  MaxActive = 3
  MaxOpenOneShot = 2
  MaxTombstones = 1
  Ceiling = 2
  Window = 2
  Lifetime = 1
INVARIANTS
  GivenUpAckedTruthfully
