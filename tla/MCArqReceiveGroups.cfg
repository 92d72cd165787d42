SPECIFICATION GroupsFairSpec
CONSTANTS
  GroupSpace = 65536
  Groups <- WrapGroups
  Persistent = {1}
  Length <- WrapLength
  MaxActive = 3
  MaxOpenOneShot = 1
  MaxTombstones = 1
  Ceiling = 2
  Window = 2
  Lifetime = 1
INVARIANTS
  SettledOnce
PROPERTIES
  EveryGroupSettles
