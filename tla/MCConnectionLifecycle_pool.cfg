SPECIFICATION FairSpec
CONSTANTS
  Conns = {a, b}
  max_connections = 1
  None = None
INVARIANTS
  TypeOK
  PermitAccounting
  PoolBounded
  ServedAreInPool
  DrainedMeansQuiet
PROPERTIES
  SlotReturned
  ShutdownEnds
CHECK_DEADLOCK FALSE
