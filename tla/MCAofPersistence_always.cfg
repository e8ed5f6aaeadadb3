SPECIFICATION Spec
CONSTANTS
  c1 = c1
  c2 = c2
  k1 = k1
  k2 = k2
  None = None
  Clients = {c1, c2}
  Keys = {k1, k2}
  Writes <- OwnSets
  Policies = {"always"}
  Cap = 1
  BufLimit = 2
  MaxWrites = 1
  MaxCalls = 0
  MaxRestarts = 1
  MaxFaults = 0
INVARIANTS
  AlwaysDurable
CHECK_DEADLOCK FALSE
