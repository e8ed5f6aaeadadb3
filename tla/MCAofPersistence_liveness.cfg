SPECIFICATION FairSpec
CONSTANTS
  c1 = c1
  c2 = c2
  k1 = k1
  k2 = k2
  None = None
  Clients = {c1, c2}
  Keys = {k1, k2}
  Writes <- OneSet
  Policies = {"always", "everysec"}
  Cap = 1
  BufLimit = 2
  MaxWrites = 1
  MaxCalls = 2
  MaxRestarts = 1
  MaxFaults = 1
INVARIANT
  TypeOK
PROPERTIES
  EventuallyDurable
  CallsReturn
CHECK_DEADLOCK FALSE
