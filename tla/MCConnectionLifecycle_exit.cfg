SPECIFICATION Spec
CONSTANTS
  Conns = {a, b}
  max_connections = 1
  None = None
INVARIANTS
  FlushBeforeExit
CHECK_DEADLOCK FALSE
