\* The environment variable of the documentation.
SPECIFICATION BootSpec
CONSTANTS
  Instances = {p1}
  Setups <- DocumentedSetups
  Nobody = nobody
  PortBits = 3
  PortOffset = 3
INVARIANT
  EnvironmentOverrides
CHECK_DEADLOCK FALSE
