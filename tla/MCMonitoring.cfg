\* The metrics, the histogram, the monitoring server and the boot sequence.
SPECIFICATION MCSpec
CONSTANTS
  Tasks = {t1, t2}
  Names = {a, b}
  OTHER_BUCKET = other
  MAX_DISTINCT_COMMANDS = 1
  Free = free
  MaxCalls = 3
  Limits <- BucketLimits
  Durations = {0, 2, 3, 9, 12}
  Percentages = {0, 50, 95, 99, 100}
  CountBits = 2
  MaxSamples = 5
  Requests = {r1, r2}
  Timer = timer
  Policies = {"SizeOrDaily"}
  size_bytes = 0
  max_files = 1
  HourSeconds = 1
  DayHours = 2
  MaxLines = 1
  MaxNow = 1
  MaxLives = 2
  MaxFaults = 1
  MaxRequests = 2
  MaxClientCalls = 1
  MaxCount = 1
  Instances = {p1, p2}
  Setups <- ServerSetups
  Nobody = nobody
  PortBits = 3
  PortOffset = 3
INVARIANTS
  AllTypesOK
  CountersAgree
  ReadsAreOrdered
  StatisticsFaithful
  LinesKept
  HealthChecksIsolated
  ServesWhatWasConfigured
PROPERTIES
  CallsReturn
  CallsAreAtomic
  OversizedIsRotated
  RequestsAnswered
CHECK_DEADLOCK FALSE
