SPECIFICATION MCSpec
CONSTANTS
  Threads = {t1, t2}
  HashThreads = {t4, t5}
  Parts = {"strings"}
  k1 = k1  k2 = k2  f1 = f1  f2 = f2
  Keys = {k1}
  Fields = {f1}
  Commands <- ExpiryRaceCommands
  MaxCmds = 4
  MaxNow = 1
  MaxInt = 2
  None = None
  NotUtf8 = NotUtf8
INVARIANT
  LazyDeleteRemovesOnlyExpired
CHECK_DEADLOCK FALSE
