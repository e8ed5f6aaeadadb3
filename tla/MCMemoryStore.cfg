SPECIFICATION MCSpec
CONSTANTS
  Threads = {t1, t2, t3}
  HashThreads = {t4, t5}
  Parts = {"strings", "hashes"}
  k1 = k1  k2 = k2  f1 = f1  f2 = f2
  Keys = {k1}
  Fields = {f1}
  Commands <- StringCommands
  MaxCmds = 4
  MaxNow = 2
  MaxInt = 2
  None = None
  NotUtf8 = NotUtf8
SYMMETRY Symmetry
INVARIANTS
  TypeOK
  LazyDeleteSparesOlderValues
  IndexCovers
  HashesLazyDelete
PROPERTIES
  NoResurrection
  HashesStayExpired
CHECK_DEADLOCK FALSE
