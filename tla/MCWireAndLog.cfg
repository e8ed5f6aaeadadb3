SPECIFICATION MCSpec
CONSTANTS
  Scripts <- ClientScripts
  ReadSize = 5
  FileChunk = 6
  ConfiguredLimits <- ServerLimits
  DefaultLimits <- CodecDefaults
  Sessions <- UserSessions
  Vectors <- CommandCalls
  OptionLists <- WordLists
  Globs <- PatternsAndTexts
  Clients = {c1, c2}
  Keys = {k1, k2}
  Writes <- OwnSets
  c1 = c1
  c2 = c2
  k1 = k1
  k2 = k2
  None = None
  Policies = {"always", "everysec", "never"}
  Cap = 1
  BufLimit = 2
  MaxWrites = 2
  MaxCalls = 1
  MaxRestarts = 1
  MaxFaults = 1
INVARIANTS
  ConnectionTypeOK
  ChunksDoNotMatter
  BytesConserved
  FramesReplay
  RepliesPaired
  ChangesAreLogged
  PanicsOnlyPastTheClock
  SetOptionsMatchGrammar
  GlobMatchesReference
  NothingLost
  CrashKeepsPrefix
  CleanShutdownSaves
  ReplayMatches
CHECK_DEADLOCK FALSE
