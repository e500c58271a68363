SPECIFICATION FairSpec
CONSTANTS
  p = p
  q = q
  Nobody = Nobody
  Threads = {p, q}
  Sectors <- MCSectors
  WindowSize = 4
  MaxErrors = 2
  BusyLimit = 2
INVARIANTS
  BurstIsExclusive
  OkMeansWritten
  ErrorsLimited
PROPERTIES
  ReadsAndWritesEnd
