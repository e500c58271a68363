SPECIFICATION FairSpec
CONSTANTS
  a = a
  b = b
  c = c
  TaskInfos <- MCTaskInfos
  MaximumNumberOfThreads = 2
  MaxRequests = 4
INVARIANTS
  TypeOK
  ConflictFree
  ThreadLimit
  NoLostWakeup
  WritesInOrder
  BlockedIsQuiet
PROPERTIES
  ImplementsScheduler
  DrainsFinish
  TasksSettle
CHECK_DEADLOCK FALSE
