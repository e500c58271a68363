SPECIFICATION RefreshSpec
CONSTANTS
  a = a
  b = b
  TaskInfos <- MCTaskInfos
  MaximumNumberOfThreads = 2
  MaxRequests = 3
INVARIANT RefreshReadsNewValue
CHECK_DEADLOCK FALSE
