SPECIFICATION Spec
CONSTANTS
  a = a
  b = b
  off = off
  on = on
  Components = {a, b}
  Values = {off, on}
  Invalid = Invalid
  Default <- MCDefault
  MaxWaiting = 2
  MaxConnections = 2
SYMMETRY Symmetry
INVARIANTS
  CacheIsTrue
  ComponentsFollow
  LastWrittenIsOnDevice
