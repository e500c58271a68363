SPECIFICATION FairSpec
CONSTANTS
  p = p
  q = q
  Nobody = Nobody
  Threads = {p}
  Sectors <- MCFlashOnly
  WindowSize = 3
  MaxErrors = 1
  BusyLimit = 2
INVARIANT FlashErrorsLimited
