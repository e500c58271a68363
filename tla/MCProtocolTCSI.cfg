SPECIFICATION FairSpec
CONSTANTS
  x = x
  y = y
  Addresses = {x, y}
  PacketIds = 3
  MaxStraightNoResponses = 2
  MaxLate = 2
  MaxRequests = 4
INVARIANTS
  OwnAnswer
  RecoversAtOnce
PROPERTIES
  LostOnlyAfterSilence
  OperationsEnd
CHECK_DEADLOCK FALSE
