SPECIFICATION ResetSpec
CONSTANTS
  a = a
  b = b
  off = off
  on = on
  Components = {a, b}
  Values = {off, on}
  Invalid = Invalid
  Default <- MCDefault
  MaxWaiting = 1
  MaxConnections = 1
PROPERTY RefreshGivesValue
