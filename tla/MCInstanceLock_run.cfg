SPECIFICATION FairLockSpec
CONSTANTS
  a = a
  b = b
  Owners = {a, b}
  NoRecord = NoRecord
  StaleAfter = 2
  MaxTime = 5
  MaxFiles = 6
INVARIANTS
  OneVisibleHolder
PROPERTIES
  LeftoversDoNotBlock
CHECK_DEADLOCK FALSE
