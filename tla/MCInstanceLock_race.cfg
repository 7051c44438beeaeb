SPECIFICATION LockSpec
CONSTANTS
  a = a
  b = b
  Owners = {a, b}
  NoRecord = NoRecord
  StaleAfter = 2
  MaxTime = 2
  MaxFiles = 4
INVARIANTS
  OneProcessPerAccount
CHECK_DEADLOCK FALSE
