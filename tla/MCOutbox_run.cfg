SPECIFICATION FairSpec
CONSTANTS
  a = a
  b = b
  Runs = {a, b}
  Kind <- MCKind
  PersistAttempts = 2
  MaxRevision = 2
  MaxStamp = 1
  MaxFailures = 1
  MaxEnds = 1
  MaxAttempts = 2
  Lease = 3
  LockWait = 1
  SendTime = 1
  RetryBase = 1
  RetryMax = 1
INVARIANTS
  SentInOrder
  SentByOne
PROPERTIES
  EverythingSettles
CONSTRAINT
  FirstChangeIsA
