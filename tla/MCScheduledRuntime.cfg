SPECIFICATION FairControllerSpec
CONSTANTS
  NoWindow = NoWindow
  Instants <- MCInstants
  MaxSessions = 5
INVARIANTS
  OneSession
  WindowsServedOnce
  RunsInItsWindow
PROPERTIES
  NothingStartsAfterStop
  SessionsEnd
CHECK_DEADLOCK FALSE
