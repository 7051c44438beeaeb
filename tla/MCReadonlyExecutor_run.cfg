SPECIFICATION FairSpec
CONSTANTS
  NoValue = NoValue
  Tasks <- MCTasks
  RuntimeCommands <- MCRuntime
  MaxFailures = 1
  MaxCrashes = 1
INVARIANTS
  ExecutedOnce
  NothingLeftBehind
  ResultsAgree
PROPERTIES
  ClosedIsQuiet
  CloseEnds
  QueueDrains
CHECK_DEADLOCK FALSE
