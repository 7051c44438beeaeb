SPECIFICATION Spec
CONSTANTS
  NoValue = NoValue
  PlaceTasks <- MCPlaceTasks
  MoveTasks <- MCMoveTasks
  MaxFaults = 1
  InReach <- MCInReach
  Line <- MCLine
  Target <- MCTarget
  MaxSteps = 2
  MaxTick = 2
  RuntimeCommands <- MCRuntime
  ReadTask = "read"
INVARIANTS
  NeverStuck
  OneWorker
  PlacedOnce
  CompletedIsThere
PROPERTIES
  FramesInOrder
  NothingSentAfterStop
CHECK_DEADLOCK FALSE
