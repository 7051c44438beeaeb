SPECIFICATION AnnouncementsFairSpec
CONSTANTS
  NoValue = NoValue
  self = self
  other = other
  third = third
  Self = self
  Players <- MCPlayers
  Reports <- MCReports
  MaxRetries = 2
INVARIANTS
  ResultMatchesSnapshot
  NeverWithStrangers
  EndAnnouncedOnce
  ReaderKnows
PROPERTIES
  StopEnds
  SpawnsOrEnds
CHECK_DEADLOCK FALSE
