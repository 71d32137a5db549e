SPECIFICATION FairRunSpec
CONSTANTS
  Opponents = 1
  BasePairs <- OnePair
  MinimumPairs <- OnePair
  Openings = 2
  MaxPlies = 2
  MaxStarts = 3
  Extending = TRUE
  NoResult = NoResult
CHECK_DEADLOCK FALSE
INVARIANTS
  ProgressMatchesGames
  RecordedGamesReplay
PROPERTIES
  ReportIsWhole
  RunIsReported
