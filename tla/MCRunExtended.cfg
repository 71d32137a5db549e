SPECIFICATION RunSpec
CONSTANTS
  Opponents = 2
  BasePairs <- ChampionAndAnchor
  MinimumPairs <- ChampionAndAnchor
  Openings = 3
  MaxPlies = 1
  MaxStarts = 1
  Extending = TRUE
  NoResult = NoResult
CHECK_DEADLOCK FALSE
INVARIANTS
  RecommendedExtensionFits
