\* Games of at most four plies; an engine prints one line too many.
CONSTANTS
  a = a
  b = b
  Action <- TwoActions
  NotInteger = NotInteger
  Nothing = Nothing
  v1 = v1
  v2 = v2
  VersionId <- TwoVersions
  Horizon = 4
  Legal <- LegalActions
  Verdict <- Outcomes
  MaxStrays = 1

SPECIFICATION MatchSpec

INVARIANT AnswersMatchRequests
INVARIANT NoInnocentForfeits
INVARIANT PlayedGameReplays
PROPERTY GameImplemented
PROPERTY GameEnds

CHECK_DEADLOCK FALSE
