\* One opponent, champion and anchor at once; two fixed-depth repetitions and one timed
\* one, one pair of games and one more
\* by extension;
\* two kills, alterations or failing tasks.
CONSTANTS
  new = new
  champion = champion
  Opponents <- OneOpponent
  Champion = champion
  Anchor = champion
  Subjects <- Candidates
  Kinds <- TwoKinds
  Repetitions <- FixedTwice
  MinimumRepetitions = 2
  OpeningPairs = 1
  ConfidenceInterval <- Intervals
  MaxExtension = 1
  MaxTrouble = 2
  MinimumPairs = 1
  MinimumAnchorPairs = 1
  NoInterval = NoInterval
  NoVerdict = NoVerdict

SPECIFICATION PipelineSpec

INVARIANT VerdictIsDeserved
INVARIANT OrderSurvivesResume
PROPERTY VerdictReproduced
PROPERTY RunConcludes

CHECK_DEADLOCK FALSE
