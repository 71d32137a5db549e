SPECIFICATION MCSpec
CONSTANTS
  Piece <- Pieces
  Origin <- Origins
  Home <- InitialPositions
  BoardWidth = 3
  BoardHeight = 4
  PiecesPerOrigin = 4
  TurnLimit = 17
  RequireHint = TRUE
  Empty = Empty
INVARIANTS
  PositionSound
  GeneratorIsExact
  EngineSeesTheGame
  ReductionIsExact
  HintIsExact
PROPERTY EndingsDeserved
