SPECIFICATION FairSearchSpec
CONSTANTS
  Pos <- Position
  Turn <- TurnAt
  Moves <- MovesAt
  Outcome <- EndAt
  Eval <- EvalAt
  Longest = 5
  Value <- Minimax
  Mate = 60
  Margin = 20
  NoPos = NoPos
  Roots <- Starts
  Follows <- Replies
  Slot <- SlotOf
  Options <- Chosen
  MaxDepth = 3
  Window = 1
  MaxRetries = 1
  StopMargin = 10
  Infinity = 66
  AgeSpan = 2
  MaxSearches = 2
CHECK_DEADLOCK FALSE
INVARIANTS
  TableSound
  AnswerIsMinimax
  MatesAreForced
PROPERTIES
  SearchEnds
