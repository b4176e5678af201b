\* The usual tool turn: the upstream calls, the client sends the result.
SPECIFICATION Spec
CONSTANTS
  Items <- ToolTurnItems
  Answers <- MCAnswers
  MaxTold = 3
  MaxTurns = 2
INVARIANT SkippedOutputsAreCarried
CHECK_DEADLOCK FALSE
