\* Conversations of up to two turns.
SPECIFICATION Spec
CONSTANTS
  Items <- MCItems
  Answers <- MCAnswers
  MaxTold = 4
  MaxTurns = 2
INVARIANTS
  NothingGoesUnsaid
  OrderKept
  CallsAndOutputsPair
  HistoryStands
CHECK_DEADLOCK FALSE
