\* One function call whose arguments come in two fragments.
SPECIFICATION TurnSpec
CONSTANTS
  Upstreams <- SplitArgumentsUpstream
  Bodies <- NoBodies
  MaxMessages = 3
  ToolContext <- MCToolContext
  Undeclared <- MCUndeclared
  ActionName = "read"
  BufferMax = 2
INVARIANT DeltasConverge
CHECK_DEADLOCK FALSE
