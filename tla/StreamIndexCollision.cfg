\* A gateway that speaks between two parallel tool calls.
SPECIFICATION TurnSpec
CONSTANTS
  Upstreams <- InterleavedUpstream
  Bodies <- NoBodies
  MaxMessages = 3
  ToolContext <- MCToolContext
  Undeclared <- MCUndeclared
  ActionName = "read"
  BufferMax = 2
INVARIANT OutputIndexUnique
CHECK_DEADLOCK FALSE
