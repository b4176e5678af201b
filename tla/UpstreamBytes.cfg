SPECIFICATION Spec
CONSTANTS
  MaxLines = 4
  MaxChunk = 2
  Bodies <- MCBodies
INVARIANT ChunkingInvisible
INVARIANT FaultIsTold
CHECK_DEADLOCK FALSE
