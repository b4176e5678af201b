\* A nested namespace, one call of it, and the turn after.
SPECIFICATION Spec
CONSTANTS
  Offered <- MCOffered
  Hallucinated <- MCHallucinated
  Policy = "passthrough"
  MaxParts = 3
  Digest <- MCDigest
  MaxTools = 1
  MaxTurns = 2
INVARIANT EveryCallComesBack
CHECK_DEADLOCK FALSE
