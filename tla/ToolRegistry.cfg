\* Two turns of up to two tools and one call each, names that collide among them.
SPECIFICATION Spec
CONSTANTS
  Offered <- MCOffered
  Hallucinated <- MCHallucinated
  Policy = "passthrough"
  MaxParts = 3
  Digest <- MCDigest
  MaxTools = 2
  MaxTurns = 2
INVARIANTS
  DeclaredIsCallable
  CallsComeBack
PROPERTIES
  FirstDefinitionStands
CHECK_DEADLOCK FALSE
