\* A turn of either kind: text, parts, refusals, reasoning and think tags with every
\* way to end; parallel function, custom, search and namespace calls among text; and
\* bodies that upstream answers in full.
SPECIFICATION TurnSpec
CONSTANTS
  Upstreams <- AllUpstreams
  Bodies <- MCBodies
  MaxMessages = 4
  ToolContext <- MCToolContext
  Undeclared <- MCUndeclared
  ActionName = "read"
  BufferMax = 2
INVARIANTS
  PartProtocol
  ThinkSplitFaithful
  VisibleFaithful
  AnnotationsConserved
  LifecycleProtocol
  SavedIffWorthSaving
  SavedMatchesOutput
  TypeOK
  ItemProtocol
  OutputIndexIsPosition
  ArgumentsMirrored
  CustomInputExact
  IdentityStable
  BufferedAgrees
PROPERTIES
  AllClosedAtTerminal
  VerdictStands
CHECK_DEADLOCK FALSE
