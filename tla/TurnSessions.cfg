\* Four turns branching and chaining over a store that holds two.
SPECIFICATION Spec
CONSTANTS
  Ids = {t1, t2, t3, t4}
  None = None
  Ttl = 1
  MaxSessions = 2
  MaxTime = 2
SYMMETRY Interchangeable
INVARIANTS
  CapRespected
  WorkingSetKept
  LineageIntact
  ModelInherited
PROPERTIES
  GoneIsGone
CHECK_DEADLOCK FALSE
