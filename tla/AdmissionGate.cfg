\* Four model requests over two permits, and one control-plane request.
SPECIFICATION Spec
CONSTANTS
  Requests = {r1, r2, r3, r4, c1}
  Limited = {r1, r2, r3, r4}
  Capacity = 2
INVARIANTS
  PermitsConserved
  WorkConserving
  GaugeWithinPermits
  InFlightCovers
PROPERTIES
  KeepsPromise
  WaitIsBounded
CHECK_DEADLOCK FALSE
