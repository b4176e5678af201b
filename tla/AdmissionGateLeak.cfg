\* One request whose client leaves before there is a response.
SPECIFICATION Spec
CONSTANTS
  Requests = {r1}
  Limited = {r1}
  Capacity = 1
INVARIANTS
  InFlightIsExact
CHECK_DEADLOCK FALSE
