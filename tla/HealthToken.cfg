SPECIFICATION Spec
CONSTANTS
  Requests = {r1}
  Keys = {k1, k2}
  NoKey = NoKey
INVARIANTS
  HealthNeedsNoToken
CHECK_DEADLOCK FALSE
