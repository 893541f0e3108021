SPECIFICATION Spec
CONSTANTS
  Requests = {r1, r2}
  Keys = {k1, k2}
  NoKey = NoKey
INVARIANTS
  TypeOK
  ConstantKeyIsNeverRefused
  ServedIsAuthenticated
PROPERTIES
  CachedKeysSuffice
  EveryRequestIsAnswered
CHECK_DEADLOCK FALSE
