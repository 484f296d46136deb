CONSTANTS
  Keys = {k1, k2}
  Requests = {r1, r2, r3}
  NoKey = NoKey
  NoRequest = NoRequest
SPECIFICATION Spec
PROPERTIES
  TakesEffectOnce
  PendingIsResolved
CHECK_DEADLOCK FALSE
