SPECIFICATION Spec
CHECK_DEADLOCK FALSE
CONSTANTS
  c1 = c1
  c2 = c2
  c3 = c3
  Caller = {c1, c2}
  FailureThreshold = 2
  HalfOpenMaxCalls = 1
  HasCooling = TRUE
  MaxAdmin = 0
PROPERTIES
  HalfOpenRecovers
