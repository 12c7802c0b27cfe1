SPECIFICATION FairBatchSpec
CHECK_DEADLOCK FALSE
CONSTANTS
  p1 = p1
  k1 = k1
  k2 = k2
  s1 = s1
  w1 = w1
  w2 = w2
  Page = {p1}
  Row = {k1, k2}
  Submitter = {s1}
  Poller = {w1, w2}
  MaxRetries = 2
  MaxFaults = 1
INVARIANTS
  BatchOwnsItsPages
  SpendIsBounded
  DoneIsWhole
  CompleteIsTrue
PROPERTIES
  ClaimIsReleased
