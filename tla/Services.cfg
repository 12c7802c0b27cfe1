SPECIFICATION ServicesSpec
CHECK_DEADLOCK FALSE
CONSTANTS
  c1 = c1
  c2 = c2
  c3 = c3
  u1 = u1
  l1 = l1
  i1 = i1
  i2 = i2
  i3 = i3
  i4 = i4
  k1 = k1
  e1 = e1
  e2 = e2
  a1 = a1
  b1 = b1
  b2 = b2
  p1 = p1
  x1 = x1
  Caller = {c1, c2, c3}
  FailureThreshold = 2
  HalfOpenMaxCalls = 2
  HasCooling = TRUE
  MaxAdmin = 1
  Upload = {u1}
  Existing = {l1}
  DPage = {1, 2}
  Copy = {i1, i2, i3, i4}
  Call = {k1}
  Width = 1
  MaxReviews = 1
  MaxRestarts = 1
  Entity = {e1, e2}
  Alike <- SameName
  Child = {e2}
  Admin = {a1}
  BatchSize = 2
  MaxPasses = 1
  MaxGEvents = 1
  DBook = {b1, b2}
  MaxAsks = 2
  MaxDFaults = 1
  IPage = {p1}
  Slots = 2
  WordAt <- TwoWords
  SJob = {a1}
  NoSJob = NoSJob
  Session = {x1}
  MaxChanges = 1
  MaxRules = 1
  MaxIFaults = 1
INVARIANTS
  BreakerIsSound
  ResolutionIsSound
  GraphIsWhole
PROPERTIES
  HalfOpenResolves
  QueueMoves
  SummaryArrives
  RuleIsApplied
