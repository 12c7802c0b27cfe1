SPECIFICATION ContentSpec
CONSTANTS
  b1 = b1
  p1 = p1
  j1 = j1
  j2 = j2
  Book = {b1}
  Page = {p1}
  BookOf <- OnePage
  JobId = {j1, j2}
  NoJob = NoJob
  MaxRetries = 2
  SpellCheckEnabled = TRUE
  FailableStep = {}
  JobsMayOutliveLocks = FALSE
  MaxFaults = 1
  MaxRewrites = 0
CHECK_DEADLOCK FALSE
INVARIANTS
  IndexIsCurrent
