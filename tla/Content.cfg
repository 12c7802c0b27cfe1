SPECIFICATION FairContentSpec
CONSTANTS
  b1 = b1
  p1 = p1
  j1 = j1
  j2 = j2
  Book = {b1}
  Page = {p1}
  BookOf <- OnePage
  JobId = {j1, j2}
  NoJob = NoJob
  MaxRetries = 2
  SpellCheckEnabled = TRUE
  FailableStep = {"chunking", "embedding"}
  JobsMayOutliveLocks = FALSE
  MaxFaults = 0
  MaxRewrites = 1
CHECK_DEADLOCK FALSE
INVARIANTS
  EmbeddedPageIsCurrent
PROPERTIES
  ChunksNeverGoBack
  CorrectionIsIndexed
