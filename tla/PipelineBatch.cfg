SPECIFICATION Spec
CONSTANTS
  b1 = b1
  p1 = p1
  p2 = p2
  j1 = j1
  j2 = j2
  Book = {b1}
  Page = {p1, p2}
  BookOf <- OneBook
  JobId = {j1, j2}
  NoJob = NoJob
  MaxRetries = 2
  SpellCheckEnabled = FALSE
  FailableStep = {"ocr", "chunking", "embedding", "spell_check"}
  JobsMayOutliveLocks = FALSE
  MaxFaults = 0
  MaxRewrites = 0
SYMMETRY Symmetry
CHECK_DEADLOCK FALSE
INVARIANTS
  ClaimedByOneJob
  SettledBookIsTruthful
PROPERTIES
  RetryNeverDrops
