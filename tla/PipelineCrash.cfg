SPECIFICATION Spec
CONSTANTS
  b1 = b1
  p1 = p1
  p2 = p2
  j1 = j1
  j2 = j2
  Book = {b1}
  Page = {p1}
  BookOf <- OnePage
  JobId = {j1, j2}
  NoJob = NoJob
  MaxRetries = 2
  SpellCheckEnabled = TRUE
  FailableStep = {"chunking", "spell_check"}
  JobsMayOutliveLocks = FALSE
  MaxFaults = 1
  MaxRewrites = 1
SYMMETRY JobSymmetry
CHECK_DEADLOCK FALSE
INVARIANTS
  TypeOK
  MutualExclusion
  IdleOcrPageIsVisible
PROPERTIES
  OwnershipSpec
