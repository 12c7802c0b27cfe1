SPECIFICATION EditorsSpec
CHECK_DEADLOCK FALSE
CONSTANTS
  b1 = b1
  p1 = p1
  j1 = j1
  k1 = k1
  k2 = k2
  r1 = r1
  r2 = r2
  a1 = a1
  a2 = a2
  x1 = x1
  u1 = u1
  i1 = i1
  i2 = i2
  i3 = i3
  i4 = i4
  i5 = i5
  t1 = t1
  t2 = t2
  v1 = v1
  v2 = v2
  v3 = v3
  n1 = n1
  f1 = f1
  f2 = f2
  s1 = s1
  s2 = s2
  c1 = c1
  c2 = c2
  m1 = m1
  e1 = e1
  e2 = e2
  e3 = e3
  e4 = e4
  q1 = q1
  q2 = q2
  q3 = q3
  Book = {b1}
  Page = {p1}
  BookOf <- OnePage
  JobId = {j1}
  NoJob = NoJob
  MaxRetries = 1
  SpellCheckEnabled = FALSE
  FailableStep = {"chunking"}
  JobsMayOutliveLocks = FALSE
  MaxFaults = 0
  MaxRewrites = 0
  MaxAsks = 2
  LPage = {p1}
  LBatch = {k1}
  Request = {r1, r2}
  MaxEdits = 1
  MaxLFaults = 1
  IPage = {p1}
  Slots = 2
  WordAt <- TwoWords
  SJob = {a1}
  NoSJob = NoSJob
  Session = {x1}
  MaxChanges = 1
  MaxRules = 1
  MaxIFaults = 1
  Upload = {u1}
  Existing = {}
  DPage = {1, 2}
  Copy = {i1, i2, i3, i4, i5}
  Call = {k1, k2}
  Width = 1
  MaxReviews = 1
  MaxRestarts = 1
  Turn = {t1, t2}
  Limit = 1
  MaxCFaults = 1
  Library = {v1, v2, v3}
  Volumes <- TwoVolumes
  InCategory = {v2, v3}
  MadeUp = n1
  Nowhere = Nowhere
  RTurn = {t1}
  Passable <- Passed
  Production = FALSE
  MaxCalls = 2
  Asker = {t1, t2}
  Editor = {x1}
  MaxEditions = 1
  MaxVFaults = 1
  Process = {p1}
  CRequest = {t1, t2}
  Ttl = 2
  MaxTicks = 5
  MaxWrites = 1
  MaxKFaults = 1
  Fact = {f1, f2}
  Prose = Prose
  Source = {s1, s2}
  Output <- OneFactEach
  Poller = {k1}
  Admin = {a1}
  Candidate = {1, 2}
  MaxDecisions = 1
  MaxHFaults = 1
  Content = {c1, c2}
  FileName = {m1}
  Absent = Absent
  Uploader = {r1, r2}
  MaxIds = 2
  MaxDrops = 1
  MaxSFaults = 1
  Leaf = {1, 2}
  MaxTexts = 3
  MaxBooks = 2
  MaxToggles = 1
  MaxPFaults = 1
  BodyLengths = {1, 3, 11}
  MaxBlocks = 4
  Target = 6
  Ceiling = 9
  Least = 2
  Overlap = 3
  RunLengths = {0, 2}
  MaxRuns = 3
  BlockSize = 4
  OcrCall = {q1, q2, q3}
  Batch = {"job", "redo"}
  BatchOf <- TwoBatches
  Widths = {1, 2}
  MaxAttempts = 2
  Known = {e1, e2, e3}
  Spare = {e4}
  FirstEdges <- ThreeEdges
  Resolver = {k1}
  Curator = {a1, a2}
  MaxReviewRows = 1
  MaxOps = 3
INVARIANTS
  AdminIndexIsCurrent
  ResetPageIsSeen
  EditSurvives
  ClientIsSound
  RefusalIsDeserved
  EvidenceIsInScope
  CachesAreFresh
  EntryHasNoConflict
  StagedFactIsKept
  ContentIsKept
  PushedTextIsThere
  TextIsWhole
  MergesAreSound
PROPERTY JobKeepsCorrections
