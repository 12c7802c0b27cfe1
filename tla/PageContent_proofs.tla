------------------------- MODULE PageContent_proofs -------------------------
(* The order of the chunks of a page, for any pages, jobs, faults and        *)
(* corrections; as long as nothing crashes, its chunks and vectors; and both *)
(* its index and its OCR milestone beside what administrators ask for.       *)
EXTENDS BookAdmin, PipelineClaims_proofs

(* Every step is a step of the page pipeline, or leaves it as it is.         *)
LEMMA NextIsPipelineStep == [ContentNext]_cvars => [Next]_vars
<1>1. ASSUME NEW j \in JobId, NEW p \in Page, PageWork(j, p)
      PROVE  JobStep(j) \/ UNCHANGED vars
  BY <1>1 DEF PageWork, SelectsChunks, StoresText, UpsertsChunks, StoresVectors, JobStep
<1>2. ASSUME NEW j \in JobId, JobWork(j)
      PROVE  JobStep(j) \/ UNCHANGED vars
  BY <1>1, <1>2 DEF JobWork, LoadsPages, JobStep
<1>3. ASSUME NEW p \in Page, Correction(p)
      PROVE  AutoCorrect(p)
  BY <1>3 DEF Correction, AutoCorrect
<1>4. CASE ContentNext
  BY <1>2, <1>3, <1>4 DEF ContentNext, Next
<1>5. CASE UNCHANGED cvars
  BY <1>5 DEF cvars
<1> QED
  BY <1>4, <1>5

(* The pipeline with its content does what the pipeline does: whatever holds *)
(* of every behaviour of PagePipeline holds here.                            *)
THEOREM ContentRefinesPipeline == ContentSpec => Spec
<1>1. ContentInit => Init
  BY DEF ContentInit
<1> QED
  BY <1>1, NextIsPipelineStep, PTL DEF ContentSpec, Spec

-----------------------------------------------------------------------------
(* Whoever is splitting or embedding pages after a step was doing so before  *)
(* it, with the same locks and no more pages left, unless the step loaded its*)
(* pages.                                                                    *)
Splitting(j) == job[j].phase = "working" /\ job[j].step = "chunking"
Indexes(j) == job[j].phase = "working" /\ job[j].step \in IndexStep
StillIndexing(i) ==
  Indexes(i)' => /\ Indexes(i)
                 /\ job'[i].step = job[i].step
                 /\ job'[i].taken = job[i].taken
                 /\ job'[i].todo \subseteq job[i].todo

LEMMA ScanSplits == ASSUME TypeOK, Scan, NEW i \in JobId PROVE StillIndexing(i)
<1>0. ASSUME NEW P, NEW s, Claim(P, s)
      PROVE  StillIndexing(i)
  <2>1. job' = job \/ \E j \in JobId : job' = [job EXCEPT ![j] = Queued(s, P)]
    BY <1>0 DEF Claim
  <2>2. CASE job' = job
    BY <2>2 DEF StillIndexing, Indexes
  <2>3. ASSUME NEW j \in JobId, job' = [job EXCEPT ![j] = Queued(s, P)] PROVE StillIndexing(i)
    <3>p. PICK q : q = Queued(s, P)
      OBVIOUS
    <3>1. q = Queued(s, P) /\ q.phase = "queued"
      BY <3>p DEF Queued, FreeJob
    <3>2. job' = [job EXCEPT ![j] = q] /\ q.phase # "working"
      BY ONLY <2>3, <3>1
    <3>3. i \in DOMAIN job
      BY DEF TypeOK
    <3>4. job'[i] = q \/ job'[i] = job[i]
      BY ONLY <3>2, <3>3
    <3>5. CASE job'[i] = q
      BY ONLY <3>5, <3>2 DEF StillIndexing, Indexes
    <3>6. CASE job'[i] = job[i]
      BY ONLY <3>6 DEF StillIndexing, Indexes
    <3> QED
      BY ONLY <3>4, <3>5, <3>6
  <2> QED
    BY <2>1, <2>2, <2>3
<1>1. ASSUME NEW E, Dispatch(E)
      PROVE  StillIndexing(i)
  BY <1>1 DEF Dispatch, Queued, FreeJob, TypeOK, StillIndexing, Indexes, IndexStep
<1> QED
  BY <1>0, <1>1 DEF Scan, OcrScan, ChunkingScan, EmbeddingScan, SpellCheckScan,
                    EventDispatcher

LEMMA TriedSplits ==
  ASSUME NEW r \in Job, NEW taken, NEW todo, r.phase = "queued"
  PROVE  Tried(r, taken, todo).phase # "working"
BY DEF Tried, FreeJob, Job

LEMMA PageDoneSplits ==
  ASSUME TypeOK, NEW j \in JobId, NEW p \in Page, PageDone(j, p), NEW i \in JobId
  PROVE  StillIndexing(i)
BY DEF PageDone, TypeOK, Job, StillIndexing, Indexes, IndexStep

LEMMA PdfSplits ==
  ASSUME TypeOK, NEW j \in JobId, PdfFails(j), NEW i \in JobId
  PROVE  StillIndexing(i)
BY DEF PdfFails, TypeOK, Job, StillIndexing, Indexes, IndexStep

LEMMA JobStepSplits ==
  ASSUME TypeOK, NEW j \in JobId, JobStep(j), ~JobLoad(j), NEW i \in JobId
  PROVE  StillIndexing(i)
<1>0. job \in [JobId -> Job] /\ job[j] \in Job
  BY DEF TypeOK
<1>1. ASSUME NEW p \in Page, JobTryLock(j, p)
      PROVE  StillIndexing(i)
  BY <1>0, <1>1, TriedSplits DEF JobTryLock, StillIndexing, Indexes, IndexStep
<1>2. ASSUME NEW p \in Page, PageDone(j, p)
      PROVE  StillIndexing(i)
  BY <1>2, PageDoneSplits
<1>3. CASE PdfFails(j)
  BY <1>3, PdfSplits
<1>4. CASE JobFinish(j) \/ JobRelease(j)
  BY <1>0, <1>4 DEF JobFinish, JobRelease, FreeJob, Job, StillIndexing, Indexes, IndexStep
<1> QED
  BY <1>1, <1>2, <1>3, <1>4 DEF JobStep, PageSucceeds, SpellCheckRewrites, OcrPageFails, PageFails

LEMMA FaultSplits == ASSUME TypeOK, Fault, NEW i \in JobId PROVE StillIndexing(i)
<1>0. job \in [JobId -> Job]
  BY DEF TypeOK
<1>1. ASSUME NEW j \in JobId, JobRaises(j) \/ JobCancelled(j) \/ GiveUp(j)
      PROVE  StillIndexing(i)
  <2>1. job[j] \in Job /\ job[j].step \in Step /\ job[j].args \in SUBSET Page
    BY <1>0 DEF Job
  <2>2. job'[j].phase # "working" /\ \A k \in JobId \ {j} : job'[k] = job[k]
    <3>1. CASE JobRaises(j)
      BY <1>0, <2>1, <3>1 DEF JobRaises, Job
    <3>2. CASE JobCancelled(j) \/ GiveUp(j)
      BY <1>0, <2>1, <3>2, QueuedFacts, FreeFacts DEF JobCancelled, GiveUp
    <3> QED
      BY <1>1, <3>1, <3>2
  <2> QED
    BY <2>2 DEF StillIndexing, Indexes, IndexStep
<1>2. ASSUME NEW j \in JobId, NEW p \in Page, JobLockError(j, p)
      PROVE  StillIndexing(i)
  <2>1. job[j] \in Job
    BY <1>0
  <2> QED
    BY <1>0, <1>2, <2>1, TriedSplits DEF JobLockError, StillIndexing, Indexes, IndexStep
<1>3. ASSUME NEW J, WorkerCrash(J)
      PROVE  StillIndexing(i)
  BY <1>3 DEF WorkerCrash, FreeJob, StillIndexing, Indexes, IndexStep
<1> QED
  BY <1>1, <1>2, <1>3 DEF Fault

LEMMA RecoverSplits == ASSUME TypeOK, Recover, NEW i \in JobId PROVE StillIndexing(i)
<1>1. ASSUME NEW j \in JobId, Redeliver(j)
      PROVE  StillIndexing(i)
  BY <1>1 DEF Redeliver, Queued, FreeJob, TypeOK, Job, StillIndexing, Indexes, IndexStep
<1>2. CASE UNCHANGED job
  BY <1>2 DEF StillIndexing, Indexes, IndexStep
<1> QED
  BY <1>1, <1>2 DEF Recover, LockExpires, StaleWatchdog, Watchdog, PipelineDriver

-----------------------------------------------------------------------------
(* Whoever is still splitting pages still holds what it read of them.        *)
LEMMA KeptOrder ==
  ASSUME TypeOK, ContentInv, copy' = KeptCopies,
         NEW i \in JobId, StillIndexing(i), Splitting(i)', NEW q \in job'[i].todo
  PROVE  /\ Splitting(i) /\ q \in Page /\ q \in job[i].taken
         /\ job'[i].taken = job[i].taken
         /\ copy'[i][q] = copy[i][q] /\ copy[i][q] \in Oldest(q) .. text[q]
<1>1. Splitting(i) /\ q \in job[i].todo /\ job'[i].taken = job[i].taken /\ q \in Page
  BY DEF StillIndexing, Indexes, IndexStep, Splitting, TypeOK, Job
<1>2. copy'[i][q] = copy[i][q]
  BY <1>1 DEF KeptCopies, Splitting
<1> QED
  BY <1>1, <1>2 DEF ContentInv, CopiesAreOrdered, Splitting

(* A step that leaves the chunks alone keeps the invariant, with a newer text*)
(* or the old one.                                                           *)
LEMMA GrowingInv ==
  ASSUME TypeOK, ContentInv, ContentTypeOK', copy' = KeptCopies, UNCHANGED chunks,
         \A q \in Page : text[q] <= text'[q], \A i \in JobId : StillIndexing(i)
  PROVE  ContentInv'
<1>1. \A q \in Page : /\ text[q] \in Nat /\ text'[q] \in Nat /\ text[q] <= text'[q]
                      /\ chunks[q] \in Nat /\ chunks[q] <= text[q]
  BY DEF ContentInv, ContentTypeOK
<1>2. \A q \in Page : Oldest(q)' = Oldest(q) /\ Oldest(q) \in Nat
  BY <1>1 DEF Oldest
<1>3. ASSUME NEW i \in JobId, Splitting(i)', NEW q \in job'[i].todo
      PROVE  q \in job'[i].taken /\ copy'[i][q] \in Oldest(q)' .. text'[q]
  <2>1. /\ q \in Page /\ q \in job'[i].taken
        /\ copy'[i][q] \in Oldest(q) .. text[q]
    BY <1>3, KeptOrder
  <2>2. /\ Oldest(q)' = Oldest(q) /\ Oldest(q) \in Nat
        /\ text[q] \in Nat /\ text'[q] \in Nat /\ text[q] <= text'[q]
    BY <1>1, <1>2, <2>1
  <2> HIDE DEF Oldest
  <2>3. \A n \in Oldest(q) .. text[q] : n \in Oldest(q) .. text'[q]
    BY <2>2
  <2> QED
    BY <2>1, <2>2, <2>3
<1>4. \A q \in Page : chunks'[q] <= text'[q]
  BY <1>1
<1> QED
  BY <1>3, <1>4 DEF ContentInv, CopiesAreOrdered, Splitting

LEMMA KeptInv ==
  ASSUME TypeOK, ContentInv, KeepsContent, \A i \in JobId : StillIndexing(i)
  PROVE  ContentInv' /\ UNCHANGED chunks
<1>1. ContentTypeOK' /\ \A q \in Page : text[q] <= text'[q]
  BY DEF KeepsContent, Kept, KeptCopies, ContentInv, ContentTypeOK
<1> QED
  BY <1>1, GrowingInv DEF KeepsContent, Kept

LEMMA NewTextInv ==
  ASSUME TypeOK, ContentInv, NEW p \in Page, NewText(p), Kept(<<chunks, vectors>>),
         rushed' \subseteq Page, \A i \in JobId : StillIndexing(i)
  PROVE  ContentInv' /\ UNCHANGED chunks
<1>1. ContentTypeOK' /\ \A q \in Page : text[q] <= text'[q]
  BY DEF NewText, Kept, KeptCopies, ContentInv, ContentTypeOK
<1> QED
  BY <1>1, GrowingInv DEF Kept

(* Steps of the jobs that read or write content.                             *)
LEMMA LoadsPagesInv ==
  ASSUME TypeOK, ContentInv, NEW j \in JobId, LoadsPages(j)
  PROVE  ContentInv'
<1>0. job \in [JobId -> Job] /\ job[j] \in Job /\ job[j].taken \subseteq Page
  BY DEF TypeOK, Job
<1>1. /\ job'[j].todo = job[j].taken /\ job'[j].taken = job[j].taken
      /\ job'[j].step = job[j].step
      /\ \A i \in JobId \ {j} : job'[i] = job[i]
  BY <1>0 DEF LoadsPages, JobLoad, Job
<1>2. /\ UNCHANGED <<text, chunks, vectors, rushed>>
      /\ \A i \in JobId \ {j} : copy'[i] = copy[i]
      /\ \A p \in Page : copy'[j][p] = IF job[j].step = "chunking" /\ p \in job[j].taken
                                        THEN text[p] ELSE Unread
  BY DEF LoadsPages, ContentInv, ContentTypeOK
<1>3. ContentTypeOK'
  BY DEF LoadsPages, ContentInv, ContentTypeOK
<1>4. ASSUME NEW i \in JobId, Splitting(i)', NEW p \in job'[i].todo
      PROVE  p \in job'[i].taken /\ copy'[i][p] \in Oldest(p)' .. text'[p]
  <2>1. CASE i = j
    <3>1. p \in job[j].taken /\ p \in Page /\ copy'[j][p] = text[p]
      BY <1>0, <1>1, <1>2, <1>4, <2>1 DEF Splitting
    <3>2. chunks[p] <= text[p] /\ chunks[p] \in Nat /\ text[p] \in Nat
      BY <3>1 DEF ContentInv, ContentTypeOK
    <3> QED
      BY <1>1, <1>2, <2>1, <3>1, <3>2 DEF Oldest
  <2>2. CASE i # j
    BY <1>1, <1>2, <1>4, <2>2 DEF ContentInv, CopiesAreOrdered, Oldest, Splitting
  <2> QED
    BY <2>1, <2>2
<1> QED
  BY <1>2, <1>3, <1>4 DEF ContentInv, CopiesAreOrdered, Splitting

LEMMA SelectsChunksInv ==
  ASSUME TypeOK, ContentInv, NEW j \in JobId, NEW p \in Page, SelectsChunks(j, p)
  PROVE  ContentInv'
<1>1. ContentTypeOK'
  BY DEF SelectsChunks, ContentInv, ContentTypeOK
<1>2. \A i \in JobId, q \in Page : job[i].step = "chunking" => copy'[i][q] = copy[i][q]
  BY DEF SelectsChunks, ContentInv, ContentTypeOK
<1>3. UNCHANGED <<job, text, chunks>>
  BY DEF SelectsChunks, vars
<1>4. \A i \in JobId : job[i].todo \subseteq Page
  BY DEF TypeOK, Job
<1> QED
  BY <1>1, <1>2, <1>3, <1>4 DEF ContentInv, CopiesAreOrdered, Oldest

LEMMA StoresVectorsInv ==
  ASSUME TypeOK, ContentInv, NEW j \in JobId, NEW p \in Page, StoresVectors(j, p),
         \A i \in JobId : StillIndexing(i)
  PROVE  ContentInv' /\ UNCHANGED chunks
<1>1. copy[j][p] \in Nat
  BY DEF StoresVectors, ContentInv, ContentTypeOK
<1>2. ContentTypeOK' /\ \A q \in Page : text[q] <= text'[q]
  BY <1>1 DEF StoresVectors, Kept, KeptCopies, ContentInv, ContentTypeOK
<1> QED
  BY <1>2, GrowingInv DEF StoresVectors, Kept

(* The upsert: the copy of the writer is no older than the chunks, and any   *)
(* other job that has the page to do would hold the same lock.               *)
LEMMA UpsertsChunksInv ==
  ASSUME TypeOK, TakenIsLocked, ContentInv, NEW j \in JobId, NEW p \in Page,
         UpsertsChunks(j, p), \A i \in JobId : StillIndexing(i)
  PROVE  /\ ContentInv'
         /\ ~JobsMayOutliveLocks => chunks'[p] >= chunks[p]
<1>0. /\ Splitting(j) /\ p \in job[j].todo
      /\ job'[j].todo = job[j].todo \ {p}
  BY DEF UpsertsChunks, PageSucceeds, Working, PageDone, Splitting, TypeOK, Job
<1>1. p \in job[j].taken /\ copy[j][p] \in Oldest(p) .. text[p]
  BY <1>0 DEF ContentInv, CopiesAreOrdered, Splitting
<1>2. /\ copy[j][p] \in Nat /\ copy[j][p] <= text[p]
      /\ ~JobsMayOutliveLocks => chunks[p] <= copy[j][p]
  BY <1>1 DEF Oldest, ContentInv, ContentTypeOK
<1>3. /\ UNCHANGED <<text, rushed>>
      /\ chunks' = [chunks EXCEPT ![p] = copy[j][p]]
      /\ vectors' = [vectors EXCEPT ![p] = 0]
      /\ copy' = KeptCopies
  BY DEF UpsertsChunks, Kept
<1>4. ContentTypeOK'
  BY <1>2, <1>3 DEF KeptCopies, ContentInv, ContentTypeOK
<1>5. /\ \A q \in Page : chunks'[q] = IF q = p THEN copy[j][p] ELSE chunks[q]
      /\ \A q \in Page : chunks'[q] <= text'[q]
  BY <1>2, <1>3 DEF ContentInv, ContentTypeOK
<1>6. ASSUME NEW i \in JobId, Splitting(i)', NEW q \in job'[i].todo
      PROVE  q \in job'[i].taken /\ copy'[i][q] \in Oldest(q)' .. text'[q]
  <2>1. /\ Splitting(i) /\ q \in Page /\ q \in job[i].taken
        /\ job'[i].taken = job[i].taken
    BY <1>3, <1>6, KeptOrder
  <2>2. copy'[i][q] = copy[i][q] /\ copy[i][q] \in Oldest(q) .. text[q]
    BY <1>3, <1>6, KeptOrder
  <2>3. text'[q] = text[q]
    BY <1>3
  <2>4. CASE q # p \/ JobsMayOutliveLocks
    BY <1>3, <1>5, <2>1, <2>2, <2>3, <2>4 DEF Oldest
  <2>5. CASE q = p /\ ~JobsMayOutliveLocks
    <3>1. i # j
      BY <1>0, <1>6, <2>5
    <3>2. lock["chunking"][p] = i /\ lock["chunking"][p] = j
      BY <1>0, <1>1, <2>1, <2>5 DEF TakenIsLocked, Splitting
    <3> QED
      BY <3>1, <3>2
  <2> QED
    BY <2>4, <2>5
<1> QED
  BY <1>2, <1>4, <1>5, <1>6 DEF ContentInv, ContentTypeOK, CopiesAreOrdered, Splitting

-----------------------------------------------------------------------------
(* One step: the invariant is kept, and no chunks go back.                   *)
Ordered == /\ ContentInv'
           /\ ~JobsMayOutliveLocks => \A p \in Page : chunks'[p] >= chunks[p]

LEMMA SameChunks == ContentInv /\ ContentInv' /\ UNCHANGED chunks => Ordered
BY DEF Ordered, ContentInv, ContentTypeOK

LEMMA PageWorkInv ==
  ASSUME TypeOK, TakenIsLocked, ContentInv, NEW j \in JobId, NEW p \in Page, PageWork(j, p)
  PROVE  Ordered
<1>1. ASSUME PageSucceeds(j, p) \/ OcrPageFails(j, p) \/ PageFails(j, p)
                \/ SpellCheckRewrites(j, p) \/ JobTryLock(j, p)
      PROVE  \A i \in JobId : StillIndexing(i)
  <2>1. JobStep(j)
    BY <1>1 DEF JobStep
  <2>2. job[j].phase # "locked"
    BY <1>1 DEF PageSucceeds, OcrPageFails, PageFails, SpellCheckRewrites, JobTryLock, Working
  <2> QED
    BY <2>1, <2>2, JobStepSplits DEF JobLoad
<1>2. CASE SelectsChunks(j, p)
  BY <1>2, SelectsChunksInv, SameChunks DEF SelectsChunks
<1>3. CASE StoresText(j, p)
  <2>1. \A i \in JobId : StillIndexing(i)
    BY <1>1, <1>3 DEF StoresText
  <2>2. CASE NewText(p)
    <3>1. Kept(<<chunks, vectors>>) /\ rushed' \subseteq Page
      BY <1>3 DEF StoresText, Kept, ContentInv, ContentTypeOK
    <3> QED
      BY <2>1, <2>2, <3>1, NewTextInv, SameChunks
  <2>3. CASE UNCHANGED text
    <3>1. KeepsContent
      BY <1>3, <2>3 DEF StoresText, Kept, KeepsContent
    <3> QED
      BY <2>1, <3>1, KeptInv, SameChunks
  <2> QED
    BY <1>3, <2>2, <2>3 DEF StoresText
<1>4. CASE UpsertsChunks(j, p)
  <2>1. \A i \in JobId : StillIndexing(i)
    BY <1>1, <1>4 DEF UpsertsChunks
  <2>2. ContentInv' /\ (~JobsMayOutliveLocks => chunks'[p] >= chunks[p])
    BY <1>4, <2>1, UpsertsChunksInv
  <2>3. \A q \in Page \ {p} : chunks'[q] = chunks[q] /\ chunks[q] \in Nat
    BY <1>4 DEF UpsertsChunks, ContentInv, ContentTypeOK
  <2> QED
    BY <2>2, <2>3 DEF Ordered
<1>5. CASE StoresVectors(j, p)
  BY <1>1, <1>5, StoresVectorsInv, SameChunks DEF StoresVectors
<1>6. CASE SpellCheckRewrites(j, p) /\ Corrects(p)
  <2>1. rushed' \subseteq Page
    BY <1>6 DEF Corrects, ContentInv, ContentTypeOK
  <2> QED
    BY <1>1, <1>6, <2>1, NewTextInv, SameChunks DEF Corrects
<1>7. CASE (PageSucceeds(j, p) \/ JobTryLock(j, p) \/ PageFails(j, p)) /\ KeepsContent
  <2>1. \A i \in JobId : StillIndexing(i)
    BY <1>1, <1>7
  <2> QED
    BY <1>7, <2>1, KeptInv, SameChunks
<1> QED
  BY <1>2, <1>3, <1>4, <1>5, <1>6, <1>7 DEF PageWork

LEMMA NextInv ==
  ASSUME TypeOK, TakenIsLocked, ContentInv, [ContentNext]_cvars
  PROVE  Ordered
<1>1. ASSUME NEW j \in JobId, JobWork(j)
      PROVE  Ordered
  <2>1. CASE LoadsPages(j)
    BY <2>1, LoadsPagesInv, SameChunks DEF LoadsPages
  <2>2. CASE (PdfFails(j) \/ JobFinish(j) \/ JobRelease(j)) /\ KeepsContent
    <3>1. CASE PdfFails(j)
      BY <2>2, <3>1, PdfSplits, KeptInv, SameChunks
    <3>2. CASE JobFinish(j) \/ JobRelease(j)
      <4>1. JobStep(j) /\ ~JobLoad(j)
        BY <3>2 DEF JobStep, JobLoad, JobFinish, JobRelease
      <4> QED
        BY <2>2, <4>1, JobStepSplits, KeptInv, SameChunks
    <3> QED
      BY <2>2, <3>1, <3>2
  <2> QED
    BY <1>1, <2>1, <2>2, PageWorkInv DEF JobWork
<1>2. CASE (Scan \/ Fault \/ Recover) /\ KeepsContent
  BY <1>2, ScanSplits, FaultSplits, RecoverSplits, KeptInv, SameChunks
<1>3. ASSUME NEW p \in Page, Correction(p)
      PROVE  Ordered
  <2>1. \A i \in JobId : StillIndexing(i)
    BY <1>3 DEF Correction, AutoCorrectPage, AutoCorrectEnds, StillIndexing, Indexes, IndexStep
  <2>2. CASE AutoCorrectPage(p) /\ Corrects(p)
    <3>1. rushed' \subseteq Page
      BY <2>2 DEF Corrects, ContentInv, ContentTypeOK
    <3> QED
      BY <2>1, <2>2, <3>1, NewTextInv, SameChunks DEF Corrects
  <2>3. CASE AutoCorrectEnds(p) /\ KeepsContent
    BY <2>1, <2>3, KeptInv, SameChunks
  <2> QED
    BY <1>3, <2>2, <2>3 DEF Correction
<1>4. CASE UNCHANGED cvars
  BY <1>4, SameChunks DEF cvars, vars, content, ContentInv, ContentTypeOK, CopiesAreOrdered, Oldest
<1> QED
  BY <1>1, <1>2, <1>3, <1>4 DEF ContentNext

LEMMA InitInv == ContentInit => ContentInv
<1> SUFFICES ASSUME ContentInit PROVE ContentInv
  OBVIOUS
<1>1. ContentTypeOK /\ \A p \in Page : chunks[p] <= text[p]
  BY DEF ContentInit, ContentTypeOK
<1>2. \A j \in JobId : job[j].phase # "working"
  BY FreeFacts DEF ContentInit, Init
<1> QED
  BY <1>1, <1>2 DEF ContentInv, CopiesAreOrdered

(* Types, chunks no newer than the text, and what chunking jobs hold is at   *)
(* least as new as the chunks they will replace.                             *)
THEOREM ContentInvariant == ContentSpec => []ContentInv
<1>1. ContentInv /\ TypeOK /\ TakenIsLocked /\ [ContentNext]_cvars => ContentInv'
  BY NextInv DEF Ordered
<1>2. IInv => TypeOK /\ TakenIsLocked
  BY DEF IInv
<1> QED
  BY <1>1, <1>2, InitInv, ContentRefinesPipeline, PipelineInvariant, PTL DEF ContentSpec

(* Chunks of a newer text are never replaced by those of an older one, as    *)
(* long as jobs end before their locks (MultiPageLock around chunking_job).  *)
THEOREM ChunksAreOrdered == ContentSpec => ChunksNeverGoBack
<1>1. ContentInv /\ TypeOK /\ TakenIsLocked /\ [ContentNext]_cvars
        => [~JobsMayOutliveLocks => \A p \in Page : chunks'[p] >= chunks[p]]_cvars
  BY NextInv DEF Ordered
<1>2. IInv => TypeOK /\ TakenIsLocked
  BY DEF IInv
<1> QED
  BY <1>1, <1>2, ContentInvariant, ContentRefinesPipeline, PipelineInvariant, PTL
  DEF ContentSpec, ChunksNeverGoBack

-----------------------------------------------------------------------------
(* The index steps of one page.                                              *)
IndexEvent(p) == [page |-> p, type |-> "chunking_succeeded"]

(* Types, and jobs that do no more than they were given.                     *)
WorkInv == TypeOK /\ WorkIsClaimed

(* Faults are only ever added: a step leaves their number or spends one.     *)
Counted == faults' = faults \/ \E n \in {0, 1} : Spend(n)
LEMMA FaultsStay == ASSUME TypeOK, [Next]_vars, faults' = 0 PROVE faults = 0
<1>1. ASSUME Scan PROVE Counted
  <2>1. ASSUME NEW P, NEW s, Claim(P, s) PROVE Counted
    BY <2>1 DEF Counted, Claim
  <2>2. ASSUME NEW E, Dispatch(E) PROVE Counted
    BY <2>2 DEF Counted, Dispatch
  <2> QED
    BY <1>1, <2>1, <2>2
    DEF Scan, OcrScan, ChunkingScan, EmbeddingScan, SpellCheckScan, EventDispatcher
<1>2. ASSUME NEW j \in JobId, JobStep(j) PROVE Counted
  <2>1. faults' = faults
    BY <1>2 DEF JobStep, JobTryLock, PageSucceeds, SpellCheckRewrites, OcrPageFails, PageFails,
                JobLoad, PdfFails, JobFinish, JobRelease
  <2> QED
    BY <2>1 DEF Counted
<1>3. ASSUME Fault PROVE Counted
  <2>1. ASSUME NEW j \in JobId, JobRaises(j) \/ JobCancelled(j) \/ GiveUp(j) PROVE Counted
    BY <2>1 DEF Counted, JobRaises, JobCancelled, GiveUp
  <2>2. ASSUME NEW j \in JobId, NEW p \in Page, JobLockError(j, p) PROVE Counted
    BY <2>2 DEF Counted, JobLockError
  <2>3. ASSUME NEW J, WorkerCrash(J) PROVE Counted
    BY <2>3 DEF Counted, WorkerCrash
  <2> QED
    BY <1>3, <2>1, <2>2, <2>3 DEF Fault
<1>4. ASSUME Recover PROVE Counted
  <2>1. ASSUME NEW s \in Step, NEW p \in Page, LockExpires(s, p) PROVE Counted
    BY <2>1 DEF Counted, LockExpires
  <2>2. ASSUME NEW j \in JobId, Redeliver(j) PROVE Counted
    BY <2>2 DEF Counted, Redeliver
  <2>3. ASSUME NEW S, Watchdog(S) PROVE Counted
    BY <2>3 DEF Counted, Watchdog
  <2>4. ASSUME PipelineDriver PROVE Counted
    BY <2>4 DEF Counted, PipelineDriver
  <2> QED
    BY <1>4, <2>1, <2>2, <2>3, <2>4 DEF Recover, StaleWatchdog
<1>5. ASSUME NEW p \in Page, AutoCorrect(p) PROVE Counted
  BY <1>5 DEF Counted, AutoCorrect, AutoCorrectPage, AutoCorrectEnds
<1>6. ASSUME UNCHANGED vars PROVE Counted
  BY <1>6 DEF Counted, vars
<1>7. Counted
  BY <1>1, <1>2, <1>3, <1>4, <1>5, <1>6 DEF Next
<1> QED
  BY <1>7, SpendOnward DEF Counted

LEMMA FaultsCount == ASSUME WorkInv, faults = 0, Fault PROVE faults' # 0
<1>1. ~Spend(1) \/ faults' # 0
  BY SpendOnward DEF WorkInv
<1> QED
  BY <1>1 DEF Fault, JobRaises, JobCancelled, GiveUp, JobLockError, WorkerCrash,
              WorkInv, WorkIsClaimed

(* A page with nothing to do and nothing done is in order whatever its text. *)
LEMMA FreshIndexed ==
  ASSUME NEW p \in Page, \A s \in IndexStep : ms'[p][s] = "idle" /\ Owners(p, s)' = {},
         IndexEvent(p) \notin events'
  PROVE  InOrder(p)'
BY DEF InOrder, IndexStep, IndexEvent

(* What a step that has nothing to do with the content of p may do to it: go *)
(* on, claim one of its index steps, or end one without success.             *)
GoesOn(p, s) == ms'[p][s] = ms[p][s] /\ Owners(p, s)' \subseteq Owners(p, s)
IsClaimed(p, s) == /\ ms[p][s] = "idle" /\ ms'[p][s] = "in_progress"
                   /\ s = "embedding" => ms[p]["chunking"] = "succeeded"
                   /\ \A i, j \in Owners(p, s)' : i = j
IsDropped(p, s) == /\ ms'[p][s] # "succeeded"
                   /\ s = "chunking" => ms[p][s] # "succeeded"
                   /\ s = "embedding" /\ ms'[p][s] # "idle" => ms[p]["chunking"] = "succeeded"
                   /\ Owners(p, s)' = {}
Moves(p) ==
  /\ \A s \in IndexStep : GoesOn(p, s) \/ IsClaimed(p, s) \/ IsDropped(p, s)
  /\ IndexEvent(p) \in events' => IndexEvent(p) \in events

LEMMA MovesIndexed ==
  ASSUME NEW p \in Page, InOrder(p), Moves(p),
         text'[p] = text[p], chunks'[p] = chunks[p], vectors'[p] = vectors[p],
         \A s \in IndexStep, j \in JobId :
           j \in Owners(p, s)' /\ job'[j].phase = "working" =>
             /\ j \in Owners(p, s) /\ job[j].phase = "working"
             /\ copy'[j][p] = copy[j][p]
  PROVE  InOrder(p)'
<1>0. "chunking" \in IndexStep /\ "embedding" \in IndexStep
  BY DEF IndexStep
<1>1. /\ \A s \in IndexStep : \A i, j \in Owners(p, s)' : i = j
      /\ Owners(p, "chunking")' # {} => ms'[p]["chunking"] = "in_progress"
      /\ Owners(p, "embedding")' # {} => ms'[p]["embedding"] \in {"in_progress", "succeeded"}
  <2>1. \A s \in IndexStep : \A i, j \in Owners(p, s)' : i = j
    BY DEF Moves, GoesOn, IsClaimed, IsDropped, InOrder
  <2>2. Owners(p, "chunking")' # {} => ms'[p]["chunking"] = "in_progress"
    BY <1>0 DEF Moves, GoesOn, IsClaimed, IsDropped, InOrder
  <2>3. Owners(p, "embedding")' # {} => ms'[p]["embedding"] \in {"in_progress", "succeeded"}
    BY <1>0 DEF Moves, GoesOn, IsClaimed, IsDropped, InOrder
  <2> QED
    BY <2>1, <2>2, <2>3
<1>2. ms'[p]["chunking"] = "succeeded" <=> ms[p]["chunking"] = "succeeded"
  BY <1>0 DEF Moves, GoesOn, IsClaimed, IsDropped
<1>3. ms[p]["chunking"] # "succeeded" => ms'[p]["embedding"] = "idle"
  BY <1>0 DEF Moves, GoesOn, IsClaimed, IsDropped, InOrder
<1>4. ms'[p]["embedding"] = "succeeded" => ms[p]["embedding"] = "succeeded"
  BY <1>0 DEF Moves, GoesOn, IsClaimed, IsDropped
<1>5. IndexEvent(p) \in events' => IndexEvent(p) \in events
  BY DEF Moves
<1>6. \A j \in Owners(p, "chunking")' : job'[j].phase = "working" => copy'[j][p] = text'[p]
  BY <1>0, OwnersAreJobs DEF InOrder
<1>7. \A j \in Owners(p, "embedding")' : job'[j].phase = "working" =>
        copy'[j][p] \in {Unread, chunks'[p]} \/ (copy'[j][p] = 0 /\ vectors'[p] = chunks'[p])
  BY <1>0, OwnersAreJobs DEF InOrder
<1>8. ms'[p]["chunking"] = "succeeded" => chunks'[p] = text'[p] /\ vectors'[p] \in {0, chunks'[p]}
  BY <1>2 DEF InOrder
<1>9. ms'[p]["chunking"] # "succeeded" =>
        ms'[p]["embedding"] = "idle" /\ IndexEvent(p) \notin events'
  BY <1>2, <1>3, <1>5 DEF InOrder, IndexEvent
<1>10. ms'[p]["embedding"] = "succeeded" => vectors'[p] = chunks'[p]
  BY <1>4 DEF InOrder
<1> QED
  BY <1>1, <1>6, <1>7, <1>8, <1>9, <1>10 DEF InOrder, IndexEvent

(* Whoever still works an index step of p keeps what it has read.            *)
LEMMA KeptIndexed ==
  ASSUME TypeOK, NEW p \in Page, InOrder(p), Moves(p), copy' = KeptCopies,
         text'[p] = text[p], chunks'[p] = chunks[p], vectors'[p] = vectors[p],
         \A i \in JobId : StillIndexing(i)
  PROVE  InOrder(p)'
<1>1. ASSUME NEW s \in IndexStep, NEW j \in JobId,
             j \in Owners(p, s)', job'[j].phase = "working"
      PROVE  /\ j \in Owners(p, s) /\ job[j].phase = "working"
             /\ copy'[j][p] = copy[j][p]
  <2>0. s \in Step
    BY DEF Step, IndexStep
  <2>1. Has(job'[j], p, s)
    BY <1>1, <2>0, OwnersFacts
  <2>2. job'[j].step = s /\ p \in job'[j].todo
    BY <1>1, <2>1 DEF Has
  <2>3. job[j].phase = "working" /\ job[j].step = s /\ p \in job[j].todo
    BY <1>1, <2>2 DEF StillIndexing, Indexes
  <2>4. Has(job[j], p, s)
    BY <2>3 DEF Has
  <2>5. copy'[j][p] = copy[j][p]
    BY <1>1, <2>2 DEF KeptCopies
  <2> QED
    BY <2>0, <2>3, <2>4, <2>5, OwnersFacts
<1> QED
  BY <1>1, MovesIndexed

-----------------------------------------------------------------------------
(* The owners of a page after a step of one job.                             *)
LEMMA OwnersShrink ==
  ASSUME NEW j \in JobId, \A i \in JobId \ {j} : job'[i] = job[i],
         NEW p \in Page, NEW s \in Step, Has(job'[j], p, s) => Has(job[j], p, s)
  PROVE  Owners(p, s)' \subseteq Owners(p, s)
<1>1. ASSUME NEW i \in JobId, i \in Owners(p, s)' PROVE i \in Owners(p, s)
  BY <1>1, OwnersFacts
<1> QED
  BY <1>1, OwnersAreJobs

LEMMA PageDoneOwners ==
  ASSUME TypeOK, NEW j \in JobId, NEW q \in Page, Working(j, q), PageDone(j, q)
  PROVE  /\ \A p \in Page, s \in Step : Owners(p, s)' \subseteq Owners(p, s)
         /\ \A s \in Step : s = job[j].step => j \in Owners(q, s) /\ j \notin Owners(q, s)'
<1>0. job \in [JobId -> Job] /\ job[j] \in Job /\ job[j].step \in Step
  BY DEF TypeOK, Job
<1>1. job'[j] = [job[j] EXCEPT !.todo = @ \ {q}] /\ \A i \in JobId \ {j} : job'[i] = job[i]
  BY <1>0 DEF PageDone
<1>2. /\ job'[j].phase = job[j].phase /\ job'[j].step = job[j].step
      /\ job'[j].taken = job[j].taken /\ job'[j].todo = job[j].todo \ {q}
      /\ job[j].phase = "working" /\ q \in job[j].todo
  BY <1>0, <1>1 DEF Job, Working
<1>3. \A p \in Page, s \in Step : Has(job'[j], p, s) => Has(job[j], p, s)
  BY <1>2 DEF Has
<1>4. \A s \in Step : s = job[j].step => Has(job[j], q, s) /\ ~Has(job'[j], q, s)
  BY <1>2 DEF Has
<1>5. \A s \in Step : s = job[j].step => j \in Owners(q, s) /\ j \notin Owners(q, s)'
  BY <1>0, <1>4, OwnersFacts
<1> QED
  BY <1>0, <1>1, <1>3, <1>5, OwnersShrink

LEMMA JobStepOwners ==
  ASSUME WorkInv, faults = 0, NEW j \in JobId, JobStep(j), NEW p \in Page, NEW s \in Step
  PROVE  Owners(p, s)' \subseteq Owners(p, s)
<1>0. /\ job[j] \in Job /\ job[j].step \in Step
      /\ job[j].args \in SUBSET Page /\ job[j].taken \in SUBSET Page
      /\ job[j].todo \in SUBSET Page /\ job \in [JobId -> Job]
      /\ TypeOK
  BY DEF WorkInv, TypeOK, Job
<1>00. job[j].phase = "locked" => job[j].todo = {}
  BY DEF WorkInv, WorkIsClaimed
<1>1. ASSUME NEW q \in Page, JobTryLock(j, q) PROVE Owners(p, s)' \subseteq Owners(p, s)
  <2>1. PICK taken \in {job[j].taken, job[j].taken \cup {q}} :
          job' = [job EXCEPT ![j] = Tried(job[j], taken, job[j].todo \ {q})]
    BY <1>1 DEF JobTryLock
  <2> DEFINE todo == job[j].todo \ {q}
             r == Tried(job[j], taken, todo)
  <2>2. job[j].phase = "queued" /\ q \in job[j].todo
    BY <1>1 DEF JobTryLock
  <2>3. \/ r = FreeJob
        \/ /\ r.phase \in {"queued", "locked"} /\ r.step = job[j].step
           /\ r.todo = todo /\ r.taken = taken
    <3>1. todo \in SUBSET Page /\ taken \in SUBSET Page
      BY <1>0
    <3> HIDE DEF todo
    <3> QED
      BY <1>0, <2>2, <3>1, TriedIs
  <2>4. Has(r, p, s) => Has(job[j], p, s)
    BY <2>2, <2>3, FreeIsIdle DEF Has
  <2>5. job'[j] = r /\ \A i \in JobId \ {j} : job'[i] = job[i]
    BY <1>0, <2>1
  <2> HIDE DEF r
  <2> QED
    BY <2>4, <2>5, OwnersShrink
<1>2. CASE JobLoad(j)
  <2>1. /\ job'[j].phase = "working" /\ job'[j].todo = job[j].taken
        /\ job'[j].step = job[j].step
        /\ \A i \in JobId \ {j} : job'[i] = job[i]
    BY <1>0, <1>2 DEF JobLoad, Job
  <2>2. Has(job'[j], p, s) => Has(job[j], p, s)
    BY <1>2, <2>1 DEF JobLoad, Has
  <2> QED
    BY <2>1, <2>2, OwnersShrink
<1>3. CASE PdfFails(j)
  <2>1. job'[j] = [job[j] EXCEPT !.phase = "working"] /\ \A i \in JobId \ {j} : job'[i] = job[i]
    BY <1>0, <1>3 DEF PdfFails
  <2>2. job'[j].phase = "working" /\ job'[j].todo = {}
    BY <1>0, <1>00, <1>3, <2>1 DEF PdfFails, Job
  <2>3. ~Has(job'[j], p, s)
    BY <2>2 DEF Has
  <2> QED
    BY <2>1, <2>3, OwnersShrink
<1>4. ASSUME NEW q \in Page, Working(j, q), PageDone(j, q)
      PROVE  Owners(p, s)' \subseteq Owners(p, s)
  BY <1>0, <1>4, PageDoneOwners
<1>5. CASE JobFinish(j)
  <2>1. job'[j] = [job[j] EXCEPT !.phase = "releasing"] /\ \A i \in JobId \ {j} : job'[i] = job[i]
    BY <1>0, <1>5 DEF JobFinish
  <2>2. job'[j].phase = "releasing"
    BY <1>0, <2>1 DEF Job
  <2> QED
    BY <2>1, <2>2, OwnersShrink DEF Has
<1>6. CASE JobRelease(j)
  <2>1. job'[j] = FreeJob /\ \A i \in JobId \ {j} : job'[i] = job[i]
    BY <1>0, <1>6 DEF JobRelease
  <2> QED
    BY <2>1, FreeIsIdle, OwnersShrink DEF Has
<1> QED
  BY <1>1, <1>2, <1>3, <1>4, <1>5, <1>6
  DEF JobStep, PageSucceeds, SpellCheckRewrites, OcrPageFails, PageFails

-----------------------------------------------------------------------------
(* What the pipeline does to the index steps of p besides writing content.   *)
LEMMA ClaimMoves ==
  ASSUME TypeOK, NEW p \in Page, InOrder(p), events' \subseteq events,
         NEW s \in Step, NEW t \in Step, s # t,
         NEW C \in SUBSET Page, NEW M \in SUBSET Page,
         NEW jc \in JobId \cup {NoJob}, NEW jm \in JobId \cup {NoJob},
         TwoClaims(s, C, jc, t, M, jm),
         p \in C /\ s \in IndexStep =>
           ms[p][s] = "idle" /\ (s = "embedding" => ms[p]["chunking"] = "succeeded"),
         p \in M /\ t \in IndexStep =>
           ms[p][t] = "idle" /\ (t = "embedding" => ms[p]["chunking"] = "succeeded")
  PROVE  Moves(p)
<1>1. GivesWork(s, C, jc, t, M, jm)
  BY ClaimEffect
<1>2. ASSUME NEW u \in IndexStep, ~((p \in C /\ u = s) \/ (p \in M /\ u = t))
      PROVE  GoesOn(p, u)
  <2>1. u \in Step
    BY DEF IndexStep, Step
  <2>2. ms'[p][u] = ms[p][u]
    BY <1>1, <1>2, <2>1 DEF GivesWork
  <2>3. \A i \in JobId : i \in Owners(p, u)' => i \in Owners(p, u)
    BY <1>1, <1>2, <2>1 DEF GivesWork
  <2> QED
    BY <2>2, <2>3, OwnersAreJobs DEF GoesOn
<1>3. ASSUME NEW u \in IndexStep, (p \in C /\ u = s) \/ (p \in M /\ u = t)
      PROVE  IsClaimed(p, u)
  <2>1. /\ u \in Step /\ ms[p][u] = "idle"
        /\ u = "embedding" => ms[p]["chunking"] = "succeeded"
    BY <1>3 DEF IndexStep, Step
  <2>2. ms'[p][u] = "in_progress"
    BY <1>1, <1>3, <2>1 DEF GivesWork
  <2>3. Owners(p, u) = {}
    BY <1>3, <2>1 DEF InOrder, IndexStep
  <2>4. \A i \in JobId : i \in Owners(p, u)' =>
          (i = jc /\ u = s) \/ (i = jm /\ u = t)
    BY <1>1, <2>1, <2>3 DEF GivesWork
  <2>5. \A i, k \in Owners(p, u)' : i = k
    BY <2>4, OwnersAreJobs
  <2> QED
    BY <2>1, <2>2, <2>5 DEF IsClaimed
<1> QED
  BY <1>2, <1>3 DEF Moves

LEMMA ClaimedMoves ==
  ASSUME TypeOK, NEW p \in Page, InOrder(p), NEW P \in SUBSET Page, NEW s \in Step, Claim(P, s),
         p \in P /\ s \in IndexStep =>
           ms[p][s] = "idle" /\ (s = "embedding" => ms[p]["chunking"] = "succeeded")
  PROVE  Moves(p)
<1>1. PICK t \in Step \ {"ocr"}, jc \in JobId \cup {NoJob} :
        s # t /\ TwoClaims(s, P, jc, t, {}, NoJob)
  BY ClaimForm
<1>2. events' \subseteq events
  BY DEF Claim
<1> QED
  BY <1>1, <1>2, ClaimMoves

LEMMA ScanMoves ==
  ASSUME TypeOK, NEW p \in Page, InOrder(p), Scan
  PROVE  Moves(p)
<1>0. Step = {"ocr", "chunking", "embedding", "spell_check"}
      /\ IndexStep = {"chunking", "embedding"}
  BY DEF Step, IndexStep
<1>1. ASSUME NEW b \in Book, OcrScan(b) PROVE Moves(p)
  BY <1>0, <1>1, ClaimedMoves DEF OcrScan, PagesOf
<1>2. CASE ChunkingScan
  BY <1>0, <1>2, ClaimedMoves DEF ChunkingScan, ChunkingReady
<1>3. CASE EmbeddingScan
  BY <1>0, <1>3, ClaimedMoves DEF EmbeddingScan, EmbeddingReady
<1>4. CASE SpellCheckScan
  BY <1>0, <1>4, ClaimedMoves DEF SpellCheckScan, SpellCheckReady
<1>5. CASE EventDispatcher
  <2>1. PICK E \in SUBSET events : Dispatch(E)
    BY <1>5 DEF EventDispatcher
  <2> DEFINE C == Claimable(E, ChunkingTrigger, "chunking")
             M == Claimable(E, {"chunking_succeeded"}, "embedding")
  <2>2. PICK jc \in JobId \cup {NoJob}, jm \in JobId \cup {NoJob} :
          job' = [j \in JobId |-> IF j = jc THEN Queued("chunking", C)
                             ELSE IF j = jm THEN Queued("embedding", M)
                             ELSE job[j]]
    BY <2>1 DEF Dispatch
  <2>3. /\ ms' = Set(Set(ms, C, "chunking", "in_progress"), M, "embedding", "in_progress")
        /\ events' \subseteq events
    BY <2>1 DEF Dispatch
  <2>4. TwoClaims("chunking", C, jc, "embedding", M, jm)
    BY <2>2, <2>3 DEF TwoClaims
  <2>5. C \in SUBSET Page /\ M \in SUBSET Page
    BY DEF Claimable, TypeOK, Event
  <2>6. p \in C => ms[p]["chunking"] = "idle"
    BY DEF Claimable
  <2>7. p \in M => ms[p]["embedding"] = "idle" /\ IndexEvent(p) \in events
    <3>1. ASSUME p \in M
          PROVE  ms[p]["embedding"] = "idle" /\ \E e \in events : e.type = "chunking_succeeded" /\ p = e.page
      BY <3>1 DEF Claimable
    <3>2. \A e \in events : e \in Event /\ e = [page |-> e.page, type |-> e.type]
      BY DEF TypeOK, Event
    <3> QED
      BY <3>1, <3>2 DEF IndexEvent
  <2>8. p \in M => ms[p]["chunking"] = "succeeded"
    BY <2>7 DEF InOrder, IndexEvent
  <2> HIDE DEF C, M
  <2> QED
    BY <1>0, <2>3, <2>4, <2>5, <2>6, <2>7, <2>8, ClaimMoves
<1> QED
  BY <1>1, <1>2, <1>3, <1>4, <1>5 DEF Scan

(* Steps that write no milestone of p at an index step and make no event.    *)
LEMMA IdleMoves ==
  ASSUME NEW p \in Page, IndexEvent(p) \in events' => IndexEvent(p) \in events,
         \A s \in IndexStep : ms'[p][s] = ms[p][s] /\ Owners(p, s)' \subseteq Owners(p, s)
  PROVE  Moves(p)
BY DEF Moves, GoesOn

(* A page that goes stale without a fault has no owners.                     *)
LEMMA Unattended ==
  ASSUME WorkInv, faults = 0, faults' = 0, NEW S \in SUBSET Page, Watchdog(S),
         NEW p \in S, NEW s \in Step
  PROVE  Owners(p, s) = {}
<1>1. Spend(IF \E q \in S : Attended(q) THEN 1 ELSE 0)
  BY DEF Watchdog
<1>2. ~Attended(p)
  BY <1>1, SpendOnward DEF WorkInv
<1>3. ASSUME NEW j \in JobId PROVE ~Has(job[j], p, s)
  <2>1. job[j].todo \cup job[j].taken \subseteq job[j].args
    BY DEF WorkInv, WorkIsClaimed
  <2> QED
    BY <1>2, <2>1 DEF Has, Attended
<1> QED
  BY <1>3, OwnersFacts, OwnersAreJobs

LEMMA RecoverMoves ==
  ASSUME WorkInv, faults = 0, faults' = 0, NEW p \in Page, InOrder(p), Recover
  PROVE  Moves(p)
<1>0. IndexStep \subseteq Step /\ TypeOK
  BY DEF IndexStep, Step, WorkInv
<1>1. ASSUME NEW s \in Step, NEW q \in Page, LockExpires(s, q) PROVE Moves(p)
  BY <1>1, IdleMoves DEF LockExpires, Owners
<1>2. ASSUME NEW j \in JobId, Redeliver(j) PROVE Moves(p)
  BY <1>2 DEF Redeliver, WorkInv, WorkIsClaimed
<1>3. CASE StaleWatchdog
  <2>1. PICK S \in SUBSET Page : Watchdog(S)
    BY <1>3 DEF StaleWatchdog
  <2>2. UNCHANGED <<job, events>> /\ \A s \in Step : Owners(p, s)' = Owners(p, s)
    BY <2>1 DEF Watchdog, Owners
  <2>3. \A s \in Step :
          ms'[p][s] = IF p \in S /\ ms[p][s] = "in_progress" THEN "idle" ELSE ms[p][s]
    BY <2>1, <1>0 DEF Watchdog, TypeOK
  <2>4. ASSUME p \in S, NEW s \in Step PROVE Owners(p, s) = {}
    BY <2>1, <2>4, Unattended
  <2>5. ASSUME NEW s \in IndexStep
        PROVE  GoesOn(p, s) \/ IsDropped(p, s)
    <3>1. CASE p \in S /\ ms[p][s] = "in_progress"
      BY <1>0, <2>2, <2>3, <2>4, <3>1 DEF IsDropped
    <3>2. CASE ~(p \in S /\ ms[p][s] = "in_progress")
      BY <1>0, <2>2, <2>3, <3>2 DEF GoesOn
    <3> QED
      BY <3>1, <3>2
  <2> QED
    BY <2>2, <2>5 DEF Moves
<1>4. CASE PipelineDriver
  <2>1. UNCHANGED <<job, events>> /\ \A s \in Step : Owners(p, s)' = Owners(p, s)
    BY <1>4 DEF PipelineDriver, Owners
  <2>2. \A s \in Step :
          \/ ms'[p][s] = ms[p][s]
          \/ ms[p][s] = "failed" /\ ms'[p][s] = "idle"
    BY <1>0, <1>4 DEF PipelineDriver, Reset, TypeOK
  <2>3. ASSUME NEW s \in IndexStep
        PROVE  GoesOn(p, s) \/ IsDropped(p, s)
    <3>1. CASE ms'[p][s] = ms[p][s]
      BY <1>0, <2>1, <3>1 DEF GoesOn
    <3>2. CASE ms[p][s] = "failed" /\ ms'[p][s] = "idle"
      BY <1>0, <2>1, <3>2 DEF IsDropped, InOrder, IndexStep
    <3> QED
      BY <1>0, <2>2, <3>1, <3>2
  <2> QED
    BY <2>1, <2>3 DEF Moves
<1> QED
  BY <1>1, <1>2, <1>3, <1>4 DEF Recover

-----------------------------------------------------------------------------
(* Steps of jobs, for the page they work and for the others.                 *)
LEMMA OutcomeMoves ==
  ASSUME WorkInv, faults = 0, NEW p \in Page, InOrder(p), NEW j \in JobId, NEW q \in Page,
         NEW v \in PageStatus, Working(j, q), PageDone(j, q),
         ms' = Set(ms, {q}, job[j].step, v),
         IndexEvent(p) \in events' => IndexEvent(p) \in events,
         p # q \/ job[j].step \notin IndexStep \/ v \notin {"succeeded", "in_progress"},
         v = "succeeded" \/ v = "failed"
  PROVE  Moves(p)
<1>0. /\ TypeOK /\ IndexStep \subseteq Step
      /\ ms \in [Page -> [Step -> PageStatus]] /\ job[j].step \in Step
      /\ "chunking" \in IndexStep /\ "embedding" \in IndexStep
  BY DEF IndexStep, Step, WorkInv, TypeOK, Job
<1>1. \A s \in Step : ms'[p][s] = IF p = q /\ s = job[j].step THEN v ELSE ms[p][s]
  BY <1>0, SetValues
<1>2. \A s \in Step : Owners(p, s)' \subseteq Owners(p, s)
  BY <1>0, PageDoneOwners
<1>3. ASSUME NEW s \in IndexStep, p = q, s = job[j].step PROVE IsDropped(p, s)
  <2>1. j \in Owners(p, s) /\ j \notin Owners(p, s)'
    BY <1>0, <1>3, PageDoneOwners
  <2>2. /\ Owners(p, s)' = {} /\ s \in {"chunking", "embedding"}
        /\ s = "chunking" => ms[p][s] = "in_progress"
        /\ s = "embedding" => ms[p][s] # "idle"
    BY <1>0, <1>2, <2>1 DEF InOrder, IndexStep
  <2>3. ms'[p][s] = "failed"
    BY <1>0, <1>1, <1>3
  <2>4. s = "embedding" => ms[p]["chunking"] = "succeeded"
    BY <2>2 DEF InOrder
  <2> QED
    BY <2>2, <2>3, <2>4 DEF IsDropped
<1>4. ASSUME NEW s \in IndexStep, ~(p = q /\ s = job[j].step) PROVE GoesOn(p, s)
  BY <1>0, <1>1, <1>2, <1>4 DEF GoesOn
<1> QED
  BY <1>3, <1>4 DEF Moves

(* An event of p comes only from the chunking of p.                          *)
LEMMA EmittedIndexEvent ==
  ASSUME NEW p \in Page, NEW q \in Page, NEW type, IndexEvent(p) \in Emitted(q, type)
  PROVE  p = q /\ type = "chunking_succeeded"
BY DEF Emitted, IndexEvent

LEMMA SucceedsMoves ==
  ASSUME WorkInv, faults = 0, NEW p \in Page, InOrder(p), NEW j \in JobId, NEW q \in Page,
         PageSucceeds(j, q), p # q \/ job[j].step \notin IndexStep
  PROVE  Moves(p)
<1>1. /\ Working(j, q) /\ PageDone(j, q) /\ ms' = Set(ms, {q}, job[j].step, "succeeded")
      /\ events' = events \cup Emitted(q, EventName[job[j].step].succeeded)
  BY DEF PageSucceeds
<1>2. job[j].step \in {"ocr", "chunking", "embedding", "spell_check"}
  BY DEF WorkInv, TypeOK, Job, Step
<1>3. p = q => EventName[job[j].step].succeeded # "chunking_succeeded"
  BY <1>2 DEF EventName, IndexStep
<1>4. IndexEvent(p) \in events' => IndexEvent(p) \in events
  BY <1>1, <1>3, EmittedIndexEvent
<1> QED
  BY <1>1, <1>4, OutcomeMoves DEF PageStatus

LEMMA FailsMoves ==
  ASSUME WorkInv, faults = 0, NEW p \in Page, InOrder(p), NEW j \in JobId, NEW q \in Page,
         PageFails(j, q)
  PROVE  Moves(p)
<1>1. /\ Working(j, q) /\ PageDone(j, q) /\ ms' = Set(ms, {q}, job[j].step, "failed")
      /\ events' = events \cup Emitted(q, EventName[job[j].step].failed)
  BY DEF PageFails
<1>2. job[j].step \in {"ocr", "chunking", "embedding", "spell_check"}
  BY DEF WorkInv, TypeOK, Job, Step
<1>3. EventName[job[j].step].failed # "chunking_succeeded"
  BY <1>2 DEF EventName
<1>4. IndexEvent(p) \in events' => IndexEvent(p) \in events
  BY <1>1, <1>3, EmittedIndexEvent
<1> QED
  BY <1>1, <1>4, OutcomeMoves DEF PageStatus

LEMMA OcrFailsMoves ==
  ASSUME WorkInv, faults = 0, NEW p \in Page, InOrder(p), NEW j \in JobId, NEW q \in Page,
         OcrPageFails(j, q)
  PROVE  Moves(p)
<1>1. PICK v \in {"succeeded", "failed"} :
        ms' = Set(ms, {q}, "ocr", v) /\ events' = events \cup Emitted(q, EventName["ocr"][v])
  BY DEF OcrPageFails
<1>2. Working(j, q) /\ PageDone(j, q) /\ job[j].step = "ocr"
  BY DEF OcrPageFails
<1>3. EventName["ocr"][v] # "chunking_succeeded"
  BY DEF EventName
<1>4. IndexEvent(p) \in events' => IndexEvent(p) \in events
  BY <1>1, <1>3, EmittedIndexEvent
<1> QED
  BY <1>1, <1>2, <1>4, OutcomeMoves DEF PageStatus, IndexStep

(* A correction of another page.                                             *)
LEMMA ReindexedMoves ==
  ASSUME TypeOK, NEW p \in Page, NEW q \in Page, p # q,
         NEW m \in [Page -> [Step -> PageStatus]], m[p] = ms[p],
         ms' = Set(Set(m, {q}, "chunking", "idle"), {q}, "embedding", "idle"),
         IndexEvent(p) \in events' => IndexEvent(p) \in events,
         \A s \in Step : Owners(p, s)' \subseteq Owners(p, s)
  PROVE  Moves(p)
<1>1. ms'[p] = ms[p]
  BY ReindexedValues
<1> QED
  BY <1>1, IdleMoves DEF IndexStep, Step

-----------------------------------------------------------------------------
(* The steps that read or write content, for the page they do it for.        *)
(* OCR goes first.                                                           *)
OcrFirst(p) ==
  /\ Owners(p, "ocr") # {} => ms[p]["ocr"] = "in_progress"
  /\ \A s \in IndexStep : ms[p][s] # "idle" \/ Owners(p, s) # {} => ms[p]["ocr"] = "succeeded"

LEMMA TextIndexed ==
  ASSUME WorkInv, faults = 0, NEW p \in Page, InOrder(p), NEW j \in JobId, Moves(p),
         job[j].step = "ocr", Working(j, p),
         OcrFirst(p),
         \A s \in Step : Owners(p, s)' \subseteq Owners(p, s)
  PROVE  InOrder(p)'
<1>0. "ocr" \in Step /\ IndexStep \subseteq Step \ {"ocr"}
  BY DEF Step, IndexStep
<1>1. Has(job[j], p, "ocr")
  BY DEF Has, Working
<1>2. j \in Owners(p, "ocr")
  BY <1>0, <1>1, OwnersFacts
<1>3. ms[p]["ocr"] = "in_progress"
  BY <1>2 DEF OcrFirst
<1>4. \A s \in IndexStep : ms[p][s] = "idle" /\ Owners(p, s) = {}
  BY <1>3 DEF OcrFirst
<1>5. \A s \in IndexStep : Owners(p, s)' = {}
  BY <1>0, <1>4
<1>6. IndexEvent(p) \notin events'
  <2>1. IndexEvent(p) \notin events
    BY <1>4 DEF InOrder, IndexEvent, IndexStep
  <2> QED
    BY <2>1 DEF Moves
<1>7. "chunking" \in IndexStep /\ "embedding" \in IndexStep
  BY DEF IndexStep
<1>8. ms'[p]["chunking"] # "succeeded" /\ ms'[p]["embedding"] = "idle"
  BY <1>4, <1>7 DEF Moves, GoesOn, IsClaimed, IsDropped
<1> QED
  BY <1>5, <1>6, <1>7, <1>8 DEF InOrder, IndexEvent

(* Who works an index step of p, or is given it, is indexing p.              *)
LEMMA OwnersIndex ==
  ASSUME WorkInv, faults = 0, NEW p \in Page, ~BeingIndexed(p), NEW s \in IndexStep
  PROVE  Owners(p, s) = {}
<1>1. ASSUME NEW j \in JobId PROVE ~Has(job[j], p, s)
  <2>1. job[j].todo \cup job[j].taken \subseteq job[j].args
    BY DEF WorkInv, WorkIsClaimed
  <2> QED
    BY <2>1 DEF Has, BeingIndexed, IndexStep
<1> QED
  BY <1>1, OwnersFacts, OwnersAreJobs DEF IndexStep, Step

LEMMA CorrectedIndexed ==
  ASSUME WorkInv, faults = 0, NEW p \in Page, ~BeingIndexed(p),
         NEW m \in [Page -> [Step -> PageStatus]],
         ms' = Set(Set(m, {p}, "chunking", "idle"), {p}, "embedding", "idle"),
         IndexEvent(p) \in events' => IndexEvent(p) \in events,
         \A s \in Step : Owners(p, s)' \subseteq Owners(p, s)
  PROVE  InOrder(p)'
<1>1. \A s \in IndexStep : s \in Step /\ Owners(p, s)' = {}
  BY OwnersIndex DEF IndexStep, Step
<1>2. \A s \in IndexStep : ms'[p][s] = "idle"
  BY <1>1, ReindexedValues DEF IndexStep
<1>3. IndexEvent(p) \notin events'
  BY DEF BeingIndexed, IndexEvent
<1> QED
  BY <1>1, <1>2, <1>3, FreshIndexed

LEMMA LoadedIndexed ==
  ASSUME WorkInv, ContentTypeOK, faults = 0, NEW p \in Page, InOrder(p),
         NEW j \in JobId, LoadsPages(j)
  PROVE  InOrder(p)'
<1>0. /\ job \in [JobId -> Job] /\ job[j] \in Job /\ IndexStep \subseteq Step
      /\ "chunking" \in IndexStep /\ "embedding" \in IndexStep
  BY DEF WorkInv, TypeOK, IndexStep, Step
<1>1. /\ UNCHANGED <<ms, events, text, chunks, vectors>> /\ JobStep(j)
      /\ job[j].phase = "locked" /\ job'[j].step = job[j].step /\ job'[j].todo = job[j].taken
      /\ job'[j].phase = "working"
      /\ \A i \in JobId \ {j} : job'[i] = job[i]
      /\ \A i \in JobId \ {j} : copy'[i] = copy[i]
      /\ copy'[j][p] = IF job[j].step = "chunking" /\ p \in job[j].taken THEN text[p] ELSE Unread
  BY <1>0 DEF LoadsPages, JobLoad, JobStep, Job, ContentTypeOK
<1>2. \A s \in IndexStep : Owners(p, s)' \subseteq Owners(p, s)
  BY <1>0, <1>1, JobStepOwners
<1>3. ASSUME NEW i \in JobId, i \in Owners(p, "chunking")', job'[i].phase = "working"
      PROVE  copy'[i][p] = text'[p]
  <2>1. CASE i = j
    <3>1. Has(job'[j], p, "chunking")
      BY <1>0, <1>3, <2>1, OwnersFacts
    <3> QED
      BY <1>1, <2>1, <3>1 DEF Has
  <2>2. CASE i # j
    BY <1>0, <1>1, <1>2, <1>3, <2>2 DEF InOrder
  <2> QED
    BY <2>1, <2>2
<1>4. ASSUME NEW i \in JobId, i \in Owners(p, "embedding")', job'[i].phase = "working"
      PROVE  \/ copy'[i][p] \in {Unread, chunks'[p]}
             \/ copy'[i][p] = 0 /\ vectors'[p] = chunks'[p]
  <2>1. CASE i = j
    <3>1. Has(job'[j], p, "embedding")
      BY <1>0, <1>4, <2>1, OwnersFacts
    <3> QED
      BY <1>1, <2>1, <3>1 DEF Has
  <2>2. CASE i # j
    BY <1>0, <1>1, <1>2, <1>4, <2>2 DEF InOrder
  <2> QED
    BY <2>1, <2>2
<1>5. /\ \A s \in IndexStep : \A i, k \in Owners(p, s)' : i = k
      /\ Owners(p, "chunking")' # {} => ms'[p]["chunking"] = "in_progress"
      /\ Owners(p, "embedding")' # {} => ms'[p]["embedding"] \in {"in_progress", "succeeded"}
      /\ ms'[p]["chunking"] = "succeeded" => chunks'[p] = text'[p] /\ vectors'[p] \in {0, chunks'[p]}
      /\ ms'[p]["chunking"] # "succeeded" =>
           ms'[p]["embedding"] = "idle" /\ IndexEvent(p) \notin events'
      /\ ms'[p]["embedding"] = "succeeded" => vectors'[p] = chunks'[p]
  BY <1>0, <1>1, <1>2 DEF InOrder, IndexEvent
<1> QED
  BY <1>3, <1>4, <1>5, OwnersAreJobs DEF InOrder, IndexEvent

LEMMA SelectedIndexed ==
  ASSUME WorkInv, ContentTypeOK, faults = 0, NEW p \in Page, InOrder(p),
         NEW j \in JobId, NEW q \in Page, SelectsChunks(j, q)
  PROVE  InOrder(p)'
<1>1. /\ UNCHANGED <<ms, events, job, text, chunks, vectors>>
      /\ job[j].step = "embedding" /\ Working(j, q)
      /\ \A i \in JobId : i # j \/ p # q => copy'[i][p] = copy[i][p]
      /\ p = q => copy'[j][p] = IF vectors[p] = 0 THEN chunks[p] ELSE 0
  BY DEF SelectsChunks, vars, ContentTypeOK
<1>2. \A s \in Step : Owners(p, s)' = Owners(p, s)
  BY <1>1 DEF Owners
<1>3. p = q => ms[p]["chunking"] = "succeeded"
  <2>1. Has(job[j], q, "embedding")
    BY <1>1 DEF Has, Working
  <2>2. j \in Owners(q, "embedding")
    BY <2>1, OwnersFacts DEF Step
  <2> QED
    BY <2>2 DEF InOrder, IndexStep
<1>4. p = q => \/ copy'[j][p] = chunks[p]
               \/ copy'[j][p] = 0 /\ vectors[p] = chunks[p]
  BY <1>1, <1>3 DEF InOrder
<1>5. ASSUME NEW i \in Owners(p, "embedding"), job[i].phase = "working"
      PROVE  \/ copy'[i][p] \in {Unread, chunks[p]}
             \/ copy'[i][p] = 0 /\ vectors[p] = chunks[p]
  <2>1. i \in JobId
    BY OwnersAreJobs
  <2>2. \/ copy[i][p] \in {Unread, chunks[p]}
        \/ copy[i][p] = 0 /\ vectors[p] = chunks[p]
    BY <1>5 DEF InOrder
  <2> QED
    BY <1>1, <1>4, <2>1, <2>2
<1>6. ASSUME NEW i \in Owners(p, "chunking"), job[i].phase = "working"
      PROVE  copy'[i][p] = text[p]
  <2>1. i \in JobId /\ Has(job[i], p, "chunking")
    BY <1>6, OwnersAreJobs, OwnersFacts DEF Step
  <2> QED
    BY <1>1, <1>6, <2>1 DEF InOrder, Has
<1>7. "chunking" \in Step /\ "embedding" \in Step /\ IndexStep \subseteq Step
  BY DEF Step, IndexStep
<1> QED
  BY <1>1, <1>2, <1>5, <1>6, <1>7 DEF InOrder

(* The chunking job ends: the chunks are those of the present text, nothing  *)
(* is embedded yet and nobody is doing it.                                   *)
LEMMA UpsertIndexed ==
  ASSUME WorkInv, ContentTypeOK, faults = 0, NEW p \in Page, InOrder(p),
         NEW j \in JobId, UpsertsChunks(j, p)
  PROVE  InOrder(p)'
<1>0. /\ TypeOK /\ IndexStep \subseteq Step /\ "chunking" \in IndexStep /\ "embedding" \in IndexStep
      /\ ms \in [Page -> [Step -> PageStatus]]
  BY DEF IndexStep, Step, WorkInv, TypeOK
<1>1. /\ job[j].step = "chunking" /\ Working(j, p) /\ PageDone(j, p)
      /\ ms' = Set(ms, {p}, "chunking", "succeeded")
      /\ chunks'[p] = copy[j][p] /\ vectors'[p] = 0 /\ text'[p] = text[p]
  BY DEF UpsertsChunks, PageSucceeds, Kept, ContentTypeOK
<1>2. /\ \A s \in Step : Owners(p, s)' \subseteq Owners(p, s)
      /\ j \in Owners(p, "chunking") /\ j \notin Owners(p, "chunking")'
  BY <1>0, <1>1, PageDoneOwners
<1>3. /\ ms[p]["chunking"] = "in_progress" /\ ms[p]["embedding"] = "idle"
      /\ Owners(p, "chunking")' = {} /\ Owners(p, "embedding")' = {}
      /\ copy[j][p] = text[p]
  BY <1>0, <1>1, <1>2 DEF InOrder, Working
<1>4. ms'[p]["chunking"] = "succeeded" /\ ms'[p]["embedding"] = "idle"
  BY <1>0, <1>1, <1>3, SetValues
<1>5. \A s \in IndexStep : Owners(p, s)' = {}
  BY <1>3 DEF IndexStep
<1> QED
  BY <1>0, <1>1, <1>3, <1>4, <1>5 DEF InOrder

(* The embedding job ends: what it read were the chunks that are still there.*)
LEMMA VectorsIndexed ==
  ASSUME WorkInv, ContentTypeOK, faults = 0, NEW p \in Page, InOrder(p),
         NEW j \in JobId, StoresVectors(j, p)
  PROVE  InOrder(p)'
<1>0. /\ TypeOK /\ IndexStep \subseteq Step /\ "chunking" \in IndexStep /\ "embedding" \in IndexStep
      /\ ms \in [Page -> [Step -> PageStatus]]
  BY DEF IndexStep, Step, WorkInv, TypeOK
<1>1. /\ job[j].step = "embedding" /\ Working(j, p) /\ PageDone(j, p)
      /\ ms' = Set(ms, {p}, "embedding", "succeeded") /\ copy[j][p] # Unread
      /\ vectors'[p] = IF copy[j][p] = 0 THEN vectors[p] ELSE copy[j][p]
      /\ chunks'[p] = chunks[p] /\ text'[p] = text[p]
      /\ events' = events \cup Emitted(p, "embedding_succeeded")
  BY DEF StoresVectors, PageSucceeds, Kept, ContentTypeOK, EventName
<1>2. /\ \A s \in Step : Owners(p, s)' \subseteq Owners(p, s)
      /\ j \in Owners(p, "embedding") /\ j \notin Owners(p, "embedding")'
  BY <1>0, <1>1, PageDoneOwners
<1>3. /\ ms[p]["embedding"] # "idle" /\ ms[p]["chunking"] = "succeeded"
      /\ Owners(p, "chunking") = {} /\ Owners(p, "embedding")' = {}
      /\ copy[j][p] = chunks[p] \/ (copy[j][p] = 0 /\ vectors[p] = chunks[p])
  BY <1>0, <1>1, <1>2 DEF InOrder, Working
<1>4. ms'[p]["chunking"] = "succeeded" /\ ms'[p]["embedding"] = "succeeded"
  BY <1>0, <1>1, <1>3, SetValues
<1>5. \A s \in IndexStep : Owners(p, s)' = {}
  BY <1>0, <1>2, <1>3 DEF IndexStep
<1>6. vectors'[p] = chunks'[p] /\ chunks'[p] = text'[p]
  <2>1. vectors[p] \in {0, chunks[p]} /\ chunks[p] = text[p]
    BY <1>3 DEF InOrder
  <2> QED
    BY <1>1, <1>3, <2>1
<1> QED
  BY <1>0, <1>4, <1>5, <1>6 DEF InOrder

-----------------------------------------------------------------------------
(* One step of a job.                                                        *)
LEMMA PageWorkIndexed ==
  ASSUME WorkInv, ContentTypeOK, faults = 0, NEW p \in Page \ rushed', InOrder(p), OcrFirst(p),
         NEW j \in JobId, NEW q \in Page, PageWork(j, q)
  PROVE  InOrder(p)'
<1>0. TypeOK /\ job \in [JobId -> Job] /\ job[j] \in Job /\ job[j].step \in Step
      /\ ms \in [Page -> [Step -> PageStatus]] /\ p \in Page
  BY DEF WorkInv, TypeOK, Job
<1>1. CASE SelectsChunks(j, q)
  BY <1>1, SelectedIndexed
<1>2. ASSUME JobStep(j)
      PROVE  /\ \A i \in JobId : StillIndexing(i)
             /\ \A s \in Step : Owners(p, s)' \subseteq Owners(p, s)
  <2>1. ~JobLoad(j)
    BY <1>2 DEF PageWork, SelectsChunks, StoresText, UpsertsChunks, StoresVectors, PageSucceeds, OcrPageFails,
                SpellCheckRewrites, JobTryLock, PageFails, Working, JobLoad
  <2> QED
    BY <1>0, <1>2, <2>1, JobStepSplits, JobStepOwners
<1>3. CASE StoresText(j, q)
  <2>1. /\ JobStep(j) /\ job[j].step = "ocr" /\ Working(j, q)
        /\ copy' = KeptCopies /\ chunks' = chunks /\ vectors' = vectors
        /\ (p # q => text'[p] = text[p])
    BY <1>3 DEF StoresText, JobStep, Kept, PageSucceeds, OcrPageFails, NewText,
                ContentTypeOK
  <2>2. Moves(p)
    BY <1>3, SucceedsMoves, OcrFailsMoves DEF StoresText, IndexStep
  <2>3. CASE p # q
    BY <1>0, <1>2, <2>1, <2>2, <2>3, KeptIndexed
  <2>4. CASE p = q
    BY <1>2, <2>1, <2>2, <2>4, TextIndexed
  <2> QED
    BY <2>3, <2>4
<1>4. CASE UpsertsChunks(j, q)
  <2>1. CASE p = q
    BY <1>4, <2>1, UpsertIndexed
  <2>2. CASE p # q
    <3>1. /\ JobStep(j) /\ PageSucceeds(j, q) /\ copy' = KeptCopies
          /\ chunks'[p] = chunks[p] /\ vectors'[p] = vectors[p] /\ text'[p] = text[p]
      BY <1>4, <2>2 DEF UpsertsChunks, JobStep, Kept, ContentTypeOK
    <3> QED
      BY <1>0, <1>2, <2>2, <3>1, SucceedsMoves, KeptIndexed
  <2> QED
    BY <2>1, <2>2
<1>5. CASE StoresVectors(j, q)
  <2>1. CASE p = q
    BY <1>5, <2>1, VectorsIndexed
  <2>2. CASE p # q
    <3>1. /\ JobStep(j) /\ PageSucceeds(j, q) /\ copy' = KeptCopies
          /\ chunks'[p] = chunks[p] /\ vectors'[p] = vectors[p] /\ text'[p] = text[p]
      BY <1>5, <2>2 DEF StoresVectors, JobStep, Kept, ContentTypeOK
    <3> QED
      BY <1>0, <1>2, <2>2, <3>1, SucceedsMoves, KeptIndexed
  <2> QED
    BY <2>1, <2>2
<1>6. CASE SpellCheckRewrites(j, q) /\ Corrects(q)
  <2>0. PICK m : m = Set(ms, {q}, "spell_check", "succeeded")
    OBVIOUS
  <2>1. m \in [Page -> [Step -> PageStatus]] /\ (p # q => m[p] = ms[p])
    BY <1>0, <2>0, SetType DEF Set, Step, PageStatus
  <2>2. /\ JobStep(j) /\ copy' = KeptCopies
        /\ ms' = Set(Set(m, {q}, "chunking", "idle"), {q}, "embedding", "idle")
        /\ chunks' = chunks /\ vectors' = vectors /\ (p # q => text'[p] = text[p])
        /\ events' = events \cup Emitted(q, "spell_check_succeeded")
    BY <1>6, <2>0 DEF SpellCheckRewrites, JobStep, Corrects, NewText, Kept, ContentTypeOK
  <2>3. IndexEvent(p) \in events' => IndexEvent(p) \in events
    BY <2>2, EmittedIndexEvent
  <2>4. CASE p = q
    <3>1. ~BeingIndexed(p)
      BY <1>6, <2>4 DEF Corrects
    <3>2. ms' = Set(Set(m, {p}, "chunking", "idle"), {p}, "embedding", "idle")
      BY <2>2, <2>4
    <3>3. \A s \in Step : Owners(p, s)' \subseteq Owners(p, s)
      BY <1>2, <2>2
    <3> QED
      BY <2>1, <2>3, <3>1, <3>2, <3>3, CorrectedIndexed
  <2>5. CASE p # q
    <3>0. \A s \in Step : Owners(p, s)' \subseteq Owners(p, s)
      BY <1>2, <2>2
    <3>1. Moves(p)
      BY <1>0, <2>1, <2>2, <2>3, <2>5, <3>0, ReindexedMoves
    <3> QED
      BY <1>0, <1>2, <2>2, <2>5, <3>1, KeptIndexed
  <2> QED
    BY <2>4, <2>5
<1>7. CASE /\ \/ job[j].step = "spell_check" /\ PageSucceeds(j, q)
              \/ JobTryLock(j, q) \/ PageFails(j, q)
           /\ KeepsContent
  <2>1. /\ JobStep(j) /\ copy' = KeptCopies
        /\ chunks' = chunks /\ vectors' = vectors /\ text' = text
    BY <1>7 DEF JobStep, KeepsContent, Kept, PageSucceeds, JobTryLock, PageFails,
                Working, vars
  <2>2. Moves(p)
    <3>1. CASE job[j].step = "spell_check" /\ PageSucceeds(j, q)
      BY <3>1, SucceedsMoves DEF IndexStep
    <3>2. CASE PageFails(j, q)
      BY <3>2, FailsMoves
    <3>3. CASE JobTryLock(j, q)
      BY <1>2, <2>1, <3>3, IdleMoves DEF JobTryLock, IndexStep, Step
    <3> QED
      BY <1>7, <3>1, <3>2, <3>3
  <2> QED
    BY <1>0, <1>2, <2>1, <2>2, KeptIndexed
<1> QED
  BY <1>1, <1>3, <1>4, <1>5, <1>6, <1>7 DEF PageWork

(* One step of anybody.                                                      *)
LEMMA JobWorkIndexed ==
  ASSUME WorkInv, ContentTypeOK, faults = 0, NEW p \in Page \ rushed', InOrder(p), OcrFirst(p),
         NEW j \in JobId, JobWork(j)
  PROVE  InOrder(p)'
<1>0. TypeOK /\ p \in Page
  BY DEF WorkInv
<1>1. CASE LoadsPages(j)
  BY <1>1, LoadedIndexed
<1>2. CASE (PdfFails(j) \/ JobFinish(j) \/ JobRelease(j)) /\ KeepsContent
  <2>1. /\ JobStep(j) /\ copy' = KeptCopies /\ events' = events
        /\ chunks' = chunks /\ vectors' = vectors /\ text' = text
    BY <1>2 DEF JobStep, KeepsContent, Kept, PdfFails, JobFinish, JobRelease
  <2>2. \A i \in JobId : StillIndexing(i)
    <3>1. CASE PdfFails(j)
      BY <1>0, <3>1, PdfSplits
    <3>2. CASE JobFinish(j) \/ JobRelease(j)
      BY <1>0, <2>1, <3>2, JobStepSplits DEF JobLoad, JobFinish, JobRelease
    <3> QED
      BY <1>2, <3>1, <3>2
  <2>3. \A s \in IndexStep : Owners(p, s)' \subseteq Owners(p, s)
    BY <1>0, <2>1, JobStepOwners DEF IndexStep, Step
  <2>4. \A s \in IndexStep : ms'[p][s] = ms[p][s]
    <3>1. CASE PdfFails(j)
      <4>1. /\ ms \in [Page -> [Step -> PageStatus]] /\ "ocr" \in Step
            /\ IndexStep \subseteq Step /\ "ocr" \notin IndexStep
        BY <1>0 DEF TypeOK, IndexStep, Step
      <4>2. ms' = Set(ms, job[j].taken, "ocr", "failed")
        BY <3>1 DEF PdfFails
      <4> QED
        BY <1>0, <4>1, <4>2, SetValues
    <3>2. CASE JobFinish(j) \/ JobRelease(j)
      BY <3>2 DEF JobFinish, JobRelease
    <3> QED
      BY <1>2, <3>1, <3>2
  <2>5. Moves(p)
    BY <1>0, <2>1, <2>3, <2>4, IdleMoves
  <2> QED
    BY <1>0, <2>1, <2>2, <2>5, KeptIndexed
<1> QED
  BY <1>1, <1>2, PageWorkIndexed DEF JobWork

LEMMA CorrectionIndexed ==
  ASSUME WorkInv, ContentTypeOK, faults = 0, NEW p \in Page \ rushed', InOrder(p),
         NEW q \in Page, Correction(q)
  PROVE  InOrder(p)'
<1>0. TypeOK /\ p \in Page /\ ms \in [Page -> [Step -> PageStatus]]
  BY DEF WorkInv, TypeOK
<1>1. /\ UNCHANGED <<job, events>> /\ copy' = KeptCopies
      /\ chunks' = chunks /\ vectors' = vectors
  BY DEF Correction, AutoCorrectPage, AutoCorrectEnds, Corrects, KeepsContent, Kept
<1>2. /\ \A i \in JobId : StillIndexing(i)
      /\ \A s \in Step : Owners(p, s)' \subseteq Owners(p, s)
  BY <1>1 DEF StillIndexing, Indexes, Owners
<1>3. CASE AutoCorrectPage(q) /\ Corrects(q)
  <2>1. /\ ms' = Set(Set(ms, {q}, "chunking", "idle"), {q}, "embedding", "idle")
        /\ (p # q => text'[p] = text[p])
    BY <1>0, <1>3 DEF AutoCorrectPage, Corrects, NewText, ContentTypeOK
  <2>2. CASE p = q
    <3>1. ~BeingIndexed(p)
      BY <1>3, <2>2 DEF Corrects
    <3>2. ms' = Set(Set(ms, {p}, "chunking", "idle"), {p}, "embedding", "idle")
      BY <2>1, <2>2
    <3> QED
      BY <1>0, <1>1, <1>2, <3>1, <3>2, CorrectedIndexed
  <2>3. CASE p # q
    <3>1. Moves(p)
      BY <1>0, <1>1, <1>2, <2>1, <2>3, ReindexedMoves
    <3> QED
      BY <1>0, <1>1, <1>2, <2>1, <2>3, <3>1, KeptIndexed
  <2> QED
    BY <2>2, <2>3
<1>4. CASE AutoCorrectEnds(q) /\ KeepsContent
  <2>1. UNCHANGED <<ms, text>>
    BY <1>4 DEF AutoCorrectEnds, KeepsContent, Kept
  <2>2. Moves(p)
    BY <1>0, <1>1, <1>2, <2>1, IdleMoves DEF IndexStep, Step
  <2> QED
    BY <1>0, <1>1, <1>2, <2>1, <2>2, KeptIndexed
<1> QED
  BY <1>3, <1>4 DEF Correction

LEMMA StepIndexed ==
  ASSUME WorkInv, ContentTypeOK, faults = 0, faults' = 0, NEW p \in Page \ rushed',
         InOrder(p), OcrFirst(p), [ContentNext]_cvars
  PROVE  InOrder(p)'
<1>0. TypeOK /\ p \in Page
  BY DEF WorkInv
<1>1. CASE \E j \in JobId : JobWork(j)
  BY <1>1, JobWorkIndexed
<1>2. CASE (Scan \/ Fault \/ Recover) /\ KeepsContent
  <2>1. copy' = KeptCopies /\ chunks' = chunks /\ vectors' = vectors /\ text' = text
    BY <1>2 DEF KeepsContent, Kept
  <2>2. \A i \in JobId : StillIndexing(i)
    BY <1>0, <1>2, ScanSplits, FaultSplits, RecoverSplits
  <2>3. CASE Scan
    BY <1>0, <2>1, <2>2, <2>3, ScanMoves, KeptIndexed
  <2>4. CASE Recover
    BY <1>0, <2>1, <2>2, <2>4, RecoverMoves, KeptIndexed
  <2> QED
    BY <1>2, <2>3, <2>4, FaultsCount
<1>3. CASE \E q \in Page : Correction(q)
  BY <1>3, CorrectionIndexed
<1>4. CASE UNCHANGED cvars
  BY <1>4 DEF cvars, vars, content, InOrder, Owners
<1> QED
  BY <1>1, <1>2, <1>3, <1>4 DEF ContentNext

LEMMA NextIndexed ==
  ASSUME QuietInv, ContentTypeOK, IndexingInv, [ContentNext]_cvars
  PROVE  IndexingInv'
<1> SUFFICES ASSUME faults' = 0, NEW p \in Page \ rushed' PROVE InOrder(p)'
  BY DEF IndexingInv
<1>0. TypeOK /\ WorkInv /\ p \in Page
  BY DEF QuietInv, WorkInv
<1>1. faults = 0
  BY <1>0, NextIsPipelineStep, FaultsStay
<1>2. p \notin rushed
  BY DEF ContentNext, JobWork, PageWork, LoadsPages, SelectsChunks, StoresText, UpsertsChunks,
         StoresVectors, Corrects, Correction, KeepsContent, Kept, cvars, content
<1>3. InOrder(p)
  BY <1>0, <1>1, <1>2 DEF IndexingInv
<1>4. OcrFirst(p)
  BY <1>1 DEF QuietInv, OcrGoesFirst, OcrFirst, IndexStep, Step
<1> QED
  BY <1>0, <1>1, <1>3, <1>4, StepIndexed

(* While nothing crashes, the index steps of a page have one owner each and  *)
(* are done in order, on the present text, unless a correction fell between. *)
THEOREM IndexingIsInOrder == ContentSpec => []IndexingInv
<1>1. ContentInit => IndexingInv
  <2> SUFFICES ASSUME ContentInit PROVE IndexingInv
    OBVIOUS
  <2>1. Init
    BY DEF ContentInit
  <2>2. \A p \in Page, s \in IndexStep : ms[p][s] = "idle"
    BY <2>1 DEF Init, IndexStep, Step
  <2>3. \A p \in Page, s \in IndexStep : Owners(p, s) = {}
    BY <2>1, FreeIsIdle DEF Init, Owners
  <2>4. events = {}
    BY <2>1 DEF Init
  <2> QED
    BY <2>2, <2>3, <2>4 DEF IndexingInv, InOrder, IndexStep
<1>2. QuietInv /\ ContentInv /\ IndexingInv /\ [ContentNext]_cvars => IndexingInv'
  BY NextIndexed DEF ContentInv
<1> QED
  BY <1>1, <1>2, ContentRefinesPipeline, QuietInvariant, ContentInvariant, PTL DEF ContentSpec

(* A page that is marked as embedded has the vectors of its chunks, and those*)
(* are of its present text, however its steps failed and were retried and    *)
(* however often it was corrected, unless a correction came in while it was  *)
(* being indexed or a crash made something run twice (chunking_job.py,       *)
(* embedding_job.py, auto_correct_service.py:183).                           *)
THEOREM EmbeddedPagesAreCurrent == ContentSpec => []EmbeddedPageIsCurrent
<1>1. IndexingInv => EmbeddedPageIsCurrent
  BY DEF IndexingInv, InOrder, EmbeddedPageIsCurrent
<1> QED
  BY <1>1, IndexingIsInOrder, PTL

-----------------------------------------------------------------------------
(* Administrators beside the pipeline.                                       *)
(* The steps of jobs, scanners, faults and corrections are those of the      *)
(* pipeline, but for the end of a job, which is split.                       *)
LEMMA AdminPipelineStep ==
  ASSUME AdminNext
  PROVE  \/ Next /\ StillRaced
         \/ UNCHANGED vars /\ (StillRaced \/ raced' = raced)
         \/ AdminAsks \/ EditGoes \/ EditDies
         \/ \E j \in JobId : RollUpEnds(j) \/ \E b \in Book : Writes(j, b)
<1>1. ASSUME NEW j \in JobId, AdminJobWork(j)
      PROVE  \/ JobStep(j) /\ StillRaced
             \/ UNCHANGED vars /\ (StillRaced \/ raced' = raced)
             \/ RollUpEnds(j) \/ \E b \in Book : Writes(j, b)
  <2>1. ASSUME NEW p \in Page, ReadsPage(j, p) PROVE JobStep(j) /\ StillRaced
    BY <2>1 DEF ReadsPage, JobStep, Follows
  <2>2. ASSUME NEW p \in Page, PageWork(j, p), Follows
        PROVE  (JobStep(j) \/ UNCHANGED vars) /\ StillRaced
    BY <2>2 DEF PageWork, SelectsChunks, StoresText, UpsertsChunks, StoresVectors, JobStep, Follows
  <2>3. LoadsPages(j) /\ Follows => JobStep(j) /\ StillRaced
    BY DEF LoadsPages, JobStep, Follows
  <2>4. ASSUME NEW p \in Page, Pipeline(JobTryLock(j, p)) PROVE JobStep(j) /\ StillRaced
    BY <2>4 DEF Pipeline, JobStep, Follows
  <2>5. Pipeline(PdfFails(j) \/ JobRelease(j)) => JobStep(j) /\ StillRaced
    BY DEF Pipeline, JobStep, Follows
  <2>6. ASSUME NEW b \in Book, Counts(j, b) PROVE UNCHANGED vars /\ raced' = raced
    BY <2>6 DEF Counts, cvars, adminHistory
  <2> QED
    BY <1>1, <2>1, <2>2, <2>3, <2>4, <2>5, <2>6 DEF AdminJobWork
<1>2. Pipeline(Scan \/ Fault \/ Recover) => Next /\ StillRaced
  BY DEF Pipeline, Next, Follows
<1>3. ASSUME NEW p \in Page, Correction(p), Follows PROVE Next /\ StillRaced
  BY <1>3 DEF Correction, Next, AutoCorrect, Follows
<1> QED
  BY <1>1, <1>2, <1>3 DEF AdminNext, Next

-----------------------------------------------------------------------------
(* Types.                                                                    *)
LEMMA StepsFromType == ASSUME NEW from \in Step PROVE StepsFrom(from) \subseteq Step
BY DEF StepsFrom, Step

LEMMA RecheckedType ==
  ASSUME NEW m \in [Page -> [Step -> PageStatus]], NEW p
  PROVE  Rechecked(m, p) \in [Page -> [Step -> PageStatus]]
BY SetType DEF Rechecked, Step, PageStatus

LEMMA AsksType == ASSUME TypeOK, AdminAsks PROVE TypeOK'
<1>0. /\ ms \in [Page -> [Step -> PageStatus]] /\ bms \in [Book -> [Step -> BookMilestone]]
      /\ retry \in [Page -> 0 .. MaxRetries] /\ 0 \in 0 .. MaxRetries
      /\ status \in [Book -> {"pending", "ready", "error"}]
      /\ fresh \subseteq Page /\ checked \subseteq Page /\ BookOf \in [Page -> Book]
      /\ "idle" \in PageStatus /\ "succeeded" \in PageStatus /\ "idle" \in BookMilestone
      /\ {"ocr", "chunking", "embedding", "spell_check"} \subseteq Step
  BY ConstantsAssumption DEF TypeOK, PageStatus, BookMilestone, Step
<1> DEFINE Typed == /\ ms' \in [Page -> [Step -> PageStatus]] /\ bms' \in [Book -> [Step -> BookMilestone]]
                    /\ retry' \in [Page -> 0 .. MaxRetries] /\ fresh' \subseteq Page /\ checked' \subseteq Page
                    /\ status' \in [Book -> {"pending", "ready", "error"}]
<1>1. ASSUME Typed, UNCHANGED <<events, job, lock, faults, rewrites>> PROVE TypeOK'
  BY <1>1 DEF TypeOK
<1>2. ASSUME NEW b \in Book, NEW from \in Step, Reprocess(b, from) PROVE TypeOK'
  <2>1. Typed
    BY <1>0, <1>2 DEF Reprocess
  <2> QED
    BY <1>1, <1>2, <2>1 DEF Reprocess, Untouched
<1>3. ASSUME NEW b \in Book, RetryFailed(b) PROVE TypeOK'
  <2>1. bms' \in [Book -> [Step -> BookMilestone]]
    BY <1>0, <1>3, RolledType DEF RetryFailed, Recounted
  <2>2. Typed
    BY <1>0, <1>3, <2>1 DEF RetryFailed
  <2> QED
    BY <1>1, <1>3, <2>2 DEF RetryFailed, Untouched
<1>4. ASSUME NEW b \in Book, Publish(b) PROVE TypeOK'
  BY <1>0, <1>1, <1>4 DEF Publish, Untouched
<1>5. ASSUME NEW B \in SUBSET Book, BulkReset(B) PROVE TypeOK'
  <2>1. Typed
    BY <1>0, <1>5 DEF BulkReset
  <2> QED
    BY <1>1, <1>5, <2>1 DEF BulkReset, Untouched
<1>6. ASSUME NEW p \in Page, ResetPage(p) PROVE TypeOK'
  <2>1. bms' \in [Book -> [Step -> BookMilestone]]
    BY <1>0, <1>6, RolledType DEF ResetPage, Recounted
  <2>2. Typed
    BY <1>0, <1>6, <2>1 DEF ResetPage
  <2> QED
    BY <1>1, <1>6, <2>2 DEF ResetPage, Untouched
<1>7. ASSUME NEW p \in Page, EditText(p) PROVE TypeOK'
  <2>1. PICK m : m = Set(ms, {p}, "chunking", "succeeded")
    OBVIOUS
  <2>2. PICK n : n = Set(m, {p}, "embedding", "idle")
    OBVIOUS
  <2>3. m \in [Page -> [Step -> PageStatus]]
    BY <1>0, <2>1, SetType
  <2>4. n \in [Page -> [Step -> PageStatus]]
    BY <1>0, <2>2, <2>3, SetType
  <2>5. ms' = Rechecked(n, p)
    BY <1>7, <2>1, <2>2 DEF EditText
  <2>6. ms' \in [Page -> [Step -> PageStatus]]
    BY <2>4, <2>5, RecheckedType
  <2>7. Typed
    BY <1>0, <1>7, <2>6 DEF EditText
  <2> QED
    BY <1>1, <1>7, <2>7 DEF EditText, Untouched
<1>8. ASSUME NEW p \in Page, EditEmpty(p) PROVE TypeOK'
  <2>1. Set(ms, {p}, "embedding", "succeeded") \in [Page -> [Step -> PageStatus]]
    BY <1>0, SetType
  <2>2. ms' \in [Page -> [Step -> PageStatus]]
    BY <1>8, <2>1, RecheckedType DEF EditEmpty
  <2>3. Typed
    BY <1>0, <1>8, <2>2 DEF EditEmpty
  <2> QED
    BY <1>1, <1>8, <2>3 DEF EditEmpty, Untouched
<1>9. ASSUME NEW p \in Page, PutText(p) PROVE TypeOK'
  <2>1. ms' \in [Page -> [Step -> PageStatus]]
    BY <1>0, <1>9, RecheckedType DEF PutText
  <2>2. Typed
    BY <1>0, <1>9, <2>1 DEF PutText
  <2> QED
    BY <1>1, <1>9, <2>2 DEF PutText, Untouched
<1>10. ASSUME NEW p \in Page, MarkToc(p) PROVE TypeOK'
  BY <1>0, <1>1, <1>10 DEF MarkToc, Untouched
<1> QED
  BY <1>2, <1>3, <1>4, <1>5, <1>6, <1>7, <1>8, <1>9, <1>10 DEF AdminAsks

LEMMA EditType == ASSUME TypeOK, EditGoes \/ EditDies PROVE TypeOK'
<1>0. /\ ms \in [Page -> [Step -> PageStatus]] /\ bms \in [Book -> [Step -> BookMilestone]]
      /\ "succeeded" \in PageStatus /\ "embedding" \in Step
  BY DEF TypeOK, PageStatus, Step
<1>1. CASE EditEmbeds
  <2>1. ms' \in [Page -> [Step -> PageStatus]]
    BY <1>0, <1>1, SetType DEF EditEmbeds
  <2> QED
    BY <1>1, <2>1 DEF EditEmbeds, Untouched, TypeOK
<1>2. CASE EditRolls
  <2>1. bms' \in [Book -> [Step -> BookMilestone]]
    BY <1>0, <1>2, RolledType DEF EditRolls
  <2> QED
    BY <1>2, <2>1 DEF EditRolls, Untouched, TypeOK
<1>3. CASE EditFails \/ EditDies
  BY <1>3 DEF EditFails, EditDies, Untouched, TypeOK
<1> QED
  BY <1>1, <1>2, <1>3 DEF EditGoes

LEMMA AdminType == ASSUME TypeOK, [AdminNext]_avars PROVE TypeOK'
<1>1. CASE UNCHANGED vars
  BY <1>1 DEF vars, TypeOK
<1>2. CASE Next
  BY <1>2, NextType
<1>3. ASSUME NEW j \in JobId, RollUpEnds(j) PROVE TypeOK'
  <2>1. job \in [JobId -> Job] /\ job' = [job EXCEPT ![j].phase = "releasing"] /\ "releasing" \in Phase
    BY <1>3 DEF RollUpEnds, TypeOK, Phase
  <2>2. [job[j] EXCEPT !.phase = "releasing"] \in Job
    BY <2>1 DEF Job
  <2>3. job' \in [JobId -> Job]
    BY <2>1, <2>2
  <2> QED
    BY <1>3, <2>3 DEF RollUpEnds, TypeOK
<1>4. ASSUME NEW j \in JobId, NEW b \in Book, Writes(j, b) PROVE TypeOK'
  <2>1. bms' \in [Book -> [Step -> BookMilestone]]
    BY <1>4 DEF Writes, TypeOK
  <2> QED
    BY <1>4, <2>1 DEF Writes, TypeOK
<1> QED
  BY <1>1, <1>2, <1>3, <1>4, AsksType, EditType, AdminPipelineStep DEF avars, cvars

-----------------------------------------------------------------------------
(* The OCR milestone of a book that was not given one out of date.           *)
Honest(b) == /\ bms[b]["ocr"] # "failed"
             /\ bms[b]["ocr"] = "complete" => \A p \in PagesOf(b) : ms[p]["ocr"] = "succeeded"
HonestBooks ==
  "ocr" \notin FailableStep =>
    /\ \A p \in Page : ms[p]["ocr"] # "failed"
    /\ \A b \in Book \ raced : Honest(b)

LEMMA CountIsHonest ==
  ASSUME \A p \in Page : ms'[p]["ocr"] # "failed", NEW b \in Book,
         bms'[b]["ocr"] = OcrCount(ms', b)
  PROVE  Honest(b)'
<1> DEFINE m == [p \in Page |-> ms'[p]["ocr"]]
<1>1. PagesOf(b) \subseteq Page
  BY DEF PagesOf
<1>2. \A p \in PagesOf(b) : m[p] = ms'[p]["ocr"] /\ m[p] # "failed"
  BY <1>1
<1>3. IsFiniteSet(PagesOf(b))
  BY <1>1, FiniteAssumption, FS_Subset
<1>4. bms'[b]["ocr"] = RollUp(m, PagesOf(b))
  BY DEF OcrCount
<1> HIDE DEF m
<1>5. /\ RollUp(m, PagesOf(b)) = "complete" => \A p \in PagesOf(b) : m[p] = "succeeded"
      /\ RollUp(m, PagesOf(b)) = "failed" => PagesOf(b) # {} /\ \A p \in PagesOf(b) : m[p] = "failed"
  BY <1>3, CompleteMeansAllSucceeded, FailedMeansAllFailed
<1> QED
  BY <1>2, <1>4, <1>5 DEF Honest, PagesOf

(* A step leaves the milestone of a book and its pages alone, counts it, or  *)
(* sets it to idle.                                                          *)
Settles(b) ==
  \/ bms'[b]["ocr"] = OcrCount(ms', b)
  \/ bms'[b]["ocr"] = "idle"
  \/ /\ bms'[b]["ocr"] = bms[b]["ocr"]
     /\ \A p \in PagesOf(b) : ms[p]["ocr"] = "succeeded" => ms'[p]["ocr"] = "succeeded"
NoneFails == \A p \in Page : ms[p]["ocr"] # "failed" => ms'[p]["ocr"] # "failed"

LEMMA HonestStays ==
  ASSUME HonestBooks, StillRaced,
         HonestBooks /\ "ocr" \notin FailableStep => NoneFails /\ \A b \in Book : Settles(b)
  PROVE  HonestBooks'
<1> SUFFICES ASSUME "ocr" \notin FailableStep
             PROVE  /\ \A p \in Page : ms'[p]["ocr"] # "failed"
                    /\ \A b \in Book \ raced' : Honest(b)'
  BY DEF HonestBooks
<1>1. \A p \in Page : ms'[p]["ocr"] # "failed"
  BY DEF HonestBooks, NoneFails
<1>2. ASSUME NEW b \in Book \ raced' PROVE Honest(b)'
  <2>1. CASE bms'[b]["ocr"] = OcrCount(ms', b)
    BY <1>1, <2>1, CountIsHonest
  <2>2. CASE bms'[b]["ocr"] # OcrCount(ms', b)
    <3>1. b \notin raced
      BY <2>2, <1>2 DEF StillRaced
    <3>2. Honest(b)
      BY <3>1 DEF HonestBooks
    <3>3. Settles(b)
      OBVIOUS
    <3> QED
      BY <2>2, <3>2, <3>3 DEF Honest, Settles, PagesOf
  <2> QED
    BY <2>1, <2>2
<1> QED
  BY <1>1, <1>2

LEMMA RolledSettles ==
  ASSUME TypeOK, NEW B, NEW S, bms' = Rolled(bms, ms', B, S),
         \A p \in Page : BookOf[p] \notin B \/ "ocr" \notin S =>
           (ms[p]["ocr"] = "succeeded" => ms'[p]["ocr"] = "succeeded")
  PROVE  \A b \in Book : Settles(b)
<1> SUFFICES ASSUME NEW b \in Book PROVE Settles(b)
  OBVIOUS
<1>1. "ocr" \in Step /\ bms \in [Book -> [Step -> BookMilestone]]
  BY DEF Step, TypeOK
<1>2. CASE b \in B /\ "ocr" \in S
  BY <1>1, <1>2 DEF Rolled, Settles, OcrCount
<1>3. CASE ~(b \in B /\ "ocr" \in S)
  BY <1>1, <1>3 DEF Rolled, Settles, PagesOf
<1> QED
  BY <1>2, <1>3

LEMMA SetKeepsOcr ==
  ASSUME NEW m \in [Page -> [Step -> PageStatus]], NEW P, NEW s \in Step \ {"ocr"}, NEW v \in PageStatus
  PROVE  /\ Set(m, P, s, v) \in [Page -> [Step -> PageStatus]]
         /\ \A q \in Page : Set(m, P, s, v)[q]["ocr"] = m[q]["ocr"]
<1>1. \A q \in Page : Set(m, P, s, v)[q]["ocr"] = m[q]["ocr"]
  BY SetOcr
<1> QED
  BY <1>1, SetType

LEMMA RecheckedOcr ==
  ASSUME NEW m \in [Page -> [Step -> PageStatus]], NEW p, NEW q \in Page
  PROVE  Rechecked(m, p)[q]["ocr"] = m[q]["ocr"]
<1>0. "spell_check" \in Step \ {"ocr"} /\ "idle" \in PageStatus
  BY DEF Step, PageStatus
<1>1. Set(m, {p}, "spell_check", "idle")[q]["ocr"] = m[q]["ocr"]
  BY <1>0, SetKeepsOcr
<1> QED
  BY <1>1 DEF Rechecked

LEMMA AsksHonest == ASSUME TypeOK, HonestBooks, AdminAsks PROVE HonestBooks'
<1>0. /\ ms \in [Page -> [Step -> PageStatus]] /\ bms \in [Book -> [Step -> BookMilestone]]
      /\ "idle" \in PageStatus /\ "succeeded" \in PageStatus /\ BookOf \in [Page -> Book]
      /\ "ocr" \in Step /\ "chunking" \in Step \ {"ocr"} /\ "embedding" \in Step \ {"ocr"}
  BY ConstantsAssumption DEF TypeOK, PageStatus, Step
<1>a. ASSUME NEW P, NEW s \in {"chunking", "embedding"}, NEW q \in Page
      PROVE  Set(ms, P, s, "succeeded")[q]["ocr"] = ms[q]["ocr"]
  <2>1. ms \in [Page -> [Step -> PageStatus]] /\ "succeeded" \in PageStatus /\ s \in Step \ {"ocr"}
    BY <1>0
  <2> QED
    BY <2>1, SetKeepsOcr
<1>1. ASSUME UNCHANGED bms, StillRaced, \A p \in Page : ms'[p]["ocr"] = ms[p]["ocr"] PROVE HonestBooks'
  <2>1. NoneFails /\ \A b \in Book : Settles(b)
    BY <1>1 DEF NoneFails, Settles, PagesOf
  <2> QED
    BY <1>1, <2>1, HonestStays
<1>2. ASSUME NEW b \in Book, NEW from \in Step, Reprocess(b, from) PROVE HonestBooks'
  <2>1. \A p \in Page : ms'[p]["ocr"] = IF p \in PagesOf(b) /\ "ocr" \in StepsFrom(from) THEN "idle" ELSE ms[p]["ocr"]
    BY <1>0, <1>2 DEF Reprocess
  <2>2. \A k \in Book : bms'[k]["ocr"] = IF k = b /\ "ocr" \in StepsFrom(from) THEN "idle" ELSE bms[k]["ocr"]
    BY <1>0, <1>2 DEF Reprocess
  <2>3. NoneFails /\ \A k \in Book : Settles(k)
    BY <2>1, <2>2 DEF NoneFails, Settles, PagesOf
  <2> QED
    BY <1>2, <2>3, HonestStays DEF Reprocess, Untouched
<1>3. ASSUME NEW b \in Book, RetryFailed(b) PROVE HonestBooks'
  <2>1. bms' = Rolled(bms, ms', {b}, Step)
    BY <1>3 DEF RetryFailed, Recounted
  <2>2. \A p \in Page : /\ ms'[p]["ocr"] \in {"idle", ms[p]["ocr"]}
                        /\ BookOf[p] # b => ms'[p]["ocr"] = ms[p]["ocr"]
    BY <1>0, <1>3 DEF RetryFailed, PagesOf
  <2>3. \A k \in Book : Settles(k)
    BY <1>0, <2>1, <2>2, RolledSettles
  <2>4. NoneFails
    BY <2>2 DEF NoneFails
  <2> QED
    BY <1>3, <2>3, <2>4, HonestStays DEF RetryFailed, Untouched
<1>4. ASSUME NEW b \in Book, Publish(b) PROVE HonestBooks'
  BY <1>1, <1>4 DEF Publish, Untouched
<1>5. ASSUME NEW B \in SUBSET Book, BulkReset(B) PROVE HonestBooks'
  <2>1. \A p \in Page : ms'[p]["ocr"] = IF BookOf[p] \in B THEN "idle" ELSE ms[p]["ocr"]
    BY <1>0, <1>5 DEF BulkReset
  <2>2. \A k \in Book : bms'[k]["ocr"] = IF k \in B THEN "idle" ELSE bms[k]["ocr"]
    BY <1>0, <1>5 DEF BulkReset
  <2>3. NoneFails /\ \A k \in Book : Settles(k)
    BY <2>1, <2>2 DEF NoneFails, Settles, PagesOf
  <2> QED
    BY <1>5, <2>3, HonestStays DEF BulkReset, Untouched
<1>6. ASSUME NEW p \in Page, ResetPage(p) PROVE HonestBooks'
  <2>1. bms' = Rolled(bms, ms', {BookOf[p]}, Step)
    BY <1>6 DEF ResetPage, Recounted
  <2>2. \A q \in Page : ms'[q]["ocr"] = IF q = p THEN "idle" ELSE ms[q]["ocr"]
    BY <1>0, <1>6 DEF ResetPage
  <2>3. \A k \in Book : Settles(k)
    <3>1. \A q \in Page : BookOf[q] \notin {BookOf[p]} \/ "ocr" \notin Step =>
            (ms[q]["ocr"] = "succeeded" => ms'[q]["ocr"] = "succeeded")
      BY <1>0, <2>2
    <3> QED
      BY <2>1, <3>1, RolledSettles
  <2>4. NoneFails
    BY <2>2 DEF NoneFails
  <2> QED
    BY <1>6, <2>3, <2>4, HonestStays DEF ResetPage, Untouched
<1>7. ASSUME NEW p \in Page, EditText(p) PROVE HonestBooks'
  <2>1. PICK m : m = Set(ms, {p}, "chunking", "succeeded")
    OBVIOUS
  <2>2. PICK n : n = Set(m, {p}, "embedding", "idle")
    OBVIOUS
  <2>3. m \in [Page -> [Step -> PageStatus]] /\ \A q \in Page : m[q]["ocr"] = ms[q]["ocr"]
    <3>1. PICK P : P = {p}
      OBVIOUS
    <3>2. Set(ms, P, "chunking", "succeeded") \in [Page -> [Step -> PageStatus]]
      BY <1>0, SetKeepsOcr
    <3>3. \A q \in Page : Set(ms, P, "chunking", "succeeded")[q]["ocr"] = ms[q]["ocr"]
      BY <1>a
    <3> QED
      BY <3>1, <3>2, <3>3, <2>1
  <2>4. n \in [Page -> [Step -> PageStatus]] /\ \A q \in Page : n[q]["ocr"] = m[q]["ocr"]
    <3>1. PICK P : P = {p}
      OBVIOUS
    <3>2. Set(m, P, "embedding", "idle") \in [Page -> [Step -> PageStatus]]
      BY <1>0, <2>3, SetKeepsOcr
    <3>3. \A q \in Page : Set(m, P, "embedding", "idle")[q]["ocr"] = m[q]["ocr"]
      BY <1>0, <2>3, SetKeepsOcr
    <3> QED
      BY <3>1, <3>2, <3>3, <2>2
  <2>5. ms' = Rechecked(n, p)
    BY <1>7, <2>1, <2>2 DEF EditText
  <2>6. \A q \in Page : ms'[q]["ocr"] = ms[q]["ocr"]
    BY <2>3, <2>4, <2>5, RecheckedOcr
  <2> QED
    BY <1>1, <1>7, <2>6 DEF EditText, Untouched
<1>8. ASSUME NEW p \in Page, EditEmpty(p) PROVE HonestBooks'
  <2>1. PICK m : m = Set(ms, {p}, "embedding", "succeeded")
    OBVIOUS
  <2>2. m \in [Page -> [Step -> PageStatus]] /\ \A q \in Page : m[q]["ocr"] = ms[q]["ocr"]
    <3>1. PICK P : P = {p}
      OBVIOUS
    <3>2. Set(ms, P, "embedding", "succeeded") \in [Page -> [Step -> PageStatus]]
      BY <1>0, SetKeepsOcr
    <3>3. \A q \in Page : Set(ms, P, "embedding", "succeeded")[q]["ocr"] = ms[q]["ocr"]
      BY <1>a
    <3> QED
      BY <3>1, <3>2, <3>3, <2>1
  <2>3. \A q \in Page : ms'[q]["ocr"] = ms[q]["ocr"]
    BY <1>8, <2>1, <2>2, RecheckedOcr DEF EditEmpty
  <2> QED
    BY <1>1, <1>8, <2>3 DEF EditEmpty, Untouched
<1>9. ASSUME NEW p \in Page, PutText(p) PROVE HonestBooks'
  <2>1. \A q \in Page : ms'[q]["ocr"] = ms[q]["ocr"]
    BY <1>0, <1>9, RecheckedOcr DEF PutText
  <2> QED
    BY <1>1, <1>9, <2>1 DEF PutText, Untouched
<1>10. ASSUME NEW p \in Page, MarkToc(p) PROVE HonestBooks'
  BY <1>1, <1>10 DEF MarkToc, Untouched
<1> QED
  BY <1>2, <1>3, <1>4, <1>5, <1>6, <1>7, <1>8, <1>9, <1>10 DEF AdminAsks

LEMMA EditHonest == ASSUME TypeOK, HonestBooks, EditGoes \/ EditDies PROVE HonestBooks'
<1>0. ms \in [Page -> [Step -> PageStatus]] /\ "succeeded" \in PageStatus /\ "embedding" \in Step
  BY DEF TypeOK, PageStatus, Step
<1>1. CASE EditEmbeds
  <2>1. \A q \in Page : ms'[q]["ocr"] = ms[q]["ocr"]
    BY <1>0, <1>1, SetOcr DEF EditEmbeds
  <2>2. NoneFails /\ \A b \in Book : Settles(b)
    BY <1>1, <2>1 DEF NoneFails, Settles, PagesOf, EditEmbeds
  <2> QED
    BY <1>1, <2>2, HonestStays DEF EditEmbeds, Untouched
<1>2. CASE EditRolls
  <2>1. bms' = Rolled(bms, ms', BooksOf(edit.page), Step) /\ UNCHANGED ms
    BY <1>2 DEF EditRolls
  <2>2. NoneFails /\ \A b \in Book : Settles(b)
    BY <2>1, RolledSettles DEF NoneFails
  <2> QED
    BY <1>2, <2>2, HonestStays DEF EditRolls, Untouched
<1>3. CASE EditFails \/ EditDies
  <2>1. NoneFails /\ \A b \in Book : Settles(b)
    BY <1>3 DEF EditFails, EditDies, NoneFails, Settles
  <2> QED
    BY <1>3, <2>1, HonestStays DEF EditFails, EditDies, Untouched
<1> QED
  BY <1>1, <1>2, <1>3 DEF EditGoes

LEMMA NextHonest == ASSUME TypeOK, HonestBooks, Next, StillRaced PROVE HonestBooks'
<1>1. NoOcrFails
  BY DEF NoOcrFails, HonestBooks
<1>2. OcrStays
  <2>1. CASE Fault
    <3>1. UNCHANGED <<ms, bms>>
      BY <2>1 DEF Fault, JobRaises, JobCancelled, GiveUp, WorkerCrash, JobLockError
    <3> QED
      BY <1>1, <3>1 DEF OcrStays, PagesKept, BooksKept, NoOcrFails
  <2> QED
    BY <1>1, <2>1, ScanOcr, JobStepOcr, RecoverOcr, AutoCorrectOcr DEF Next
<1>3. "ocr" \notin FailableStep => NoneFails /\ \A b \in Book : Settles(b)
  BY <1>2 DEF OcrStays, PagesKept, BooksKept, NoneFails, Settles, OcrCount, PagesOf
<1> QED
  BY <1>3, HonestStays

LEMMA WritesHonest ==
  ASSUME TypeOK, HonestBooks, NEW j \in JobId, NEW b \in Book, Writes(j, b) PROVE HonestBooks'
<1>1. UNCHANGED ms /\ bms' = [bms EXCEPT ![b][job[j].step] = tally[j][b]]
  BY DEF Writes
<1>2. bms \in [Book -> [Step -> BookMilestone]] /\ job[j].step \in Step /\ "ocr" \in Step
  BY DEF TypeOK, Job, Step
<1>3. \A k \in Book : k # b \/ job[j].step # "ocr" => bms'[k]["ocr"] = bms[k]["ocr"]
  BY <1>1, <1>2
<1>4. CASE job[j].step # "ocr"
  BY <1>1, <1>3, <1>4 DEF Writes, HonestBooks, Honest, PagesOf
<1>5. CASE job[j].step = "ocr"
  <2>1. bms'[b]["ocr"] = tally[j][b]
    BY <1>1, <1>2, <1>5
  <2>2. OcrCount(ms', b) = RollUp([p \in Page |-> ms[p][job[j].step]], PagesOf(b))
    BY <1>1, <1>5 DEF OcrCount
  <2>3. raced' = IF tally[j][b] # OcrCount(ms', b) THEN raced \cup {b} ELSE raced \ {b}
    BY <1>5, <2>2 DEF Writes
  <2>4. ASSUME "ocr" \notin FailableStep, NEW k \in Book \ raced' PROVE Honest(k)'
    <3>1. \A p \in Page : ms'[p]["ocr"] # "failed"
      BY <1>1, <2>4 DEF HonestBooks
    <3>2. CASE k = b
      <4>1. bms'[b]["ocr"] = OcrCount(ms', b)
        BY <2>1, <2>3, <2>4, <3>2
      <4> QED
        BY <3>1, <3>2, <4>1, CountIsHonest
    <3>3. CASE k # b
      <4>1. Honest(k)
        BY <2>3, <2>4, <3>3 DEF HonestBooks
      <4> QED
        BY <1>1, <1>3, <3>3, <4>1 DEF Honest, PagesOf
    <3> QED
      BY <3>2, <3>3
  <2> QED
    BY <1>1, <2>4 DEF HonestBooks
<1> QED
  BY <1>4, <1>5

LEMMA AdminHonest == ASSUME TypeOK, HonestBooks, [AdminNext]_avars PROVE HonestBooks'
<1>1. ASSUME UNCHANGED <<ms, bms>>, StillRaced \/ raced' = raced PROVE HonestBooks'
  <2>1. NoneFails /\ \A b \in Book : Settles(b)
    BY <1>1 DEF NoneFails, Settles
  <2>2. CASE StillRaced
    BY <2>1, <2>2, HonestStays
  <2>3. CASE raced' = raced
    BY <1>1, <2>3 DEF HonestBooks, Honest, PagesOf
  <2> QED
    BY <1>1, <2>2, <2>3
<1>2. ASSUME NEW j \in JobId, RollUpEnds(j) PROVE HonestBooks'
  BY <1>1, <1>2 DEF RollUpEnds, Follows
<1> QED
  BY <1>1, <1>2, AsksHonest, EditHonest, NextHonest, WritesHonest, AdminPipelineStep
  DEF avars, cvars, vars, adminHistory

(* A page sent back to OCR is seen by its scanner, whichever request sent it *)
(* back and whatever job was at work, unless the book was given a milestone  *)
(* that was out of date when it was written (books_router.py:2568).          *)
THEOREM ResetPagesAreSeen == AdminSpec => []ResetPageIsSeen
<1>1. AdminInit => TypeOK /\ HonestBooks
  <2> SUFFICES ASSUME AdminInit PROVE TypeOK /\ HonestBooks
    OBVIOUS
  <2>1. Init
    BY DEF AdminInit, ContentInit
  <2>2. PICK Docx \in SUBSET Book :
          /\ ms = [p \in Page |-> [s \in Step |->
                     IF s = "ocr" /\ BookOf[p] \in Docx THEN "succeeded" ELSE "idle"]]
          /\ bms = [b \in Book |-> [s \in Step |->
                     IF s = "ocr" /\ b \in Docx THEN "complete" ELSE "idle"]]
    BY <2>1 DEF Init
  <2>3. HonestBooks
    BY <2>2 DEF HonestBooks, Honest, PagesOf, Step
  <2> QED
    BY <2>1, <2>3, InitType
<1>2. TypeOK /\ HonestBooks /\ [AdminNext]_avars => (TypeOK /\ HonestBooks)'
  BY AdminType, AdminHonest
<1>3. TypeOK /\ HonestBooks => ResetPageIsSeen
  <2> SUFFICES ASSUME TypeOK, HonestBooks, "ocr" \notin FailableStep, NEW p \in Page,
                      ms[p]["ocr"] = "idle", BookOf[p] \notin raced
               PROVE  bms[BookOf[p]]["ocr"] \in OcrScannable
    BY DEF ResetPageIsSeen
  <2>1. BookOf[p] \in Book /\ p \in PagesOf(BookOf[p]) /\ "ocr" \in Step
    BY ConstantsAssumption DEF PagesOf, Step
  <2>2. Honest(BookOf[p]) /\ bms[BookOf[p]]["ocr"] \in BookMilestone
    BY <2>1 DEF HonestBooks, TypeOK
  <2> QED
    BY <2>1, <2>2 DEF Honest, BookMilestone, OcrScannable
<1> QED
  BY <1>1, <1>2, <1>3, PTL DEF AdminSpec

-----------------------------------------------------------------------------
(* The index under requests: jobs work what they were given, whatever is     *)
(* asked for meanwhile.                                                      *)
Obeys(r) == /\ r.phase # "dead"
            /\ r.todo \cup r.taken \subseteq r.args
            /\ r.phase = "locked" => r.todo = {}

LEMMA ObeysAll ==
  /\ WorkIsClaimed <=> (faults = 0 => \A j \in JobId : Obeys(job[j]))
  /\ WorkIsClaimed' <=> (faults' = 0 => \A j \in JobId : Obeys(job'[j]))
BY DEF WorkIsClaimed, Obeys

LEMMA ScanObeys ==
  ASSUME TypeOK, Scan, NEW i \in JobId, Obeys(job[i]) PROVE Obeys(job'[i])
<1>0. \A s, P : Obeys(Queued(s, P))
  BY DEF Queued, FreeJob, Obeys
<1>1. ASSUME NEW P, NEW s, Claim(P, s) PROVE Obeys(job'[i])
  BY <1>0, <1>1 DEF Claim, TypeOK
<1>2. ASSUME NEW E, Dispatch(E) PROVE Obeys(job'[i])
  BY <1>0, <1>2 DEF Dispatch, TypeOK
<1> QED
  BY <1>1, <1>2 DEF Scan, OcrScan, ChunkingScan, EmbeddingScan, SpellCheckScan, EventDispatcher

LEMMA PageDoneFields ==
  ASSUME TypeOK, NEW j \in JobId, NEW q \in Page, PageDone(j, q)
  PROVE  /\ \A i \in JobId \ {j} : job'[i] = job[i]
         /\ job'[j].phase = job[j].phase /\ job'[j].step = job[j].step
         /\ job'[j].args = job[j].args /\ job'[j].taken = job[j].taken
         /\ job'[j].todo = job[j].todo \ {q}
<1>0. job \in [JobId -> Job] /\ job[j] \in Job
  BY DEF TypeOK
<1>1. job'[j] = [job[j] EXCEPT !.todo = @ \ {q}] /\ \A i \in JobId \ {j} : job'[i] = job[i]
  BY <1>0 DEF PageDone
<1> QED
  BY <1>0, <1>1 DEF Job

LEMMA PhaseFields ==
  ASSUME TypeOK, NEW j \in JobId, NEW f, job' = [job EXCEPT ![j].phase = f]
  PROVE  /\ \A i \in JobId \ {j} : job'[i] = job[i]
         /\ job'[j].phase = f /\ job'[j].step = job[j].step
         /\ job'[j].args = job[j].args /\ job'[j].taken = job[j].taken
         /\ job'[j].todo = job[j].todo
<1>0. job \in [JobId -> Job] /\ job[j] \in Job
  BY DEF TypeOK
<1>1. job'[j] = [job[j] EXCEPT !.phase = f] /\ \A i \in JobId \ {j} : job'[i] = job[i]
  BY <1>0
<1> QED
  BY <1>0, <1>1 DEF Job

LEMMA JobStepObeys ==
  ASSUME TypeOK, NEW j \in JobId, JobStep(j), NEW i \in JobId, Obeys(job[j]), Obeys(job[i])
  PROVE  Obeys(job'[i])
<1>0. /\ job[j] \in Job /\ job[j].taken \in SUBSET Page
      /\ job[j].todo \in SUBSET Page /\ job \in [JobId -> Job]
  BY DEF TypeOK, Job
<1>1. ASSUME NEW q \in Page, JobTryLock(j, q) PROVE Obeys(job'[i])
  <2>1. PICK taken \in {job[j].taken, job[j].taken \cup {q}} :
          job' = [job EXCEPT ![j] = Tried(job[j], taken, job[j].todo \ {q})]
    BY <1>1 DEF JobTryLock
  <2> DEFINE todo == job[j].todo \ {q}
             r == Tried(job[j], taken, todo)
  <2>2. job[j].phase = "queued" /\ q \in job[j].todo
    BY <1>1 DEF JobTryLock
  <2>3. \/ r = FreeJob
        \/ /\ r.phase \in {"queued", "locked"} /\ r.args = job[j].args
           /\ r.todo = todo /\ r.taken = taken /\ (r.phase = "locked" => todo = {})
    <3>1. todo \in SUBSET Page /\ taken \in SUBSET Page
      BY <1>0
    <3> HIDE DEF todo
    <3> QED
      BY <1>0, <2>2, <3>1, TriedIs
  <2>4. Obeys(r)
    <3>1. CASE r = FreeJob
      BY <3>1, FreeIsIdle DEF Obeys
    <3>2. CASE r # FreeJob
      BY <2>2, <2>3, <3>2 DEF Obeys
    <3> QED
      BY <3>1, <3>2
  <2>5. job'[j] = r /\ \A k \in JobId \ {j} : job'[k] = job[k]
    BY <1>0, <2>1
  <2> HIDE DEF r
  <2> QED
    BY <2>4, <2>5
<1>2. CASE JobLoad(j)
  <2>1. /\ job'[j].phase = "working" /\ job'[j].todo = job[j].taken
        /\ job'[j].taken = job[j].taken /\ job'[j].args = job[j].args
        /\ \A k \in JobId \ {j} : job'[k] = job[k]
    BY <1>0, <1>2 DEF JobLoad, Job
  <2> QED
    BY <2>1 DEF Obeys
<1>3. ASSUME NEW q \in Page, Working(j, q), PageDone(j, q) PROVE Obeys(job'[i])
  BY <1>3, PageDoneFields DEF Obeys, Working
<1>4. ASSUME NEW f \in {"working", "releasing"}, job' = [job EXCEPT ![j].phase = f]
      PROVE  Obeys(job'[i])
  BY <1>4, PhaseFields DEF Obeys
<1>5. CASE JobRelease(j)
  <2>1. job'[j] = FreeJob /\ \A k \in JobId \ {j} : job'[k] = job[k]
    BY <1>0, <1>5 DEF JobRelease
  <2> QED
    BY <2>1, FreeIsIdle DEF Obeys
<1> QED
  BY <1>1, <1>2, <1>3, <1>4, <1>5
  DEF JobStep, PageSucceeds, SpellCheckRewrites, OcrPageFails, PageFails, PdfFails, JobFinish

LEMMA NextWork == ASSUME WorkInv, [Next]_vars PROVE WorkIsClaimed'
<1> SUFFICES ASSUME faults' = 0, NEW i \in JobId PROVE Obeys(job'[i])
  BY ObeysAll
<1>0. TypeOK /\ faults = 0 /\ \A j \in JobId : Obeys(job[j])
  BY ObeysAll, FaultsStay DEF WorkInv
<1>1. CASE Recover
  <2>1. ASSUME NEW j \in JobId, Redeliver(j) PROVE FALSE
    BY <1>0, <2>1 DEF Redeliver, Obeys
  <2>2. UNCHANGED job
    BY <1>1, <2>1 DEF Recover, LockExpires, StaleWatchdog, Watchdog, PipelineDriver
  <2> QED
    BY <1>0, <2>2
<1>2. CASE \E p \in Page : AutoCorrect(p)
  BY <1>0, <1>2 DEF AutoCorrect, AutoCorrectPage, AutoCorrectEnds
<1>3. CASE UNCHANGED vars
  BY <1>0, <1>3 DEF vars
<1> QED
  BY <1>0, <1>1, <1>2, <1>3, ScanObeys, JobStepObeys, FaultsCount DEF Next

LEMMA AdminWork == ASSUME WorkInv, [AdminNext]_avars PROVE WorkIsClaimed'
<1>1. CASE UNCHANGED <<job, faults>>
  BY <1>1 DEF WorkInv, WorkIsClaimed
<1>2. CASE Next
  BY <1>2, NextWork
<1>3. ASSUME NEW j \in JobId, RollUpEnds(j) PROVE WorkIsClaimed'
  <2>1. job' = [job EXCEPT ![j].phase = "releasing"] /\ faults' = faults /\ TypeOK
    BY <1>3 DEF RollUpEnds, WorkInv
  <2>2. \A i \in JobId : job'[i].phase # "dead" \/ job[i].phase = "dead"
    BY <2>1, PhaseFields
  <2>3. ASSUME NEW i \in JobId, Obeys(job[i]) PROVE Obeys(job'[i])
    BY <2>1, <2>3, PhaseFields DEF Obeys
  <2> QED
    BY <2>1, <2>3, ObeysAll DEF WorkInv
<1>4. AdminAsks \/ EditGoes \/ EditDies => UNCHANGED <<job, faults>>
  BY DEF AdminAsks, EditGoes, EditDies, Reprocess, RetryFailed, Publish, BulkReset, ResetPage,
         EditText, EditEmpty, PutText, MarkToc, EditEmbeds, EditFails, EditRolls, Untouched
<1>5. ASSUME NEW j \in JobId, NEW b \in Book, Writes(j, b) PROVE UNCHANGED <<job, faults>>
  BY <1>5 DEF Writes
<1>6. UNCHANGED vars \/ UNCHANGED avars => UNCHANGED <<job, faults>>
  BY DEF avars, cvars, vars
<1> QED
  BY <1>1, <1>2, <1>3, <1>4, <1>5, <1>6, AdminPipelineStep

-----------------------------------------------------------------------------
(* A page stays behind its OCR. What goes back to idle without work left     *)
(* harms nothing.                                                            *)
NothingNew(p) ==
  /\ \A s \in Step : Owners(p, s)' \subseteq Owners(p, s)
  /\ \A e \in events' : e.page = p => e \in events
Reopens(p) ==
  \A s \in Step : \/ ms'[p][s] = ms[p][s]
                  \/ /\ ms'[p][s] = "idle"
                     /\ s = "ocr" => ms[p][s] # "succeeded" /\ Owners(p, s) = {}

LEMMA BehindReopened ==
  ASSUME NEW p \in Page, BehindOcr(p), NothingNew(p), Reopens(p)
  PROVE  BehindOcr(p)'
<1>0. "ocr" \in Step
  BY DEF Step
<1>1. Owners(p, "ocr")' # {} => ms'[p]["ocr"] = "in_progress"
  BY <1>0 DEF BehindOcr, NothingNew, Reopens
<1>2. \A i, j \in Owners(p, "ocr")' : i = j
  BY <1>0 DEF BehindOcr, NothingNew
<1>3. ms[p]["ocr"] = "succeeded" => ms'[p]["ocr"] = "succeeded"
  BY <1>0 DEF Reopens
<1>4. \A s \in Step \ {"ocr"} :
        ms'[p][s] # "idle" \/ Owners(p, s)' # {} => ms'[p]["ocr"] = "succeeded"
  BY <1>3 DEF BehindOcr, NothingNew, Reopens
<1>5. \A e \in events' : e.page = p => ms'[p]["ocr"] = "succeeded"
  BY <1>3 DEF BehindOcr, NothingNew
<1> QED
  BY <1>1, <1>2, <1>4, <1>5 DEF BehindOcr

LEMMA BehindClaimed ==
  ASSUME TypeOK, NEW p \in Page, BehindOcr(p), events' \subseteq events,
         NEW s \in Step, NEW t \in Step \ {"ocr"}, s # t,
         NEW C \in SUBSET Page, NEW M \in SUBSET Page,
         NEW jc \in JobId \cup {NoJob}, NEW jm \in JobId \cup {NoJob},
         TwoClaims(s, C, jc, t, M, jm),
         p \in C => ms[p][s] = "idle" /\ (s # "ocr" => ms[p]["ocr"] = "succeeded"),
         p \in M => ms[p]["ocr"] = "succeeded"
  PROVE  BehindOcr(p)'
<1>0. "ocr" \in Step
  BY DEF Step
<1>1. GivesWork(s, C, jc, t, M, jm)
  BY ClaimEffect
<1>2. \A u \in Step : ms'[p][u] = IF (p \in C /\ u = s) \/ (p \in M /\ u = t)
                                    THEN "in_progress" ELSE ms[p][u]
  BY <1>1 DEF GivesWork
<1>3. \A u \in Step, i \in JobId :
        i \in Owners(p, u)' => \/ i = jc /\ u = s /\ p \in C
                               \/ i = jm /\ u = t /\ p \in M
                               \/ i \in Owners(p, u)
  BY <1>1 DEF GivesWork
<1>4. Owners(p, "ocr")' # {} => ms'[p]["ocr"] = "in_progress"
  <2>1. ASSUME NEW i \in JobId, i \in Owners(p, "ocr")' PROVE ms'[p]["ocr"] = "in_progress"
    BY <1>0, <1>2, <1>3, <2>1 DEF BehindOcr
  <2> QED
    BY <2>1, OwnersAreJobs
<1>5. ASSUME NEW i \in JobId, NEW k \in JobId, i \in Owners(p, "ocr")', k \in Owners(p, "ocr")'
      PROVE  i = k
  <2>1. CASE p \in C /\ s = "ocr"
    <3>1. Owners(p, "ocr") = {}
      BY <2>1 DEF BehindOcr
    <3> QED
      BY <1>0, <1>3, <1>5, <3>1
  <2>2. CASE ~(p \in C /\ s = "ocr")
    BY <1>0, <1>3, <1>5, <2>2 DEF BehindOcr
  <2> QED
    BY <2>1, <2>2
<1>6. ms[p]["ocr"] = "succeeded" => ms'[p]["ocr"] = "succeeded"
  BY <1>0, <1>2
<1>7. ASSUME NEW u \in Step \ {"ocr"}, ms'[p][u] # "idle" \/ Owners(p, u)' # {}
      PROVE  ms'[p]["ocr"] = "succeeded"
  <2>1. CASE (p \in C /\ u = s) \/ (p \in M /\ u = t)
    BY <1>6, <2>1
  <2>2. CASE ~((p \in C /\ u = s) \/ (p \in M /\ u = t))
    <3>1. ms'[p][u] = ms[p][u] /\ \A i \in JobId : i \in Owners(p, u)' => i \in Owners(p, u)
      BY <1>2, <1>3, <2>2
    <3>2. ms[p][u] # "idle" \/ Owners(p, u) # {}
      BY <1>7, <3>1, OwnersAreJobs
    <3> QED
      BY <1>6, <3>2 DEF BehindOcr
  <2> QED
    BY <2>1, <2>2
<1>8. \A e \in events' : e.page = p => ms'[p]["ocr"] = "succeeded"
  BY <1>6 DEF BehindOcr
<1>9. \A i, k \in Owners(p, "ocr")' : i = k
  BY <1>5, OwnersAreJobs
<1> QED
  BY <1>4, <1>7, <1>8, <1>9 DEF BehindOcr

LEMMA ScanBehind ==
  ASSUME TypeOK, NEW p \in Page, BehindOcr(p), Scan
  PROVE  BehindOcr(p)'
<1>0. Step = {"ocr", "chunking", "embedding", "spell_check"}
  BY DEF Step
<1>1. ASSUME NEW P \in SUBSET Page, NEW s \in Step, Claim(P, s),
             p \in P => ms[p][s] = "idle" /\ (s # "ocr" => ms[p]["ocr"] = "succeeded")
      PROVE  BehindOcr(p)'
  <2>1. PICK t \in Step \ {"ocr"}, jc \in JobId \cup {NoJob} :
          s # t /\ TwoClaims(s, P, jc, t, {}, NoJob)
    BY <1>1, ClaimForm
  <2>2. events' \subseteq events
    BY <1>1 DEF Claim
  <2> QED
    BY <1>1, <2>1, <2>2, BehindClaimed
<1>2. ASSUME NEW b \in Book, OcrScan(b) PROVE BehindOcr(p)'
  BY <1>0, <1>1, <1>2 DEF OcrScan, PagesOf
<1>3. CASE ChunkingScan
  BY <1>0, <1>1, <1>3 DEF ChunkingScan, ChunkingReady
<1>4. CASE EmbeddingScan
  <2>1. ms[p]["chunking"] = "succeeded" => ms[p]["ocr"] = "succeeded"
    BY <1>0 DEF BehindOcr
  <2> QED
    BY <1>0, <1>1, <1>4, <2>1 DEF EmbeddingScan, EmbeddingReady
<1>5. CASE SpellCheckScan
  BY <1>0, <1>1, <1>5 DEF SpellCheckScan, SpellCheckReady
<1>6. CASE EventDispatcher
  <2>1. PICK E \in SUBSET events : Dispatch(E)
    BY <1>6 DEF EventDispatcher
  <2> DEFINE C == Claimable(E, ChunkingTrigger, "chunking")
             M == Claimable(E, {"chunking_succeeded"}, "embedding")
  <2>2. PICK jc \in JobId \cup {NoJob}, jm \in JobId \cup {NoJob} :
          job' = [j \in JobId |-> IF j = jc THEN Queued("chunking", C)
                             ELSE IF j = jm THEN Queued("embedding", M)
                             ELSE job[j]]
    BY <2>1 DEF Dispatch
  <2>3. /\ ms' = Set(Set(ms, C, "chunking", "in_progress"), M, "embedding", "in_progress")
        /\ events' \subseteq events
    BY <2>1 DEF Dispatch
  <2>4. TwoClaims("chunking", C, jc, "embedding", M, jm)
    BY <2>2, <2>3 DEF TwoClaims
  <2>5. C \in SUBSET Page /\ M \in SUBSET Page
    BY DEF Claimable, TypeOK, Event
  <2>6. p \in C => ms[p]["chunking"] = "idle" /\ ms[p]["ocr"] = "succeeded"
    BY DEF Claimable, BehindOcr
  <2>7. p \in M => ms[p]["ocr"] = "succeeded"
    BY DEF Claimable, BehindOcr
  <2> HIDE DEF C, M
  <2> QED
    BY <1>0, <2>3, <2>4, <2>5, <2>6, <2>7, BehindClaimed
<1> QED
  BY <1>2, <1>3, <1>4, <1>5, <1>6 DEF Scan

LEMMA RecoverBehind ==
  ASSUME WorkInv, faults = 0, faults' = 0, NEW p \in Page, BehindOcr(p), Recover
  PROVE  BehindOcr(p)'
<1>0. TypeOK /\ ms \in [Page -> [Step -> PageStatus]] /\ "ocr" \in Step
  BY DEF WorkInv, TypeOK, Step
<1>1. ASSUME UNCHANGED <<job, events>> PROVE NothingNew(p)
  BY <1>1 DEF NothingNew, Owners
<1>2. ASSUME NEW s \in Step, NEW q \in Page, LockExpires(s, q) PROVE BehindOcr(p)'
  BY <1>1, <1>2, BehindReopened DEF LockExpires, Reopens
<1>3. ASSUME NEW j \in JobId, Redeliver(j) PROVE BehindOcr(p)'
  BY <1>3 DEF Redeliver, WorkInv, WorkIsClaimed
<1>4. CASE StaleWatchdog
  <2>1. PICK S \in SUBSET Page : Watchdog(S)
    BY <1>4 DEF StaleWatchdog
  <2>2. UNCHANGED <<job, events>>
    BY <2>1 DEF Watchdog
  <2>3. \A s \in Step :
          ms'[p][s] = IF p \in S /\ ms[p][s] = "in_progress" THEN "idle" ELSE ms[p][s]
    BY <1>0, <2>1 DEF Watchdog
  <2>4. p \in S => Owners(p, "ocr") = {}
    BY <1>0, <2>1, Unattended
  <2> QED
    BY <1>1, <2>2, <2>3, <2>4, BehindReopened DEF Reopens
<1>5. CASE PipelineDriver
  <2>1. UNCHANGED <<job, events>>
    BY <1>5 DEF PipelineDriver
  <2>2. \A s \in Step :
          \/ ms'[p][s] = ms[p][s]
          \/ ms[p][s] = "failed" /\ ms'[p][s] = "idle"
    BY <1>0, <1>5 DEF PipelineDriver, Reset
  <2>3. ms[p]["ocr"] = "failed" => Owners(p, "ocr") = {}
    BY DEF BehindOcr
  <2> QED
    BY <1>1, <2>1, <2>2, <2>3, BehindReopened DEF Reopens
<1> QED
  BY <1>2, <1>3, <1>4, <1>5 DEF Recover

LEMMA DoneBehind ==
  ASSUME WorkInv, faults = 0, NEW p \in Page, BehindOcr(p), NEW j \in JobId, NEW q \in Page,
         NEW v \in {"succeeded", "failed"}, Working(j, q), PageDone(j, q),
         ms' = Set(ms, {q}, job[j].step, v),
         \A e \in events' : e \in events \/ (e.page = q /\ (job[j].step = "ocr" => v = "succeeded"))
  PROVE  BehindOcr(p)'
<1>0. /\ TypeOK /\ ms \in [Page -> [Step -> PageStatus]] /\ job[j].step \in Step /\ "ocr" \in Step
  BY DEF WorkInv, TypeOK, Job, Step
<1>1. \A s \in Step : ms'[p][s] = IF p = q /\ s = job[j].step THEN v ELSE ms[p][s]
  BY <1>0, SetValues
<1>2. /\ \A s \in Step : Owners(p, s)' \subseteq Owners(p, s)
      /\ \A s \in Step : p = q /\ s = job[j].step => j \in Owners(p, s) /\ j \notin Owners(p, s)'
  BY <1>0, PageDoneOwners
<1>3. CASE p # q
  BY <1>1, <1>2, <1>3, BehindReopened DEF NothingNew, Reopens
<1>4. CASE p = q /\ job[j].step = "ocr"
  <2>0. j \in Owners(p, "ocr") /\ j \notin Owners(p, "ocr")'
    BY <1>0, <1>2, <1>4
  <2>1. ms[p]["ocr"] = "in_progress" /\ Owners(p, "ocr")' = {}
    BY <1>0, <1>2, <2>0 DEF BehindOcr
  <2>2. \A s \in Step \ {"ocr"} : ms[p][s] = "idle" /\ Owners(p, s) = {}
    BY <2>1 DEF BehindOcr
  <2>3. \A s \in Step \ {"ocr"} : ms'[p][s] = "idle" /\ Owners(p, s)' = {}
    BY <1>0, <1>1, <1>2, <1>4, <2>2
  <2>4. ASSUME NEW e \in events', e.page = p PROVE ms'[p]["ocr"] = "succeeded"
    <3>1. e \notin events
      BY <2>1, <2>4 DEF BehindOcr
    <3> QED
      BY <1>0, <1>1, <1>4, <2>4, <3>1
  <2> QED
    BY <2>1, <2>3, <2>4 DEF BehindOcr
<1>5. CASE p = q /\ job[j].step # "ocr"
  <2>1. ms[p]["ocr"] = "succeeded" /\ ms'[p]["ocr"] = "succeeded"
    BY <1>0, <1>1, <1>2, <1>5 DEF BehindOcr
  <2>2. Owners(p, "ocr")' = {}
    BY <1>0, <1>2, <2>1 DEF BehindOcr
  <2> QED
    BY <2>1, <2>2 DEF BehindOcr
<1> QED
  BY <1>3, <1>4, <1>5

LEMMA RewriteBehind ==
  ASSUME WorkInv, faults = 0, NEW p \in Page, BehindOcr(p), NEW j \in JobId, NEW q \in Page,
         SpellCheckRewrites(j, q)
  PROVE  BehindOcr(p)'
<1>0. /\ TypeOK /\ ms \in [Page -> [Step -> PageStatus]]
      /\ "spell_check" \in Step \ {"ocr"} /\ "ocr" \in Step /\ "succeeded" \in PageStatus
  BY DEF WorkInv, TypeOK, Step, PageStatus
<1>1. /\ Working(j, q) /\ job[j].step = "spell_check" /\ PageDone(j, q)
      /\ events' = events \cup Emitted(q, "spell_check_succeeded")
  BY DEF SpellCheckRewrites
<1>2. /\ \A s \in Step : Owners(p, s)' \subseteq Owners(p, s)
      /\ p = q => j \in Owners(p, "spell_check")
  BY <1>0, <1>1, PageDoneOwners
<1>3. PICK m : m = Set(ms, {q}, "spell_check", "succeeded")
  OBVIOUS
<1>4. m \in [Page -> [Step -> PageStatus]]
  BY <1>0, <1>3, SetType
<1>5. ms' = Set(Set(m, {q}, "chunking", "idle"), {q}, "embedding", "idle")
  BY <1>3 DEF SpellCheckRewrites
<1>6. /\ ms'[p]["ocr"] = m[p]["ocr"] /\ (p # q => ms'[p] = m[p])
  BY <1>4, <1>5, ReindexedValues
<1>7. /\ m[p]["ocr"] = ms[p]["ocr"] /\ (p # q => m[p] = ms[p])
  BY <1>0, <1>3 DEF Set
<1>8. \A e \in events' : e \in events \/ e.page = q
  BY <1>1 DEF Emitted
<1>9. CASE p # q
  BY <1>2, <1>6, <1>7, <1>8, <1>9, BehindReopened DEF NothingNew, Reopens
<1>10. CASE p = q
  <2>1. ms[p]["ocr"] = "succeeded" /\ ms'[p]["ocr"] = "succeeded"
    BY <1>0, <1>2, <1>6, <1>7, <1>10 DEF BehindOcr
  <2>2. Owners(p, "ocr")' = {}
    BY <1>0, <1>2, <2>1 DEF BehindOcr
  <2> QED
    BY <2>1, <2>2 DEF BehindOcr
<1> QED
  BY <1>9, <1>10

LEMMA PdfBehind ==
  ASSUME WorkInv, faults = 0, NEW p \in Page, BehindOcr(p), NEW j \in JobId, PdfFails(j)
  PROVE  BehindOcr(p)'
<1>0. /\ TypeOK /\ ms \in [Page -> [Step -> PageStatus]] /\ "ocr" \in Step
      /\ job[j].phase = "locked" /\ job[j].step = "ocr" /\ job[j].todo = {} /\ JobStep(j)
      /\ job' = [job EXCEPT ![j].phase = "working"] /\ events' = events
  BY DEF WorkInv, WorkIsClaimed, TypeOK, Step, PdfFails, JobStep
<1>1. \A s \in Step : ms'[p][s] = IF p \in job[j].taken /\ s = "ocr" THEN "failed" ELSE ms[p][s]
  <2>1. ms' = Set(ms, job[j].taken, "ocr", "failed")
    BY DEF PdfFails
  <2> QED
    BY <1>0, <2>1, SetValues
<1>2. \A s \in Step : Owners(p, s)' \subseteq Owners(p, s)
  BY <1>0, JobStepOwners
<1>3. CASE p \notin job[j].taken
  BY <1>0, <1>1, <1>2, <1>3, BehindReopened DEF NothingNew, Reopens
<1>4. CASE p \in job[j].taken
  <2>1. Has(job[j], p, "ocr")
    BY <1>0, <1>4 DEF Has
  <2>2. ~Has(job'[j], p, "ocr")
    <3>1. \E f : f = "working" /\ job' = [job EXCEPT ![j].phase = f]
      BY <1>0
    <3>2. job'[j].phase = "working" /\ job'[j].todo = {}
      BY <1>0, <3>1, PhaseFields
    <3> QED
      BY <3>2 DEF Has
  <2>3. j \in Owners(p, "ocr") /\ j \notin Owners(p, "ocr")'
    BY <1>0, <2>1, <2>2, OwnersFacts
  <2>4. ms[p]["ocr"] = "in_progress" /\ Owners(p, "ocr")' = {}
    BY <1>0, <1>2, <2>3 DEF BehindOcr
  <2>5. \A s \in Step \ {"ocr"} : ms'[p][s] = "idle" /\ Owners(p, s)' = {}
    BY <1>1, <1>2, <2>4 DEF BehindOcr
  <2>6. \A e \in events' : e.page # p
    BY <1>0, <2>4 DEF BehindOcr
  <2> QED
    BY <2>4, <2>5, <2>6 DEF BehindOcr
<1> QED
  BY <1>3, <1>4

LEMMA JobStepBehind ==
  ASSUME WorkInv, faults = 0, NEW p \in Page, BehindOcr(p), NEW j \in JobId, JobStep(j)
  PROVE  BehindOcr(p)'
<1>0. TypeOK /\ \A s \in Step : Owners(p, s)' \subseteq Owners(p, s)
  BY JobStepOwners DEF WorkInv
<1>1. CASE UNCHANGED <<ms, events>>
  BY <1>0, <1>1, BehindReopened DEF NothingNew, Reopens
<1>2. ASSUME NEW q \in Page, PageSucceeds(j, q) PROVE BehindOcr(p)'
  <2>1. /\ Working(j, q) /\ PageDone(j, q) /\ ms' = Set(ms, {q}, job[j].step, "succeeded")
        /\ \A e \in events' : e \in events \/ e.page = q
    BY <1>2 DEF PageSucceeds, Emitted
  <2> QED
    BY <2>1, DoneBehind
<1>3. ASSUME NEW q \in Page, PageFails(j, q) PROVE BehindOcr(p)'
  <2>1. /\ Working(j, q) /\ PageDone(j, q) /\ ms' = Set(ms, {q}, job[j].step, "failed")
        /\ \A e \in events' : e \in events \/ e.page = q
        /\ job[j].step # "ocr"
    BY <1>3 DEF PageFails, Emitted
  <2> QED
    BY <2>1, DoneBehind
<1>4. ASSUME NEW q \in Page, OcrPageFails(j, q) PROVE BehindOcr(p)'
  <2>1. PICK v \in {"succeeded", "failed"} :
          ms' = Set(ms, {q}, "ocr", v) /\ events' = events \cup Emitted(q, EventName["ocr"][v])
    BY <1>4 DEF OcrPageFails
  <2>2. Working(j, q) /\ PageDone(j, q) /\ job[j].step = "ocr"
    BY <1>4 DEF OcrPageFails
  <2>3. \A e \in events' : e \in events \/ (e.page = q /\ v = "succeeded")
    BY <2>1 DEF Emitted, EventName, ChunkingTrigger
  <2> QED
    BY <2>1, <2>2, <2>3, DoneBehind
<1> QED
  BY <1>1, <1>2, <1>3, <1>4, RewriteBehind, PdfBehind
  DEF JobStep, JobTryLock, JobLoad, JobFinish, JobRelease

LEMMA NextBehind ==
  ASSUME WorkInv, faults = 0, faults' = 0, NEW p \in Page, BehindOcr(p), [Next]_vars
  PROVE  BehindOcr(p)'
<1>0. TypeOK /\ ms \in [Page -> [Step -> PageStatus]]
  BY DEF WorkInv, TypeOK
<1>1. ASSUME NEW q \in Page, AutoCorrect(q) PROVE BehindOcr(p)'
  <2>1. NothingNew(p)
    BY <1>1 DEF AutoCorrect, AutoCorrectPage, AutoCorrectEnds, NothingNew, Owners
  <2>2. Reopens(p)
    <3>1. CASE AutoCorrectPage(q)
      <4>1. ms' = Set(Set(ms, {q}, "chunking", "idle"), {q}, "embedding", "idle")
        BY <3>1 DEF AutoCorrectPage
      <4>2. \A s \in Step : ms'[p][s] = IF p = q /\ s \in {"chunking", "embedding"}
                                        THEN "idle" ELSE ms[p][s]
        BY <1>0, <4>1, ReindexedValues
      <4> QED
        BY <4>2 DEF Reopens
    <3>2. CASE AutoCorrectEnds(q)
      BY <3>2 DEF AutoCorrectEnds, Reopens
    <3> QED
      BY <1>1, <3>1, <3>2 DEF AutoCorrect
  <2> QED
    BY <2>1, <2>2, BehindReopened
<1>2. CASE UNCHANGED vars
  BY <1>2, BehindReopened DEF vars, NothingNew, Reopens, Owners
<1>3. ~Fault
  BY FaultsCount
<1> QED
  BY <1>0, <1>1, <1>2, <1>3, ScanBehind, JobStepBehind, RecoverBehind DEF Next

-----------------------------------------------------------------------------
(* Types of the content. A chunking job at work has read its pages.          *)
EditTypeOK ==
  /\ edit \in [phase : {"none", "embedding", "rolling"}, page : SUBSET Page, of : Nat]
  /\ \A p, q \in edit.page : p = q
CopiesAreRead ==
  \A j \in JobId : Splitting(j) => \A p \in job[j].todo : p \in job[j].taken /\ copy[j][p] # Unread

AdminTypes == WorkInv /\ ContentTypeOK /\ EditTypeOK /\ CopiesAreRead

LEMMA KeptTypes ==
  ASSUME TypeOK, ContentTypeOK, CopiesAreRead, copy' = KeptCopies, \A i \in JobId : StillIndexing(i)
  PROVE  copy' \in [JobId -> [Page -> Nat \cup {Unread}]] /\ CopiesAreRead'
<1>1. copy' \in [JobId -> [Page -> Nat \cup {Unread}]]
  BY DEF ContentTypeOK, KeptCopies
<1>2. ASSUME NEW j \in JobId, Splitting(j)', NEW p \in job'[j].todo
      PROVE  p \in job'[j].taken /\ copy'[j][p] # Unread
  <2>1. Splitting(j) /\ p \in job[j].todo /\ job'[j].taken = job[j].taken /\ p \in Page
    BY <1>2 DEF Splitting, StillIndexing, Indexes, IndexStep, TypeOK, Job
  <2>2. copy'[j][p] = copy[j][p]
    BY <1>2, <2>1 DEF KeptCopies, Splitting
  <2> QED
    BY <2>1, <2>2 DEF CopiesAreRead
<1> QED
  BY <1>1, <1>2 DEF CopiesAreRead

(* Every step but the reads themselves keeps what jobs have read.            *)
LEMMA StepKeeps ==
  ASSUME TypeOK, ContentNext
  PROVE  \/ copy' = KeptCopies /\ \A i \in JobId : StillIndexing(i)
         \/ \E j \in JobId : LoadsPages(j) \/ \E p \in Page : SelectsChunks(j, p)
<1> DEFINE Keeps == copy' = KeptCopies /\ \A i \in JobId : StillIndexing(i)
<1>1. ASSUME NEW j \in JobId, NEW p \in Page, PageWork(j, p), ~SelectsChunks(j, p)
      PROVE  Keeps
  <2>1. JobStep(j) /\ ~JobLoad(j) /\ copy' = KeptCopies
    BY <1>1 DEF PageWork, StoresText, UpsertsChunks, StoresVectors, Corrects, KeepsContent, Kept,
                PageSucceeds, OcrPageFails, PageFails, SpellCheckRewrites, JobTryLock, Working,
                JobStep, JobLoad
  <2> QED
    BY <2>1, JobStepSplits
<1>2. ASSUME NEW j \in JobId, PdfFails(j) \/ JobFinish(j) \/ JobRelease(j), KeepsContent
      PROVE  Keeps
  <2>1. copy' = KeptCopies
    BY <1>2 DEF KeepsContent, Kept
  <2>2. CASE PdfFails(j)
    BY <2>1, <2>2, PdfSplits
  <2>3. CASE JobFinish(j) \/ JobRelease(j)
    <3>1. JobStep(j) /\ ~JobLoad(j)
      BY <2>3 DEF JobStep, JobLoad, JobFinish, JobRelease
    <3> QED
      BY <2>1, <3>1, JobStepSplits
  <2> QED
    BY <1>2, <2>2, <2>3
<1>3. ASSUME Scan \/ Fault \/ Recover, KeepsContent PROVE Keeps
  BY <1>3, ScanSplits, FaultSplits, RecoverSplits DEF KeepsContent, Kept
<1>4. ASSUME NEW p \in Page, Correction(p) PROVE Keeps
  BY <1>4 DEF Correction, AutoCorrectPage, AutoCorrectEnds, Corrects, KeepsContent, Kept,
              StillIndexing, Indexes
<1> QED
  BY <1>1, <1>2, <1>3, <1>4 DEF ContentNext, JobWork

LEMMA ContentTypes ==
  ASSUME TypeOK, ContentTypeOK, CopiesAreRead, ContentNext
  PROVE  ContentTypeOK' /\ CopiesAreRead'
<1>1. CASE copy' = KeptCopies /\ \A i \in JobId : StillIndexing(i)
  <2>1. copy' \in [JobId -> [Page -> Nat \cup {Unread}]] /\ CopiesAreRead'
    BY <1>1, KeptTypes
  <2>2. text' \in [Page -> Nat] /\ chunks' \in [Page -> Nat] /\ vectors' \in [Page -> Nat]
        /\ rushed' \subseteq Page
    <3>1. ASSUME NEW j \in JobId, NEW p \in Page, UpsertsChunks(j, p)
          PROVE  copy[j][p] \in Nat
      BY <3>1 DEF UpsertsChunks, PageSucceeds, Working, Splitting, CopiesAreRead, ContentTypeOK
    <3>2. ASSUME NEW j \in JobId, NEW p \in Page, StoresVectors(j, p)
          PROVE  copy[j][p] \in Nat
      BY <3>2 DEF StoresVectors, ContentTypeOK
    <3>3. ASSUME NEW j \in JobId, NEW p \in Page, PageWork(j, p) PROVE <2>2
      BY <3>1, <3>2, <3>3 DEF PageWork, SelectsChunks, StoresText, UpsertsChunks, StoresVectors,
                              Corrects, NewText, KeepsContent, Kept, ContentTypeOK
    <3> QED
      BY <3>3 DEF ContentNext, JobWork, LoadsPages, Correction, Corrects, NewText, KeepsContent,
                  Kept, ContentTypeOK
  <2> QED
    BY <2>1, <2>2 DEF ContentTypeOK
<1>2. ASSUME NEW j \in JobId, LoadsPages(j) PROVE ContentTypeOK' /\ CopiesAreRead'
  <2>0. job \in [JobId -> Job] /\ job[j] \in Job /\ job[j].taken \subseteq Page
    BY DEF TypeOK, Job
  <2>1. /\ job'[j].todo = job[j].taken /\ job'[j].taken = job[j].taken
        /\ job'[j].step = job[j].step
        /\ \A i \in JobId \ {j} : job'[i] = job[i]
    BY <1>2, <2>0 DEF LoadsPages, JobLoad, Job
  <2>2. /\ UNCHANGED <<text, chunks, vectors, rushed>>
        /\ \A i \in JobId \ {j} : copy'[i] = copy[i]
        /\ \A p \in Page : copy'[j][p] = IF job[j].step = "chunking" /\ p \in job[j].taken
                                          THEN text[p] ELSE Unread
    BY <1>2 DEF LoadsPages, ContentTypeOK
  <2>3. ContentTypeOK'
    BY <1>2 DEF LoadsPages, ContentTypeOK
  <2>4. \A p \in Page : text[p] # Unread
    BY DEF ContentTypeOK, Unread
  <2> QED
    BY <2>0, <2>1, <2>2, <2>3, <2>4 DEF CopiesAreRead, Splitting
<1>3. ASSUME NEW j \in JobId, NEW p \in Page, SelectsChunks(j, p)
      PROVE  ContentTypeOK' /\ CopiesAreRead'
  <2>1. ContentTypeOK'
    BY <1>3 DEF SelectsChunks, ContentTypeOK
  <2>2. \A i \in JobId, q \in Page : job[i].step = "chunking" => copy'[i][q] = copy[i][q]
    BY <1>3 DEF SelectsChunks, ContentTypeOK
  <2>3. job' = job /\ \A i \in JobId : job[i].todo \subseteq Page
    BY <1>3 DEF SelectsChunks, vars, TypeOK, Job
  <2> QED
    BY <2>1, <2>2, <2>3 DEF CopiesAreRead, Splitting
<1> QED
  BY <1>1, <1>2, <1>3, StepKeeps

(* The steps of the pipeline are those of PageContent.                       *)
LEMMA AdminContentStep ==
  ASSUME AdminNext
  PROVE  \/ ContentNext /\ Follows
         \/ AdminAsks \/ EditGoes \/ EditDies
         \/ \E j \in JobId : RollUpEnds(j) \/ \E b \in Book : Counts(j, b) \/ Writes(j, b)
<1>1. ASSUME NEW j \in JobId, AdminJobWork(j)
      PROVE  \/ JobWork(j) /\ Follows
             \/ RollUpEnds(j) \/ \E b \in Book : Counts(j, b) \/ Writes(j, b)
  <2>1. ASSUME NEW p \in Page, ReadsPage(j, p) PROVE PageWork(j, p) /\ Follows
    BY <2>1 DEF ReadsPage, PageWork
  <2>2. ASSUME NEW p \in Page, Pipeline(JobTryLock(j, p)) PROVE PageWork(j, p) /\ Follows
    BY <2>2 DEF Pipeline, PageWork
  <2>3. Pipeline(PdfFails(j) \/ JobRelease(j)) => JobWork(j) /\ Follows
    BY DEF Pipeline, JobWork
  <2> QED
    BY <1>1, <2>1, <2>2, <2>3 DEF AdminJobWork, JobWork
<1>2. Pipeline(Scan \/ Fault \/ Recover) => ContentNext /\ Follows
  BY DEF Pipeline, ContentNext
<1> QED
  BY <1>1, <1>2 DEF AdminNext, ContentNext

LEMMA AsksTypes ==
  ASSUME AdminTypes, AdminAsks PROVE ContentTypeOK' /\ CopiesAreRead' /\ EditTypeOK'
<1> DEFINE Texts == text' \in [Page -> Nat] /\ chunks' \in [Page -> Nat] /\ vectors' \in [Page -> Nat]
                    /\ rushed' \subseteq Page
           Edits == edit' = edit \/ \E f \in {"embedding", "rolling"}, p \in Page :
                                      edit' = [phase |-> f, page |-> {p}, of |-> text'[p]]
<1>0. /\ text \in [Page -> Nat] /\ chunks \in [Page -> Nat] /\ vectors \in [Page -> Nat]
      /\ rushed \subseteq Page /\ copy \in [JobId -> [Page -> Nat \cup {Unread}]]
  BY DEF AdminTypes, ContentTypeOK
<1>1. ASSUME Texts, Edits, UNCHANGED <<job, copy>>
      PROVE  ContentTypeOK' /\ CopiesAreRead' /\ EditTypeOK'
  <2>1. ContentTypeOK'
    BY <1>0, <1>1 DEF ContentTypeOK
  <2>2. CopiesAreRead'
    BY <1>1 DEF AdminTypes, CopiesAreRead, Splitting
  <2>3. EditTypeOK'
    BY <1>1 DEF AdminTypes, EditTypeOK
  <2> QED
    BY <2>1, <2>2, <2>3
<1>2. ASSUME NEW b \in Book, NEW from \in Step, Reprocess(b, from) PROVE Texts /\ Edits
  BY <1>0, <1>2 DEF Reprocess, Meets
<1>3. ASSUME NEW b \in Book, RetryFailed(b) \/ Publish(b) PROVE Texts /\ Edits
  BY <1>0, <1>3 DEF RetryFailed, Publish, content
<1>4. ASSUME NEW B \in SUBSET Book, BulkReset(B) PROVE Texts /\ Edits
  BY <1>0, <1>4 DEF BulkReset, Meets
<1>5. ASSUME NEW p \in Page, ResetPage(p) PROVE Texts /\ Edits
  BY <1>0, <1>5 DEF ResetPage, Meets, NewText
<1>6. ASSUME NEW p \in Page, EditText(p) PROVE Texts /\ Edits
  <2>1. text' \in [Page -> Nat]
    BY <1>0, <1>6 DEF EditText, NewText
  <2> QED
    BY <1>0, <1>6, <2>1 DEF EditText, SaveAnew, Meets
<1>7. ASSUME NEW p \in Page, EditEmpty(p) PROVE Texts /\ Edits
  <2>1. Texts
    BY <1>0, <1>7 DEF EditEmpty, NewText
  <2>2. edit' = [phase |-> "rolling", page |-> {p}, of |-> text'[p]]
    BY <1>7 DEF EditEmpty
  <2> QED
    BY <2>1, <2>2
<1>8. ASSUME NEW p \in Page, PutText(p) \/ MarkToc(p) PROVE Texts /\ Edits
  BY <1>0, <1>8 DEF PutText, MarkToc, NewText
<1>9. UNCHANGED <<job, copy>>
  BY DEF AdminAsks, Reprocess, RetryFailed, Publish, BulkReset, ResetPage, EditText, EditEmpty,
         PutText, MarkToc, Untouched
<1> QED
  BY <1>1, <1>2, <1>3, <1>4, <1>5, <1>6, <1>7, <1>8, <1>9 DEF AdminAsks

LEMMA EditTypes ==
  ASSUME AdminTypes, EditGoes \/ EditDies PROVE ContentTypeOK' /\ CopiesAreRead' /\ EditTypeOK'
<1>0. /\ ContentTypeOK /\ CopiesAreRead /\ EditTypeOK
      /\ edit \in [phase : {"none", "embedding", "rolling"}, page : SUBSET Page, of : Nat]
  BY DEF AdminTypes, EditTypeOK
<1>1. UNCHANGED <<job, copy, text, chunks, rushed>>
  BY DEF EditGoes, EditEmbeds, EditFails, EditRolls, EditDies, Untouched, content
<1>2. vectors' \in [Page -> Nat]
  BY <1>0 DEF EditGoes, EditEmbeds, EditFails, EditRolls, EditDies, content, ContentTypeOK
<1>3. edit' = NoEdit \/ edit' = [edit EXCEPT !.phase = "rolling"]
  BY DEF EditGoes, EditEmbeds, EditFails, EditRolls, EditDies
<1>4. EditTypeOK'
  BY <1>0, <1>3 DEF EditTypeOK, NoEdit
<1> QED
  BY <1>0, <1>1, <1>2, <1>4 DEF ContentTypeOK, CopiesAreRead, Splitting

(* The end of a roll-up takes the job from its pages and nothing else.       *)
LEMMA RollUpFacts ==
  ASSUME TypeOK, NEW j \in JobId, RollUpEnds(j)
  PROVE  /\ \A i \in JobId : StillIndexing(i)
         /\ \A p \in Page, s \in Step : Owners(p, s)' \subseteq Owners(p, s)
         /\ copy' = KeptCopies
         /\ UNCHANGED <<ms, events, text, chunks, vectors, rushed, edit, reread, faults>>
<1>1. /\ copy' = KeptCopies
      /\ UNCHANGED <<ms, events, text, chunks, vectors, rushed, edit, reread, faults>>
      /\ \E f : f = "releasing" /\ job' = [job EXCEPT ![j].phase = f]
  BY DEF RollUpEnds, KeepsContent, Kept, Follows
<1>2. job'[j].phase = "releasing" /\ \A i \in JobId \ {j} : job'[i] = job[i]
  BY <1>1, PhaseFields
<1>3. \A i \in JobId : StillIndexing(i)
  BY <1>2 DEF StillIndexing, Indexes
<1>4. ASSUME NEW p \in Page, NEW s \in Step PROVE Owners(p, s)' \subseteq Owners(p, s)
  <2>1. ~Has(job'[j], p, s)
    BY <1>2 DEF Has
  <2> QED
    BY <1>2, <2>1, OwnersShrink
<1> QED
  BY <1>1, <1>3, <1>4

LEMMA AdminTypesStay == ASSUME AdminTypes, [AdminNext]_avars PROVE AdminTypes'
<1>0. TypeOK /\ ContentTypeOK /\ CopiesAreRead /\ EditTypeOK /\ WorkInv
  BY DEF AdminTypes, WorkInv
<1>1. WorkInv'
  BY <1>0, AdminType, AdminWork DEF WorkInv
<1>2. CASE ContentNext /\ Follows
  <2>1. ContentTypeOK' /\ CopiesAreRead'
    BY <1>0, <1>2, ContentTypes
  <2>2. EditTypeOK'
    BY <1>0, <1>2 DEF Follows, EditTypeOK
  <2> QED
    BY <1>1, <2>1, <2>2 DEF AdminTypes
<1>3. CASE AdminAsks
  BY <1>1, <1>3, AsksTypes DEF AdminTypes
<1>4. CASE EditGoes \/ EditDies
  BY <1>1, <1>4, EditTypes DEF AdminTypes
<1>5. ASSUME NEW j \in JobId, RollUpEnds(j) PROVE AdminTypes'
  <2>1. /\ copy' = KeptCopies /\ \A i \in JobId : StillIndexing(i)
        /\ UNCHANGED <<text, chunks, vectors, rushed, edit>>
    BY <1>0, <1>5, RollUpFacts
  <2>2. copy' \in [JobId -> [Page -> Nat \cup {Unread}]] /\ CopiesAreRead'
    BY <1>0, <2>1, KeptTypes
  <2>3. ContentTypeOK' /\ EditTypeOK'
    BY <1>0, <2>1, <2>2 DEF ContentTypeOK, EditTypeOK
  <2> QED
    BY <1>1, <2>2, <2>3 DEF AdminTypes
<1>6. CASE UNCHANGED <<job, content, edit>>
  BY <1>0, <1>1, <1>6 DEF AdminTypes, ContentTypeOK, EditTypeOK, CopiesAreRead, Splitting, content
<1>7. ASSUME NEW j \in JobId, NEW b \in Book, Counts(j, b) \/ Writes(j, b)
      PROVE  UNCHANGED <<job, content, edit>>
  BY <1>7 DEF Counts, Writes, cvars, vars
<1>8. UNCHANGED avars => UNCHANGED <<job, content, edit>>
  BY DEF avars, cvars, vars
<1> QED
  BY <1>2, <1>3, <1>4, <1>5, <1>6, <1>7, <1>8, AdminContentStep

-----------------------------------------------------------------------------
(* A page that was split stays so as long as its text does.                  *)
LEMMA ChunkingStays ==
  ASSUME WorkInv, ContentTypeOK, faults = 0, faults' = 0, NEW p \in Page, InOrder(p), ContentNext,
         text'[p] = text[p], ms[p]["chunking"] = "succeeded"
  PROVE  ms'[p]["chunking"] = "succeeded"
<1>0. /\ TypeOK /\ ms \in [Page -> [Step -> PageStatus]] /\ text[p] \in Nat
      /\ {"ocr", "chunking", "embedding", "spell_check"} = Step
      /\ "succeeded" \in PageStatus
  BY DEF WorkInv, TypeOK, ContentTypeOK, Step, PageStatus
<1>1. Moves(p) => ms'[p]["chunking"] = "succeeded"
  BY DEF Moves, GoesOn, IsClaimed, IsDropped, IndexStep
<1>2. ASSUME NEW P, NEW s \in Step, NEW v, ms' = Set(ms, P, s, v), p \in P /\ s = "chunking" => v = "succeeded"
      PROVE  ms'[p]["chunking"] = "succeeded"
  <2>1. ms'[p]["chunking"] = IF p \in P /\ "chunking" = s THEN v ELSE ms[p]["chunking"]
    BY <1>0, <1>2, SetValues
  <2> QED
    BY <1>2, <2>1
<1>3. ASSUME NEW q \in Page, NEW m \in [Page -> [Step -> PageStatus]], p # q => m[p] = ms[p],
             ms' = Set(Set(m, {q}, "chunking", "idle"), {q}, "embedding", "idle"), NewText(q)
      PROVE  ms'[p]["chunking"] = "succeeded"
  <2>1. p # q
    BY <1>0, <1>3 DEF NewText, ContentTypeOK
  <2> QED
    BY <1>3, <2>1, ReindexedValues
<1>4. ASSUME NEW j \in JobId, NEW q \in Page, PageWork(j, q)
      PROVE  ms'[p]["chunking"] = "succeeded"
  <2>1. CASE SelectsChunks(j, q) \/ JobTryLock(j, q)
    BY <2>1 DEF SelectsChunks, JobTryLock, vars
  <2>2. CASE PageSucceeds(j, q)
    <3>1. ms' = Set(ms, {q}, job[j].step, "succeeded") /\ job[j].step \in Step
      BY <1>0, <2>2 DEF PageSucceeds, TypeOK, Job
    <3> QED
      BY <1>2, <3>1
  <2>3. CASE OcrPageFails(j, q)
    <3>1. PICK v : ms' = Set(ms, {q}, "ocr", v)
      BY <2>3 DEF OcrPageFails
    <3> QED
      BY <1>0, <1>2, <3>1
  <2>4. CASE PageFails(j, q)
    <3>1. /\ ms' = Set(ms, {q}, job[j].step, "failed") /\ job[j].step \in Step
          /\ Working(j, q)
      BY <1>0, <2>4 DEF PageFails, TypeOK, Job
    <3>2. ~(p = q /\ job[j].step = "chunking")
      <4>1. SUFFICES ASSUME p = q, job[j].step = "chunking" PROVE FALSE
        OBVIOUS
      <4>2. Has(job[j], p, "chunking")
        BY <3>1, <4>1 DEF Has, Working
      <4>3. j \in Owners(p, "chunking")
        BY <1>0, <4>2, OwnersFacts
      <4> QED
        BY <4>3 DEF InOrder
    <3> QED
      BY <1>2, <3>1, <3>2
  <2>5. CASE SpellCheckRewrites(j, q) /\ Corrects(q)
    <3>1. PICK m : m = Set(ms, {q}, "spell_check", "succeeded")
      OBVIOUS
    <3>2. m \in [Page -> [Step -> PageStatus]] /\ (p # q => m[p] = ms[p])
      BY <1>0, <3>1, SetType DEF Set
    <3>3. ms' = Set(Set(m, {q}, "chunking", "idle"), {q}, "embedding", "idle") /\ NewText(q)
      BY <2>5, <3>1 DEF SpellCheckRewrites, Corrects
    <3> QED
      BY <1>3, <3>2, <3>3
  <2> QED
    BY <1>4, <2>1, <2>2, <2>3, <2>4, <2>5 DEF PageWork, StoresText, UpsertsChunks, StoresVectors
<1>5. ASSUME NEW j \in JobId, LoadsPages(j) \/ PdfFails(j) \/ JobFinish(j) \/ JobRelease(j)
      PROVE  ms'[p]["chunking"] = "succeeded"
  <2>1. CASE PdfFails(j)
    <3>1. ms' = Set(ms, job[j].taken, "ocr", "failed")
      BY <2>1 DEF PdfFails
    <3> QED
      BY <1>0, <1>2, <3>1
  <2>2. CASE LoadsPages(j) \/ JobFinish(j) \/ JobRelease(j)
    BY <2>2 DEF LoadsPages, JobLoad, JobFinish, JobRelease
  <2> QED
    BY <1>5, <2>1, <2>2
<1>6. ASSUME NEW q \in Page, Correction(q) PROVE ms'[p]["chunking"] = "succeeded"
  <2>1. CASE AutoCorrectPage(q) /\ Corrects(q)
    BY <1>0, <1>3, <2>1 DEF AutoCorrectPage, Corrects
  <2>2. CASE AutoCorrectEnds(q)
    BY <2>2 DEF AutoCorrectEnds
  <2> QED
    BY <1>6, <2>1, <2>2 DEF Correction
<1> QED
  BY <1>0, <1>1, <1>4, <1>5, <1>6, ScanMoves, RecoverMoves, FaultsCount DEF ContentNext, JobWork

-----------------------------------------------------------------------------
(* What a page is like that was not upset.                                   *)
Good(p) == InOrder(p) /\ BehindOcr(p) /\ EditFits(p)
Excused(p) == Upset(p) \/ p \in reread

(* Whatever leaves a page, its jobs and its events alone.                    *)
LEMMA ApartGood ==
  ASSUME NEW p \in Page, Good(p), UNCHANGED <<job, events, copy>>,
         \A s \in Step : ms'[p][s] = ms[p][s],
         text'[p] = text[p], chunks'[p] = chunks[p], vectors'[p] = vectors[p],
         edit' = edit \/ ~Editing(p)' \/ edit'.phase # "embedding"
  PROVE  Good(p)'
<1>0. {"ocr", "chunking", "embedding"} \subseteq Step /\ IndexStep = {"chunking", "embedding"}
  BY DEF Step, IndexStep
<1>1. \A s \in Step : Owners(p, s)' = Owners(p, s)
  BY DEF Owners
<1>2. InOrder(p)'
  BY <1>0, <1>1 DEF Good, InOrder
<1>3. BehindOcr(p)'
  BY <1>0, <1>1 DEF Good, BehindOcr
<1>4. EditFits(p)'
  BY <1>0 DEF Good, EditFits, Editing
<1> QED
  BY <1>2, <1>3, <1>4 DEF Good

(* A page at rest has no work left, and no event.                            *)
LEMMA QuietFacts ==
  ASSUME WorkInv, faults = 0, NEW p \in Page, Quiet(p)
  PROVE  /\ \A s \in Step : Owners(p, s) = {}
         /\ \A e \in events : e.page # p
         /\ ~Editing(p)
<1>1. ASSUME NEW s \in Step, NEW j \in JobId PROVE ~Has(job[j], p, s)
  <2>1. job[j].todo \cup job[j].taken \subseteq job[j].args
    BY DEF WorkInv, WorkIsClaimed
  <2> QED
    BY <2>1 DEF Has, Quiet
<1> QED
  BY <1>1, OwnersFacts, OwnersAreJobs DEF Quiet

(* A page at rest may be sent back or edited.                                *)
LEMMA QuietGood ==
  ASSUME WorkInv, faults = 0, NEW p \in Page, Quiet(p), UNCHANGED <<job, events>>,
         ms'[p]["chunking"] = "succeeded" =>
           chunks'[p] = text'[p] /\ vectors'[p] \in {0, chunks'[p]},
         ms'[p]["chunking"] # "succeeded" => ms'[p]["embedding"] = "idle",
         ms'[p]["embedding"] = "succeeded" => vectors'[p] = chunks'[p],
         \A s \in Step \ {"ocr"} : ms'[p][s] # "idle" => ms'[p]["ocr"] = "succeeded",
         EditFits(p)'
  PROVE  Good(p)'
<1>0. {"ocr", "chunking", "embedding"} \subseteq Step /\ IndexStep = {"chunking", "embedding"}
  BY DEF Step, IndexStep
<1>1. /\ \A s \in Step : Owners(p, s)' = {}
      /\ \A e \in events' : e.page # p
  BY QuietFacts DEF Owners
<1>2. IndexEvent(p) \notin events'
  BY <1>1 DEF IndexEvent
<1>3. InOrder(p)'
  BY <1>0, <1>1, <1>2 DEF InOrder, IndexEvent
<1>4. BehindOcr(p)'
  BY <1>0, <1>1 DEF BehindOcr
<1> QED
  BY <1>3, <1>4 DEF Good

LEMMA ReprocessGood ==
  ASSUME AdminTypes, faults = 0, NEW b \in Book, NEW from \in Step, Reprocess(b, from),
         NEW p \in Page, Excused(p) \/ Good(p), ~Excused(p)'
  PROVE  Good(p)'
<1>0. /\ WorkInv /\ ms \in [Page -> [Step -> PageStatus]] /\ vectors \in [Page -> Nat]
      /\ Step = {"ocr", "chunking", "embedding", "spell_check"}
      /\ IndexStep = {"chunking", "embedding"}
  BY DEF AdminTypes, WorkInv, TypeOK, ContentTypeOK, Step, IndexStep
<1>1. /\ UNCHANGED <<job, events, copy, text, chunks, edit>>
      /\ Meets(PagesOf(b), IndexStep \subseteq StepsFrom(from))
      /\ \A s \in Step : ms'[p][s] = IF p \in PagesOf(b) /\ s \in StepsFrom(from) THEN "idle" ELSE ms[p][s]
      /\ vectors'[p] = IF p \in PagesOf(b) /\ from = "embedding" THEN 0 ELSE vectors[p]
  BY <1>0 DEF Reprocess, Untouched
<1>2. CASE p \notin PagesOf(b)
  <2>1. Good(p)
    BY <1>1, <1>2 DEF Meets, Excused, Upset
  <2> QED
    BY <1>1, <1>2, <2>1, ApartGood
<1>3. CASE p \in PagesOf(b)
  <2>1. Quiet(p)
    BY <1>1, <1>3 DEF Meets, Excused, Upset
  <2>2. EditFits(p)'
    BY <1>1, <2>1 DEF Quiet, EditFits, Editing
  <2>3. CASE from \in {"ocr", "chunking"}
    <3>1. \A s \in IndexStep : ms'[p][s] = "idle"
      BY <1>0, <1>1, <1>3, <2>3 DEF StepsFrom
    <3>2. \A s \in Step \ {"ocr"} : ms'[p][s] = "idle"
      BY <1>0, <1>1, <1>3, <2>3 DEF StepsFrom
    <3> QED
      BY <1>0, <1>1, <2>1, <2>2, <3>1, <3>2, QuietGood
  <2>4. CASE from \in {"embedding", "spell_check"}
    <3>1. ~(IndexStep \subseteq StepsFrom(from))
      BY <1>0, <2>4 DEF StepsFrom
    <3>2. Good(p)
      BY <1>1, <3>1 DEF Meets, Excused, Upset
    <3>3. /\ ms'[p]["ocr"] = ms[p]["ocr"] /\ ms'[p]["chunking"] = ms[p]["chunking"]
          /\ \A s \in Step \ {"ocr"} : ms'[p][s] # "idle" => ms[p][s] # "idle"
          /\ \/ ms'[p]["embedding"] = "idle" /\ vectors'[p] = 0
             \/ ms'[p]["embedding"] = ms[p]["embedding"] /\ vectors'[p] = vectors[p]
      BY <1>0, <1>1, <1>3, <2>4 DEF StepsFrom
    <3>4. \A s \in Step \ {"ocr"} : ms'[p][s] # "idle" => ms'[p]["ocr"] = "succeeded"
      BY <3>2, <3>3 DEF Good, BehindOcr
    <3>5. /\ ms[p]["chunking"] = "succeeded" => chunks[p] = text[p] /\ vectors[p] \in {0, chunks[p]}
          /\ ms[p]["chunking"] # "succeeded" => ms[p]["embedding"] = "idle"
          /\ ms[p]["embedding"] = "succeeded" => vectors[p] = chunks[p]
      BY <3>2 DEF Good, InOrder
    <3> QED
      BY <1>0, <1>1, <2>1, <2>2, <3>3, <3>4, <3>5, QuietGood
  <2> QED
    BY <1>0, <2>3, <2>4
<1> QED
  BY <1>2, <1>3

LEMMA BulkResetGood ==
  ASSUME AdminTypes, faults = 0, NEW B \in SUBSET Book, BulkReset(B),
         NEW p \in Page, Excused(p) \/ Good(p), ~Excused(p)'
  PROVE  Good(p)'
<1>0. WorkInv /\ {"ocr", "chunking", "embedding"} \subseteq Step
  BY DEF AdminTypes, Step
<1>1. PICK P : P = {q \in Page : BookOf[q] \in B}
  OBVIOUS
<1>2. /\ UNCHANGED <<job, events, copy, text, chunks, vectors, edit>> /\ Meets(P, TRUE)
      /\ p \notin P => ms'[p] = ms[p]
      /\ p \in P => \A s \in Step : ms'[p][s] = "idle"
  BY <1>1 DEF BulkReset, Untouched
<1>3. CASE p \notin P
  <2>1. Good(p)
    BY <1>2, <1>3 DEF Meets, Excused, Upset
  <2> QED
    BY <1>2, <1>3, <2>1, ApartGood
<1>4. CASE p \in P
  <2>1. Quiet(p)
    BY <1>2, <1>4 DEF Meets, Excused, Upset
  <2>2. EditFits(p)'
    BY <1>2, <2>1 DEF Quiet, EditFits, Editing
  <2> QED
    BY <1>0, <1>2, <1>4, <2>1, <2>2, QuietGood
<1> QED
  BY <1>3, <1>4

LEMMA RetryGood ==
  ASSUME AdminTypes, faults = 0, NEW b \in Book, RetryFailed(b),
         NEW p \in Page, Excused(p) \/ Good(p), ~Excused(p)'
  PROVE  Good(p)'
<1>0. /\ WorkInv /\ ms \in [Page -> [Step -> PageStatus]]
      /\ {"ocr", "chunking", "embedding"} \subseteq Step
  BY DEF AdminTypes, WorkInv, TypeOK, Step
<1>1. PICK P : P = {q \in PagesOf(b) : \E s \in Step : ToRetry(q, s)}
  OBVIOUS
<1>2. /\ UNCHANGED <<job, events, copy, text, chunks, vectors, edit, rushed>>
      /\ caught' = caught \cup {q \in P : ~Quiet(q)}
      /\ reread' = reread \cup {q \in P \cap skipped : ms[q]["ocr"] = "succeeded"}
      /\ \A s \in Step : ms'[p][s] = IF p \in P /\ ToRetry(p, s) THEN "idle" ELSE ms[p][s]
  BY <1>0, <1>1 DEF RetryFailed, Untouched, content
<1>3. Good(p)
  BY <1>2 DEF Excused, Upset
<1>4. CASE p \notin P
  BY <1>2, <1>3, <1>4, ApartGood
<1>5. CASE p \in P
  <2>1. Quiet(p) /\ ~(p \in skipped /\ ms[p]["ocr"] = "succeeded")
    BY <1>2, <1>5 DEF Excused, Upset
  <2>2. EditFits(p)'
    BY <1>2, <2>1 DEF Quiet, EditFits, Editing
  <2>3. \A s \in Step : ms'[p][s] = IF ms[p][s] = "failed" THEN "idle" ELSE ms[p][s]
    BY <1>2, <1>5, <2>1 DEF ToRetry
  <2>4. \A s \in Step \ {"ocr"} : ms'[p][s] # "idle" => ms'[p]["ocr"] = "succeeded"
    BY <1>0, <1>3, <2>3 DEF Good, BehindOcr
  <2>5. /\ ms[p]["chunking"] = "succeeded" => chunks[p] = text[p] /\ vectors[p] \in {0, chunks[p]}
        /\ ms[p]["chunking"] # "succeeded" => ms[p]["embedding"] = "idle"
        /\ ms[p]["embedding"] = "succeeded" => vectors[p] = chunks[p]
    BY <1>3 DEF Good, InOrder
  <2>6. /\ ms'[p]["chunking"] = "succeeded" => ms[p]["chunking"] = "succeeded"
        /\ ms'[p]["chunking"] # "succeeded" => ms'[p]["embedding"] = "idle"
        /\ ms'[p]["embedding"] = "succeeded" => ms[p]["embedding"] = "succeeded"
    BY <1>0, <2>3, <2>5
  <2> QED
    BY <1>0, <1>2, <2>1, <2>2, <2>4, <2>5, <2>6, QuietGood
<1> QED
  BY <1>4, <1>5

LEMMA ResetPageGood ==
  ASSUME AdminTypes, faults = 0, NEW q \in Page, ResetPage(q),
         NEW p \in Page, Excused(p) \/ Good(p), ~Excused(p)'
  PROVE  Good(p)'
<1>0. /\ WorkInv /\ {"ocr", "chunking", "embedding"} \subseteq Step
      /\ ms \in [Page -> [Step -> PageStatus]] /\ text \in [Page -> Nat]
  BY DEF AdminTypes, WorkInv, TypeOK, ContentTypeOK, Step
<1>1. PICK P : P = {q}
  OBVIOUS
<1>2. /\ UNCHANGED <<job, events, copy, chunks, vectors, edit>> /\ Meets(P, TRUE)
      /\ p \notin P => ms'[p] = ms[p] /\ text'[p] = text[p]
      /\ p \in P => \A s \in Step : ms'[p][s] = "idle"
  BY <1>0, <1>1 DEF ResetPage, Untouched, NewText
<1>3. CASE p \notin P
  <2>1. Good(p)
    BY <1>2, <1>3 DEF Meets, Excused, Upset
  <2> QED
    BY <1>2, <1>3, <2>1, ApartGood
<1>4. CASE p \in P
  <2>1. Quiet(p)
    BY <1>2, <1>4 DEF Meets, Excused, Upset
  <2>2. EditFits(p)'
    BY <1>2, <2>1 DEF Quiet, EditFits, Editing
  <2> QED
    BY <1>0, <1>2, <1>4, <2>1, <2>2, QuietGood
<1> QED
  BY <1>3, <1>4

(* The values that a recheck leaves.                                         *)
LEMMA RecheckedValues ==
  ASSUME NEW m \in [Page -> [Step -> PageStatus]], NEW q \in Page, NEW p \in Page
  PROVE  /\ p # q => \A s \in Step : Rechecked(m, q)[p][s] = m[p][s]
         /\ \A s \in Step \ {"spell_check"} : Rechecked(m, q)[p][s] = m[p][s]
         /\ \A s \in Step : Rechecked(m, q)[p][s] \in {m[p][s], "idle"}
<1>1. PICK n : n = Set(m, {q}, "spell_check", "idle")
  OBVIOUS
<1>2. "spell_check" \in Step
  BY DEF Step
<1>3. \A s \in Step : n[p][s] = IF p = q /\ s = "spell_check" THEN "idle" ELSE m[p][s]
  BY <1>1, <1>2, SetValues
<1>4. Rechecked(m, q) = n \/ Rechecked(m, q) = m
  BY <1>1 DEF Rechecked
<1> QED
  BY <1>3, <1>4

LEMMA EditTextGood ==
  ASSUME AdminTypes, faults = 0, NEW q \in Page, EditText(q),
         NEW p \in Page, Excused(p) \/ Good(p), ~Excused(p)'
  PROVE  Good(p)'
<1>0. /\ WorkInv /\ {"ocr", "chunking", "embedding", "spell_check"} = Step
      /\ ms \in [Page -> [Step -> PageStatus]] /\ text \in [Page -> Nat]
      /\ chunks \in [Page -> Nat] /\ vectors \in [Page -> Nat]
      /\ "idle" \in PageStatus /\ "succeeded" \in PageStatus
  BY DEF AdminTypes, WorkInv, TypeOK, ContentTypeOK, Step, PageStatus
<1>1. PICK m : m = Set(ms, {q}, "chunking", "succeeded")
  OBVIOUS
<1>2. PICK n : n = Set(m, {q}, "embedding", "idle")
  OBVIOUS
<1>3. m \in [Page -> [Step -> PageStatus]]
  BY <1>0, <1>1, SetType
<1>4. n \in [Page -> [Step -> PageStatus]]
  BY <1>0, <1>2, <1>3, SetType
<1>5. ms' = Rechecked(n, q)
  BY <1>1, <1>2 DEF EditText
<1>6. \A s \in Step : m[p][s] = IF p = q /\ s = "chunking" THEN "succeeded" ELSE ms[p][s]
  BY <1>0, <1>1, SetValues
<1>7. \A s \in Step : n[p][s] = IF p = q /\ s = "embedding" THEN "idle" ELSE m[p][s]
  BY <1>0, <1>2, <1>3, SetValues
<1>8. /\ UNCHANGED <<job, events, copy>> /\ edit'.phase = "embedding" /\ edit'.page = {q}
      /\ edit'.of = text'[q]
      /\ p # q => text'[p] = text[p] /\ chunks'[p] = chunks[p] /\ vectors'[p] = vectors[p]
      /\ p = q => chunks'[p] = text'[p] /\ vectors'[p] = 0
  BY <1>0 DEF EditText, SaveAnew, NewText, Untouched
<1>9. CASE p # q
  <2>1. PICK P : P = {q}
    OBVIOUS
  <2>2. Meets(P, TRUE) \/ (caught' = caught \cup P /\ UNCHANGED <<rushed, reread>>)
    BY <2>1 DEF EditText
  <2>3. Good(p)
    BY <1>9, <2>1, <2>2 DEF Meets, Excused, Upset
  <2>4. \A s \in Step : ms'[p][s] = ms[p][s]
    BY <1>4, <1>5, <1>6, <1>7, <1>9, RecheckedValues
  <2>5. ~Editing(p)'
    BY <1>8, <1>9 DEF Editing
  <2> QED
    BY <1>8, <1>9, <2>3, <2>4, <2>5, ApartGood
<1>10. CASE p = q
  <2>1. ms[p]["ocr"] = "succeeded" /\ Quiet(p)
    <3>1. PICK P : P = {q}
      OBVIOUS
    <3>2. IF ms[q]["ocr"] = "succeeded" THEN Meets(P, TRUE) ELSE caught' = caught \cup P
      BY <3>1 DEF EditText
    <3> QED
      BY <1>10, <3>1, <3>2 DEF Meets, Excused, Upset
  <2>2. ms'[p]["chunking"] = "succeeded" /\ ms'[p]["embedding"] = "idle" /\ ms'[p]["ocr"] = "succeeded"
    <3>1. \A s \in Step \ {"spell_check"} : ms'[p][s] = n[p][s]
      BY <1>4, <1>5, RecheckedValues
    <3> QED
      BY <1>0, <1>6, <1>7, <1>10, <2>1, <3>1
  <2>3. EditFits(p)'
    BY <1>8, <1>10, <2>2 DEF EditFits
  <2> QED
    BY <1>0, <1>8, <1>10, <2>1, <2>2, <2>3, QuietGood
<1> QED
  BY <1>9, <1>10

(* Requests that leave a page without its index, and Publish.                *)
LEMMA CaughtGood ==
  ASSUME AdminTypes, faults = 0, NEW q \in Page, EditEmpty(q) \/ PutText(q) \/ MarkToc(q),
         NEW p \in Page, Excused(p) \/ Good(p), ~Excused(p)'
  PROVE  Good(p)'
<1>0. /\ WorkInv /\ {"ocr", "chunking", "embedding", "spell_check"} = Step
      /\ ms \in [Page -> [Step -> PageStatus]] /\ text \in [Page -> Nat]
      /\ chunks \in [Page -> Nat] /\ vectors \in [Page -> Nat] /\ "succeeded" \in PageStatus
  BY DEF AdminTypes, WorkInv, TypeOK, ContentTypeOK, Step, PageStatus
<1>1. PICK P : P = {q}
  OBVIOUS
<1>2. caught' = caught \cup P /\ UNCHANGED <<rushed, reread>>
  BY <1>1 DEF EditEmpty, PutText, MarkToc
<1>3. Good(p) /\ p # q
  BY <1>1, <1>2 DEF Excused, Upset
<1>4. UNCHANGED <<job, events, copy>> /\ (edit' = edit \/ edit'.phase = "rolling")
  BY DEF EditEmpty, PutText, MarkToc, Untouched
<1>5. text'[p] = text[p] /\ chunks'[p] = chunks[p] /\ vectors'[p] = vectors[p]
  BY <1>0, <1>3 DEF EditEmpty, PutText, MarkToc, NewText
<1>6. \A s \in Step : ms'[p][s] = ms[p][s]
  <2>1. CASE EditEmpty(q)
    <3>1. PICK m : m = Set(ms, {q}, "embedding", "succeeded")
      OBVIOUS
    <3>2. m \in [Page -> [Step -> PageStatus]]
      BY <1>0, <3>1, SetType
    <3>3. m[p] = ms[p]
      BY <1>0, <1>3, <3>1 DEF Set
    <3>4. ms' = Rechecked(m, q)
      BY <2>1, <3>1 DEF EditEmpty
    <3> QED
      BY <1>3, <3>2, <3>3, <3>4, RecheckedValues
  <2>2. CASE PutText(q)
    BY <1>0, <1>3, <2>2, RecheckedValues DEF PutText
  <2>3. CASE MarkToc(q)
    BY <2>3 DEF MarkToc
  <2> QED
    BY <2>1, <2>2, <2>3
<1> QED
  BY <1>3, <1>4, <1>5, <1>6, ApartGood

LEMMA AsksGood ==
  ASSUME AdminTypes, faults = 0, AdminAsks,
         NEW p \in Page, Excused(p) \/ Good(p), ~Excused(p)'
  PROVE  Good(p)'
<1>1. ASSUME NEW b \in Book, Publish(b) PROVE Good(p)'
  <2>1. UNCHANGED <<ms, job, events, content, edit, caught, reread>>
    BY <1>1 DEF Publish, Untouched
  <2>2. Good(p)
    BY <2>1 DEF Excused, Upset, content
  <2> QED
    BY <2>1, <2>2, ApartGood DEF content
<1> QED
  BY <1>1, ReprocessGood, BulkResetGood, RetryGood, ResetPageGood, EditTextGood, CaughtGood
  DEF AdminAsks

-----------------------------------------------------------------------------
(* The save of a page goes on.                                               *)
LEMMA EmbedsGood ==
  ASSUME AdminTypes, faults = 0, EditEmbeds, NEW p \in Page, Good(p)
  PROVE  Good(p)'
<1>0. /\ WorkInv /\ {"ocr", "chunking", "embedding", "spell_check"} = Step
      /\ IndexStep = {"chunking", "embedding"}
      /\ ms \in [Page -> [Step -> PageStatus]] /\ vectors \in [Page -> Nat]
      /\ edit \in [phase : {"none", "embedding", "rolling"}, page : SUBSET Page, of : Nat]
      /\ \A q, r \in edit.page : q = r
  BY DEF AdminTypes, EditTypeOK, WorkInv, TypeOK, ContentTypeOK, Step, IndexStep
<1>1. /\ UNCHANGED <<job, events, copy, text, chunks>> /\ edit.phase = "embedding"
      /\ edit'.phase = "rolling" /\ ms' = Set(ms, edit.page, "embedding", "succeeded")
  BY <1>0 DEF EditEmbeds, Untouched
<1>2. \A s \in Step : ms'[p][s] = IF p \in edit.page /\ s = "embedding" THEN "succeeded" ELSE ms[p][s]
  BY <1>0, <1>1, SetValues
<1>3. CASE p \notin edit.page
  <2>1. vectors'[p] = vectors[p]
    BY <1>0, <1>3 DEF EditEmbeds
  <2> QED
    BY <1>1, <1>2, <1>3, <2>1, ApartGood
<1>4. CASE p \in edit.page
  <2>1. ms[p]["chunking"] = "succeeded" /\ edit.of = text[p] /\ chunks[p] = text[p]
    BY <1>1, <1>4 DEF Good, EditFits, Editing, InOrder
  <2>2. vectors'[p] = chunks[p]
    BY <1>0, <1>4, <2>1 DEF EditEmbeds
  <2>3. ms[p]["ocr"] = "succeeded"
    BY <1>0, <2>1 DEF Good, BehindOcr
  <2>4. \A s \in Step : Owners(p, s)' = Owners(p, s)
    BY <1>1 DEF Owners
  <2>5. ms'[p]["embedding"] = "succeeded" /\ \A s \in Step \ {"embedding"} : ms'[p][s] = ms[p][s]
    BY <1>0, <1>2, <1>4
  <2>6. BehindOcr(p)'
    BY <1>0, <1>1, <2>3, <2>4, <2>5 DEF Good, BehindOcr
  <2>7. EditFits(p)'
    BY <1>1 DEF EditFits
  <2>8. \A s \in IndexStep : \A i, j \in Owners(p, s)' : i = j
    BY <1>0, <2>4 DEF Good, InOrder
  <2>9. Owners(p, "chunking")' = {}
    BY <1>0, <2>1, <2>4 DEF Good, InOrder
  <2>10. ASSUME NEW j \in Owners(p, "embedding")', job'[j].phase = "working"
         PROVE  \/ copy'[j][p] \in {Unread, chunks'[p]}
                \/ copy'[j][p] = 0 /\ vectors'[p] = chunks'[p]
    BY <1>0, <1>1, <2>2, <2>4, <2>10 DEF Good, InOrder
  <2>11. InOrder(p)'
    BY <1>0, <1>1, <2>1, <2>2, <2>5, <2>8, <2>9, <2>10 DEF InOrder
  <2> QED
    BY <2>6, <2>7, <2>11 DEF Good
<1> QED
  BY <1>3, <1>4

LEMMA EditGood ==
  ASSUME AdminTypes, faults = 0, EditGoes \/ EditDies,
         NEW p \in Page, Excused(p) \/ Good(p), ~Excused(p)'
  PROVE  Good(p)'
<1>1. UNCHANGED <<rushed, caught, reread>>
  BY DEF EditGoes, EditEmbeds, EditFails, EditRolls, EditDies, content
<1>2. Good(p)
  BY <1>1 DEF Excused, Upset
<1>3. CASE EditFails \/ EditRolls \/ EditDies
  <2>1. UNCHANGED <<ms, job, events, content>>
    BY <1>3 DEF EditFails, EditRolls, EditDies, Untouched
  <2>2. edit'.phase # "embedding"
    BY <1>3 DEF AdminTypes, EditTypeOK, EditFails, EditRolls, EditDies, NoEdit
  <2> QED
    BY <1>2, <2>1, <2>2, ApartGood DEF content
<1> QED
  BY <1>2, <1>3, EmbedsGood DEF EditGoes

-----------------------------------------------------------------------------
(* The pipeline beside requests.                                             *)
LEMMA FollowsGood ==
  ASSUME AdminTypes, faults = 0, faults' = 0, ContentNext, Follows,
         NEW p \in Page, Excused(p) \/ Good(p), ~Excused(p)'
  PROVE  Good(p)'
<1>0. WorkInv /\ ContentTypeOK /\ "chunking" \in Step \ {"ocr"} /\ IndexStep \subseteq Step \ {"ocr"}
  BY DEF AdminTypes, Step, IndexStep
<1>1. rushed \subseteq rushed'
  BY DEF ContentNext, JobWork, PageWork, LoadsPages, SelectsChunks, StoresText, UpsertsChunks,
         StoresVectors, Corrects, Correction, KeepsContent, Kept
<1>2. UNCHANGED <<edit, reread>> /\ caught' = caught \cup {q \in edit.page : text'[q] # text[q]}
  BY DEF Follows
<1>3. Good(p) /\ p \notin rushed'
  BY <1>1, <1>2 DEF Excused, Upset
<1>4. OcrFirst(p)
  BY <1>0, <1>3 DEF Good, BehindOcr, OcrFirst
<1>5. InOrder(p)'
  BY <1>0, <1>3, <1>4, StepIndexed DEF Good
<1>6. BehindOcr(p)'
  BY <1>0, <1>3, NextBehind, NextIsPipelineStep DEF Good
<1>7. EditFits(p)'
  <2>1. SUFFICES ASSUME edit.phase = "embedding", Editing(p)
        PROVE  ms'[p]["chunking"] = "succeeded" /\ edit.of = text'[p]
    BY <1>2 DEF EditFits, Editing
  <2>2. text'[p] = text[p]
    BY <1>2, <2>1 DEF Excused, Upset, Editing
  <2>3. ms[p]["chunking"] = "succeeded" /\ edit.of = text[p]
    BY <1>3, <2>1 DEF Good, EditFits
  <2> QED
    BY <1>0, <1>3, <2>2, <2>3, ChunkingStays DEF Good
<1> QED
  BY <1>5, <1>6, <1>7 DEF Good

LEMMA RollUpGood ==
  ASSUME AdminTypes, faults = 0, NEW j \in JobId, RollUpEnds(j),
         NEW p \in Page, Excused(p) \/ Good(p), ~Excused(p)'
  PROVE  Good(p)'
<1>0. TypeOK /\ IndexStep \subseteq Step
  BY DEF AdminTypes, WorkInv, IndexStep, Step
<1>1. /\ \A i \in JobId : StillIndexing(i)
      /\ \A s \in Step : Owners(p, s)' \subseteq Owners(p, s)
      /\ copy' = KeptCopies
      /\ UNCHANGED <<ms, events, text, chunks, vectors, rushed, edit, reread>>
  BY <1>0, RollUpFacts
<1>2. caught \subseteq caught'
  BY DEF RollUpEnds, Follows
<1>3. Good(p)
  BY <1>1, <1>2 DEF Excused, Upset
<1>4. Moves(p)
  BY <1>0, <1>1, IdleMoves
<1>5. InOrder(p)'
  BY <1>0, <1>1, <1>3, <1>4, KeptIndexed DEF Good
<1>6. BehindOcr(p)'
  BY <1>1, <1>3, BehindReopened DEF Good, NothingNew, Reopens
<1>7. EditFits(p)'
  BY <1>1, <1>3 DEF Good, EditFits, Editing
<1> QED
  BY <1>5, <1>6, <1>7 DEF Good

LEMMA AdminFaults == ASSUME TypeOK, [AdminNext]_avars, faults' = 0 PROVE faults = 0
<1>1. AdminAsks \/ EditGoes \/ EditDies => faults' = faults
  BY DEF AdminAsks, EditGoes, EditDies, Reprocess, RetryFailed, Publish, BulkReset, ResetPage,
         EditText, EditEmpty, PutText, MarkToc, EditEmbeds, EditFails, EditRolls, Untouched
<1>2. ASSUME NEW j \in JobId, RollUpEnds(j) \/ \E b \in Book : Writes(j, b)
      PROVE  faults' = faults
  BY <1>2 DEF RollUpEnds, Writes
<1>3. UNCHANGED vars \/ UNCHANGED avars => faults' = faults
  BY DEF avars, cvars, vars
<1>4. Next => faults = 0
  BY FaultsStay
<1> QED
  BY <1>1, <1>2, <1>3, <1>4, AdminPipelineStep

LEMMA AdminGood ==
  ASSUME AdminTypes, AdminIndexInv, [AdminNext]_avars PROVE AdminIndexInv'
<1> SUFFICES ASSUME faults' = 0, NEW p \in Page, ~Excused(p)' PROVE Good(p)'
  BY DEF AdminIndexInv, Excused, Good
<1>1. faults = 0
  BY AdminFaults DEF AdminTypes, WorkInv
<1>2. Excused(p) \/ Good(p)
  BY <1>1 DEF AdminIndexInv, Excused, Good
<1>3. ASSUME UNCHANGED <<ms, job, events, content, edit, caught, reread>> PROVE Good(p)'
  <2>1. Good(p)
    BY <1>2, <1>3 DEF Excused, Upset, content
  <2> QED
    BY <1>3, <2>1, ApartGood DEF content
<1>4. ASSUME NEW j \in JobId, NEW b \in Book, Counts(j, b) \/ Writes(j, b) PROVE Good(p)'
  BY <1>3, <1>4 DEF Counts, Writes, cvars, vars, adminHistory
<1>5. CASE UNCHANGED avars
  BY <1>3, <1>5 DEF avars, cvars, vars, adminHistory
<1> QED
  BY <1>1, <1>2, <1>4, <1>5, AsksGood, EditGood, FollowsGood, RollUpGood, AdminContentStep

(* A page that was not upset is marked as embedded only with the chunks and  *)
(* the vectors of its present text, whatever administrators ask for while    *)
(* jobs work, as long as nothing crashes (books_router.py:1910, 2542, 2588). *)
THEOREM AdminIndexesAreCurrent == AdminSpec => []AdminIndexIsCurrent
<1>1. AdminInit => AdminTypes /\ AdminIndexInv
  <2> SUFFICES ASSUME AdminInit PROVE AdminTypes /\ AdminIndexInv
    OBVIOUS
  <2>0. ContentInit /\ Init /\ edit = NoEdit
    BY DEF AdminInit, ContentInit
  <2>1. TypeOK /\ ContentTypeOK
    BY <2>0, InitType, InitInv DEF ContentInv
  <2>2. \A j \in JobId : job[j] = FreeJob
    BY <2>0 DEF Init
  <2>3. WorkIsClaimed /\ CopiesAreRead
    BY <2>2, FreeIsIdle DEF WorkIsClaimed, CopiesAreRead, Splitting
  <2>4. EditTypeOK
    BY <2>0 DEF EditTypeOK, NoEdit
  <2>5. ASSUME NEW p \in Page PROVE InOrder(p) /\ BehindOcr(p) /\ EditFits(p)
    <3>1. \A s \in Step \ {"ocr"} : ms[p][s] = "idle"
      BY <2>0 DEF Init, Step
    <3>2. \A s \in Step : Owners(p, s) = {}
      BY <2>2, FreeIsIdle DEF Owners
    <3>3. events = {} /\ IndexStep \subseteq Step \ {"ocr"} /\ "ocr" \in Step
      BY <2>0 DEF Init, IndexStep, Step
    <3>4. InOrder(p)
      BY <3>1, <3>2, <3>3 DEF InOrder, IndexStep
    <3>5. BehindOcr(p)
      BY <3>1, <3>2, <3>3 DEF BehindOcr
    <3> QED
      BY <2>0, <3>4, <3>5 DEF EditFits, NoEdit
  <2> QED
    BY <2>1, <2>3, <2>4, <2>5 DEF AdminTypes, WorkInv, AdminIndexInv
<1>2. AdminTypes /\ AdminIndexInv /\ [AdminNext]_avars => (AdminTypes /\ AdminIndexInv)'
  BY AdminTypesStay, AdminGood
<1>3. AdminIndexInv => AdminIndexIsCurrent
  BY DEF AdminIndexInv, InOrder, AdminIndexIsCurrent, Indexed
<1> QED
  BY <1>1, <1>2, <1>3, PTL DEF AdminSpec
=============================================================================
