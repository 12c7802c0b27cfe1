----------------------- MODULE PagePipeline_proofs -----------------------
(* Safety of the page pipeline for any books, pages, jobs and bounds.        *)
EXTENDS PagePipeline, Milestones_proofs

(* Flipping one milestone of some pages keeps the table of pages well typed. *)
LEMMA SetType ==
  ASSUME NEW m \in [Page -> [Step -> PageStatus]], NEW P,
         NEW s \in Step, NEW v \in PageStatus
  PROVE  Set(m, P, s, v) \in [Page -> [Step -> PageStatus]]
BY DEF Set

LEMMA RolledType ==
  ASSUME NEW b \in [Book -> [Step -> BookMilestone]], NEW m, NEW B, NEW S
  PROVE  Rolled(b, m, B, S) \in [Book -> [Step -> BookMilestone]]
<1>1. \A k \in Book, s \in Step :
        RollUp([p \in Page |-> m[p][s]], PagesOf(k)) \in BookMilestone
  BY RollUpType
<1> QED
  BY <1>1 DEF Rolled

LEMMA BumpedType ==
  ASSUME NEW n \in 0 .. MaxRetries
  PROVE  Bumped(n) \in 0 .. MaxRetries
BY ConstantsAssumption DEF Bumped

LEMMA JobTypes ==
  /\ FreeJob \in Job
  /\ \A s \in Step, P \in SUBSET Page : Queued(s, P) \in Job
<1>1. 0 \in 0 .. MaxRetries /\ "ocr" \in Step
  BY ConstantsAssumption DEF Step
<1>2. FreeJob \in Job
  BY <1>1 DEF FreeJob, Job, Phase
<1>3. ASSUME NEW s \in Step, NEW P \in SUBSET Page
      PROVE  Queued(s, P) \in Job
  BY <1>1, <1>3 DEF Queued, FreeJob, Job, Phase
<1> QED
  BY <1>2, <1>3

LEMMA EmittedType ==
  ASSUME NEW p \in Page, NEW type
  PROVE  Emitted(p, type) \subseteq Event
BY DEF Emitted, Event, EventType, ChunkingTrigger

LEMMA SpendType ==
  ASSUME faults \in 0 .. MaxFaults, NEW n \in {0, 1}, Spend(n)
  PROVE  faults' \in 0 .. MaxFaults
BY ConstantsAssumption DEF Spend

-----------------------------------------------------------------------------
LEMMA InitType == Init => TypeOK
<1> SUFFICES ASSUME Init PROVE TypeOK
  OBVIOUS
<1>1. PICK Docx \in SUBSET Book :
        /\ ms = [p \in Page |-> [s \in Step |->
                   IF s = "ocr" /\ BookOf[p] \in Docx THEN "succeeded" ELSE "idle"]]
        /\ bms = [b \in Book |-> [s \in Step |->
                   IF s = "ocr" /\ b \in Docx THEN "complete" ELSE "idle"]]
        /\ fresh = {p \in Page : BookOf[p] \notin Docx}
  BY DEF Init
<1>2. fresh \subseteq Page /\ ms \in [Page -> [Step -> PageStatus]] /\ bms \in [Book -> [Step -> BookMilestone]]
  BY <1>1 DEF PageStatus, BookMilestone
<1>3. job \in [JobId -> Job]
  BY JobTypes DEF Init
<1>4. /\ retry \in [Page -> 0 .. MaxRetries]
      /\ faults \in 0 .. MaxFaults /\ rewrites \in 0 .. MaxRewrites
  BY ConstantsAssumption DEF Init
<1>5. /\ status \in [Book -> {"pending", "ready", "error"}]
      /\ events \subseteq Event /\ checked \subseteq Page
      /\ lock \in [Step -> [Page -> JobId \cup {NoJob}]]
  BY DEF Init
<1> QED
  BY <1>2, <1>3, <1>4, <1>5 DEF TypeOK

LEMMA ClaimType ==
  ASSUME TypeOK, NEW P \in SUBSET Page, NEW s \in Step, Claim(P, s)
  PROVE  TypeOK'
<1>1. ms' \in [Page -> [Step -> PageStatus]]
  BY SetType DEF TypeOK, Claim, PageStatus
<1>2. bms' \in [Book -> [Step -> BookMilestone]]
  BY RolledType DEF TypeOK, Claim
<1>3. job' \in [JobId -> Job] /\ faults' \in 0 .. MaxFaults
  <2>1. CASE UNCHANGED job /\ Spend(1)
    BY <2>1, SpendType DEF TypeOK
  <2>2. CASE \E j \in JobId : /\ job' = [job EXCEPT ![j] = Queued(s, P)]
                              /\ UNCHANGED faults
    BY <2>2, JobTypes DEF TypeOK
  <2> QED
    BY <2>1, <2>2 DEF Claim
<1> QED
  BY <1>1, <1>2, <1>3 DEF TypeOK, Claim

LEMMA ScanType ==
  ASSUME TypeOK, Scan
  PROVE  TypeOK'
<1>0. Step = {"ocr", "chunking", "embedding", "spell_check"}
  BY DEF Step
<1>1. CASE \E b \in Book : OcrScan(b)
  BY <1>0, <1>1, ClaimType DEF OcrScan, PagesOf
<1>2. CASE ChunkingScan
  BY <1>0, <1>2, ClaimType DEF ChunkingScan
<1>3. CASE EmbeddingScan
  BY <1>0, <1>3, ClaimType DEF EmbeddingScan
<1>4. CASE SpellCheckScan
  BY <1>0, <1>4, ClaimType DEF SpellCheckScan
<1>5. CASE EventDispatcher
  <2>1. PICK E \in SUBSET events : Dispatch(E)
    BY <1>5 DEF EventDispatcher
  <2> DEFINE C == Claimable(E, ChunkingTrigger, "chunking")
             M == Claimable(E, {"chunking_succeeded"}, "embedding")
  <2>2. C \in SUBSET Page /\ M \in SUBSET Page
    BY <2>1 DEF TypeOK, Claimable, Event
  <2>3. ms' \in [Page -> [Step -> PageStatus]]
    <3>1. Set(ms, C, "chunking", "in_progress") \in [Page -> [Step -> PageStatus]]
      BY <1>0, SetType DEF TypeOK, PageStatus
    <3>2. Set(Set(ms, C, "chunking", "in_progress"), M, "embedding", "in_progress")
            \in [Page -> [Step -> PageStatus]]
      BY <1>0, <3>1, SetType DEF PageStatus
    <3> QED
      BY <2>1, <3>2 DEF Dispatch
  <2>4. bms' \in [Book -> [Step -> BookMilestone]]
    BY <2>1, RolledType DEF TypeOK, Dispatch
  <2>5. PICK jc \in JobId \cup {NoJob}, jm \in JobId \cup {NoJob} :
          job' = [j \in JobId |-> IF j = jc THEN Queued("chunking", C)
                             ELSE IF j = jm THEN Queued("embedding", M)
                             ELSE job[j]]
    BY <2>1 DEF Dispatch
  <2>6. job' \in [JobId -> Job]
    <3>1. Queued("chunking", C) \in Job /\ Queued("embedding", M) \in Job
      BY <1>0, <2>2, JobTypes
    <3> QED
      BY <2>5, <3>1 DEF TypeOK
  <2>7. faults' \in 0 .. MaxFaults
    <3>1. Spend(0) \/ Spend(1)
      BY <2>1 DEF Dispatch
    <3> QED
      BY <3>1, SpendType DEF TypeOK
  <2> QED
    BY <2>1, <2>3, <2>4, <2>6, <2>7 DEF TypeOK, Dispatch
<1> QED
  BY <1>1, <1>2, <1>3, <1>4, <1>5 DEF Scan

LEMMA TriedType ==
  ASSUME NEW r \in Job, NEW taken \in SUBSET Page, NEW todo \in SUBSET Page
  PROVE  Tried(r, taken, todo) \in Job
<1>1. /\ [r EXCEPT !.taken = taken, !.todo = todo] \in Job
      /\ [r EXCEPT !.phase = "locked", !.taken = taken, !.todo = {}] \in Job
  BY DEF Job, Phase
<1> QED
  BY <1>1, JobTypes DEF Tried

(* The steps of one job.                                                     *)
LEMMA JobStepType ==
  ASSUME TypeOK, NEW j \in JobId, JobStep(j)
  PROVE  TypeOK'
<1>0. /\ job[j] \in Job /\ job[j].step \in Step
      /\ job[j].args \in SUBSET Page /\ job[j].taken \in SUBSET Page
      /\ job[j].todo \in SUBSET Page /\ job[j].seen \in [Page -> 0 .. MaxRetries]
  BY DEF TypeOK, Job
<1>1. ASSUME NEW p \in Page, JobTryLock(j, p)
      PROVE  TypeOK'
  <2> DEFINE s == job[j].step
             taken == IF lock[s][p] = NoJob THEN job[j].taken \cup {p} ELSE job[j].taken
             todo == job[j].todo \ {p}
  <2>1. lock' \in [Step -> [Page -> JobId \cup {NoJob}]]
    BY <1>0, <1>1 DEF JobTryLock, TypeOK
  <2>2. taken \in SUBSET Page /\ todo \in SUBSET Page
    BY <1>0
  <2>3. Tried(job[j], taken, todo) \in Job
    BY <1>0, <2>2, TriedType
  <2>4. job' \in [JobId -> Job]
    BY <1>1, <2>3 DEF JobTryLock, TypeOK
  <2> QED
    BY <1>1, <2>1, <2>4 DEF JobTryLock, TypeOK
<1>2. CASE JobLoad(j)
  <2> DEFINE seen == [p \in Page |-> IF job[j].step = "ocr" /\ p \in job[j].taken
                                       THEN retry[p] ELSE 0]
  <2>1. seen \in [Page -> 0 .. MaxRetries]
    BY ConstantsAssumption DEF TypeOK
  <2>2. job' \in [JobId -> Job]
    BY <1>0, <1>2, <2>1 DEF JobLoad, TypeOK, Job, Phase
  <2> QED
    BY <1>2, <2>2 DEF JobLoad, TypeOK
<1>3. CASE PdfFails(j)
  <2>1. ms' \in [Page -> [Step -> PageStatus]]
    BY <1>3, SetType DEF PdfFails, TypeOK, PageStatus, Step
  <2>2. retry' \in [Page -> 0 .. MaxRetries]
    BY <1>3, BumpedType DEF PdfFails, TypeOK
  <2>3. job' \in [JobId -> Job]
    BY <1>0, <1>3 DEF PdfFails, TypeOK, Job, Phase
  <2> QED
    BY <1>3, <2>1, <2>2, <2>3 DEF PdfFails, TypeOK
<1>4. ASSUME NEW p \in Page, PageDone(j, p)
      PROVE  job' \in [JobId -> Job]
  BY <1>0, <1>4 DEF PageDone, TypeOK, Job
<1>5. ASSUME NEW p \in Page, PageSucceeds(j, p)
      PROVE  TypeOK'
  <2>1. ms' \in [Page -> [Step -> PageStatus]]
    BY <1>0, <1>5, SetType DEF PageSucceeds, TypeOK, PageStatus
  <2>2. events' \subseteq Event /\ checked' \subseteq Page
    BY <1>5, EmittedType DEF PageSucceeds, TypeOK
  <2> QED
    BY <1>4, <1>5, <2>1, <2>2 DEF PageSucceeds, TypeOK
<1>6. ASSUME NEW p \in Page, SpellCheckRewrites(j, p)
      PROVE  TypeOK'
  <2> DEFINE m1 == Set(ms, {p}, "spell_check", "succeeded")
             m2 == Set(m1, {p}, "chunking", "idle")
  <2>1. m1 \in [Page -> [Step -> PageStatus]]
    BY SetType DEF TypeOK, PageStatus, Step
  <2>2. m2 \in [Page -> [Step -> PageStatus]]
    BY <2>1, SetType DEF PageStatus, Step
  <2>3. ms' \in [Page -> [Step -> PageStatus]]
    BY <1>6, <2>2, SetType DEF SpellCheckRewrites, PageStatus, Step
  <2>4. events' \subseteq Event /\ checked' \subseteq Page
    BY <1>6, EmittedType DEF SpellCheckRewrites, TypeOK
  <2>5. rewrites' \in 0 .. MaxRewrites
    BY <1>6, ConstantsAssumption DEF SpellCheckRewrites, TypeOK
  <2> QED
    BY <1>4, <1>6, <2>3, <2>4, <2>5 DEF SpellCheckRewrites, TypeOK
<1>7. ASSUME NEW p \in Page, OcrPageFails(j, p)
      PROVE  TypeOK'
  <2>1. ms' \in [Page -> [Step -> PageStatus]]
    BY <1>7, SetType DEF OcrPageFails, TypeOK, PageStatus, Step
  <2>2. retry' \in [Page -> 0 .. MaxRetries]
    BY <1>0, <1>7, BumpedType DEF OcrPageFails, TypeOK
  <2>3. events' \subseteq Event
    BY <1>7, EmittedType DEF OcrPageFails, TypeOK
  <2> QED
    BY <1>4, <1>7, <2>1, <2>2, <2>3 DEF OcrPageFails, TypeOK
<1>8. ASSUME NEW p \in Page, PageFails(j, p)
      PROVE  TypeOK'
  <2>1. ms' \in [Page -> [Step -> PageStatus]]
    BY <1>0, <1>8, SetType DEF PageFails, TypeOK, PageStatus
  <2>2. retry' \in [Page -> 0 .. MaxRetries]
    BY <1>8, BumpedType DEF PageFails, TypeOK
  <2>3. events' \subseteq Event
    BY <1>8, EmittedType DEF PageFails, TypeOK
  <2> QED
    BY <1>4, <1>8, <2>1, <2>2, <2>3 DEF PageFails, TypeOK
<1>9. CASE JobFinish(j)
  <2>1. bms' \in [Book -> [Step -> BookMilestone]]
    BY <1>9, RolledType DEF JobFinish, TypeOK
  <2>2. job' \in [JobId -> Job]
    BY <1>0, <1>9 DEF JobFinish, TypeOK, Job, Phase
  <2> QED
    BY <1>9, <2>1, <2>2 DEF JobFinish, TypeOK
<1>10. CASE JobRelease(j)
  <2>1. lock' \in [Step -> [Page -> JobId \cup {NoJob}]]
    BY <1>10 DEF JobRelease, Released, TypeOK
  <2>2. job' \in [JobId -> Job]
    BY <1>10, JobTypes DEF JobRelease, TypeOK
  <2> QED
    BY <1>10, <2>1, <2>2 DEF JobRelease, TypeOK
<1> QED
  BY <1>1, <1>2, <1>3, <1>5, <1>6, <1>7, <1>8, <1>9, <1>10 DEF JobStep

LEMMA FaultType ==
  ASSUME TypeOK, Fault
  PROVE  TypeOK'
<1>0. ASSUME NEW j \in JobId
      PROVE  /\ job[j] \in Job /\ job[j].step \in Step
             /\ job[j].args \in SUBSET Page
  BY DEF TypeOK, Job
<1>1. ASSUME NEW j \in JobId, JobRaises(j)
      PROVE  TypeOK'
  <2>1. job' \in [JobId -> Job]
    <3>1. PICK r : r = [job[j] EXCEPT !.phase = "releasing"]
      OBVIOUS
    <3>2. r \in Job
      BY <1>0, <3>1 DEF Job, Phase
    <3>3. job' = [job EXCEPT ![j] = r]
      BY <1>1, <3>1 DEF JobRaises
    <3> QED
      BY <3>2, <3>3 DEF TypeOK
  <2> QED
    BY <1>1, <2>1, SpendType DEF JobRaises, TypeOK
<1>2. ASSUME NEW j \in JobId, JobCancelled(j)
      PROVE  TypeOK'
  <2>1. job' \in [JobId -> Job]
    BY <1>0, <1>2, JobTypes DEF JobCancelled, TypeOK
  <2>2. lock' \in [Step -> [Page -> JobId \cup {NoJob}]]
    BY <1>2 DEF JobCancelled, Released, TypeOK
  <2> QED
    BY <1>2, <2>1, <2>2, SpendType DEF JobCancelled, TypeOK
<1>3. ASSUME NEW j \in JobId, GiveUp(j)
      PROVE  TypeOK'
  <2>1. job' \in [JobId -> Job]
    BY <1>3, JobTypes DEF GiveUp, TypeOK
  <2> QED
    BY <1>3, <2>1 DEF GiveUp, TypeOK
<1>4. ASSUME NEW J \in SUBSET JobId, WorkerCrash(J)
      PROVE  TypeOK'
  <2>1. ASSUME NEW j \in JobId
        PROVE  [FreeJob EXCEPT !.phase = "dead", !.step = job[j].step,
                               !.args = job[j].args] \in Job
    <3>1. 0 \in 0 .. MaxRetries
      BY ConstantsAssumption
    <3> QED
      BY <1>0, <3>1 DEF FreeJob, Job, Phase
  <2>2. job' \in [JobId -> Job]
    BY <1>4, <2>1 DEF WorkerCrash, TypeOK
  <2> QED
    BY <1>4, <2>2, SpendType DEF WorkerCrash, TypeOK
<1>5. ASSUME NEW j \in JobId, NEW p \in Page, JobLockError(j, p)
      PROVE  TypeOK'
  <2>1. /\ job[j] \in Job /\ job[j].taken \in SUBSET Page
        /\ job[j].todo \ {p} \in SUBSET Page
    BY DEF TypeOK, Job
  <2>2. Tried(job[j], job[j].taken, job[j].todo \ {p}) \in Job
    BY <2>1, TriedType
  <2>3. job' \in [JobId -> Job]
    BY <1>5, <2>2 DEF JobLockError, TypeOK
  <2> QED
    BY <1>5, <2>3, SpendType DEF JobLockError, TypeOK
<1> QED
  BY <1>1, <1>2, <1>3, <1>4, <1>5 DEF Fault

LEMMA RecoverType ==
  ASSUME TypeOK, Recover
  PROVE  TypeOK'
<1>1. ASSUME NEW s \in Step, NEW p \in Page, LockExpires(s, p)
      PROVE  TypeOK'
  <2>1. lock' \in [Step -> [Page -> JobId \cup {NoJob}]]
    BY <1>1 DEF LockExpires, TypeOK
  <2>2. faults' \in 0 .. MaxFaults
    BY <1>1, SpendType DEF LockExpires, TypeOK
  <2> QED
    BY <1>1, <2>1, <2>2 DEF LockExpires, TypeOK
<1>2. ASSUME NEW j \in JobId, Redeliver(j)
      PROVE  TypeOK'
  <2>1. job[j].step \in Step /\ job[j].args \in SUBSET Page
    BY DEF TypeOK, Job
  <2>2. job' \in [JobId -> Job]
    BY <1>2, <2>1, JobTypes DEF Redeliver, TypeOK
  <2> QED
    BY <1>2, <2>2 DEF Redeliver, TypeOK
<1>3. CASE StaleWatchdog
  <2>1. PICK S \in SUBSET Page : Watchdog(S)
    BY <1>3 DEF StaleWatchdog
  <2>2. ms' \in [Page -> [Step -> PageStatus]]
    BY <2>1 DEF Watchdog, TypeOK, PageStatus
  <2>3. bms' \in [Book -> [Step -> BookMilestone]]
    BY <2>1, RolledType DEF Watchdog, TypeOK
  <2>4. faults' \in 0 .. MaxFaults
    <3>1. Spend(0) \/ Spend(1)
      BY <2>1 DEF Watchdog
    <3> QED
      BY <3>1, SpendType DEF TypeOK
  <2> QED
    BY <2>1, <2>2, <2>3, <2>4 DEF Watchdog, TypeOK
<1>4. CASE PipelineDriver
  <2>1. ms' \in [Page -> [Step -> PageStatus]]
    BY <1>4 DEF PipelineDriver, Reset, TypeOK, PageStatus
  <2>2. bms' \in [Book -> [Step -> BookMilestone]]
    BY <1>4, RolledType DEF PipelineDriver, TypeOK
  <2>3. status' \in [Book -> {"pending", "ready", "error"}]
    BY <1>4 DEF PipelineDriver, TypeOK
  <2>4. retry' \in [Page -> 0 .. MaxRetries] /\ fresh' \subseteq Page
    BY <1>4, ConstantsAssumption DEF PipelineDriver, Refunded, TypeOK
  <2> QED
    BY <1>4, <2>1, <2>2, <2>3, <2>4 DEF PipelineDriver, TypeOK
<1> QED
  BY <1>1, <1>2, <1>3, <1>4 DEF Recover

LEMMA AutoCorrectType ==
  ASSUME TypeOK, NEW p \in Page, AutoCorrect(p)
  PROVE  TypeOK'
<1>1. Set(ms, {p}, "chunking", "idle") \in [Page -> [Step -> PageStatus]]
  BY SetType DEF TypeOK, PageStatus, Step
<1>2. CASE AutoCorrectPage(p)
  <2>1. ms' \in [Page -> [Step -> PageStatus]]
    BY <1>1, <1>2, SetType DEF AutoCorrectPage, PageStatus, Step
  <2>2. rewrites' \in 0 .. MaxRewrites
    BY <1>2, ConstantsAssumption DEF AutoCorrectPage, TypeOK
  <2> QED
    BY <1>2, <2>1, <2>2 DEF AutoCorrectPage, TypeOK
<1>3. CASE AutoCorrectEnds(p)
  <2>1. bms' \in [Book -> [Step -> BookMilestone]]
    BY <1>3, RolledType DEF AutoCorrectEnds, TypeOK
  <2> QED
    BY <1>3, <2>1 DEF AutoCorrectEnds, TypeOK
<1> QED
  BY <1>2, <1>3 DEF AutoCorrect

LEMMA NextType ==
  ASSUME TypeOK, [Next]_vars
  PROVE  TypeOK'
<1>1. CASE Scan
  BY <1>1, ScanType
<1>2. CASE \E j \in JobId : JobStep(j)
  BY <1>2, JobStepType
<1>3. CASE Fault
  BY <1>3, FaultType
<1>4. CASE Recover
  BY <1>4, RecoverType
<1>5. CASE \E p \in Page : AutoCorrect(p)
  BY <1>5, AutoCorrectType
<1>6. CASE UNCHANGED vars
  BY <1>6 DEF vars, TypeOK
<1> QED
  BY <1>1, <1>2, <1>3, <1>4, <1>5, <1>6 DEF Next

(* Every variable keeps its type.                                            *)
THEOREM TypeCorrect == Spec => []TypeOK
<1>1. TypeOK /\ [Next]_vars => TypeOK'
  BY NextType
<1> QED
  BY InitType, <1>1, PTL DEF Spec

-----------------------------------------------------------------------------
(* Mutual exclusion. The locks carry it: what a job took, it holds.          *)
LEMMA QueuedFacts ==
  \A s \in Step, P \in SUBSET Page :
    /\ Queued(s, P).phase = "queued" /\ Queued(s, P).step = s
    /\ Queued(s, P).taken = {}
BY DEF Queued, FreeJob

LEMMA FreeFacts == FreeJob.phase = "free" /\ FreeJob.taken = {}
BY DEF FreeJob

(* Trying locks ends a job with nothing or keeps its step and what it took.  *)
LEMMA TriedFacts ==
  ASSUME NEW r \in Job, NEW taken, NEW todo, r.phase = "queued"
  PROVE  \/ Tried(r, taken, todo).taken = {}
         \/ /\ Tried(r, taken, todo).taken = taken
            /\ Tried(r, taken, todo).step = r.step
            /\ Tried(r, taken, todo).phase # "dead"
BY FreeFacts DEF Tried, Job

(* A step that clears only locks of job j, and leaves it with nothing, keeps *)
(* the invariant.                                                            *)
LEMMA TakenReleased ==
  ASSUME TypeOK, TakenIsLocked, NEW j \in JobId, job'[j].taken = {},
         \A i \in JobId \ {j} : job'[i] = job[i],
         \A s \in Step, p \in Page : lock'[s][p] = lock[s][p] \/ lock[s][p] = j
  PROVE  TakenIsLocked'
<1> SUFFICES ASSUME ~JobsMayOutliveLocks, NEW i \in JobId
             PROVE  /\ job'[i].phase = "dead" => job'[i].taken = {}
                    /\ \A p \in job'[i].taken : lock'[job'[i].step][p] = i
  BY DEF TakenIsLocked
<1>1. CASE i = j
  BY <1>1
<1>2. CASE i # j
  <2>1. /\ job'[i] = job[i] /\ job[i].step \in Step /\ job[i].taken \subseteq Page
        /\ job[i].phase = "dead" => job[i].taken = {}
        /\ \A p \in job[i].taken : lock[job[i].step][p] = i
    BY <1>2 DEF TypeOK, Job, TakenIsLocked
  <2> QED
    BY <1>2, <2>1
<1> QED
  BY <1>1, <1>2

LEMMA ReleasedFacts ==
  ASSUME TypeOK, NEW j \in JobId
  PROVE  \A s \in Step, p \in Page :
           Released(j)[s][p] = lock[s][p] \/ lock[s][p] = j
BY DEF Released

LEMMA ClaimTaken ==
  ASSUME TypeOK, TakenIsLocked, NEW P \in SUBSET Page, NEW s \in Step, Claim(P, s)
  PROVE  TakenIsLocked'
<1>1. UNCHANGED lock
  BY DEF Claim
<1>2. CASE UNCHANGED job
  BY <1>1, <1>2 DEF TakenIsLocked
<1>3. ASSUME NEW k \in JobId, job' = [job EXCEPT ![k] = Queued(s, P)]
      PROVE  TakenIsLocked'
  <2>1. job'[k].taken = {}
    BY <1>3, QueuedFacts DEF TypeOK
  <2>2. \A i \in JobId \ {k} : job'[i] = job[i]
    BY <1>3 DEF TypeOK
  <2> QED
    BY <1>1, <2>1, <2>2, TakenReleased
<1> QED
  BY <1>2, <1>3 DEF Claim

LEMMA ScanTaken ==
  ASSUME TypeOK, TakenIsLocked, Scan
  PROVE  TakenIsLocked'
<1>0. Step = {"ocr", "chunking", "embedding", "spell_check"}
  BY DEF Step
<1>1. CASE \E b \in Book : OcrScan(b)
  BY <1>0, <1>1, ClaimTaken DEF OcrScan, PagesOf
<1>2. CASE ChunkingScan
  BY <1>0, <1>2, ClaimTaken DEF ChunkingScan
<1>3. CASE EmbeddingScan
  BY <1>0, <1>3, ClaimTaken DEF EmbeddingScan
<1>4. CASE SpellCheckScan
  BY <1>0, <1>4, ClaimTaken DEF SpellCheckScan
<1>5. CASE EventDispatcher
  <2>1. PICK E \in SUBSET events : Dispatch(E)
    BY <1>5 DEF EventDispatcher
  <2> DEFINE C == Claimable(E, ChunkingTrigger, "chunking")
             M == Claimable(E, {"chunking_succeeded"}, "embedding")
  <2>2. C \in SUBSET Page /\ M \in SUBSET Page
    BY <2>1 DEF TypeOK, Claimable, Event
  <2>3. PICK jc \in JobId \cup {NoJob}, jm \in JobId \cup {NoJob} :
          job' = [j \in JobId |-> IF j = jc THEN Queued("chunking", C)
                             ELSE IF j = jm THEN Queued("embedding", M)
                             ELSE job[j]]
    BY <2>1 DEF Dispatch
  <2>4. Queued("chunking", C).taken = {} /\ Queued("embedding", M).taken = {}
    BY <1>0, <2>2, QueuedFacts
  <2>5. \A j \in JobId : job'[j].taken = {} \/ job'[j] = job[j]
    BY <2>3, <2>4
  <2>6. UNCHANGED lock
    BY <2>1 DEF Dispatch
  <2> QED
    BY <2>5, <2>6 DEF TakenIsLocked
<1> QED
  BY <1>1, <1>2, <1>3, <1>4, <1>5 DEF Scan

LEMMA JobStepTaken ==
  ASSUME TypeOK, TakenIsLocked, NEW j \in JobId, JobStep(j)
  PROVE  TakenIsLocked'
<1>0. /\ job \in [JobId -> Job] /\ job[j] \in Job /\ job[j].step \in Step
      /\ job[j].taken \in SUBSET Page
      /\ lock \in [Step -> [Page -> JobId \cup {NoJob}]]
  BY DEF TypeOK, Job
<1>1. ASSUME NEW p \in Page, JobTryLock(j, p)
      PROVE  TakenIsLocked'
  <2> DEFINE s == job[j].step
             taken == IF lock[s][p] = NoJob THEN job[j].taken \cup {p} ELSE job[j].taken
             todo == job[j].todo \ {p}
  <2> SUFFICES ASSUME ~JobsMayOutliveLocks, NEW i \in JobId
               PROVE  /\ job'[i].phase = "dead" => job'[i].taken = {}
                      /\ \A q \in job'[i].taken : lock'[job'[i].step][q] = i
    BY DEF TakenIsLocked
  <2>1. /\ job[i].phase = "dead" => job[i].taken = {}
        /\ \A q \in job[i].taken : lock[job[i].step][q] = i
        /\ job[i].step \in Step /\ job[i].taken \subseteq Page
    BY DEF TakenIsLocked, TypeOK, Job
  <2>2. CASE i = j
    <3>1. job'[j] = Tried(job[j], taken, todo) /\ job[j].phase = "queued"
      BY <1>0, <1>1 DEF JobTryLock
    <3>2. \/ job'[j].taken = {}
          \/ job'[j].taken = taken /\ job'[j].step = s /\ job'[j].phase # "dead"
      BY <1>0, <3>1, TriedFacts
    <3>3. \A q \in taken : lock'[s][q] = j
      BY <1>0, <1>1, <2>1, <2>2 DEF JobTryLock
    <3> QED
      BY <2>2, <3>2, <3>3
  <2>3. CASE i # j
    <3>1. job'[i] = job[i]
      BY <1>0, <1>1, <2>3 DEF JobTryLock
    <3>2. \A t \in Step, q \in Page : lock[t][q] # NoJob => lock'[t][q] = lock[t][q]
      BY <1>0, <1>1 DEF JobTryLock
    <3>3. i # NoJob
      BY ConstantsAssumption
    <3> QED
      BY <2>1, <3>1, <3>2, <3>3
  <2> QED
    BY <2>2, <2>3
<1>2. CASE JobRelease(j)
  <2>1. job'[j].taken = {} /\ \A i \in JobId \ {j} : job'[i] = job[i]
    BY <1>0, <1>2, FreeFacts DEF JobRelease
  <2>2. \A t \in Step, q \in Page : lock'[t][q] = lock[t][q] \/ lock[t][q] = j
    BY <1>2, ReleasedFacts DEF JobRelease
  <2> QED
    BY <2>1, <2>2, TakenReleased
<1>3. ASSUME UNCHANGED lock, NEW r, job' = [job EXCEPT ![j] = r],
             r.taken = job[j].taken, r.step = job[j].step, r.phase # "dead"
      PROVE  TakenIsLocked'
  BY <1>0, <1>3 DEF TakenIsLocked
<1>4. CASE JobLoad(j)
  <2> DEFINE r == [job[j] EXCEPT !.phase = "working", !.todo = job[j].taken,
                     !.seen = [p \in Page |->
                        IF job[j].step = "ocr" /\ p \in job[j].taken THEN retry[p] ELSE 0]]
  <2>1. job' = [job EXCEPT ![j] = r]
    BY <1>0, <1>4 DEF JobLoad, Job
  <2>2. r.taken = job[j].taken /\ r.step = job[j].step /\ r.phase # "dead"
    BY <1>0 DEF Job
  <2> HIDE DEF r
  <2> QED
    BY <1>3, <1>4, <2>1, <2>2 DEF JobLoad
<1>5. CASE PdfFails(j)
  <2> DEFINE r == [job[j] EXCEPT !.phase = "working"]
  <2>1. job' = [job EXCEPT ![j] = r]
    BY <1>0, <1>5 DEF PdfFails
  <2>2. r.taken = job[j].taken /\ r.step = job[j].step /\ r.phase # "dead"
    BY <1>0 DEF Job
  <2> HIDE DEF r
  <2> QED
    BY <1>3, <1>5, <2>1, <2>2 DEF PdfFails
<1>6. ASSUME NEW p \in Page, Working(j, p), PageDone(j, p), UNCHANGED lock
      PROVE  TakenIsLocked'
  <2> DEFINE r == [job[j] EXCEPT !.todo = job[j].todo \ {p}]
  <2>1. job' = [job EXCEPT ![j] = r]
    BY <1>0, <1>6 DEF PageDone
  <2>2. r.taken = job[j].taken /\ r.step = job[j].step /\ r.phase # "dead"
    BY <1>0, <1>6 DEF Job, Working
  <2> HIDE DEF r
  <2> QED
    BY <1>3, <1>6, <2>1, <2>2
<1>7. CASE \E p \in Page : \/ PageSucceeds(j, p) \/ SpellCheckRewrites(j, p)
                           \/ OcrPageFails(j, p) \/ PageFails(j, p)
  BY <1>6, <1>7 DEF PageSucceeds, SpellCheckRewrites, OcrPageFails, PageFails
<1>8. CASE JobFinish(j)
  <2> DEFINE r == [job[j] EXCEPT !.phase = "releasing"]
  <2>1. job' = [job EXCEPT ![j] = r]
    BY <1>0, <1>8 DEF JobFinish
  <2>2. r.taken = job[j].taken /\ r.step = job[j].step /\ r.phase # "dead"
    BY <1>0 DEF Job
  <2> HIDE DEF r
  <2> QED
    BY <1>3, <1>8, <2>1, <2>2 DEF JobFinish
<1> QED
  BY <1>1, <1>2, <1>4, <1>5, <1>7, <1>8 DEF JobStep

LEMMA FaultTaken ==
  ASSUME TypeOK, TakenIsLocked, Fault
  PROVE  TakenIsLocked'
<1>0. /\ job \in [JobId -> Job]
      /\ \A j \in JobId : /\ job[j] \in Job
                          /\ job[j].step \in Step /\ job[j].args \in SUBSET Page
  BY DEF TypeOK, Job
<1>1. ASSUME NEW j \in JobId, JobRaises(j)
      PROVE  TakenIsLocked'
  <2> DEFINE r == [job[j] EXCEPT !.phase = "releasing"]
  <2>1. job' = [job EXCEPT ![j] = r] /\ UNCHANGED lock
    BY <1>0, <1>1 DEF JobRaises
  <2>2. r.taken = job[j].taken /\ r.step = job[j].step /\ r.phase # "dead"
    BY <1>0 DEF Job
  <2> HIDE DEF r
  <2> QED
    BY <1>0, <2>1, <2>2 DEF TakenIsLocked
<1>2. ASSUME NEW j \in JobId, JobCancelled(j)
      PROVE  TakenIsLocked'
  <2>1. job'[j].taken = {} /\ \A i \in JobId \ {j} : job'[i] = job[i]
    BY <1>0, <1>2, QueuedFacts DEF JobCancelled
  <2>2. \A t \in Step, q \in Page : lock'[t][q] = lock[t][q] \/ lock[t][q] = j
    BY <1>2, ReleasedFacts DEF JobCancelled
  <2> QED
    BY <2>1, <2>2, TakenReleased
<1>3. ASSUME NEW j \in JobId, GiveUp(j)
      PROVE  TakenIsLocked'
  BY <1>0, <1>3, FreeFacts, TakenReleased DEF GiveUp
<1>4. ASSUME NEW J \in SUBSET JobId, WorkerCrash(J)
      PROVE  TakenIsLocked'
  <2>1. \A j \in JobId : [FreeJob EXCEPT !.phase = "dead", !.step = job[j].step,
                                         !.args = job[j].args].taken = {}
    BY DEF FreeJob
  <2>2. \A i \in JobId : job'[i].taken = {} \/ job'[i] = job[i]
    BY <1>4, <2>1 DEF WorkerCrash
  <2>3. UNCHANGED lock
    BY <1>4 DEF WorkerCrash
  <2> QED
    BY <2>2, <2>3 DEF TakenIsLocked
<1>5. ASSUME NEW j \in JobId, NEW p \in Page, JobLockError(j, p)
      PROVE  TakenIsLocked'
  <2> DEFINE r == Tried(job[j], job[j].taken, job[j].todo \ {p})
  <2>1. job' = [job EXCEPT ![j] = r] /\ UNCHANGED lock /\ job[j].phase = "queued"
    BY <1>5 DEF JobLockError
  <2>2. \/ r.taken = {}
        \/ r.taken = job[j].taken /\ r.step = job[j].step /\ r.phase # "dead"
    BY <1>0, <2>1, TriedFacts
  <2> HIDE DEF r
  <2>3. job'[j] = r /\ \A i \in JobId \ {j} : job'[i] = job[i]
    BY <1>0, <2>1
  <2> QED
    BY <2>1, <2>2, <2>3 DEF TakenIsLocked
<1> QED
  BY <1>1, <1>2, <1>3, <1>4, <1>5 DEF Fault

LEMMA RecoverTaken ==
  ASSUME TypeOK, TakenIsLocked, Recover
  PROVE  TakenIsLocked'
<1>1. ASSUME NEW s \in Step, NEW p \in Page, LockExpires(s, p)
      PROVE  TakenIsLocked'
  <2> SUFFICES ASSUME ~JobsMayOutliveLocks, NEW i \in JobId
               PROVE  /\ job[i].phase = "dead" => job[i].taken = {}
                      /\ \A q \in job[i].taken : lock'[job[i].step][q] = i
    BY <1>1 DEF TakenIsLocked, LockExpires
  <2>1. job[lock[s][p]].phase = "dead"
    BY <1>1 DEF LockExpires
  <2>2. job[i].step \in Step /\ job[i].taken \subseteq Page
    BY DEF TypeOK, Job
  <2>3. /\ job[i].phase = "dead" => job[i].taken = {}
        /\ \A q \in job[i].taken : lock[job[i].step][q] = i
    BY DEF TakenIsLocked
  <2>4. ~(job[i].step = s /\ p \in job[i].taken)
    BY <2>1, <2>3
  <2> QED
    BY <1>1, <2>2, <2>3, <2>4 DEF LockExpires, TypeOK
<1>2. ASSUME NEW j \in JobId, Redeliver(j)
      PROVE  TakenIsLocked'
  <2>1. job[j].step \in Step /\ job[j].args \in SUBSET Page
    BY DEF TypeOK, Job
  <2> QED
    BY <1>2, <2>1, QueuedFacts, TakenReleased DEF Redeliver, TypeOK
<1>3. CASE StaleWatchdog
  BY <1>3 DEF StaleWatchdog, Watchdog, TakenIsLocked
<1>4. CASE PipelineDriver
  BY <1>4 DEF PipelineDriver, TakenIsLocked
<1> QED
  BY <1>1, <1>2, <1>3, <1>4 DEF Recover

LEMMA NextTaken ==
  ASSUME TypeOK, TakenIsLocked, [Next]_vars
  PROVE  TakenIsLocked'
<1>1. CASE Scan
  BY <1>1, ScanTaken
<1>2. CASE \E j \in JobId : JobStep(j)
  BY <1>2, JobStepTaken
<1>3. CASE Fault
  BY <1>3, FaultTaken
<1>4. CASE Recover
  BY <1>4, RecoverTaken
<1>5. CASE \E p \in Page : AutoCorrect(p)
  BY <1>5 DEF AutoCorrect, AutoCorrectPage, AutoCorrectEnds, TakenIsLocked
<1>6. CASE UNCHANGED vars
  BY <1>6 DEF vars, TakenIsLocked
<1> QED
  BY <1>1, <1>2, <1>3, <1>4, <1>5, <1>6 DEF Next

(* A page is worked on by one job of a step at a time, however many jobs,    *)
(* crashes, redeliveries and repeated claims (MultiPageLock).                *)
THEOREM NoPageIsWorkedTwice == Spec => []MutualExclusion
<1>1. Init => TakenIsLocked
  BY FreeFacts DEF Init, TakenIsLocked
<1>2. TypeOK /\ TakenIsLocked /\ [Next]_vars => TakenIsLocked'
  BY NextTaken
<1>3. TypeOK /\ TakenIsLocked => MutualExclusion
  <2> SUFFICES ASSUME TypeOK, TakenIsLocked, ~JobsMayOutliveLocks,
                      NEW i \in JobId, NEW j \in JobId,
                      i # j, job[i].step = job[j].step
               PROVE  job[i].taken \cap job[j].taken = {}
    BY DEF MutualExclusion
  <2>1. /\ \A p \in job[i].taken : lock[job[i].step][p] = i
        /\ \A p \in job[j].taken : lock[job[j].step][p] = j
    BY DEF TakenIsLocked
  <2> QED
    BY <2>1
<1> QED
  BY <1>1, <1>2, <1>3, TypeCorrect, PTL DEF Spec

(* A job only ever changes free locks and its own.                           *)
THEOREM JobsKeepOthersLocks == Spec => OnlyOwnLocks
<1> DEFINE Kept == \A j \in JobId : job'[j] # job[j] =>
                     \A s \in Step, p \in Page :
                       lock[s][p] \notin {NoJob, j} => lock'[s][p] = lock[s][p]
<1>1. ASSUME TypeOK, [Next]_vars
      PROVE  Kept
  <2>1. ASSUME UNCHANGED lock
        PROVE  Kept
    BY <2>1
  <2>2. ASSUME NEW i \in JobId, \A j \in JobId \ {i} : job'[j] = job[j],
               lock' = Released(i)
        PROVE  Kept
    BY <1>1, <2>2, ReleasedFacts
  <2>3. CASE Scan
    <3>1. UNCHANGED lock
      BY <2>3 DEF Scan, OcrScan, ChunkingScan, EmbeddingScan, SpellCheckScan,
                  EventDispatcher, Dispatch, Claim
    <3> QED
      BY <2>1, <3>1
  <2>4. ASSUME NEW i \in JobId, JobStep(i)
        PROVE  Kept
    <3>1. ASSUME NEW p \in Page, JobTryLock(i, p)
          PROVE  Kept
      <4>1. \A t \in Step, q \in Page : lock[t][q] # NoJob => lock'[t][q] = lock[t][q]
        BY <1>1, <3>1 DEF JobTryLock, TypeOK
      <4> QED
        BY <4>1
    <3>2. CASE JobRelease(i)
      <4>1. \A j \in JobId \ {i} : job'[j] = job[j]
        BY <1>1, <3>2 DEF JobRelease, TypeOK
      <4> QED
        BY <2>2, <3>2, <4>1 DEF JobRelease
    <3>3. CASE UNCHANGED lock
      BY <2>1, <3>3
    <3> QED
      BY <2>4, <3>1, <3>2, <3>3 DEF JobStep, JobLoad, PdfFails, JobFinish, PageSucceeds,
           SpellCheckRewrites, OcrPageFails, PageFails
  <2>5. CASE Fault
    <3>1. ASSUME NEW i \in JobId, JobCancelled(i)
          PROVE  Kept
      <4>1. \A j \in JobId \ {i} : job'[j] = job[j]
        BY <1>1, <3>1 DEF JobCancelled, TypeOK
      <4> QED
        BY <2>2, <3>1, <4>1 DEF JobCancelled
    <3> QED
      BY <2>1, <2>5, <3>1 DEF Fault, JobRaises, GiveUp, WorkerCrash, JobLockError
  <2>6. CASE Recover
    <3>1. ASSUME NEW s \in Step, NEW p \in Page, LockExpires(s, p)
          PROVE  Kept
      BY <3>1 DEF LockExpires
    <3> QED
      BY <2>1, <2>6, <3>1 DEF Recover, Redeliver, StaleWatchdog, Watchdog, PipelineDriver
  <2>7. CASE \E p \in Page : AutoCorrect(p)
    BY <2>1, <2>7 DEF AutoCorrect, AutoCorrectPage, AutoCorrectEnds
  <2>8. CASE UNCHANGED vars
    BY <2>1, <2>8 DEF vars
  <2> QED
    BY <1>1, <2>3, <2>4, <2>5, <2>6, <2>7, <2>8 DEF Next
<1> QED
  BY <1>1, TypeCorrect, PTL DEF Spec, OnlyOwnLocks

-----------------------------------------------------------------------------
(* The OCR milestones. A step keeps them honest when it fails no page, loses *)
(* no success, and leaves the milestone of a book alone or rolls it up from  *)
(* the pages it leaves behind.                                               *)
PagesKept == \A p \in Page : /\ ms'[p]["ocr"] # "failed"
                             /\ ms[p]["ocr"] = "succeeded" => ms'[p]["ocr"] = "succeeded"
BooksKept == \A b \in Book :
  \/ bms'[b]["ocr"] = bms[b]["ocr"]
  \/ bms'[b]["ocr"] = RollUp([p \in Page |-> ms'[p]["ocr"]], PagesOf(b))

NoOcrFails == "ocr" \notin FailableStep => \A p \in Page : ms[p]["ocr"] # "failed"
OcrStays == "ocr" \notin FailableStep => PagesKept /\ BooksKept

LEMMA OcrKept ==
  ASSUME OcrMilestoneIsEarned, OcrStays
  PROVE  OcrMilestoneIsEarned'
<1> SUFFICES ASSUME "ocr" \notin FailableStep
             PROVE  /\ \A p \in Page : ms'[p]["ocr"] # "failed"
                    /\ \A b \in Book :
                         /\ bms'[b]["ocr"] # "failed"
                         /\ bms'[b]["ocr"] = "complete" =>
                              \A p \in PagesOf(b) : ms'[p]["ocr"] = "succeeded"
  BY DEF OcrMilestoneIsEarned
<1>1. PagesKept /\ BooksKept
  BY DEF OcrStays
<1> SUFFICES ASSUME NEW b \in Book
             PROVE  /\ bms'[b]["ocr"] # "failed"
                    /\ bms'[b]["ocr"] = "complete" =>
                         \A p \in PagesOf(b) : ms'[p]["ocr"] = "succeeded"
  BY <1>1 DEF PagesKept
<1>2. PagesOf(b) \subseteq Page
  BY DEF PagesOf
<1>3. CASE bms'[b]["ocr"] = bms[b]["ocr"]
  BY <1>1, <1>2, <1>3 DEF PagesKept, OcrMilestoneIsEarned
<1>4. CASE bms'[b]["ocr"] = RollUp([p \in Page |-> ms'[p]["ocr"]], PagesOf(b))
  <2> DEFINE m == [p \in Page |-> ms'[p]["ocr"]]
  <2>1. \A p \in PagesOf(b) : m[p] = ms'[p]["ocr"] /\ m[p] # "failed"
    BY <1>1, <1>2 DEF PagesKept
  <2>2. IsFiniteSet(PagesOf(b))
    BY <1>2, FiniteAssumption, FS_Subset
  <2> HIDE DEF m
  <2>3. /\ RollUp(m, PagesOf(b)) = "complete" =>
             \A p \in PagesOf(b) : m[p] = "succeeded"
        /\ RollUp(m, PagesOf(b)) = "failed" =>
             PagesOf(b) # {} /\ \A p \in PagesOf(b) : m[p] = "failed"
    BY <2>2, CompleteMeansAllSucceeded, FailedMeansAllFailed
  <2> QED
    BY <1>4, <2>1, <2>3 DEF m
<1> QED
  BY <1>1, <1>3, <1>4 DEF BooksKept

(* Rolling up the steps S of the books B touches the OCR milestone of a book *)
(* only if OCR is one of S.                                                  *)
LEMMA RolledOcr ==
  ASSUME NEW c \in [Book -> [Step -> BookMilestone]], NEW m, NEW B, NEW S, NEW b \in Book
  PROVE  \/ Rolled(c, m, B, S)[b]["ocr"] = c[b]["ocr"]
         \/ Rolled(c, m, B, S)[b]["ocr"] = RollUp([p \in Page |-> m[p]["ocr"]], PagesOf(b))
<1>1. "ocr" \in Step
  BY DEF Step
<1> QED
  BY <1>1 DEF Rolled

LEMMA RolledWithoutOcr ==
  ASSUME NEW c \in [Book -> [Step -> BookMilestone]], NEW m, NEW B, NEW S, "ocr" \notin S,
         NEW b \in Book
  PROVE  Rolled(c, m, B, S)[b]["ocr"] = c[b]["ocr"]
<1>1. "ocr" \in Step
  BY DEF Step
<1> QED
  BY <1>1 DEF Rolled

LEMMA RolledKept ==
  ASSUME TypeOK, NEW B, NEW S, bms' = Rolled(bms, ms', B, S)
  PROVE  BooksKept
<1>1. bms \in [Book -> [Step -> BookMilestone]]
  BY DEF TypeOK
<1>2. ASSUME NEW b \in Book
      PROVE  \/ Rolled(bms, ms', B, S)[b]["ocr"] = bms[b]["ocr"]
             \/ Rolled(bms, ms', B, S)[b]["ocr"] =
                  RollUp([p \in Page |-> ms'[p]["ocr"]], PagesOf(b))
  BY <1>1, RolledOcr
<1> QED
  BY <1>2 DEF BooksKept

LEMMA SetOcr ==
  ASSUME NEW m \in [Page -> [Step -> PageStatus]], NEW P, NEW s \in Step, NEW v,
         NEW p \in Page
  PROVE  Set(m, P, s, v)[p]["ocr"] = IF s = "ocr" /\ p \in P THEN v ELSE m[p]["ocr"]
<1>1. "ocr" \in Step /\ m[p] \in [Step -> PageStatus]
  BY DEF Step
<1> QED
  BY <1>1 DEF Set

LEMMA ClaimOcr ==
  ASSUME TypeOK, NoOcrFails, NEW P \in SUBSET Page, NEW s \in Step,
         Claim(P, s), s = "ocr" => \A p \in P : ms[p]["ocr"] = "idle"
  PROVE  OcrStays
<1>1. BooksKept
  BY RolledKept DEF Claim
<1>2. \A p \in Page : ms'[p]["ocr"] = IF s = "ocr" /\ p \in P THEN "in_progress"
                                                          ELSE ms[p]["ocr"]
  BY SetOcr DEF Claim, TypeOK
<1>3. "ocr" \notin FailableStep => PagesKept
  BY <1>2 DEF PagesKept, NoOcrFails
<1> QED
  BY <1>1, <1>3 DEF OcrStays

LEMMA ScanOcr ==
  ASSUME TypeOK, NoOcrFails, Scan
  PROVE  OcrStays
<1>0. Step = {"ocr", "chunking", "embedding", "spell_check"}
  BY DEF Step
<1>a. "chunking" \in Step /\ "embedding" \in Step
  BY <1>0
<1>1. CASE \E b \in Book : OcrScan(b)
  BY <1>0, <1>1, ClaimOcr DEF OcrScan, PagesOf
<1>2. CASE ChunkingScan
  BY <1>0, <1>2, ClaimOcr DEF ChunkingScan
<1>3. CASE EmbeddingScan
  BY <1>0, <1>3, ClaimOcr DEF EmbeddingScan
<1>4. CASE SpellCheckScan
  BY <1>0, <1>4, ClaimOcr DEF SpellCheckScan
<1>5. CASE EventDispatcher
  <2>1. PICK E \in SUBSET events : Dispatch(E)
    BY <1>5 DEF EventDispatcher
  <2> DEFINE C == Claimable(E, ChunkingTrigger, "chunking")
             M == Claimable(E, {"chunking_succeeded"}, "embedding")
             m1 == Set(ms, C, "chunking", "in_progress")
             r1 == Rolled(bms, ms', BooksOf(C), {"chunking"})
  <2>2. m1 \in [Page -> [Step -> PageStatus]] /\ \A p \in Page : m1[p]["ocr"] = ms[p]["ocr"]
    <3>1. ms \in [Page -> [Step -> PageStatus]] /\ "in_progress" \in PageStatus
      BY DEF TypeOK, PageStatus
    <3> HIDE DEF C
    <3>2. m1 \in [Page -> [Step -> PageStatus]]
      BY <1>0, <3>1, SetType
    <3>3. ASSUME NEW p \in Page
          PROVE  m1[p]["ocr"] = ms[p]["ocr"]
      <4> HIDE DEF m1
      <4>1. m1 = Set(ms, C, "chunking", "in_progress")
        BY DEF m1
      <4>2. Set(ms, C, "chunking", "in_progress")[p]["ocr"] = ms[p]["ocr"]
        BY <1>a, <3>1, SetOcr
      <4> QED
        BY <4>1, <4>2
    <3> QED
      BY <3>2, <3>3
  <2>3. \A p \in Page : ms'[p]["ocr"] = ms[p]["ocr"]
    <3>1. ms' = Set(m1, M, "embedding", "in_progress")
      BY <2>1 DEF Dispatch
    <3> HIDE DEF m1, M
    <3> SUFFICES ASSUME NEW p \in Page PROVE ms'[p]["ocr"] = ms[p]["ocr"]
      OBVIOUS
    <3>2. Set(m1, M, "embedding", "in_progress")[p]["ocr"] = m1[p]["ocr"]
      <4>1. m1 \in [Page -> [Step -> PageStatus]]
        BY <2>2
      <4> QED
        BY <1>a, <4>1, SetOcr
    <3> QED
      BY <2>2, <3>1, <3>2
  <2>4. r1 \in [Book -> [Step -> BookMilestone]] /\ \A b \in Book : r1[b]["ocr"] = bms[b]["ocr"]
    <3>1. bms \in [Book -> [Step -> BookMilestone]]
      BY DEF TypeOK
    <3> HIDE DEF C
    <3>2. r1 \in [Book -> [Step -> BookMilestone]]
      BY <3>1, RolledType
    <3>3. ASSUME NEW b \in Book
          PROVE  r1[b]["ocr"] = bms[b]["ocr"]
      <4> HIDE DEF r1
      <4>1. r1 = Rolled(bms, ms', BooksOf(C), {"chunking"})
        BY DEF r1
      <4>2. Rolled(bms, ms', BooksOf(C), {"chunking"})[b]["ocr"] = bms[b]["ocr"]
        BY <3>1, RolledWithoutOcr
      <4> QED
        BY <4>1, <4>2
    <3> QED
      BY <3>2, <3>3
  <2>5. \A b \in Book : bms'[b]["ocr"] = bms[b]["ocr"]
    <3>1. bms' = Rolled(r1, ms', BooksOf(M), {"embedding"})
      BY <2>1 DEF Dispatch
    <3> HIDE DEF r1, M
    <3> SUFFICES ASSUME NEW b \in Book PROVE bms'[b]["ocr"] = bms[b]["ocr"]
      OBVIOUS
    <3>2. Rolled(r1, ms', BooksOf(M), {"embedding"})[b]["ocr"] = r1[b]["ocr"]
      <4>1. r1 \in [Book -> [Step -> BookMilestone]]
        BY <2>4
      <4> QED
        BY <4>1, RolledWithoutOcr
    <3> QED
      BY <2>4, <3>1, <3>2
  <2> QED
    BY <2>3, <2>5 DEF OcrStays, PagesKept, BooksKept, NoOcrFails
<1> QED
  BY <1>1, <1>2, <1>3, <1>4, <1>5 DEF Scan

(* A job fails an OCR page only when OCR can fail; its other steps leave the *)
(* OCR milestone of every page alone, or let it succeed.                     *)
LEMMA JobStepOcr ==
  ASSUME TypeOK, NoOcrFails, NEW j \in JobId, JobStep(j)
  PROVE  OcrStays
<1>0. /\ ms \in [Page -> [Step -> PageStatus]] /\ job[j].step \in Step
      /\ "chunking" \in Step /\ "embedding" \in Step /\ "spell_check" \in Step
      /\ "succeeded" \in PageStatus /\ "idle" \in PageStatus
  BY DEF TypeOK, Job, Step, PageStatus
<1>1. CASE UNCHANGED <<ms, bms>>
  BY <1>1 DEF NoOcrFails, OcrStays, PagesKept, BooksKept
<1>2. ASSUME UNCHANGED bms, "ocr" \notin FailableStep => PagesKept
      PROVE  OcrStays
  BY <1>2 DEF OcrStays, BooksKept
<1>3. ASSUME NEW p \in Page, PageSucceeds(j, p)
      PROVE  OcrStays
  <2>1. UNCHANGED bms /\ ms' = Set(ms, {p}, job[j].step, "succeeded")
    BY <1>3 DEF PageSucceeds
  <2>2. \A q \in Page : ms'[q]["ocr"] \in {"succeeded", ms[q]["ocr"]}
    BY <1>0, <2>1, SetOcr
  <2>3. "ocr" \notin FailableStep => PagesKept
    BY <2>2 DEF PagesKept, NoOcrFails
  <2> QED
    BY <1>2, <2>1, <2>3
<1>4. ASSUME NEW p \in Page, SpellCheckRewrites(j, p)
      PROVE  OcrStays
  <2> DEFINE m1 == Set(ms, {p}, "spell_check", "succeeded")
             m2 == Set(m1, {p}, "chunking", "idle")
  <2>1. m1 \in [Page -> [Step -> PageStatus]] /\ m2 \in [Page -> [Step -> PageStatus]]
    BY <1>0, SetType
  <2>2. UNCHANGED bms /\ ms' = Set(m2, {p}, "embedding", "idle")
    BY <1>4 DEF SpellCheckRewrites
  <2>3. ASSUME NEW q \in Page
        PROVE  ms'[q]["ocr"] = ms[q]["ocr"]
    <3>1. m1[q]["ocr"] = ms[q]["ocr"]
      BY <1>0, SetOcr
    <3>2. m2[q]["ocr"] = m1[q]["ocr"]
      <4> HIDE DEF m1
      <4> QED
        BY <1>0, <2>1, SetOcr
    <3>3. ms'[q]["ocr"] = m2[q]["ocr"]
      <4> HIDE DEF m1, m2
      <4>1. m2 \in [Page -> [Step -> PageStatus]]
        BY <2>1
      <4> QED
        BY <1>0, <2>2, <4>1, SetOcr
    <3> HIDE DEF m1, m2
    <3> QED
      BY <3>1, <3>2, <3>3
  <2>4. "ocr" \notin FailableStep => PagesKept
    BY <2>3 DEF PagesKept, NoOcrFails
  <2> QED
    BY <1>2, <2>2, <2>4
<1>5. ASSUME NEW p \in Page, OcrPageFails(j, p)
      PROVE  OcrStays
  BY <1>5 DEF OcrPageFails, OcrStays
<1>6. CASE PdfFails(j)
  BY <1>6 DEF PdfFails, OcrStays
<1>7. ASSUME NEW p \in Page, PageFails(j, p)
      PROVE  OcrStays
  <2>1. /\ UNCHANGED bms /\ ms' = Set(ms, {p}, job[j].step, "failed")
        /\ job[j].step # "ocr"
    BY <1>7 DEF PageFails
  <2>2. \A q \in Page : ms'[q]["ocr"] = ms[q]["ocr"]
    BY <1>0, <2>1, SetOcr
  <2>3. "ocr" \notin FailableStep => PagesKept
    BY <2>2 DEF PagesKept, NoOcrFails
  <2> QED
    BY <1>2, <2>1, <2>3
<1>8. CASE JobFinish(j)
  <2>1. UNCHANGED ms /\ bms' = Rolled(bms, ms, BooksOf(job[j].taken), {job[j].step})
    BY <1>8 DEF JobFinish
  <2>2. bms' = Rolled(bms, ms', BooksOf(job[j].taken), {job[j].step})
    BY <2>1
  <2>3. BooksKept
    BY <2>2, RolledKept
  <2>4. "ocr" \notin FailableStep => PagesKept
    BY <2>1 DEF PagesKept, NoOcrFails
  <2> QED
    BY <2>3, <2>4 DEF OcrStays
<1>9. CASE JobLoad(j) \/ JobRelease(j) \/ \E p \in Page : JobTryLock(j, p)
  BY <1>1, <1>9 DEF JobLoad, JobRelease, JobTryLock
<1> QED
  BY <1>3, <1>4, <1>5, <1>6, <1>7, <1>8, <1>9 DEF JobStep

LEMMA RecoverOcr ==
  ASSUME TypeOK, NoOcrFails, Recover
  PROVE  OcrStays
<1>0. "ocr" \in Step
  BY DEF Step
<1>1. CASE StaleWatchdog
  <2>1. PICK S \in SUBSET Page : Watchdog(S)
    BY <1>1 DEF StaleWatchdog
  <2>2. BooksKept
    BY <2>1, RolledKept DEF Watchdog
  <2>3. \A p \in Page : ms'[p]["ocr"] = IF p \in S /\ ms[p]["ocr"] = "in_progress"
                                          THEN "idle" ELSE ms[p]["ocr"]
    BY <1>0, <2>1 DEF Watchdog
  <2>4. "ocr" \notin FailableStep => PagesKept
    BY <2>3 DEF PagesKept, NoOcrFails
  <2> QED
    BY <2>2, <2>4 DEF OcrStays
<1>2. CASE PipelineDriver
  <2>1. ms' = Reset /\ bms' = Rolled(bms, ms', Settled(Reset, Refunded), Step)
    BY <1>2 DEF PipelineDriver
  <2>2. BooksKept
    <3>1. bms' = Rolled(bms, ms', Settled(Reset, Refunded), Step)
      BY <2>1
    <3> QED
      BY <3>1, RolledKept
  <2>3. \A p \in Page : ms[p]["ocr"] # "failed" => ms'[p]["ocr"] = ms[p]["ocr"]
    BY <1>0, <2>1 DEF Reset
  <2>4. "ocr" \notin FailableStep => PagesKept
    BY <2>3 DEF PagesKept, NoOcrFails
  <2> QED
    BY <2>2, <2>4 DEF OcrStays
<1>3. CASE UNCHANGED <<ms, bms>>
  BY <1>3 DEF NoOcrFails, OcrStays, PagesKept, BooksKept
<1> QED
  BY <1>1, <1>2, <1>3 DEF Recover, LockExpires, Redeliver

LEMMA AutoCorrectOcr ==
  ASSUME TypeOK, NoOcrFails, NEW p \in Page, AutoCorrect(p)
  PROVE  OcrStays
<1>1. CASE AutoCorrectPage(p)
  <2> DEFINE m1 == Set(ms, {p}, "chunking", "idle")
  <2>0. /\ ms \in [Page -> [Step -> PageStatus]] /\ "idle" \in PageStatus
        /\ "chunking" \in Step /\ "embedding" \in Step
    BY DEF TypeOK, Step, PageStatus
  <2>1. m1 \in [Page -> [Step -> PageStatus]]
    BY <2>0, SetType
  <2>2. ms' = Set(m1, {p}, "embedding", "idle") /\ UNCHANGED bms
    BY <1>1 DEF AutoCorrectPage
  <2>3. ASSUME NEW q \in Page
        PROVE  ms'[q]["ocr"] = ms[q]["ocr"]
    <3>1. m1[q]["ocr"] = ms[q]["ocr"]
      BY <2>0, SetOcr
    <3> HIDE DEF m1
    <3> QED
      BY <2>0, <2>1, <2>2, <3>1, SetOcr
  <2>4. "ocr" \notin FailableStep => PagesKept
    BY <2>3 DEF PagesKept, NoOcrFails
  <2> QED
    BY <2>2, <2>4 DEF OcrStays, BooksKept
<1>2. CASE AutoCorrectEnds(p)
  <2>1. UNCHANGED ms /\ bms' = Rolled(bms, ms', {BookOf[p]}, Step)
    BY <1>2 DEF AutoCorrectEnds
  <2>2. BooksKept
    BY <2>1, RolledKept
  <2>3. "ocr" \notin FailableStep => PagesKept
    BY <2>1 DEF PagesKept, NoOcrFails
  <2> QED
    BY <2>2, <2>3 DEF OcrStays
<1> QED
  BY <1>1, <1>2 DEF AutoCorrect

LEMMA NextOcr ==
  ASSUME TypeOK, OcrMilestoneIsEarned, [Next]_vars
  PROVE  OcrMilestoneIsEarned'
<1>0. NoOcrFails
  BY DEF NoOcrFails, OcrMilestoneIsEarned
<1>1. CASE Scan
  BY <1>0, <1>1, ScanOcr, OcrKept
<1>2. CASE \E j \in JobId : JobStep(j)
  BY <1>0, <1>2, JobStepOcr, OcrKept
<1>3. CASE Recover
  BY <1>0, <1>3, RecoverOcr, OcrKept
<1>4. CASE \E p \in Page : AutoCorrect(p)
  BY <1>0, <1>4, AutoCorrectOcr, OcrKept
<1>5. CASE UNCHANGED <<ms, bms>>
  BY <1>5 DEF OcrMilestoneIsEarned
<1>6. CASE Fault
  BY <1>5, <1>6 DEF Fault, JobRaises, JobCancelled, GiveUp, WorkerCrash, JobLockError
<1> QED
  BY <1>1, <1>2, <1>3, <1>4, <1>5, <1>6 DEF Next, vars

(* The inductive invariant: types, locks behind what jobs took, and earned   *)
(* OCR milestones.                                                           *)
THEOREM PipelineInvariant == Spec => []IInv
<1>1. Init => IInv
  <2> SUFFICES ASSUME Init PROVE IInv
    OBVIOUS
  <2>1. TakenIsLocked
    BY FreeFacts DEF Init, TakenIsLocked
  <2>2. PICK Docx \in SUBSET Book :
          /\ ms = [p \in Page |-> [s \in Step |->
                     IF s = "ocr" /\ BookOf[p] \in Docx THEN "succeeded" ELSE "idle"]]
          /\ bms = [b \in Book |-> [s \in Step |->
                     IF s = "ocr" /\ b \in Docx THEN "complete" ELSE "idle"]]
    BY DEF Init
  <2>3. OcrMilestoneIsEarned
    BY <2>2 DEF OcrMilestoneIsEarned, PagesOf, Step
  <2> QED
    BY InitType, <2>1, <2>3 DEF IInv
<1>2. IInv /\ [Next]_vars => IInv'
  BY NextType, NextTaken, NextOcr DEF IInv
<1> QED
  BY <1>1, <1>2, PTL DEF Spec

(* While OCR does not fail, the OCR scanner sees every idle page: no book    *)
(* milestone says complete or failed over a page that waits.                 *)
THEOREM IdleOcrPagesAreSeen == Spec => []IdleOcrPageIsVisible
<1>1. IInv => IdleOcrPageIsVisible
  <2> SUFFICES ASSUME IInv, "ocr" \notin FailableStep,
                      NEW p \in Page, ms[p]["ocr"] = "idle"
               PROVE  bms[BookOf[p]]["ocr"] \in OcrScannable
    BY DEF IdleOcrPageIsVisible
  <2>1. BookOf[p] \in Book /\ p \in PagesOf(BookOf[p])
    BY ConstantsAssumption DEF PagesOf
  <2>2. bms[BookOf[p]]["ocr"] \in BookMilestone
    BY <2>1 DEF IInv, TypeOK, Step
  <2>3. bms[BookOf[p]]["ocr"] \notin {"complete", "failed"}
    BY <2>1 DEF IInv, OcrMilestoneIsEarned
  <2> QED
    BY <2>2, <2>3 DEF BookMilestone, OcrScannable
<1> QED
  BY <1>1, PipelineInvariant, PTL
===========================================================================
