---------------------- MODULE PipelineOwnership_proofs ----------------------
(* The page pipeline implements PageOwnership, for any books, pages, jobs and*)
(* bounds, as long as no job outlives its locks.                             *)
EXTENDS PipelineOwnership, PagePipeline_proofs

(* A job works pages it has locked: once it holds its pages, what is left to *)
(* do is among them.                                                         *)
TodoIsTaken ==
  \A j \in JobId : /\ job[j].phase = "locked" => job[j].todo = {}
                   /\ job[j].phase = "working" => job[j].todo \subseteq job[j].taken

LEMMA HeldFacts ==
  ASSUME TypeOK, TodoIsTaken, NEW j \in JobId
  PROVE  /\ job[j].step \in Step /\ HeldPages(j) \subseteq job[j].taken
         /\ HeldPages(j) \in SUBSET Page /\ Held(j) \in SUBSET Item
<1>1. job[j].step \in Step /\ job[j].taken \subseteq Page
  BY DEF TypeOK, Job
<1>2. HeldPages(j) \subseteq job[j].taken
  BY DEF HeldPages, TodoIsTaken
<1> QED
  BY <1>1, <1>2 DEF Held, Item

LEMMA ItemsOfPages ==
  ASSUME NEW s, NEW P
  PROVE  {s} \X P = {} <=> P = {}
<1>1. ASSUME NEW p \in P PROVE <<s, p>> \in {s} \X P
  OBVIOUS
<1> QED
  BY <1>1

Forgets(s, p) == Recorded(s, p)' \in {Recorded(s, p), "open"}

-----------------------------------------------------------------------------
(* The four kinds of steps of the abstract specification.                    *)
LEMMA ReopenStep ==
  ASSUME \A j \in JobId : Held(j)' = Held(j),
         \A s \in Step, p \in Page : Forgets(s, p)
  PROVE  Ownership!Reopen
<1>1. \A x \in Item : /\ x[1] \in Step /\ x[2] \in Page
                      /\ Recorded(x[1], x[2])' \in {"open", "succeeded", "failed"}
  BY DEF Item, Recorded
<1>2. \A x \in Item : Recorded(x[1], x[2])' \in {Recorded(x[1], x[2]), "open"}
  BY <1>1 DEF Forgets
<1> QED
  BY <1>1, <1>2 DEF Ownership!Reopen, Ownership!Records, Ownership!Outcome

LEMMA SettleStep ==
  ASSUME TypeOK, TodoIsTaken, NEW j \in JobId, NEW P \in SUBSET HeldPages(j), P # {},
         job'[j].step = job[j].step, HeldPages(j)' = HeldPages(j) \ P,
         \A i \in JobId \ {j} : job'[i] = job[i],
         \A p \in P : ms'[p][job[j].step] \in {"succeeded", "failed"},
         \A s \in Step, p \in Page : (s = job[j].step /\ p \in P) \/ Forgets(s, p)
  PROVE  Ownership!Settle(j)
<1> DEFINE X == {job[j].step} \X P
<1>1. X \in (SUBSET Held(j)) \ {{}}
  <2>1. X \subseteq Held(j)
    BY DEF Held
  <2> QED
    BY <2>1, ItemsOfPages
<1>2. \A i \in JobId : Held(i)' = IF i = j THEN Held(j) \ X ELSE Held(i)
  BY DEF Held, HeldPages
<1>3. \A x \in Item : /\ x[1] \in Step /\ x[2] \in Page
                      /\ Recorded(x[1], x[2])' \in {"open", "succeeded", "failed"}
  BY DEF Item, Recorded
<1>4. \A x \in Item \ X : Recorded(x[1], x[2])' \in {Recorded(x[1], x[2]), "open"}
  BY <1>3 DEF Forgets, Item
<1>5. \A x \in X : x \in Item /\ Recorded(x[1], x[2])' # "open"
  BY HeldFacts DEF Recorded, Item
<1> HIDE DEF X
<1>6. [i \in JobId |-> Held(i)]' = [[i \in JobId |-> Held(i)] EXCEPT ![j] = @ \ X]
  BY <1>2
<1>7. Held(j) = [i \in JobId |-> Held(i)][j]
  OBVIOUS
<1> QED
  BY <1>1, <1>3, <1>4, <1>5, <1>6, <1>7
     DEF Ownership!Settle, Ownership!Records, Ownership!Outcome

LEMMA TakeStep ==
  ASSUME ~JobsMayOutliveLocks, (TypeOK /\ TakenIsLocked /\ TodoIsTaken)', NEW j \in JobId,
         HeldPages(j) = {}, HeldPages(j)' # {},
         \A i \in JobId \ {j} : job'[i] = job[i], UNCHANGED ms
  PROVE  Ownership!Take(j)
<1>1. /\ job'[j].step \in Step /\ job'[j].taken \subseteq Page
      /\ HeldPages(j)' \subseteq job'[j].taken
  <2>1. job'[j].step \in Step /\ job'[j].taken \subseteq Page
    BY DEF TypeOK, Job
  <2>2. HeldPages(j)' \subseteq job'[j].taken
    BY DEF HeldPages, TodoIsTaken
  <2> QED
    BY <2>1, <2>2
<1>2. \A p \in HeldPages(j)' : lock'[job'[j].step][p] = j
  BY <1>1 DEF TakenIsLocked
<1>3. Held(j)' \in (SUBSET Item) \ {{}} /\ Held(j) = {}
  <2>1. Held(j)' \subseteq Item
    BY <1>1 DEF Held, Item
  <2>2. Held(j)' # {} /\ Held(j) = {}
    BY ItemsOfPages DEF Held
  <2> QED
    BY <2>1, <2>2
<1>4. \A i \in JobId \ {j} : Held(i)' = Held(i)
  BY DEF Held, HeldPages
<1>5. \A x \in Held(j)', i \in JobId : x \notin Held(i)
  <2> SUFFICES ASSUME NEW x \in Held(j)', NEW i \in JobId \ {j}, x \in Held(i)
               PROVE  FALSE
    BY <1>3
  <2>1. x[2] \in HeldPages(j)' /\ x[1] = job'[j].step
    BY DEF Held
  <2>2. x[2] \in HeldPages(i)' /\ x[1] = job'[i].step
    BY <1>4 DEF Held
  <2>3. HeldPages(i)' \subseteq job'[i].taken
    BY DEF HeldPages, TodoIsTaken
  <2>4. lock'[job'[i].step][x[2]] = i
    BY <2>2, <2>3 DEF TakenIsLocked
  <2> QED
    BY <1>2, <2>1, <2>2, <2>4
<1>6. [i \in JobId |-> Held(i)]' = [[i \in JobId |-> Held(i)] EXCEPT ![j] = Held(j)']
  BY <1>4
<1>7. UNCHANGED [x \in Item |-> Recorded(x[1], x[2])]
  BY DEF Recorded
<1> QED
  BY <1>3, <1>5, <1>6, <1>7 DEF Ownership!Take, Ownership!Free

LEMMA DropStep ==
  ASSUME NEW J \in SUBSET JobId, \A j \in J : HeldPages(j)' = {},
         \A i \in JobId \ J : job'[i] = job[i], UNCHANGED ms
  PROVE  Ownership!Drop(J)
<1>1. \A i \in JobId : Held(i)' = IF i \in J THEN {} ELSE Held(i)
  BY DEF Held, HeldPages
<1>2. \A x \in Item : Recorded(x[1], x[2])' = Recorded(x[1], x[2])
  BY DEF Recorded
<1> QED
  BY <1>1, <1>2 DEF Ownership!Drop

(* Steps that move no job into or out of its page work, and record nothing.  *)
LEMMA QuietStep ==
  ASSUME \A j \in JobId : \/ job'[j] = job[j]
                          \/ ~Active(j) /\ ~Active(j)'
                          \/ HeldPages(j) = {} /\ HeldPages(j)' = {},
         \A s \in Step, p \in Page : ms'[p][s] \in {ms[p][s], "idle", "in_progress"}
  PROVE  Ownership!Reopen
<1>1. ASSUME NEW j \in JobId PROVE Held(j)' = Held(j)
  <2>1. CASE job'[j] = job[j]
    BY <2>1 DEF Held, HeldPages
  <2>2. CASE HeldPages(j) = {} /\ HeldPages(j)' = {}
    BY <2>2, ItemsOfPages DEF Held
  <2>3. ~Active(j) /\ ~Active(j)' => HeldPages(j) = {} /\ HeldPages(j)' = {}
    BY DEF Active, HeldPages
  <2> QED
    BY <2>1, <2>2, <2>3
<1>2. \A s \in Step, p \in Page : Forgets(s, p)
  BY DEF Forgets, Recorded
<1> QED
  BY <1>1, <1>2, ReopenStep

LEMMA SetValue ==
  ASSUME NEW m \in [Page -> [Step -> PageStatus]], NEW P, NEW s \in Step, NEW v,
         NEW p \in Page, NEW t \in Step
  PROVE  Set(m, P, s, v)[p][t] = IF p \in P /\ t = s THEN v ELSE m[p][t]
BY DEF Set

-----------------------------------------------------------------------------
(* The last lock a job tries gives it all the pages it has taken at once.    *)
LEMMA TriedOwns ==
  ASSUME ~JobsMayOutliveLocks, TypeOK, (TypeOK /\ TakenIsLocked /\ TodoIsTaken)',
         NEW j \in JobId, job[j].phase = "queued", NEW taken, NEW todo,
         job' = [job EXCEPT ![j] = Tried(job[j], taken, todo)], UNCHANGED ms
  PROVE  Ownership!Reopen \/ Ownership!Take(j)
<1>1. /\ job'[j] = Tried(job[j], taken, todo) /\ HeldPages(j) = {}
      /\ \A i \in JobId \ {j} : job'[i] = job[i]
  BY DEF TypeOK, HeldPages
<1>2. CASE HeldPages(j)' = {}
  BY <1>1, <1>2, QuietStep
<1>3. CASE HeldPages(j)' # {}
  BY <1>1, <1>3, TakeStep
<1> QED
  BY <1>2, <1>3

(* A page that is done leaves the pages of its job, and no other.            *)
LEMMA DoneOwns ==
  ASSUME TypeOK, TodoIsTaken, NEW j \in JobId, NEW p \in Page,
         Working(j, p), PageDone(j, p),
         ms'[p][job[j].step] \in {"succeeded", "failed"},
         \A s \in Step, q \in Page : \/ s = job[j].step /\ q = p
                                     \/ ms'[q][s] \in {ms[q][s], "idle", "in_progress"}
  PROVE  Ownership!Settle(j)
<1>1. /\ job[j].phase = "working" /\ p \in job[j].todo
      /\ job[j] \in Job /\ job' = [job EXCEPT ![j].todo = @ \ {p}]
  BY DEF Working, PageDone, TypeOK
<1>2. /\ job'[j].step = job[j].step /\ job'[j].phase = "working"
      /\ job'[j].todo = job[j].todo \ {p}
      /\ \A i \in JobId \ {j} : job'[i] = job[i]
  BY <1>1 DEF TypeOK, Job
<1>3. HeldPages(j) = job[j].todo /\ HeldPages(j)' = job'[j].todo
  BY <1>1, <1>2 DEF HeldPages
<1>4. \A s \in Step, q \in Page : (s = job[j].step /\ q \in {p}) \/ Forgets(s, q)
  BY DEF Forgets, Recorded
<1> DEFINE P == {p}
<1>5. /\ P \in SUBSET HeldPages(j) /\ P # {} /\ HeldPages(j)' = HeldPages(j) \ P
      /\ \A q \in P : ms'[q][job[j].step] \in {"succeeded", "failed"}
  BY <1>1, <1>2, <1>3
<1> HIDE DEF P
<1>6. \A s \in Step, q \in Page : (s = job[j].step /\ q \in P) \/ Forgets(s, q)
  BY <1>4 DEF P
<1> QED
  BY <1>2, <1>5, <1>6, SettleStep

LEMMA ClaimOwns ==
  ASSUME TypeOK, NEW P \in SUBSET Page, NEW s \in Step, Claim(P, s)
  PROVE  Ownership!Reopen
<1>1. \A j \in JobId : job'[j] = job[j] \/ (~Active(j) /\ ~Active(j)')
  BY QueuedFacts DEF Claim, TypeOK, Active
<1>2. \A t \in Step, p \in Page : ms'[p][t] \in {ms[p][t], "idle", "in_progress"}
  BY SetValue DEF Claim, TypeOK
<1> QED
  BY <1>1, <1>2, QuietStep

LEMMA ScanOwns ==
  ASSUME TypeOK, Scan
  PROVE  Ownership!Reopen
<1>1. CASE EventDispatcher
  <2> PICK E \in SUBSET events : Dispatch(E)
    BY <1>1 DEF EventDispatcher
  <2> DEFINE C == Claimable(E, ChunkingTrigger, "chunking")
             M == Claimable(E, {"chunking_succeeded"}, "embedding")
             S == Set(ms, C, "chunking", "in_progress")
  <2>1. /\ C \in SUBSET Page /\ M \in SUBSET Page
        /\ "chunking" \in Step /\ "embedding" \in Step /\ "in_progress" \in PageStatus
    BY DEF TypeOK, Event, Claimable, Step, PageStatus
  <2> DEFINE Sent(P, j) == IF P = {} THEN j = NoJob ELSE j # NoJob => job[j].phase = "free"
  <2>2. PICK jc \in JobId \cup {NoJob}, jm \in JobId \cup {NoJob} :
          /\ Sent(C, jc) /\ Sent(M, jm)
          /\ job' = [j \in JobId |-> IF j = jc THEN Queued("chunking", C)
                                ELSE IF j = jm THEN Queued("embedding", M)
                                ELSE job[j]]
    BY DEF Dispatch
  <2>3. ms' = Set(S, M, "embedding", "in_progress")
    BY DEF Dispatch
  <2> HIDE DEF C, M
  <2>7. \A j \in JobId : job'[j] = job[j] \/ (job[j].phase = "free" /\ job'[j].phase = "queued")
    BY <2>1, <2>2, QueuedFacts, ConstantsAssumption
  <2>8. \A j \in JobId : job'[j] = job[j] \/ (~Active(j) /\ ~Active(j)')
    BY <2>7 DEF Active
  <2>4. S \in [Page -> [Step -> PageStatus]]
    BY <2>1, SetType DEF TypeOK
  <2>5. \A t \in Step, p \in Page : S[p][t] \in {ms[p][t], "in_progress"}
    BY <2>1, SetValue DEF TypeOK
  <2> HIDE DEF S
  <2>6. \A t \in Step, p \in Page : ms'[p][t] \in {S[p][t], "in_progress"}
    BY <2>1, <2>3, <2>4, SetValue
  <2> QED
    BY <2>5, <2>6, <2>8, QuietStep
<1>2. ASSUME NEW b \in Book, OcrScan(b) PROVE Ownership!Reopen
  BY <1>2, ClaimOwns DEF OcrScan, PagesOf, Step
<1>3. CASE ChunkingScan \/ EmbeddingScan \/ SpellCheckScan
  BY <1>3, ClaimOwns DEF ChunkingScan, EmbeddingScan, SpellCheckScan, Step
<1> QED
  BY <1>1, <1>2, <1>3 DEF Scan

(* The work on pages.                                                        *)
LEMMA PageWorkOwns ==
  ASSUME TypeOK, TodoIsTaken, NEW j \in JobId, NEW p \in Page,
         PageSucceeds(j, p) \/ OcrPageFails(j, p) \/ PageFails(j, p)
  PROVE  Ownership!Settle(j)
<1>0. job[j].step \in Step
  BY DEF TypeOK, Job
<1>1. ASSUME NEW v \in {"succeeded", "failed"}, ms' = Set(ms, {p}, job[j].step, v),
             Working(j, p), PageDone(j, p)
      PROVE  Ownership!Settle(j)
  <2>1. /\ ms'[p][job[j].step] \in {"succeeded", "failed"}
        /\ \A s \in Step, q \in Page : \/ s = job[j].step /\ q = p
                                       \/ ms'[q][s] \in {ms[q][s], "idle", "in_progress"}
    BY <1>0, <1>1 DEF Set, TypeOK
  <2> QED
    BY <1>1, <2>1, DoneOwns
<1>2. CASE PageSucceeds(j, p)
  BY <1>1, <1>2 DEF PageSucceeds
<1>3. CASE PageFails(j, p)
  BY <1>1, <1>3 DEF PageFails
<1>4. CASE OcrPageFails(j, p)
  <2>1. PICK v \in {"succeeded", "failed"} : ms' = Set(ms, {p}, job[j].step, v)
    BY <1>4 DEF OcrPageFails
  <2> QED
    BY <1>1, <1>4, <2>1 DEF OcrPageFails
<1> QED
  BY <1>2, <1>3, <1>4

LEMMA RewriteOwns ==
  ASSUME TypeOK, TodoIsTaken, NEW j \in JobId, NEW p \in Page, SpellCheckRewrites(j, p)
  PROVE  Ownership!Settle(j)
<1> DEFINE A == Set(ms, {p}, "spell_check", "succeeded")
           B == Set(A, {p}, "chunking", "idle")
<1>1. /\ Working(j, p) /\ job[j].step = "spell_check" /\ PageDone(j, p)
      /\ ms' = Set(B, {p}, "embedding", "idle")
  BY DEF SpellCheckRewrites
<1>2. /\ Step = {"ocr", "chunking", "embedding", "spell_check"}
      /\ {"succeeded", "idle"} \subseteq PageStatus
  BY DEF Step, PageStatus
<1>3. A \in [Page -> [Step -> PageStatus]]
  BY <1>2, SetType DEF TypeOK
<1>4. \A q \in Page, s \in Step :
        A[q][s] = IF q = p /\ s = "spell_check" THEN "succeeded" ELSE ms[q][s]
  BY <1>2 DEF Set, TypeOK
<1> HIDE DEF A
<1>5. B \in [Page -> [Step -> PageStatus]]
  BY <1>2, <1>3, SetType
<1>6. \A q \in Page, s \in Step :
        B[q][s] = IF q = p /\ s = "chunking" THEN "idle" ELSE A[q][s]
  BY <1>2, <1>3 DEF Set
<1> HIDE DEF B
<1>7. \A q \in Page, s \in Step :
        ms'[q][s] = IF q = p /\ s = "embedding" THEN "idle" ELSE B[q][s]
  BY <1>1, <1>2, <1>5 DEF Set
<1>8. /\ ms'[p]["spell_check"] = "succeeded"
      /\ \A s \in Step, q \in Page : \/ s = "spell_check" /\ q = p
                                     \/ ms'[q][s] \in {ms[q][s], "idle", "in_progress"}
  BY <1>2, <1>4, <1>6, <1>7
<1> QED
  BY <1>1, <1>8, DoneOwns

(* No PDF: all the pages of the job are done at once.                        *)
LEMMA PdfOwns ==
  ASSUME TypeOK, TodoIsTaken, NEW j \in JobId, PdfFails(j)
  PROVE  Ownership!Reopen \/ Ownership!Settle(j)
<1> DEFINE P == job[j].taken
<1>1. /\ job[j].phase = "locked" /\ job[j].step = "ocr" /\ job[j].todo = {}
      /\ job[j] \in Job /\ job[j].step \in Step /\ P \in SUBSET Page
      /\ job' = [job EXCEPT ![j].phase = "working"] /\ ms' = Set(ms, P, "ocr", "failed")
  BY DEF PdfFails, TodoIsTaken, TypeOK, Job
<1>2. /\ job'[j].step = job[j].step /\ job'[j].phase = "working" /\ job'[j].todo = {}
      /\ \A i \in JobId \ {j} : job'[i] = job[i]
  BY <1>1 DEF TypeOK, Job
<1>3. HeldPages(j) = P /\ HeldPages(j)' = {}
  BY <1>1, <1>2 DEF HeldPages
<1>4. \A s \in Step, q \in Page :
        ms'[q][s] = IF q \in P /\ s = "ocr" THEN "failed" ELSE ms[q][s]
  BY <1>1, SetValue DEF TypeOK
<1>5. CASE P = {}
  BY <1>2, <1>3, <1>4, <1>5, QuietStep
<1>6. CASE P # {}
  <2>1. \A q \in P : ms'[q][job[j].step] \in {"succeeded", "failed"}
    BY <1>1, <1>4
  <2>2. \A s \in Step, q \in Page : (s = job[j].step /\ q \in P) \/ Forgets(s, q)
    BY <1>1, <1>4 DEF Forgets, Recorded
  <2>3. P \in SUBSET HeldPages(j) /\ HeldPages(j)' = HeldPages(j) \ P
    BY <1>3
  <2> HIDE DEF P
  <2> QED
    BY <1>2, <1>6, <2>1, <2>2, <2>3, SettleStep
<1> QED
  BY <1>5, <1>6

LEMMA JobStepOwns ==
  ASSUME ~JobsMayOutliveLocks, TypeOK, TodoIsTaken,
         (TypeOK /\ TakenIsLocked /\ TodoIsTaken)', NEW j \in JobId, JobStep(j)
  PROVE  Ownership!Reopen \/ Ownership!Take(j) \/ Ownership!Settle(j)
<1>0. job \in [JobId -> Job] /\ job[j] \in Job
  BY DEF TypeOK
<1>1. ASSUME NEW p \in Page, JobTryLock(j, p)
      PROVE  Ownership!Reopen \/ Ownership!Take(j)
  BY <1>1, TriedOwns DEF JobTryLock
<1>2. CASE JobLoad(j)
  <2>1. /\ job[j].phase = "locked" /\ job'[j].phase = "working" /\ UNCHANGED ms
        /\ job'[j].todo = job[j].taken /\ job'[j].step = job[j].step
        /\ \A i \in JobId \ {j} : job'[i] = job[i]
    BY <1>0, <1>2 DEF JobLoad, Job
  <2>2. HeldPages(j)' = HeldPages(j)
    BY <2>1 DEF HeldPages
  <2>3. \A i \in JobId : Held(i)' = Held(i)
    BY <2>1, <2>2 DEF Held, HeldPages
  <2>4. \A s \in Step, p \in Page : Forgets(s, p)
    BY <2>1 DEF Forgets, Recorded
  <2> QED
    BY <2>3, <2>4, ReopenStep
<1>3. CASE JobFinish(j)
  <2>1. /\ job[j].phase = "working" /\ job[j].todo = {} /\ UNCHANGED ms
        /\ job'[j].phase = "releasing" /\ \A i \in JobId \ {j} : job'[i] = job[i]
    BY <1>0, <1>3 DEF JobFinish, Job
  <2>2. HeldPages(j) = {} /\ HeldPages(j)' = {}
    BY <2>1 DEF HeldPages
  <2> QED
    BY <2>1, <2>2, QuietStep
<1>4. CASE JobRelease(j)
  <2>1. /\ job[j].phase = "releasing" /\ job'[j].phase = "free" /\ UNCHANGED ms
        /\ \A i \in JobId \ {j} : job'[i] = job[i]
    BY <1>0, <1>4, FreeFacts DEF JobRelease
  <2>2. ~Active(j) /\ ~Active(j)'
    BY <2>1 DEF Active
  <2> QED
    BY <2>1, <2>2, QuietStep
<1> QED
  BY <1>1, <1>2, <1>3, <1>4, PdfOwns, PageWorkOwns, RewriteOwns DEF JobStep

LEMMA FaultOwns ==
  ASSUME ~JobsMayOutliveLocks, TypeOK, (TypeOK /\ TakenIsLocked /\ TodoIsTaken)', Fault
  PROVE  Ownership!Next
<1>0. job \in [JobId -> Job] /\ \A j \in JobId : job[j] \in Job
  BY DEF TypeOK
<1>1. ASSUME NEW j \in JobId, JobRaises(j) \/ JobCancelled(j)
      PROVE  Ownership!Drop({j})
  <2>1. /\ job'[j].phase \in {"releasing", "queued"} /\ UNCHANGED ms
        /\ \A i \in JobId \ {j} : job'[i] = job[i]
    BY <1>0, <1>1, QueuedFacts DEF JobRaises, JobCancelled, Job
  <2>2. \A i \in {j} : HeldPages(i)' = {}
    BY <2>1 DEF HeldPages
  <2> QED
    BY <2>1, <2>2, DropStep
<1>2. ASSUME NEW j \in JobId, GiveUp(j)
      PROVE  Ownership!Reopen
  <2>1. /\ job[j].phase = "dead" /\ job'[j].phase = "free" /\ UNCHANGED ms
        /\ \A i \in JobId \ {j} : job'[i] = job[i]
    BY <1>0, <1>2, FreeFacts DEF GiveUp
  <2>2. ~Active(j) /\ ~Active(j)'
    BY <2>1 DEF Active
  <2> QED
    BY <2>1, <2>2, QuietStep
<1>3. ASSUME NEW j \in JobId, NEW p \in Page, JobLockError(j, p)
      PROVE  Ownership!Reopen \/ Ownership!Take(j)
  BY <1>3, TriedOwns DEF JobLockError
<1>4. ASSUME NEW J \in SUBSET JobId, WorkerCrash(J)
      PROVE  Ownership!Drop(J)
  <2>1. \A j \in JobId : [FreeJob EXCEPT !.phase = "dead", !.step = job[j].step,
                                         !.args = job[j].args].phase = "dead"
    BY DEF FreeJob
  <2>2. /\ \A j \in J : job'[j].phase = "dead"
        /\ \A j \in JobId \ J : job'[j] = job[j]
        /\ UNCHANGED ms
    BY <1>4, <2>1 DEF WorkerCrash
  <2>3. \A j \in J : HeldPages(j)' = {}
    BY <2>2 DEF HeldPages
  <2> QED
    BY <2>2, <2>3, DropStep
<1> QED
  BY <1>1, <1>2, <1>3, <1>4 DEF Fault, Ownership!Next

LEMMA RecoverOwns ==
  ASSUME TypeOK, Recover
  PROVE  Ownership!Reopen
<1>1. ASSUME NEW s \in Step, NEW p \in Page, LockExpires(s, p)
      PROVE  Ownership!Reopen
  BY <1>1, QuietStep DEF LockExpires
<1>2. ASSUME NEW j \in JobId, Redeliver(j)
      PROVE  Ownership!Reopen
  <2>1. /\ job[j].phase = "dead" /\ job'[j].phase = "queued" /\ UNCHANGED ms
        /\ \A i \in JobId \ {j} : job'[i] = job[i]
    BY <1>2, QueuedFacts DEF Redeliver, TypeOK, Job
  <2>2. ~Active(j) /\ ~Active(j)'
    BY <2>1 DEF Active
  <2> QED
    BY <2>1, <2>2, QuietStep
<1>3. CASE StaleWatchdog
  <2>1. UNCHANGED job /\ \A t \in Step, p \in Page : ms'[p][t] \in {ms[p][t], "idle"}
    BY <1>3 DEF StaleWatchdog, Watchdog, TypeOK
  <2> QED
    BY <2>1, QuietStep
<1>4. CASE PipelineDriver
  <2>1. UNCHANGED job /\ \A t \in Step, p \in Page : ms'[p][t] \in {ms[p][t], "idle"}
    BY <1>4 DEF PipelineDriver, Reset, TypeOK
  <2> QED
    BY <2>1, QuietStep
<1> QED
  BY <1>1, <1>2, <1>3, <1>4 DEF Recover

LEMMA CorrectOwns ==
  ASSUME TypeOK, NEW p \in Page, AutoCorrect(p)
  PROVE  Ownership!Reopen
<1>1. CASE AutoCorrectPage(p)
  <2> DEFINE A == Set(ms, {p}, "chunking", "idle")
  <2>1. /\ "idle" \in PageStatus /\ {"chunking", "embedding"} \subseteq Step
        /\ ms' = Set(A, {p}, "embedding", "idle") /\ UNCHANGED job
    BY <1>1 DEF PageStatus, Step, AutoCorrectPage
  <2>2. /\ A \in [Page -> [Step -> PageStatus]]
        /\ \A q \in Page, s \in Step : A[q][s] \in {ms[q][s], "idle"}
    <3>1. A \in [Page -> [Step -> PageStatus]]
      BY <2>1, SetType DEF TypeOK
    <3>2. \A q \in Page, s \in Step : A[q][s] \in {ms[q][s], "idle"}
      BY <2>1 DEF Set, TypeOK
    <3> QED
      BY <3>1, <3>2
  <2> HIDE DEF A
  <2>3. \A q \in Page, s \in Step : ms'[q][s] \in {A[q][s], "idle"}
    BY <2>1, <2>2 DEF Set
  <2>4. \A s \in Step, q \in Page : ms'[q][s] \in {ms[q][s], "idle", "in_progress"}
    BY <2>2, <2>3
  <2>5. \A j \in JobId : job'[j] = job[j]
    BY <2>1
  <2> QED
    BY <2>4, <2>5, QuietStep
<1>2. CASE AutoCorrectEnds(p)
  BY <1>2, QuietStep DEF AutoCorrectEnds
<1> QED
  BY <1>1, <1>2 DEF AutoCorrect

-----------------------------------------------------------------------------
(* A job works pages it has locked.                                          *)
LEMMA TriedTodo ==
  ASSUME NEW r \in Job, NEW taken, NEW todo, r.phase = "queued"
  PROVE  /\ Tried(r, taken, todo).phase = "locked" => Tried(r, taken, todo).todo = {}
         /\ Tried(r, taken, todo).phase # "working"
BY FreeFacts DEF Tried, Job

LEMMA NextTodo ==
  ASSUME TypeOK, TodoIsTaken, [Next]_vars
  PROVE  TodoIsTaken'
<1> DEFINE Fits(r) == /\ r.phase = "locked" => r.todo = {}
                      /\ r.phase = "working" => r.todo \subseteq r.taken
<1>0. job \in [JobId -> Job] /\ \A j \in JobId : job[j] \in Job /\ Fits(job[j])
  BY DEF TypeOK, TodoIsTaken
<1>1. ASSUME \A j \in JobId : Fits(job'[j])
      PROVE  TodoIsTaken'
  BY <1>1 DEF TodoIsTaken
<1>2. CASE Scan
  <2>1. \A j \in JobId : job'[j] = job[j] \/ ~Active(j)'
    <3>1. ASSUME NEW P \in SUBSET Page, NEW s \in Step, Claim(P, s)
          PROVE  \A j \in JobId : job'[j] = job[j] \/ ~Active(j)'
      BY <3>1, QueuedFacts DEF Claim, TypeOK, Active
    <3>2. ASSUME NEW E \in SUBSET events, Dispatch(E)
          PROVE  \A j \in JobId : job'[j] = job[j] \/ ~Active(j)'
      <4> DEFINE C == Claimable(E, ChunkingTrigger, "chunking")
                 M == Claimable(E, {"chunking_succeeded"}, "embedding")
      <4>1. /\ C \in SUBSET Page /\ M \in SUBSET Page
            /\ "chunking" \in Step /\ "embedding" \in Step
        BY DEF TypeOK, Event, Claimable, Step
      <4>2. PICK jc \in JobId \cup {NoJob}, jm \in JobId \cup {NoJob} :
              job' = [j \in JobId |-> IF j = jc THEN Queued("chunking", C)
                                 ELSE IF j = jm THEN Queued("embedding", M)
                                 ELSE job[j]]
        BY <3>2 DEF Dispatch
      <4> HIDE DEF C, M
      <4>3. \A j \in JobId : job'[j] = job[j] \/ job'[j].phase = "queued"
        BY <4>1, <4>2, QueuedFacts
      <4> QED
        BY <4>3 DEF Active
    <3> QED
      BY <1>2, <3>1, <3>2
         DEF Scan, OcrScan, PagesOf, ChunkingScan, EmbeddingScan, SpellCheckScan,
             EventDispatcher, Step
  <2>2. \A j \in JobId : ~Active(j)' => Fits(job'[j])
    BY DEF Active
  <2> QED
    BY <1>0, <1>1, <2>1, <2>2
<1>3. ASSUME NEW j \in JobId, JobStep(j)
      PROVE  \A i \in JobId : Fits(job'[i])
  <2> SUFFICES ASSUME TRUE PROVE Fits(job'[j]) /\ \A i \in JobId \ {j} : job'[i] = job[i]
    BY <1>0
  <2>1. ASSUME NEW p \in Page, JobTryLock(j, p)
        PROVE  Fits(job'[j]) /\ \A i \in JobId \ {j} : job'[i] = job[i]
    BY <1>0, <2>1, TriedTodo DEF JobTryLock
  <2>2. CASE JobLoad(j)
    BY <1>0, <2>2 DEF JobLoad, Job
  <2>3. CASE PdfFails(j)
    BY <1>0, <2>3 DEF PdfFails, Job
  <2>4. CASE JobFinish(j)
    BY <1>0, <2>4 DEF JobFinish, Job
  <2>5. CASE JobRelease(j)
    BY <1>0, <2>5, FreeFacts DEF JobRelease
  <2>6. ASSUME NEW p \in Page, Working(j, p), PageDone(j, p)
        PROVE  Fits(job'[j]) /\ \A i \in JobId \ {j} : job'[i] = job[i]
    BY <1>0, <2>6 DEF Working, PageDone, Job
  <2> QED
    BY <1>3, <2>1, <2>2, <2>3, <2>4, <2>5, <2>6
       DEF JobStep, PageSucceeds, SpellCheckRewrites, OcrPageFails, PageFails
<1>4. CASE Fault
  <2>1. ASSUME NEW j \in JobId, JobRaises(j) \/ JobCancelled(j) \/ GiveUp(j)
        PROVE  TodoIsTaken'
    BY <1>0, <1>1, <2>1, QueuedFacts, FreeFacts DEF JobRaises, JobCancelled, GiveUp, Job
  <2>2. ASSUME NEW j \in JobId, NEW p \in Page, JobLockError(j, p)
        PROVE  TodoIsTaken'
    BY <1>0, <1>1, <2>2, TriedTodo DEF JobLockError
  <2>3. ASSUME NEW J \in SUBSET JobId, WorkerCrash(J)
        PROVE  TodoIsTaken'
    <3>1. \A j \in JobId : [FreeJob EXCEPT !.phase = "dead", !.step = job[j].step,
                                           !.args = job[j].args].phase = "dead"
      BY DEF FreeJob
    <3>2. \A j \in JobId : job'[j].phase = "dead" \/ job'[j] = job[j]
      BY <2>3, <3>1 DEF WorkerCrash
    <3> QED
      BY <1>0, <1>1, <3>2
  <2> QED
    BY <1>4, <2>1, <2>2, <2>3 DEF Fault
<1>5. CASE Recover
  BY <1>0, <1>1, <1>5, QueuedFacts
     DEF Recover, LockExpires, Redeliver, StaleWatchdog, Watchdog, PipelineDriver, Job
<1>6. CASE UNCHANGED job
  BY <1>6 DEF TodoIsTaken
<1> QED
  BY <1>1, <1>2, <1>3, <1>4, <1>5, <1>6
     DEF Next, AutoCorrect, AutoCorrectPage, AutoCorrectEnds, vars

-----------------------------------------------------------------------------
OwnershipInv == TypeOK /\ TakenIsLocked /\ TodoIsTaken

LEMMA OwnershipInvariant == Spec => []OwnershipInv
<1>1. Init => TakenIsLocked /\ TodoIsTaken
  BY FreeFacts DEF Init, TakenIsLocked, TodoIsTaken
<1>2. OwnershipInv /\ [Next]_vars => OwnershipInv'
  BY NextType, NextTaken, NextTodo DEF OwnershipInv
<1> QED
  BY <1>1, <1>2, InitType, PTL DEF Spec, OwnershipInv

(* The pipeline implements the abstract specification of page ownership as   *)
(* long as every job ends before its locks expire: a step of a page is worked*)
(* by one job, only that job records its outcome, once, and the rest of the  *)
(* pipeline only ever opens it again, whatever crashes and is repeated.      *)
THEOREM JobsOwnTheirPages == ~JobsMayOutliveLocks => (Spec => OwnershipSpec)
<1> SUFFICES ASSUME ~JobsMayOutliveLocks PROVE Spec => OwnershipSpec
  OBVIOUS
<1>1. Init => Ownership!Init
  <2> SUFFICES ASSUME Init PROVE Ownership!Init
    OBVIOUS
  <2>1. \A j \in JobId : Held(j) = {}
    BY FreeFacts, ItemsOfPages DEF Init, Held, HeldPages
  <2>2. \A s \in Step, p \in Page : Recorded(s, p) \in {"open", "succeeded"}
    BY DEF Init, Recorded
  <2>3. \A x \in Item : Recorded(x[1], x[2]) \in {"open", "succeeded"}
    BY <2>2 DEF Item
  <2> QED
    BY <2>1, <2>3 DEF Ownership!Init
<1>2. OwnershipInv /\ OwnershipInv' /\ [Next]_vars => [Ownership!Next]_(Ownership!ownershipVars)
  <2> SUFFICES ASSUME OwnershipInv, OwnershipInv', [Next]_vars
               PROVE  Ownership!Next
    OBVIOUS
  <2>1. CASE Scan
    BY <2>1, ScanOwns DEF OwnershipInv, Ownership!Next
  <2>2. ASSUME NEW j \in JobId, JobStep(j) PROVE Ownership!Next
    BY <2>2, JobStepOwns DEF OwnershipInv, Ownership!Next
  <2>3. CASE Fault
    BY <2>3, FaultOwns DEF OwnershipInv
  <2>4. CASE Recover
    BY <2>4, RecoverOwns DEF OwnershipInv, Ownership!Next
  <2>5. ASSUME NEW p \in Page, AutoCorrect(p) PROVE Ownership!Next
    BY <2>5, CorrectOwns DEF OwnershipInv, Ownership!Next
  <2>6. CASE UNCHANGED vars
    BY <2>6, QuietStep DEF vars, Ownership!Next
  <2> QED
    BY <2>1, <2>2, <2>3, <2>4, <2>5, <2>6 DEF Next
<1> QED
  BY <1>1, <1>2, OwnershipInvariant, PTL DEF Spec, OwnershipSpec, Ownership!Spec
=============================================================================
