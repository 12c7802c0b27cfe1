----------------------- MODULE PipelineClaims_proofs -----------------------
(* What claims, retry counts and settled books of the page pipeline promise  *)
(* as long as nothing crashes, for any books, pages, jobs and bounds.        *)
EXTENDS PagePipeline_proofs

(* Faults and rewrites are only ever added.                                  *)
Onward == (faults' = 0 => faults = 0) /\ (rewrites' = 0 => rewrites = 0)

LEMMA SpendOnward ==
  ASSUME TypeOK, NEW n \in {0, 1}, Spend(n)
  PROVE  faults' = 0 => faults = 0 /\ n = 0
BY DEF TypeOK, Spend

(* A job r still has step s of page p to do.                                 *)
Has(r, p, s) ==
  /\ r.step = s
  /\ \/ r.phase \in {"queued", "locked"} /\ p \in r.todo \cup r.taken
     \/ r.phase = "working" /\ p \in r.todo

LEMMA OwnersFacts ==
  ASSUME NEW p \in Page, NEW s \in Step, NEW j \in JobId
  PROVE  /\ j \in Owners(p, s) <=> Has(job[j], p, s)
         /\ j \in Owners(p, s)' <=> Has(job'[j], p, s)
BY DEF Owners, Has

LEMMA OwnersAreJobs == \A p, s : Owners(p, s) \subseteq JobId /\ Owners(p, s)' \subseteq JobId
BY DEF Owners

(* A page that is settled stays so if its milestones and its retry count are *)
(* what they were, or better.                                                *)
LEMMA BooksStayTruthful ==
  ASSUME SettledBookIsTruthful, Onward, UNCHANGED status, TypeOK,
         faults' = 0 => \A p \in Page :
           /\ status[BookOf[p]] # "pending" => retry[p] <= retry'[p]
           /\ \A s \in Step : \/ ms'[p][s] = ms[p][s]
                              \/ ms[p][s] \in {"idle", "in_progress"}
                              \/ rewrites' # 0, 
         TypeOK'
  PROVE  SettledBookIsTruthful'
<1> SUFFICES ASSUME faults' = 0, rewrites' = 0, NEW b \in Book
             PROVE  /\ status'[b] = "ready" => \A p \in PagesOf(b) : ms'[p]["embedding"] = "succeeded"
                    /\ status'[b] = "error" => \E p \in PagesOf(b) : FailedExhausted(ms', retry', p)
  BY DEF SettledBookIsTruthful
<1>1. /\ status[b] = "ready" => \A p \in PagesOf(b) : ms[p]["embedding"] = "succeeded"
      /\ status[b] = "error" => \E p \in PagesOf(b) : FailedExhausted(ms, retry, p)
  BY DEF SettledBookIsTruthful, Onward
<1>2. \A p \in PagesOf(b) : p \in Page /\ BookOf[p] = b
  BY DEF PagesOf
<1>3. ASSUME status'[b] = "ready", NEW p \in PagesOf(b)
      PROVE  ms'[p]["embedding"] = "succeeded"
  BY <1>1, <1>2, <1>3 DEF Step
<1>4. ASSUME status'[b] = "error"
      PROVE  \E p \in PagesOf(b) : FailedExhausted(ms', retry', p)
  <2>1. PICK p \in PagesOf(b) : FailedExhausted(ms, retry, p)
    BY <1>1, <1>4
  <2>2. PICK s \in Step \ {"spell_check"} : ms[p][s] = "failed"
    BY <2>1 DEF FailedExhausted
  <2>3. ms'[p][s] = "failed"
    BY <1>2, <2>2
  <2>4. retry[p] <= retry'[p] /\ retry[p] >= MaxRetries
    BY <1>2, <1>4, <2>1 DEF FailedExhausted
  <2>5. retry'[p] >= MaxRetries
    BY <1>2, <2>4, ConstantsAssumption DEF TypeOK
  <2> QED
    BY <2>2, <2>3, <2>5 DEF FailedExhausted
<1> QED
  BY <1>3, <1>4

(* Steps that give no job anything new to do and write no page: tries for a  *)
(* lock, the load of the rows, the ends of jobs, roll-ups.                   *)
LEMMA ShrinkQuiet ==
  ASSUME QuietInv, TypeOK', Onward, UNCHANGED <<ms, retry, status, events>>,
         faults' = 0 => (WorkIsClaimed' /\ SeenIsCurrent'),
         faults' = 0 => \A p \in Page, s \in Step : Owners(p, s)' \subseteq Owners(p, s)
  PROVE  QuietInv'
<1>1. WorkIsClaimed' /\ SeenIsCurrent'
  BY DEF WorkIsClaimed, SeenIsCurrent
<1>2. OcrGoesFirst'
  <2> SUFFICES ASSUME faults' = 0 PROVE OcrGoesFirst'
    BY DEF OcrGoesFirst
  <2>1. \A p \in Page, s \in Step : Owners(p, s)' \subseteq Owners(p, s)
    OBVIOUS
  <2>2. "ocr" \in Step
    BY DEF Step
  <2> QED
    BY <2>1, <2>2 DEF QuietInv, OcrGoesFirst, Onward
<1>3. ClaimedByOneJob'
  BY DEF QuietInv, ClaimedByOneJob, Onward
<1>4. SettledBookIsTruthful'
  <2>1. \A p \in Page : retry[p] <= retry'[p]
    BY ConstantsAssumption DEF QuietInv, TypeOK
  <2> QED
    BY <2>1, BooksStayTruthful DEF QuietInv
<1> QED
  BY <1>1, <1>2, <1>3, <1>4 DEF QuietInv

LEMMA SetValues ==
  ASSUME NEW m \in [Page -> [Step -> PageStatus]], NEW P, NEW s \in Step, NEW v,
         NEW p \in Page, NEW t \in Step
  PROVE  Set(m, P, s, v)[p][t] = IF p \in P /\ t = s THEN v ELSE m[p][t]
BY DEF Set

(* A corrected page goes back to idle at chunking and embedding.             *)
LEMMA ReindexedValues ==
  ASSUME NEW m \in [Page -> [Step -> PageStatus]], NEW p \in Page, NEW q \in Page
  PROVE  LET n == Set(Set(m, {p}, "chunking", "idle"), {p}, "embedding", "idle") IN
         /\ q # p => n[q] = m[q]
         /\ \A s \in Step : n[q][s] = IF q = p /\ s \in {"chunking", "embedding"}
                                      THEN "idle" ELSE m[q][s]
         /\ n[q]["ocr"] = m[q]["ocr"]
<1>1. PICK m1 : m1 = Set(m, {p}, "chunking", "idle")
  OBVIOUS
<1>2. PICK n : n = Set(m1, {p}, "embedding", "idle")
  OBVIOUS
<1>3. {"ocr", "chunking", "embedding"} \subseteq Step /\ "idle" \in PageStatus
  BY DEF Step, PageStatus
<1>4. m1 \in [Page -> [Step -> PageStatus]]
  BY <1>1, <1>3, SetType
<1>5. \A s \in Step : m1[q][s] = IF q = p /\ s = "chunking" THEN "idle" ELSE m[q][s]
  BY <1>1, <1>3, SetValues
<1>6. \A s \in Step : n[q][s] = IF q = p /\ s = "embedding" THEN "idle" ELSE m1[q][s]
  BY <1>2, <1>3, <1>4, SetValues
<1>7. q # p => n[q] = m1[q] /\ m1[q] = m[q]
  BY <1>1, <1>2 DEF Set
<1>8. \A s \in Step : n[q][s] = IF q = p /\ s \in {"chunking", "embedding"} THEN "idle" ELSE m[q][s]
  BY <1>5, <1>6
<1> QED
  BY <1>1, <1>2, <1>3, <1>7, <1>8

(* Job j stores an outcome for pages X it owns, and is done with them.       *)
LEMMA OutcomeQuiet ==
  ASSUME QuietInv, TypeOK', Onward, UNCHANGED status,
         NEW j \in JobId, NEW X \in SUBSET Page, NEW v \in {"succeeded", "failed"},
         \A p \in X : j \in Owners(p, job[j].step),
         ms' = Set(ms, X, job[j].step, v),
         \A e \in events' \ events : e.page \in X /\ (job[j].step = "ocr" => v = "succeeded"),
         \A i \in JobId \ {j} : job'[i] = job[i],
         job'[j].phase = "working", job'[j].step = job[j].step, job'[j].args = job[j].args,
         job'[j].taken = job[j].taken, job'[j].seen = job[j].seen,
         job'[j].todo = job[j].todo \ X, job[j].phase = "working" \/ job'[j].todo = {},
         \A p \in Page \ X : retry'[p] = retry[p],
         faults' = 0 => \A p \in X : retry[p] <= retry'[p]
  PROVE  QuietInv'
<1> DEFINE s == job[j].step
<1> SUFFICES ASSUME faults' = 0 PROVE QuietInv'
  BY DEF QuietInv, WorkIsClaimed, OcrGoesFirst, SeenIsCurrent, ClaimedByOneJob, SettledBookIsTruthful
<1>0. /\ faults = 0 /\ s \in Step /\ "ocr" \in Step
      /\ ms \in [Page -> [Step -> PageStatus]] /\ ms' \in [Page -> [Step -> PageStatus]]
  BY DEF Onward, QuietInv, TypeOK, Job, Step
<1>1. \A p \in Page, t \in Step :
        /\ ms'[p][t] = IF p \in X /\ t = s THEN v ELSE ms[p][t]
        /\ Owners(p, t)' \subseteq Owners(p, t)
        /\ p \in X /\ t = s => j \notin Owners(p, t)'
  <2> SUFFICES ASSUME NEW p \in Page, NEW t \in Step
               PROVE  /\ ms'[p][t] = IF p \in X /\ t = s THEN v ELSE ms[p][t]
                      /\ Owners(p, t)' \subseteq Owners(p, t)
                      /\ p \in X /\ t = s => j \notin Owners(p, t)'
    OBVIOUS
  <2>1. ms'[p][t] = IF p \in X /\ t = s THEN v ELSE ms[p][t]
    BY <1>0, SetValues
  <2>2. p \in X /\ t = s => j \notin Owners(p, t)'
    BY OwnersFacts DEF Has
  <2>3. ASSUME NEW i \in JobId, i \in Owners(p, t)' PROVE i \in Owners(p, t)
    <3>1. Has(job'[j], p, t) => Has(job[j], p, t)
      BY DEF Has
    <3> QED
      BY <2>3, <3>1, OwnersFacts
  <2> QED
    BY <2>1, <2>2, <2>3, OwnersAreJobs
<1>2. \A p \in X : Owners(p, s) = {j} \/ (rewrites' # 0 /\ s # "ocr")
  BY <1>0, OwnersAreJobs DEF QuietInv, ClaimedByOneJob, OcrGoesFirst, Onward
<1>3. \A p \in X : IF s = "ocr" THEN Owners(p, "ocr")' = {} ELSE ms[p]["ocr"] = "succeeded"
  BY <1>0, <1>1, <1>2 DEF QuietInv, OcrGoesFirst
<1>4. WorkIsClaimed'
  BY <1>0 DEF WorkIsClaimed, QuietInv
<1>5. OcrGoesFirst'
  <2>1. ASSUME NEW p \in Page
        PROVE  /\ Owners(p, "ocr")' # {} => ms'[p]["ocr"] = "in_progress"
               /\ \A i, k \in Owners(p, "ocr")' : i = k
               /\ \A t \in Step \ {"ocr"} :
                    ms'[p][t] # "idle" \/ Owners(p, t)' # {} => ms'[p]["ocr"] = "succeeded"
    <3>1. /\ Owners(p, "ocr") # {} => ms[p]["ocr"] = "in_progress"
          /\ \A i, k \in Owners(p, "ocr") : i = k
          /\ \A t \in Step \ {"ocr"} :
               ms[p][t] # "idle" \/ Owners(p, t) # {} => ms[p]["ocr"] = "succeeded"
      BY <1>0 DEF QuietInv, OcrGoesFirst
    <3>2. CASE s = "ocr" /\ p \in X
      BY <1>0, <1>1, <1>3, <3>1, <3>2
    <3>3. CASE ~(s = "ocr" /\ p \in X)
      BY <1>0, <1>1, <1>3, <3>1, <3>3
    <3> QED
      BY <3>2, <3>3
  <2>2. ASSUME NEW e \in events' PROVE ms'[e.page]["ocr"] = "succeeded"
    <3>1. CASE e \in events
      <4>1. e.page \in Page /\ ms[e.page]["ocr"] = "succeeded"
        BY <1>0, <3>1 DEF QuietInv, OcrGoesFirst, TypeOK, Event
      <4>2. s = "ocr" => e.page \notin X
        BY <1>0, <4>1 DEF QuietInv, OcrGoesFirst
      <4> QED
        BY <1>0, <1>1, <4>1, <4>2
    <3>2. CASE e \notin events
      BY <1>0, <1>1, <1>3, <2>2, <3>2
    <3> QED
      BY <3>1, <3>2
  <2> QED
    BY <2>1, <2>2 DEF OcrGoesFirst
<1>6. SeenIsCurrent'
  <2> SUFFICES ASSUME NEW i \in JobId, job'[i].phase = "working", job'[i].step = "ocr",
                      NEW p \in job'[i].todo
               PROVE  retry'[p] <= job'[i].seen[p]
    BY DEF SeenIsCurrent
  <2>1. job[i].phase = "working" /\ job[i].step = "ocr" /\ p \in job[i].todo
        /\ job'[i].seen = job[i].seen /\ p \in Page
    BY DEF QuietInv, TypeOK, Job
  <2>2. retry[p] <= job[i].seen[p]
    BY <1>0, <2>1 DEF QuietInv, SeenIsCurrent
  <2>3. p \notin X
    <3>0. Has(job[i], p, "ocr") /\ Has(job'[i], p, "ocr")
      BY <2>1 DEF Has
    <3>1. i \in Owners(p, "ocr")
      BY <1>0, <2>1, <3>0, OwnersFacts
    <3>2. i \in Owners(p, "ocr")'
      BY <1>0, <2>1, <3>0, OwnersFacts
    <3> QED
      BY <1>0, <1>1, <1>3, <3>1, <3>2 DEF QuietInv, OcrGoesFirst
  <2> QED
    BY <2>1, <2>2, <2>3
<1>7. ClaimedByOneJob'
  <2> SUFFICES ASSUME rewrites' = 0, NEW p \in Page, NEW t \in Step
               PROVE  /\ Owners(p, t)' # {} => ms'[p][t] = "in_progress"
                      /\ \A i, k \in Owners(p, t)' : i = k
    BY DEF ClaimedByOneJob
  <2>1. /\ Owners(p, t) # {} => ms[p][t] = "in_progress"
        /\ \A i, k \in Owners(p, t) : i = k
    BY <1>0 DEF QuietInv, ClaimedByOneJob, Onward
  <2>2. p \in X /\ t = s => Owners(p, t)' = {}
    BY <1>1, <1>2
  <2> QED
    BY <1>1, <2>1, <2>2
<1>8. SettledBookIsTruthful'
  <2>1. \A p \in Page : retry[p] <= retry'[p]
    BY ConstantsAssumption DEF QuietInv, TypeOK
  <2>2. \A p \in Page, t \in Step : \/ ms'[p][t] = ms[p][t]
                                    \/ ms[p][t] = "in_progress" \/ rewrites' # 0
    BY <1>0, <1>1, <1>2 DEF QuietInv, ClaimedByOneJob, Onward
  <2> QED
    BY <2>1, <2>2, BooksStayTruthful DEF QuietInv
<1> QED
  BY <1>4, <1>5, <1>6, <1>7, <1>8 DEF QuietInv

(* Up to two claims in one transaction: what they write and whom they give   *)
(* work; NoJob stands for a job that a crash loses.                          *)
TwoClaims(s, C, jc, t, M, jm) ==
  /\ ms' = Set(Set(ms, C, s, "in_progress"), M, t, "in_progress")
  /\ job' = [j \in JobId |-> IF j = jc THEN Queued(s, C)
                         ELSE IF j = jm THEN Queued(t, M) ELSE job[j]]
Given(r, u, P) == /\ r.phase = "queued" /\ r.step = u /\ r.args = P
                  /\ r.todo = P /\ r.taken = {}

GivesWork(s, C, jc, t, M, jm) ==
  /\ \A p \in Page, u \in Step :
       ms'[p][u] = IF (p \in C /\ u = s) \/ (p \in M /\ u = t)
                     THEN "in_progress" ELSE ms[p][u]
  /\ \A i \in JobId : \/ i = jc /\ Given(job'[i], s, C)
                      \/ i = jm /\ i # jc /\ Given(job'[i], t, M)
                      \/ i # jc /\ i # jm /\ job'[i] = job[i]
  /\ \A p \in Page, u \in Step, i \in JobId :
       i \in Owners(p, u)' => \/ i = jc /\ u = s /\ p \in C
                              \/ i = jm /\ i # jc /\ u = t /\ p \in M
                              \/ i \in Owners(p, u)

LEMMA ClaimEffect ==
  ASSUME TypeOK, NEW s \in Step, NEW t \in Step, s # t,
         NEW C \in SUBSET Page, NEW M \in SUBSET Page,
         NEW jc \in JobId \cup {NoJob}, NEW jm \in JobId \cup {NoJob},
         TwoClaims(s, C, jc, t, M, jm)
  PROVE  GivesWork(s, C, jc, t, M, jm)
<1>0. ms \in [Page -> [Step -> PageStatus]]
  BY DEF TypeOK
<1>1. \A p \in Page, u \in Step :
        ms'[p][u] = IF (p \in C /\ u = s) \/ (p \in M /\ u = t) THEN "in_progress" ELSE ms[p][u]
  <2>1. Set(ms, C, s, "in_progress") \in [Page -> [Step -> PageStatus]]
    BY <1>0, SetType DEF PageStatus
  <2> QED
    BY <1>0, <2>1, SetValues DEF TwoClaims
<1>2. \A P \in SUBSET Page, u \in Step : Given(Queued(u, P), u, P)
  BY DEF Queued, FreeJob, Given
<1>3. \A i \in JobId : \/ i = jc /\ Given(job'[i], s, C)
                       \/ i = jm /\ i # jc /\ Given(job'[i], t, M)
                       \/ i # jc /\ i # jm /\ job'[i] = job[i]
  <2>1. Given(Queued(s, C), s, C) /\ Given(Queued(t, M), t, M)
    BY <1>2
  <2> QED
    BY <2>1 DEF TwoClaims
<1>4. \A p \in Page, u \in Step, i \in JobId :
        i \in Owners(p, u)' =>
          \/ i = jc /\ u = s /\ p \in C
          \/ i = jm /\ i # jc /\ u = t /\ p \in M
          \/ i \in Owners(p, u)
  <2> SUFFICES ASSUME NEW p \in Page, NEW u \in Step, NEW i \in JobId, i \in Owners(p, u)',
                      job'[i] # job[i]
               PROVE  (i = jc /\ u = s /\ p \in C) \/ (i = jm /\ i # jc /\ u = t /\ p \in M)
    BY OwnersFacts
  <2>1. Has(job'[i], p, u)
    BY OwnersFacts
  <2> QED
    BY <1>3, <2>1 DEF Has, Given
<1> QED
  BY <1>1, <1>3, <1>4 DEF GivesWork

(* Up to two claims in one transaction, of pages that are idle at the step   *)
(* claimed and through with OCR if it is another.                            *)
LEMMA ClaimQuiet ==
  ASSUME QuietInv, TypeOK', Onward, UNCHANGED <<retry, status>>, events' \subseteq events,
         NEW s \in Step, NEW t \in Step \ {"ocr"}, s # t,
         NEW C \in SUBSET Page, NEW M \in SUBSET Page,
         \A p \in C : ms[p][s] = "idle" /\ (s # "ocr" => ms[p]["ocr"] = "succeeded"),
         \A p \in M : ms[p][t] = "idle" /\ ms[p]["ocr"] = "succeeded",
         NEW jc \in JobId \cup {NoJob}, NEW jm \in JobId \cup {NoJob},
         TwoClaims(s, C, jc, t, M, jm)
  PROVE  QuietInv'
<1> SUFFICES ASSUME faults' = 0 PROVE QuietInv'
  BY DEF QuietInv, WorkIsClaimed, OcrGoesFirst, SeenIsCurrent, ClaimedByOneJob, SettledBookIsTruthful
<1>0. /\ faults = 0 /\ "ocr" \in Step
      /\ ms \in [Page -> [Step -> PageStatus]] /\ ms' \in [Page -> [Step -> PageStatus]]
  BY DEF Onward, QuietInv, TypeOK, Step
<1>01. GivesWork(s, C, jc, t, M, jm)
  BY ClaimEffect DEF QuietInv
<1>1. \A p \in Page, u \in Step :
        ms'[p][u] = IF (p \in C /\ u = s) \/ (p \in M /\ u = t) THEN "in_progress" ELSE ms[p][u]
  BY <1>01 DEF GivesWork
<1>3. \A i \in JobId : job'[i] # job[i] => /\ job'[i].phase = "queued"
                                           /\ job'[i].todo = job'[i].args
                                           /\ job'[i].taken = {}
  BY <1>01 DEF GivesWork, Given
<1>4. \A p \in Page, u \in Step, i \in JobId :
        i \in Owners(p, u)' =>
          \/ i = jc /\ u = s /\ p \in C
          \/ i = jm /\ i # jc /\ u = t /\ p \in M
          \/ i \in Owners(p, u)
  BY <1>01 DEF GivesWork
<1>5. WorkIsClaimed'
  <2> SUFFICES ASSUME NEW i \in JobId
               PROVE  /\ job'[i].phase # "dead"
                      /\ job'[i].todo \cup job'[i].taken \subseteq job'[i].args
                      /\ job'[i].phase = "locked" => job'[i].todo = {}
    BY DEF WorkIsClaimed
  <2>1. CASE job'[i] = job[i]
    BY <1>0, <2>1 DEF WorkIsClaimed, QuietInv
  <2>2. CASE job'[i] # job[i]
    BY <1>3, <2>2
  <2> QED
    BY <2>1, <2>2
<1>6. OcrGoesFirst'
  <2>1. ASSUME NEW p \in Page
        PROVE  /\ Owners(p, "ocr")' # {} => ms'[p]["ocr"] = "in_progress"
               /\ \A i, k \in Owners(p, "ocr")' : i = k
               /\ \A u \in Step \ {"ocr"} :
                    ms'[p][u] # "idle" \/ Owners(p, u)' # {} => ms'[p]["ocr"] = "succeeded"
    <3>1. /\ Owners(p, "ocr") # {} => ms[p]["ocr"] = "in_progress"
          /\ \A i, k \in Owners(p, "ocr") : i = k
          /\ \A u \in Step \ {"ocr"} :
               ms[p][u] # "idle" \/ Owners(p, u) # {} => ms[p]["ocr"] = "succeeded"
      BY <1>0 DEF QuietInv, OcrGoesFirst
    <3>2. s = "ocr" /\ p \in C => /\ ms[p]["ocr"] = "idle" /\ p \notin M
                                  /\ ms'[p]["ocr"] = "in_progress"
                                  /\ Owners(p, "ocr") = {}
      BY <1>0, <1>1, <3>1
    <3>3. ~(s = "ocr" /\ p \in C) => ms'[p]["ocr"] = ms[p]["ocr"]
      BY <1>0, <1>1
    <3>4. Owners(p, "ocr")' # {} => ms'[p]["ocr"] = "in_progress"
      BY <1>0, <1>4, <3>1, <3>2, <3>3, OwnersAreJobs
    <3>5. \A i, k \in Owners(p, "ocr")' : i = k
      BY <1>0, <1>4, <3>1, <3>2, <3>3, OwnersAreJobs
    <3>6. ASSUME NEW u \in Step \ {"ocr"}, ms'[p][u] # "idle" \/ Owners(p, u)' # {}
          PROVE  ms'[p]["ocr"] = "succeeded"
      <4>1. ms[p]["ocr"] = "succeeded"
        BY <1>0, <1>1, <1>4, <3>1, <3>6, OwnersAreJobs
      <4> QED
        BY <3>2, <3>3, <4>1
    <3> QED
      BY <3>4, <3>5, <3>6
  <2>2. ASSUME NEW e \in events' PROVE ms'[e.page]["ocr"] = "succeeded"
    <3>1. e.page \in Page /\ ms[e.page]["ocr"] = "succeeded"
      BY <1>0 DEF QuietInv, OcrGoesFirst, TypeOK, Event
    <3> QED
      BY <1>0, <1>1, <3>1
  <2> QED
    BY <2>1, <2>2 DEF OcrGoesFirst
<1>7. SeenIsCurrent'
  BY <1>0, <1>3 DEF SeenIsCurrent, QuietInv
<1>8. ClaimedByOneJob'
  <2> SUFFICES ASSUME rewrites' = 0, NEW p \in Page, NEW u \in Step
               PROVE  /\ Owners(p, u)' # {} => ms'[p][u] = "in_progress"
                      /\ \A i, k \in Owners(p, u)' : i = k
    BY DEF ClaimedByOneJob
  <2>1. /\ Owners(p, u) # {} => ms[p][u] = "in_progress"
        /\ \A i, k \in Owners(p, u) : i = k
    BY <1>0 DEF QuietInv, ClaimedByOneJob, Onward
  <2>2. (p \in C /\ u = s) \/ (p \in M /\ u = t) => Owners(p, u) = {}
    BY <2>1
  <2>3. Owners(p, u)' # {} => ms'[p][u] = "in_progress"
    BY <1>1, <1>4, <2>1, OwnersAreJobs
  <2>4. ASSUME NEW i \in Owners(p, u)', NEW k \in Owners(p, u)' PROVE i = k
    BY <1>4, <2>1, <2>2, OwnersAreJobs
  <2> QED
    BY <2>3, <2>4
<1>9. SettledBookIsTruthful'
  <2>1. \A p \in Page : retry[p] <= retry'[p]
    BY ConstantsAssumption DEF QuietInv, TypeOK
  <2>2. \A p \in Page, u \in Step : ms'[p][u] = ms[p][u] \/ ms[p][u] = "idle"
    BY <1>1
  <2> QED
    BY <2>1, <2>2, BooksStayTruthful DEF QuietInv
<1> QED
  BY <1>5, <1>6, <1>7, <1>8, <1>9 DEF QuietInv

(* Pages put back to idle at steps nobody owns, or corrected.                *)
LEMMA ReopenQuiet ==
  ASSUME QuietInv, TypeOK', Onward, UNCHANGED <<retry, status, job, events>>,
         faults' = 0 => \A p \in Page, s \in Step :
           \/ ms'[p][s] = ms[p][s]
           \/ /\ ms[p][s] = "in_progress" /\ ms'[p][s] = "idle" /\ Owners(p, s) = {}
           \/ rewrites' # 0 /\ ms'[p][s] = "idle" /\ s # "ocr"
  PROVE  QuietInv'
<1> SUFFICES ASSUME faults' = 0 PROVE QuietInv'
  BY DEF QuietInv, WorkIsClaimed, OcrGoesFirst, SeenIsCurrent, ClaimedByOneJob, SettledBookIsTruthful
<1>0. faults = 0 /\ "ocr" \in Step
  BY DEF Onward, Step
<1>1. \A p \in Page, s \in Step : Owners(p, s)' = Owners(p, s)
  BY DEF Owners
<1>2. OcrGoesFirst'
  <2>1. ASSUME NEW p \in Page
        PROVE  /\ Owners(p, "ocr")' # {} => ms'[p]["ocr"] = "in_progress"
               /\ \A i, k \in Owners(p, "ocr")' : i = k
               /\ \A u \in Step \ {"ocr"} :
                    ms'[p][u] # "idle" \/ Owners(p, u)' # {} => ms'[p]["ocr"] = "succeeded"
    BY <1>0, <1>1 DEF QuietInv, OcrGoesFirst
  <2>2. ASSUME NEW e \in events' PROVE ms'[e.page]["ocr"] = "succeeded"
    BY <1>0 DEF QuietInv, OcrGoesFirst, TypeOK, Event
  <2> QED
    BY <2>1, <2>2 DEF OcrGoesFirst
<1>3. WorkIsClaimed' /\ SeenIsCurrent'
  BY <1>0 DEF QuietInv, WorkIsClaimed, SeenIsCurrent
<1>4. ClaimedByOneJob'
  BY <1>0, <1>1 DEF QuietInv, ClaimedByOneJob, Onward
<1>5. SettledBookIsTruthful'
  <2>1. \A p \in Page : retry[p] <= retry'[p]
    BY ConstantsAssumption DEF QuietInv, TypeOK
  <2> QED
    BY <2>1, BooksStayTruthful DEF QuietInv
<1> QED
  BY <1>2, <1>3, <1>4, <1>5 DEF QuietInv

(* The driver resets and refunds only in books that are pending, and settles *)
(* by the milestones and counts it leaves.                                   *)
LEMMA DriverQuiet ==
  ASSUME QuietInv, TypeOK', PipelineDriver
  PROVE  QuietInv'
<1> SUFFICES ASSUME faults' = 0 PROVE QuietInv'
  BY DEF QuietInv, WorkIsClaimed, OcrGoesFirst, SeenIsCurrent, ClaimedByOneJob, SettledBookIsTruthful
<1>0. /\ faults = 0 /\ "ocr" \in Step /\ "embedding" \in Step
      /\ UNCHANGED <<events, job, faults, rewrites>> /\ ms' = Reset /\ retry' = Refunded
      /\ ms \in [Page -> [Step -> PageStatus]] /\ retry \in [Page -> 0 .. MaxRetries]
  BY DEF PipelineDriver, Step, QuietInv, TypeOK
<1>1. \A p \in Page, s \in Step :
        \/ ms'[p][s] = ms[p][s]
        \/ ms[p][s] = "failed" /\ ms'[p][s] = "idle" /\ status[BookOf[p]] = "pending"
  BY <1>0 DEF Reset, Resettable
<1>2. \A p \in Page : \/ retry'[p] = retry[p]
                      \/ retry'[p] = 0 /\ status[BookOf[p]] = "pending"
  BY <1>0 DEF Refunded, Met
<1>3. \A p \in Page, s \in Step : Owners(p, s)' = Owners(p, s)
  BY <1>0 DEF Owners
<1>4. OcrGoesFirst'
  <2>1. ASSUME NEW p \in Page
        PROVE  /\ Owners(p, "ocr")' # {} => ms'[p]["ocr"] = "in_progress"
               /\ \A i, k \in Owners(p, "ocr")' : i = k
               /\ \A u \in Step \ {"ocr"} :
                    ms'[p][u] # "idle" \/ Owners(p, u)' # {} => ms'[p]["ocr"] = "succeeded"
    BY <1>0, <1>1, <1>3 DEF QuietInv, OcrGoesFirst
  <2>2. ASSUME NEW e \in events' PROVE ms'[e.page]["ocr"] = "succeeded"
    <3>1. e.page \in Page /\ ms[e.page]["ocr"] = "succeeded"
      BY <1>0 DEF QuietInv, OcrGoesFirst, TypeOK, Event
    <3> QED
      BY <1>0, <1>1, <3>1
  <2> QED
    BY <2>1, <2>2 DEF OcrGoesFirst
<1>5. WorkIsClaimed'
  BY <1>0 DEF QuietInv, WorkIsClaimed
<1>6. SeenIsCurrent'
  <2> SUFFICES ASSUME NEW i \in JobId, job'[i].phase = "working", job'[i].step = "ocr",
                      NEW p \in job'[i].todo
               PROVE  retry'[p] <= job'[i].seen[p]
    BY DEF SeenIsCurrent
  <2>1. p \in Page /\ job[i].seen[p] \in 0 .. MaxRetries
    BY <1>0 DEF QuietInv, TypeOK, Job
  <2>2. retry[p] <= job[i].seen[p]
    BY <1>0 DEF QuietInv, SeenIsCurrent
  <2> QED
    BY <1>0, <1>2, <2>1, <2>2
<1>7. ClaimedByOneJob'
  BY <1>0, <1>1, <1>3 DEF QuietInv, ClaimedByOneJob
<1>8. SettledBookIsTruthful'
  <2> SUFFICES ASSUME rewrites = 0, NEW b \in Book
               PROVE  /\ status'[b] = "ready" => \A p \in PagesOf(b) : ms'[p]["embedding"] = "succeeded"
                      /\ status'[b] = "error" => \E p \in PagesOf(b) : FailedExhausted(ms', retry', p)
    BY <1>0 DEF SettledBookIsTruthful
  <2>0. \A p \in PagesOf(b) : p \in Page /\ BookOf[p] = b
    BY DEF PagesOf
  <2>1. CASE b \in Settled(Reset, Refunded)
    <3>1. status'[b] = IF \E p \in PagesOf(b) : FailedExhausted(Reset, Refunded, p)
                         THEN "error" ELSE "ready"
      BY <2>1 DEF PipelineDriver
    <3>2. \A p \in PagesOf(b) : Terminal(Reset, Refunded, p)
      BY <2>1 DEF Settled
    <3> QED
      BY <1>0, <3>1, <3>2 DEF Terminal
  <2>2. CASE b \notin Settled(Reset, Refunded)
    <3>1. status'[b] = status[b]
      BY <2>2 DEF PipelineDriver
    <3>2. CASE status[b] = "ready"
      BY <1>0, <1>1, <2>0, <3>1, <3>2 DEF QuietInv, SettledBookIsTruthful
    <3>3. CASE status[b] = "error"
      <4>1. PICK p \in PagesOf(b) : FailedExhausted(ms, retry, p)
        BY <1>0, <3>3 DEF QuietInv, SettledBookIsTruthful
      <4>2. retry'[p] = retry[p] /\ \A s \in Step : ms'[p][s] = ms[p][s]
        BY <1>1, <1>2, <2>0, <3>3
      <4>3. FailedExhausted(ms', retry', p)
        BY <4>1, <4>2 DEF FailedExhausted
      <4> QED
        BY <3>1, <3>3, <4>3
    <3> QED
      BY <3>1, <3>2, <3>3
  <2> QED
    BY <2>1, <2>2
<1> QED
  BY <1>4, <1>5, <1>6, <1>7, <1>8, <1>0 DEF QuietInv

-----------------------------------------------------------------------------
(* The actions.                                                              *)
LEMMA ClaimForm ==
  ASSUME TypeOK, NEW P \in SUBSET Page, NEW s \in Step, Claim(P, s)
  PROVE  \E t \in Step \ {"ocr"}, jc \in JobId \cup {NoJob} :
           s # t /\ TwoClaims(s, P, jc, t, {}, NoJob)
<1>0. PICK t \in Step \ {"ocr"} : s # t
  BY DEF Step
<1>1. ms' = Set(ms, P, s, "in_progress")
  BY DEF Claim
<1>2. Set(ms, P, s, "in_progress") = Set(Set(ms, P, s, "in_progress"), {}, t, "in_progress")
  BY <1>1 DEF Set, TypeOK
<1>4. PICK jc \in JobId \cup {NoJob} :
        job' = IF jc = NoJob THEN job ELSE [job EXCEPT ![jc] = Queued(s, P)]
  BY ConstantsAssumption DEF Claim
<1>5. job' = [j \in JobId |-> IF j = jc THEN Queued(s, P)
                         ELSE IF j = NoJob THEN Queued(t, {}) ELSE job[j]]
  BY <1>4, ConstantsAssumption DEF TypeOK
<1> QED
  BY <1>0, <1>1, <1>2, <1>5 DEF TwoClaims

LEMMA ClaimsQuiet ==
  ASSUME QuietInv, TypeOK', NEW P \in SUBSET Page, NEW s \in Step, Claim(P, s),
         \A p \in P : ms[p][s] = "idle" /\ (s # "ocr" => ms[p]["ocr"] = "succeeded")
  PROVE  QuietInv'
<1>1. UNCHANGED <<retry, status, events, rewrites>>
  BY DEF Claim
<1>2. Onward
  BY <1>1, SpendOnward DEF Claim, QuietInv, Onward
<1>3. PICK t \in Step \ {"ocr"}, jc \in JobId \cup {NoJob} :
        s # t /\ TwoClaims(s, P, jc, t, {}, NoJob)
  BY ClaimForm DEF QuietInv
<1>4. UNCHANGED <<retry, status>> /\ events' \subseteq events
  BY <1>1
<1> QED
  BY <1>2, <1>3, <1>4, ClaimQuiet

LEMMA ScanQuiet ==
  ASSUME QuietInv, TypeOK', Scan
  PROVE  QuietInv'
<1>0. Step = {"ocr", "chunking", "embedding", "spell_check"}
  BY DEF Step
<1>1. ASSUME NEW b \in Book, OcrScan(b) PROVE QuietInv'
  BY <1>0, <1>1, ClaimsQuiet DEF OcrScan, PagesOf
<1>2. CASE ChunkingScan
  BY <1>0, <1>2, ClaimsQuiet DEF ChunkingScan, ChunkingReady
<1>3. CASE EmbeddingScan
  <2>1. PICK P \in SUBSET {p \in Page : EmbeddingReady(p)} : Claim(P, "embedding")
    BY <1>3 DEF EmbeddingScan
  <2>2. CASE faults' # 0
    BY <2>2 DEF QuietInv, WorkIsClaimed, OcrGoesFirst, SeenIsCurrent, ClaimedByOneJob,
                SettledBookIsTruthful
  <2>3. CASE faults' = 0
    <3>1. faults = 0
      BY <2>1, <2>3, SpendOnward DEF Claim, QuietInv
    <3>2. \A p \in P : p \in Page /\ ms[p]["embedding"] = "idle" /\ ms[p]["ocr"] = "succeeded"
      BY <1>0, <3>1 DEF EmbeddingReady, QuietInv, OcrGoesFirst
    <3> QED
      BY <1>0, <2>1, <3>2, ClaimsQuiet
  <2> QED
    BY <2>2, <2>3
<1>4. CASE SpellCheckScan
  BY <1>0, <1>4, ClaimsQuiet DEF SpellCheckScan, SpellCheckReady
<1>5. CASE EventDispatcher
  <2>1. PICK E \in SUBSET events : Dispatch(E)
    BY <1>5 DEF EventDispatcher
  <2> DEFINE C == Claimable(E, ChunkingTrigger, "chunking")
             M == Claimable(E, {"chunking_succeeded"}, "embedding")
  <2>2. PICK jc \in JobId \cup {NoJob}, jm \in JobId \cup {NoJob} :
          /\ job' = [j \in JobId |-> IF j = jc THEN Queued("chunking", C)
                                ELSE IF j = jm THEN Queued("embedding", M)
                                ELSE job[j]]
          /\ Spend(0) \/ Spend(1)
    BY <2>1 DEF Dispatch
  <2>3. /\ ms' = Set(Set(ms, C, "chunking", "in_progress"), M, "embedding", "in_progress")
        /\ UNCHANGED <<retry, status, rewrites>> /\ events' \subseteq events
    BY <2>1 DEF Dispatch
  <2>4. Onward
    BY <2>2, <2>3, SpendOnward DEF QuietInv, Onward
  <2>5. CASE faults' # 0
    BY <2>5 DEF QuietInv, WorkIsClaimed, OcrGoesFirst, SeenIsCurrent, ClaimedByOneJob,
                SettledBookIsTruthful
  <2>6. CASE faults' = 0
    <3>1. /\ \A p \in C : p \in Page /\ ms[p]["chunking"] = "idle" /\ ms[p]["ocr"] = "succeeded"
          /\ \A p \in M : p \in Page /\ ms[p]["embedding"] = "idle" /\ ms[p]["ocr"] = "succeeded"
      BY <2>4, <2>6 DEF Claimable, QuietInv, OcrGoesFirst, TypeOK, Event, Onward
    <3>2. C \in SUBSET Page /\ M \in SUBSET Page
      BY <3>1
    <3>3. /\ "chunking" \in Step /\ "embedding" \in Step \ {"ocr"} /\ "chunking" # "embedding"
          /\ UNCHANGED <<retry, status>> /\ events' \subseteq events
      BY <1>0, <2>3
    <3>4. TwoClaims("chunking", C, jc, "embedding", M, jm)
      BY <2>2, <2>3 DEF TwoClaims
    <3> HIDE DEF C, M
    <3> QED
      BY <2>4, <3>1, <3>2, <3>3, <3>4, ClaimQuiet
  <2> QED
    BY <2>5, <2>6
<1> QED
  BY <1>1, <1>2, <1>3, <1>4, <1>5 DEF Scan

(* One job moves on without touching a page.                                 *)
LEMMA JobQuiet ==
  ASSUME QuietInv, TypeOK', Onward, UNCHANGED <<ms, retry, status, events>>,
         NEW j \in JobId, \A i \in JobId \ {j} : job'[i] = job[i],
         faults' = 0 =>
           /\ job'[j].phase # "dead"
           /\ job'[j].todo \cup job'[j].taken \subseteq job'[j].args
           /\ job'[j].phase = "locked" => job'[j].todo = {}
           /\ job'[j].phase = "working" /\ job'[j].step = "ocr" =>
                \A p \in job'[j].todo : retry[p] <= job'[j].seen[p]
           /\ \A p \in Page, s \in Step : j \in Owners(p, s)' => j \in Owners(p, s)
  PROVE  QuietInv'
<1>1. ASSUME faults' = 0 PROVE WorkIsClaimed' /\ SeenIsCurrent'
  <2>1. WorkIsClaimed /\ SeenIsCurrent /\ faults = 0
    BY <1>1 DEF QuietInv, Onward
  <2>2. WorkIsClaimed'
    BY <1>1, <2>1 DEF WorkIsClaimed
  <2>3. SeenIsCurrent'
    BY <1>1, <2>1 DEF SeenIsCurrent
  <2> QED
    BY <2>2, <2>3
<1>2. ASSUME faults' = 0, NEW p \in Page, NEW s \in Step
      PROVE  Owners(p, s)' \subseteq Owners(p, s)
  <2>1. ASSUME NEW i \in JobId, i \in Owners(p, s)' PROVE i \in Owners(p, s)
    BY <1>2, <2>1, OwnersFacts
  <2> QED
    BY <2>1, OwnersAreJobs
<1> QED
  BY <1>1, <1>2, ShrinkQuiet

LEMMA FreeIsIdle ==
  /\ FreeJob.phase = "free" /\ FreeJob.todo = {} /\ FreeJob.taken = {}
BY DEF FreeJob

LEMMA TriedIs ==
  ASSUME NEW r \in Job, NEW taken \in SUBSET Page, NEW todo \in SUBSET Page, r.phase = "queued"
  PROVE  \/ Tried(r, taken, todo) = FreeJob
         \/ /\ Tried(r, taken, todo).phase \in {"queued", "locked"}
            /\ Tried(r, taken, todo).step = r.step /\ Tried(r, taken, todo).args = r.args
            /\ Tried(r, taken, todo).todo = todo /\ Tried(r, taken, todo).taken = taken
            /\ Tried(r, taken, todo).phase = "locked" => todo = {}
BY DEF Tried, Job

(* Trying a lock never adds to what a job may work.                          *)
LEMMA TriedQuiet ==
  ASSUME QuietInv, TypeOK', Onward, UNCHANGED <<ms, retry, status, events>>,
         NEW j \in JobId, NEW p \in Page, job[j].phase = "queued", p \in job[j].todo,
         NEW taken \in {job[j].taken, job[j].taken \cup {p}},
         job' = [job EXCEPT ![j] = Tried(job[j], taken, job[j].todo \ {p})]
  PROVE  QuietInv'
<1> DEFINE todo == job[j].todo \ {p}
           r == job'[j]
<1>1. job[j] \in Job /\ taken \subseteq Page /\ todo \subseteq Page
  BY DEF QuietInv, TypeOK, Job
<1>2. r = Tried(job[j], taken, todo) /\ \A i \in JobId \ {j} : job'[i] = job[i]
  BY DEF QuietInv, TypeOK
<1>3. \/ r = FreeJob
      \/ /\ r.phase \in {"queued", "locked"} /\ r.step = job[j].step /\ r.args = job[j].args
         /\ r.todo = todo /\ r.taken = taken /\ (r.phase = "locked" => todo = {})
  BY <1>1, <1>2, TriedIs
<1>4. \A q \in Page, s \in Step : j \in Owners(q, s)' => j \in Owners(q, s)
  <2> SUFFICES ASSUME NEW q \in Page, NEW s \in Step PROVE Has(r, q, s) => Has(job[j], q, s)
    BY OwnersFacts
  <2> QED
    BY <1>3, FreeIsIdle DEF Has
<1>5. faults' = 0 => job[j].todo \cup job[j].taken \subseteq job[j].args
  BY DEF QuietInv, WorkIsClaimed, Onward
<1>6. faults' = 0 => r.todo \cup r.taken \subseteq r.args
  BY <1>3, <1>5, FreeIsIdle
<1> QED
  BY <1>2, <1>3, <1>4, <1>6, FreeIsIdle, JobQuiet

LEMMA JobStepQuiet ==
  ASSUME QuietInv, TypeOK', NEW j \in JobId, JobStep(j)
  PROVE  QuietInv'
<1>0. /\ job[j] \in Job /\ job[j].step \in Step
      /\ job[j].args \in SUBSET Page /\ job[j].taken \in SUBSET Page
      /\ job[j].todo \in SUBSET Page /\ job[j].seen \in [Page -> 0 .. MaxRetries]
      /\ job \in [JobId -> Job] /\ retry \in [Page -> 0 .. MaxRetries] /\ MaxRetries \in Nat
      /\ rewrites \in Nat
  BY ConstantsAssumption DEF QuietInv, TypeOK, Job
<1>00. /\ faults = 0 => /\ job[j].todo \cup job[j].taken \subseteq job[j].args
                        /\ job[j].phase = "locked" => job[j].todo = {}
  BY DEF QuietInv, WorkIsClaimed
<1>1. ASSUME NEW p \in Page, JobTryLock(j, p) PROVE QuietInv'
  BY <1>1, TriedQuiet DEF JobTryLock, Onward
<1>2. CASE JobLoad(j)
  <2>1. /\ job'[j].phase = "working" /\ job'[j].todo = job[j].taken
        /\ job'[j].taken = job[j].taken /\ job'[j].args = job[j].args /\ job'[j].step = job[j].step
        /\ job'[j].seen = [p \in Page |-> IF job[j].step = "ocr" /\ p \in job[j].taken
                                           THEN retry[p] ELSE 0]
        /\ \A i \in JobId \ {j} : job'[i] = job[i]
    BY <1>0, <1>2 DEF JobLoad, Job
  <2>2. \A p \in Page, s \in Step : j \in Owners(p, s)' => j \in Owners(p, s)
    <3>1. \A p \in Page, s \in Step : Has(job'[j], p, s) => Has(job[j], p, s)
      BY <1>2, <2>1 DEF JobLoad, Has
    <3> QED
      BY <3>1, OwnersFacts
  <2>3. job'[j].step = "ocr" => \A p \in job'[j].todo : retry[p] <= job'[j].seen[p]
    BY <1>0, <2>1
  <2> QED
    BY <1>2, <1>00, <2>1, <2>2, <2>3, JobQuiet DEF JobLoad, Onward
<1>3. ASSUME PdfFails(j), faults' = 0 PROVE QuietInv'
  <2>1. job'[j] = [job[j] EXCEPT !.phase = "working"] /\ \A i \in JobId \ {j} : job'[i] = job[i]
    BY <1>0, <1>3 DEF PdfFails
  <2>2. /\ job'[j].phase = "working" /\ job'[j].step = job[j].step /\ job'[j].args = job[j].args
        /\ job'[j].taken = job[j].taken /\ job'[j].seen = job[j].seen
        /\ job'[j].todo = job[j].todo /\ job[j].todo = {}
    BY <1>0, <1>00, <1>3, <2>1 DEF PdfFails, Job
  <2>3. \A p \in job[j].taken : j \in Owners(p, job[j].step)
    <3>1. \A p \in job[j].taken : p \in Page /\ Has(job[j], p, job[j].step)
      BY <1>0, <1>3 DEF PdfFails, Has
    <3> QED
      BY <1>0, <3>1, OwnersFacts
  <2>4. \A p \in Page : retry'[p] = IF p \in job[j].taken THEN Bumped(retry[p]) ELSE retry[p]
    BY <1>3 DEF PdfFails
  <2>5. \A p \in job[j].taken : retry[p] <= retry'[p]
    BY <1>0, <2>4 DEF Bumped
  <2>6. Onward /\ UNCHANGED <<status, events>> /\ ms' = Set(ms, job[j].taken, job[j].step, "failed")
    BY <1>3 DEF PdfFails, Onward
  <2> DEFINE X == job[j].taken
  <2>7. /\ X \in SUBSET Page /\ \A p \in Page \ X : retry'[p] = retry[p]
        /\ job'[j].todo = job[j].todo \ X /\ job'[j].todo = {} /\ events' \ events = {}
    BY <1>0, <2>2, <2>4, <2>6
  <2> HIDE DEF X
  <2>8. \A e \in events' \ events : e.page \in X /\ (job[j].step = "ocr" => "failed" = "succeeded")
    BY <2>7
  <2>9. \A p \in X : j \in Owners(p, job[j].step) /\ retry[p] <= retry'[p]
    BY <2>3, <2>5 DEF X
  <2>10. Onward /\ UNCHANGED status /\ ms' = Set(ms, X, job[j].step, "failed")
    BY <2>6 DEF X
  <2> QED
    BY <2>1, <2>2, <2>7, <2>8, <2>9, <2>10, OutcomeQuiet
<1>4. ASSUME NEW p \in Page, NEW v \in {"succeeded", "failed"}, Working(j, p), PageDone(j, p),
             Onward, UNCHANGED status, ms' = Set(ms, {p}, job[j].step, v),
             \A e \in events' \ events : e.page = p /\ (job[j].step = "ocr" => v = "succeeded"),
             \A q \in Page \ {p} : retry'[q] = retry[q],
             faults' = 0 => retry[p] <= retry'[p]
      PROVE  QuietInv'
  <2>1. job'[j] = [job[j] EXCEPT !.todo = @ \ {p}] /\ \A i \in JobId \ {j} : job'[i] = job[i]
    BY <1>0, <1>4 DEF PageDone
  <2>2. /\ job'[j].phase = "working" /\ job[j].phase = "working"
        /\ job'[j].step = job[j].step /\ job'[j].args = job[j].args
        /\ job'[j].taken = job[j].taken /\ job'[j].seen = job[j].seen
        /\ job'[j].todo = job[j].todo \ {p}
    BY <1>0, <1>4, <2>1 DEF Working, Job
  <2>3. j \in Owners(p, job[j].step)
    <3>1. Has(job[j], p, job[j].step)
      BY <1>4 DEF Working, Has
    <3> QED
      BY <1>0, <3>1, OwnersFacts
  <2> DEFINE X == {p}
  <2>4. /\ X \in SUBSET Page /\ \A q \in X : j \in Owners(q, job[j].step)
        /\ faults' = 0 => \A q \in X : retry[q] <= retry'[q]
        /\ ms' = Set(ms, X, job[j].step, v) /\ job'[j].todo = job[j].todo \ X
        /\ \A e \in events' \ events : e.page \in X /\ (job[j].step = "ocr" => v = "succeeded")
        /\ \A q \in Page \ X : retry'[q] = retry[q]
    BY <1>4, <2>2, <2>3
  <2>5. Onward /\ UNCHANGED status
    BY <1>4
  <2> HIDE DEF X
  <2> QED
    BY <2>1, <2>2, <2>4, <2>5, OutcomeQuiet
<1>5. ASSUME NEW p \in Page, PageSucceeds(j, p) PROVE QuietInv'
  <2>1. \A e \in events' \ events : e.page = p
    BY <1>5 DEF PageSucceeds, Emitted
  <2>2. /\ Working(j, p) /\ PageDone(j, p) /\ UNCHANGED <<retry, status, faults, rewrites>>
        /\ ms' = Set(ms, {p}, job[j].step, "succeeded")
    BY <1>5 DEF PageSucceeds
  <2>3. \A q \in Page : retry[q] <= retry'[q]
    BY <1>0, <2>2
  <2> QED
    BY <1>4, <2>1, <2>2, <2>3 DEF Onward
<1>6. ASSUME NEW p \in Page, SpellCheckRewrites(j, p) PROVE QuietInv'
  <2> SUFFICES ASSUME faults' = 0 PROVE QuietInv'
    BY DEF QuietInv, WorkIsClaimed, OcrGoesFirst, SeenIsCurrent, ClaimedByOneJob, SettledBookIsTruthful
  <2>0. faults = 0 /\ rewrites' # 0 /\ "ocr" \in Step
    BY <1>0, <1>6 DEF SpellCheckRewrites, Step
  <2>1. job'[j] = [job[j] EXCEPT !.todo = @ \ {p}] /\ \A i \in JobId \ {j} : job'[i] = job[i]
    BY <1>0, <1>6 DEF SpellCheckRewrites, PageDone
  <2>2. /\ job'[j].phase = job[j].phase /\ job'[j].step = job[j].step /\ job'[j].args = job[j].args
        /\ job'[j].taken = job[j].taken /\ job'[j].seen = job[j].seen
        /\ job'[j].todo = job[j].todo \ {p}
    BY <1>0, <2>1 DEF Job
  <2>3. ms[p]["ocr"] = "succeeded"
    <3>0. Has(job[j], p, "spell_check") /\ "spell_check" \in Step \ {"ocr"}
      BY <1>6 DEF SpellCheckRewrites, Working, Step, Has
    <3>1. j \in Owners(p, "spell_check") /\ "spell_check" \in Step \ {"ocr"}
      BY <3>0, OwnersFacts
    <3> QED
      BY <2>0, <3>1 DEF QuietInv, OcrGoesFirst
  <2>4. \A q \in Page : /\ q # p => ms'[q] = ms[q]
                        /\ ms'[q]["ocr"] = ms[q]["ocr"]
    <3> DEFINE m1 == Set(ms, {p}, "spell_check", "succeeded")
    <3>0. ms \in [Page -> [Step -> PageStatus]] /\ "spell_check" \in Step /\ "succeeded" \in PageStatus
      BY DEF QuietInv, TypeOK, Step, PageStatus
    <3>1. m1 \in [Page -> [Step -> PageStatus]]
      BY <3>0, SetType
    <3>2. \A q \in Page : /\ q # p => m1[q] = ms[q]
                          /\ m1[q]["ocr"] = ms[q]["ocr"]
      BY <3>0 DEF Set, Step
    <3>3. ms' = Set(Set(m1, {p}, "chunking", "idle"), {p}, "embedding", "idle")
      BY <1>6 DEF SpellCheckRewrites
    <3> HIDE DEF m1
    <3> QED
      BY <3>1, <3>2, <3>3, ReindexedValues
  <2>5. \A e \in events' : e \in events \/ e.page = p
    BY <1>6 DEF SpellCheckRewrites, Emitted
  <2>6. \A q \in Page, s \in Step : Owners(q, s)' \subseteq Owners(q, s)
    <3>1. ASSUME NEW q \in Page, NEW s \in Step, NEW i \in JobId, i \in Owners(q, s)'
          PROVE  i \in Owners(q, s)
      <4>1. Has(job'[i], q, s) => Has(job[i], q, s)
        BY <2>1, <2>2 DEF Has
      <4> QED
        BY <3>1, <4>1, OwnersFacts
    <3> QED
      BY <3>1, OwnersAreJobs
  <2>7. OcrGoesFirst'
    <3>1. ASSUME NEW q \in Page
          PROVE  /\ Owners(q, "ocr")' # {} => ms'[q]["ocr"] = "in_progress"
                 /\ \A i, k \in Owners(q, "ocr")' : i = k
                 /\ \A u \in Step \ {"ocr"} :
                      ms'[q][u] # "idle" \/ Owners(q, u)' # {} => ms'[q]["ocr"] = "succeeded"
      BY <2>0, <2>3, <2>4, <2>6 DEF QuietInv, OcrGoesFirst
    <3>2. ASSUME NEW e \in events' PROVE ms'[e.page]["ocr"] = "succeeded"
      <4>1. e \in events => e.page \in Page /\ ms[e.page]["ocr"] = "succeeded"
        BY <2>0 DEF QuietInv, OcrGoesFirst, TypeOK, Event
      <4> QED
        BY <2>3, <2>4, <2>5, <4>1
    <3> QED
      BY <3>1, <3>2 DEF OcrGoesFirst
  <2>8. WorkIsClaimed'
    <3> SUFFICES ASSUME NEW i \in JobId
                 PROVE  /\ job'[i].phase # "dead"
                        /\ job'[i].todo \cup job'[i].taken \subseteq job'[i].args
                        /\ job'[i].phase = "locked" => job'[i].todo = {}
      BY DEF WorkIsClaimed
    <3>1. /\ job[i].phase # "dead"
          /\ job[i].todo \cup job[i].taken \subseteq job[i].args
          /\ job[i].phase = "locked" => job[i].todo = {}
      BY <2>0 DEF QuietInv, WorkIsClaimed
    <3> QED
      BY <2>1, <2>2, <3>1
  <2>9. SeenIsCurrent'
    <3>1. \A i \in JobId : job[i].phase = "working" /\ job[i].step = "ocr" =>
            \A q \in job[i].todo : retry[q] <= job[i].seen[q]
      BY <2>0 DEF QuietInv, SeenIsCurrent
    <3>2. retry' = retry
      BY <1>6 DEF SpellCheckRewrites
    <3>3. ASSUME NEW i \in JobId, job'[i].phase = "working" /\ job'[i].step = "ocr",
                 NEW q \in job'[i].todo
          PROVE  retry'[q] <= job'[i].seen[q]
      <4>1. CASE i = j
        <5>1. job[j].phase = "working" /\ job[j].step = "ocr" /\ q \in job[j].todo
          BY <2>2, <3>3, <4>1
        <5>2. retry[q] <= job[j].seen[q]
          BY <3>1, <5>1
        <5> QED
          BY <2>2, <3>2, <4>1, <5>2
      <4>2. CASE i # j
        <5>1. job'[i] = job[i]
          BY <2>1, <4>2
        <5> QED
          BY <3>1, <3>2, <3>3, <5>1
      <4> QED
        BY <4>1, <4>2
    <3> QED
      BY <3>3 DEF SeenIsCurrent
  <2> QED
    BY <2>0, <2>7, <2>8, <2>9 DEF QuietInv, ClaimedByOneJob, SettledBookIsTruthful
<1>7. ASSUME NEW p \in Page, OcrPageFails(j, p) PROVE QuietInv'
  <2>1. PICK v \in {"succeeded", "failed"} :
          ms' = Set(ms, {p}, "ocr", v) /\ events' = events \cup Emitted(p, EventName["ocr"][v])
    BY <1>7 DEF OcrPageFails
  <2>2. \A e \in events' \ events : e.page = p /\ v = "succeeded"
    BY <2>1 DEF Emitted, EventName, ChunkingTrigger
  <2>3. /\ retry' = [retry EXCEPT ![p] = Bumped(job[j].seen[p])]
        /\ Working(j, p) /\ job[j].step = "ocr" /\ PageDone(j, p)
        /\ UNCHANGED <<status, faults, rewrites>>
    BY <1>7 DEF OcrPageFails
  <2>4. faults' = 0 => retry[p] <= retry'[p]
    <3>1. faults = 0 => retry[p] <= job[j].seen[p]
      BY <2>3 DEF QuietInv, SeenIsCurrent, Working
    <3>2. retry[p] \in 0 .. MaxRetries /\ job[j].seen[p] \in 0 .. MaxRetries
          /\ retry'[p] = Bumped(job[j].seen[p])
      BY <1>0, <2>3
    <3> QED
      BY <1>0, <2>3, <3>1, <3>2 DEF Bumped
  <2>5. \A q \in Page \ {p} : retry'[q] = retry[q]
    BY <1>0, <2>3
  <2> QED
    BY <1>4, <2>1, <2>2, <2>3, <2>4, <2>5 DEF Onward
<1>8. ASSUME NEW p \in Page, PageFails(j, p) PROVE QuietInv'
  <2>1. \A e \in events' \ events : e.page = p
    BY <1>8 DEF PageFails, Emitted
  <2>2. retry' = [retry EXCEPT ![p] = Bumped(@)] /\ job[j].step # "ocr"
    BY <1>8 DEF PageFails
  <2>3. retry[p] <= retry'[p] /\ \A q \in Page \ {p} : retry'[q] = retry[q]
    BY <1>0, <2>2 DEF Bumped
  <2> QED
    BY <1>0, <1>4, <1>8, <2>1, <2>2, <2>3 DEF PageFails, Onward
<1>9. CASE JobFinish(j)
  <2>1. job'[j] = [job[j] EXCEPT !.phase = "releasing"] /\ \A i \in JobId \ {j} : job'[i] = job[i]
    BY <1>0, <1>9 DEF JobFinish
  <2>2. /\ job'[j].phase = "releasing" /\ job'[j].todo = job[j].todo
        /\ job'[j].taken = job[j].taken /\ job'[j].args = job[j].args
    BY <1>0, <2>1 DEF Job
  <2>3. \A p \in Page, s \in Step : j \notin Owners(p, s)'
    BY <2>2, OwnersFacts DEF Has
  <2> QED
    BY <1>9, <1>00, <2>1, <2>2, <2>3, JobQuiet DEF JobFinish, Onward
<1>10. CASE JobRelease(j)
  <2>1. job'[j] = FreeJob /\ \A i \in JobId \ {j} : job'[i] = job[i]
    BY <1>0, <1>10 DEF JobRelease
  <2>2. \A p \in Page, s \in Step : j \notin Owners(p, s)'
    BY <2>1, FreeIsIdle, OwnersFacts DEF Has
  <2> QED
    BY <1>10, <2>1, <2>2, FreeIsIdle, JobQuiet DEF JobRelease, Onward
<1>11. ASSUME faults' # 0 PROVE QuietInv'
  BY <1>11 DEF QuietInv, WorkIsClaimed, OcrGoesFirst, SeenIsCurrent, ClaimedByOneJob,
               SettledBookIsTruthful
<1> QED
  BY <1>1, <1>2, <1>3, <1>5, <1>6, <1>7, <1>8, <1>9, <1>10, <1>11 DEF JobStep

LEMMA FaultyIsQuiet ==
  ASSUME TypeOK', faults' # 0
  PROVE  QuietInv'
BY DEF QuietInv, WorkIsClaimed, OcrGoesFirst, SeenIsCurrent, ClaimedByOneJob,
       SettledBookIsTruthful

LEMMA FaultQuiet ==
  ASSUME QuietInv, TypeOK', Fault
  PROVE  QuietInv'
<1>1. ASSUME Spend(1) PROVE QuietInv'
  BY <1>1, SpendOnward, FaultyIsQuiet DEF QuietInv
<1>2. ASSUME NEW j \in JobId, GiveUp(j) PROVE QuietInv'
  <2>1. faults # 0 /\ UNCHANGED faults
    BY <1>2 DEF GiveUp, QuietInv, WorkIsClaimed
  <2> QED
    BY <2>1, FaultyIsQuiet
<1>3. ASSUME NEW j \in JobId, NEW p \in Page, JobLockError(j, p) PROVE QuietInv'
  BY <1>1, <1>3 DEF JobLockError
<1>4. ASSUME NEW J \in SUBSET JobId, WorkerCrash(J) PROVE QuietInv'
  BY <1>1, <1>4 DEF WorkerCrash
<1>5. ASSUME NEW j \in JobId, JobRaises(j) \/ JobCancelled(j) PROVE QuietInv'
  BY <1>1, <1>5 DEF JobRaises, JobCancelled
<1> QED
  BY <1>2, <1>3, <1>4, <1>5 DEF Fault

LEMMA RecoverQuiet ==
  ASSUME QuietInv, TypeOK', Recover
  PROVE  QuietInv'
<1>1. ASSUME NEW s \in Step, NEW p \in Page, LockExpires(s, p) PROVE QuietInv'
  <2>1. UNCHANGED <<ms, retry, status, job, events, rewrites>>
    BY <1>1 DEF LockExpires
  <2>2. Onward
    BY <1>1, <2>1, SpendOnward DEF LockExpires, QuietInv, Onward
  <2> QED
    BY <2>1, <2>2, ReopenQuiet
<1>2. ASSUME NEW j \in JobId, Redeliver(j) PROVE QuietInv'
  <2>1. faults # 0 /\ UNCHANGED faults
    BY <1>2 DEF Redeliver, QuietInv, WorkIsClaimed
  <2> QED
    BY <2>1, FaultyIsQuiet
<1>3. CASE StaleWatchdog
  <2>1. PICK S \in SUBSET Page : Watchdog(S)
    BY <1>3 DEF StaleWatchdog
  <2>2. UNCHANGED <<retry, status, job, events, rewrites>>
    BY <2>1 DEF Watchdog
  <2>3. Spend(IF \E p \in S : Attended(p) THEN 1 ELSE 0)
    BY <2>1 DEF Watchdog
  <2>4. Onward
    BY <2>2, <2>3, SpendOnward DEF QuietInv, Onward
  <2>5. ASSUME faults' = 0, NEW p \in Page, NEW s \in Step
        PROVE  \/ ms'[p][s] = ms[p][s]
               \/ ms[p][s] = "in_progress" /\ ms'[p][s] = "idle" /\ Owners(p, s) = {}
    <3>1. CASE p \in S
      <4>1. ~Attended(p)
        BY <2>3, <2>5, <3>1, SpendOnward DEF QuietInv
      <4>2. Owners(p, s) = {}
        <5>1. ASSUME NEW j \in JobId PROVE ~Has(job[j], p, s)
          <6>1. job[j].todo \cup job[j].taken \subseteq job[j].args
            BY <2>4, <2>5 DEF QuietInv, WorkIsClaimed, Onward
          <6> QED
            BY <4>1, <6>1 DEF Has, Attended
        <5> QED
          BY <5>1, OwnersFacts, OwnersAreJobs
      <4> QED
        BY <2>1, <3>1, <4>2 DEF Watchdog
    <3>2. CASE p \notin S
      BY <2>1, <3>2 DEF Watchdog
    <3> QED
      BY <3>1, <3>2
  <2> QED
    BY <2>2, <2>4, <2>5, ReopenQuiet
<1>4. CASE PipelineDriver
  BY <1>4, DriverQuiet
<1> QED
  BY <1>1, <1>2, <1>3, <1>4 DEF Recover

LEMMA CorrectQuiet ==
  ASSUME QuietInv, TypeOK', NEW p \in Page, AutoCorrect(p)
  PROVE  QuietInv'
<1>1. CASE AutoCorrectPage(p)
  <2>1. /\ UNCHANGED <<retry, status, job, events, faults>> /\ rewrites' # 0 /\ Onward
        /\ ms' = Set(Set(ms, {p}, "chunking", "idle"), {p}, "embedding", "idle")
    BY <1>1 DEF AutoCorrectPage, QuietInv, TypeOK, Onward
  <2>2. \A q \in Page, s \in Step :
          ms'[q][s] = ms[q][s] \/ (ms'[q][s] = "idle" /\ s # "ocr")
    <3>1. ms \in [Page -> [Step -> PageStatus]]
      BY DEF QuietInv, TypeOK
    <3>2. \A q \in Page, s \in Step :
            ms'[q][s] = IF q = p /\ s \in {"chunking", "embedding"} THEN "idle" ELSE ms[q][s]
      BY <2>1, <3>1, ReindexedValues
    <3> QED
      BY <3>2
  <2> QED
    BY <2>1, <2>2, ReopenQuiet
<1>2. CASE AutoCorrectEnds(p)
  BY <1>2, ReopenQuiet DEF AutoCorrectEnds, Onward
<1> QED
  BY <1>1, <1>2 DEF AutoCorrect

LEMMA NextQuiet ==
  ASSUME QuietInv, [Next]_vars
  PROVE  QuietInv'
<1>0. TypeOK'
  BY NextType DEF QuietInv
<1>1. CASE Scan
  BY <1>0, <1>1, ScanQuiet
<1>2. CASE \E j \in JobId : JobStep(j)
  BY <1>0, <1>2, JobStepQuiet
<1>3. CASE Fault
  BY <1>0, <1>3, FaultQuiet
<1>4. CASE Recover
  BY <1>0, <1>4, RecoverQuiet
<1>5. CASE \E p \in Page : AutoCorrect(p)
  BY <1>0, <1>5, CorrectQuiet
<1>6. CASE UNCHANGED vars
  BY <1>0, <1>6, ReopenQuiet DEF vars, Onward
<1> QED
  BY <1>1, <1>2, <1>3, <1>4, <1>5, <1>6 DEF Next

-----------------------------------------------------------------------------
(* The inductive invariant of a pipeline in which nothing has crashed.       *)
LEMMA QuietInvariant == Spec => []QuietInv
<1>1. Init => QuietInv
  <2> SUFFICES ASSUME Init PROVE QuietInv
    OBVIOUS
  <2>1. PICK Docx \in SUBSET Book :
          ms = [p \in Page |-> [s \in Step |->
                  IF s = "ocr" /\ BookOf[p] \in Docx THEN "succeeded" ELSE "idle"]]
    BY DEF Init
  <2>2. \A j \in JobId : job[j] = FreeJob
    BY DEF Init
  <2>3. \A p \in Page, s \in Step : Owners(p, s) = {}
    BY <2>2, FreeIsIdle DEF Owners
  <2>4. WorkIsClaimed /\ SeenIsCurrent
    BY <2>2, FreeIsIdle DEF WorkIsClaimed, SeenIsCurrent
  <2>5. OcrGoesFirst
    <3>1. events = {} /\ \A p \in Page, u \in Step \ {"ocr"} : ms[p][u] = "idle"
      BY <2>1 DEF Init
    <3> QED
      BY <2>3, <3>1 DEF OcrGoesFirst, Step
  <2>6. ClaimedByOneJob
    BY <2>3 DEF ClaimedByOneJob
  <2>7. SettledBookIsTruthful
    BY DEF Init, SettledBookIsTruthful
  <2> QED
    BY InitType, <2>4, <2>5, <2>6, <2>7 DEF QuietInv
<1>2. QuietInv /\ [Next]_vars => QuietInv'
  BY NextQuiet
<1> QED
  BY <1>1, <1>2, PTL DEF Spec

(* Until something crashes or a text changes, a step of a page has at most   *)
(* one job that still has it to do, and has one only while it is marked in   *)
(* progress: the scanners and the dispatcher, which claim the same pages,    *)
(* look again under the row lock (event_dispatcher.py:36).                   *)
THEOREM ClaimsAreExclusive == Spec => []ClaimedByOneJob
BY QuietInvariant, PTL DEF QuietInv

(* Until something crashes or a text changes, a book the driver called ready *)
(* has every page embedded and keeps it so, and a book in error has a page   *)
(* that used up its retries (pipeline_driver.py:204).                        *)
THEOREM SettledBooksTellTheTruth == Spec => []SettledBookIsTruthful
BY QuietInvariant, PTL DEF QuietInv

(* Until something crashes, a retry count falls only when the driver meets   *)
(* a page for the first time, corrections or not: the OCR job writes a count *)
(* it computed from the row it read at its start (ocr_job.py:289), and that  *)
(* never undoes one that was counted since.                                  *)
THEOREM RetriesAreKept == Spec => RetryNeverDrops
<1> DEFINE Kept == faults = 0 => \A p \in Page : retry'[p] < retry[p] => p \in fresh \ fresh'
<1>1. QuietInv /\ [Next]_vars => [Kept]_vars
  <2> SUFFICES ASSUME QuietInv, Next, faults = 0, NEW p \in Page, retry'[p] < retry[p]
               PROVE  p \in fresh \ fresh'
    OBVIOUS
  <2>0. retry \in [Page -> 0 .. MaxRetries] /\ MaxRetries \in Nat
    BY ConstantsAssumption DEF QuietInv, TypeOK
  <2>1. ~UNCHANGED retry
    BY <2>0
  <2>2. CASE Scan
    BY <2>1, <2>2 DEF Scan, OcrScan, ChunkingScan, EmbeddingScan, SpellCheckScan, Claim,
                      EventDispatcher, Dispatch
  <2>3. CASE \E j \in JobId : JobStep(j)
    <3>1. PICK j \in JobId : JobStep(j)
      BY <2>3
    <3>2. CASE PdfFails(j)
      BY <2>0, <3>2 DEF PdfFails, Bumped
    <3>3. ASSUME NEW q \in Page, PageFails(j, q) PROVE FALSE
      BY <2>0, <3>3 DEF PageFails, Bumped
    <3>4. ASSUME NEW q \in Page, OcrPageFails(j, q) PROVE FALSE
      <4>1. /\ retry' = [retry EXCEPT ![q] = Bumped(job[j].seen[q])]
            /\ job[j].phase = "working" /\ job[j].step = "ocr" /\ q \in job[j].todo
        BY <3>4 DEF OcrPageFails, Working
      <4>2. retry[q] <= job[j].seen[q]
        BY <4>1 DEF QuietInv, SeenIsCurrent
      <4>3. job[j].seen[q] \in 0 .. MaxRetries
        BY <3>4 DEF QuietInv, TypeOK, Job
      <4>4. retry[q] <= Bumped(job[j].seen[q])
        BY <2>0, <4>2, <4>3 DEF Bumped
      <4>5. CASE p = q
        BY <2>0, <4>1, <4>3, <4>4, <4>5, BumpedType
      <4>6. CASE p # q
        BY <2>0, <4>1, <4>6
      <4> QED
        BY <4>5, <4>6
    <3> QED
      BY <2>1, <3>1, <3>2, <3>3, <3>4
         DEF JobStep, JobTryLock, PageSucceeds, SpellCheckRewrites, JobLoad, JobFinish, JobRelease
  <2>4. CASE Fault
    BY <2>1, <2>4 DEF Fault, JobRaises, JobCancelled, GiveUp, JobLockError, WorkerCrash
  <2>5. CASE Recover
    <3>1. CASE PipelineDriver
      BY <2>0, <3>1 DEF PipelineDriver, Refunded, Met
    <3> QED
      BY <2>1, <2>5, <3>1 DEF Recover, LockExpires, Redeliver, StaleWatchdog, Watchdog
  <2>6. CASE \E q \in Page : AutoCorrect(q)
    BY <2>1, <2>6 DEF AutoCorrect, AutoCorrectPage, AutoCorrectEnds
  <2> QED
    BY <2>2, <2>3, <2>4, <2>5, <2>6 DEF Next
<1>2. Spec => [][Kept]_vars
  BY <1>1, QuietInvariant, PTL DEF Spec
<1> QED
  BY <1>2 DEF RetryNeverDrops
=============================================================================
