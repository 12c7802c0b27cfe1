--------------------------- MODULE PagePipeline ---------------------------
(* The decoupled worker pipeline: scanners and the event dispatcher claim   *)
(* idle pages and queue jobs, jobs lock the pages they were given and work   *)
(* them one by one, the watchdog and the pipeline driver put pages back, and *)
(* the driver settles books.                                                 *)
EXTENDS Milestones

CONSTANTS
  Book, Page,          \* books and their pages
  BookOf,              \* [Page -> Book]
  JobId,               \* job slots: at most this many jobs queued or running
  NoJob,
  MaxRetries,          \* system_configs.ocr_max_retry_count
  SpellCheckEnabled,   \* system_configs.spell_check_enabled
  FailableStep,        \* steps whose work on a page may fail
  JobsMayOutliveLocks, \* a job may run past the hour its locks live
  MaxFaults,           \* crashes, lost messages, cancellations, timeouts
  MaxRewrites          \* auto-corrections that change the text of a page

ASSUME ConstantsAssumption ==
  /\ BookOf \in [Page -> Book]
  /\ NoJob \notin JobId
  /\ MaxRetries \in Nat \ {0}
  /\ MaxFaults \in Nat /\ MaxRewrites \in Nat
  /\ SpellCheckEnabled \in BOOLEAN /\ JobsMayOutliveLocks \in BOOLEAN
  /\ FailableStep \subseteq Step
ASSUME FiniteAssumption == IsFiniteSet(Page)

VARIABLES
  ms,       \* ms[p][s]: Page.<s>_milestone
  retry,    \* Page.retry_count, saturated at MaxRetries
  fresh,    \* pages whose pipeline_step is null: the driver has not seen them idle
  bms,      \* bms[b][s]: Book.<s>_milestone
  status,   \* Book.status: pending stands for every value but ready and error
  events,   \* unprocessed PipelineEvents of the types the dispatcher reacts to
  checked,  \* pages that a spell check has left issues on
  job,      \* the jobs ARQ holds or runs
  lock,     \* lock[s][p]: the redis key lock:<s>:<p>
  faults, rewrites

vars == <<ms, retry, fresh, bms, status, events, checked, job, lock, faults, rewrites>>

-----------------------------------------------------------------------------
PagesOf(b) == {p \in Page : BookOf[p] = b}
BooksOf(P) == {BookOf[p] : p \in P}

Phase == {"free", "queued", "locked", "working", "releasing", "dead"}
FreeJob == [phase |-> "free", step |-> "ocr", args |-> {}, taken |-> {},
            todo |-> {}, seen |-> [p \in Page |-> 0]]
Job == [phase : Phase, step : Step, args : SUBSET Page, taken : SUBSET Page,
        todo : SUBSET Page, seen : [Page -> 0 .. MaxRetries]]

Queued(s, P) == [FreeJob EXCEPT !.phase = "queued", !.step = s,
                                !.args = P, !.todo = P]

(* A queued job that has taken a lock is a coroutine of a worker; one that   *)
(* has not is a message in redis, or has only failed to take locks.          *)
Running(j) == \/ job[j].phase \in {"locked", "working", "releasing"}
              \/ job[j].phase = "queued" /\ job[j].todo # job[j].args

(* The page work of j is not over: the pages it took and has not finished.   *)
Active(j) == job[j].phase \in {"locked", "working"}

EventType == {"ocr_succeeded", "spell_check_succeeded", "spell_check_failed",
              "chunking_succeeded"}
Event == [page : Page, type : EventType]

(* Events of other types are marked processed and have no other effect.      *)
ChunkingTrigger == IF SpellCheckEnabled
                     THEN {"spell_check_succeeded", "spell_check_failed"}
                     ELSE {"ocr_succeeded"}
Emitted(p, type) == IF type \in ChunkingTrigger \cup {"chunking_succeeded"}
                      THEN {[page |-> p, type |-> type]} ELSE {}
EventName == [ocr |-> [succeeded |-> "ocr_succeeded", failed |-> "ocr_failed"],
              chunking |-> [succeeded |-> "chunking_succeeded",
                            failed |-> "chunking_failed"],
              embedding |-> [succeeded |-> "embedding_succeeded",
                             failed |-> "embedding_failed"],
              spell_check |-> [succeeded |-> "spell_check_succeeded",
                               failed |-> "spell_check_failed"]]

(* Every comparison with retry_count is against max_retries: larger values   *)
(* behave alike, so the count stops there.                                   *)
Bumped(n) == IF n < MaxRetries THEN n + 1 ELSE MaxRetries

Set(m, P, s, v) ==
  [p \in Page |-> IF p \in P THEN [m[p] EXCEPT ![s] = v] ELSE m[p]]

(* update_book_milestone_for_step and update_book_milestones, for books B.   *)
Rolled(b, m, B, S) ==
  [k \in Book |-> IF k \in B
                    THEN [s \in Step |-> IF s \in S
                            THEN RollUp([p \in Page |-> m[p][s]], PagesOf(k))
                            ELSE b[k][s]]
                    ELSE b[k]]

Spend(n) == /\ faults + n <= MaxFaults
            /\ faults' = faults + n

-----------------------------------------------------------------------------
(* Claiming: one transaction flips the pages to in_progress and rolls the    *)
(* books up; the job is queued after the commit, and a crash in between      *)
(* loses it (j = NoJob).                                                     *)
Claim(P, s) ==
  /\ P # {}
  /\ ms' = Set(ms, P, s, "in_progress")
  /\ bms' = Rolled(bms, ms', BooksOf(P), {s})
  /\ \/ \E j \in JobId : /\ job[j].phase = "free"
                         /\ job' = [job EXCEPT ![j] = Queued(s, P)]
                         /\ UNCHANGED faults
     \/ UNCHANGED job /\ Spend(1)
  /\ UNCHANGED <<retry, fresh, status, events, checked, lock, rewrites>>

OcrScannable == {"idle", "in_progress", "partial_failure"}

OcrScan(b) ==
  /\ bms[b]["ocr"] \in OcrScannable
  /\ \E P \in SUBSET {p \in PagesOf(b) : ms[p]["ocr"] = "idle"} : Claim(P, "ocr")

ChunkingReady(p) ==
  /\ ms[p]["ocr"] = "succeeded"
  /\ ms[p]["chunking"] = "idle"
  /\ status[BookOf[p]] # "error"
  /\ SpellCheckEnabled => ms[p]["spell_check"] \in {"succeeded", "failed"}
ChunkingScan == \E P \in SUBSET {p \in Page : ChunkingReady(p)} : Claim(P, "chunking")

EmbeddingReady(p) ==
  /\ ms[p]["chunking"] = "succeeded"
  /\ ms[p]["embedding"] = "idle"
  /\ status[BookOf[p]] # "error"
EmbeddingScan == \E P \in SUBSET {p \in Page : EmbeddingReady(p)} : Claim(P, "embedding")

(* Which books may be checked at the same time is decided from               *)
(* Book.pipeline_step, a field every job overwrites: any of them may be.     *)
SpellCheckReady(p) == ms[p]["ocr"] = "succeeded" /\ ms[p]["spell_check"] = "idle"
SpellCheckScan ==
  /\ SpellCheckEnabled
  /\ \E P \in SUBSET {p \in Page : SpellCheckReady(p)} : Claim(P, "spell_check")

(* Fault: the dispatcher does not look again whether the step is still idle. *)
ClaimableInAnyState(E, types, s) ==
  {p \in {e.page : e \in {x \in E : x.type \in types}} : status[BookOf[p]] # "error"}

(* The dispatcher drains a batch of the outbox in one transaction and only   *)
(* then queues its two jobs, chunking first: a crash loses the later ones.   *)
Claimable(E, types, s) ==
  {p \in {e.page : e \in {x \in E : x.type \in types}} :
     ms[p][s] = "idle" /\ status[BookOf[p]] # "error"}

Dispatch(E) ==
  LET C == Claimable(E, ChunkingTrigger, "chunking")
      M == Claimable(E, {"chunking_succeeded"}, "embedding")
      Sent(P, j) == IF P = {} THEN j = NoJob ELSE j # NoJob => job[j].phase = "free"
      Lost(P, j) == P # {} /\ j = NoJob
  IN /\ E # {}
     /\ ms' = Set(Set(ms, C, "chunking", "in_progress"), M, "embedding", "in_progress")
     /\ bms' = Rolled(Rolled(bms, ms', BooksOf(C), {"chunking"}),
                      ms', BooksOf(M), {"embedding"})
     /\ events' = events \ E
     /\ \E jc, jm \in JobId \cup {NoJob} :
          /\ Sent(C, jc) /\ Sent(M, jm)
          /\ jc = jm => jc = NoJob
          /\ Lost(C, jc) => jm = NoJob
          /\ job' = [j \in JobId |-> IF j = jc THEN Queued("chunking", C)
                                ELSE IF j = jm THEN Queued("embedding", M)
                                ELSE job[j]]
          /\ Spend(IF Lost(C, jc) \/ Lost(M, jm) THEN 1 ELSE 0)
     /\ UNCHANGED <<retry, fresh, status, checked, lock, rewrites>>

EventDispatcher == \E E \in SUBSET events : Dispatch(E)

-----------------------------------------------------------------------------
(* A job: take the locks page by page, load the pages it got, work them in   *)
(* any order (each page in a transaction of its own), roll the books up,     *)
(* release the locks. A job that gets no lock at all ends at once.           *)
Tried(r, taken, todo) ==
  IF todo # {} THEN [r EXCEPT !.taken = taken, !.todo = todo]
  ELSE IF taken = {} THEN FreeJob
  ELSE [r EXCEPT !.phase = "locked", !.taken = taken, !.todo = {}]

(* Fault: SET without NX, the key is taken over from its holder.             *)
JobTryLockWithoutNX(j, p) ==
  /\ job[j].phase = "queued" /\ p \in job[j].todo
  /\ lock' = [lock EXCEPT ![job[j].step][p] = j]
  /\ job' = [job EXCEPT ![j] = Tried(@, @.taken \cup {p}, @.todo \ {p})]
  /\ UNCHANGED <<ms, retry, fresh, bms, status, events, checked, faults, rewrites>>

JobTryLock(j, p) ==
  LET s == job[j].step
      free == lock[s][p] = NoJob
      taken == IF free THEN job[j].taken \cup {p} ELSE job[j].taken
  IN /\ job[j].phase = "queued" /\ p \in job[j].todo
     /\ lock' = IF free THEN [lock EXCEPT ![s][p] = j] ELSE lock
     /\ job' = [job EXCEPT ![j] = Tried(job[j], taken, job[j].todo \ {p})]
     /\ UNCHANGED <<ms, retry, fresh, bms, status, events, checked, faults, rewrites>>

(* Redis does not answer: the page is skipped as if another job held it.     *)
JobLockError(j, p) ==
  /\ job[j].phase = "queued" /\ p \in job[j].todo
  /\ Spend(1)
  /\ job' = [job EXCEPT ![j] = Tried(job[j], job[j].taken, job[j].todo \ {p})]
  /\ UNCHANGED <<ms, retry, fresh, bms, status, events, checked, lock, rewrites>>

(* The rows are read once: the OCR job computes the next retry_count from    *)
(* the value read here, the other jobs increment the stored one.             *)
JobLoad(j) ==
  /\ job[j].phase = "locked"
  /\ job' = [job EXCEPT ![j].phase = "working", ![j].todo = job[j].taken,
                        ![j].seen = [p \in Page |->
                           IF job[j].step = "ocr" /\ p \in job[j].taken
                             THEN retry[p] ELSE 0]]
  /\ UNCHANGED <<ms, retry, fresh, bms, status, events, checked, lock, faults, rewrites>>

(* No PDF: every locked page fails, then the book is rolled up in another    *)
(* transaction (JobFinish).                                                  *)
PdfFails(j) ==
  /\ job[j].phase = "locked" /\ job[j].step = "ocr" /\ "ocr" \in FailableStep
  /\ ms' = Set(ms, job[j].taken, "ocr", "failed")
  /\ retry' = [p \in Page |-> IF p \in job[j].taken THEN Bumped(retry[p]) ELSE retry[p]]
  /\ job' = [job EXCEPT ![j].phase = "working"]
  /\ UNCHANGED <<fresh, bms, status, events, checked, lock, faults, rewrites>>

Working(j, p) == job[j].phase = "working" /\ p \in job[j].todo
PageDone(j, p) == job' = [job EXCEPT ![j].todo = @ \ {p}]

PageSucceeds(j, p) ==
  LET s == job[j].step IN
  /\ Working(j, p)
  /\ PageDone(j, p)
  /\ ms' = Set(ms, {p}, s, "succeeded")
  /\ events' = events \cup Emitted(p, EventName[s].succeeded)
  /\ checked' = IF s = "spell_check" THEN checked \cup {p} ELSE checked
  /\ UNCHANGED <<retry, fresh, bms, status, lock, faults, rewrites>>

(* A spell check whose rules change the text also sends the page back        *)
(* through chunking and embedding.                                           *)
SpellCheckRewrites(j, p) ==
  /\ Working(j, p) /\ job[j].step = "spell_check"
  /\ rewrites < MaxRewrites
  /\ rewrites' = rewrites + 1
  /\ PageDone(j, p)
  /\ ms' = Set(Set(Set(ms, {p}, "spell_check", "succeeded"), {p}, "chunking", "idle"),
               {p}, "embedding", "idle")
  /\ events' = events \cup Emitted(p, "spell_check_succeeded")
  /\ checked' = checked \cup {p}
  /\ UNCHANGED <<retry, fresh, bms, status, lock, faults>>

(* Fault: a page that is skipped starts over with an unused retry budget.    *)
OcrSkipRefundsRetries(j, p) ==
  LET skipped == job[j].seen[p] + 1 >= MaxRetries
      outcome == IF skipped THEN "succeeded" ELSE "failed"
  IN /\ Working(j, p) /\ job[j].step = "ocr" /\ "ocr" \in FailableStep
     /\ PageDone(j, p)
     /\ ms' = Set(ms, {p}, "ocr", outcome)
     /\ retry' = [retry EXCEPT ![p] = IF skipped THEN 0 ELSE Bumped(@)]
     /\ events' = events \cup Emitted(p, EventName["ocr"][outcome])
     /\ UNCHANGED <<fresh, bms, status, checked, lock, faults, rewrites>>

(* An OCR page that has failed often enough is skipped: stored as succeeded  *)
(* with an empty text.                                                       *)
OcrPageFails(j, p) ==
  LET next == Bumped(job[j].seen[p])
      outcome == IF job[j].seen[p] + 1 >= MaxRetries THEN "succeeded" ELSE "failed"
  IN /\ Working(j, p) /\ job[j].step = "ocr" /\ "ocr" \in FailableStep
     /\ PageDone(j, p)
     /\ ms' = Set(ms, {p}, "ocr", outcome)
     /\ retry' = [retry EXCEPT ![p] = next]
     /\ events' = events \cup Emitted(p, EventName["ocr"][outcome])
     /\ UNCHANGED <<fresh, bms, status, checked, lock, faults, rewrites>>

PageFails(j, p) ==
  LET s == job[j].step IN
  /\ Working(j, p) /\ s \in FailableStep \ {"ocr"}
  /\ PageDone(j, p)
  /\ ms' = Set(ms, {p}, s, "failed")
  /\ retry' = [retry EXCEPT ![p] = Bumped(@)]
  /\ events' = events \cup Emitted(p, EventName[s].failed)
  /\ UNCHANGED <<fresh, bms, status, checked, lock, faults, rewrites>>

JobFinish(j) ==
  /\ job[j].phase = "working" /\ job[j].todo = {}
  /\ bms' = Rolled(bms, ms, BooksOf(job[j].taken), {job[j].step})
  /\ job' = [job EXCEPT ![j].phase = "releasing"]
  /\ UNCHANGED <<ms, retry, fresh, status, events, checked, lock, faults, rewrites>>

(* Fault: release deletes the key without comparing the token.               *)
ReleasedWithoutToken(j) == [s \in Step |-> [p \in Page |->
   IF s = job[j].step /\ p \in job[j].taken THEN NoJob ELSE lock[s][p]]]

(* RedisLock.release compares the token: a key that has expired and been     *)
(* taken by another job stays.                                               *)
Released(j) == [s \in Step |-> [p \in Page |->
                  IF s = job[j].step /\ p \in job[j].taken /\ lock[s][p] = j
                    THEN NoJob ELSE lock[s][p]]]

JobRelease(j) ==
  /\ job[j].phase = "releasing"
  /\ lock' = Released(j)
  /\ job' = [job EXCEPT ![j] = FreeJob]
  /\ UNCHANGED <<ms, retry, fresh, bms, status, events, checked, faults, rewrites>>

(* An exception outside the per-page handlers (a missing configuration, the  *)
(* database) or the job timeout of ARQ: the locks are released, the pages    *)
(* stay as they are, and ARQ does not run the job again.                     *)
JobRaises(j) ==
  /\ Active(j)
  /\ Spend(1)
  /\ job' = [job EXCEPT ![j].phase = "releasing"]
  /\ UNCHANGED <<ms, retry, fresh, bms, status, events, checked, lock, rewrites>>

(* A worker that shuts down cancels its jobs: the locks are released and ARQ *)
(* runs the job again later.                                                 *)
JobCancelled(j) ==
  /\ Active(j)
  /\ Spend(1)
  /\ lock' = Released(j)
  /\ job' = [job EXCEPT ![j] = Queued(job[j].step, job[j].args)]
  /\ UNCHANGED <<ms, retry, fresh, bms, status, events, checked, rewrites>>

-----------------------------------------------------------------------------
(* Crashes. The locks of a killed job stay until they expire; ARQ delivers   *)
(* the job again once its own in-progress key has expired, which takes twice *)
(* as long, unless it has been tried too often.                              *)
WorkerCrash(J) ==
  /\ J # {} /\ \A j \in J : Running(j)
  /\ Spend(1)
  /\ job' = [j \in JobId |-> IF j \in J THEN [FreeJob EXCEPT !.phase = "dead",
                                                !.step = job[j].step,
                                                !.args = job[j].args]
                                        ELSE job[j]]
  /\ UNCHANGED <<ms, retry, fresh, bms, status, events, checked, lock, rewrites>>

HoldsLock(j) == \E s \in Step, p \in Page : lock[s][p] = j

LockExpires(s, p) ==
  /\ lock[s][p] # NoJob
  /\ \/ job[lock[s][p]].phase = "dead" /\ UNCHANGED faults
     \/ JobsMayOutliveLocks /\ job[lock[s][p]].phase # "dead" /\ Spend(1)
  /\ lock' = [lock EXCEPT ![s][p] = NoJob]
  /\ UNCHANGED <<ms, retry, fresh, bms, status, events, checked, job, rewrites>>

Redeliver(j) ==
  /\ job[j].phase = "dead" /\ ~HoldsLock(j)
  /\ job' = [job EXCEPT ![j] = Queued(job[j].step, job[j].args)]
  /\ UNCHANGED <<ms, retry, fresh, bms, status, events, checked, lock, faults, rewrites>>

(* The tries are not counted: any crash may have been the last one.          *)
GiveUp(j) ==
  /\ job[j].phase = "dead" /\ ~HoldsLock(j)
  /\ job' = [job EXCEPT ![j] = FreeJob]
  /\ UNCHANGED <<ms, retry, fresh, bms, status, events, checked, lock, faults, rewrites>>

-----------------------------------------------------------------------------
(* The stale watchdog. A page with no live job goes stale in time; one whose *)
(* job is only slow (queued or running for over 30 minutes) may as well.     *)
InProgress(p) == \E s \in Step : ms[p][s] = "in_progress"
Attended(p) == \E j \in JobId : /\ job[j].phase \in {"queued", "locked", "working"}
                                /\ p \in job[j].args

(* Fault: the watchdog forgets one of the four milestones.                   *)
WatchdogSkipsEmbedding(S) ==
  /\ S # {} /\ \A p \in S : InProgress(p)
  /\ Spend(IF \E p \in S : Attended(p) THEN 1 ELSE 0)
  /\ ms' = [p \in Page |-> IF p \in S
              THEN [s \in Step |-> IF ms[p][s] = "in_progress" /\ s # "embedding"
                                     THEN "idle" ELSE ms[p][s]]
              ELSE ms[p]]
  /\ bms' = Rolled(bms, ms', BooksOf(S), Step)
  /\ UNCHANGED <<retry, fresh, status, events, checked, job, lock, rewrites>>

Watchdog(S) ==
  /\ S # {} /\ \A p \in S : InProgress(p)
  /\ Spend(IF \E p \in S : Attended(p) THEN 1 ELSE 0)
  /\ ms' = [p \in Page |-> IF p \in S
              THEN [s \in Step |-> IF ms[p][s] = "in_progress" THEN "idle" ELSE ms[p][s]]
              ELSE ms[p]]
  /\ bms' = Rolled(bms, ms', BooksOf(S), Step)
  /\ UNCHANGED <<retry, fresh, status, events, checked, job, lock, rewrites>>

StaleWatchdog == \E S \in SUBSET Page : Watchdog(S)

(* The pipeline driver, in one transaction: a page met idle at OCR for the   *)
(* first time starts with an unused budget, what failed and has retries left *)
(* is reset, and the books whose pages are then all terminal are settled.    *)
Met == {p \in fresh : ms[p]["ocr"] = "idle" /\ status[BookOf[p]] = "pending"}
Refunded == [p \in Page |-> IF p \in Met THEN 0 ELSE retry[p]]

(* Fault: an off-by-one in the retry budget of the reset.                    *)
ResettableOnceLess(p) == /\ \E s \in Step : ms[p][s] = "failed"
                         /\ Refunded[p] < MaxRetries - 1
                         /\ status[BookOf[p]] = "pending"

Resettable(p) == /\ \E s \in Step : ms[p][s] = "failed"
                 /\ Refunded[p] < MaxRetries
                 /\ status[BookOf[p]] = "pending"
Reset == [p \in Page |-> IF Resettable(p)
            THEN [s \in Step |-> IF ms[p][s] = "failed" THEN "idle" ELSE ms[p][s]]
            ELSE ms[p]]

(* Fault: an off-by-one in the test for a used-up budget.                    *)
ExhaustedBeyondMax(m, r, p) == /\ \E s \in Step \ {"spell_check"} : m[p][s] = "failed"
                               /\ r[p] > MaxRetries

FailedExhausted(m, r, p) == /\ \E s \in Step \ {"spell_check"} : m[p][s] = "failed"
                            /\ r[p] >= MaxRetries
Terminal(m, r, p) == m[p]["embedding"] = "succeeded" \/ FailedExhausted(m, r, p)

(* Fault: one terminal page settles its book.                                *)
SettledByAnyPage(m, r) == {b \in Book : /\ status[b] = "pending"
                                        /\ \E p \in PagesOf(b) : Terminal(m, r, p)}
Settled(m, r) == {b \in Book : /\ status[b] = "pending"
                               /\ PagesOf(b) # {}
                               /\ \A p \in PagesOf(b) : Terminal(m, r, p)}

PipelineDriver ==
  LET done == Settled(Reset, Refunded) IN
  /\ Met # {} \/ (\E p \in Page : Resettable(p)) \/ done # {}
  /\ ms' = Reset
  /\ retry' = Refunded /\ fresh' = fresh \ Met
  /\ status' = [b \in Book |->
       IF b \notin done THEN status[b]
       ELSE IF \E p \in PagesOf(b) : FailedExhausted(Reset, Refunded, p) THEN "error"
       ELSE "ready"]
  /\ bms' = Rolled(bms, Reset, done, Step)
  /\ UNCHANGED <<events, checked, job, lock, faults, rewrites>>

(* Fault: a corrected page is sent back to chunking only.                    *)
CorrectionKeepsEmbedding(p) ==
  /\ p \in checked
  /\ rewrites < MaxRewrites
  /\ rewrites' = rewrites + 1
  /\ ms' = Set(ms, {p}, "chunking", "idle")
  /\ UNCHANGED <<retry, fresh, bms, status, events, checked, job, lock, faults>>

(* The auto-correct job changes the text of a page that has issues, whatever *)
(* the state of its book, and sends the page back through the index steps;   *)
(* at its end it rolls up the books of its pages, changed or not.            *)
AutoCorrectPage(p) ==
  /\ p \in checked
  /\ rewrites < MaxRewrites
  /\ rewrites' = rewrites + 1
  /\ ms' = Set(Set(ms, {p}, "chunking", "idle"), {p}, "embedding", "idle")
  /\ UNCHANGED <<retry, fresh, bms, status, events, checked, job, lock, faults>>

AutoCorrectEnds(p) ==
  /\ p \in checked
  /\ bms' = Rolled(bms, ms, {BookOf[p]}, Step)
  /\ UNCHANGED <<ms, retry, fresh, status, events, checked, job, lock, faults, rewrites>>

AutoCorrect(p) == AutoCorrectPage(p) \/ AutoCorrectEnds(p)

-----------------------------------------------------------------------------
(* A PDF starts at OCR; a DOCX is stored with its text.                      *)
Init ==
  /\ \E Docx \in SUBSET Book :
       /\ ms = [p \in Page |-> [s \in Step |->
                  IF s = "ocr" /\ BookOf[p] \in Docx THEN "succeeded" ELSE "idle"]]
       /\ bms = [b \in Book |-> [s \in Step |->
                  IF s = "ocr" /\ b \in Docx THEN "complete" ELSE "idle"]]
       /\ fresh = {p \in Page : BookOf[p] \notin Docx}
  /\ retry = [p \in Page |-> 0]
  /\ status = [b \in Book |-> "pending"]
  /\ events = {} /\ checked = {}
  /\ job = [j \in JobId |-> FreeJob]
  /\ lock = [s \in Step |-> [p \in Page |-> NoJob]]
  /\ faults = 0 /\ rewrites = 0

Scan == \/ \E b \in Book : OcrScan(b)
        \/ ChunkingScan \/ EmbeddingScan \/ SpellCheckScan \/ EventDispatcher

JobStep(j) == \/ \E p \in Page : \/ JobTryLock(j, p) \/ PageSucceeds(j, p)
                                 \/ SpellCheckRewrites(j, p)
                                 \/ OcrPageFails(j, p) \/ PageFails(j, p)
              \/ JobLoad(j) \/ PdfFails(j) \/ JobFinish(j) \/ JobRelease(j)

Fault == \/ \E j \in JobId : \/ JobRaises(j) \/ JobCancelled(j) \/ GiveUp(j)
                               \/ \E p \in Page : JobLockError(j, p)
         \/ \E J \in SUBSET JobId : WorkerCrash(J)

Recover == \/ \E s \in Step, p \in Page : LockExpires(s, p)
           \/ \E j \in JobId : Redeliver(j)
           \/ StaleWatchdog \/ PipelineDriver

Next == \/ Scan
        \/ \E j \in JobId : JobStep(j)
        \/ Fault \/ Recover
        \/ \E p \in Page : AutoCorrect(p)

Spec == Init /\ [][Next]_vars

-----------------------------------------------------------------------------
(* The types of the variables.                                               *)
TypeOK ==
  /\ ms \in [Page -> [Step -> PageStatus]]
  /\ retry \in [Page -> 0 .. MaxRetries]
  /\ fresh \subseteq Page
  /\ bms \in [Book -> [Step -> BookMilestone]]
  /\ status \in [Book -> {"pending", "ready", "error"}]
  /\ events \subseteq Event
  /\ checked \subseteq Page
  /\ job \in [JobId -> Job]
  /\ lock \in [Step -> [Page -> JobId \cup {NoJob}]]
  /\ faults \in 0 .. MaxFaults
  /\ rewrites \in 0 .. MaxRewrites

(* A page is never worked on by two jobs of one step at a time, however its  *)
(* claim was lost, repeated or delivered again (MultiPageLock), provided     *)
(* every job ends before its locks expire.                                   *)
MutualExclusion ==
  ~JobsMayOutliveLocks =>
    \A i, j \in JobId :
      i # j /\ Active(i) /\ Active(j) /\ job[i].step = job[j].step
        => job[i].taken \cap job[j].taken = {}

(* A job drops and overwrites no lock but its own, even when a lock of its   *)
(* own has expired and been taken by another job (RedisLock.release).        *)
OnlyOwnLocks ==
  [][\A j \in JobId : job'[j] # job[j] =>
       \A s \in Step, p \in Page :
         lock[s][p] \notin {NoJob, j} => lock'[s][p] = lock[s][p]]_vars

(* The scanner of OCR looks only at books whose own OCR milestone says there *)
(* is work: as long as no OCR page has failed, an idle page is never hidden  *)
(* behind a milestone that was not brought up to date.                       *)
IdleOcrPageIsVisible ==
  "ocr" \notin FailableStep =>
    \A p \in Page : ms[p]["ocr"] = "idle" => bms[BookOf[p]]["ocr"] \in OcrScannable

(* Why these two hold: the taken set of a job is backed by locks, and a dead *)
(* job has none; and, unless OCR fails, no OCR milestone of a book claims    *)
(* more than its pages have reached.                                         *)
TakenIsLocked ==
  ~JobsMayOutliveLocks =>
    \A j \in JobId :
      /\ job[j].phase = "dead" => job[j].taken = {}
      /\ \A p \in job[j].taken : lock[job[j].step][p] = j

OcrMilestoneIsEarned ==
  "ocr" \notin FailableStep =>
    /\ \A p \in Page : ms[p]["ocr"] # "failed"
    /\ \A b \in Book :
         /\ bms[b]["ocr"] # "failed"
         /\ bms[b]["ocr"] = "complete" => \A p \in PagesOf(b) : ms[p]["ocr"] = "succeeded"

IInv == TypeOK /\ TakenIsLocked /\ OcrMilestoneIsEarned

(* The jobs that still have step s of page p to do.                          *)
Owners(p, s) ==
  {j \in JobId : /\ job[j].step = s
                 /\ \/ job[j].phase \in {"queued", "locked"}
                       /\ p \in job[j].todo \cup job[j].taken
                    \/ job[j].phase = "working" /\ p \in job[j].todo}

(* Claims are exclusive: until something crashes or rewrites a page, scanners*)
(* and dispatcher give a page to one job at a time, and only by a claim.      *)
ClaimedByOneJob ==
  faults = 0 /\ rewrites = 0 =>
    \A p \in Page, s \in Step :
      /\ Owners(p, s) # {} => ms[p][s] = "in_progress"
      /\ \A i, j \in Owners(p, s) : i = j

(* A book that is ready stays fully indexed, and a book in error has a page  *)
(* that used up its retries, as long as nothing runs twice and no text       *)
(* changes.                                                                  *)
SettledBookIsTruthful ==
  faults = 0 /\ rewrites = 0 =>
    \A b \in Book :
      /\ status[b] = "ready" => \A p \in PagesOf(b) : ms[p]["embedding"] = "succeeded"
      /\ status[b] = "error" => \E p \in PagesOf(b) : FailedExhausted(ms, retry, p)

(* Why these hold. Until something crashes, no job is dead and every job     *)
(* works only what it was given; OCR is claimed by one job at a time and     *)
(* done before anything else is claimed, which corrections do not change;    *)
(* and an OCR job holds a retry count that nobody has raised since.          *)
WorkIsClaimed ==
  faults = 0 =>
    \A j \in JobId : /\ job[j].phase # "dead"
                     /\ job[j].todo \cup job[j].taken \subseteq job[j].args
                     /\ job[j].phase = "locked" => job[j].todo = {}

OcrGoesFirst ==
  faults = 0 =>
    /\ \A p \in Page :
         /\ Owners(p, "ocr") # {} => ms[p]["ocr"] = "in_progress"
         /\ \A i, j \in Owners(p, "ocr") : i = j
         /\ \A s \in Step \ {"ocr"} :
              ms[p][s] # "idle" \/ Owners(p, s) # {} => ms[p]["ocr"] = "succeeded"
    /\ \A e \in events : ms[e.page]["ocr"] = "succeeded"

SeenIsCurrent ==
  faults = 0 =>
    \A j \in JobId : job[j].phase = "working" /\ job[j].step = "ocr" =>
      \A p \in job[j].todo : retry[p] <= job[j].seen[p]

QuietInv == TypeOK /\ WorkIsClaimed /\ OcrGoesFirst /\ SeenIsCurrent
            /\ ClaimedByOneJob /\ SettledBookIsTruthful

(* The pipeline itself gives a page its retry budget back at most once, when *)
(* the driver first meets it: an OCR job writes a count it computed from an  *)
(* earlier read, and must not undo what was counted since.                   *)
RetryNeverDrops ==
  [][faults = 0 => \A p \in Page : retry'[p] < retry[p] => p \in fresh \ fresh']_vars

-----------------------------------------------------------------------------
(* Fairness: ARQ starts every scanner each minute, the driver and the        *)
(* dispatcher likewise, the watchdog every half hour; a coroutine that can   *)
(* run runs; redis expires keys and ARQ redelivers. Nothing obliges a fault  *)
(* or a text change to happen, nor the watchdog to find a served page stale. *)
OrphanReset == \E S \in SUBSET {p \in Page : ~Attended(p)} : Watchdog(S)

Fairness ==
  /\ \A b \in Book : WF_vars(OcrScan(b))
  /\ WF_vars(ChunkingScan) /\ WF_vars(EmbeddingScan) /\ WF_vars(SpellCheckScan)
  /\ WF_vars(EventDispatcher)
  /\ \A j \in JobId : WF_vars(JobStep(j))
  /\ WF_vars(\E j \in JobId : Redeliver(j))
  /\ WF_vars(\E s \in Step, p \in Page : LockExpires(s, p))
  /\ WF_vars(OrphanReset) /\ WF_vars(PipelineDriver)

FairSpec == Spec /\ Fairness

(* Whatever crashes, no page stays claimed for ever.                         *)
ClaimEnds == \A p \in Page : InProgress(p) ~> ~InProgress(p)

(* Every book is settled in the end: ready, or in error.                     *)
BookSettles == \A b \in Book : status[b] = "pending" ~> status[b] # "pending"

(* A failed step with retries left is put back to idle by the driver and     *)
(* then picked up again by the scanner that owns it.                         *)
FailedStepIsRetried ==
  \A p \in Page, s \in Step :
    ms[p][s] = "failed" /\ retry[p] < MaxRetries /\ status[BookOf[p]] = "pending"
      ~> ms[p][s] \in {"in_progress", "succeeded"} \/ status[BookOf[p]] # "pending"
===========================================================================
