----------------------------- MODULE BookAdmin -----------------------------
(* What administrators and editors do to a book while the pipeline runs:     *)
(* steps of a book, failed pages or one page sent back, a page edited by     *)
(* hand, marked as table of contents, a book published. No request takes the *)
(* page locks or looks at jobs. A job rolls its books up in a transaction    *)
(* that counts pages first and writes later, so requests fall in between.    *)
EXTENDS PageContent

CONSTANT MaxAsks     \* requests

ASSUME AsksAssumption == MaxAsks \in Nat

VARIABLES
  edit,     \* the save of a page that is waiting for its vectors or its roll-up
  tally,    \* tally[j][b]: milestone of b that job j has counted, or "none", "written"
  skipped,  \* pages with an empty text and an error
  caught,   \* history: pages that a request met at work, or left without their index
  reread,   \* history: skipped pages sent back to OCR alone
  raced,    \* history: books with an OCR milestone that was out of date when written
  asks

adminHistory == <<caught, reread, raced>>
avars == <<cvars, edit, tally, skipped, adminHistory, asks>>

NoEdit == [phase |-> "none", page |-> {}, of |-> 0]
Editing(p) == p \in edit.page

(* Nothing of the pipeline, and no other request, has page p in hand.        *)
Quiet(p) == /\ \A j \in JobId : p \notin job[j].args
            /\ \A e \in events : e.page # p
            /\ ~Editing(p)

Ask == asks < MaxAsks /\ asks' = asks + 1
KeptTallies == [j \in JobId |-> IF job'[j].phase = "working" /\ job'[j].todo = {}
                                  THEN tally[j] ELSE [b \in Book |-> "none"]]

(* Pages met at work are caught; others start over when all of their index   *)
(* is to be made again.                                                      *)
Meets(P, again) ==
  LET busy == {p \in P : ~Quiet(p)}
      new == IF again THEN P \ busy ELSE {}
  IN /\ caught' = (caught \ new) \cup busy
     /\ rushed' = rushed \ new /\ reread' = reread \ new

(* A milestone written too late is wrong until it is true again.             *)
OcrCount(m, b) == RollUp([p \in Page |-> m[p]["ocr"]], PagesOf(b))
StillRaced == raced' = {b \in raced : bms'[b]["ocr"] # OcrCount(ms', b)}

Untouched == StillRaced /\ UNCHANGED <<events, job, lock, faults, rewrites, copy, tally>>

-----------------------------------------------------------------------------
(* Requests on a whole book: POST /reprocess/ocr, chunking, embedding,       *)
(* spell-check. The milestones of the book are set, not counted; only a new  *)
(* embedding clears vectors at once.                                         *)
StepsFrom(from) ==
  CASE from = "ocr" -> Step
    [] from = "chunking" -> {"chunking", "embedding", "spell_check"}
    [] from = "embedding" -> {"embedding", "spell_check"}
    [] OTHER -> {"spell_check"}
Reprocess(b, from) ==
  LET S == StepsFrom(from)
      P == PagesOf(b)
  IN /\ Ask
     /\ ms' = [p \in Page |-> [s \in Step |-> IF p \in P /\ s \in S THEN "idle" ELSE ms[p][s]]]
     /\ bms' = [bms EXCEPT ![b] = [s \in Step |-> IF s \in S THEN "idle" ELSE @[s]]]
     /\ retry' = [p \in Page |-> IF p \in P THEN 0 ELSE retry[p]]
     /\ status' = IF from = "spell_check" THEN status ELSE [status EXCEPT ![b] = "pending"]
     /\ vectors' = [p \in Page |-> IF p \in P /\ from = "embedding" THEN 0 ELSE vectors[p]]
     /\ Meets(P, IndexStep \subseteq S)
     /\ UNCHANGED <<fresh, checked, text, chunks, edit, skipped>> /\ Untouched

(* POST /admin/bulk-reset-incomplete-ocr: no book ever has the milestone     *)
(* "succeeded" that the request looks for the lack of.                       *)
BulkReset(B) ==
  /\ Ask
  /\ B \in {Book, {b \in Book : status[b] = "pending"}} /\ B # {}
  /\ LET P == {p \in Page : BookOf[p] \in B} IN
       /\ ms' = [p \in Page |-> IF p \in P THEN [s \in Step |-> "idle"] ELSE ms[p]]
       /\ retry' = [p \in Page |-> IF p \in P THEN 0 ELSE retry[p]]
       /\ Meets(P, TRUE)
  /\ bms' = [b \in Book |-> IF b \in B THEN [s \in Step |-> "idle"] ELSE bms[b]]
  /\ status' = [b \in Book |-> IF b \in B THEN "pending" ELSE status[b]]
  /\ UNCHANGED <<fresh, checked, text, chunks, vectors, edit, skipped>> /\ Untouched

(* Fault: the book keeps its milestones.                                     *)
NotRecounted(m, b) == bms

(* update_book_milestones, in the transaction of the request.                *)
Recounted(m, b) == Rolled(bms, m, {b}, Step)

(* POST /retry-failed: what failed, and OCR of skipped pages, becomes idle.  *)
ToRetry(p, s) == ms[p][s] = "failed" \/ (s = "ocr" /\ ms[p][s] = "succeeded" /\ p \in skipped)
RetryFailed(b) ==
  LET P == {p \in PagesOf(b) : \E s \in Step : ToRetry(p, s)} IN
    /\ Ask /\ P # {}
    /\ ms' = [p \in Page |-> [s \in Step |-> IF p \in P /\ ToRetry(p, s) THEN "idle" ELSE ms[p][s]]]
    /\ bms' = Recounted(ms', b)
    /\ retry' = [p \in Page |-> IF p \in P THEN 0 ELSE retry[p]]
    /\ status' = [status EXCEPT ![b] = "pending"]
    /\ caught' = caught \cup {p \in P : ~Quiet(p)}
    /\ reread' = reread \cup {p \in P \cap skipped : ms[p]["ocr"] = "succeeded"}
    /\ skipped' = skipped \ P
    /\ UNCHANGED <<fresh, checked, content, edit>> /\ Untouched

(* PUT /books/{id}: a book in error that is made public is ready.            *)
Publish(b) ==
  /\ Ask /\ status[b] = "error" /\ status' = [status EXCEPT ![b] = "ready"]
  /\ UNCHANGED <<ms, retry, fresh, bms, checked, content, edit, skipped, caught, reread>>
  /\ Untouched

-----------------------------------------------------------------------------
(* Requests on a page. POST /pages/{n}/reset; the text is NULL from then on. *)
ResetPage(p) ==
  /\ Ask
  /\ NewText(p)
  /\ ms' = [ms EXCEPT ![p] = [s \in Step |-> "idle"]]
  /\ retry' = [retry EXCEPT ![p] = 0] /\ fresh' = fresh \ {p}
  /\ bms' = Recounted(ms', BookOf[p])
  /\ status' = [status EXCEPT ![BookOf[p]] = "pending"]
  /\ Meets({p}, TRUE)
  /\ UNCHANGED <<checked, chunks, vectors, edit, skipped>> /\ Untouched

(* Fault: the old vectors stay with the new chunks.                          *)
SaveOver(p) == chunks' = [chunks EXCEPT ![p] = text'[p]] /\ UNCHANGED vectors

(* POST /pages/{n}/update: text and chunks in one transaction; the vectors   *)
(* follow in another, after a call of the embedding service.                 *)
SaveAnew(p) == /\ chunks' = [chunks EXCEPT ![p] = text'[p]]
               /\ vectors' = [vectors EXCEPT ![p] = 0]
Rechecked(m, p) == IF text'[p] # text[p] THEN Set(m, {p}, "spell_check", "idle") ELSE m
EditText(p) ==
  /\ Ask /\ edit = NoEdit
  /\ NewText(p) \/ UNCHANGED text
  /\ SaveAnew(p)
  /\ ms' = Rechecked(Set(Set(ms, {p}, "chunking", "succeeded"), {p}, "embedding", "idle"), p)
  /\ checked' = IF text'[p] # text[p] THEN checked \ {p} ELSE checked
  /\ edit' = [phase |-> "embedding", page |-> {p}, of |-> text'[p]]
  /\ skipped' = skipped \ {p}
  /\ IF ms[p]["ocr"] = "succeeded" THEN Meets({p}, TRUE)
     ELSE caught' = caught \cup {p} /\ UNCHANGED <<rushed, reread>>
  /\ UNCHANGED <<retry, fresh, bms, status>> /\ Untouched

(* An empty text is called indexed, and the chunks of the old one stay.      *)
EditEmpty(p) ==
  /\ Ask /\ edit = NoEdit
  /\ NewText(p)
  /\ ms' = Rechecked(Set(ms, {p}, "embedding", "succeeded"), p)
  /\ checked' = checked \ {p}
  /\ edit' = [phase |-> "rolling", page |-> {p}, of |-> text'[p]]
  /\ skipped' \in {skipped, skipped \cup {p}}
  /\ caught' = caught \cup {p}
  /\ UNCHANGED <<retry, fresh, bms, status, chunks, vectors, rushed, reread>> /\ Untouched

(* Vectors go to the chunks the request has made, if they still exist; the   *)
(* milestone is written whatever has happened since.                         *)
EditEmbeds ==
  /\ edit.phase = "embedding" /\ edit' = [edit EXCEPT !.phase = "rolling"]
  /\ ms' = Set(ms, edit.page, "embedding", "succeeded")
  /\ \E p \in edit.page : \/ vectors' = [vectors EXCEPT ![p] = edit.of]
                          \/ chunks[p] # edit.of /\ UNCHANGED vectors
  /\ UNCHANGED <<retry, fresh, bms, status, checked, text, chunks, rushed, skipped, caught, reread, asks>>
  /\ Untouched

EditFails ==
  /\ edit.phase = "embedding" /\ edit' = [edit EXCEPT !.phase = "rolling"]
  /\ UNCHANGED <<ms, retry, fresh, bms, status, checked, content, skipped, caught, reread, asks>>
  /\ Untouched

EditRolls ==
  /\ edit.phase = "rolling" /\ edit' = NoEdit
  /\ bms' = Rolled(bms, ms, BooksOf(edit.page), Step)
  /\ UNCHANGED <<ms, retry, fresh, status, checked, content, skipped, caught, reread, asks>>
  /\ Untouched

(* The backend is restarted.                                                 *)
EditDies ==
  /\ edit # NoEdit /\ edit' = NoEdit
  /\ UNCHANGED <<ms, retry, fresh, bms, status, checked, content, skipped, caught, reread, asks>>
  /\ Untouched

(* PUT /books/{id} with pages: a new text resets no milestone of the index.  *)
PutText(p) ==
  /\ Ask /\ NewText(p)
  /\ ms' = Rechecked(ms, p) /\ caught' = caught \cup {p} /\ fresh' = fresh \ {p}
  /\ UNCHANGED <<retry, bms, status, checked, chunks, vectors, rushed, edit, skipped, reread>>
  /\ Untouched

(* POST /pages/{n}/toc: a page marked as table of contents has no chunks.    *)
MarkToc(p) ==
  /\ Ask /\ chunks' = [chunks EXCEPT ![p] = 0] /\ vectors' = [vectors EXCEPT ![p] = 0]
  /\ caught' = caught \cup {p}
  /\ UNCHANGED <<ms, retry, fresh, bms, status, checked, text, rushed, edit, skipped, reread>>
  /\ Untouched

-----------------------------------------------------------------------------
(* The pipeline. A text that changes under an edit in progress is caught.    *)
Follows ==
  /\ tally' = KeptTallies
  /\ caught' = caught \cup {p \in edit.page : text'[p] # text[p]}
  /\ StillRaced /\ UNCHANGED <<edit, reread, asks>>

Pipeline(A) == A /\ KeepsContent /\ Follows /\ UNCHANGED skipped

ReadsPage(j, p) ==
  /\ job[j].step = "ocr"
  /\ \/ PageSucceeds(j, p) /\ skipped' = skipped \ {p}
     \/ /\ OcrPageFails(j, p)
        /\ skipped' = IF ms'[p]["ocr"] = "succeeded" THEN skipped \cup {p} ELSE skipped
  /\ StoresText(j, p) /\ Follows

(* update_book_milestone_for_step at the end of a job, book by book.         *)
Counts(j, b) ==
  /\ job[j].phase = "working" /\ job[j].todo = {} /\ b \in BooksOf(job[j].taken)
  /\ tally[j][b] = "none" /\ \A k \in Book : tally[j][k] \in {"none", "written"}
  /\ tally' = [tally EXCEPT ![j][b] = RollUp([p \in Page |-> ms[p][job[j].step]], PagesOf(b))]
  /\ UNCHANGED <<cvars, edit, skipped, adminHistory, asks>>

Writes(j, b) ==
  LET now == RollUp([p \in Page |-> ms[p][job[j].step]], PagesOf(b)) IN
    /\ job[j].phase = "working" /\ tally[j][b] \in BookMilestone
    /\ bms' = [bms EXCEPT ![b][job[j].step] = tally[j][b]]
    /\ raced' = IF job[j].step # "ocr" THEN raced
                ELSE IF tally[j][b] # now THEN raced \cup {b} ELSE raced \ {b}
    /\ tally' = [tally EXCEPT ![j][b] = "written"]
    /\ UNCHANGED <<ms, retry, fresh, status, events, checked, job, lock, faults, rewrites,
                   content, edit, skipped, caught, reread, asks>>

RollUpEnds(j) ==
  /\ job[j].phase = "working" /\ job[j].todo = {}
  /\ \A b \in BooksOf(job[j].taken) : tally[j][b] = "written"
  /\ job' = [job EXCEPT ![j].phase = "releasing"]
  /\ UNCHANGED <<ms, retry, fresh, bms, status, events, checked, lock, faults, rewrites, skipped>>
  /\ KeepsContent /\ Follows

AdminJobWork(j) ==
  \/ \E p \in Page : \/ ReadsPage(j, p)
                     \/ job[j].step # "ocr" /\ PageWork(j, p) /\ Follows /\ UNCHANGED skipped
                     \/ job[j].step = "ocr" /\ Pipeline(JobTryLock(j, p))
  \/ LoadsPages(j) /\ Follows /\ UNCHANGED skipped
  \/ Pipeline(PdfFails(j) \/ JobRelease(j))
  \/ \E b \in Book : Counts(j, b) \/ Writes(j, b)
  \/ RollUpEnds(j)

-----------------------------------------------------------------------------
AdminInit ==
  /\ ContentInit
  /\ edit = NoEdit /\ tally = [j \in JobId |-> [b \in Book |-> "none"]]
  /\ skipped = {} /\ caught = {} /\ reread = {} /\ raced = {} /\ asks = 0

AdminAsks ==
  \/ \E b \in Book : \/ \E from \in Step : Reprocess(b, from)
                     \/ RetryFailed(b) \/ Publish(b)
  \/ \E B \in SUBSET Book : BulkReset(B)
  \/ \E p \in Page : ResetPage(p) \/ EditText(p) \/ EditEmpty(p) \/ PutText(p) \/ MarkToc(p)

EditGoes == EditEmbeds \/ EditFails \/ EditRolls

AdminNext ==
  \/ AdminAsks \/ EditGoes \/ EditDies
  \/ \E j \in JobId : AdminJobWork(j)
  \/ Pipeline(Scan \/ Fault \/ Recover)
  \/ \E p \in Page : Correction(p) /\ Follows /\ UNCHANGED skipped

AdminSpec == AdminInit /\ [][AdminNext]_avars

-----------------------------------------------------------------------------
Indexed(p) == vectors[p] = chunks[p] /\ chunks[p] = text[p]
Upset(p) == p \in rushed \cup caught

(* Whatever requests and corrections do to a page at rest, it is marked as   *)
(* embedded only with the chunks and vectors of its present text; and a page *)
(* whose index went wrong is whole again once it has been reprocessed.       *)
AdminIndexIsCurrent ==
  \A p \in Page :
    faults = 0 /\ ms[p]["embedding"] = "succeeded" => Indexed(p) \/ Upset(p) \/ p \in reread

(* Why it is: as long as nothing crashes, a page that was not upset has its  *)
(* index steps in order, as in PageContent, and behind OCR; and an edit that *)
(* waits for its vectors has split the present text.                         *)
BehindOcr(p) ==
  /\ Owners(p, "ocr") # {} => ms[p]["ocr"] = "in_progress"
  /\ \A i, j \in Owners(p, "ocr") : i = j
  /\ \A s \in Step \ {"ocr"} :
       ms[p][s] # "idle" \/ Owners(p, s) # {} => ms[p]["ocr"] = "succeeded"
  /\ \A e \in events : e.page = p => ms[p]["ocr"] = "succeeded"
EditFits(p) ==
  edit.phase = "embedding" /\ Editing(p) =>
    ms[p]["chunking"] = "succeeded" /\ edit.of = text[p]

AdminIndexInv ==
  faults = 0 =>
    \A p \in Page : Upset(p) \/ p \in reread \/ (InOrder(p) /\ BehindOcr(p) /\ EditFits(p))

(* A page sent back to OCR is seen by its scanner, whichever request sent it *)
(* back and whatever job was at work, unless the book was given a milestone  *)
(* that was out of date when it was written (books_router.py:2568). As for   *)
(* IdleOcrPageIsVisible, no OCR page has failed.                             *)
ResetPageIsSeen ==
  "ocr" \notin FailableStep =>
    \A p \in Page : ms[p]["ocr"] = "idle" => bms[BookOf[p]]["ocr"] \in OcrScannable \/ BookOf[p] \in raced

(* A page that OCR skipped and that is retried is indexed like any other     *)
(* once it has a text (REQUIREMENTS.md:232, "After OCR, the system generates *)
(* a search index for each page").                                           *)
RetriedPageIsIndexed ==
  \A p \in reread : ms[p]["embedding"] = "succeeded" /\ ms[p]["ocr"] = "succeeded" /\ Quiet(p)
                      => Indexed(p) \/ Upset(p)
===========================================================================
