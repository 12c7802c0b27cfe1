---------------------------- MODULE PageContent ----------------------------
(* What the page pipeline works on: the text of a page, the chunks split     *)
(* from it and the vectors of the chunks, each by the version of the text it *)
(* comes from. Every step is a step of PagePipeline or leaves it alone.      *)
EXTENDS PagePipeline, Integers

VARIABLES
  text,     \* text[p]: version of Page.text, 0 before OCR
  chunks,   \* chunks[p]: version its chunks were split from, 0 without chunks
  vectors,  \* vectors[p]: version its vectors were computed from, 0 for NULL
  copy,     \* copy[j][p]: version that job j has read of page p and not yet used
  rushed    \* history: pages corrected while they were being indexed

content == <<text, chunks, vectors, copy, rushed>>
cvars == <<vars, content>>

Unread == -1

-----------------------------------------------------------------------------
(* Rows read by a job live until the page is done or the job ends.           *)
KeptCopies == [j \in JobId |-> [p \in Page |->
                 IF job'[j].phase = "working" /\ p \in job'[j].todo
                   THEN copy[j][p] ELSE Unread]]
Kept(v) == UNCHANGED v /\ copy' = KeptCopies

NewText(p) == text' = [text EXCEPT ![p] = @ + 1]

(* What chunking or embedding is about to do, or has just done, to p.        *)
BeingIndexed(p) ==
  \/ \E j \in JobId : /\ job[j].phase # "free" /\ p \in job[j].args
                      /\ job[j].step \in {"chunking", "embedding"}
  \/ [page |-> p, type |-> "chunking_succeeded"] \in events

(* The chunking job splits the text it loaded with the rows of its batch; the*)
(* embedding job selects chunks when it comes to the page.                   *)
LoadsPages(j) ==
  /\ JobLoad(j)
  /\ copy' = [copy EXCEPT ![j] = [p \in Page |->
                IF job[j].step = "chunking" /\ p \in job[j].taken THEN text[p] ELSE Unread]]
  /\ UNCHANGED <<text, chunks, vectors, rushed>>

SelectsChunks(j, p) ==
  /\ Working(j, p) /\ job[j].step = "embedding" /\ copy[j][p] = Unread
  /\ copy' = [copy EXCEPT ![j][p] = IF vectors[p] = 0 THEN chunks[p] ELSE 0]
  /\ UNCHANGED <<vars, text, chunks, vectors, rushed>>

(* A new transcription, or the empty text of a page that is skipped.         *)
StoresText(j, p) ==
  /\ job[j].step = "ocr"
  /\ PageSucceeds(j, p) \/ OcrPageFails(j, p)
  /\ IF ms'[p]["ocr"] = "succeeded" THEN NewText(p) ELSE UNCHANGED text
  /\ Kept(<<chunks, vectors, rushed>>)

(* Fault: the upsert leaves the old vectors in place.                        *)
UpsertKeepsVectors(j, p) ==
  /\ job[j].step = "chunking" /\ PageSucceeds(j, p)
  /\ chunks' = [chunks EXCEPT ![p] = copy[j][p]]
  /\ Kept(<<text, vectors, rushed>>)

UpsertsChunks(j, p) ==
  /\ job[j].step = "chunking" /\ PageSucceeds(j, p)
  /\ chunks' = [chunks EXCEPT ![p] = copy[j][p]]
  /\ vectors' = [vectors EXCEPT ![p] = 0]
  /\ Kept(<<text, rushed>>)

(* Vectors are stored by the id of the chunk, whatever its text is by now;   *)
(* a page without a chunk that lacks a vector succeeds at once.              *)
StoresVectors(j, p) ==
  /\ job[j].step = "embedding" /\ copy[j][p] # Unread /\ PageSucceeds(j, p)
  /\ vectors' = [vectors EXCEPT ![p] = IF copy[j][p] = 0 THEN @ ELSE copy[j][p]]
  /\ Kept(<<text, chunks, rushed>>)

Corrects(p) ==
  /\ NewText(p)
  /\ rushed' = IF BeingIndexed(p) THEN rushed \cup {p} ELSE rushed
  /\ Kept(<<chunks, vectors>>)

(* Every other step of the pipeline reads and writes no content.             *)
KeepsContent == Kept(<<text, chunks, vectors, rushed>>)

-----------------------------------------------------------------------------
ContentInit ==
  /\ Init
  /\ text = [p \in Page |-> IF ms[p]["ocr"] = "succeeded" THEN 1 ELSE 0]
  /\ chunks = [p \in Page |-> 0] /\ vectors = [p \in Page |-> 0]
  /\ copy = [j \in JobId |-> [p \in Page |-> Unread]]
  /\ rushed = {}

PageWork(j, p) ==
  \/ SelectsChunks(j, p) \/ StoresText(j, p) \/ UpsertsChunks(j, p) \/ StoresVectors(j, p)
  \/ SpellCheckRewrites(j, p) /\ Corrects(p)
  \/ job[j].step = "spell_check" /\ PageSucceeds(j, p) /\ KeepsContent
  \/ (JobTryLock(j, p) \/ PageFails(j, p)) /\ KeepsContent

JobWork(j) ==
  \/ \E p \in Page : PageWork(j, p)
  \/ LoadsPages(j)
  \/ (PdfFails(j) \/ JobFinish(j) \/ JobRelease(j)) /\ KeepsContent

Correction(p) == \/ AutoCorrectPage(p) /\ Corrects(p)
                 \/ AutoCorrectEnds(p) /\ KeepsContent

ContentNext ==
  \/ \E j \in JobId : JobWork(j)
  \/ (Scan \/ Fault \/ Recover) /\ KeepsContent
  \/ \E p \in Page : Correction(p)

ContentSpec == ContentInit /\ [][ContentNext]_cvars

ContentFairness ==
  /\ \A b \in Book : WF_cvars(OcrScan(b) /\ KeepsContent)
  /\ WF_cvars(ChunkingScan /\ KeepsContent) /\ WF_cvars(EmbeddingScan /\ KeepsContent)
  /\ WF_cvars(SpellCheckScan /\ KeepsContent) /\ WF_cvars(EventDispatcher /\ KeepsContent)
  /\ \A j \in JobId : WF_cvars(JobWork(j))
  /\ WF_cvars(OrphanReset /\ KeepsContent) /\ WF_cvars(PipelineDriver /\ KeepsContent)

FairContentSpec == ContentSpec /\ ContentFairness

-----------------------------------------------------------------------------
(* The types of the variables.                                               *)
ContentTypeOK ==
  /\ text \in [Page -> Nat] /\ chunks \in [Page -> Nat] /\ vectors \in [Page -> Nat]
  /\ copy \in [JobId -> [Page -> Nat \cup {Unread}]]
  /\ rushed \subseteq Page

(* Why chunks are ordered: a chunking job at work has read every page it has *)
(* left to do and, if locks outlive jobs, nobody has split a newer text since.*)
Oldest(p) == IF JobsMayOutliveLocks THEN 0 ELSE chunks[p]
CopiesAreOrdered ==
  \A j \in JobId :
    job[j].phase = "working" /\ job[j].step = "chunking" =>
      \A p \in job[j].todo : p \in job[j].taken /\ copy[j][p] \in Oldest(p) .. text[p]

ContentInv ==
  /\ ContentTypeOK
  /\ \A p \in Page : chunks[p] <= text[p]
  /\ CopiesAreOrdered

(* A page is marked as embedded only when its vectors belong to its chunks   *)
(* and those to its present text, however its steps failed and were retried, *)
(* and however often it was corrected, unless a correction came while the    *)
(* page was being indexed or something ran twice.                            *)
EmbeddedPageIsCurrent ==
  \A p \in Page \ rushed :
    faults = 0 /\ ms[p]["embedding"] = "succeeded"
      => vectors[p] = chunks[p] /\ chunks[p] = text[p]

(* Why it is: as long as nothing crashes, the index steps of a page that was *)
(* not rushed have one owner each and are done in order, a chunking job holds*)
(* the present text, and an embedding job the chunks of it, or nothing when  *)
(* their vectors are there already. (An editor may embed a page while a job  *)
(* is about to: it is then succeeded already.)                               *)
IndexStep == {"chunking", "embedding"}
InOrder(p) ==
  /\ \A s \in IndexStep : \A i, j \in Owners(p, s) : i = j
  /\ Owners(p, "chunking") # {} => ms[p]["chunking"] = "in_progress"
  /\ Owners(p, "embedding") # {} => ms[p]["embedding"] \in {"in_progress", "succeeded"}
  /\ ms[p]["chunking"] = "succeeded" => chunks[p] = text[p] /\ vectors[p] \in {0, chunks[p]}
  /\ ms[p]["chunking"] # "succeeded" =>
       ms[p]["embedding"] = "idle" /\ [page |-> p, type |-> "chunking_succeeded"] \notin events
  /\ ms[p]["embedding"] = "succeeded" => vectors[p] = chunks[p]
  /\ \A j \in Owners(p, "chunking") : job[j].phase = "working" => copy[j][p] = text[p]
  /\ \A j \in Owners(p, "embedding") : job[j].phase = "working" =>
       copy[j][p] \in {Unread, chunks[p]} \/ (copy[j][p] = 0 /\ vectors[p] = chunks[p])

IndexingInv == faults = 0 => \A p \in Page \ rushed : InOrder(p)

(* Chunks of a newer text are never replaced by those of an older one: a job *)
(* reads the text after it has the lock of the page and writes the chunks    *)
(* before it gives the lock back.                                            *)
ChunksNeverGoBack ==
  [][~JobsMayOutliveLocks => \A p \in Page : chunks'[p] >= chunks[p]]_cvars

(* A correction of a page at rest reaches the vectors, unless its book is in *)
(* error or a step of it fails once the book is ready: the driver retries in *)
(* pending books only.                                                       *)
GivenUp(p) == \/ status[BookOf[p]] = "error"
              \/ status[BookOf[p]] = "ready" /\ \E s \in Step : ms[p][s] = "failed"
CorrectionIsIndexed ==
  \A p \in Page :
    vectors[p] # text[p] ~> vectors[p] = text[p] \/ GivenUp(p) \/ p \in rushed \/ faults > 0

(* Once the pipeline has nothing left to do for a page and says that it is   *)
(* embedded, its chunks and vectors are those of its text, whenever it was   *)
(* corrected and whatever ran twice (auto_correct_service.py:183, "Force     *)
(* re-chunking"; SYSTEM_DESIGN.md:199, "converge on the same result").       *)
IndexIsCurrent ==
  \A p \in Page :
    /\ ms[p]["chunking"] = "succeeded" /\ ms[p]["embedding"] = "succeeded"
    /\ \A e \in events : e.page # p
    /\ \A j \in JobId : p \notin job[j].args
    => vectors[p] = chunks[p] /\ chunks[p] = text[p]
===========================================================================
