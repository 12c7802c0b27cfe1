--------------------------- MODULE GeminiBatches ---------------------------
(* OCR and embedding through the Gemini Batch API: pages are claimed, sent   *)
(* to Gemini in batches that take up to a day, and a poller that cron starts *)
(* every minute ingests the answers. The two services share no row and no    *)
(* milestone: a behaviour follows one of them, for the pages of one book.    *)
(* For embedding a page is one chunk.                                        *)
EXTENDS Milestones

CONSTANTS
  Page,
  Row,         \* rows of batch_ocr_jobs or batch_embedding_jobs, reused
  Submitter,   \* OCR jobs, or runs of the embedding scanner
  Poller,      \* runs of the poller
  MaxRetries,  \* ocr_max_retry_count and embed_batch_max_retry_count
  MaxFaults    \* crashes, failed saves, answers and outputs that are missing

ASSUME BatchAssumption ==
  /\ IsFiniteSet(Page) /\ Page # {}
  /\ Submitter \cap Poller = {}
  /\ MaxRetries \in Nat \ {0} /\ MaxFaults \in Nat

VARIABLES
  kind,    \* the service followed: "ocr" or "embedding"
  ms,      \* Page.<kind>_milestone
  retry,   \* Page.retry_count, saturated at MaxRetries
  result,  \* what a page has: its text or its vectors, or "none"
  bms,     \* Book.<kind>_milestone
  row,     \* the tracking rows
  remote,  \* the batch at Gemini that a row is about, and its answers
  old,     \* rows created longer ago than the timeout of the service
  sub,     \* what a submitter has claimed and not yet sent
  seen,    \* seen[w][k]: status of row k that poller w has read and not handled
  roll,    \* the roll-up an actor owes after a commit, or the value it computed
  sent,    \* history: batches at Gemini that a page was part of
  silent,  \* history: pages that an ingested output said nothing about
  late,    \* history: a poll outlived its minute, or a claim its half hour in the queue
  faults

batch == <<row, remote, old>>
pages == <<ms, retry, result>>
history == <<sent, silent, late>>
bvars == <<kind, pages, bms, batch, sub, seen, roll, history, faults>>

ActiveStatus == {"submitted", "running"}
RowStatus == {"none", "succeeded", "failed"} \cup ActiveStatus
RemoteState == {"none", "pending", "running", "succeeded", "failed", "expired"}
Answer == {"ok", "error", "missing"}
NoAnswer == [p \in Page |-> "missing"]
Unused == [status |-> "none", pages |-> {}]
NoBatch == [state |-> "none", answer |-> NoAnswer]
Actor == Submitter \cup Poller
NoRow == [k \in Row |-> "none"]
IdleSub == [phase |-> "free", todo |-> {}, slice |-> {}, row |-> {}]

ActiveRow(k) == row[k].status \in ActiveStatus
ActiveRows == {k \in Row : ActiveRow(k)}
InBatch == UNION {row[k].pages : k \in ActiveRows}
Busy(w) == \E k \in Row : seen[w][k] # "none"
Held == UNION {sub[s].todo : s \in {t \in Submitter : sub[t].phase # "free"}}
Bumped(n) == IF n < MaxRetries THEN n + 1 ELSE MaxRetries
Spend == faults < MaxFaults /\ faults' = faults + 1

Marked(P, v) == [p \in Page |-> IF p \in P THEN v ELSE ms[p]]
Counted(P) == [p \in Page |-> IF p \in P THEN Bumped(retry[p]) ELSE retry[p]]
Rolled(m) == RollUp([p \in Page |-> m[p]], Page)

(* Fault: a failure that is not counted.                                     *)
FailPagesUncounted(P) == ms' = Marked(P, "failed") /\ UNCHANGED <<retry, result>>

(* Pages are failed without a look at their milestone.                       *)
FailPages(P) == /\ ms' = Marked(P, "failed") /\ retry' = Counted(P)
                /\ UNCHANGED result

-----------------------------------------------------------------------------
(* Claiming and submitting                                                   *)
OcrScannable == {"idle", "in_progress", "partial_failure"}
Claim(s) ==
  /\ sub[s].phase = "free" /\ roll[s] = "none"
  /\ kind = "ocr" => bms \in OcrScannable
  /\ \E P \in (SUBSET {p \in Page : ms[p] = "idle"}) \ {{}} :
       /\ ms' = Marked(P, "in_progress") /\ bms' = Rolled(ms')
       /\ sub' = [sub EXCEPT ![s] = [IdleSub EXCEPT !.phase = "queued", !.todo = P]]
  /\ UNCHANGED <<kind, retry, result, batch, seen, roll, history, faults>>

(* The OCR job leaves out the pages whose lock another job has; nobody looks *)
(* at the milestone again.                                                   *)
Locked(s) == UNION {sub[t].todo : t \in {u \in Submitter \ {s} : sub[u].phase = "sending"}}
StartOcr(s) ==
  /\ kind = "ocr" /\ sub[s].phase = "queued"
  /\ sub' = [sub EXCEPT ![s].phase = "sending", ![s].todo = @ \ Locked(s)]
  /\ UNCHANGED <<kind, pages, bms, batch, seen, roll, history, faults>>

(* Only chunks without a vector are sent. If there are none the pages        *)
(* succeed; otherwise a page without such a chunk is in no batch.            *)
StartEmbedding(s) ==
  /\ kind = "embedding" /\ sub[s].phase = "queued"
  /\ LET P == sub[s].todo
         open == {p \in P : result[p] = "none"}
     IN IF open = {}
          THEN /\ ms' = Marked(P, "succeeded") /\ roll' = [roll EXCEPT ![s] = "due"]
               /\ sub' = [sub EXCEPT ![s] = IdleSub]
          ELSE /\ sub' = [sub EXCEPT ![s].phase = "sending", ![s].todo = open]
               /\ UNCHANGED <<ms, roll>>
  /\ UNCHANGED <<kind, retry, result, bms, batch, seen, history, faults>>

FreeRow(k) == /\ ~ActiveRow(k) /\ \A w \in Poller : seen[w][k] = "none"
              /\ \A s \in Submitter : k \notin sub[s].row

Sending(s) == sub[s].phase = "sending" /\ sub[s].row = {} /\ roll[s] = "none"
Slices(s) == (SUBSET sub[s].todo) \ {{}}
Without(x, P) == [x EXCEPT !.todo = @ \ P, !.slice = {}, !.row = {}]

(* batches.create: from here on the batch runs, and is paid for.             *)
CreateRemote(s, k) ==
  /\ Sending(s) /\ FreeRow(k)
  /\ \E P \in Slices(s) :
       /\ sub' = [sub EXCEPT ![s].slice = P, ![s].row = {k}]
       /\ sent' = [p \in Page |-> IF p \in P THEN sent[p] + 1 ELSE sent[p]]
  /\ remote' = [remote EXCEPT ![k] = [state |-> "pending", answer |-> NoAnswer]]
  /\ row' = [row EXCEPT ![k] = Unused] /\ old' = old \ {k}
  /\ UNCHANGED <<kind, pages, bms, seen, roll, silent, late, faults>>

SaveRow(s) ==
  /\ \E k \in sub[s].row : row' = [row EXCEPT ![k] = [status |-> "submitted", pages |-> sub[s].slice]]
  /\ sub' = [sub EXCEPT ![s] = Without(@, sub[s].slice)]
  /\ UNCHANGED <<kind, pages, bms, remote, old, seen, roll, history, faults>>

(* The creation fails: the pages fail, the roll-up follows the commit.       *)
CreationFails(s) ==
  /\ Sending(s)
  /\ \E P \in Slices(s) : FailPages(P) /\ sub' = [sub EXCEPT ![s] = Without(@, P)]
  /\ roll' = [roll EXCEPT ![s] = "due"]
  /\ UNCHANGED <<kind, bms, batch, seen, history, faults>>

(* What becomes of a batch without a row makes no difference to anybody.     *)
Orphaned(s) == remote' = [k \in Row |-> IF k \in sub[s].row THEN NoBatch ELSE remote[k]]

(* The row cannot be saved: nobody will poll the batch. The OCR job fails    *)
(* the pages and goes on, the embedding scanner ends.                        *)
SaveFails(s) ==
  /\ sub[s].row # {} /\ Spend /\ Orphaned(s)
  /\ IF kind = "ocr"
       THEN /\ FailPages(sub[s].slice) /\ roll' = [roll EXCEPT ![s] = "due"]
            /\ sub' = [sub EXCEPT ![s] = Without(@, sub[s].slice)]
       ELSE sub' = [sub EXCEPT ![s] = IdleSub] /\ UNCHANGED <<pages, roll>>
  /\ UNCHANGED <<kind, bms, row, old, seen, history>>

SubmitEnds(s) ==
  /\ Sending(s) /\ sub[s].todo = {}
  /\ sub' = [sub EXCEPT ![s] = IdleSub]
  /\ UNCHANGED <<kind, pages, bms, batch, seen, roll, history, faults>>

(* A crash, a lost message, an upload that raises in the embedding scanner.  *)
SubmitDies(s) ==
  /\ sub[s].phase # "free" /\ Spend /\ Orphaned(s)
  /\ sub' = [sub EXCEPT ![s] = IdleSub] /\ roll' = [roll EXCEPT ![s] = "none"]
  /\ UNCHANGED <<kind, pages, bms, row, old, seen, history>>

Submit(s) == \/ Claim(s) \/ StartOcr(s) \/ StartEmbedding(s) \/ CreationFails(s)
             \/ SaveRow(s) \/ SaveFails(s) \/ SubmitEnds(s) \/ SubmitDies(s)
             \/ \E k \in Row : CreateRemote(s, k)

-----------------------------------------------------------------------------
(* Gemini: a batch runs and ends, in any order and at any time.              *)
RemoteMoves(k, v) ==
  /\ remote[k].state \in {"pending", "running"} /\ ActiveRow(k)
  /\ \/ v \in {"running", "failed", "expired"} /\ v # remote[k].state
        /\ remote' = [remote EXCEPT ![k].state = v]
     \/ v = "succeeded"
        /\ \E a \in [row[k].pages -> Answer] :
             remote' = [remote EXCEPT ![k] = [state |-> v, answer |->
                          [p \in Page |-> IF p \in row[k].pages THEN a[p] ELSE "missing"]]]
  /\ UNCHANGED <<kind, pages, bms, row, old, sub, seen, roll, history, faults>>

Ages(k) ==
  /\ ActiveRow(k) /\ k \notin old /\ old' = old \cup {k}
  /\ UNCHANGED <<kind, pages, bms, row, remote, sub, seen, roll, history, faults>>

-----------------------------------------------------------------------------
(* Polling. The rows are read once; a poll that takes more than a minute     *)
(* overlaps the next, and both have read the same rows.                      *)
Alone(w) == \A v \in Poller \ {w} : ~Busy(v) /\ roll[v] = "none"
PollStarts(w) ==
  /\ ~Busy(w) /\ roll[w] = "none" /\ ActiveRows # {}
  /\ late' = (late \/ ~Alone(w))
  /\ IF Alone(w) THEN UNCHANGED faults ELSE Spend
  /\ seen' = [seen EXCEPT ![w] = [k \in Row |-> IF ActiveRow(k) THEN row[k].status ELSE "none"]]
  /\ UNCHANGED <<kind, pages, bms, batch, sub, roll, sent, silent>>

(* A row that has ended is kept while another poller has it in hand.         *)
Ended(w, k, v) ==
  IF \E x \in Poller \ {w} : seen[x][k] # "none"
    THEN row' = [row EXCEPT ![k].status = v] /\ UNCHANGED <<remote, old>>
    ELSE /\ row' = [row EXCEPT ![k] = Unused] /\ remote' = [remote EXCEPT ![k] = NoBatch]
         /\ old' = old \ {k}
Owes(w) == roll' = [roll EXCEPT ![w] = "due"]

(* The row is given up and its pages fail, in one transaction.               *)
RowFails(w, k) ==
  /\ k \in old \/ remote[k].state = "failed"
  /\ Ended(w, k, "failed") /\ FailPages(row[k].pages) /\ Owes(w)
  /\ UNCHANGED <<silent, faults>>

(* No output can be read: embedding fails the pages, OCR leaves them to the  *)
(* watchdog.                                                                 *)
OutputIsLost(w, k) ==
  /\ k \notin old /\ remote[k].state = "succeeded" /\ Spend
  /\ Ended(w, k, "failed") /\ UNCHANGED silent
  /\ IF kind = "ocr" THEN UNCHANGED <<pages, roll>>
                     ELSE FailPages(row[k].pages) /\ Owes(w)

Answered(k, a) == {p \in row[k].pages : remote[k].answer[p] = a}

(* Fault: a page is given up one retry too early.                            *)
LastTryTooEarly(p) == retry[p] + 2 >= MaxRetries
LastTry(p) == retry[p] + 1 >= MaxRetries

(* A page that Gemini could not transcribe is skipped on its last try; a page*)
(* the output says nothing about keeps its milestone.                        *)
IngestOcr(k) ==
  LET bad == Answered(k, "error")
      given == {p \in bad : LastTry(p)}
  IN /\ ms' = [p \in Page |-> CASE p \in Answered(k, "ok") \cup given -> "succeeded"
                                [] p \in bad \ given -> "failed"
                                [] OTHER -> ms[p]]
     /\ retry' = Counted(bad)
     /\ result' = [p \in Page |-> CASE p \in Answered(k, "ok") -> "whole"
                                    [] p \in given -> "none"
                                    [] OTHER -> result[p]]

(* A page of which a chunk failed is failed, or succeeds on its last try; a  *)
(* chunk the output says nothing about does not count as failed.             *)
IngestEmbedding(k) ==
  LET bad == {p \in Answered(k, "error") : ~LastTry(p)}
  IN /\ ms' = [p \in Page |-> CASE p \in bad -> "failed"
                                [] p \in row[k].pages \ bad -> "succeeded"
                                [] OTHER -> ms[p]]
     /\ retry' = Counted(bad)
     /\ result' = [p \in Page |-> IF p \in Answered(k, "ok") THEN "whole" ELSE result[p]]

Ingest(w, k) ==
  /\ k \notin old /\ remote[k].state = "succeeded"
  /\ IF kind = "ocr" THEN IngestOcr(k) ELSE IngestEmbedding(k)
  /\ Ended(w, k, "succeeded") /\ Owes(w)
  /\ silent' = silent \cup Answered(k, "missing")
  /\ IF Answered(k, "missing") = {} THEN UNCHANGED faults ELSE Spend

(* The row turns to running if it was not when the poll began. A batch that  *)
(* waits or has expired, and a call that raises, change nothing.             *)
StillRuns(w, k) ==
  /\ k \notin old /\ UNCHANGED <<pages, roll, remote, old, silent, faults>>
  /\ \/ remote[k].state = "running" /\ seen[w][k] # "running"
        /\ row' = [row EXCEPT ![k].status = "running"]
     \/ UNCHANGED row

PollRow(w, k) ==
  /\ seen[w][k] # "none" /\ roll[w] = "none"
  /\ RowFails(w, k) \/ OutputIsLost(w, k) \/ Ingest(w, k) \/ StillRuns(w, k)
  /\ seen' = [seen EXCEPT ![w][k] = "none"]
  /\ UNCHANGED <<kind, bms, sub, sent, late>>

PollDies(w) ==
  /\ Busy(w) \/ roll[w] # "none"
  /\ Spend
  /\ seen' = [seen EXCEPT ![w] = NoRow] /\ roll' = [roll EXCEPT ![w] = "none"]
  /\ UNCHANGED <<kind, pages, bms, batch, sub, history>>

-----------------------------------------------------------------------------
(* The roll-up of a transaction of its own: the counts are read, and the     *)
(* milestone is written when the transaction commits.                        *)
RollUpReads(x) ==
  /\ roll[x] = "due" /\ roll' = [roll EXCEPT ![x] = Rolled(ms)]
  /\ UNCHANGED <<kind, pages, bms, batch, sub, seen, history, faults>>
RollUpWrites(x) ==
  /\ roll[x] \in BookMilestone
  /\ bms' = roll[x] /\ roll' = [roll EXCEPT ![x] = "none"]
  /\ UNCHANGED <<kind, pages, batch, sub, seen, history, faults>>

PutBack(P) ==
  /\ \A s \in Submitter : sub[s].phase = "sending" => P \cap sub[s].todo = {}
  /\ ms' = Marked(P, "idle") /\ bms' = Rolled(ms')
  /\ late' = (late \/ P \cap Held # {})
  /\ IF P \cap Held = {} THEN UNCHANGED faults ELSE Spend
  /\ UNCHANGED <<kind, retry, result, batch, sub, seen, roll, sent, silent>>

(* Faults: pages of a batch are not exempted; only pages with retries left   *)
(* are put back; the age of a claim counts whatever became of it.            *)
WatchdogResetsBatches(P) == (\A p \in P : ms[p] = "in_progress") /\ PutBack(P)
WatchdogResetsRetryable(P) ==
  (\A p \in P : ms[p] = "in_progress" /\ p \notin InBatch /\ retry[p] < MaxRetries) /\ PutBack(P)
WatchdogResetsFinished(P) == (\A p \in P : ms[p] # "idle" /\ p \notin InBatch) /\ PutBack(P)

(* The watchdog puts pages back that no active row holds. A claim that has   *)
(* waited in the queue for half an hour is put back too.                     *)
WatchdogResets(P) == (\A p \in P : ms[p] = "in_progress" /\ p \notin InBatch) /\ PutBack(P)

(* The pipeline driver resets failed pages that have retries left. The book  *)
(* keeps the milestone it had.                                               *)
Retryable == {p \in Page : ms[p] = "failed" /\ retry[p] < MaxRetries}
Driver ==
  /\ Retryable # {} /\ ms' = Marked(Retryable, "idle")
  /\ UNCHANGED <<kind, retry, result, bms, batch, sub, seen, roll, history, faults>>

-----------------------------------------------------------------------------
BatchInit ==
  /\ kind \in {"ocr", "embedding"}
  /\ ms = [p \in Page |-> "idle"] /\ bms = Rolled(ms)
  /\ retry \in [Page -> IF kind = "ocr" THEN {0} ELSE 0 .. MaxRetries]
  /\ result \in [Page -> IF kind = "ocr" THEN {"none"} ELSE {"none", "whole"}]
  /\ row = [k \in Row |-> Unused] /\ remote = [k \in Row |-> NoBatch]
  /\ old = {} /\ sub = [s \in Submitter |-> IdleSub]
  /\ seen = [w \in Poller |-> NoRow] /\ roll = [x \in Actor |-> "none"]
  /\ sent = [p \in Page |-> 0] /\ silent = {} /\ late = FALSE /\ faults = 0

Poll(w) == PollStarts(w) \/ PollDies(w) \/ \E k \in Row : PollRow(w, k)
Gemini == \E k \in Row : Ages(k) \/ \E v \in RemoteState : RemoteMoves(k, v)

BatchNext ==
  \/ \E s \in Submitter : Submit(s)
  \/ \E w \in Poller : Poll(w)
  \/ \E x \in Actor : RollUpReads(x) \/ RollUpWrites(x)
  \/ Gemini \/ Driver
  \/ \E P \in (SUBSET Page) \ {{}} : WatchdogResets(P)

BatchSpec == BatchInit /\ [][BatchNext]_bvars

(* Jobs run, cron starts pollers, watchdog and driver again and again, and   *)
(* time passes. Nothing is assumed of Gemini.                                *)
Goes(s) == StartOcr(s) \/ StartEmbedding(s) \/ SaveRow(s) \/ SubmitEnds(s)
           \/ CreationFails(s) \/ \E k \in Row : CreateRemote(s, k)
FairBatchSpec ==
  /\ BatchSpec
  /\ \A s \in Submitter : WF_bvars(Goes(s))
  /\ \A w \in Poller : WF_bvars(PollStarts(w) \/ \E k \in Row : PollRow(w, k))
  /\ \A x \in Actor : WF_bvars(RollUpReads(x) \/ RollUpWrites(x))
  /\ \A k \in Row : WF_bvars(Ages(k))
  /\ \A p \in Page : WF_bvars(\E P \in SUBSET Page : p \in P /\ WatchdogResets(P))

-----------------------------------------------------------------------------
(* The types of the variables.                                               *)
BatchTypeOK ==
  /\ kind \in {"ocr", "embedding"}
  /\ ms \in [Page -> PageStatus] /\ retry \in [Page -> 0 .. MaxRetries]
  /\ result \in [Page -> {"none", "whole"}] /\ bms \in BookMilestone
  /\ row \in [Row -> [status : RowStatus, pages : SUBSET Page]]
  /\ remote \in [Row -> [state : RemoteState, answer : [Page -> Answer]]]
  /\ old \subseteq Row
  /\ sub \in [Submitter -> [phase : {"free", "queued", "sending"}, todo : SUBSET Page,
                           slice : SUBSET Page, row : SUBSET Row]]
  /\ seen \in [Poller -> [Row -> {"none"} \cup ActiveStatus]]
  /\ roll \in [Actor -> {"none", "due"} \cup BookMilestone]
  /\ sent \in [Page -> Nat] /\ silent \subseteq Page /\ late \in BOOLEAN
  /\ faults \in 0 .. MaxFaults

(* The pages of a batch that is polled are in progress and belong to it      *)
(* alone: no other batch has them and no submitter is about to send them     *)
(* again. The watchdog's exemption and the poller's own timeout keep it so   *)
(* (stale_watchdog_scanner.py:41, "to avoid the two timeout mechanisms       *)
(* fighting each other"), unless a poll overlaps the next or a claim waits   *)
(* in the queue until the watchdog takes it.                                 *)
BatchOwnsItsPages ==
  late \/ /\ \A k \in ActiveRows : \A p \in row[k].pages : ms[p] = "in_progress"
          /\ \A k, l \in ActiveRows : k # l => row[k].pages \cap row[l].pages = {}
          /\ Held \cap InBatch = {}

(* A page is paid for again only after a failure that was counted, or after  *)
(* a fault: every batch it was part of but one is accounted for.             *)
SpendIsBounded == late \/ \A p \in Page : sent[p] <= retry[p] + faults + 1

(* A page that is marked done has its text or its vectors, unless its        *)
(* retries were used up or an output said nothing about it, however results  *)
(* overlapped.                                                               *)
DoneIsWhole ==
  \A p \in Page : ms[p] = "succeeded" /\ result[p] = "none"
                   => retry[p] + 1 >= MaxRetries \/ p \in silent

(* A book is called complete only if all its pages are, although the roll-up *)
(* reads the pages in one transaction with its write and others commit in    *)
(* between.                                                                  *)
CompleteIsTrue ==
  late \/ (bms = "complete" => \A p \in Page : ms[p] = "succeeded")

(* No claimed page waits for ever: not in a queue, nor in a batch that       *)
(* nobody polls, nor because its batch said nothing about it.                *)
ClaimIsReleased == \A p \in Page : ms[p] = "in_progress" ~> ms[p] # "in_progress"
===========================================================================
