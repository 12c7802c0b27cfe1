--------------------------- MODULE LlmSpellCheck ---------------------------
(* The on-demand spell check by an LLM: an administrator starts it for the   *)
(* pages of a book, either as a job that asks the model page by page or as a *)
(* Gemini batch that may take a day, while editors go on saving pages. The   *)
(* dictionary check that a correction starts again is not followed here.     *)
EXTENDS Naturals, FiniteSets

CONSTANTS
  LPage,
  LBatch,      \* rows of batch_llm_spell_check_jobs, reused
  Request,     \* calls of the endpoint, each with the job it may queue
  MaxEdits,    \* edits of a page
  MaxLFaults   \* crashes of requests, jobs and pollers

ASSUME SpellAssumption == MaxEdits \in Nat /\ MaxLFaults \in Nat

VARIABLES
  edits,    \* how often editors have saved a page
  ltext,    \* the edit that the text of a page comes from, corrected or not
  blank,    \* pages without text
  lstatus,  \* Page.llm_spell_check_status
  lrow,     \* the rows: status, remote state, pages and the texts sent
  newer,    \* newer[b]: pages of b whose last_updated is later than submitted_at
  req,      \* the requests and their jobs
  hand,     \* what the poller is doing
  exposed,  \* history: pages whose last edit met a request, job or poller at work on them
  lfaults

ltexts == <<edits, ltext, blank>>
lvars == <<ltexts, lstatus, lrow, newer, req, hand, exposed, lfaults>>

LStatus == {"idle", "in_progress", "succeeded", "failed"}
Text == 0 .. MaxEdits
NoText == [p \in LPage |-> 0]
NoStage == [p \in LPage |-> "none"]
FreeRequest == [phase |-> "free", pages |-> {}, known |-> {}, base |-> NoText,
                stage |-> NoStage]
LFree == [status |-> "none", remote |-> "none", pages |-> {}, base |-> NoText]
IdleHand == [row |-> {}, lines |-> {}, page |-> {}, skip |-> FALSE, same |-> FALSE, ok |-> {}]

Open == {b \in LBatch : lrow[b].status # "none"}
Exempt == UNION {lrow[b].pages : b \in Open}
LSpend == lfaults < MaxLFaults /\ lfaults' = lfaults + 1

Statused(P, v) == [p \in LPage |-> IF p \in P THEN v ELSE lstatus[p]]

(* last_updated = now.                                                       *)
Touched(P) == [b \in LBatch |-> newer[b] \cup (P \cap lrow[b].pages)]

(* last_updated = the start of the transaction: earlier than batches that    *)
(* were submitted since, whatever has happened to the page in between.       *)
Backdated(P, known) ==
  [b \in LBatch |-> IF b \in known THEN newer[b] \cup (P \cap lrow[b].pages) ELSE newer[b] \ P]

-----------------------------------------------------------------------------
(* Editors, and the rest of the pipeline                                     *)
InWork(p) ==
  \/ \E r \in Request : \/ req[r].phase \in {"listed", "read"} /\ p \in req[r].pages
                        \/ req[r].stage[p] = "asked"
  \/ p \in hand.page

(* An editor who has reviewed a preview saves the page as checked.           *)
Edit(p) ==
  /\ edits[p] < MaxEdits
  /\ edits' = [edits EXCEPT ![p] = @ + 1] /\ ltext' = [ltext EXCEPT ![p] = edits'[p]]
  /\ \E B \in {blank \cup {p}, blank \ {p}} : blank' = B
  /\ lstatus' \in {lstatus, Statused({p}, "succeeded")}
  /\ newer' = Touched({p})
  /\ exposed' = IF InWork(p) THEN exposed \cup {p} ELSE exposed \ {p}
  /\ UNCHANGED <<lrow, req, hand, lfaults>>

(* Other jobs update the page, without its text.                             *)
PipelineTouches(p) ==
  /\ newer' = Touched({p}) /\ newer' # newer
  /\ UNCHANGED <<ltexts, lstatus, lrow, req, hand, exposed, lfaults>>

-----------------------------------------------------------------------------
(* The request: list the pages, then submit a batch or queue a job. A page   *)
(* that has been in progress for an hour is listed again.                    *)
Eligible(force, stale) ==
  {p \in LPage \ blank : \/ lstatus[p] \in {"idle", "failed"}
                         \/ force /\ lstatus[p] = "succeeded"
                         \/ lstatus[p] = "in_progress" /\ p \in stale}

Lists(r) ==
  /\ req[r].phase = "free"
  /\ \E force \in BOOLEAN, stale \in SUBSET LPage :
       /\ Eligible(force, stale) # {}
       /\ req' = [req EXCEPT ![r] = [FreeRequest EXCEPT !.phase = "listed",
                    !.pages = Eligible(force, stale), !.known = Open]]
  /\ UNCHANGED <<ltexts, lstatus, lrow, newer, hand, exposed, lfaults>>

ReadsTexts(r) ==
  /\ req[r].phase = "listed"
  /\ req' = [req EXCEPT ![r].phase = "read", ![r].base = ltext]
  /\ UNCHANGED <<ltexts, lstatus, lrow, newer, hand, exposed, lfaults>>

(* The batch exists at Gemini; row and pages are committed together.         *)
SubmitCommits(r, b) ==
  /\ req[r].phase = "read" /\ b \notin Open
  /\ LET P == req[r].pages IN
       /\ lrow' = [lrow EXCEPT ![b] = [status |-> "submitting", remote |-> "runs", pages |-> P,
                                       base |-> [p \in LPage |-> IF p \in P THEN req[r].base[p] ELSE 0]]]
       /\ lstatus' = Statused(P, "in_progress")
       /\ newer' = [Backdated(P, req[r].known) EXCEPT ![b] = {}]
  /\ req' = [q \in Request |-> IF q = r THEN FreeRequest ELSE [req[q] EXCEPT !.known = @ \ {b}]]
  /\ UNCHANGED <<ltexts, hand, exposed, lfaults>>

(* Nothing is stored; a batch created at Gemini is forgotten.                *)
RequestFails(r) ==
  /\ req[r].phase \in {"listed", "read"}
  /\ req' = [req EXCEPT ![r] = FreeRequest]
  /\ UNCHANGED <<ltexts, lstatus, lrow, newer, hand, exposed, lfaults>>

MarksPages(r) ==
  /\ req[r].phase = "listed"
  /\ lstatus' = Statused(req[r].pages, "in_progress")
  /\ newer' = Backdated(req[r].pages, req[r].known)
  /\ req' = [req EXCEPT ![r].phase = "marked", ![r].known = {}]
  /\ UNCHANGED <<ltexts, lrow, hand, exposed, lfaults>>

ToDo(P) == [p \in LPage |-> IF p \in P THEN "todo" ELSE "none"]
Enqueues(r) ==
  /\ req[r].phase = "marked"
  /\ req' = [req EXCEPT ![r].phase = "working", ![r].stage = ToDo(req[r].pages)]
  /\ UNCHANGED <<ltexts, lstatus, lrow, newer, hand, exposed, lfaults>>

EnqueueFails(r) ==
  /\ req[r].phase = "marked"
  /\ lstatus' = Statused(req[r].pages, "idle") /\ newer' = Touched(req[r].pages)
  /\ req' = [req EXCEPT ![r] = FreeRequest]
  /\ UNCHANGED <<ltexts, lrow, hand, exposed, lfaults>>

(* A crash: the queued job is lost, or delivered again from its beginning.   *)
RequestDies(r) ==
  /\ req[r].phase \in {"marked", "working"} /\ LSpend
  /\ \/ req' = [req EXCEPT ![r] = FreeRequest]
     \/ req[r].phase = "working"
        /\ req' = [req EXCEPT ![r].stage = ToDo(req[r].pages), ![r].base = NoText]
  /\ UNCHANGED <<ltexts, lstatus, lrow, newer, hand, exposed>>

-----------------------------------------------------------------------------
(* The job: each page in three short transactions around the call.           *)
JobReads(r, p) ==
  /\ req[r].stage[p] = "todo"
  /\ IF p \in blank
       THEN /\ lstatus' = Statused({p}, "succeeded") /\ newer' = Touched({p})
            /\ req' = [req EXCEPT ![r].stage[p] = "none"]
       ELSE /\ req' = [req EXCEPT ![r].stage[p] = "asked", ![r].base[p] = ltext[p]]
            /\ UNCHANGED <<lstatus, newer>>
  /\ UNCHANGED <<ltexts, lrow, hand, exposed, lfaults>>

(* A correction writes the text only if it changes something.                *)
StoresCorrection(p, base) ==
  /\ ltext' = [ltext EXCEPT ![p] = base]
  /\ blank' = blank \ {p} /\ UNCHANGED edits

Left(r, p) == [req EXCEPT ![r].stage[p] = "none", ![r].base[p] = 0]
JobApplies(r, p) ==
  /\ req[r].stage[p] = "asked"
  /\ \/ StoresCorrection(p, req[r].base[p])
     \/ req[r].base[p] = ltext[p] /\ UNCHANGED ltexts
  /\ lstatus' = Statused({p}, "succeeded") /\ newer' = Touched({p})
  /\ req' = Left(r, p)
  /\ UNCHANGED <<lrow, hand, exposed, lfaults>>

(* The model does not answer, or its answer is refused by the guardrail.     *)
JobFailsPage(r, p) ==
  /\ req[r].stage[p] = "asked"
  /\ lstatus' = Statused({p}, "failed") /\ newer' = Touched({p})
  /\ req' = Left(r, p)
  /\ UNCHANGED <<ltexts, lrow, hand, exposed, lfaults>>

JobEnds(r) ==
  /\ req[r].phase = "working" /\ req[r].stage = NoStage
  /\ req' = [req EXCEPT ![r] = FreeRequest]
  /\ UNCHANGED <<ltexts, lstatus, lrow, newer, hand, exposed, lfaults>>

-----------------------------------------------------------------------------
(* Gemini ends every batch: done, failed, cancelled or expired.              *)
RemoteEnds(b) ==
  /\ lrow[b].remote = "runs"
  /\ \E v \in {"succeeded", "failed"} : lrow' = [lrow EXCEPT ![b].remote = v]
  /\ UNCHANGED <<ltexts, lstatus, newer, req, hand, exposed, lfaults>>

(* The poller. A row has no timeout of its own.                              *)
RowRuns(b) ==
  /\ hand.row = {} /\ lrow[b].remote = "runs" /\ lrow[b].status = "submitting"
  /\ lrow' = [lrow EXCEPT ![b].status = "running"]
  /\ UNCHANGED <<ltexts, lstatus, newer, req, hand, exposed, lfaults>>

Closes(b, failing) ==
  /\ lrow' = [lrow EXCEPT ![b] = LFree]
  /\ lstatus' = Statused(failing, "failed")
  /\ newer' = [Touched(failing) EXCEPT ![b] = {}]
  /\ req' = [q \in Request |-> [req[q] EXCEPT !.known = @ \ {b}]]

(* The batch failed, or its output cannot be downloaded.                     *)
BatchFails(b) ==
  /\ hand.row = {} /\ lrow[b].remote \in {"failed", "succeeded"}
  /\ Closes(b, lrow[b].pages)
  /\ UNCHANGED <<ltexts, hand, exposed, lfaults>>

OpensOutput(b) ==
  /\ hand.row = {} /\ lrow[b].remote = "succeeded"
  /\ hand' = [IdleHand EXCEPT !.row = {b}, !.lines = lrow[b].pages]
  /\ UNCHANGED <<ltexts, lstatus, lrow, newer, req, exposed, lfaults>>

(* Fault: edits made since the submission are not looked for.                *)
UpdatedNever(p) == FALSE
Updated(p) == \E b \in hand.row : p \in newer[b]
Unchanged(p) == {FALSE} \cup {\E b \in hand.row : lrow[b].base[p] = ltext[p]}

LoadsPage(p) ==
  /\ p \in hand.lines /\ hand.page = {}
  /\ \E same \in Unchanged(p) :
       hand' = [hand EXCEPT !.page = {p}, !.lines = @ \ {p}, !.skip = Updated(p),
                            !.same = same /\ ~Updated(p)]
  /\ UNCHANGED <<ltexts, lstatus, lrow, newer, req, exposed, lfaults>>

Handled(ok) == hand' = [hand EXCEPT !.page = {}, !.skip = FALSE, !.same = FALSE, !.ok = @ \cup ok]

(* A page that was updated after the submission keeps its text.              *)
SkipsPage(p) ==
  /\ p \in hand.page /\ hand.skip
  /\ lstatus' = Statused({p}, "succeeded") /\ Handled({p})
  /\ UNCHANGED <<ltexts, lrow, newer, req, exposed, lfaults>>

AppliesPage(p) ==
  /\ p \in hand.page /\ ~hand.skip
  /\ IF hand.same THEN UNCHANGED ltexts ELSE \E b \in hand.row : StoresCorrection(p, lrow[b].base[p])
  /\ lstatus' = Statused({p}, "succeeded") /\ newer' = Touched({p}) /\ Handled({p})
  /\ UNCHANGED <<lrow, req, exposed, lfaults>>

(* No line for the page, a line that cannot be read, a refused correction.   *)
RefusesPage(p) ==
  /\ \/ p \in hand.page /\ ~hand.skip
     \/ p \in hand.lines /\ hand.page = {}
  /\ hand' = [hand EXCEPT !.page = {}, !.skip = FALSE, !.same = FALSE, !.lines = @ \ {p}]
  /\ UNCHANGED <<ltexts, lstatus, lrow, newer, req, exposed, lfaults>>

ClosesRow(b) ==
  /\ hand.row = {b} /\ hand.lines = {} /\ hand.page = {}
  /\ Closes(b, lrow[b].pages \ hand.ok)
  /\ hand' = IdleHand
  /\ UNCHANGED <<ltexts, exposed, lfaults>>

(* A crash, or the timeout of the scanner: the row is polled again.          *)
PollerDies ==
  /\ hand.row # {} /\ LSpend /\ hand' = IdleHand
  /\ UNCHANGED <<ltexts, lstatus, lrow, newer, req, exposed>>

(* The watchdog fails pages in progress that no open batch has.              *)
FailsStale(P) ==
  /\ P # {} /\ P \subseteq {p \in LPage \ Exempt : lstatus[p] = "in_progress"}
  /\ lstatus' = Statused(P, "failed") /\ newer' = Touched(P)
  /\ UNCHANGED <<ltexts, lrow, req, hand, exposed, lfaults>>

-----------------------------------------------------------------------------
SpellInit ==
  /\ edits = NoText /\ ltext = NoText /\ blank = {}
  /\ lstatus = [p \in LPage |-> "idle"]
  /\ lrow = [b \in LBatch |-> LFree] /\ newer = [b \in LBatch |-> {}]
  /\ req = [r \in Request |-> FreeRequest] /\ hand = IdleHand
  /\ exposed = {} /\ lfaults = 0

RequestGoes(r) == \/ ReadsTexts(r) \/ RequestFails(r) \/ MarksPages(r) \/ Enqueues(r)
                  \/ EnqueueFails(r) \/ \E b \in LBatch : SubmitCommits(r, b)
JobGoes(r) == \/ JobEnds(r)
              \/ \E p \in LPage : JobReads(r, p) \/ JobApplies(r, p) \/ JobFailsPage(r, p)
PollsRow(b) == BatchFails(b) \/ OpensOutput(b)
Polls == \/ \E b \in LBatch : PollsRow(b) \/ ClosesRow(b)
         \/ \E p \in LPage : LoadsPage(p) \/ SkipsPage(p) \/ AppliesPage(p) \/ RefusesPage(p)

SpellNext ==
  \/ \E p \in LPage : Edit(p) \/ PipelineTouches(p)
  \/ \E r \in Request : Lists(r) \/ RequestGoes(r) \/ JobGoes(r) \/ RequestDies(r)
  \/ \E b \in LBatch : RemoteEnds(b) \/ RowRuns(b)
  \/ Polls \/ PollerDies \/ \E P \in SUBSET LPage : FailsStale(P)

SpellSpec == SpellInit /\ [][SpellNext]_lvars

-----------------------------------------------------------------------------
(* What an editor saves stays, unless it was saved in the very moments in    *)
(* which a request, a job or the poller had the page in hand: above all a    *)
(* batch that answers a day later overwrites no edit, although batches for   *)
(* the same page overlap, are polled twice, and requests set last_updated    *)
(* back (batch_llm_spell_check_service.py:232, "Guard against overwriting    *)
(* concurrent manual edits").                                                *)
EditSurvives == \A p \in LPage : ltext[p] = edits[p] \/ p \in exposed
=============================================================================
