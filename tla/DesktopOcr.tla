----------------------------- MODULE DesktopOcr -----------------------------
(* The desktop OCR client: a queue that runs one book at a time, the state   *)
(* of the one window, and the copies of a session (OcrWorkDir) in memory,    *)
(* each of which writes the whole file when it saves. Only the pages of a    *)
(* session are kept here; of a page, whose text it has and its status.       *)
EXTENDS Naturals, Sequences, FiniteSets

CONSTANTS
  Upload,      \* sessions that OCR a local PDF
  Existing,    \* sessions that correct a book of the library
  DPage,
  Copy,        \* OcrWorkDir instances in memory, reused
  Call,        \* places for what else holds an instance: requests in progress,
               \* and what a job that broke off has left
  Width,       \* pages in OCR at once
  MaxReviews,  \* pages saved by hand
  MaxRestarts  \* restarts of the client

ASSUME DesktopAssumption ==
  /\ Width \in Nat \ {0} /\ MaxReviews \in Nat /\ MaxRestarts \in Nat
  /\ IsFiniteSet(Copy) /\ IsFiniteSet(Call) /\ Cardinality(Copy) > Cardinality(Call) + 2

VARIABLES
  disk,       \* the directory of each session
  memory,     \* the instances
  waiting,    \* BookQueueManager._queue
  active,     \* _active_session_id
  live,       \* _active_workdir
  task,       \* the pages of the running job
  abandoned,  \* AppState.abandoned_session_ids
  view,       \* AppState.workdir
  stage, manual,   \* AppState.stage and .manual_review_session_id
  request,    \* what is in those places
  said,       \* history: the review that a page has to keep, 0 if none
  doubled,    \* history: sessions that had two instances at work
  reviews, restarts

dvars == <<disk, memory, waiting, active, live, task, abandoned, view, stage, manual, request,
           said, doubled, reviews, restarts>>

DSession == Upload \cup Existing
Done == {"ocrd", "reviewed"}
Pages(v) == [p \in DPage |-> [st |-> v, rev |-> 0]]
NoDir == [here |-> FALSE, pages |-> Pages("pending")]
NoCopy == [of |-> {}, pages |-> Pages("pending")]
NoTask == [p \in DPage |-> "none"]
NoCall == [kind |-> "free", memory |-> {}, page |-> {}, todo |-> {}]
Nothing == [s \in DSession |-> [p \in DPage |-> 0]]

CopiesOfCalls == UNION {request[k].memory : k \in Call}
HeldCopies == view \cup live \cup CopiesOfCalls
Of(C) == UNION {memory[c].of : c \in C}
Fresh == CHOOSE c \in Copy : c \notin HeldCopies

(* An instance lives as long as somebody holds it.                           *)
Keeps(cp) == memory' = [c \in Copy |-> IF c \in HeldCopies' THEN cp[c] ELSE NoCopy]
Loaded(s, pages) == [memory EXCEPT ![Fresh] = [of |-> {s}, pages |-> pages]]

(* A second instance beside that of a request, or of what a job has left.    *)
DoublesIf(s, cond) == doubled' = IF cond THEN doubled \cup {s} ELSE doubled
Published(s, C) == DoublesIf(s, C = {Fresh} /\ s \in Of(CopiesOfCalls))

(* Every change of a page saves the whole instance.                          *)
Saves(c, p, page) ==
  LET pages == [memory[c].pages EXCEPT ![p] = page] IN
    /\ Keeps([memory EXCEPT ![c].pages = pages])
    /\ disk' = [s \in DSession |-> IF {s} = memory[c].of /\ disk[s].here
                                     THEN [disk[s] EXCEPT !.pages = pages] ELSE disk[s]]

InQueue == {waiting[i] : i \in DOMAIN waiting}
Enqueue(s) ==
  /\ active' = IF active = {} THEN {s} ELSE active
  /\ waiting' = IF active = {} \/ active = {s} \/ s \in InQueue THEN waiting ELSE Append(waiting, s)

(* cancel: a session is in the queue once, if at all.                        *)
Cancels(s) ==
  \/ s \notin InQueue /\ UNCHANGED waiting
  \/ \E i \in DOMAIN waiting :
       /\ waiting[i] = s
       /\ waiting' = SubSeq(waiting, 1, i - 1) \o SubSeq(waiting, i + 1, Len(waiting))

ReviewingOther(s) == stage = "review" /\ manual # {} /\ manual # {s}
Shows(C, st, M) == view' = C /\ stage' = st /\ manual' = M
KeepsView == UNCHANGED <<view, stage, manual>>
jobVars == <<live, task>>
bounds == <<reviews, restarts>>

-----------------------------------------------------------------------------
(* Starting a session. A new session is shown if the queue takes it at once. *)
StartUpload(s) ==
  /\ s \in Upload /\ ~disk[s].here /\ s \notin Of(HeldCopies)
  /\ disk' = [disk EXCEPT ![s] = [here |-> TRUE, pages |-> Pages("pending")]]
  /\ Enqueue(s)
  /\ manual' = {}
  /\ IF active' = {s} THEN view' = {Fresh} /\ stage' = "processing" ELSE UNCHANGED <<view, stage>>
  /\ UNCHANGED <<jobVars, abandoned, request, said, doubled, bounds>>
  /\ Keeps(Loaded(s, Pages("pending")))

(* A book of the library is loaded again, whoever is working on it.          *)
StartExisting(s) ==
  LET pages == IF disk[s].here THEN disk[s].pages ELSE Pages("ocrd") IN
    /\ s \in Existing
    /\ disk' = [disk EXCEPT ![s] = [here |-> TRUE, pages |-> pages]]
    /\ IF \E p \in DPage : pages[p].st \notin Done
         THEN /\ Enqueue(s)
              /\ manual' = {}
              /\ IF active' = {s} THEN view' = {Fresh} /\ stage' = "processing"
                                  ELSE UNCHANGED <<view, stage>>
         ELSE Shows({Fresh}, "review", {}) /\ UNCHANGED <<active, waiting>>
    /\ DoublesIf(s, view' = {Fresh} /\ s \in Of(live \cup CopiesOfCalls))
    /\ UNCHANGED <<jobVars, abandoned, request, said, bounds>>
    /\ Keeps(Loaded(s, pages))

(* The download of the book fails.                                           *)
StartFails ==
  /\ stage' = "error" /\ manual' = {}
  /\ UNCHANGED <<disk, memory, waiting, active, jobVars, abandoned, view, request, said, doubled, bounds>>

(* Fault: the running job's instance is not looked for.                      *)
LiveOfNone(s) == {}
LiveOf(s) == IF active = {s} THEN live ELSE {}

Held(s) == IF LiveOf(s) # {} THEN LiveOf(s) ELSE IF Of(view) = {s} THEN view ELSE {}
Opens(s) ==
  /\ disk[s].here /\ Held(s) # {} /\ Shows(Held(s), "review", {s})
  /\ UNCHANGED <<disk, waiting, active, jobVars, abandoned, request, said, doubled, bounds>>
  /\ Keeps(memory)

(* Nobody has it: a thread loads it, and the queue goes on meanwhile.        *)
Loads(k, kind, s) ==
  /\ request[k] = NoCall /\ disk[s].here
  /\ request' = [request EXCEPT ![k] = [NoCall EXCEPT !.kind = kind, !.memory = {Fresh}]]
  /\ Published(s, {Fresh})
  /\ UNCHANGED <<disk, waiting, active, jobVars, abandoned, view, stage, manual, said, bounds>>
  /\ Keeps(Loaded(s, disk[s].pages))

Unloads(k, kind) ==
  /\ request[k].kind = kind /\ request' = [request EXCEPT ![k] = NoCall]
  /\ UNCHANGED <<disk, waiting, active, jobVars, abandoned, said, doubled, bounds>>
  /\ Keeps(memory)

OpenLoads(k, s) == Held(s) = {} /\ Loads(k, "open", s)
OpenShows(k, s) ==
  Of(request[k].memory) = {s} /\ Shows(request[k].memory, "review", {s}) /\ Unloads(k, "open")

Pending(s) == \E p \in DPage : disk[s].pages[p].st \in {"pending", "processing"}
Resumes(s) ==
  LET C == IF LiveOf(s) # {} THEN LiveOf(s) ELSE {Fresh} IN
    /\ disk[s].here /\ ~(Of(view) = {s} /\ stage # "landing")
    /\ IF Pending(s) THEN Enqueue(s) ELSE UNCHANGED <<active, waiting>>
    /\ IF (Pending(s) => active' = {s}) /\ ~ReviewingOther(s)
         THEN /\ Shows(C, IF Pending(s) THEN "processing" ELSE "review", {})
              /\ Published(s, C)
         ELSE KeepsView /\ UNCHANGED doubled
    /\ UNCHANGED <<disk, jobVars, abandoned, request, said, bounds>>
    /\ Keeps(Loaded(s, disk[s].pages))

(* A request without a session in view takes up the one that is running, or  *)
(* loads it while the job is about to.                                       *)
Hydrates(s) ==
  /\ view = {} /\ active = {s} /\ live # {} /\ view' = live
  /\ UNCHANGED <<disk, waiting, active, jobVars, abandoned, stage, manual, request, said, doubled, bounds>>
  /\ Keeps(memory)
HydrateLoads(k, s) == view = {} /\ active = {s} /\ live = {} /\ Loads(k, "hydrate", s)
HydrateShows(k) == view' = request[k].memory /\ UNCHANGED <<stage, manual>> /\ Unloads(k, "hydrate")

(* Back to the landing page, while the job goes on.                          *)
Resets ==
  /\ abandoned' = IF view # {} /\ Of(view) = active THEN abandoned \cup active ELSE abandoned
  /\ Shows({}, "landing", {})
  /\ UNCHANGED <<disk, waiting, active, jobVars, request, said, doubled, bounds>>
  /\ Keeps(memory)

Deletes(s) ==
  /\ disk[s].here /\ s \notin active
  /\ disk' = [disk EXCEPT ![s] = NoDir]
  /\ Cancels(s)
  /\ IF Of(view) = {s} THEN view' = {} /\ stage' = "landing" ELSE UNCHANGED <<view, stage>>
  /\ said' = [said EXCEPT ![s] = Nothing[s]]
  /\ UNCHANGED <<active, jobVars, abandoned, manual, request, doubled, bounds>>
  /\ Keeps(memory)

-----------------------------------------------------------------------------
(* The queue and its job. The instance is loaded when the job starts, and    *)
(* the pages still to be done are listed once the OCR engine is ready.       *)
JobLoads(s) ==
  /\ active = {s} /\ live = {}
  /\ live' = {Fresh} /\ task' = [p \in DPage |-> "new"]
  /\ IF ReviewingOther(s) THEN KeepsView ELSE Shows({Fresh}, "processing", manual)
  /\ DoublesIf(s, s \in Of(view' \cup CopiesOfCalls))
  /\ UNCHANGED <<disk, waiting, active, abandoned, request, said, bounds>>
  /\ Keeps(Loaded(s, disk[s].pages))

JobLists(c) ==
  /\ live = {c} /\ \A p \in DPage : task[p] = "new"
  /\ task' = [p \in DPage |-> IF memory[c].pages[p].st \in Done THEN "none" ELSE "todo"]
  /\ UNCHANGED <<disk, memory, waiting, active, live, abandoned, view, stage, manual, request, said,
                 doubled, bounds>>

InOcr == {p \in DPage : task[p] = "ocr"}
Takes(c, p) == Saves(c, p, [st |-> "processing", rev |-> 0])
JobTakes(c, p) ==
  /\ live = {c} /\ task[p] = "todo" /\ Cardinality(InOcr) < Width
  /\ task' = [task EXCEPT ![p] = "ocr"]
  /\ UNCHANGED <<waiting, active, live, abandoned, view, stage, manual, request, said, doubled, bounds>>
  /\ Takes(c, p)

(* Fault: the answer replaces whatever the page has become.                  *)
AnsweredOver(page, v) == [st |-> v, rev |-> IF v = "ocrd" THEN 0 ELSE page.rev]
Answered(page, v) ==
  IF page.st = "reviewed" THEN page ELSE [st |-> v, rev |-> IF v = "ocrd" THEN 0 ELSE page.rev]

(* Text, a timeout, too little confidence or an error.                       *)
OcrAnswers(c, p) ==
  \E v \in {"ocrd", "failed"} :
    IF v = "failed" /\ memory[c].pages[p].st = "reviewed"
      THEN UNCHANGED disk /\ Keeps(memory)
      ELSE Saves(c, p, Answered(memory[c].pages[p], v))

JobAnswers(c, p) ==
  /\ live = {c} /\ task[p] = "ocr"
  /\ task' = [task EXCEPT ![p] = "none"]
  /\ UNCHANGED <<waiting, active, live, abandoned, view, stage, manual, request, said, doubled, bounds>>
  /\ OcrAnswers(c, p)

(* Fault: the session is still the active one when its job has ended.        *)
NextBookNever == UNCHANGED <<active, waiting>>
NextBook ==
  IF waiting = <<>> THEN active' = {} /\ UNCHANGED waiting
                    ELSE active' = {Head(waiting)} /\ waiting' = Tail(waiting)

RunEnds(s, ok) ==
  /\ active = {s} /\ live' = {} /\ task' = NoTask
  /\ NextBook
  /\ abandoned' = abandoned \ {s}
  /\ stage' = IF s \in abandoned \/ ReviewingOther(s) \/ (ok /\ waiting # <<>>) THEN stage
              ELSE IF ok THEN "review" ELSE "error"
  /\ UNCHANGED <<view, manual, said, doubled, bounds>>

(* The last page is done, or there is no PDF or no engine to start with.     *)
OcrJobEnds(s, ok) ==
  /\ live # {} /\ task = [p \in DPage |-> IF ok THEN "none" ELSE "new"]
  /\ RunEnds(s, ok) /\ UNCHANGED <<disk, request>>
  /\ Keeps(memory)

(* The task of a page ends with an error: the page cannot be rendered, or    *)
(* the file cannot be written, also not when the page is to be called failed.*)
Unsaved(c, p, page) == UNCHANGED disk /\ Keeps([memory EXCEPT ![c].pages[p] = page])
TaskRaises(c, p, st) ==
  LET page == memory[c].pages[p] IN
    \/ st = "todo" /\ (Takes(c, p) \/ Unsaved(c, p, [st |-> "processing", rev |-> 0]))
    \/ /\ st = "ocr" /\ page.st # "reviewed"
       /\ \E rev \in {0, page.rev} : Unsaved(c, p, [st |-> "failed", rev |-> rev])

(* That ends the job, but not the tasks of the other pages: they go on with  *)
(* the instance, which the queue forgets.                                    *)
Leaves(c, p) ==
  LET rest(st) == {q \in DPage \ {p} : task[q] = st} IN
    IF rest("todo") \cup rest("ocr") = {} THEN UNCHANGED request
    ELSE \E k \in Call :
           /\ request[k] = NoCall
           /\ request' = [request EXCEPT ![k] =
                [kind |-> "job", memory |-> {c}, page |-> rest("ocr"), todo |-> rest("todo")]]
JobBreaks(s, c, p) ==
  /\ live = {c} /\ task[p] \in {"todo", "ocr"} /\ (task[p] = "todo" => Cardinality(InOcr) < Width)
  /\ RunEnds(s, FALSE) /\ Leaves(c, p)
  /\ TaskRaises(c, p, task[p])

(* What is left of a job that broke off. A session that was deleted takes no *)
(* file, so that the task of a page that is not reviewed raises.             *)
Leftover(k, c, page, todo) ==
  /\ request[k].kind = "job" /\ request[k].memory = {c}
  /\ request' = [request EXCEPT ![k] =
       IF page \cup todo = {} THEN NoCall ELSE [@ EXCEPT !.page = page, !.todo = todo]]
  /\ UNCHANGED <<waiting, active, jobVars, abandoned, view, stage, manual, said, doubled, bounds>>
HasFile(c) == \E s \in DSession : memory[c].of = {s} /\ disk[s].here
LeftTakes(k, c, p) ==
  LET r == request[k] IN
    /\ p \in r.todo /\ Cardinality(r.page) < Width
    /\ \/ HasFile(c) /\ Leftover(k, c, r.page \cup {p}, r.todo \ {p}) /\ Takes(c, p)
       \/ Leftover(k, c, r.page, r.todo \ {p}) /\ TaskRaises(c, p, "todo")
LeftAnswers(k, c, p) ==
  LET r == request[k] IN
    /\ p \in r.page /\ Leftover(k, c, r.page \ {p}, r.todo)
    /\ \/ HasFile(c) /\ OcrAnswers(c, p)
       \/ TaskRaises(c, p, "ocr")
       \/ memory[c].pages[p].st = "reviewed" /\ UNCHANGED disk /\ Keeps(memory)

-----------------------------------------------------------------------------
(* Requests on the session in view.                                          *)
Asks(k, kind, p) ==
  /\ request[k] = NoCall /\ view # {}
  /\ request' = [request EXCEPT ![k] = [NoCall EXCEPT !.kind = kind, !.memory = view, !.page = {p}]]
  /\ UNCHANGED <<disk, memory, waiting, active, jobVars, abandoned, view, stage, manual, doubled, bounds>>

InRedo(s, p) == \E k \in Call : request[k].kind = "redo" /\ p \in request[k].page /\ Of(request[k].memory) = {s}
Waits(s, p) ==
  \/ Of(live) = {s} /\ task[p] = "todo"
  \/ \E k \in Call : p \in request[k].todo /\ Of(request[k].memory) = {s}
Unsaid(s, p) == [said EXCEPT ![s][p] = 0]

(* OCR of a page again: its text is to be replaced.                          *)
RedoBegins(k, p) ==
  /\ Asks(k, "redo", p)
  /\ said' = [s \in DSession |-> IF Of(view) = {s} THEN [said[s] EXCEPT ![p] = 0] ELSE said[s]]

RedoEnds(k, c, p, s) ==
  /\ request[k].kind = "redo" /\ request[k].memory = {c} /\ request[k].page = {p} /\ memory[c].of = {s}
  /\ request' = [request EXCEPT ![k] = NoCall]
  /\ said' = Unsaid(s, p)
  /\ UNCHANGED <<waiting, active, jobVars, abandoned, view, stage, manual, doubled, bounds>>
  /\ \/ \E v \in {"ocrd", "failed"} :
          Saves(c, p, [st |-> v, rev |-> IF v = "ocrd" THEN 0 ELSE memory[c].pages[p].rev])
     \/ UNCHANGED disk /\ Keeps(memory)

ReviewBegins(k, p) == reviews < MaxReviews /\ Asks(k, "review", p) /\ UNCHANGED said

(* A page saved by hand is reviewed, but a failed page stays failed.         *)
ReviewEnds(k, c, p, s) ==
  LET was == memory[c].pages[p].st IN
    /\ request[k].kind = "review" /\ request[k].memory = {c} /\ request[k].page = {p} /\ memory[c].of = {s}
    /\ reviews < MaxReviews /\ reviews' = reviews + 1
    /\ request' = [request EXCEPT ![k] = NoCall]
    /\ said' = IF was = "failed" \/ InRedo(s, p) \/ Waits(s, p) \/ ~disk[s].here THEN Unsaid(s, p)
               ELSE [said EXCEPT ![s][p] = reviews']
    /\ UNCHANGED <<waiting, active, jobVars, abandoned, view, stage, manual, doubled, restarts>>
    /\ Saves(c, p, [st |-> IF was = "failed" THEN was ELSE "reviewed", rev |-> reviews'])

-----------------------------------------------------------------------------
Interrupted(page) == IF page.st = "processing" THEN [page EXCEPT !.st = "pending"] ELSE page

(* The client is closed, or crashes, and starts again with an empty queue.   *)
Restarts ==
  /\ restarts < MaxRestarts /\ restarts' = restarts + 1
  /\ disk' = [s \in DSession |->
                [disk[s] EXCEPT !.pages = [p \in DPage |-> Interrupted(disk[s].pages[p])]]]
  /\ memory' = [c \in Copy |-> NoCopy] /\ live' = {} /\ task' = NoTask /\ waiting' = <<>>
  /\ active' = {} /\ abandoned' = {} /\ Shows({}, "landing", {})
  /\ request' = [k \in Call |-> NoCall]
  /\ said' = [s \in DSession |-> IF s \in doubled THEN Nothing[s] ELSE said[s]]
  /\ doubled' = {} /\ UNCHANGED reviews

DesktopInit ==
  /\ disk = [s \in DSession |-> NoDir] /\ memory = [c \in Copy |-> NoCopy]
  /\ waiting = <<>> /\ active = {} /\ live = {} /\ task = NoTask /\ abandoned = {}
  /\ view = {} /\ stage = "landing" /\ manual = {} /\ request = [k \in Call |-> NoCall]
  /\ said = Nothing /\ doubled = {} /\ reviews = 0 /\ restarts = 0

OcrJobGoes ==
  \/ \E s \in DSession : JobLoads(s) \/ OcrJobEnds(s, TRUE)
  \/ \E c \in Copy : JobLists(c) \/ \E p \in DPage : JobTakes(c, p) \/ JobAnswers(c, p)

SessionNext(s) ==
  \/ StartUpload(s) \/ StartExisting(s) \/ Opens(s) \/ Resumes(s)
  \/ Hydrates(s) \/ Deletes(s) \/ OcrJobEnds(s, FALSE)
  \/ \E c \in Copy, p \in DPage : JobBreaks(s, c, p)
LoadNext(k, s) == OpenLoads(k, s) \/ OpenShows(k, s) \/ HydrateLoads(k, s)
LeftNext(k, c, p) == LeftTakes(k, c, p) \/ LeftAnswers(k, c, p)
PageNext(k, p) ==
  \/ RedoBegins(k, p) \/ ReviewBegins(k, p)
  \/ \E c \in Copy, s \in DSession : RedoEnds(k, c, p, s) \/ ReviewEnds(k, c, p, s)

DesktopNext ==
  \/ \E s \in DSession : SessionNext(s) \/ \E k \in Call : LoadNext(k, s)
  \/ StartFails \/ Resets \/ OcrJobGoes \/ Restarts
  \/ \E k \in Call : HydrateShows(k)
  \/ \E k \in Call, p \in DPage : PageNext(k, p) \/ \E c \in Copy : LeftNext(k, c, p)

DesktopSpec == DesktopInit /\ [][DesktopNext]_dvars

(* The event loop runs the queue, and OCR of a page ends.                    *)
FairDesktopSpec == DesktopSpec /\ WF_dvars(OcrJobGoes)

-----------------------------------------------------------------------------
(* Nobody but the job holds an instance of the session it is processing, or  *)
(* rather everybody holds the same one (queue.py:47, "rather than loading a  *)
(* second, independent copy from disk, which would silently diverge"). It is *)
(* otherwise only after a book was started again while it was running; after *)
(* a session was loaded while a request was in progress on it, or while      *)
(* tasks of a job that broke off were still at work on it, which nobody      *)
(* waits for or stops; or after a job loaded a session another thread was    *)
(* loading, or the one in view, which it does not replace while it takes a   *)
(* book that was deleted for the one under review (delete_session keeps the  *)
(* mark).                                                                    *)
OneInstance ==
  \A c \in HeldCopies : live # {} /\ memory[c].of = active => c \in live \/ active \subseteq doubled

(* What a reader saved stays in the file, whatever the queue, its job,       *)
(* what is left of a job, another view of the session or a restart does,     *)
(* until the page is redone:                                                 *)
(* for pages that were not failed, nor listed for OCR and waiting for it,    *)
(* when they were saved, and sessions that never had two instances.          *)
ReviewStays ==
  \A s \in DSession, p \in DPage :
    said[s][p] > 0 /\ s \notin doubled => disk[s].pages[p] = [st |-> "reviewed", rev |-> said[s][p]]

(* Readers work on the instance the job works on, and keep what they saved.  *)
SessionsAreSound == OneInstance /\ ReviewStays

(* Every session that is queued or running ends to be so.                    *)
QueueMoves == \A s \in DSession : s \in InQueue \cup active ~> s \notin InQueue \cup active
=============================================================================
