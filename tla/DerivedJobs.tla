----------------------------- MODULE DerivedJobs -----------------------------
(* What is made from whole books: the summary of a ready book, and the       *)
(* extraction of its knowledge graph into Neo4j. Both are jobs with an id    *)
(* per book, which Redis refuses while a job of that id is queued, running   *)
(* or has a result that is still kept. Cron jobs repair what was lost.       *)
EXTENDS Naturals

CONSTANTS
  DBook,
  MaxAsks,     \* requests of administrators, and returns of a book to the pipeline
  MaxDFaults   \* crashes, timeouts, failures of the models and the stores

ASSUME DerivedAssumption == MaxAsks \in Nat /\ MaxDFaults \in Nat

VARIABLES
  ready,      \* books that are "ready"
  summary,    \* books with a summary
  toSummarise,\* books whose summary job a process is about to queue
  sjob,       \* the summary job of a book
  kgraph,     \* Book.graph_milestone
  toExtract,  \* books whose extraction a process is about to queue
  kjob,       \* the extraction job of a book: its state and what it has written
  mined,      \* what the latest extraction of a book found: entities named in a
              \* relation ("related"), entities named in none ("lone")
  present,    \* what of it is in Neo4j
  linked,     \* books whose related entities have their edges
  resolvable, \* books whose latest entities are in the resolution queue
  swept,      \* history: what of a book the job of another has deleted since
  spoilt,     \* history: books whose job was delivered again after it had ended
  asks, dfaults

summaryVars == <<ready, summary, toSummarise, sjob>>
neoVars == <<mined, present, linked, swept>>
graphVars == <<kgraph, toExtract, kjob, neoVars, resolvable, spoilt>>
derivedVars == <<summaryVars, graphVars, asks, dfaults>>

DAsk == asks < MaxAsks /\ asks' = asks + 1 /\ UNCHANGED dfaults
DFault == dfaults < MaxDFaults /\ dfaults' = dfaults + 1 /\ UNCHANGED asks
Calm == UNCHANGED <<asks, dfaults>>

(* enqueue_job with the id of a book.                                        *)
Queue(jobs, b) == [jobs EXCEPT ![b] = IF @ = "free" THEN "queued" ELSE @]

-----------------------------------------------------------------------------
(* Summaries                                                                 *)
(* The driver commits that a book is ready, and queues its job afterwards.   *)
BecomesReady(b) ==
  /\ b \notin ready /\ ready' = ready \cup {b}
  /\ toSummarise' = toSummarise \cup {b}
  /\ UNCHANGED <<summary, sjob, graphVars>> /\ Calm

BackToPipeline(b) ==
  /\ b \in ready /\ ready' = ready \ {b} /\ DAsk
  /\ UNCHANGED <<summary, toSummarise, sjob, graphVars>>

(* An administrator has the summary deleted and made again.                  *)
ReprocessSummary(b) ==
  /\ summary' = summary \ {b} /\ toSummarise' = toSummarise \cup {b} /\ DAsk
  /\ UNCHANGED <<ready, sjob, graphVars>>

EnqueuesSummary(b) ==
  /\ b \in toSummarise /\ toSummarise' = toSummarise \ {b}
  /\ sjob' = Queue(sjob, b)
  /\ UNCHANGED <<ready, summary, graphVars>> /\ Calm

(* The driver or the request ends in between, or Redis is away.              *)
EnqueueIsLost(b) ==
  /\ b \in toSummarise /\ toSummarise' = toSummarise \ {b} /\ DFault
  /\ UNCHANGED <<ready, summary, sjob, graphVars>>

(* Fault: only the driver queues summaries.                                  *)
ScansNoSummary(b) == FALSE
ScansSummary(b) == b \in ready \ summary
SummaryScanner(b) ==
  /\ ScansSummary(b) /\ sjob' = Queue(sjob, b) /\ sjob' # sjob
  /\ UNCHANGED <<ready, summary, toSummarise, graphVars>> /\ Calm

SJobStarts(b) ==
  /\ sjob[b] = "queued" /\ sjob' = [sjob EXCEPT ![b] = "running"]
  /\ UNCHANGED <<ready, summary, toSummarise, graphVars>> /\ Calm

SJobWrites(b) ==
  /\ sjob[b] = "running" /\ sjob' = [sjob EXCEPT ![b] = "kept"]
  /\ summary' = summary \cup {b}
  /\ UNCHANGED <<ready, toSummarise, graphVars>> /\ Calm

(* No answer, an empty one, an error or a timeout; or a crash.               *)
SJobFails(b) ==
  /\ sjob[b] = "running" /\ \E v \in {"kept", "queued"} : sjob' = [sjob EXCEPT ![b] = v]
  /\ DFault
  /\ UNCHANGED <<ready, summary, toSummarise, graphVars>>

SResultExpires(b) ==
  /\ sjob[b] = "kept" /\ sjob' = [sjob EXCEPT ![b] = "free"]
  /\ UNCHANGED <<ready, summary, toSummarise, graphVars>> /\ Calm

-----------------------------------------------------------------------------
(* The knowledge graph                                                       *)
EntityKind == {"related", "lone"}

(* in_progress is committed before the job is queued, and nobody looks       *)
(* whether it was.                                                           *)
ReprocessGraph(b) ==
  /\ kgraph' = [kgraph EXCEPT ![b] = "in_progress"] /\ toExtract' = toExtract \cup {b} /\ DAsk
  /\ UNCHANGED <<summaryVars, kjob, neoVars, resolvable, spoilt>>

EnqueuesGraph(b) ==
  /\ b \in toExtract /\ toExtract' = toExtract \ {b}
  /\ kjob' = Queue(kjob, b)
  /\ UNCHANGED <<summaryVars, kgraph, neoVars, resolvable, spoilt>> /\ Calm

GraphEnqueueFails(b) ==
  /\ b \in toExtract /\ toExtract' = toExtract \ {b} /\ DFault
  /\ \E v \in {"idle", kgraph[b]} : kgraph' = [kgraph EXCEPT ![b] = v]
  /\ UNCHANGED <<summaryVars, kjob, neoVars, resolvable, spoilt>>

KMoves(b, from, to) == kjob[b] = from /\ kjob' = [kjob EXCEPT ![b] = to]

(* The feature is off, or the book has no chunks.                            *)
KJobSkips(b) ==
  /\ KMoves(b, "queued", "kept") /\ kgraph' = [kgraph EXCEPT ![b] = "idle"]
  /\ UNCHANGED <<summaryVars, toExtract, neoVars, resolvable, spoilt>> /\ Calm

(* An entity without an edge is an orphan.                                   *)
Orphans(x) == IF x \in linked THEN present[x] \ {"related"} ELSE present[x]

(* The edges of the book go, and then every orphan, of any book: the         *)
(* entities another job is about to connect, and those that never get an     *)
(* edge, although their book is complete.                                    *)
KJobClears(b) ==
  /\ KMoves(b, "queued", "cleared")
  /\ mined' = [mined EXCEPT ![b] = {}]
  /\ present' = [x \in DBook |-> IF x = b THEN {} ELSE present[x] \ Orphans(x)]
  /\ swept' = [x \in DBook |-> IF x = b THEN {} ELSE swept[x] \cup Orphans(x)]
  /\ linked' = linked \ {b} /\ resolvable' = resolvable \ {b}
  /\ spoilt' = IF kgraph[b] = "complete" THEN spoilt ELSE spoilt \ {b}
  /\ UNCHANGED <<summaryVars, kgraph, toExtract>> /\ Calm

KJobUpserts(b) ==
  /\ KMoves(b, "cleared", "upserted")
  /\ \E found \in SUBSET EntityKind :
       mined' = [mined EXCEPT ![b] = found] /\ present' = [present EXCEPT ![b] = found]
  /\ UNCHANGED <<summaryVars, kgraph, toExtract, linked, resolvable, swept, spoilt>> /\ Calm

(* Edges whose ends are gone are not made, and nobody is told.               *)
KJobConnects(b) ==
  /\ KMoves(b, "upserted", "written")
  /\ linked' = IF "related" \in present[b] THEN linked \cup {b} ELSE linked
  /\ UNCHANGED <<summaryVars, kgraph, toExtract, mined, present, resolvable, swept, spoilt>> /\ Calm

(* Fault: an error of the bulk write is only logged.                         *)
SaveErrorIgnored == "written"
SaveError == "unsaved"

(* Neo4j refuses the entities, or the edges; it is sent neither if there are *)
(* none.                                                                     *)
KJobSaveFails(b) ==
  /\ \/ /\ KMoves(b, "cleared", SaveError)
        /\ \E found \in SUBSET EntityKind \ {{}} : mined' = [mined EXCEPT ![b] = found]
     \/ KMoves(b, "upserted", SaveError) /\ "related" \in mined[b] /\ UNCHANGED mined
  /\ DFault
  /\ UNCHANGED <<summaryVars, kgraph, toExtract, present, linked, swept, resolvable, spoilt>>

KJobQueuesEntities(b) ==
  /\ KMoves(b, "written", "queuing")
  /\ resolvable' = IF mined[b] = {} THEN resolvable ELSE resolvable \cup {b}
  /\ UNCHANGED <<summaryVars, kgraph, toExtract, neoVars, spoilt>> /\ Calm

KJobEnds(b) ==
  /\ \/ KMoves(b, "queuing", "ended") /\ kgraph' = [kgraph EXCEPT ![b] = "complete"]
     \/ KMoves(b, "unsaved", "ended") /\ kgraph' = [kgraph EXCEPT ![b] = "partial"]
  /\ UNCHANGED <<summaryVars, toExtract, neoVars, resolvable, spoilt>> /\ Calm

KResultIsStored(b) ==
  /\ KMoves(b, "ended", "kept")
  /\ UNCHANGED <<summaryVars, kgraph, toExtract, neoVars, resolvable, spoilt>> /\ Calm

AtKWork(b) == kjob[b] \notin {"free", "queued", "kept"}

(* An error; a timeout, which the job cannot catch; or a crash.              *)
KJobFails(b) ==
  /\ \/ /\ AtKWork(b) \/ kjob[b] = "queued"
        /\ kjob' = [kjob EXCEPT ![b] = "kept"] /\ UNCHANGED spoilt
        /\ \E v \in {"failed", kgraph[b]} : kgraph' = [kgraph EXCEPT ![b] = v]
     \/ /\ AtKWork(b)
        /\ kjob' = [kjob EXCEPT ![b] = "queued"] /\ UNCHANGED kgraph
        /\ spoilt' = IF kjob[b] = "ended" THEN spoilt \cup {b} ELSE spoilt
  /\ DFault
  /\ UNCHANGED <<summaryVars, toExtract, neoVars, resolvable>>

(* After an hour.                                                            *)
KResultExpires(b) ==
  /\ KMoves(b, "kept", "free") /\ b \notin toExtract
  /\ UNCHANGED <<summaryVars, kgraph, toExtract, neoVars, resolvable, spoilt>> /\ Calm

(* An hour without a change of the book.                                     *)
GraphIsStale(b) == kgraph[b] = "in_progress"
WatchdogGraph(b) ==
  /\ GraphIsStale(b) /\ kgraph' = [kgraph EXCEPT ![b] = "idle"]
  /\ UNCHANGED <<summaryVars, toExtract, kjob, neoVars, resolvable, spoilt>> /\ Calm

-----------------------------------------------------------------------------
DerivedInit ==
  /\ ready = {} /\ summary = {} /\ toSummarise = {} /\ sjob = [b \in DBook |-> "free"]
  /\ kgraph = [b \in DBook |-> "idle"] /\ toExtract = {} /\ kjob = [b \in DBook |-> "free"]
  /\ mined = [b \in DBook |-> {}] /\ present = mined /\ swept = mined
  /\ linked = {} /\ resolvable = {} /\ spoilt = {}
  /\ asks = 0 /\ dfaults = 0

SummaryWork(b) == SJobStarts(b) \/ SJobWrites(b) \/ SResultExpires(b)
SummaryNext(b) ==
  \/ BecomesReady(b) \/ BackToPipeline(b) \/ ReprocessSummary(b) \/ EnqueuesSummary(b)
  \/ EnqueueIsLost(b) \/ SummaryScanner(b) \/ SummaryWork(b) \/ SJobFails(b)
GraphNext(b) ==
  \/ ReprocessGraph(b) \/ EnqueuesGraph(b) \/ GraphEnqueueFails(b) \/ KJobSkips(b)
  \/ KJobClears(b) \/ KJobUpserts(b) \/ KJobConnects(b) \/ KJobSaveFails(b)
  \/ KJobQueuesEntities(b) \/ KJobEnds(b) \/ KResultIsStored(b) \/ KJobFails(b) \/ KResultExpires(b) \/ WatchdogGraph(b)

DerivedNext == \E b \in DBook : SummaryNext(b) \/ GraphNext(b)
DerivedSpec == DerivedInit /\ [][DerivedNext]_derivedVars

(* Workers run what is queued, results expire, and cron starts the scanner.  *)
DerivedFairness ==
  \A b \in DBook : /\ WF_derivedVars(SummaryWork(b)) /\ WF_derivedVars(SummaryScanner(b))
FairDerivedSpec == DerivedSpec /\ DerivedFairness

-----------------------------------------------------------------------------
(* A ready book gets a summary, although the job that was to be queued when  *)
(* it became ready may be lost, refused, or fail (pipeline_driver.py:286).   *)
SummaryArrives == \A b \in DBook : b \in ready \ summary ~> b \in summary \/ b \notin ready

Saved(b) == \A e \in mined[b] : e \in swept[b] \cup present[b]
Joined(b) == "related" \in mined[b] => "related" \in swept[b] \/ b \in linked
InLine(b) == mined[b] # {} => b \in resolvable

(* "complete" means that all the extraction found is in Neo4j, its related   *)
(* entities with their edges, and waits to be resolved, whatever crashes,    *)
(* repeated requests and jobs for other books do. Two exceptions, named by   *)
(* the code's own steps: the job of another book sweeps away entities that   *)
(* have no edge, between the two writes or, those the extraction related to  *)
(* nothing, at any later time (graph_repository.py:321); and a worker dies   *)
(* when the milestone is written and the job, delivered again, meets a       *)
(* timeout.                                                                  *)
GraphIsWhole ==
  \A b \in DBook : kgraph[b] = "complete" /\ ~AtKWork(b) /\ b \notin spoilt =>
    Saved(b) /\ Joined(b) /\ InLine(b)
=============================================================================
