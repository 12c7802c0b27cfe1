--------------------------- MODULE GraphResolution ---------------------------
(* Entity resolution: a queue in Postgres whose rows a scanner claims, one   *)
(* job per scope that goes through the claimed entities, and the merges that *)
(* this job and administrators carry out in Neo4j and Postgres, which no     *)
(* transaction spans. One scope, and the entities of one extraction; the     *)
(* job may find an entity alike, and in need of a merge or a review, or not. *)
EXTENDS Naturals, FiniteSets

CONSTANTS
  Entity,
  Alike,      \* pairs of entities that the search for candidates can find
  Child,      \* entities that may have a parent
  Admin,      \* merges by administrators
  BatchSize,  \* resolution_batch_size
  MaxPasses,  \* resolution_max_passes
  MaxGEvents  \* merges and unmerges by administrators, crashes of scanner and job

ASSUME ResolutionAssumption ==
  BatchSize \in Nat \ {0} /\ MaxPasses \in Nat /\ MaxGEvents \in Nat /\ "job" \notin Admin

VARIABLES
  alive,     \* entities in Neo4j
  into,      \* into[e]: the entity e was merged into, or e
  resolving, \* entities whose resolution_status is "resolving"
  row,       \* graph_resolution_queue.status, "none" without a row
  pass,      \* pass_count
  handed,    \* claimed rows that are not yet in a job
  gjob,      \* the job with the id of this scope
  merge,     \* merges in progress
  stranded,  \* history: rows whose claim no job will see through
  crossed,   \* history: entities that two merges had in hand at once
  gevents

gvars == <<alive, into, resolving, row, pass, handed, gjob, merge, stranded, crossed, gevents>>

Merger == Admin \cup {"job"}
NoMerge == [phase |-> "free", keep |-> {}, remove |-> {}, children |-> {}]
NoGJob == [st |-> "free", list |-> {}, todo |-> {}, cur |-> {}, cands |-> {}]
GSpend == gevents < MaxGEvents /\ gevents' = gevents + 1
graph == <<alive, into, resolving>>
rows == <<row, pass>>

(* UPDATE of rows that exist.                                                *)
Marks(E, v) == row' = [e \in Entity |-> IF e \in E /\ row[e] # "none" THEN v ELSE row[e]]
(* Rows that stay claimed without anybody to finish them.                    *)
Strands(E) == stranded' = stranded \cup {e \in E : row[e] = "in_progress"}

-----------------------------------------------------------------------------
(* The scanner claims and commits, then queues the job. Redis refuses an id  *)
(* that is queued, running, or whose result it still keeps.                  *)
ScanClaims(E) ==
  /\ handed = {} /\ E # {} /\ E \subseteq {e \in Entity : row[e] = "idle"}
  /\ Cardinality(E) <= BatchSize
  /\ Marks(E, "in_progress") /\ handed' = E /\ stranded' = stranded \ E
  /\ UNCHANGED <<graph, pass, gjob, merge, crossed, gevents>>

ScanEnqueues ==
  /\ handed # {} /\ handed' = {}
  /\ IF gjob.st = "free"
       THEN gjob' = [NoGJob EXCEPT !.st = "queued", !.list = handed] /\ UNCHANGED stranded
       ELSE UNCHANGED gjob /\ Strands(handed)
  /\ UNCHANGED <<graph, rows, merge, crossed, gevents>>

ScanDies ==
  /\ handed # {} /\ handed' = {} /\ GSpend
  /\ Strands(handed)
  /\ UNCHANGED <<graph, rows, gjob, merge, crossed>>

(* The result of the job expires.                                            *)
IdIsFree ==
  /\ gjob.st = "kept" /\ gjob' = NoGJob
  /\ UNCHANGED <<graph, rows, handed, merge, stranded, crossed, gevents>>

-----------------------------------------------------------------------------
(* The job: its entities one after the other.                                *)
GJobStarts ==
  /\ gjob.st = "queued" /\ gjob' = [gjob EXCEPT !.st = "running", !.todo = gjob.list]
  /\ UNCHANGED <<graph, rows, handed, merge, stranded, crossed, gevents>>

(* An entity that is gone fails; other entities in resolution are no         *)
(* candidates.                                                               *)
GJobTakes(e) ==
  /\ gjob.st = "running" /\ gjob.cur = {} /\ e \in gjob.todo
  /\ IF e \in alive
       THEN /\ \E C \in SUBSET {c \in alive \ resolving : {e, c} \in Alike} :
                 gjob' = [gjob EXCEPT !.todo = @ \ {e}, !.cur = {e}, !.cands = C]
            /\ resolving' = resolving \cup {e} /\ UNCHANGED row
       ELSE /\ gjob' = [gjob EXCEPT !.todo = @ \ {e}]
            /\ Marks({e}, "failed") /\ UNCHANGED resolving
  /\ UNCHANGED <<alive, into, pass, handed, merge, stranded, crossed, gevents>>

Merging == merge["job"].phase # "free"

(* A candidate that is gone, or is somebody else.                            *)
GJobLeaves(c) ==
  /\ gjob.st = "running" /\ ~Merging /\ c \in gjob.cands
  /\ gjob' = [gjob EXCEPT !.cands = @ \ {c}]
  /\ UNCHANGED <<graph, rows, handed, merge, stranded, crossed, gevents>>

GJobAsksReview(c) ==
  /\ gjob.st = "running" /\ ~Merging /\ c \in gjob.cands \cap alive
  /\ Marks(gjob.cur, "needs_review")
  /\ gjob' = [gjob EXCEPT !.cur = {}, !.cands = {}]
  /\ UNCHANGED <<graph, pass, handed, merge, stranded, crossed, gevents>>

GJobSucceeds ==
  /\ gjob.st = "running" /\ ~Merging /\ gjob.cur # {} /\ gjob.cands = {}
  /\ resolving' = resolving \ gjob.cur
  /\ Marks(gjob.cur, "succeeded") /\ gjob' = [gjob EXCEPT !.cur = {}]
  /\ UNCHANGED <<alive, into, pass, handed, merge, stranded, crossed, gevents>>

(* Fault: only the log hears of the failure.                                 *)
FailsRowQuietly(E) == UNCHANGED row
FailsRow(E) == Marks(E, "failed")

(* The judge or a database fails, in the middle of a merge perhaps; the      *)
(* failure of a row may itself fail to be stored.                            *)
GJobFails ==
  /\ gjob.st = "running" /\ gjob.cur # {}
  /\ \/ FailsRow(gjob.cur) /\ UNCHANGED <<stranded, gevents>>
     \/ UNCHANGED row /\ Strands(gjob.cur) /\ GSpend
  /\ gjob' = [gjob EXCEPT !.cur = {}, !.cands = {}]
  /\ merge' = [merge EXCEPT !["job"] = NoMerge]
  /\ UNCHANGED <<graph, pass, handed, crossed>>

GJobEnds ==
  /\ gjob.st = "running" /\ gjob.todo = {} /\ gjob.cur = {}
  /\ gjob' = [NoGJob EXCEPT !.st = "kept"]
  /\ UNCHANGED <<graph, rows, handed, merge, stranded, crossed, gevents>>

(* The timeout of the job ends it, a crash has it delivered again.           *)
GJobBreaks ==
  /\ gjob.st = "running" /\ GSpend
  /\ \/ gjob' = [NoGJob EXCEPT !.st = "kept"] /\ Strands(gjob.list)
     \/ gjob' = [NoGJob EXCEPT !.st = "queued", !.list = gjob.list] /\ UNCHANGED stranded
  /\ merge' = [merge EXCEPT !["job"] = NoMerge]
  /\ UNCHANGED <<graph, rows, handed, crossed>>

-----------------------------------------------------------------------------
(* A merge (execute_merge): both entities exist, snapshot and children are   *)
(* taken, Neo4j changes, and the queue afterwards. Nothing compares the two  *)
(* ids: an entity merged into itself is in hand twice as well.               *)
InMerge(x) == merge[x].keep \cup merge[x].remove
MergeChecks(x, k, r) ==
  /\ merge[x].phase = "free" /\ {k, r} \subseteq alive
  /\ \E C \in SUBSET (Child \cap alive) :
       merge' = [merge EXCEPT ![x] = [phase |-> "checked", keep |-> {k}, remove |-> {r}, children |-> C]]
  /\ crossed' = crossed \cup ({k, r} \cap UNION {InMerge(y) : y \in Merger \ {x}}) \cup ({k} \cap {r})

AdminMerges(a, k, r) ==
  /\ MergeChecks(a, k, r) /\ GSpend
  /\ UNCHANGED <<graph, rows, handed, gjob, stranded>>

GJobMerges(k, c) ==
  /\ gjob.st = "running" /\ gjob.cur = {k} /\ c \in gjob.cands
  /\ MergeChecks("job", k, c)
  /\ gjob' = [gjob EXCEPT !.cands = @ \ {c}]
  /\ UNCHANGED <<graph, rows, handed, stranded, gevents>>

(* Fault: the arguments of the Neo4j merge are the wrong way round.          *)
NeoMergesBack(k, r) ==
  /\ alive' = alive \ {k} /\ resolving' = resolving \ {k}
  /\ into' = [into EXCEPT ![r] = k]
NeoMerges(k, r) ==
  /\ alive' = alive \ {r} /\ resolving' = resolving \ {r}
  /\ into' = [into EXCEPT ![r] = k]

MergeMoves(x, k, r) ==
  /\ merge[x].phase = "checked" /\ merge[x].keep = {k} /\ merge[x].remove = {r}
  /\ NeoMerges(k, r)
  /\ merge' = [merge EXCEPT ![x].phase = "moved"]
  /\ UNCHANGED <<rows, handed, gjob, stranded, crossed, gevents>>

(* The row of the removed entity goes.                                       *)
MergeCleans(x, r) ==
  /\ merge[x].phase = "moved" /\ merge[x].remove = {r}
  /\ Marks({r}, "none")
  /\ merge' = [merge EXCEPT ![x].phase = "cleaned"]
  /\ UNCHANGED <<graph, pass, handed, gjob, stranded, crossed, gevents>>

(* A child of either is resolved again, whatever its row is doing.           *)
MergeRequeues(x, c) ==
  /\ merge[x].phase = "cleaned" /\ c \in merge[x].children
  /\ merge' = [merge EXCEPT ![x].children = @ \ {c}]
  /\ IF row[c] = "none" THEN UNCHANGED rows
     ELSE IF pass[c] >= MaxPasses THEN Marks({c}, "needs_review") /\ UNCHANGED pass
     ELSE Marks({c}, "idle") /\ pass' = [pass EXCEPT ![c] = @ + 1]
  /\ UNCHANGED <<graph, handed, gjob, stranded, crossed, gevents>>

MergeEnds(x) ==
  /\ merge[x].phase = "cleaned" /\ merge[x].children = {}
  /\ merge' = [merge EXCEPT ![x] = NoMerge]
  /\ UNCHANGED <<graph, rows, handed, gjob, stranded, crossed, gevents>>

(* The node comes back from the snapshot in the log, without a queue row.    *)
Unmerges(r) ==
  /\ r \notin alive /\ GSpend
  /\ alive' = alive \cup {r} /\ into' = [into EXCEPT ![r] = r]
  /\ resolving' \in {resolving, resolving \cup {r}}
  /\ UNCHANGED <<rows, handed, gjob, merge, stranded, crossed>>

AdminMergeFails(a) ==
  /\ a \in Admin /\ merge[a].phase # "free" /\ merge' = [merge EXCEPT ![a] = NoMerge]
  /\ UNCHANGED <<graph, rows, handed, gjob, stranded, crossed, gevents>>

-----------------------------------------------------------------------------
(* All entities have just been extracted and queued.                         *)
ResolutionInit ==
  /\ alive = Entity /\ into = [e \in Entity |-> e] /\ resolving = {}
  /\ row = [e \in Entity |-> "idle"] /\ pass = [e \in Entity |-> 0]
  /\ handed = {} /\ gjob = NoGJob /\ merge = [x \in Merger |-> NoMerge]
  /\ stranded = {} /\ crossed = {} /\ gevents = 0

ResolutionNext ==
  \/ \E E \in SUBSET Entity : ScanClaims(E)
  \/ ScanEnqueues \/ ScanDies \/ IdIsFree
  \/ GJobStarts \/ GJobSucceeds \/ GJobFails \/ GJobEnds \/ GJobBreaks
  \/ \E e \in Entity : GJobTakes(e) \/ GJobLeaves(e) \/ GJobAsksReview(e) \/ Unmerges(e)
  \/ \E k, r \in Entity : GJobMerges(k, r) \/ \E a \in Admin : AdminMerges(a, k, r)
  \/ \E x \in Merger : \/ MergeEnds(x) \/ AdminMergeFails(x)
                       \/ \E k, r \in Entity : MergeMoves(x, k, r)
                       \/ \E c \in Entity : MergeCleans(x, c) \/ MergeRequeues(x, c)

ResolutionSpec == ResolutionInit /\ [][ResolutionNext]_gvars

-----------------------------------------------------------------------------
(* A claimed row is with somebody who will finish it: the scanner between    *)
(* commit and enqueue, or the job. The exceptions are rows whose enqueue was *)
(* refused or never happened, or whose job timed out: nothing ever claims    *)
(* those again.                                                              *)
AtWork == handed \cup gjob.todo \cup gjob.cur
            \cup (IF gjob.st = "queued" THEN gjob.list ELSE {})
RowIsClaimed == \A e \in Entity : row[e] = "in_progress" => e \in AtWork \cup stranded

(* What was merged away lives on in the entity that absorbed it, directly or *)
(* through other merges: no set of entities that are gone holds all that     *)
(* absorbed them. But two merges may have the same entity in hand at once:   *)
(* nothing locks it between the check that it exists and the deletion.       *)
SurvivorLives ==
  crossed = {} => \A S \in SUBSET (Entity \ alive) : S # {} => \E e \in S : into[e] \notin S

(* Neither rows waiting for the job nor merged entities get lost.            *)
ResolutionIsSound == RowIsClaimed /\ SurvivorLives
=============================================================================
