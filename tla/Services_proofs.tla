--------------------------- MODULE Services_proofs ---------------------------
(* Safety of the worker's services, for any callers, books, pages and bounds: the *)
(* circuit breaker, the graph of a book, the resolution of entities, and the two *)
(* spell checks; and of what the chat answers.                                  *)
EXTENDS CircuitBreaker, DerivedJobs, GraphResolution, SpellIssues,
        LlmSpellCheck, RetrievalScope, ChatTurn,
        FiniteSetTheorems, SequenceTheorems, TLAPS

-----------------------------------------------------------------------------
(* The circuit breaker.                                                         *)
(* The invariant, also strong enough for the time before the hash exists.    *)
Budget == state \in {"none", "closed"} => failures < FailureThreshold
BInv == TypeOK /\ Budget /\ ProbesAreCounted

(* Sets of waiting callers are finite; removing a caller never adds to their *)
(* number, adding one adds at most one.                                      *)
LEMMA ProbeFacts ==
  ASSUME NEW P \in SUBSET Caller, NEW c \in Caller
  PROVE  /\ Cardinality(P) \in Nat /\ Cardinality({}) = 0
         /\ Cardinality(P \ {c}) \in Nat /\ Cardinality(P \ {c}) <= Cardinality(P)
         /\ Cardinality(P \cup {c}) \in Nat
         /\ Cardinality(P \cup {c}) <= Cardinality(P) + 1
         /\ Cardinality({c}) = 1
<1>1. IsFiniteSet(P) /\ Cardinality(P) \in Nat
  BY BreakerAssumption, FS_Subset, FS_CardinalityType
<1>2. /\ IsFiniteSet(P \ {c})
      /\ Cardinality(P \ {c}) = IF c \in P THEN Cardinality(P) - 1 ELSE Cardinality(P)
  BY <1>1, FS_RemoveElement
<1>3. Cardinality(P \ {c}) \in Nat
  BY <1>2, FS_CardinalityType
<1>4. /\ IsFiniteSet(P \cup {c})
      /\ Cardinality(P \cup {c}) = IF c \in P THEN Cardinality(P) ELSE Cardinality(P) + 1
  BY <1>1, FS_AddElement
<1>5. Cardinality(P \cup {c}) \in Nat
  BY <1>4, FS_CardinalityType
<1>6. Cardinality({}) = 0 /\ Cardinality({c}) = 1
  BY FS_EmptySet, FS_Singleton
<1> QED
  BY <1>1, <1>2, <1>3, <1>4, <1>5, <1>6

(* Admitting a call.                                                         *)
LEMMA AllowKeeps ==
  ASSUME BInv, NEW c \in Caller, AllowCall(c)
  PROVE  BInv'
<1>1. /\ probe \in SUBSET Caller /\ c \notin probe
      /\ inFlight \in Nat /\ HalfOpenMaxCalls \in Nat \ {0}
  BY BreakerAssumption DEF BInv, TypeOK, ProbesAreCounted, AllowCall
<1>2. /\ call' = [call EXCEPT ![c] = "calling"]
      /\ UNCHANGED <<failures, elapsed, admin>>
  BY DEF AllowCall
<1>3. \A d \in probe \cup {c} : call'[d] = "calling"
  BY <1>2 DEF BInv, TypeOK, ProbesAreCounted
<1>4. CASE AdmitClosed
  <2>1. TypeOK' /\ Budget'
    BY <1>2, <1>4, BreakerAssumption DEF BInv, TypeOK, Budget, AdmitClosed
  <2>2. ProbesAreCounted'
    BY <1>2, <1>3, <1>4 DEF BInv, ProbesAreCounted, AdmitClosed
  <2> QED
    BY <2>1, <2>2 DEF BInv
<1>5. CASE AdmitAfterTimeout(c)
  <2>1. TypeOK' /\ Budget'
    BY <1>1, <1>2, <1>5 DEF BInv, TypeOK, Budget, AdmitAfterTimeout
  <2>2. Cardinality(probe') = 1
    BY <1>1, <1>5, ProbeFacts DEF AdmitAfterTimeout
  <2>3. ProbesAreCounted'
    BY <1>1, <1>3, <1>5, <2>2 DEF ProbesAreCounted, AdmitAfterTimeout
  <2> QED
    BY <2>1, <2>3 DEF BInv
<1>6. CASE AdmitProbe(c)
  <2>1. TypeOK' /\ Budget'
    BY <1>1, <1>2, <1>6 DEF BInv, TypeOK, Budget, AdmitProbe
  <2>2. Cardinality(probe') <= Cardinality(probe) + 1 /\ Cardinality(probe) \in Nat
        /\ Cardinality(probe') \in Nat
    BY <1>1, <1>6, ProbeFacts DEF AdmitProbe
  <2>3. ProbesAreCounted'
    BY <1>1, <1>3, <1>6, <2>2 DEF BInv, ProbesAreCounted, AdmitProbe
  <2> QED
    BY <2>1, <2>3 DEF BInv
<1> QED
  BY <1>4, <1>5, <1>6 DEF AllowCall

(* Any step that empties the half-open phase keeps the count of its probes.  *)
LEMMA EmptyCounted ==
  ASSUME inFlight' = 0, probe' = {}
  PROVE  ProbesAreCounted'
<1>1. Cardinality({}) = 0 /\ 0 <= HalfOpenMaxCalls
  BY FS_EmptySet, BreakerAssumption
<1> QED
  BY <1>1 DEF ProbesAreCounted

LEMMA SuccessKeeps ==
  ASSUME BInv, OnSuccess, call' \in [Caller -> {"idle", "calling", "streaming"}]
  PROVE  BInv'
<1>1. TypeOK' /\ Budget'
  BY BreakerAssumption DEF BInv, TypeOK, Budget, OnSuccess
<1>2. ProbesAreCounted'
  BY EmptyCounted DEF OnSuccess
<1> QED
  BY <1>1, <1>2 DEF BInv

(* A caller that leaves is no longer counted among the waiting probes.       *)
LEMMA LeaveCounted ==
  ASSUME BInv, NEW c \in Caller, Ends(c), probe' = probe \ {c},
         UNCHANGED <<state, inFlight>>
  PROVE  ProbesAreCounted'
<1>0. probe \in SUBSET Caller /\ inFlight \in Nat
  BY BreakerAssumption DEF BInv, TypeOK
<1>1. /\ Cardinality(probe \ {c}) <= Cardinality(probe)
      /\ Cardinality(probe) \in Nat /\ Cardinality(probe \ {c}) \in Nat
  BY <1>0, ProbeFacts
<1>2. \A d \in probe' : call'[d] = "calling"
  BY DEF BInv, TypeOK, ProbesAreCounted, Ends
<1> QED
  BY <1>0, <1>1, <1>2 DEF BInv, ProbesAreCounted

LEMMA FailureKeeps ==
  ASSUME BInv, NEW c \in Caller, Ends(c), OnFailure(c)
  PROVE  BInv'
<1>0. call' \in [Caller -> {"idle", "calling", "streaming"}]
  BY DEF BInv, TypeOK, Ends
<1>1. CASE cooling
  <2>1. probe' = probe \ {c} /\ UNCHANGED <<state, failures, inFlight, elapsed, cooling, admin>>
    BY <1>1 DEF OnFailure
  <2>2. TypeOK' /\ Budget'
    BY <1>0, <2>1 DEF BInv, TypeOK, Budget
  <2> QED
    BY <2>1, <2>2, LeaveCounted DEF BInv
<1>2. CASE ~cooling
  <2> DEFINE n == Min2(failures + 1, FailureThreshold)
             opens == state = "half_open" \/ n >= FailureThreshold
  <2>1. /\ failures' = n /\ state' = IF opens THEN "open" ELSE state
        /\ elapsed' = IF opens THEN FALSE ELSE elapsed
        /\ inFlight' = IF opens THEN 0 ELSE inFlight
        /\ probe' = IF opens THEN {} ELSE probe \ {c}
        /\ UNCHANGED <<cooling, admin>>
    BY <1>2 DEF OnFailure
  <2>2. n \in 0 .. FailureThreshold /\ (n < FailureThreshold \/ n >= FailureThreshold)
    BY BreakerAssumption DEF BInv, TypeOK, Min2
  <2> HIDE DEF n
  <2>a. elapsed' \in BOOLEAN /\ cooling' \in BOOLEAN
    BY <2>1, Zenon DEF BInv, TypeOK
  <2>b. /\ state' \in {"none", "closed", "open", "half_open"}
        /\ inFlight' \in 0 .. HalfOpenMaxCalls /\ probe' \subseteq Caller
        /\ failures' \in 0 .. FailureThreshold /\ admin' \in 0 .. MaxAdmin
        /\ state' \in {"none", "closed"} => failures' < FailureThreshold
    BY <2>1, <2>2, BreakerAssumption DEF BInv, TypeOK
  <2>3. TypeOK' /\ Budget'
    BY <1>0, <2>a, <2>b DEF TypeOK, Budget
  <2>4. ProbesAreCounted'
    BY <2>1, EmptyCounted, LeaveCounted
  <2> QED
    BY <2>3, <2>4 DEF BInv
<1> QED
  BY <1>1, <1>2

LEMMA NextKeeps ==
  ASSUME BInv, [Next]_vars
  PROVE  BInv'
<1>1. ASSUME NEW c \in Caller, CallSucceeds(c) \/ FirstChunk(c)
      PROVE  BInv'
  <2>1. call' \in [Caller -> {"idle", "calling", "streaming"}] /\ OnSuccess
    BY <1>1 DEF BInv, TypeOK, CallSucceeds, FirstChunk, Ends
  <2> QED
    BY <2>1, SuccessKeeps
<1>2. ASSUME NEW c \in Caller, EndsUnreported(c)
      PROVE  BInv'
  <2>1. TypeOK' /\ Budget'
    BY <1>2 DEF BInv, TypeOK, Budget, EndsUnreported, Ends
  <2> QED
    BY <1>2, <2>1, LeaveCounted DEF BInv, EndsUnreported
<1>3. CASE Reset
  <2>1. TypeOK' /\ Budget'
    BY <1>3, BreakerAssumption DEF BInv, TypeOK, Budget, Reset
  <2> QED
    BY <1>3, <2>1, EmptyCounted DEF BInv, Reset
<1>4. CASE ForceOpen
  <2>a. elapsed' \in BOOLEAN /\ cooling' \in BOOLEAN
    BY <1>4, Zenon DEF BInv, TypeOK, ForceOpen
  <2>b. /\ state' = "open" /\ UNCHANGED <<failures, call>>
        /\ inFlight' = 0 /\ probe' = {} /\ admin' \in 0 .. MaxAdmin
    BY <1>4, BreakerAssumption DEF BInv, TypeOK, ForceOpen
  <2>1. TypeOK' /\ Budget'
    BY <2>a, <2>b, BreakerAssumption DEF BInv, TypeOK, Budget
  <2> QED
    BY <1>4, <2>1, EmptyCounted DEF BInv, ForceOpen
<1>5. CASE RecoveryTimeout \/ CoolingEnds
  BY <1>5 DEF BInv, TypeOK, Budget, ProbesAreCounted, RecoveryTimeout, CoolingEnds
<1>7. CASE GetState
  <2>1. TypeOK' /\ Budget'
    BY <1>7, BreakerAssumption DEF BInv, TypeOK, Budget, GetState
  <2> QED
    BY <1>7, <2>1 DEF BInv, ProbesAreCounted, GetState
<1>6. CASE UNCHANGED vars
  BY <1>6 DEF BInv, TypeOK, Budget, ProbesAreCounted, vars
<1> QED
  BY <1>1, <1>2, <1>3, <1>4, <1>5, <1>6, <1>7, AllowKeeps, FailureKeeps
     DEF Next, Answer, CallFails

(* The invariant of the breaker holds from the first call on.                *)
LEMMA BreakerInvariant == Spec => []BInv
<1>1. Init => BInv
  <2> SUFFICES ASSUME Init PROVE BInv
    OBVIOUS
  <2>1. elapsed \in BOOLEAN /\ cooling \in BOOLEAN
    BY Zenon DEF Init
  <2>2. /\ state = "none" /\ failures \in 0 .. FailureThreshold
        /\ inFlight \in 0 .. HalfOpenMaxCalls /\ admin \in 0 .. MaxAdmin
        /\ call \in [Caller -> {"idle", "calling", "streaming"}] /\ probe \subseteq Caller
        /\ failures < FailureThreshold
    BY BreakerAssumption DEF Init
  <2>3. TypeOK /\ Budget
    BY <2>1, <2>2 DEF TypeOK, Budget
  <2>4. ProbesAreCounted
    BY FS_EmptySet, BreakerAssumption DEF Init, ProbesAreCounted
  <2> QED
    BY <2>3, <2>4 DEF BInv
<1> QED
  BY <1>1, NextKeeps, PTL DEF Spec

(* A closed breaker always has room for one more failure, however late the   *)
(* answers of calls admitted before it opened come in (_on_success).         *)
THEOREM BreakerClosesWithBudget == Spec => []ClosedHasBudget
<1>1. BInv => ClosedHasBudget
  BY DEF BInv, Budget, ClosedHasBudget
<1> QED
  BY <1>1, BreakerInvariant, PTL

(* A half-open breaker never lets more than half_open_max_calls probes wait, *)
(* for any number of callers (the capacity test of _allow_call).             *)
THEOREM BreakerCountsProbes == Spec => []ProbesAreCounted
<1>1. BInv => ProbesAreCounted
  BY DEF BInv
<1> QED
  BY <1>1, BreakerInvariant, PTL

(* Both together, as the run checks them.                                    *)
THEOREM BreakerIsAlwaysSound == Spec => []BreakerIsSound
<1>1. ClosedHasBudget /\ ProbesAreCounted => BreakerIsSound
  BY DEF BreakerIsSound
<1> QED
  BY <1>1, BreakerClosesWithBudget, BreakerCountsProbes, PTL

-----------------------------------------------------------------------------
(* The knowledge graph of a book                                                *)
(* What an extraction has written when it has come to a phase, but for what the *)
(* job of another book has swept away since. A complete book has no job that could undo it: the *)
(* request for one marks it in progress first, and a job that was delivered     *)
(* again after its end is told apart by "spoilt".                               *)
KPhase == {"free", "queued", "cleared", "upserted", "written", "unsaved", "queuing", "ended", "kept"}
GraphTypes ==
  /\ kgraph \in [DBook -> {"idle", "in_progress", "complete", "partial", "failed"}]
  /\ kjob \in [DBook -> KPhase]
  /\ mined \in [DBook -> SUBSET EntityKind] /\ present \in [DBook -> SUBSET EntityKind]
  /\ swept \in [DBook -> SUBSET EntityKind]
WrittenSoFar(b) ==
  b \notin spoilt =>
    /\ kjob[b] \in {"upserted", "written", "queuing"} => Saved(b)
    /\ kjob[b] \in {"written", "queuing"} => Joined(b)
    /\ kjob[b] = "queuing" => InLine(b)
CompleteRests(b) ==
  kgraph[b] = "complete" /\ b \notin spoilt =>
    /\ kjob[b] \in {"free", "kept", "ended"}
    /\ kjob[b] = "free" => b \notin toExtract
    /\ Saved(b) /\ Joined(b) /\ InLine(b)
GraphInv == GraphTypes /\ \A b \in DBook : WrittenSoFar(b) /\ CompleteRests(b)

LEMMA GraphInitHolds == DerivedInit => GraphInv
  BY DEF DerivedInit, GraphInv, GraphTypes, KPhase, WrittenSoFar, CompleteRests, Saved, Joined, InLine

LEMMA GraphRequestKeeps ==
  ASSUME GraphInv, NEW c \in DBook,
         ReprocessGraph(c) \/ EnqueuesGraph(c) \/ GraphEnqueueFails(c) \/ WatchdogGraph(c)
  PROVE  GraphInv'
<1>1. CASE ReprocessGraph(c)
  BY <1>1 DEF ReprocessGraph, neoVars, GraphInv, GraphTypes, KPhase, WrittenSoFar,
          CompleteRests, Saved, Joined, InLine
<1>2. CASE EnqueuesGraph(c)
  BY <1>2 DEF EnqueuesGraph, Queue, neoVars, GraphInv, GraphTypes, KPhase, WrittenSoFar,
          CompleteRests, Saved, Joined, InLine
<1>3. CASE GraphEnqueueFails(c)
  BY <1>3 DEF GraphEnqueueFails, neoVars, GraphInv, GraphTypes, KPhase, WrittenSoFar,
          CompleteRests, Saved, Joined, InLine
<1>4. CASE WatchdogGraph(c)
  BY <1>4 DEF WatchdogGraph, neoVars, GraphInv, GraphTypes, KPhase, WrittenSoFar,
          CompleteRests, Saved, Joined, InLine
<1> QED
  BY <1>1, <1>2, <1>3, <1>4

LEMMA GraphWriteKeeps ==
  ASSUME GraphInv, NEW c \in DBook,
         KJobClears(c) \/ KJobUpserts(c) \/ KJobConnects(c) \/ KJobSaveFails(c)
  PROVE  GraphInv'
<1>1. CASE KJobClears(c)
  BY <1>1 DEF KJobClears, Orphans, KMoves, GraphInv, GraphTypes, KPhase, WrittenSoFar,
          CompleteRests, Saved, Joined, InLine
<1>2. CASE KJobUpserts(c)
  BY <1>2 DEF KJobUpserts, KMoves, neoVars, GraphInv, GraphTypes, KPhase, WrittenSoFar,
          CompleteRests, Saved, Joined, InLine
<1>3. CASE KJobConnects(c)
  BY <1>3 DEF KJobConnects, KMoves, neoVars, GraphInv, GraphTypes, KPhase, WrittenSoFar,
          CompleteRests, Saved, Joined, InLine
<1>4. CASE KJobSaveFails(c)
  BY <1>4 DEF KJobSaveFails, SaveError, KMoves, neoVars, GraphInv, GraphTypes, KPhase, WrittenSoFar,
          CompleteRests, Saved, Joined, InLine
<1> QED
  BY <1>1, <1>2, <1>3, <1>4

LEMMA GraphJobEndKeeps ==
  ASSUME GraphInv, NEW c \in DBook,
         \/ KJobSkips(c) \/ KJobQueuesEntities(c) \/ KJobEnds(c)
         \/ KResultIsStored(c) \/ KJobFails(c) \/ KResultExpires(c)
  PROVE  GraphInv'
<1>1. CASE KJobSkips(c)
  BY <1>1 DEF KJobSkips, KMoves, neoVars, GraphInv, GraphTypes, KPhase, WrittenSoFar,
          CompleteRests, Saved, Joined, InLine
<1>2. CASE KJobQueuesEntities(c)
  BY <1>2 DEF KJobQueuesEntities, KMoves, neoVars, GraphInv, GraphTypes, KPhase, WrittenSoFar,
          CompleteRests, Saved, Joined, InLine
<1>3. CASE KJobEnds(c)
  BY <1>3 DEF KJobEnds, KMoves, neoVars, GraphInv, GraphTypes, KPhase, WrittenSoFar,
          CompleteRests, Saved, Joined, InLine
<1>4. CASE KResultIsStored(c)
  BY <1>4 DEF KResultIsStored, KMoves, neoVars, GraphInv, GraphTypes, KPhase, WrittenSoFar,
          CompleteRests, Saved, Joined, InLine
<1>5. CASE KJobFails(c)
  BY <1>5 DEF KJobFails, AtKWork, neoVars, GraphInv, GraphTypes, KPhase, WrittenSoFar,
          CompleteRests, Saved, Joined, InLine
<1>6. CASE KResultExpires(c)
  BY <1>6 DEF KResultExpires, KMoves, neoVars, GraphInv, GraphTypes, KPhase, WrittenSoFar,
          CompleteRests, Saved, Joined, InLine
<1> QED
  BY <1>1, <1>2, <1>3, <1>4, <1>5, <1>6

LEMMA SummariesLeaveGraphs ==
  ASSUME NEW c \in DBook, SummaryNext(c)
  PROVE  UNCHANGED graphVars
  BY DEF SummaryNext, SummaryWork, BecomesReady, BackToPipeline, ReprocessSummary, EnqueuesSummary,
         EnqueueIsLost, SummaryScanner, SJobStarts, SJobWrites, SResultExpires, SJobFails

LEMMA GraphNextKeeps == GraphInv /\ [DerivedNext]_derivedVars => GraphInv'
<1> SUFFICES ASSUME GraphInv, [DerivedNext]_derivedVars PROVE GraphInv'
  OBVIOUS
<1>1. ASSUME UNCHANGED graphVars PROVE GraphInv'
  BY <1>1 DEF graphVars, neoVars, GraphInv, GraphTypes, WrittenSoFar, CompleteRests,
         Saved, Joined, InLine
<1>2. ASSUME NEW c \in DBook, SummaryNext(c) PROVE GraphInv'
  BY <1>1, <1>2, SummariesLeaveGraphs
<1>3. ASSUME NEW c \in DBook, GraphNext(c) PROVE GraphInv'
  BY <1>3, GraphRequestKeeps, GraphWriteKeeps, GraphJobEndKeeps DEF GraphNext
<1>4. CASE UNCHANGED derivedVars
  BY <1>1, <1>4 DEF derivedVars
<1> QED
  BY <1>2, <1>3, <1>4 DEF DerivedNext

(* A book whose graph is called complete has it whole, for any books, requests, *)
(* crashes and failures (knowledge_graph_job).                                  *)
THEOREM CompleteGraphsAreWhole == DerivedSpec => []GraphIsWhole
<1>1. GraphInv => GraphIsWhole
  BY DEF GraphInv, CompleteRests, GraphIsWhole
<1> QED
  BY <1>1, GraphInitHolds, GraphNextKeeps, PTL DEF DerivedSpec

-----------------------------------------------------------------------------
(* The resolution of entities.                                                  *)
(* What a job has left is of its list, and a job that does not run has       *)
(* nothing in hand.                                                          *)
GJobShape ==
  [st : {"free", "queued", "running", "kept"}, list : SUBSET Entity, todo : SUBSET Entity,
   cur : SUBSET Entity, cands : SUBSET Entity]
GJobFits ==
  /\ gjob \in GJobShape /\ gjob.todo \cup gjob.cur \subseteq gjob.list
  /\ gjob.st # "running" => gjob.todo = {} /\ gjob.cur = {}
RowFits == DOMAIN row = Entity /\ handed \subseteq Entity /\ stranded \subseteq Entity

(* While no entity was in hand twice, a merge has its two to itself, and the *)
(* one that stays is there when the other goes.                              *)
MergeShape ==
  [phase : {"free", "checked", "moved", "cleaned"}, keep : SUBSET Entity, remove : SUBSET Entity,
   children : SUBSET Entity]
HoldsTwo(x) ==
  merge[x].phase = "checked" =>
    \E k, r \in Entity : merge[x].keep = {k} /\ merge[x].remove = {r} /\ k # r /\ k \in alive
MergesAlone ==
  /\ \A x \in Merger : HoldsTwo(x)
  /\ \A x, y \in Merger : x # y => InMerge(x) \cap InMerge(y) = {}
EntitiesFit == alive \subseteq Entity /\ into \in [Entity -> Entity] /\ merge \in [Merger -> MergeShape]

RowInv == GJobFits /\ RowFits /\ RowIsClaimed
AbsorbInv == EntitiesFit /\ (crossed = {} => MergesAlone) /\ SurvivorLives

-----------------------------------------------------------------------------
LEMMA MarksRows ==
  ASSUME NEW E, NEW v, Marks(E, v), DOMAIN row = Entity
  PROVE  /\ DOMAIN row' = Entity
         /\ \A e \in Entity : row'[e] = IF e \in E /\ row[e] # "none" THEN v ELSE row[e]
BY DEF Marks

(* Nothing is newly claimed, and what was claimed stays in hand.             *)
LEMMA ClaimsStay ==
  ASSUME RowIsClaimed, \A e \in Entity : row'[e] = "in_progress" => row[e] = "in_progress",
         \A e \in Entity : e \in AtWork /\ row'[e] = "in_progress" => e \in AtWork' \cup stranded',
         stranded \subseteq stranded'
  PROVE  RowIsClaimed'
BY DEF RowIsClaimed

LEMMA ScannerKeeps ==
  ASSUME RowInv, (\E E \in SUBSET Entity : ScanClaims(E)) \/ ScanEnqueues \/ ScanDies \/ IdIsFree
  PROVE  RowInv'
<1>1. GJobFits /\ RowFits /\ RowIsClaimed BY DEF RowInv
<1>2. ASSUME NEW E \in SUBSET Entity, ScanClaims(E) PROVE RowInv'
  <2>1. /\ handed = {} /\ Marks(E, "in_progress") /\ handed' = E /\ stranded' = stranded \ E /\ gjob' = gjob
    BY <1>2 DEF ScanClaims
  <2>2. /\ DOMAIN row' = Entity
        /\ \A e \in Entity : row'[e] = IF e \in E /\ row[e] # "none" THEN "in_progress" ELSE row[e]
    BY <1>1, <2>1, MarksRows DEF RowFits
  <2>3. RowIsClaimed' BY <1>1, <2>1, <2>2 DEF RowIsClaimed, AtWork
  <2>4. RowFits' BY <1>1, <2>1, <2>2 DEF RowFits
  <2>5. GJobFits' BY <1>1, <2>1 DEF GJobFits
  <2> QED BY <2>3, <2>4, <2>5 DEF RowInv
<1>3. CASE ScanEnqueues
  <2>1. row' = row /\ handed' = {} BY <1>3 DEF ScanEnqueues, rows
  <2>2. CASE gjob.st = "free"
    <3>1. gjob' = [NoGJob EXCEPT !.st = "queued", !.list = handed] /\ stranded' = stranded
      BY <1>3, <2>2 DEF ScanEnqueues
    <3>2. GJobFits' /\ gjob'.st = "queued" /\ gjob'.list = handed
      BY <1>1, <3>1 DEF GJobFits, NoGJob, GJobShape, RowFits
    <3>3. gjob.todo = {} /\ gjob.cur = {} BY <1>1, <2>2 DEF GJobFits
    <3>4. RowIsClaimed' BY <1>1, <2>1, <2>2, <3>1, <3>2, <3>3 DEF RowIsClaimed, AtWork
    <3> QED BY <1>1, <2>1, <3>1, <3>2, <3>4 DEF RowInv, RowFits
  <2>3. CASE gjob.st # "free"
    <3>1. gjob' = gjob /\ stranded' = stranded \cup {e \in handed : row[e] = "in_progress"}
      BY <1>3, <2>3 DEF ScanEnqueues, Strands
    <3>2. RowIsClaimed' BY <1>1, <2>1, <3>1 DEF RowIsClaimed, AtWork
    <3> QED BY <1>1, <2>1, <3>1, <3>2 DEF RowInv, RowFits, GJobFits
  <2> QED BY <2>2, <2>3
<1>4. CASE ScanDies
  <2>1. /\ row' = row /\ handed' = {} /\ gjob' = gjob
        /\ stranded' = stranded \cup {e \in handed : row[e] = "in_progress"}
    BY <1>4 DEF ScanDies, Strands, rows
  <2>2. RowIsClaimed' BY <1>1, <2>1 DEF RowIsClaimed, AtWork
  <2> QED BY <1>1, <2>1, <2>2 DEF RowInv, RowFits, GJobFits
<1>5. CASE IdIsFree
  <2>1. row' = row /\ handed' = handed /\ gjob' = NoGJob /\ stranded' = stranded /\ gjob.st = "kept"
    BY <1>5 DEF IdIsFree, rows
  <2>2. GJobFits' BY <2>1 DEF GJobFits, NoGJob, GJobShape
  <2>3. gjob.todo = {} /\ gjob.cur = {} BY <1>1, <2>1 DEF GJobFits
  <2>4. RowIsClaimed' BY <1>1, <2>1, <2>3 DEF RowIsClaimed, AtWork
  <2> QED BY <1>1, <2>1, <2>2, <2>4 DEF RowInv, RowFits
<1> QED BY <1>2, <1>3, <1>4, <1>5

LEMMA GJobKeeps ==
  ASSUME RowInv, EntitiesFit,
         \/ GJobStarts \/ GJobSucceeds \/ GJobFails \/ GJobEnds \/ GJobBreaks
         \/ \E e \in Entity : GJobTakes(e) \/ GJobLeaves(e) \/ GJobAsksReview(e)
         \/ \E k, r \in Entity : GJobMerges(k, r)
  PROVE  RowInv'
<1>1. GJobFits /\ RowFits /\ RowIsClaimed BY DEF RowInv
<1>2. gjob \in GJobShape BY <1>1 DEF GJobFits
<1>3. CASE GJobStarts
  <2>1. /\ gjob.st = "queued" /\ gjob' = [gjob EXCEPT !.st = "running", !.todo = gjob.list]
        /\ row' = row /\ handed' = handed /\ stranded' = stranded
    BY <1>3 DEF GJobStarts, rows
  <2>2. /\ gjob' \in GJobShape /\ gjob'.st = "running" /\ gjob'.todo = gjob.list /\ gjob'.cur = gjob.cur
        /\ gjob'.list = gjob.list
    BY <1>2, <2>1 DEF GJobShape
  <2>3. GJobFits' BY <1>1, <2>2 DEF GJobFits
  <2>4. RowIsClaimed' BY <1>1, <2>1, <2>2 DEF RowIsClaimed, AtWork, GJobFits
  <2> QED BY <1>1, <2>1, <2>3, <2>4 DEF RowInv, RowFits
<1>4. CASE GJobSucceeds
  <2>1. /\ gjob.st = "running" /\ Marks(gjob.cur, "succeeded") /\ gjob' = [gjob EXCEPT !.cur = {}]
        /\ handed' = handed /\ stranded' = stranded
    BY <1>4 DEF GJobSucceeds
  <2>2. /\ gjob' \in GJobShape /\ gjob'.st = "running" /\ gjob'.todo = gjob.todo /\ gjob'.cur = {}
        /\ gjob'.list = gjob.list
    BY <1>2, <2>1 DEF GJobShape
  <2>3. GJobFits' BY <1>1, <2>2 DEF GJobFits
  <2>4. /\ DOMAIN row' = Entity
        /\ \A e \in Entity : row'[e] = IF e \in gjob.cur /\ row[e] # "none" THEN "succeeded" ELSE row[e]
    BY <1>1, <2>1, MarksRows DEF RowFits
  <2>5. RowIsClaimed' BY <1>1, <2>1, <2>2, <2>4 DEF RowIsClaimed, AtWork
  <2> QED BY <1>1, <2>1, <2>3, <2>4, <2>5 DEF RowInv, RowFits
<1>5. CASE GJobFails
  <2>1. /\ gjob.st = "running" /\ gjob' = [gjob EXCEPT !.cur = {}, !.cands = {}] /\ handed' = handed
        /\ \/ Marks(gjob.cur, "failed") /\ stranded' = stranded
           \/ row' = row /\ stranded' = stranded \cup {e \in gjob.cur : row[e] = "in_progress"}
    BY <1>5 DEF GJobFails, FailsRow, Strands
  <2>2. /\ gjob' \in GJobShape /\ gjob'.st = "running" /\ gjob'.todo = gjob.todo /\ gjob'.cur = {}
        /\ gjob'.list = gjob.list
    BY <1>2, <2>1 DEF GJobShape
  <2>3. GJobFits' BY <1>1, <2>2 DEF GJobFits
  <2>4. CASE Marks(gjob.cur, "failed") /\ stranded' = stranded
    <3>1. /\ DOMAIN row' = Entity
          /\ \A e \in Entity : row'[e] = IF e \in gjob.cur /\ row[e] # "none" THEN "failed" ELSE row[e]
      BY <1>1, <2>4, MarksRows DEF RowFits
    <3>2. RowIsClaimed' BY <1>1, <2>1, <2>2, <2>4, <3>1 DEF RowIsClaimed, AtWork
    <3> QED BY <1>1, <2>1, <2>3, <2>4, <3>1, <3>2 DEF RowInv, RowFits
  <2>5. CASE row' = row /\ stranded' = stranded \cup {e \in gjob.cur : row[e] = "in_progress"}
    <3>1. RowIsClaimed' BY <1>1, <2>1, <2>2, <2>5 DEF RowIsClaimed, AtWork
    <3>2. gjob.cur \subseteq Entity BY <1>2 DEF GJobShape
    <3> QED BY <1>1, <2>1, <2>3, <2>5, <3>1, <3>2 DEF RowInv, RowFits
  <2> QED BY <2>1, <2>4, <2>5
<1>6. CASE GJobEnds
  <2>1. /\ gjob.st = "running" /\ gjob.todo = {} /\ gjob.cur = {} /\ gjob' = [NoGJob EXCEPT !.st = "kept"]
        /\ row' = row /\ handed' = handed /\ stranded' = stranded
    BY <1>6 DEF GJobEnds, rows
  <2>2. GJobFits' /\ gjob'.todo = {} /\ gjob'.cur = {} BY <2>1 DEF GJobFits, NoGJob, GJobShape
  <2>3. RowIsClaimed' BY <1>1, <2>1, <2>2 DEF RowIsClaimed, AtWork
  <2> QED BY <1>1, <2>1, <2>2, <2>3 DEF RowInv, RowFits
<1>7. CASE GJobBreaks
  <2>1. /\ gjob.st = "running" /\ row' = row /\ handed' = handed
        /\ \/ gjob' = [NoGJob EXCEPT !.st = "kept"] /\ stranded' = stranded \cup {e \in gjob.list : row[e] = "in_progress"}
           \/ gjob' = [NoGJob EXCEPT !.st = "queued", !.list = gjob.list] /\ stranded' = stranded
    BY <1>7 DEF GJobBreaks, Strands, rows
  <2>2. gjob.list \subseteq Entity BY <1>2 DEF GJobShape
  <2>3. CASE gjob' = [NoGJob EXCEPT !.st = "kept"] /\ stranded' = stranded \cup {e \in gjob.list : row[e] = "in_progress"}
    <3>1. GJobFits' BY <2>3 DEF GJobFits, NoGJob, GJobShape
    <3>2. RowIsClaimed' BY <1>1, <2>1, <2>3 DEF RowIsClaimed, AtWork, GJobFits
    <3> QED BY <1>1, <2>1, <2>2, <2>3, <3>1, <3>2 DEF RowInv, RowFits
  <2>4. CASE gjob' = [NoGJob EXCEPT !.st = "queued", !.list = gjob.list] /\ stranded' = stranded
    <3>1. GJobFits' /\ gjob'.st = "queued" /\ gjob'.list = gjob.list
      BY <2>2, <2>4 DEF GJobFits, NoGJob, GJobShape
    <3>2. RowIsClaimed' BY <1>1, <2>1, <2>4, <3>1 DEF RowIsClaimed, AtWork, GJobFits
    <3> QED BY <1>1, <2>1, <2>4, <3>1, <3>2 DEF RowInv, RowFits
  <2> QED BY <2>1, <2>3, <2>4
<1>8. ASSUME NEW e \in Entity, GJobTakes(e) PROVE RowInv'
  <2>1. /\ gjob.st = "running" /\ gjob.cur = {} /\ e \in gjob.todo /\ handed' = handed /\ stranded' = stranded
        /\ \/ /\ \E C \in SUBSET {c \in alive \ resolving : {e, c} \in Alike} :
                   gjob' = [gjob EXCEPT !.todo = @ \ {e}, !.cur = {e}, !.cands = C]
              /\ row' = row /\ e \in alive
           \/ gjob' = [gjob EXCEPT !.todo = @ \ {e}] /\ Marks({e}, "failed")
    BY <1>8 DEF GJobTakes
  <2>2. ASSUME NEW C \in SUBSET alive, alive \subseteq Entity, row' = row,
               gjob' = [gjob EXCEPT !.todo = @ \ {e}, !.cur = {e}, !.cands = C]
        PROVE  RowInv'
    <3>1. /\ gjob' \in GJobShape /\ gjob'.st = "running" /\ gjob'.todo = gjob.todo \ {e} /\ gjob'.cur = {e}
          /\ gjob'.list = gjob.list
      BY <1>2, <2>1, <2>2 DEF GJobShape
    <3>2. GJobFits' BY <1>1, <2>1, <3>1 DEF GJobFits
    <3>3. RowIsClaimed' BY <1>1, <2>1, <2>2, <3>1 DEF RowIsClaimed, AtWork
    <3> QED BY <1>1, <2>1, <2>2, <3>2, <3>3 DEF RowInv, RowFits
  <2>3. CASE gjob' = [gjob EXCEPT !.todo = @ \ {e}] /\ Marks({e}, "failed")
    <3>1. /\ gjob' \in GJobShape /\ gjob'.st = "running" /\ gjob'.todo = gjob.todo \ {e} /\ gjob'.cur = gjob.cur
          /\ gjob'.list = gjob.list
      BY <1>2, <2>1, <2>3 DEF GJobShape
    <3>2. GJobFits' BY <1>1, <2>1, <3>1 DEF GJobFits
    <3>3. /\ DOMAIN row' = Entity
          /\ \A d \in Entity : row'[d] = IF d \in {e} /\ row[d] # "none" THEN "failed" ELSE row[d]
      BY <1>1, <2>3, MarksRows DEF RowFits
    <3>4. RowIsClaimed' BY <1>1, <2>1, <3>1, <3>3 DEF RowIsClaimed, AtWork
    <3> QED BY <1>1, <2>1, <3>2, <3>3, <3>4 DEF RowInv, RowFits
  <2> QED BY <2>1, <2>2, <2>3 DEF EntitiesFit
<1>9. ASSUME NEW c \in Entity, GJobLeaves(c) \/ \E k \in Entity : GJobMerges(k, c) PROVE RowInv'
  <2>1. /\ gjob.st = "running" /\ gjob' = [gjob EXCEPT !.cands = @ \ {c}]
        /\ row' = row /\ handed' = handed /\ stranded' = stranded
    BY <1>9 DEF GJobLeaves, GJobMerges, rows
  <2>2. /\ gjob' \in GJobShape /\ gjob'.st = "running" /\ gjob'.todo = gjob.todo /\ gjob'.cur = gjob.cur
        /\ gjob'.list = gjob.list
    BY <1>2, <2>1 DEF GJobShape
  <2>3. GJobFits' BY <1>1, <2>2 DEF GJobFits
  <2>4. RowIsClaimed' BY <1>1, <2>1, <2>2 DEF RowIsClaimed, AtWork
  <2> QED BY <1>1, <2>1, <2>3, <2>4 DEF RowInv, RowFits
<1>10. ASSUME NEW c \in Entity, GJobAsksReview(c) PROVE RowInv'
  <2>1. /\ gjob.st = "running" /\ Marks(gjob.cur, "needs_review") /\ gjob' = [gjob EXCEPT !.cur = {}, !.cands = {}]
        /\ handed' = handed /\ stranded' = stranded
    BY <1>10 DEF GJobAsksReview
  <2>2. /\ gjob' \in GJobShape /\ gjob'.st = "running" /\ gjob'.todo = gjob.todo /\ gjob'.cur = {}
        /\ gjob'.list = gjob.list
    BY <1>2, <2>1 DEF GJobShape
  <2>3. GJobFits' BY <1>1, <2>2 DEF GJobFits
  <2>4. /\ DOMAIN row' = Entity
        /\ \A e \in Entity : row'[e] = IF e \in gjob.cur /\ row[e] # "none" THEN "needs_review" ELSE row[e]
    BY <1>1, <2>1, MarksRows DEF RowFits
  <2>5. RowIsClaimed' BY <1>1, <2>1, <2>2, <2>4 DEF RowIsClaimed, AtWork
  <2> QED BY <1>1, <2>1, <2>3, <2>4, <2>5 DEF RowInv, RowFits
<1> QED BY <1>3, <1>4, <1>5, <1>6, <1>7, <1>8, <1>9, <1>10

(* Merges and administrators mark rows, and claim none.                      *)
LEMMA MergeKeepsRows ==
  ASSUME RowInv,
         \/ \E a \in Admin, k, r \in Entity : AdminMerges(a, k, r)
         \/ \E x \in Merger : \/ MergeEnds(x) \/ AdminMergeFails(x)
                             \/ \E k, r \in Entity : MergeMoves(x, k, r)
                             \/ \E c \in Entity : MergeCleans(x, c) \/ MergeRequeues(x, c)
         \/ \E e \in Entity : Unmerges(e)
  PROVE  RowInv'
<1>1. GJobFits /\ RowFits /\ RowIsClaimed BY DEF RowInv
<1>2. handed' = handed /\ gjob' = gjob /\ stranded' = stranded
  BY DEF AdminMerges, MergeEnds, AdminMergeFails, MergeMoves, MergeCleans, MergeRequeues, Unmerges
<1>3. \/ row' = row
      \/ \E c \in Entity, v \in {"none", "needs_review", "idle"} : Marks({c}, v)
  BY DEF AdminMerges, MergeEnds, AdminMergeFails, MergeMoves, MergeCleans, MergeRequeues, Unmerges, rows
<1>4. DOMAIN row' = Entity /\ \A e \in Entity : row'[e] = "in_progress" => row[e] = "in_progress"
  <2>1. CASE row' = row BY <1>1, <2>1 DEF RowFits
  <2>2. ASSUME NEW c \in Entity, NEW v \in {"none", "needs_review", "idle"}, Marks({c}, v)
        PROVE  DOMAIN row' = Entity /\ \A e \in Entity : row'[e] = "in_progress" => row[e] = "in_progress"
    <3>1. /\ DOMAIN row' = Entity
          /\ \A e \in Entity : row'[e] = IF e \in {c} /\ row[e] # "none" THEN v ELSE row[e]
      BY <1>1, <2>2, MarksRows DEF RowFits
    <3> QED BY <3>1
  <2> QED BY <1>3, <2>1, <2>2
<1>5. RowIsClaimed' BY <1>1, <1>2, <1>4 DEF RowIsClaimed, AtWork
<1> QED BY <1>1, <1>2, <1>4, <1>5 DEF RowInv, RowFits, GJobFits

-----------------------------------------------------------------------------
(* Who absorbed whom.                                                        *)
LEMMA MergeIs ==
  ASSUME merge \in [Merger -> MergeShape], NEW x \in Merger, NEW m \in MergeShape, merge' = [merge EXCEPT ![x] = m]
  PROVE  /\ merge' \in [Merger -> MergeShape] /\ merge'[x] = m
         /\ \A y \in Merger : y # x => merge'[y] = merge[y]
OBVIOUS

(* A merge that has what it had in hand, or nothing.                         *)
LEMMA StaysAlone ==
  ASSUME EntitiesFit, crossed = {} => MergesAlone, crossed' = crossed, NEW x \in Merger, NEW m \in MergeShape,
         merge' = [merge EXCEPT ![x] = m], m.phase # "checked",
         m.keep \cup m.remove \subseteq InMerge(x),
         \A y \in Merger : y # x => (crossed = {} => (HoldsTwo(y) => HoldsTwo(y)'))
  PROVE  merge' \in [Merger -> MergeShape] /\ (crossed' = {} => MergesAlone')
<1>1. /\ merge' \in [Merger -> MergeShape] /\ merge'[x] = m
      /\ \A y \in Merger : y # x => merge'[y] = merge[y]
  BY MergeIs DEF EntitiesFit
<1>2. InMerge(x)' \subseteq InMerge(x) /\ \A y \in Merger : y # x => InMerge(y)' = InMerge(y)
  BY <1>1 DEF InMerge
<1>3. ASSUME crossed' = {} PROVE MergesAlone'
  <2>1. MergesAlone BY <1>3
  <2>2. HoldsTwo(x)' BY <1>1 DEF HoldsTwo
  <2>3. \A y \in Merger : HoldsTwo(y)' BY <1>3, <2>1, <2>2 DEF MergesAlone
  <2>4. \A y, z \in Merger : y # z => InMerge(y)' \cap InMerge(z)' = {} BY <1>2, <2>1 DEF MergesAlone
  <2> QED BY <2>3, <2>4 DEF MergesAlone
<1> QED BY <1>1, <1>3

LEMMA SameEntities ==
  ASSUME SurvivorLives, alive' = alive, into' = into, crossed \subseteq crossed'
  PROVE  SurvivorLives'
BY DEF SurvivorLives

LEMMA CheckKeeps ==
  ASSUME AbsorbInv, NEW x \in Merger, NEW k \in Entity, NEW r \in Entity, MergeChecks(x, k, r),
         alive' = alive, into' = into
  PROVE  AbsorbInv'
<1>1. EntitiesFit /\ (crossed = {} => MergesAlone) /\ SurvivorLives BY DEF AbsorbInv
<1>2. PICK C \in SUBSET (Child \cap alive) :
        merge' = [merge EXCEPT ![x] = [phase |-> "checked", keep |-> {k}, remove |-> {r}, children |-> C]]
  BY DEF MergeChecks
<1> DEFINE m == [phase |-> "checked", keep |-> {k}, remove |-> {r}, children |-> C]
<1>3. m \in MergeShape /\ m.phase = "checked" /\ m.keep = {k} /\ m.remove = {r}
  BY <1>1, <1>2 DEF MergeShape, EntitiesFit
<1> HIDE DEF m
<1>4. /\ merge' \in [Merger -> MergeShape] /\ merge'[x] = m
      /\ \A y \in Merger : y # x => merge'[y] = merge[y]
  <2>1. merge' = [merge EXCEPT ![x] = m] BY <1>2 DEF m
  <2> QED BY <1>1, <1>3, <2>1, MergeIs DEF EntitiesFit
<1>5. crossed' = crossed \cup ({k, r} \cap UNION {InMerge(y) : y \in Merger \ {x}}) \cup ({k} \cap {r})
  BY DEF MergeChecks
<1>6. ASSUME crossed' = {} PROVE MergesAlone'
  <2>1. crossed = {} /\ k # r /\ \A y \in Merger \ {x} : {k, r} \cap InMerge(y) = {}
    <3>1. /\ crossed = {} /\ {k} \cap {r} = {}
          /\ {k, r} \cap UNION {InMerge(y) : y \in Merger \ {x}} = {}
      BY <1>5, <1>6
    <3>2. \A y \in Merger \ {x} : {k, r} \cap InMerge(y) = {} BY <3>1
    <3>3. k # r BY <3>1
    <3> QED BY <3>1, <3>2, <3>3
  <2>2. InMerge(x)' = {k, r} /\ \A y \in Merger : y # x => InMerge(y)' = InMerge(y)
    BY <1>3, <1>4 DEF InMerge
  <2>3. HoldsTwo(x)' BY <1>3, <1>4, <2>1 DEF HoldsTwo, MergeChecks
  <2>4. \A y \in Merger : y # x => HoldsTwo(y)' BY <1>1, <1>4, <2>1 DEF HoldsTwo, MergesAlone
  <2>5. \A y, z \in Merger : y # z => InMerge(y)' \cap InMerge(z)' = {}
    BY <1>1, <2>1, <2>2 DEF MergesAlone
  <2> QED BY <2>3, <2>4, <2>5 DEF MergesAlone
<1>7. SurvivorLives' BY <1>1, <1>5, SameEntities
<1>8. EntitiesFit' BY <1>1, <1>4 DEF EntitiesFit
<1> QED BY <1>6, <1>7, <1>8 DEF AbsorbInv

LEMMA MoveKeeps ==
  ASSUME AbsorbInv, NEW x \in Merger, NEW k \in Entity, NEW r \in Entity, MergeMoves(x, k, r)
  PROVE  AbsorbInv'
<1>1. EntitiesFit /\ (crossed = {} => MergesAlone) /\ SurvivorLives BY DEF AbsorbInv
<1>2. /\ merge[x].phase = "checked" /\ merge[x].keep = {k} /\ merge[x].remove = {r}
      /\ alive' = alive \ {r} /\ into' = [into EXCEPT ![r] = k] /\ crossed' = crossed
      /\ merge' = [merge EXCEPT ![x].phase = "moved"]
  BY DEF MergeMoves, NeoMerges
<1>3. PICK m : m = [merge[x] EXCEPT !.phase = "moved"] OBVIOUS
<1>4. merge[x] \in MergeShape BY <1>1 DEF EntitiesFit
<1>5. m \in MergeShape /\ m.phase = "moved" /\ m.keep = merge[x].keep /\ m.remove = merge[x].remove
  BY <1>3, <1>4 DEF MergeShape
<1>6. merge' = [merge EXCEPT ![x] = m] BY <1>2, <1>3
<1>7. m.keep \cup m.remove \subseteq InMerge(x) BY <1>5 DEF InMerge
<1>8. ASSUME NEW y \in Merger, y # x, crossed = {}, HoldsTwo(y) PROVE HoldsTwo(y)'
  <2>1. merge'[y] = merge[y] BY <1>1, <1>5, <1>6, <1>8, MergeIs DEF EntitiesFit
  <2>2. InMerge(x) \cap InMerge(y) = {} /\ r \in InMerge(x) BY <1>1, <1>2, <1>8 DEF MergesAlone, InMerge
  <2>3. \A l : merge[y].keep = {l} => l # r BY <2>2 DEF InMerge
  <2> QED BY <1>2, <1>8, <2>1, <2>3 DEF HoldsTwo
<1>9. merge' \in [Merger -> MergeShape] /\ (crossed' = {} => MergesAlone')
  BY <1>1, <1>2, <1>5, <1>6, <1>7, <1>8, StaysAlone
<1>10. EntitiesFit' BY <1>1, <1>2, <1>9 DEF EntitiesFit
<1>11. ASSUME crossed' = {}, NEW S \in SUBSET (Entity \ alive'), S # {} PROVE \E e \in S : into'[e] \notin S
  <2>1. MergesAlone BY <1>1, <1>2, <1>11
  <2>2. k # r /\ k \in alive BY <1>2, <2>1 DEF MergesAlone, HoldsTwo
  <2>3. \A e \in Entity : into'[e] = IF e = r THEN k ELSE into[e] BY <1>1, <1>2 DEF EntitiesFit
  <2>4. CASE r \in S BY <1>2, <1>11, <2>2, <2>3, <2>4
  <2>5. CASE r \notin S
    <3>1. S \in SUBSET (Entity \ alive) BY <1>2, <1>11, <2>5
    <3>2. PICK e \in S : into[e] \notin S BY <1>1, <1>2, <1>11, <3>1 DEF SurvivorLives
    <3> QED BY <1>11, <2>3, <2>5, <3>2
  <2> QED BY <2>4, <2>5
<1>12. SurvivorLives' BY <1>11 DEF SurvivorLives
<1> QED BY <1>9, <1>10, <1>12 DEF AbsorbInv

LEMMA UnmergeKeeps ==
  ASSUME AbsorbInv, NEW r \in Entity, Unmerges(r)
  PROVE  AbsorbInv'
<1>1. EntitiesFit /\ (crossed = {} => MergesAlone) /\ SurvivorLives BY DEF AbsorbInv
<1>2. /\ alive' = alive \cup {r} /\ into' = [into EXCEPT ![r] = r] /\ crossed' = crossed /\ merge' = merge
  BY DEF Unmerges
<1>3. crossed' = {} => MergesAlone'
  <2>1. ASSUME MergesAlone PROVE MergesAlone'
    <3>1. \A x \in Merger : HoldsTwo(x)' BY <1>2, <2>1 DEF MergesAlone, HoldsTwo
    <3>2. \A x, y \in Merger : x # y => InMerge(x)' \cap InMerge(y)' = {} BY <1>2, <2>1 DEF MergesAlone, InMerge
    <3> QED BY <3>1, <3>2 DEF MergesAlone
  <2> QED BY <1>1, <1>2, <2>1
<1>4. ASSUME crossed' = {}, NEW S \in SUBSET (Entity \ alive'), S # {} PROVE \E e \in S : into'[e] \notin S
  <2>1. r \notin S /\ S \in SUBSET (Entity \ alive) BY <1>2, <1>4
  <2>2. PICK e \in S : into[e] \notin S BY <1>1, <1>2, <1>4, <2>1 DEF SurvivorLives
  <2>3. e # r /\ e \in Entity BY <1>4, <2>1
  <2>4. into'[e] = into[e] BY <1>1, <1>2, <2>3 DEF EntitiesFit
  <2> QED BY <2>2, <2>4
<1>5. SurvivorLives' BY <1>4 DEF SurvivorLives
<1>6. EntitiesFit' BY <1>1, <1>2 DEF EntitiesFit
<1> QED BY <1>3, <1>5, <1>6 DEF AbsorbInv

LEMMA MergeGoesKeeps ==
  ASSUME AbsorbInv, NEW x \in Merger, NEW m \in MergeShape, merge' = [merge EXCEPT ![x] = m], m.phase # "checked",
         m.keep \cup m.remove \subseteq InMerge(x), alive' = alive, into' = into, crossed' = crossed
  PROVE  AbsorbInv'
<1>1. EntitiesFit /\ (crossed = {} => MergesAlone) /\ SurvivorLives BY DEF AbsorbInv
<1>2. \A y \in Merger : y # x => merge'[y] = merge[y] BY <1>1, MergeIs DEF EntitiesFit
<1>3. \A y \in Merger : y # x => (HoldsTwo(y) => HoldsTwo(y)') BY <1>2 DEF HoldsTwo
<1>4. merge' \in [Merger -> MergeShape] /\ (crossed' = {} => MergesAlone') BY <1>1, <1>3, StaysAlone
<1>5. SurvivorLives' BY <1>1, SameEntities
<1>6. EntitiesFit' BY <1>1, <1>4 DEF EntitiesFit
<1> QED BY <1>4, <1>5, <1>6 DEF AbsorbInv

LEMMA NothingMerges ==
  ASSUME AbsorbInv, alive' = alive, into' = into, crossed' = crossed, merge' = merge
  PROVE  AbsorbInv'
<1>1. EntitiesFit /\ (crossed = {} => MergesAlone) /\ SurvivorLives BY DEF AbsorbInv
<1>2. MergesAlone => MergesAlone' BY DEF MergesAlone, HoldsTwo, InMerge
<1>3. SurvivorLives' BY <1>1, SameEntities
<1> QED BY <1>1, <1>2, <1>3 DEF AbsorbInv, EntitiesFit

LEMMA JobLeavesGraph ==
  ASSUME AbsorbInv,
         \/ (\E E \in SUBSET Entity : ScanClaims(E)) \/ ScanEnqueues \/ ScanDies \/ IdIsFree
         \/ GJobStarts \/ GJobSucceeds \/ GJobEnds
         \/ \E e \in Entity : GJobTakes(e) \/ GJobLeaves(e) \/ GJobAsksReview(e)
  PROVE  AbsorbInv'
<1>1. alive' = alive /\ into' = into /\ crossed' = crossed /\ merge' = merge
  BY DEF ScanClaims, ScanEnqueues, ScanDies, IdIsFree, GJobStarts, GJobSucceeds, GJobEnds, GJobTakes, GJobLeaves,
         GJobAsksReview, graph
<1> QED BY <1>1, NothingMerges

LEMMA MergeLets ==
  ASSUME AbsorbInv, NEW x \in Merger, alive' = alive, into' = into, crossed' = crossed,
         \/ merge' = [merge EXCEPT ![x] = NoMerge]
         \/ merge' = [merge EXCEPT ![x].phase = "cleaned"]
         \/ merge[x].phase = "cleaned" /\ \E c : merge' = [merge EXCEPT ![x].children = @ \ {c}]
  PROVE  AbsorbInv'
<1>1. merge[x] \in MergeShape BY DEF AbsorbInv, EntitiesFit
<1>2. CASE merge' = [merge EXCEPT ![x] = NoMerge]
  <2>1. PICK m : m = NoMerge OBVIOUS
  <2>2. m \in MergeShape /\ m.phase # "checked" /\ m.keep \cup m.remove \subseteq InMerge(x)
    BY <2>1 DEF NoMerge, MergeShape
  <2>3. merge' = [merge EXCEPT ![x] = m] BY <1>2, <2>1
  <2> QED BY <2>2, <2>3, MergeGoesKeeps
<1>3. CASE merge' = [merge EXCEPT ![x].phase = "cleaned"]
  <2>1. PICK m : m = [merge[x] EXCEPT !.phase = "cleaned"] OBVIOUS
  <2>2. m \in MergeShape /\ m.phase # "checked" /\ m.keep \cup m.remove \subseteq InMerge(x)
    BY <1>1, <2>1 DEF MergeShape, InMerge
  <2>3. merge' = [merge EXCEPT ![x] = m] BY <1>3, <2>1
  <2> QED BY <2>2, <2>3, MergeGoesKeeps
<1>4. ASSUME merge[x].phase = "cleaned", NEW c, merge' = [merge EXCEPT ![x].children = @ \ {c}] PROVE AbsorbInv'
  <2>1. PICK m : m = [merge[x] EXCEPT !.children = @ \ {c}] OBVIOUS
  <2>2. m \in MergeShape /\ m.phase # "checked" /\ m.keep \cup m.remove \subseteq InMerge(x)
    BY <1>1, <1>4, <2>1 DEF MergeShape, InMerge
  <2>3. merge' = [merge EXCEPT ![x] = m] BY <1>4, <2>1
  <2> QED BY <2>2, <2>3, MergeGoesKeeps
<1> QED BY <1>2, <1>3, <1>4

LEMMA ResolutionSteps == RowInv /\ AbsorbInv /\ [ResolutionNext]_gvars => RowInv' /\ AbsorbInv'
<1>1. SUFFICES ASSUME RowInv, AbsorbInv, [ResolutionNext]_gvars PROVE RowInv' /\ AbsorbInv' OBVIOUS
<1>2. "job" \in Merger /\ EntitiesFit BY <1>1 DEF Merger, AbsorbInv
<1>3. CASE (\E E \in SUBSET Entity : ScanClaims(E)) \/ ScanEnqueues \/ ScanDies \/ IdIsFree
  BY <1>1, <1>3, ScannerKeeps, JobLeavesGraph
<1>4. CASE GJobStarts \/ GJobSucceeds \/ GJobEnds \/ \E e \in Entity : GJobTakes(e) \/ GJobLeaves(e) \/ GJobAsksReview(e)
  BY <1>1, <1>2, <1>4, GJobKeeps, JobLeavesGraph
<1>5. CASE GJobFails \/ GJobBreaks
  <2>1. alive' = alive /\ into' = into /\ crossed' = crossed /\ merge' = [merge EXCEPT !["job"] = NoMerge]
    BY <1>5 DEF GJobFails, GJobBreaks, graph
  <2> QED BY <1>1, <1>2, <1>5, <2>1, GJobKeeps, MergeLets
<1>6. ASSUME NEW k \in Entity, NEW r \in Entity, GJobMerges(k, r) PROVE RowInv' /\ AbsorbInv'
  <2>1. MergeChecks("job", k, r) /\ alive' = alive /\ into' = into BY <1>6 DEF GJobMerges, graph
  <2> QED BY <1>1, <1>2, <1>6, <2>1, GJobKeeps, CheckKeeps
<1>7. ASSUME NEW a \in Admin, NEW k \in Entity, NEW r \in Entity, AdminMerges(a, k, r) PROVE RowInv' /\ AbsorbInv'
  <2>1. MergeChecks(a, k, r) /\ alive' = alive /\ into' = into /\ a \in Merger
    BY <1>7 DEF AdminMerges, graph, Merger
  <2> QED BY <1>1, <1>7, <2>1, MergeKeepsRows, CheckKeeps
<1>8. ASSUME NEW x \in Merger, NEW k \in Entity, NEW r \in Entity, MergeMoves(x, k, r) PROVE RowInv' /\ AbsorbInv'
  BY <1>1, <1>8, MergeKeepsRows, MoveKeeps
<1>9. ASSUME NEW e \in Entity, Unmerges(e) PROVE RowInv' /\ AbsorbInv' BY <1>1, <1>9, MergeKeepsRows, UnmergeKeeps
<1>10. ASSUME NEW x \in Merger, MergeEnds(x) \/ AdminMergeFails(x) PROVE RowInv' /\ AbsorbInv'
  <2>1. alive' = alive /\ into' = into /\ crossed' = crossed /\ merge' = [merge EXCEPT ![x] = NoMerge]
    BY <1>10 DEF MergeEnds, AdminMergeFails, graph
  <2> QED BY <1>1, <1>10, <2>1, MergeKeepsRows, MergeLets
<1>11. ASSUME NEW x \in Merger, NEW c \in Entity, MergeCleans(x, c) \/ MergeRequeues(x, c) PROVE RowInv' /\ AbsorbInv'
  <2>1. alive' = alive /\ into' = into /\ crossed' = crossed BY <1>11 DEF MergeCleans, MergeRequeues, graph
  <2>2. \/ merge' = [merge EXCEPT ![x].phase = "cleaned"]
        \/ merge[x].phase = "cleaned" /\ merge' = [merge EXCEPT ![x].children = @ \ {c}]
    BY <1>11 DEF MergeCleans, MergeRequeues
  <2> QED BY <1>1, <1>11, <2>1, <2>2, MergeKeepsRows, MergeLets
<1>12. CASE UNCHANGED gvars
  <2>1. /\ alive' = alive /\ into' = into /\ crossed' = crossed /\ merge' = merge
        /\ row' = row /\ handed' = handed /\ gjob' = gjob /\ stranded' = stranded
    BY <1>12 DEF gvars
  <2>2. RowInv' BY <1>1, <2>1 DEF RowInv, GJobFits, RowFits, RowIsClaimed, AtWork
  <2> QED BY <1>1, <2>1, <2>2, NothingMerges
<1> QED
  BY <1>1, <1>3, <1>4, <1>5, <1>6, <1>7, <1>8, <1>9, <1>10, <1>11, <1>12 DEF ResolutionNext

LEMMA ResolutionStarts == ResolutionInit => RowInv /\ AbsorbInv
<1>1. SUFFICES ASSUME ResolutionInit PROVE RowInv /\ AbsorbInv OBVIOUS
<1>2. /\ alive = Entity /\ into = [e \in Entity |-> e] /\ row = [e \in Entity |-> "idle"]
      /\ handed = {} /\ gjob = NoGJob /\ merge = [x \in Merger |-> NoMerge] /\ stranded = {} /\ crossed = {}
  BY <1>1 DEF ResolutionInit
<1>3. RowInv
  <2>1. GJobFits BY <1>2 DEF GJobFits, GJobShape, NoGJob
  <2>2. RowFits /\ RowIsClaimed BY <1>2 DEF RowFits, RowIsClaimed
  <2> QED BY <2>1, <2>2 DEF RowInv
<1>4. AbsorbInv
  <2>1. NoMerge \in MergeShape /\ NoMerge.phase = "free" /\ NoMerge.keep = {} /\ NoMerge.remove = {}
    BY DEF NoMerge, MergeShape
  <2>2. \A x \in Merger : merge[x] = NoMerge BY <1>2
  <2>3. EntitiesFit BY <1>2, <2>1 DEF EntitiesFit
  <2>4. MergesAlone BY <2>1, <2>2 DEF MergesAlone, HoldsTwo, InMerge
  <2>5. SurvivorLives BY <1>2 DEF SurvivorLives
  <2> QED BY <2>3, <2>4, <2>5 DEF AbsorbInv
<1> QED BY <1>3, <1>4

(* A row of the resolution queue that is claimed is with the scanner or the  *)
(* job, or was lost at one of the places named, and what was merged lives on *)
(* unless two merges had an entity in hand at once: the resolution scanner,  *)
(* its job and execute_merge, for any entities, administrators and bounds.   *)
THEOREM ResolutionStaysSound == ResolutionSpec => []ResolutionIsSound
<1>1. ResolutionInit => RowInv /\ AbsorbInv BY ResolutionStarts
<1>2. RowInv /\ AbsorbInv /\ [ResolutionNext]_gvars => RowInv' /\ AbsorbInv' BY ResolutionSteps
<1>3. RowInv /\ AbsorbInv => ResolutionIsSound BY DEF RowInv, AbsorbInv, ResolutionIsSound
<1> QED BY <1>1, <1>2, <1>3, PTL DEF ResolutionSpec

-----------------------------------------------------------------------------
(* The issues of the spell check by dictionary.                                 *)
(* The shapes of rules, texts, jobs, locks and requests.                     *)
JobShape == [kind : {"free", "queued", "working"}, pages : SUBSET IPage, todo : SUBSET IPage, hand : SUBSET IPage,
             rules : SUBSET Words, copy : [IPage -> SUBSET Slot]]
IssueShapes ==
  /\ rules \subseteq Words /\ fixed \in [IPage -> SUBSET Slot]
  /\ cjob \in [SJob -> JobShape] /\ DOMAIN rowLock = IPage /\ rowLock = [p \in IPage |-> rowLock[p]]
SessionShape(v) ==
  v.kind \in {"view", "edit", "check"} =>
    /\ v.page \in IPage /\ v.copy \subseteq Slot /\ (v.kind = "edit" => v.chosen \subseteq Slot)
SessionShapes ==
  /\ DOMAIN session = Session /\ session = [x \in Session |-> session[x]]
  /\ \A x \in Session : SessionShape(session[x])

(* Why corrections stay: a job that has a page in hand has its row locked,   *)
(* and a copy of its present text.                                           *)
HandIsLocked ==
  \A j \in SJob, p \in IPage : p \in cjob[j].hand => rowLock[p] = j /\ cjob[j].copy[p] = fixed[p]
CorrectionInv == IssueShapes /\ SessionShapes /\ HandIsLocked

(* Corrections add to a text places whose word the rules name.               *)
LEMMA PointedPlaces ==
  ASSUME NEW t \in SUBSET Slot, NEW s \in Slot, NEW i
  PROVE  Pointed(t, s, i) \subseteq Slot /\ \A k \in Pointed(t, s, i) : WordAt[k] = WordAt[s]
BY DEF Pointed

LEMMA CorrectedPlaces ==
  ASSUME NEW t \in SUBSET Slot, NEW S \in SUBSET Slot, NEW is
  PROVE  /\ t \subseteq Corrected(t, is, S) /\ Corrected(t, is, S) \subseteq Slot
         /\ \A k \in Corrected(t, is, S) \ t : \E s \in S : WordAt[k] = WordAt[s]
<1>1. \A k \in Corrected(t, is, S) : k \in t \/ \E s \in S : k \in Pointed(t, s, is[s])
  BY DEF Corrected
<1>2. ASSUME NEW s \in S, NEW k \in Pointed(t, s, is[s]) PROVE k \in Slot /\ WordAt[k] = WordAt[s]
  BY PointedPlaces
<1> QED BY <1>1, <1>2 DEF Corrected

LEMMA RulesOnly ==
  ASSUME IssueShapes, NEW p \in IPage, NEW t \in SUBSET Slot, NEW W, AppliesRules(p, t, W)
  PROVE  /\ fixed' \in [IPage -> SUBSET Slot] /\ \A q \in IPage \ {p} : fixed'[q] = fixed[q]
         /\ fixed' # fixed => /\ t \subseteq fixed'[p]
                              /\ \A s \in fixed'[p] \ t : WordAt[s] \in W
<1>1. CASE fixed' = fixed BY <1>1 DEF IssueShapes
<1>2. CASE fixed' # fixed
  <2>1. PICK S : S \subseteq Slot /\ (\A s \in S : WordAt[s] \in W)
                 /\ fixed' = [fixed EXCEPT ![p] = Corrected(t, issue[p], S)]
    BY <1>2 DEF AppliesRules, ToApply, InStatus
  <2>2. PICK u : u = Corrected(t, issue[p], S) OBVIOUS
  <2>3. t \subseteq u /\ u \subseteq Slot /\ \A k \in u \ t : \E s \in S : WordAt[k] = WordAt[s]
    BY <2>1, <2>2, CorrectedPlaces
  <2>4. fixed' = [fixed EXCEPT ![p] = u] /\ fixed \in [IPage -> SUBSET Slot]
    BY <2>1, <2>2 DEF IssueShapes
  <2>5. fixed'[p] = u /\ fixed' \in [IPage -> SUBSET Slot] /\ \A q \in IPage \ {p} : fixed'[q] = fixed[q]
    BY <2>3, <2>4
  <2> QED BY <2>1, <2>3, <2>5
<1> QED BY <1>1, <1>2

(* A text whose row is not locked may change: no job has it in hand.         *)
LEMMA UnlockedTexts ==
  ASSUME HandIsLocked, NEW p \in IPage, Writable(p), UNCHANGED <<cjob, rowLock>>,
         \A q \in IPage \ {p} : fixed'[q] = fixed[q]
  PROVE  HandIsLocked'
BY SpellIssuesAssumption DEF HandIsLocked, Writable

LEMMA QueuedJobs ==
  ASSUME NEW P \in SUBSET IPage
  PROVE  QueuedFor(P) \in JobShape /\ QueuedFor(P).hand = {} /\ NoSpellJob \in JobShape /\ NoSpellJob.hand = {}
<1>1. PICK c : c = [p \in IPage |-> {}] OBVIOUS
<1>2. c \in [IPage -> SUBSET Slot] BY <1>1
<1>3. NoSpellJob = [kind |-> "free", pages |-> {}, todo |-> {}, hand |-> {}, rules |-> {}, copy |-> c]
  BY <1>1 DEF NoSpellJob
<1>4. QueuedFor(P) = [kind |-> "queued", pages |-> P, todo |-> P, hand |-> {}, rules |-> {}, copy |-> c]
  <2>1. PICK n : n = NoSpellJob OBVIOUS
  <2>2. QueuedFor(P) = [n EXCEPT !.kind = "queued", !.pages = P, !.todo = P] BY <2>1 DEF QueuedFor
  <2> QED BY <1>3, <2>1, <2>2
<1>5. NoSpellJob \in JobShape /\ NoSpellJob.hand = {} BY <1>2, <1>3 DEF JobShape
<1>6. QueuedFor(P) \in JobShape /\ QueuedFor(P).hand = {} BY <1>2, <1>4 DEF JobShape
<1> QED BY <1>5, <1>6

LEMMA IssuesStart == IssuesInit => CorrectionInv
<1> SUFFICES ASSUME IssuesInit PROVE CorrectionInv OBVIOUS
<1>1. NoSpellJob \in JobShape /\ NoSpellJob.hand = {} BY QueuedJobs
<1>2. IssueShapes BY <1>1 DEF IssuesInit, IssueShapes
<1>3. SessionShapes BY DEF IssuesInit, SessionShapes, SessionShape, Idle
<1>4. HandIsLocked BY <1>1 DEF IssuesInit, HandIsLocked
<1> QED BY <1>2, <1>3, <1>4 DEF CorrectionInv

(* Steps of a job.                                                           *)
LEMMA OneJobMoves ==
  ASSUME IssueShapes, HandIsLocked, NEW j \in SJob, NEW r \in JobShape,
         cjob' = [cjob EXCEPT ![j] = r], UNCHANGED <<rules, fixed>>,
         DOMAIN rowLock' = IPage, rowLock' = [p \in IPage |-> rowLock'[p]],
         \A p \in IPage : rowLock[p] \in SJob \ {j} => rowLock'[p] = rowLock[p],
         \A p \in r.hand : rowLock'[p] = j /\ r.copy[p] = fixed[p]
  PROVE  IssueShapes' /\ HandIsLocked'
<1>1. cjob' \in [SJob -> JobShape] /\ cjob'[j] = r /\ \A i \in SJob \ {j} : cjob'[i] = cjob[i]
  BY DEF IssueShapes
<1>2. IssueShapes' BY <1>1 DEF IssueShapes
<1>3. ASSUME NEW i \in SJob, NEW p \in IPage, p \in cjob'[i].hand
      PROVE  rowLock'[p] = i /\ cjob'[i].copy[p] = fixed'[p]
  BY <1>1, <1>3 DEF HandIsLocked
<1> QED BY <1>2, <1>3 DEF HandIsLocked

LEMMA JobsMove ==
  ASSUME CorrectionInv, NEW j \in SJob, JobSteps(j) \/ CJobDies(j) \/ (\E p \in IPage : JobFailsOnPage(j, p))
  PROVE  IssueShapes' /\ HandIsLocked'
<1> DEFINE c == cjob[j]
<1>0. /\ c \in JobShape /\ IssueShapes /\ HandIsLocked /\ DOMAIN rowLock = IPage
      /\ rowLock = [p \in IPage |-> rowLock[p]] /\ rules \subseteq Words
  BY DEF CorrectionInv, IssueShapes
<1>h. \A p \in c.hand : rowLock[p] = j /\ c.copy[p] = fixed[p] /\ p \in IPage
  BY <1>0 DEF HandIsLocked, JobShape
<1>1. CASE JobReadsRules(j)
  <2>1. PICK n : n = NoSpellJob OBVIOUS
  <2>2. n \in JobShape /\ n.hand = {} BY <2>1, QueuedJobs
  <2>3. PICK w : w = [c EXCEPT !.kind = "working", !.rules = rules] OBVIOUS
  <2>4. w \in JobShape /\ w.hand = c.hand /\ w.copy = c.copy BY <2>3, <1>0 DEF JobShape
  <2>5. \E r \in {n, w} : cjob' = [cjob EXCEPT ![j] = r]
    BY <1>1, <2>1, <2>3 DEF JobReadsRules
  <2>6. UNCHANGED <<rules, fixed, rowLock>> BY <1>1 DEF JobReadsRules, vocabulary
  <2>7. PICK r \in {n, w} : cjob' = [cjob EXCEPT ![j] = r] BY <2>5
  <2>8. r \in JobShape /\ \A p \in r.hand : rowLock'[p] = j /\ r.copy[p] = fixed[p]
    BY <2>2, <2>4, <2>6, <2>7, <1>h
  <2>9. /\ DOMAIN rowLock' = IPage /\ rowLock' = [p \in IPage |-> rowLock'[p]]
        /\ \A p \in IPage : rowLock[p] \in SJob \ {j} => rowLock'[p] = rowLock[p]
    BY <2>6, <1>0
  <2> QED BY <1>0, <2>6, <2>7, <2>8, <2>9, OneJobMoves
<1>2. CASE CJobEnds(j) \/ CJobDies(j)
  <2>1. \E r : /\ r \in JobShape /\ r.hand = {} /\ cjob' = [cjob EXCEPT ![j] = r]
    <3>1. c.pages \in SUBSET IPage BY <1>0 DEF JobShape
    <3>2. PICK n, q : n = NoSpellJob /\ q = QueuedFor(c.pages) OBVIOUS
    <3>3. n \in JobShape /\ q \in JobShape /\ n.hand = {} /\ q.hand = {} BY <3>1, <3>2, QueuedJobs
    <3>4. cjob' = [cjob EXCEPT ![j] = n] \/ cjob' = [cjob EXCEPT ![j] = q]
      BY <1>2, <3>2 DEF CJobEnds, CJobDies
    <3> QED BY <3>3, <3>4
  <2>2. UNCHANGED <<rules, fixed>> BY <1>2 DEF CJobEnds, CJobDies, vocabulary
  <2>3. rowLock' = rowLock \/ rowLock' = [p \in IPage |-> IF rowLock[p] = j THEN NoSJob ELSE rowLock[p]]
    BY <1>2 DEF CJobEnds, CJobDies
  <2>4. /\ DOMAIN rowLock' = IPage /\ rowLock' = [p \in IPage |-> rowLock'[p]]
        /\ \A p \in IPage : rowLock[p] \in SJob \ {j} => rowLock'[p] = rowLock[p]
    BY <2>3, <1>0
  <2>5. PICK r : r \in JobShape /\ r.hand = {} /\ cjob' = [cjob EXCEPT ![j] = r] BY <2>1
  <2>6. \A p \in r.hand : rowLock'[p] = j /\ r.copy[p] = fixed[p] BY <2>5
  <2> QED BY <1>0, <2>2, <2>4, <2>5, <2>6, OneJobMoves
<1>3. ASSUME NEW p \in IPage, JobReadsPage(j, p) PROVE IssueShapes' /\ HandIsLocked'
  <2>1. PICK t, h, k : t = c.todo \ {p} /\ h = c.hand \cup {p} /\ k = [c.copy EXCEPT ![p] = fixed[p]]
    OBVIOUS
  <2>2. PICK r : r = [c EXCEPT !.todo = t, !.hand = h, !.copy = k] OBVIOUS
  <2>3. c.copy \in [IPage -> SUBSET Slot] /\ c.todo \subseteq IPage /\ c.hand \subseteq IPage
        /\ fixed[p] \in SUBSET Slot
    BY <1>0 DEF JobShape, IssueShapes
  <2>4. k \in [IPage -> SUBSET Slot] /\ k[p] = fixed[p] /\ \A q \in IPage \ {p} : k[q] = c.copy[q]
    BY <2>1, <2>3
  <2>5. t \subseteq IPage /\ h \subseteq IPage BY <2>1, <2>3
  <2>6. r \in JobShape /\ r.hand = h /\ r.copy = k BY <2>2, <2>4, <2>5, <1>0 DEF JobShape
  <2>7. cjob' = [cjob EXCEPT ![j] = r] BY <1>3, <2>1, <2>2 DEF JobReadsPage, InHand
  <2>8. /\ rowLock[p] = NoSJob /\ rowLock' = [rowLock EXCEPT ![p] = j] /\ UNCHANGED <<rules, fixed>>
    BY <1>3 DEF JobReadsPage, vocabulary
  <2>9. /\ DOMAIN rowLock' = IPage /\ rowLock' = [q \in IPage |-> rowLock'[q]]
        /\ rowLock'[p] = j /\ \A q \in IPage \ {p} : rowLock'[q] = rowLock[q]
    BY <2>8, <1>0
  <2>10. \A q \in IPage : rowLock[q] \in SJob \ {j} => rowLock'[q] = rowLock[q]
    BY <2>8, <2>9, SpellIssuesAssumption
  <2>11. \A q \in r.hand : rowLock'[q] = j /\ r.copy[q] = fixed[q]
    BY <2>1, <2>4, <2>6, <2>9, <1>h
  <2> QED BY <1>0, <2>6, <2>7, <2>8, <2>9, <2>10, <2>11, OneJobMoves
<1>4. ASSUME NEW p \in IPage, PutsDown(j, p), UNCHANGED rules, fixed' \in [IPage -> SUBSET Slot],
             \A q \in IPage \ {p} : fixed'[q] = fixed[q]
      PROVE  IssueShapes' /\ HandIsLocked'
  <2>1. PICK h, k : h = c.hand \ {p} /\ k = [c.copy EXCEPT ![p] = {}] OBVIOUS
  <2>2. PICK r : r = [c EXCEPT !.hand = h, !.copy = k] OBVIOUS
  <2>3. c.copy \in [IPage -> SUBSET Slot] /\ c.hand \subseteq IPage BY <1>0 DEF JobShape
  <2>4. k \in [IPage -> SUBSET Slot] /\ \A q \in IPage \ {p} : k[q] = c.copy[q] BY <2>1, <2>3
  <2>5. h \subseteq IPage BY <2>1, <2>3
  <2>6. r \in JobShape /\ r.hand = h /\ r.copy = k BY <2>2, <2>4, <2>5, <1>0 DEF JobShape
  <2>7. cjob' = [cjob EXCEPT ![j] = r] /\ rowLock' = [rowLock EXCEPT ![p] = NoSJob] /\ p \in c.hand
    BY <1>4, <2>1, <2>2 DEF PutsDown
  <2>8. /\ DOMAIN rowLock' = IPage /\ rowLock' = [q \in IPage |-> rowLock'[q]]
        /\ \A q \in IPage \ {p} : rowLock'[q] = rowLock[q]
    BY <2>7, <1>0
  <2>9. cjob' \in [SJob -> JobShape] /\ cjob'[j] = r /\ \A i \in SJob \ {j} : cjob'[i] = cjob[i]
    BY <2>6, <2>7, <1>0 DEF IssueShapes
  <2>10. rowLock[p] = j BY <2>7, <1>h
  <2>11. ASSUME NEW i \in SJob, NEW q \in IPage, q \in cjob'[i].hand
         PROVE  rowLock'[q] = i /\ cjob'[i].copy[q] = fixed'[q]
    <3>1. CASE i = j
      <4>1. q # p /\ q \in c.hand BY <3>1, <2>11, <2>9, <2>6, <2>1
      <4> QED BY <4>1, <3>1, <2>9, <2>6, <2>4, <2>8, <1>h, <1>4
    <3>2. CASE i # j
      <4>1. rowLock[q] = i /\ cjob[i].copy[q] = fixed[q] BY <3>2, <2>11, <2>9, <1>0 DEF HandIsLocked
      <4>2. q # p BY <4>1, <3>2, <2>10
      <4> QED BY <4>1, <4>2, <3>2, <2>8, <2>9, <1>4
    <3> QED BY <3>1, <3>2
  <2> QED BY <2>8, <2>9, <2>11, <1>4, <1>0 DEF IssueShapes, HandIsLocked
<1>5. ASSUME NEW p \in IPage, JobCorrects(j, p) PROVE IssueShapes' /\ HandIsLocked'
  <2>1. c.copy[p] \in SUBSET Slot /\ PutsDown(j, p) /\ AppliesRules(p, c.copy[p], c.rules) /\ UNCHANGED rules
    BY <1>5, <1>0 DEF JobCorrects, vocabulary, JobShape
  <2>2. fixed' \in [IPage -> SUBSET Slot] /\ \A q \in IPage \ {p} : fixed'[q] = fixed[q]
    BY <2>1, <1>0, RulesOnly
  <2> QED BY <2>1, <2>2, <1>4
<1>6. ASSUME NEW p \in IPage, JobFailsOnPage(j, p) PROVE IssueShapes' /\ HandIsLocked'
  <2>1. PutsDown(j, p) /\ UNCHANGED <<rules, fixed>> BY <1>6 DEF JobFailsOnPage, vocabulary
  <2>2. fixed' \in [IPage -> SUBSET Slot] /\ \A q \in IPage \ {p} : fixed'[q] = fixed[q]
    BY <2>1, <1>0 DEF IssueShapes
  <2> QED BY <2>1, <2>2, <1>4
<1> QED BY <1>1, <1>2, <1>3, <1>5, <1>6 DEF JobSteps

(* Steps of requests. They write rows that are not locked.                   *)
LEMMA RequestBegins ==
  ASSUME CorrectionInv, NEW x \in Session, NEW r, SessionShape(r), Begins(x, r)
  PROVE  CorrectionInv'
<1>1. UNCHANGED <<fixed, rules, cjob, rowLock>> BY DEF Begins, vocabulary
<1>2. DOMAIN session' = Session /\ session' = [y \in Session |-> session'[y]]
      /\ session'[x] = r /\ \A y \in Session \ {x} : session'[y] = session[y]
  BY DEF Begins, CorrectionInv, SessionShapes
<1>3. ASSUME NEW y \in Session PROVE SessionShape(session'[y])
  BY <1>2 DEF CorrectionInv, SessionShapes
<1>4. SessionShapes'
  <2>1. \A y \in Session : SessionShape(session[y])' BY <1>3 DEF SessionShape
  <2> QED BY <1>2, <2>1 DEF SessionShapes
<1> QED BY <1>1, <1>4 DEF CorrectionInv, IssueShapes, HandIsLocked

LEMMA RequestEnds ==
  ASSUME CorrectionInv, NEW p \in IPage, Writable(p), NEW t \in SUBSET Slot, NEW u,
         UNCHANGED <<cjob, rowLock>>, rules' \subseteq Words,
         u = fixed[p] \/ u = t, fixed' = [fixed EXCEPT ![p] = u],
         session' = session \/ (\E x \in Session : session' = [session EXCEPT ![x] = Idle])
  PROVE  CorrectionInv'
<1>1. fixed' \in [IPage -> SUBSET Slot] /\ \A q \in IPage \ {p} : fixed'[q] = fixed[q]
  BY DEF CorrectionInv, IssueShapes
<1>2. SessionShapes'
  <2>1. CASE session' = session
    BY <2>1 DEF CorrectionInv, SessionShapes, SessionShape
  <2>2. ASSUME NEW x \in Session, session' = [session EXCEPT ![x] = Idle] PROVE SessionShapes'
    <3>1. SessionShape(Idle) BY DEF SessionShape, Idle
    <3>2. DOMAIN session' = Session /\ session' = [y \in Session |-> session'[y]]
          /\ session'[x] = Idle /\ \A y \in Session \ {x} : session'[y] = session[y]
      BY <2>2 DEF CorrectionInv, SessionShapes
    <3>3. ASSUME NEW y \in Session PROVE SessionShape(session'[y])
      BY <3>1, <3>2 DEF CorrectionInv, SessionShapes
    <3>4. \A y \in Session : SessionShape(session[y])' BY <3>3 DEF SessionShape
    <3> QED BY <3>2, <3>4 DEF SessionShapes
  <2> QED BY <2>1, <2>2
<1>3. HandIsLocked' BY <1>1, UnlockedTexts DEF CorrectionInv
<1>4. IssueShapes' BY <1>1 DEF CorrectionInv, IssueShapes
<1> QED BY <1>2, <1>3, <1>4 DEF CorrectionInv

LEMMA IssuesStep == CorrectionInv /\ [IssuesNext]_ivars => CorrectionInv'
<1> SUFFICES ASSUME CorrectionInv, [IssuesNext]_ivars PROVE CorrectionInv' OBVIOUS
<1>0. IssueShapes /\ SessionShapes /\ HandIsLocked /\ rules \subseteq Words BY DEF CorrectionInv, IssueShapes
<1>1. ASSUME UNCHANGED <<fixed, cjob, rowLock, session>>, rules' \subseteq Words PROVE CorrectionInv'
  BY <1>1 DEF CorrectionInv, IssueShapes, SessionShapes, SessionShape, HandIsLocked
<1>2. ASSUME ScanStarts \/ ScanEnds \/ (\E p \in IPage : ClaimAges(p) \/ Ignores(p)) PROVE CorrectionInv'
  <2>1. UNCHANGED <<fixed, cjob, rowLock, session, rules>>
    BY <1>2 DEF ScanStarts, ScanEnds, ClaimAges, Ignores, vocabulary
  <2> QED BY <1>0, <1>1, <2>1
<1>3. ASSUME NEW w \in Words, RuleChanges(w) \/ WordIsAdded(w) PROVE CorrectionInv'
  <2>1. UNCHANGED <<fixed, cjob, rowLock, session>> /\ rules' \subseteq Words
    BY <1>0, <1>3 DEF RuleChanges, WordIsAdded
  <2> QED BY <1>1, <2>1
<1>4. ASSUME ScanClaimsIssues PROVE CorrectionInv'
  <2>1. UNCHANGED <<fixed, rowLock, session, rules>> BY <1>4 DEF ScanClaimsIssues, vocabulary
  <2>2. CASE cjob' = cjob BY <1>0, <1>1, <2>1, <2>2
  <2>3. CASE \E j \in SJob, P \in SUBSET IPage : cjob' = [cjob EXCEPT ![j] = QueuedFor(P)]
    <3>1. PICK j \in SJob, P \in SUBSET IPage : cjob' = [cjob EXCEPT ![j] = QueuedFor(P)] BY <2>3
    <3>2. PICK r : r = QueuedFor(P) OBVIOUS
    <3>3. r \in JobShape /\ r.hand = {} /\ cjob' = [cjob EXCEPT ![j] = r] BY <3>1, <3>2, QueuedJobs
    <3>4. /\ DOMAIN rowLock' = IPage /\ rowLock' = [p \in IPage |-> rowLock'[p]]
          /\ \A p \in IPage : rowLock[p] \in SJob \ {j} => rowLock'[p] = rowLock[p]
          /\ \A p \in r.hand : rowLock'[p] = j /\ r.copy[p] = fixed[p]
      BY <2>1, <3>3, <1>0 DEF IssueShapes
    <3>5. IssueShapes' /\ HandIsLocked' BY <1>0, <2>1, <3>3, <3>4, OneJobMoves
    <3> QED BY <3>5, <2>1, <1>0 DEF CorrectionInv, SessionShapes, SessionShape
  <2>4. cjob' = cjob \/ \E j \in SJob, P \in SUBSET IPage : cjob' = [cjob EXCEPT ![j] = QueuedFor(P)]
    <3>1. PICK C \in [IPage -> SUBSET Slot] :
            \/ \E j \in SJob : cjob' = [cjob EXCEPT ![j] = QueuedFor({p \in IPage : C[p] # {}})]
            \/ UNCHANGED cjob
      BY <1>4 DEF ScanClaimsIssues
    <3> QED BY <3>1
  <2> QED BY <2>2, <2>3, <2>4
<1>5. ASSUME NEW j \in SJob, JobSteps(j) \/ CJobDies(j) \/ (\E p \in IPage : JobFailsOnPage(j, p))
      PROVE CorrectionInv'
  <2>1. IssueShapes' /\ HandIsLocked' BY <1>5, JobsMove
  <2>2. UNCHANGED session
    BY <1>5 DEF JobSteps, JobReadsRules, CJobEnds, JobReadsPage, JobCorrects, CJobDies, JobFailsOnPage
  <2> QED BY <1>0, <2>1, <2>2 DEF CorrectionInv, SessionShapes, SessionShape
<1>6. ASSUME NEW x \in Session, NEW p \in IPage,
             ViewBegins(x, p) \/ CheckBegins(x, p)
               \/ (\E S \in (SUBSET Slot) \ {{}} : EditBegins(x, p, S))
      PROVE  CorrectionInv'
  <2>0. fixed[p] \subseteq Slot BY <1>0 DEF IssueShapes
  <2>1. CASE ViewBegins(x, p)
    <3>1. PICK r : r = [kind |-> "view", page |-> p, copy |-> fixed[p]] OBVIOUS
    <3>2. SessionShape(r) BY <3>1, <2>0 DEF SessionShape
    <3>3. Begins(x, r) BY <3>1, <2>1 DEF ViewBegins
    <3> QED BY <3>2, <3>3, RequestBegins
  <2>2. CASE CheckBegins(x, p)
    <3>1. PICK r : r = [kind |-> "check", page |-> p, copy |-> fixed[p]] OBVIOUS
    <3>2. SessionShape(r) BY <3>1, <2>0 DEF SessionShape
    <3>3. Begins(x, r) BY <3>1, <2>2 DEF CheckBegins
    <3> QED BY <3>2, <3>3, RequestBegins
  <2>3. ASSUME NEW S \in (SUBSET Slot) \ {{}}, EditBegins(x, p, S) PROVE CorrectionInv'
    <3>1. PICK r : r = [kind |-> "edit", page |-> p, copy |-> fixed[p], edition |-> edition[p],
                        issue |-> issue[p], chosen |-> S] OBVIOUS
    <3>2. SessionShape(r) BY <3>1, <2>0 DEF SessionShape
    <3>3. Begins(x, r) BY <3>1, <2>3 DEF EditBegins
    <3> QED BY <3>2, <3>3, RequestBegins
  <2> QED BY <1>6, <2>1, <2>2, <2>3
<1>7. ASSUME NEW x \in Session, ViewApplies(x) PROVE CorrectionInv'
  <2>1. PICK v : v = session[x] OBVIOUS
  <2>2. /\ Holds(x, "view") /\ Writable(v.page) /\ AppliesRules(v.page, v.copy, rules)
        /\ UNCHANGED <<cjob, rowLock, rules>>
    BY <1>7, <2>1 DEF ViewApplies, vocabulary
  <2>3. v.page \in IPage /\ v.copy \in SUBSET Slot BY <1>0, <2>1, <2>2 DEF Holds, SessionShapes, SessionShape
  <2>4. PICK p, u : p = v.page /\ u = fixed'[p] OBVIOUS
  <2>5. fixed' \in [IPage -> SUBSET Slot] /\ \A q \in IPage \ {p} : fixed'[q] = fixed[q]
    <3>1. p \in IPage /\ AppliesRules(p, v.copy, rules) BY <2>2, <2>3, <2>4
    <3> QED BY <1>0, <2>3, <3>1, RulesOnly
  <2>6. fixed' = [fixed EXCEPT ![p] = u] /\ u \in SUBSET Slot BY <2>3, <2>4, <2>5, <1>0 DEF IssueShapes
  <2>7. Writable(p) /\ p \in IPage /\ session' = [session EXCEPT ![x] = Idle] BY <2>2, <2>3, <2>4 DEF Holds
  <2>8. UNCHANGED <<cjob, rowLock>> /\ rules' \subseteq Words BY <2>2, <1>0
  <2> QED BY <2>6, <2>7, <2>8, RequestEnds
<1>8. ASSUME NEW x \in Session, EditApplies(x) PROVE CorrectionInv'
  <2>1. PICK v : v = session[x] OBVIOUS
  <2>2. /\ Holds(x, "edit") /\ Writable(v.page) /\ UNCHANGED <<cjob, rowLock>>
    BY <1>8, <2>1 DEF EditApplies
  <2>3. v.page \in IPage /\ v.copy \in SUBSET Slot /\ v.chosen \in SUBSET Slot
    BY <1>0, <2>1, <2>2 DEF Holds, SessionShapes, SessionShape
  <2>4. PICK p, t : p = v.page /\ t = Corrected(v.copy, v.issue, v.chosen) OBVIOUS
  <2>5. t \in SUBSET Slot BY <2>3, <2>4, CorrectedPlaces
  <2>6. rules' \subseteq Words
    <3>1. rules' = rules \/ \E s \in v.chosen : rules' = rules \cup {WordAt[s]}
      BY <1>8, <2>1 DEF EditApplies
    <3> QED BY <3>1, <2>3, <1>0 DEF Words
  <2>7. fixed \in [IPage -> SUBSET Slot] /\ p \in IPage BY <1>0, <2>3, <2>4 DEF IssueShapes
  <2>8. fixed' = fixed \/ fixed' = [fixed EXCEPT ![p] = fixed[p]] \/ fixed' = [fixed EXCEPT ![p] = t]
    BY <1>8, <2>1, <2>4 DEF EditApplies
  <2>9. \E u : (u = fixed[p] \/ u = t) /\ fixed' = [fixed EXCEPT ![p] = u]
    BY <2>7, <2>8
  <2>10. Writable(p) /\ p \in IPage /\ session' = [session EXCEPT ![x] = Idle] BY <2>2, <2>3, <2>4 DEF Holds
  <2>11. UNCHANGED <<cjob, rowLock>> /\ rules' \subseteq Words BY <2>2, <2>6, <1>0
  <2>12. PICK u : (u = fixed[p] \/ u = t) /\ fixed' = [fixed EXCEPT ![p] = u] BY <2>9
  <2> QED BY <2>5, <2>10, <2>11, <2>12, RequestEnds
<1>9. ASSUME NEW x \in Session, CheckWrites(x) PROVE CorrectionInv'
  <2>1. PICK v : v = session[x] OBVIOUS
  <2>2. /\ Holds(x, "check") /\ Writable(v.page) /\ UNCHANGED <<cjob, rowLock, rules>>
    BY <1>9, <2>1 DEF CheckWrites, vocabulary
  <2>3. v.page \in IPage /\ v.copy \in SUBSET Slot
    BY <1>0, <2>1, <2>2 DEF Holds, SessionShapes, SessionShape
  <2>4. PICK p, t : p = v.page /\ t = v.copy \cup {s \in Slot : WordAt[s] \in rules} OBVIOUS
  <2>5. t \in SUBSET Slot BY <2>3, <2>4
  <2>7. fixed \in [IPage -> SUBSET Slot] /\ p \in IPage BY <1>0, <2>3, <2>4 DEF IssueShapes
  <2>8. fixed' = [fixed EXCEPT ![p] = fixed[p]] \/ fixed' = [fixed EXCEPT ![p] = t]
    BY <1>9, <2>1, <2>4 DEF CheckWrites
  <2>9. \E u : (u = fixed[p] \/ u = t) /\ fixed' = [fixed EXCEPT ![p] = u]
    BY <2>7, <2>8
  <2>10. Writable(p) /\ p \in IPage /\ session' = [session EXCEPT ![x] = Idle] BY <2>2, <2>3, <2>4 DEF Holds
  <2>11. UNCHANGED <<cjob, rowLock>> /\ rules' \subseteq Words BY <2>2, <1>0
  <2>12. PICK u : (u = fixed[p] \/ u = t) /\ fixed' = [fixed EXCEPT ![p] = u] BY <2>9
  <2> QED BY <2>5, <2>10, <2>11, <2>12, RequestEnds
<1>10. ASSUME NEW p \in IPage, EditedText(p) PROVE CorrectionInv'
  <2>1. PICK t \in SUBSET Slot : fixed' = [fixed EXCEPT ![p] = t] BY <1>10 DEF EditedText
  <2>2. Writable(p) /\ UNCHANGED <<cjob, rowLock, session, rules>> BY <1>10 DEF EditedText, vocabulary
  <2> QED BY <2>1, <2>2, <1>0, RequestEnds
<1>11. CASE UNCHANGED ivars
  <2>1. UNCHANGED <<fixed, cjob, rowLock, session, rules>> BY <1>11 DEF ivars
  <2> QED BY <1>0, <1>1, <2>1
<1> QED BY <1>2, <1>3, <1>4, <1>5, <1>6, <1>7, <1>8, <1>9, <1>10, <1>11 DEF IssuesNext

(* JobKeepsCorrections: the auto-correction of the worker takes no correction *)
(* back and corrects only what its rules name (auto_correct_service.py:86,    *)
(* with_for_update), for any pages, words, jobs and requests.                 *)
THEOREM CorrectionsAreKept == IssuesSpec => JobKeepsCorrections
<1>1. IssuesInit => CorrectionInv BY IssuesStart
<1>2. CorrectionInv /\ [IssuesNext]_ivars => CorrectionInv' BY IssuesStep
<1>3. CorrectionInv => [\A j \in SJob, p \in IPage :
         JobCorrects(j, p) => /\ fixed[p] \subseteq fixed'[p]
                              /\ \A s \in fixed'[p] \ fixed[p] : WordAt[s] \in cjob[j].rules]_ivars
  <2> SUFFICES ASSUME CorrectionInv, NEW j \in SJob, NEW p \in IPage, JobCorrects(j, p)
               PROVE  /\ fixed[p] \subseteq fixed'[p]
                      /\ \A s \in fixed'[p] \ fixed[p] : WordAt[s] \in cjob[j].rules
    OBVIOUS
  <2>1. PICK t, W : t = cjob[j].copy[p] /\ W = cjob[j].rules OBVIOUS
  <2>2. t = fixed[p] /\ t \in SUBSET Slot /\ IssueShapes
    BY <2>1 DEF CorrectionInv, HandIsLocked, IssueShapes, JobCorrects, PutsDown
  <2>3. AppliesRules(p, t, W) BY <2>1 DEF JobCorrects
  <2>4. fixed' # fixed => t \subseteq fixed'[p] /\ \A s \in fixed'[p] \ t : WordAt[s] \in W
    BY <2>2, <2>3, RulesOnly
  <2>5. CASE fixed' = fixed BY <2>5
  <2> QED BY <2>1, <2>2, <2>4, <2>5
<1> QED BY <1>1, <1>2, <1>3, PTL DEF IssuesSpec, JobKeepsCorrections

-----------------------------------------------------------------------------
(* The spell check by a language model.                                         *)
(* The records by their fields.                                                 *)
ARequest(ph, P, k, t, s) == [phase |-> ph, pages |-> P, known |-> k, base |-> t, stage |-> s]
ABatchRow(s, m, P, t) == [status |-> s, remote |-> m, pages |-> P, base |-> t]
AHand(w, l, g, k, m, o) == [row |-> w, lines |-> l, page |-> g, skip |-> k, same |-> m, ok |-> o]

RequestIsShaped(r) ==
  /\ req[r].base = [p \in LPage |-> req[r].base[p]]
  /\ req[r].stage = [p \in LPage |-> req[r].stage[p]]
  /\ req[r].phase # "working" => req[r].stage = NoStage
RequestsAreShaped ==
  /\ req = [r \in Request |-> ARequest(req[r].phase, req[r].pages, req[r].known, req[r].base, req[r].stage)]
  /\ \A r \in Request : RequestIsShaped(r)
RowsAreShaped ==
  /\ lrow = [b \in LBatch |-> ABatchRow(lrow[b].status, lrow[b].remote, lrow[b].pages, lrow[b].base)]
  /\ newer = [b \in LBatch |-> newer[b]]
  /\ \A b \in LBatch : lrow[b].status = "none" => lrow[b].remote = "none"
TextsAreShaped ==
  /\ edits = [p \in LPage |-> edits[p]] /\ ltext = [p \in LPage |-> ltext[p]]
HandIsShaped ==
  /\ hand = AHand(hand.row, hand.lines, hand.page, hand.skip, hand.same, hand.ok)
  /\ hand.row \subseteq Open /\ \A b \in hand.row : hand.lines \subseteq lrow[b].pages

(* Whoever is about to write a text has the last edit of its page, unless the   *)
(* page was edited under his hands.                                             *)
RequestIsCurrent(r, p) ==
  /\ req[r].phase = "read" /\ p \in req[r].pages => req[r].base[p] = edits[p]
  /\ req[r].stage[p] = "asked" => req[r].base[p] = edits[p]
  /\ req[r].phase \in {"listed", "read"} /\ p \in req[r].pages =>
       \A b \in Open \ req[r].known : p \in lrow[b].pages => lrow[b].base[p] = edits[p]
RowIsCurrent(b, p) ==
  b \in Open /\ p \in lrow[b].pages /\ p \notin newer[b] => lrow[b].base[p] = edits[p]
HandIsCurrent(p) ==
  p \in hand.page /\ ~hand.skip => \A b \in hand.row : lrow[b].base[p] = edits[p]

RequestsAreCurrent == \A r \in Request, p \in LPage \ exposed : RequestIsCurrent(r, p)
RowsAreCurrent == \A b \in LBatch, p \in LPage \ exposed : RowIsCurrent(b, p)
HandsAreCurrent == \A p \in LPage \ exposed : HandIsCurrent(p)

SpellShapes == RequestsAreShaped /\ RowsAreShaped /\ TextsAreShaped /\ HandIsShaped
SpellInv == SpellShapes /\ RequestsAreCurrent /\ RowsAreCurrent /\ HandsAreCurrent /\ EditSurvives

LEMMA FreeRecords ==
  /\ FreeRequest = ARequest("free", {}, {}, NoText, NoStage)
  /\ LFree = ABatchRow("none", "none", {}, NoText)
  /\ IdleHand = AHand({}, {}, {}, FALSE, FALSE, {})
  /\ NoText = [p \in LPage |-> NoText[p]] /\ NoStage = [p \in LPage |-> NoStage[p]]
  /\ \A p \in LPage : NoStage[p] = "none" /\ NoText[p] = 0
  BY DEF FreeRequest, LFree, IdleHand, ARequest, ABatchRow, AHand, NoText, NoStage

LEMMA SpellInitHolds == SpellInit => SpellInv
<1> SUFFICES ASSUME SpellInit PROVE SpellInv
  OBVIOUS
<1>1. RequestsAreShaped
  BY FreeRecords DEF SpellInit, RequestsAreShaped, RequestIsShaped, ARequest
<1>2. RowsAreShaped /\ \A b \in LBatch : lrow[b].status = "none"
  BY FreeRecords DEF SpellInit, RowsAreShaped, ABatchRow
<1>3. TextsAreShaped
  BY FreeRecords DEF SpellInit, TextsAreShaped
<1>4. HandIsShaped /\ hand.page = {}
  BY FreeRecords DEF SpellInit, HandIsShaped, AHand
<1>5. RequestsAreCurrent
  BY FreeRecords DEF SpellInit, RequestsAreCurrent, RequestIsCurrent, ARequest
<1>6. RowsAreCurrent /\ HandsAreCurrent
  BY <1>2, <1>4 DEF RowsAreCurrent, RowIsCurrent, HandsAreCurrent, HandIsCurrent, Open
<1>7. EditSurvives
  BY DEF SpellInit, EditSurvives
<1> QED
  BY <1>1, <1>2, <1>3, <1>4, <1>5, <1>6, <1>7 DEF SpellInv, SpellShapes

(* The rows stay as they are, and no page of a row becomes older than its batch *)
(* unless the batch has its last edit.                                          *)
LEMMA RowsStay ==
  ASSUME SpellInv, UNCHANGED <<edits, lrow, exposed>>, newer' = [b \in LBatch |-> newer'[b]],
         \A b \in Open, p \in LPage \ exposed :
           p \in newer[b] /\ p \in lrow[b].pages => p \in newer'[b] \/ lrow[b].base[p] = edits[p]
  PROVE  RowsAreShaped' /\ RowsAreCurrent' /\ Open' = Open
<1>1. Open' = Open
  BY DEF Open
<1>2. RowsAreShaped'
  BY DEF SpellInv, SpellShapes, RowsAreShaped
<1>3. RowsAreCurrent'
  <2> SUFFICES ASSUME NEW b \in LBatch, NEW p \in LPage \ exposed,
                      b \in Open, p \in lrow[b].pages, p \notin newer'[b]
               PROVE  lrow[b].base[p] = edits[p]
    BY <1>1 DEF RowsAreCurrent, RowIsCurrent
  <2> QED
    BY DEF SpellInv, RowsAreCurrent, RowIsCurrent
<1> QED
  BY <1>1, <1>2, <1>3

LEMMA TouchingStays ==
  ASSUME SpellInv, NEW P, UNCHANGED <<edits, lrow, exposed>>, newer' = Touched(P)
  PROVE  RowsAreShaped' /\ RowsAreCurrent' /\ Open' = Open
<1>1. newer' = [b \in LBatch |-> newer'[b]] /\ \A b \in LBatch : newer[b] \subseteq newer'[b]
  BY DEF Touched
<1>2. Open \subseteq LBatch
  BY DEF Open
<1> QED
  BY <1>1, <1>2, RowsStay

LEMMA StillRows ==
  ASSUME SpellInv, UNCHANGED <<edits, lrow, exposed, newer>>
  PROVE  RowsAreShaped' /\ RowsAreCurrent' /\ Open' = Open
  BY RowsStay DEF SpellInv, SpellShapes, RowsAreShaped

(* One request moves.                                                           *)
RequestBecomes(r, ph, P, k, t, s) ==
  /\ req' = [req EXCEPT ![r] = ARequest(ph, P, k, t, s)]
  /\ t = [p \in LPage |-> t[p]] /\ s = [p \in LPage |-> s[p]]
  /\ ph # "working" => s = NoStage
  /\ \A p \in LPage \ exposed :
       /\ ph = "read" /\ p \in P => t[p] = edits[p]
       /\ s[p] = "asked" => t[p] = edits[p]
       /\ ph \in {"listed", "read"} /\ p \in P =>
            \A b \in Open \ k : p \in lrow[b].pages => lrow[b].base[p] = edits[p]

LEMMA RequestMoves ==
  ASSUME SpellInv, NEW r \in Request, NEW ph, NEW P, NEW k, NEW t, NEW s,
         RequestBecomes(r, ph, P, k, t, s), UNCHANGED <<edits, lrow, exposed>>
  PROVE  RequestsAreShaped' /\ RequestsAreCurrent'
<1>0. /\ req' = [req EXCEPT ![r] = ARequest(ph, P, k, t, s)]
      /\ t = [p \in LPage |-> t[p]] /\ s = [p \in LPage |-> s[p]]
      /\ ph # "working" => s = NoStage
  BY DEF RequestBecomes
<1>1. /\ req'[r] = ARequest(ph, P, k, t, s) /\ \A q \in Request : q # r => req'[q] = req[q]
      /\ req' = [q \in Request |-> ARequest(req'[q].phase, req'[q].pages, req'[q].known,
                                           req'[q].base, req'[q].stage)]
  BY <1>0 DEF SpellInv, SpellShapes, RequestsAreShaped, RequestIsShaped, ARequest
<1>2. /\ req'[r].phase = ph /\ req'[r].pages = P /\ req'[r].known = k
      /\ req'[r].base = t /\ req'[r].stage = s
  BY <1>1 DEF ARequest
<1>3. \A q \in Request : RequestIsShaped(q)'
  <2> TAKE q \in Request
  <2>1. CASE q = r
    BY <1>0, <1>2, <2>1 DEF RequestIsShaped
  <2>2. CASE q # r
    BY <1>1, <2>2 DEF SpellInv, SpellShapes, RequestsAreShaped, RequestIsShaped, RequestIsShaped
  <2> QED
    BY <2>1, <2>2
<1>4. RequestsAreShaped'
  <2>1. req' = [q \in Request |-> ARequest(req'[q].phase, req'[q].pages, req'[q].known,
                                         req'[q].base, req'[q].stage)]
    BY <1>1
  <2> QED
    BY <1>3, <2>1 DEF RequestsAreShaped
<1>5. ASSUME NEW q \in Request, NEW p \in LPage \ exposed PROVE RequestIsCurrent(q, p)'
  <2>1. CASE q = r
    BY <1>2, <2>1 DEF RequestBecomes, RequestIsCurrent, Open
  <2>2. CASE q # r
    BY <1>1, <2>2 DEF SpellInv, RequestsAreCurrent, RequestIsCurrent, Open
  <2> QED
    BY <2>1, <2>2
<1> QED
  BY <1>4, <1>5 DEF RequestsAreCurrent

LEMMA StillRequests ==
  ASSUME SpellInv, UNCHANGED <<edits, lrow, exposed, req>>
  PROVE  RequestsAreShaped' /\ RequestsAreCurrent'
  BY DEF SpellInv, SpellShapes, RequestsAreShaped, RequestIsShaped, RequestsAreCurrent, RequestIsCurrent, Open

LEMMA StillHand ==
  ASSUME SpellInv, UNCHANGED <<edits, lrow, exposed, hand>>
  PROVE  HandIsShaped' /\ HandsAreCurrent'
  BY DEF SpellInv, SpellShapes, HandIsShaped, HandsAreCurrent, HandIsCurrent, Open

LEMMA StillTexts ==
  ASSUME SpellInv, UNCHANGED <<edits, ltext, exposed>>
  PROVE  TextsAreShaped' /\ EditSurvives'
  BY DEF SpellInv, SpellShapes, TextsAreShaped, EditSurvives

(* A correction of the last edit.                                               *)
LEMMA CorrectedTexts ==
  ASSUME SpellInv, NEW p \in LPage, NEW v, ltext' = [ltext EXCEPT ![p] = v],
         UNCHANGED <<edits, exposed>>, p \notin exposed => v = edits[p]
  PROVE  TextsAreShaped' /\ EditSurvives'
<1>1. ltext = [q \in LPage |-> ltext[q]]
  BY DEF SpellInv, SpellShapes, TextsAreShaped
<1>2. ltext'[p] = v /\ \A q \in LPage : q # p => ltext'[q] = ltext[q]
  BY <1>1
<1>3. TextsAreShaped'
  BY <1>1 DEF SpellInv, SpellShapes, TextsAreShaped
<1>4. EditSurvives'
  BY <1>2 DEF SpellInv, EditSurvives
<1> QED
  BY <1>3, <1>4

-----------------------------------------------------------------------------
(* An editor saves a page: batches with the page are older, and whoever has it  *)
(* in hand exposes it.                                                          *)
LEMMA SavedRowKeeps ==
  ASSUME SpellInv, NEW p \in LPage, Edit(p)
  PROVE  SpellInv'
<1>1. /\ edits' = [edits EXCEPT ![p] = edits[p] + 1] /\ ltext' = [ltext EXCEPT ![p] = edits'[p]]
      /\ newer' = Touched({p}) /\ lrow' = lrow /\ req' = req /\ hand' = hand
      /\ exposed' = IF InWork(p) THEN exposed \cup {p} ELSE exposed \ {p}
  BY DEF Edit
<1>2. /\ \A q \in LPage : q # p => edits'[q] = edits[q] /\ ltext'[q] = ltext[q]
      /\ ltext'[p] = edits'[p] /\ TextsAreShaped'
  BY <1>1 DEF SpellInv, SpellShapes, TextsAreShaped
<1>3. /\ \A b \in LBatch : newer[b] \subseteq newer'[b] /\ (p \in lrow[b].pages => p \in newer'[b])
      /\ newer' = [b \in LBatch |-> newer'[b]]
  BY <1>1 DEF Touched
<1>4. p \notin exposed' => ~InWork(p)
  BY <1>1
<1>5. \A q \in LPage : q # p /\ q \notin exposed' => q \notin exposed
  BY <1>1
<1>6. Open' = Open
  BY <1>1 DEF Open
<1>7. RequestsAreShaped' /\ RowsAreShaped' /\ HandIsShaped'
  BY <1>1, <1>3, <1>6 DEF SpellInv, SpellShapes, RequestsAreShaped, RequestIsShaped, RowsAreShaped, HandIsShaped
<1>8. ASSUME NEW q \in LPage \ exposed', NEW r \in Request PROVE RequestIsCurrent(r, q)'
  <2>1. CASE q = p
    BY <1>1, <1>4, <2>1 DEF RequestIsCurrent, InWork
  <2>2. CASE q # p
    <3>1. RequestIsCurrent(r, q)
      BY <1>5, <2>2 DEF SpellInv, RequestsAreCurrent
    <3> QED
      BY <1>1, <1>2, <1>6, <2>2, <3>1 DEF RequestIsCurrent
  <2> QED
    BY <2>1, <2>2
<1>9. ASSUME NEW q \in LPage \ exposed', NEW b \in LBatch PROVE RowIsCurrent(b, q)'
  <2>1. CASE q = p
    BY <1>1, <1>3, <2>1 DEF RowIsCurrent
  <2>2. CASE q # p
    <3>1. RowIsCurrent(b, q)
      BY <1>5, <2>2 DEF SpellInv, RowsAreCurrent
    <3> QED
      BY <1>1, <1>2, <1>3, <1>6, <2>2, <3>1 DEF RowIsCurrent
  <2> QED
    BY <2>1, <2>2
<1>10. ASSUME NEW q \in LPage \ exposed' PROVE HandIsCurrent(q)'
  <2>1. CASE q = p
    BY <1>1, <1>4, <2>1 DEF HandIsCurrent, InWork
  <2>2. CASE q # p
    <3>1. HandIsCurrent(q)
      BY <1>5, <2>2 DEF SpellInv, HandsAreCurrent
    <3> QED
      BY <1>1, <1>2, <2>2, <3>1 DEF HandIsCurrent
  <2> QED
    BY <2>1, <2>2
<1>11. EditSurvives'
  BY <1>2, <1>5 DEF SpellInv, EditSurvives
<1> QED
  BY <1>2, <1>7, <1>8, <1>9, <1>10, <1>11
    DEF SpellInv, SpellShapes, RequestsAreCurrent, RowsAreCurrent, HandsAreCurrent

-----------------------------------------------------------------------------
(* The requests and their jobs.                                                 *)
LEMMA BecomesFree ==
  ASSUME NEW r, req' = [req EXCEPT ![r] = FreeRequest]
  PROVE  RequestBecomes(r, "free", {}, {}, NoText, NoStage)
  BY FreeRecords DEF RequestBecomes

LEMMA RequestParts ==
  ASSUME SpellInv, NEW r \in Request
  PROVE  /\ req[r] = ARequest(req[r].phase, req[r].pages, req[r].known, req[r].base, req[r].stage)
         /\ RequestIsShaped(r) /\ \A p \in LPage \ exposed : RequestIsCurrent(r, p)
         /\ req = [q \in Request |-> req[q]]
  BY DEF SpellInv, SpellShapes, RequestsAreShaped, RequestsAreCurrent

(* A field of a request that an action replaces.                                *)
LEMMA RequestField ==
  ASSUME SpellInv, NEW r \in Request, NEW v
  PROVE  /\ [req[r] EXCEPT !.phase = v]
               = ARequest(v, req[r].pages, req[r].known, req[r].base, req[r].stage)
         /\ [req[r] EXCEPT !.known = v]
               = ARequest(req[r].phase, req[r].pages, v, req[r].base, req[r].stage)
         /\ [req[r] EXCEPT !.stage = v]
               = ARequest(req[r].phase, req[r].pages, req[r].known, req[r].base, v)
<1> DEFINE q == ARequest(req[r].phase, req[r].pages, req[r].known, req[r].base, req[r].stage)
<1>1. req[r] = q
  BY RequestParts
<1>2. /\ [q EXCEPT !.phase = v]
            = ARequest(v, req[r].pages, req[r].known, req[r].base, req[r].stage)
      /\ [q EXCEPT !.known = v]
            = ARequest(req[r].phase, req[r].pages, v, req[r].base, req[r].stage)
      /\ [q EXCEPT !.stage = v]
            = ARequest(req[r].phase, req[r].pages, req[r].known, req[r].base, v)
  BY DEF ARequest
<1> QED
  BY <1>1, <1>2, Zenon

LEMMA ListingKeeps ==
  ASSUME SpellInv, NEW r \in Request,
         Lists(r) \/ ReadsTexts(r) \/ RequestFails(r) \/ Enqueues(r) \/ JobEnds(r)
  PROVE  SpellInv'
<1>1. UNCHANGED <<edits, ltext, lrow, newer, hand, exposed>>
  BY DEF Lists, ReadsTexts, RequestFails, Enqueues, JobEnds, ltexts
<1>2. RequestsAreShaped' /\ RequestsAreCurrent'
  <2>1. CASE Lists(r)
    <3>1. PICK force \in BOOLEAN, stale \in SUBSET LPage :
            req' = [req EXCEPT ![r] = [FreeRequest EXCEPT !.phase = "listed",
                      !.pages = Eligible(force, stale), !.known = Open]]
      BY <2>1 DEF Lists
    <3>2. [FreeRequest EXCEPT !.phase = "listed", !.pages = Eligible(force, stale), !.known = Open]
            = ARequest("listed", Eligible(force, stale), Open, NoText, NoStage)
      <4>1. [FreeRequest EXCEPT !.phase = "listed"] = ARequest("listed", {}, {}, NoText, NoStage)
        BY FreeRecords DEF ARequest
      <4>2. [ARequest("listed", {}, {}, NoText, NoStage) EXCEPT !.pages = Eligible(force, stale)]
              = ARequest("listed", Eligible(force, stale), {}, NoText, NoStage)
        BY DEF ARequest
      <4>3. [ARequest("listed", Eligible(force, stale), {}, NoText, NoStage) EXCEPT !.known = Open]
              = ARequest("listed", Eligible(force, stale), Open, NoText, NoStage)
        BY DEF ARequest
      <4> QED
        BY <4>1, <4>2, <4>3, Zenon
    <3>3. RequestBecomes(r, "listed", Eligible(force, stale), Open, NoText, NoStage)
      BY <3>1, <3>2, FreeRecords DEF RequestBecomes
    <3> QED
      BY <1>1, <3>3, RequestMoves
  <2>2. CASE ReadsTexts(r)
    <3>1. /\ req[r].phase = "listed"
          /\ req' = [req EXCEPT ![r] = [req[r] EXCEPT !.phase = "read", !.base = ltext]]
      BY <2>2, RequestParts DEF ReadsTexts
    <3>2. req' = [req EXCEPT ![r] = ARequest("read", req[r].pages, req[r].known, ltext, req[r].stage)]
      <4>1. [req[r] EXCEPT !.phase = "read"]
              = ARequest("read", req[r].pages, req[r].known, req[r].base, req[r].stage)
        BY RequestField
      <4>2. [ARequest("read", req[r].pages, req[r].known, req[r].base, req[r].stage) EXCEPT !.base = ltext]
              = ARequest("read", req[r].pages, req[r].known, ltext, req[r].stage)
        BY DEF ARequest
      <4> QED
        BY <3>1, <4>1, <4>2, Zenon
    <3>3. req[r].stage = NoStage /\ ltext = [p \in LPage |-> ltext[p]]
      BY <3>1, RequestParts DEF RequestIsShaped, SpellInv, SpellShapes, TextsAreShaped
    <3>4. \A p \in LPage \ exposed : ltext[p] = edits[p]
      BY DEF SpellInv, EditSurvives
    <3>5. RequestBecomes(r, "read", req[r].pages, req[r].known, ltext, req[r].stage)
      BY <3>1, <3>2, <3>3, <3>4, FreeRecords, RequestParts DEF RequestBecomes, RequestIsCurrent
    <3> QED
      BY <1>1, <3>5, RequestMoves
  <2>3. CASE RequestFails(r) \/ JobEnds(r)
    <3>1. RequestBecomes(r, "free", {}, {}, NoText, NoStage)
      BY <2>3, BecomesFree DEF RequestFails, JobEnds
    <3> QED
      BY <1>1, <3>1, RequestMoves
  <2>4. CASE Enqueues(r)
    <3>1. req' = [req EXCEPT ![r] = [req[r] EXCEPT !.phase = "working", !.stage = ToDo(req[r].pages)]]
      BY <2>4, RequestParts DEF Enqueues
    <3>2. req' = [req EXCEPT ![r] =
                    ARequest("working", req[r].pages, req[r].known, req[r].base, ToDo(req[r].pages))]
      <4>1. [req[r] EXCEPT !.phase = "working"]
              = ARequest("working", req[r].pages, req[r].known, req[r].base, req[r].stage)
        BY RequestField
      <4>2. [ARequest("working", req[r].pages, req[r].known, req[r].base, req[r].stage) EXCEPT !.stage = ToDo(req[r].pages)]
              = ARequest("working", req[r].pages, req[r].known, req[r].base, ToDo(req[r].pages))
        BY DEF ARequest
      <4> QED
        BY <3>1, <4>1, <4>2, Zenon
    <3>3. /\ ToDo(req[r].pages) = [p \in LPage |-> ToDo(req[r].pages)[p]]
          /\ \A p \in LPage : ToDo(req[r].pages)[p] # "asked"
      BY DEF ToDo
    <3>4. RequestBecomes(r, "working", req[r].pages, req[r].known, req[r].base, ToDo(req[r].pages))
      BY <3>2, <3>3, RequestParts DEF RequestBecomes, RequestIsShaped
    <3> QED
      BY <1>1, <3>4, RequestMoves
  <2> QED
    BY <2>1, <2>2, <2>3, <2>4
<1> QED
  BY <1>1, <1>2, StillRows, StillHand, StillTexts DEF SpellInv, SpellShapes

LEMMA EnqueueFailsKeeps ==
  ASSUME SpellInv, NEW r \in Request, EnqueueFails(r)
  PROVE  SpellInv'
<1>1. /\ UNCHANGED <<edits, ltext, lrow, hand, exposed>> /\ newer' = Touched(req[r].pages)
      /\ req' = [req EXCEPT ![r] = FreeRequest]
  BY DEF EnqueueFails, ltexts
<1>2. RequestsAreShaped' /\ RequestsAreCurrent'
  BY <1>1, BecomesFree, RequestMoves
<1> QED
  BY <1>1, <1>2, TouchingStays, StillHand, StillTexts DEF SpellInv, SpellShapes

(* last_updated goes back only past batches that were submitted after the       *)
(* request listed its pages: they have the same texts.                          *)
LEMMA MarkingKeeps ==
  ASSUME SpellInv, NEW r \in Request, MarksPages(r)
  PROVE  SpellInv'
<1>1. /\ UNCHANGED <<edits, ltext, lrow, hand, exposed>> /\ req[r].phase = "listed"
      /\ newer' = Backdated(req[r].pages, req[r].known)
      /\ req' = [req EXCEPT ![r] = [req[r] EXCEPT !.phase = "marked", !.known = {}]]
  BY RequestParts DEF MarksPages, ltexts
<1>2. RequestsAreShaped' /\ RequestsAreCurrent'
  <2>1. req' = [req EXCEPT ![r] = ARequest("marked", req[r].pages, {}, req[r].base, req[r].stage)]
    <3>1. [req[r] EXCEPT !.phase = "marked"]
            = ARequest("marked", req[r].pages, req[r].known, req[r].base, req[r].stage)
      BY RequestField
    <3>2. [ARequest("marked", req[r].pages, req[r].known, req[r].base, req[r].stage) EXCEPT !.known = {}]
            = ARequest("marked", req[r].pages, {}, req[r].base, req[r].stage)
      BY DEF ARequest
    <3> QED
      BY <1>1, <3>1, <3>2, Zenon
  <2>2. RequestBecomes(r, "marked", req[r].pages, {}, req[r].base, req[r].stage)
    BY <1>1, <2>1, FreeRecords, RequestParts DEF RequestBecomes, RequestIsShaped
  <2> QED
    BY <1>1, <2>2, RequestMoves
<1>3. RowsAreShaped' /\ RowsAreCurrent' /\ Open' = Open
  <2>1. newer' = [b \in LBatch |-> newer'[b]]
    BY <1>1 DEF Backdated
  <2>2. ASSUME NEW b \in Open, NEW p \in LPage \ exposed,
               p \in newer[b], p \in lrow[b].pages, p \notin newer'[b]
        PROVE  lrow[b].base[p] = edits[p]
    <3>1. b \in LBatch
      BY DEF Open
    <3>2. b \notin req[r].known /\ p \in req[r].pages
      BY <1>1, <2>2, <3>1 DEF Backdated
    <3> QED
      BY <1>1, <2>2, <3>2, RequestParts DEF RequestIsCurrent
  <2> QED
    BY <1>1, <2>1, <2>2, RowsStay
<1> QED
  BY <1>1, <1>2, <1>3, StillHand, StillTexts DEF SpellInv, SpellShapes

LEMMA RequestDiesKeeps ==
  ASSUME SpellInv, NEW r \in Request, RequestDies(r)
  PROVE  SpellInv'
<1>1. UNCHANGED <<edits, ltext, lrow, newer, hand, exposed>>
  BY DEF RequestDies, ltexts
<1>2. RequestsAreShaped' /\ RequestsAreCurrent'
  <2>1. CASE req' = [req EXCEPT ![r] = FreeRequest]
    BY <1>1, <2>1, BecomesFree, RequestMoves
  <2>2. CASE /\ req[r].phase = "working"
             /\ req' = [req EXCEPT ![r].stage = ToDo(req[r].pages), ![r].base = NoText]
    <3>1. req' = [req EXCEPT ![r] = [req[r] EXCEPT !.stage = ToDo(req[r].pages), !.base = NoText]]
      BY <2>2, RequestParts
    <3>2. req' = [req EXCEPT ![r] =
                    ARequest("working", req[r].pages, req[r].known, NoText, ToDo(req[r].pages))]
      <4>1. [req[r] EXCEPT !.stage = ToDo(req[r].pages)]
              = ARequest(req[r].phase, req[r].pages, req[r].known, req[r].base, ToDo(req[r].pages))
        BY RequestField
      <4>2. [ARequest(req[r].phase, req[r].pages, req[r].known, req[r].base, ToDo(req[r].pages)) EXCEPT !.base = NoText]
              = ARequest(req[r].phase, req[r].pages, req[r].known, NoText, ToDo(req[r].pages))
        BY DEF ARequest
      <4> QED
        BY <2>2, <3>1, <4>1, <4>2, Zenon
    <3>3. /\ ToDo(req[r].pages) = [p \in LPage |-> ToDo(req[r].pages)[p]]
          /\ \A p \in LPage : ToDo(req[r].pages)[p] # "asked"
      BY DEF ToDo
    <3>4. RequestBecomes(r, "working", req[r].pages, req[r].known, NoText, ToDo(req[r].pages))
      BY <3>2, <3>3, FreeRecords DEF RequestBecomes
    <3> QED
      BY <1>1, <3>4, RequestMoves
  <2> QED
    BY <2>1, <2>2 DEF RequestDies
<1> QED
  BY <1>1, <1>2, StillRows, StillHand, StillTexts DEF SpellInv, SpellShapes

(* The job moves on at a page.                                                  *)
LEMMA PageOfJob ==
  ASSUME SpellInv, NEW r \in Request, NEW p \in LPage, NEW sv, NEW bv,
         req[r].stage[p] # "none", sv = "asked" /\ p \notin exposed => bv = edits[p],
         UNCHANGED <<edits, lrow, exposed>>,
         \/ req' = [req EXCEPT ![r].stage[p] = sv, ![r].base[p] = bv]
         \/ req' = [req EXCEPT ![r].stage[p] = sv] /\ bv = req[r].base[p]
  PROVE  RequestsAreShaped' /\ RequestsAreCurrent'
<1> DEFINE t == [req[r].base EXCEPT ![p] = bv]
           s == [req[r].stage EXCEPT ![p] = sv]
<1>1. req[r].phase = "working"
  BY FreeRecords, RequestParts DEF RequestIsShaped
<1>2. /\ t = [q \in LPage |-> t[q]] /\ t[p] = bv /\ \A q \in LPage : q # p => t[q] = req[r].base[q]
      /\ s = [q \in LPage |-> s[q]] /\ s[p] = sv /\ \A q \in LPage : q # p => s[q] = req[r].stage[q]
  BY RequestParts DEF RequestIsShaped
<1>3. req' = [req EXCEPT ![r] = ARequest(req[r].phase, req[r].pages, req[r].known, t, s)]
  <2>1. CASE req' = [req EXCEPT ![r].stage[p] = sv, ![r].base[p] = bv]
    <3> DEFINE f == [req EXCEPT ![r].stage[p] = sv]
               c == ARequest(req[r].phase, req[r].pages, req[r].known, req[r].base, s)
    <3>1. f = [req EXCEPT ![r] = [req[r] EXCEPT !.stage = s]]
      OBVIOUS
    <3>2. [req[r] EXCEPT !.stage = s] = c
      BY RequestField
    <3>3. f = [req EXCEPT ![r] = c]
      BY <3>1, <3>2, Zenon
    <3>4. f[r] = c /\ c.base = req[r].base
      BY <3>3, RequestParts DEF ARequest
    <3>5. req' = [f EXCEPT ![r].base[p] = bv]
      BY <2>1
    <3>6. [f EXCEPT ![r].base[p] = bv] = [f EXCEPT ![r] = [f[r] EXCEPT !.base = [f[r].base EXCEPT ![p] = bv]]]
      OBVIOUS
    <3>7. req' = [f EXCEPT ![r] = [c EXCEPT !.base = t]]
      BY <3>4, <3>5, <3>6, Zenon
    <3>8. [c EXCEPT !.base = t] = ARequest(req[r].phase, req[r].pages, req[r].known, t, s)
      BY DEF ARequest
    <3>9. req' = [f EXCEPT ![r] = ARequest(req[r].phase, req[r].pages, req[r].known, t, s)]
      BY <3>7, <3>8, Zenon
    <3> QED
      BY <3>3, <3>9, RequestParts
  <2>2. CASE req' = [req EXCEPT ![r].stage[p] = sv] /\ bv = req[r].base[p]
    <3>1. req' = [req EXCEPT ![r] = [req[r] EXCEPT !.stage = s]]
      BY <2>2, RequestParts
    <3>2. [req[r] EXCEPT !.stage = s]
            = ARequest(req[r].phase, req[r].pages, req[r].known, req[r].base, s)
      BY RequestField
    <3>3. t = req[r].base
      <4>1. req[r].base = [q \in LPage |-> req[r].base[q]]
        BY RequestParts DEF RequestIsShaped
      <4> QED
        BY <2>2, <4>1
    <3> QED
      BY <3>1, <3>2, <3>3
  <2> QED
    BY <2>1, <2>2
<1>4. \A q \in LPage \ exposed : s[q] = "asked" => t[q] = edits[q]
  <2> SUFFICES ASSUME NEW q \in LPage \ exposed, s[q] = "asked" PROVE t[q] = edits[q]
    OBVIOUS
  <2>1. CASE q = p
    BY <1>2, <2>1
  <2>2. CASE q # p
    BY <1>2, <2>2, RequestParts DEF RequestIsCurrent
  <2> QED
    BY <2>1, <2>2
<1>5. RequestBecomes(r, req[r].phase, req[r].pages, req[r].known, t, s)
  BY <1>1, <1>2, <1>3, <1>4 DEF RequestBecomes
<1> QED
  BY <1>5, RequestMoves

LEMMA JobReadsKeeps ==
  ASSUME SpellInv, NEW r \in Request, NEW p \in LPage, JobReads(r, p)
  PROVE  SpellInv'
<1>1. UNCHANGED <<edits, ltext, lrow, hand, exposed>> /\ req[r].stage[p] # "none"
  BY DEF JobReads, ltexts
<1>2. CASE p \in blank
  <2>1. newer' = Touched({p}) /\ req' = [req EXCEPT ![r].stage[p] = "none"]
    BY <1>2 DEF JobReads
  <2>2. RequestsAreShaped' /\ RequestsAreCurrent'
    BY <1>1, <2>1, PageOfJob
  <2> QED
    BY <1>1, <2>1, <2>2, TouchingStays, StillHand, StillTexts DEF SpellInv, SpellShapes
<1>3. CASE p \notin blank
  <2>1. newer' = newer /\ req' = [req EXCEPT ![r].stage[p] = "asked", ![r].base[p] = ltext[p]]
    BY <1>3 DEF JobReads
  <2>2. p \notin exposed => ltext[p] = edits[p]
    BY DEF SpellInv, EditSurvives
  <2>3. RequestsAreShaped' /\ RequestsAreCurrent'
    BY <1>1, <2>1, <2>2, PageOfJob
  <2> QED
    BY <1>1, <2>1, <2>3, StillRows, StillHand, StillTexts DEF SpellInv, SpellShapes
<1> QED
  BY <1>2, <1>3

LEMMA JobWritesKeeps ==
  ASSUME SpellInv, NEW r \in Request, NEW p \in LPage, JobApplies(r, p) \/ JobFailsPage(r, p)
  PROVE  SpellInv'
<1>1. /\ UNCHANGED <<edits, lrow, hand, exposed>> /\ req[r].stage[p] = "asked"
      /\ newer' = Touched({p}) /\ req' = [req EXCEPT ![r].stage[p] = "none", ![r].base[p] = 0]
      /\ ltext' = ltext \/ ltext' = [ltext EXCEPT ![p] = req[r].base[p]]
  BY DEF JobApplies, JobFailsPage, Left, StoresCorrection, ltexts
<1>2. RequestsAreShaped' /\ RequestsAreCurrent'
  <2>1. PICK sv, bv : sv = "none" /\ bv = 0
    OBVIOUS
  <2>2. /\ req[r].stage[p] # "none" /\ sv # "asked" /\ UNCHANGED <<edits, lrow, exposed>>
        /\ req' = [req EXCEPT ![r].stage[p] = sv, ![r].base[p] = bv]
    BY <1>1, <2>1
  <2> QED
    BY <2>2, PageOfJob
<1>3. TextsAreShaped' /\ EditSurvives'
  <2>1. p \notin exposed => req[r].base[p] = edits[p]
    BY <1>1, RequestParts DEF RequestIsCurrent
  <2> QED
    BY <1>1, <2>1, StillTexts, CorrectedTexts
<1> QED
  BY <1>1, <1>2, <1>3, TouchingStays, StillHand DEF SpellInv, SpellShapes

-----------------------------------------------------------------------------
(* The poller, which changes no row until it closes it.                         *)
HandBecomes(w, l, g, k) ==
  /\ w \subseteq Open /\ \A b \in w : l \subseteq lrow[b].pages
  /\ \A p \in LPage \ exposed : p \in g /\ ~k => \A b \in w : lrow[b].base[p] = edits[p]

LEMMA HandMoves ==
  ASSUME SpellInv, NEW w, NEW l, NEW g, NEW k, NEW m, NEW o,
         hand' = AHand(w, l, g, k, m, o), HandBecomes(w, l, g, k), UNCHANGED <<edits, lrow, exposed>>
  PROVE  HandIsShaped' /\ HandsAreCurrent'
<1>1. /\ hand'.row = w /\ hand'.lines = l /\ hand'.page = g /\ hand'.skip = k
      /\ hand' = AHand(hand'.row, hand'.lines, hand'.page, hand'.skip, hand'.same, hand'.ok)
  BY DEF AHand
<1>2. Open' = Open
  BY DEF Open
<1>3. HandIsShaped'
  BY <1>1, <1>2 DEF HandIsShaped, HandBecomes
<1>4. HandsAreCurrent'
  BY <1>1 DEF HandsAreCurrent, HandIsCurrent, HandBecomes
<1> QED
  BY <1>3, <1>4

LEMMA HandField ==
  ASSUME SpellInv
  PROVE  /\ hand = AHand(hand.row, hand.lines, hand.page, hand.skip, hand.same, hand.ok)
         /\ hand.row \subseteq Open /\ \A b \in hand.row : hand.lines \subseteq lrow[b].pages
         /\ \A p \in LPage \ exposed : HandIsCurrent(p)
  BY DEF SpellInv, SpellShapes, HandIsShaped, HandsAreCurrent

(* The hand has nothing of the page any more.                                   *)
LEMMA LetsGo ==
  ASSUME SpellInv, NEW k, NEW o, NEW L, L \subseteq hand.lines, UNCHANGED <<edits, lrow, exposed>>,
         hand' = AHand(hand.row, L, {}, k, k, o)
  PROVE  HandIsShaped' /\ HandsAreCurrent'
<1>1. HandBecomes(hand.row, L, {}, k)
  BY HandField DEF HandBecomes
<1> QED
  BY <1>1, HandMoves

HandTakes(g, l, k, m) == [hand EXCEPT !.page = g, !.lines = l, !.skip = k, !.same = m]
HandDone(g, k, m, o) == [hand EXCEPT !.page = g, !.skip = k, !.same = m, !.ok = o]
HandDrops(g, k, m, l) == [hand EXCEPT !.page = g, !.skip = k, !.same = m, !.lines = l]

LEMMA FieldsOfHand ==
  ASSUME SpellInv, NEW l, NEW k, NEW m, NEW o, NEW g
  PROVE  /\ HandTakes(g, l, k, m) = AHand(hand.row, l, g, k, m, hand.ok)
         /\ HandDone(g, k, m, o) = AHand(hand.row, hand.lines, g, k, m, o)
         /\ HandDrops(g, k, m, l) = AHand(hand.row, l, g, k, m, hand.ok)
<1> DEFINE q == AHand(hand.row, hand.lines, hand.page, hand.skip, hand.same, hand.ok)
<1>1. hand = q
  BY HandField
<1>2. /\ [hand EXCEPT !.page = g, !.lines = l, !.skip = k, !.same = m]
            = [[[[hand EXCEPT !.page = g] EXCEPT !.lines = l] EXCEPT !.skip = k] EXCEPT !.same = m]
      /\ [hand EXCEPT !.page = g, !.skip = k, !.same = m, !.ok = o]
            = [[[[hand EXCEPT !.page = g] EXCEPT !.skip = k] EXCEPT !.same = m] EXCEPT !.ok = o]
      /\ [hand EXCEPT !.page = g, !.skip = k, !.same = m, !.lines = l]
            = [[[[hand EXCEPT !.page = g] EXCEPT !.skip = k] EXCEPT !.same = m] EXCEPT !.lines = l]
  OBVIOUS
<1>3. [q EXCEPT !.page = g] = AHand(hand.row, hand.lines, g, hand.skip, hand.same, hand.ok)
  BY DEF AHand
<1>4. [AHand(hand.row, hand.lines, g, hand.skip, hand.same, hand.ok) EXCEPT !.lines = l]
        = AHand(hand.row, l, g, hand.skip, hand.same, hand.ok)
  BY DEF AHand
<1>5. [AHand(hand.row, l, g, hand.skip, hand.same, hand.ok) EXCEPT !.skip = k]
        = AHand(hand.row, l, g, k, hand.same, hand.ok)
  BY DEF AHand
<1>6. [AHand(hand.row, l, g, k, hand.same, hand.ok) EXCEPT !.same = m]
        = AHand(hand.row, l, g, k, m, hand.ok)
  BY DEF AHand
<1>7. [AHand(hand.row, hand.lines, g, hand.skip, hand.same, hand.ok) EXCEPT !.skip = k]
        = AHand(hand.row, hand.lines, g, k, hand.same, hand.ok)
  BY DEF AHand
<1>8. [AHand(hand.row, hand.lines, g, k, hand.same, hand.ok) EXCEPT !.same = m]
        = AHand(hand.row, hand.lines, g, k, m, hand.ok)
  BY DEF AHand
<1>9. /\ [AHand(hand.row, hand.lines, g, k, m, hand.ok) EXCEPT !.ok = o]
            = AHand(hand.row, hand.lines, g, k, m, o)
      /\ [AHand(hand.row, hand.lines, g, k, m, hand.ok) EXCEPT !.lines = l]
            = AHand(hand.row, l, g, k, m, hand.ok)
  BY DEF AHand
<1>10. /\ [[[[hand EXCEPT !.page = g] EXCEPT !.lines = l] EXCEPT !.skip = k] EXCEPT !.same = m]
             = AHand(hand.row, l, g, k, m, hand.ok)
       /\ [[[hand EXCEPT !.page = g] EXCEPT !.skip = k] EXCEPT !.same = m]
             = AHand(hand.row, hand.lines, g, k, m, hand.ok)
  BY <1>1, <1>3, <1>4, <1>5, <1>6, <1>7, <1>8, Zenon
<1> QED
  BY <1>2, <1>9, <1>10, Zenon DEF HandTakes, HandDone, HandDrops

LEMMA FieldsOfIdleHand ==
  ASSUME NEW w, NEW l
  PROVE  [IdleHand EXCEPT !.row = w, !.lines = l] = AHand(w, l, {}, FALSE, FALSE, {})
<1>1. PICK no : no = FALSE
  OBVIOUS
<1>2. [IdleHand EXCEPT !.row = w, !.lines = l] = [[IdleHand EXCEPT !.row = w] EXCEPT !.lines = l]
  OBVIOUS
<1>3. IdleHand = AHand({}, {}, {}, no, no, {})
  BY <1>1, FreeRecords, Zenon
<1>4. [AHand({}, {}, {}, no, no, {}) EXCEPT !.row = w] = AHand(w, {}, {}, no, no, {})
  BY DEF AHand
<1>5. [AHand(w, {}, {}, no, no, {}) EXCEPT !.lines = l] = AHand(w, l, {}, no, no, {})
  BY DEF AHand
<1> QED
  BY <1>1, <1>2, <1>3, <1>4, <1>5, Zenon

LEMMA OpeningKeeps ==
  ASSUME SpellInv, PollerDies \/ \E b \in LBatch : OpensOutput(b)
  PROVE  SpellInv'
<1>1. UNCHANGED <<edits, ltext, lrow, newer, req, exposed>>
  BY DEF PollerDies, OpensOutput, ltexts
<1>2. CASE PollerDies
  <2>1. hand' = AHand({}, {}, {}, FALSE, FALSE, {}) /\ HandBecomes({}, {}, {}, FALSE)
    BY <1>2, FreeRecords DEF PollerDies, HandBecomes
  <2>2. HandIsShaped' /\ HandsAreCurrent'
    BY <1>1, <2>1, HandMoves
  <2> QED
    BY <1>1, <2>2, StillRows, StillRequests, StillTexts DEF SpellInv, SpellShapes
<1>3. ASSUME NEW b \in LBatch, OpensOutput(b) PROVE SpellInv'
  <2>1. hand' = AHand({b}, lrow[b].pages, {}, FALSE, FALSE, {})
    BY <1>3, FieldsOfIdleHand DEF OpensOutput
  <2>2. b \in Open
    BY <1>3 DEF OpensOutput, Open, SpellInv, SpellShapes, RowsAreShaped
  <2>3. HandBecomes({b}, lrow[b].pages, {}, FALSE)
    BY <2>2 DEF HandBecomes
  <2>4. HandIsShaped' /\ HandsAreCurrent'
    BY <1>1, <1>3, <2>1, <2>3, HandMoves DEF OpensOutput
  <2> QED
    BY <1>1, <2>4, StillRows, StillRequests, StillTexts DEF SpellInv, SpellShapes
<1> QED
  BY <1>2, <1>3

(* A page that is taken up has its last edit in the row or is skipped.          *)
LEMMA LoadingKeeps ==
  ASSUME SpellInv, NEW p \in LPage, LoadsPage(p)
  PROVE  SpellInv'
<1>1. UNCHANGED <<edits, ltext, lrow, newer, req, exposed>> /\ p \in hand.lines
  BY DEF LoadsPage, ltexts
<1>2. PICK k : k = Updated(p)
  OBVIOUS
<1>3. PICK m : hand' = AHand(hand.row, hand.lines \ {p}, {p}, k, m, hand.ok)
  <2>1. PICK same : hand' = [hand EXCEPT !.page = {p}, !.lines = @ \ {p}, !.skip = Updated(p),
                                         !.same = same /\ ~Updated(p)]
    BY Zenon DEF LoadsPage
  <2>2. PICK m : m = (same /\ ~Updated(p))
    OBVIOUS
  <2>3. hand' = HandTakes({p}, hand.lines \ {p}, k, m)
    BY <1>2, <2>1, <2>2, Zenon DEF HandTakes
  <2> QED
    BY <2>3, FieldsOfHand
<1>4. ~k => ~Updated(p)
  BY <1>2, Zenon
<1>5. HandBecomes(hand.row, hand.lines \ {p}, {p}, k)
  <2>1. ASSUME NEW q \in LPage \ exposed, q = p, ~Updated(p), NEW b \in hand.row
        PROVE  lrow[b].base[q] = edits[q]
    <3>1. b \in Open /\ b \in LBatch /\ p \in lrow[b].pages
      BY <1>1, HandField DEF Open
    <3>2. p \notin newer[b]
      BY <2>1 DEF Updated
    <3> QED
      BY <2>1, <3>1, <3>2 DEF SpellInv, RowsAreCurrent, RowIsCurrent
  <2> QED
    BY <1>4, <2>1, HandField DEF HandBecomes
<1>6. HandIsShaped' /\ HandsAreCurrent'
  BY <1>1, <1>3, <1>5, HandMoves
<1> QED
  BY <1>1, <1>6, StillRows, StillRequests, StillTexts DEF SpellInv, SpellShapes

LEMMA HandlingKeeps ==
  ASSUME SpellInv, NEW p \in LPage, SkipsPage(p) \/ AppliesPage(p) \/ RefusesPage(p)
  PROVE  SpellInv'
<1>0. PICK no : no = FALSE
  OBVIOUS
<1>1. UNCHANGED <<edits, lrow, req, exposed>>
  BY DEF SkipsPage, AppliesPage, RefusesPage, StoresCorrection, ltexts
<1>2. HandIsShaped' /\ HandsAreCurrent'
  <2>1. CASE SkipsPage(p) \/ AppliesPage(p)
    <3>1. hand' = HandDone({}, no, no, hand.ok \cup {p})
      BY <1>0, <2>1, Zenon DEF HandDone, SkipsPage, AppliesPage, Handled
    <3>2. hand' = AHand(hand.row, hand.lines, {}, no, no, hand.ok \cup {p})
      BY <3>1, FieldsOfHand
    <3> QED
      BY <1>1, <3>2, LetsGo
  <2>2. CASE RefusesPage(p)
    <3>1. hand' = HandDrops({}, no, no, hand.lines \ {p})
      BY <1>0, <2>2, Zenon DEF HandDrops, RefusesPage
    <3>2. hand' = AHand(hand.row, hand.lines \ {p}, {}, no, no, hand.ok)
      BY <3>1, FieldsOfHand
    <3> QED
      BY <1>1, <3>2, LetsGo
  <2> QED
    BY <2>1, <2>2
<1>3. RowsAreShaped' /\ RowsAreCurrent'
  <2>1. newer' = newer \/ newer' = Touched({p})
    BY DEF SkipsPage, AppliesPage, RefusesPage
  <2> QED
    BY <1>1, <2>1, StillRows, TouchingStays
<1>4. TextsAreShaped' /\ EditSurvives'
  <2>1. CASE ltext' = ltext
    BY <1>1, <2>1, StillTexts
  <2>2. CASE AppliesPage(p) /\ ltext' # ltext
    <3>1. PICK b \in hand.row : ltext' = [ltext EXCEPT ![p] = lrow[b].base[p]]
      BY <2>2 DEF AppliesPage, StoresCorrection, ltexts
    <3>2. p \notin exposed => lrow[b].base[p] = edits[p]
      BY <2>2, HandField DEF AppliesPage, HandIsCurrent
    <3> QED
      BY <1>1, <3>1, <3>2, CorrectedTexts
  <2> QED
    BY <2>1, <2>2 DEF SkipsPage, RefusesPage, ltexts
<1> QED
  BY <1>1, <1>2, <1>3, <1>4, StillRequests DEF SpellInv, SpellShapes

-----------------------------------------------------------------------------
(* The rows.                                                                    *)
Forgotten(S, b) ==
  [q \in Request |-> IF q \in S THEN FreeRequest ELSE [req[q] EXCEPT !.known = req[q].known \ {b}]]

LEMMA Forgets ==
  ASSUME SpellInv, NEW b, NEW S \in SUBSET Request, req' = Forgotten(S, b)
  PROVE  /\ RequestsAreShaped'
         /\ \A q \in S : req'[q].phase = "free" /\ req'[q].stage = NoStage
         /\ \A q \in Request \ S :
              /\ req'[q].phase = req[q].phase /\ req'[q].pages = req[q].pages
              /\ req'[q].known = req[q].known \ {b}
              /\ req'[q].base = req[q].base /\ req'[q].stage = req[q].stage
<1>0. req' = [q \in Request |-> IF q \in S THEN FreeRequest
                               ELSE [req[q] EXCEPT !.known = req[q].known \ {b}]]
  BY DEF Forgotten
<1>1. ASSUME NEW q \in S
      PROVE  /\ req'[q] = ARequest("free", {}, {}, NoText, NoStage) /\ RequestIsShaped(q)'
             /\ req'[q].phase = "free" /\ req'[q].stage = NoStage
  <2>1. req'[q] = ARequest("free", {}, {}, NoText, NoStage)
    BY <1>0, FreeRecords
  <2>2. /\ req'[q].phase = "free" /\ req'[q].stage = NoStage /\ req'[q].base = NoText
    BY <2>1 DEF ARequest
  <2> QED
    BY <2>1, <2>2, FreeRecords DEF RequestIsShaped
<1>2. ASSUME NEW q \in Request \ S
      PROVE  /\ req'[q] = ARequest(req[q].phase, req[q].pages, req[q].known \ {b}, req[q].base, req[q].stage)
             /\ req'[q].phase = req[q].phase /\ req'[q].pages = req[q].pages
             /\ req'[q].known = req[q].known \ {b}
             /\ req'[q].base = req[q].base /\ req'[q].stage = req[q].stage
             /\ RequestIsShaped(q)'
  <2>1. req'[q] = [req[q] EXCEPT !.known = req[q].known \ {b}]
    BY <1>0
  <2>2. req'[q] = ARequest(req[q].phase, req[q].pages, req[q].known \ {b}, req[q].base, req[q].stage)
    BY <2>1, RequestField
  <2>3. /\ req'[q].phase = req[q].phase /\ req'[q].pages = req[q].pages
        /\ req'[q].known = req[q].known \ {b}
        /\ req'[q].base = req[q].base /\ req'[q].stage = req[q].stage
    BY <2>2 DEF ARequest
  <2>4. RequestIsShaped(q)'
    BY <2>3, RequestParts DEF RequestIsShaped
  <2> QED
    BY <2>2, <2>3, <2>4
<1>3. req' = [q \in Request |-> ARequest(req'[q].phase, req'[q].pages, req'[q].known,
                                       req'[q].base, req'[q].stage)]
  <2>1. ASSUME NEW q \in Request
        PROVE  req'[q] = ARequest(req'[q].phase, req'[q].pages, req'[q].known, req'[q].base, req'[q].stage)
    <3>1. CASE q \in S
      BY <1>1, <3>1 DEF ARequest
    <3>2. CASE q \notin S
      BY <1>2, <3>2
    <3> QED
      BY <3>1, <3>2
  <2>2. req' = [q \in Request |-> req'[q]]
    BY <1>0
  <2> QED
    BY <2>1, <2>2
<1>4. \A q \in Request : RequestIsShaped(q)'
  BY <1>1, <1>2
<1>5. RequestsAreShaped'
  BY <1>3, <1>4 DEF RequestsAreShaped
<1> QED
  BY <1>1, <1>2, <1>5

LEMMA SubmittingKeeps ==
  ASSUME SpellInv, NEW r \in Request, NEW b \in LBatch, SubmitCommits(r, b)
  PROVE  SpellInv'
<1> DEFINE P == req[r].pages
           t == [p \in LPage |-> IF p \in P THEN req[r].base[p] ELSE 0]
           fresh == ABatchRow("submitting", "runs", P, t)
<1>1. /\ UNCHANGED <<edits, ltext, hand, exposed>> /\ req[r].phase = "read" /\ b \notin Open
      /\ lrow' = [lrow EXCEPT ![b] = fresh]
      /\ newer' = [Backdated(P, req[r].known) EXCEPT ![b] = {}]
      /\ req' = Forgotten({r}, b)
  BY DEF SubmitCommits, ABatchRow, ltexts, Forgotten
<1>2. /\ lrow'[b] = fresh /\ \A c \in LBatch : c # b => lrow'[c] = lrow[c]
      /\ lrow' = [c \in LBatch |-> ABatchRow(lrow'[c].status, lrow'[c].remote, lrow'[c].pages, lrow'[c].base)]
  BY <1>1 DEF SpellInv, SpellShapes, RowsAreShaped, ABatchRow
<1>3. lrow'[b].status = "submitting" /\ lrow'[b].pages = P /\ lrow'[b].base = t
  BY <1>2 DEF ABatchRow
<1>4. Open' = Open \cup {b}
  BY <1>2, <1>3 DEF Open
<1>5. \A p \in LPage \ exposed : p \in P => t[p] = edits[p]
  BY <1>1, RequestParts DEF RequestIsCurrent
<1>6. /\ RequestsAreShaped'
      /\ req'[r].phase = "free" /\ req'[r].stage = NoStage
      /\ \A q \in Request \ {r} :
           /\ req'[q].phase = req[q].phase /\ req'[q].pages = req[q].pages
           /\ req'[q].known = req[q].known \ {b}
           /\ req'[q].base = req[q].base /\ req'[q].stage = req[q].stage
  <2>1. {r} \in SUBSET Request /\ r \in {r}
    OBVIOUS
  <2> QED
    BY <1>1, <2>1, Forgets
<1>7. RowsAreShaped'
  <2>1. newer' = [c \in LBatch |-> newer'[c]]
    BY <1>1 DEF Backdated
  <2>2. \A c \in LBatch : lrow'[c].status = "none" => lrow'[c].remote = "none"
    BY <1>2, <1>3 DEF SpellInv, SpellShapes, RowsAreShaped
  <2> QED
    BY <1>2, <2>1, <2>2 DEF RowsAreShaped
<1>8. HandIsShaped'
  <2>1. b \notin hand.row /\ hand' = hand /\ hand.row \subseteq LBatch
    BY <1>1, HandField DEF Open
  <2> QED
    BY <1>2, <1>4, <2>1, HandField DEF HandIsShaped
<1>9. HandsAreCurrent'
  <2>1. b \notin hand.row /\ hand' = hand /\ hand.row \subseteq LBatch
    BY <1>1, HandField DEF Open
  <2> QED
    BY <1>1, <1>2, <2>1, HandField DEF HandsAreCurrent, HandIsCurrent
<1>10. ASSUME NEW q \in Request, NEW p \in LPage \ exposed PROVE RequestIsCurrent(q, p)'
  <2>1. CASE q = r
    BY <1>6, <2>1, FreeRecords DEF RequestIsCurrent
  <2>2. CASE q # r
    <3>1. RequestIsCurrent(q, p)
      BY RequestParts
    <3>2. ASSUME req[q].phase \in {"listed", "read"}, p \in req[q].pages,
                 NEW c \in Open' \ req'[q].known, p \in lrow'[c].pages
          PROVE  lrow'[c].base[p] = edits[p]
      <4>1. CASE c = b
        BY <1>3, <1>5, <3>2, <4>1
      <4>2. CASE c # b
        <5>1. c \in Open \ req[q].known /\ c \in LBatch /\ lrow'[c] = lrow[c]
          BY <1>2, <1>4, <1>6, <2>2, <3>2, <4>2 DEF Open
        <5> QED
          BY <3>1, <3>2, <5>1 DEF RequestIsCurrent
      <4> QED
        BY <4>1, <4>2
    <3>3. /\ edits' = edits /\ req'[q].phase = req[q].phase /\ req'[q].pages = req[q].pages
          /\ req'[q].base = req[q].base /\ req'[q].stage = req[q].stage
      BY <1>1, <1>6, <2>2
    <3> QED
      BY <3>1, <3>2, <3>3 DEF RequestIsCurrent
  <2> QED
    BY <2>1, <2>2
<1>11. ASSUME NEW c \in LBatch, NEW p \in LPage \ exposed PROVE RowIsCurrent(c, p)'
  <2>1. CASE c = b
    BY <1>1, <1>3, <1>5, <2>1 DEF RowIsCurrent
  <2>2. CASE c # b
    <3> SUFFICES ASSUME c \in Open, p \in lrow[c].pages, p \notin newer'[c]
                 PROVE  lrow[c].base[p] = edits[p]
      BY <1>1, <1>2, <1>4, <2>2 DEF RowIsCurrent
    <3>1. newer'[c] = IF c \in req[r].known THEN newer[c] \cup (P \cap lrow[c].pages) ELSE newer[c] \ P
      BY <1>1, <2>2 DEF Backdated
    <3>2. CASE p \in newer[c]
      <4>1. c \in Open \ req[r].known /\ p \in P
        BY <3>1, <3>2
      <4> QED
        BY <1>1, <4>1, RequestParts DEF RequestIsCurrent
    <3>3. CASE p \notin newer[c]
      BY <3>3 DEF SpellInv, RowsAreCurrent, RowIsCurrent
    <3> QED
      BY <3>2, <3>3
  <2> QED
    BY <2>1, <2>2
<1> QED
  BY <1>1, <1>6, <1>7, <1>8, <1>9, <1>10, <1>11, StillTexts
    DEF SpellInv, SpellShapes, RequestsAreCurrent, RowsAreCurrent

LEMMA ClosingKeeps ==
  ASSUME SpellInv, NEW b \in LBatch, BatchFails(b) \/ ClosesRow(b)
  PROVE  SpellInv'
<1>1. PICK F : Closes(b, F)
  BY DEF BatchFails, ClosesRow
<1>2. /\ UNCHANGED <<edits, ltext, exposed>>
      /\ lrow' = [lrow EXCEPT ![b] = LFree]
      /\ newer' = [Touched(F) EXCEPT ![b] = {}]
      /\ req' = Forgotten({}, b)
  BY <1>1 DEF BatchFails, ClosesRow, Closes, ltexts, Forgotten
<1>3. \/ hand'.row = {} /\ hand'.page = {} /\ HandIsShaped'
      \/ hand' = hand /\ hand.row = {}
  <2>1. CASE BatchFails(b)
    BY <2>1 DEF BatchFails
  <2>2. CASE ClosesRow(b)
    <3>1. hand' = AHand({}, {}, {}, FALSE, FALSE, {})
      BY <2>2, FreeRecords DEF ClosesRow
    <3>2. hand'.row = {} /\ hand'.page = {}
          /\ hand' = AHand(hand'.row, hand'.lines, hand'.page, hand'.skip, hand'.same, hand'.ok)
      BY <3>1 DEF AHand
    <3>3. hand'.row \subseteq Open' /\ \A c \in hand'.row : hand'.lines \subseteq lrow'[c].pages
      BY <3>2
    <3>4. HandIsShaped'
      BY <3>2, <3>3, Zenon DEF HandIsShaped
    <3> QED
      BY <3>2, <3>4
  <2> QED
    BY <2>1, <2>2
<1>4. /\ lrow'[b] = LFree /\ \A c \in LBatch : c # b => lrow'[c] = lrow[c]
      /\ lrow' = [c \in LBatch |-> ABatchRow(lrow'[c].status, lrow'[c].remote, lrow'[c].pages, lrow'[c].base)]
  BY <1>2, FreeRecords DEF SpellInv, SpellShapes, RowsAreShaped, ABatchRow
<1>5. lrow'[b].status = "none" /\ lrow'[b].remote = "none"
  BY <1>4, FreeRecords DEF ABatchRow
<1>6. Open' = Open \ {b}
  BY <1>4, <1>5 DEF Open
<1>7. /\ RequestsAreShaped'
      /\ \A q \in Request :
           /\ req'[q].phase = req[q].phase /\ req'[q].pages = req[q].pages
           /\ req'[q].known = req[q].known \ {b}
           /\ req'[q].base = req[q].base /\ req'[q].stage = req[q].stage
  BY <1>2, Forgets
<1>8. RowsAreShaped'
  <2>1. newer' = [c \in LBatch |-> newer'[c]]
    BY <1>2 DEF Touched
  <2>2. \A c \in LBatch : lrow'[c].status = "none" => lrow'[c].remote = "none"
    BY <1>4, <1>5 DEF SpellInv, SpellShapes, RowsAreShaped
  <2> QED
    BY <1>4, <2>1, <2>2 DEF RowsAreShaped
<1>9. HandIsShaped' /\ HandsAreCurrent'
  BY <1>3, HandField DEF HandIsShaped, HandsAreCurrent, HandIsCurrent
<1>10. ASSUME NEW q \in Request, NEW p \in LPage \ exposed PROVE RequestIsCurrent(q, p)'
  <2>1. RequestIsCurrent(q, p)
    BY RequestParts
  <2>2. \A c \in Open' \ req'[q].known : c \in Open \ req[q].known /\ lrow'[c] = lrow[c]
    BY <1>4, <1>6, <1>7 DEF Open
  <2> QED
    BY <1>2, <1>7, <2>1, <2>2 DEF RequestIsCurrent
<1>11. ASSUME NEW c \in LBatch, NEW p \in LPage \ exposed PROVE RowIsCurrent(c, p)'
  <2>1. CASE c = b
    BY <1>6, <2>1 DEF RowIsCurrent
  <2>2. CASE c # b
    <3>1. newer[c] \subseteq newer'[c]
      BY <1>2, <2>2 DEF Touched
    <3> QED
      BY <1>2, <1>4, <1>6, <2>2, <3>1 DEF SpellInv, RowsAreCurrent, RowIsCurrent
  <2> QED
    BY <2>1, <2>2
<1> QED
  BY <1>2, <1>7, <1>8, <1>9, <1>10, <1>11, StillTexts
    DEF SpellInv, SpellShapes, RequestsAreCurrent, RowsAreCurrent

(* Gemini ends a batch, or the poller sees it run.                              *)
LEMMA RemoteKeeps ==
  ASSUME SpellInv, NEW b \in LBatch, RemoteEnds(b) \/ RowRuns(b)
  PROVE  SpellInv'
<1>1. UNCHANGED <<edits, ltext, newer, req, hand, exposed>>
  BY DEF RemoteEnds, RowRuns, ltexts
<1>2. lrow[b].remote = "runs" /\ lrow[b].status # "none"
  BY DEF RemoteEnds, RowRuns, SpellInv, SpellShapes, RowsAreShaped
<1>3. PICK s, m : s # "none" /\ lrow' = [lrow EXCEPT ![b] = ABatchRow(s, m, lrow[b].pages, lrow[b].base)]
  <2> DEFINE old == ABatchRow(lrow[b].status, lrow[b].remote, lrow[b].pages, lrow[b].base)
  <2>1. lrow[b] = old
    BY DEF SpellInv, SpellShapes, RowsAreShaped
  <2>2. CASE RemoteEnds(b)
    <3>1. PICK v : lrow' = [lrow EXCEPT ![b] = [lrow[b] EXCEPT !.remote = v]]
      BY <2>2 DEF RemoteEnds
    <3>2. [old EXCEPT !.remote = v] = ABatchRow(lrow[b].status, v, lrow[b].pages, lrow[b].base)
      BY DEF ABatchRow
    <3>3. lrow' = [lrow EXCEPT ![b] = ABatchRow(lrow[b].status, v, lrow[b].pages, lrow[b].base)]
      BY <2>1, <3>1, <3>2, Zenon
    <3> QED
      BY <1>2, <3>3
  <2>3. CASE RowRuns(b)
    <3>1. lrow' = [lrow EXCEPT ![b] = [lrow[b] EXCEPT !.status = "running"]]
      BY <2>3 DEF RowRuns
    <3>2. [old EXCEPT !.status = "running"]
            = ABatchRow("running", lrow[b].remote, lrow[b].pages, lrow[b].base)
      BY DEF ABatchRow
    <3>3. lrow' = [lrow EXCEPT ![b] = ABatchRow("running", lrow[b].remote, lrow[b].pages, lrow[b].base)]
      BY <2>1, <3>1, <3>2, Zenon
    <3> QED
      BY <3>3
  <2> QED
    BY <2>2, <2>3
<1>4. /\ lrow'[b] = ABatchRow(s, m, lrow[b].pages, lrow[b].base)
      /\ \A c \in LBatch : c # b => lrow'[c] = lrow[c]
      /\ lrow' = [c \in LBatch |-> ABatchRow(lrow'[c].status, lrow'[c].remote, lrow'[c].pages, lrow'[c].base)]
  BY <1>3 DEF SpellInv, SpellShapes, RowsAreShaped, ABatchRow
<1>5. lrow'[b].status = s /\ lrow'[b].pages = lrow[b].pages /\ lrow'[b].base = lrow[b].base
  BY <1>4 DEF ABatchRow
<1>6. /\ Open' = Open
      /\ \A c \in LBatch : lrow'[c].pages = lrow[c].pages /\ lrow'[c].base = lrow[c].base
  BY <1>2, <1>3, <1>4, <1>5 DEF Open
<1>7. RowsAreShaped'
  <2>1. \A c \in LBatch : lrow'[c].status = "none" => lrow'[c].remote = "none"
    BY <1>3, <1>4, <1>5 DEF SpellInv, SpellShapes, RowsAreShaped
  <2>2. newer' = [c \in LBatch |-> newer'[c]]
    BY <1>1 DEF SpellInv, SpellShapes, RowsAreShaped
  <2> QED
    BY <1>4, <2>1, <2>2 DEF RowsAreShaped
<1>8. RequestsAreShaped' /\ RequestsAreCurrent'
  BY <1>1, <1>6 DEF SpellInv, SpellShapes, RequestsAreShaped, RequestIsShaped,
    RequestsAreCurrent, RequestIsCurrent, Open
<1>9. RowsAreCurrent'
  BY <1>1, <1>6 DEF SpellInv, RowsAreCurrent, RowIsCurrent
<1>10. HandIsShaped' /\ HandsAreCurrent'
  <2>1. hand.row \subseteq LBatch
    BY HandField DEF Open
  <2> QED
    BY <1>1, <1>6, <2>1, HandField DEF HandIsShaped, HandsAreCurrent, HandIsCurrent
<1> QED
  BY <1>1, <1>7, <1>8, <1>9, <1>10, StillTexts DEF SpellInv, SpellShapes

LEMMA OthersTouch ==
  ASSUME SpellInv, (\E p \in LPage : PipelineTouches(p)) \/ \E P \in SUBSET LPage : FailsStale(P)
  PROVE  SpellInv'
<1>1. UNCHANGED <<edits, ltext, lrow, req, hand, exposed>> /\ \E P : newer' = Touched(P)
  BY DEF PipelineTouches, FailsStale, ltexts
<1> QED
  BY <1>1, TouchingStays, StillRequests, StillHand, StillTexts DEF SpellInv, SpellShapes

LEMMA SpellInvariant == SpellSpec => []SpellInv
<1>1. SpellInv /\ [SpellNext]_lvars => SpellInv'
  <2> SUFFICES ASSUME SpellInv, [SpellNext]_lvars PROVE SpellInv'
    OBVIOUS
  <2>1. ASSUME NEW p \in LPage, Edit(p) PROVE SpellInv'
    BY <2>1, SavedRowKeeps
  <2>2. CASE (\E p \in LPage : PipelineTouches(p)) \/ \E P \in SUBSET LPage : FailsStale(P)
    BY <2>2, OthersTouch
  <2>3. ASSUME NEW r \in Request, Lists(r) \/ RequestGoes(r) PROVE SpellInv'
    BY <2>3, ListingKeeps, MarkingKeeps, EnqueueFailsKeeps, SubmittingKeeps DEF RequestGoes
  <2>4. ASSUME NEW r \in Request, JobGoes(r) \/ RequestDies(r) PROVE SpellInv'
    BY <2>4, ListingKeeps, JobReadsKeeps, JobWritesKeeps, RequestDiesKeeps DEF JobGoes
  <2>5. ASSUME NEW b \in LBatch, RemoteEnds(b) \/ RowRuns(b) PROVE SpellInv'
    BY <2>5, RemoteKeeps
  <2>6. CASE Polls
    BY <2>6, ClosingKeeps, OpeningKeeps, LoadingKeeps, HandlingKeeps DEF Polls, PollsRow
  <2>7. CASE PollerDies
    BY <2>7, OpeningKeeps
  <2>8. CASE UNCHANGED lvars
    <3>1. UNCHANGED <<edits, ltext, lrow, newer, req, hand, exposed>>
      BY <2>8 DEF lvars, ltexts
    <3> QED
      BY <3>1, StillRows, StillRequests, StillHand, StillTexts DEF SpellInv, SpellShapes
  <2> QED
    BY <2>1, <2>2, <2>3, <2>4, <2>5, <2>6, <2>7, <2>8 DEF SpellNext
<1> QED
  BY <1>1, SpellInitHolds, PTL DEF SpellSpec

(* Theorem: what an editor saves stays, however many batches and jobs of the    *)
(* LLM spell check have the page and however late they answer                   *)
(* (batch_llm_spell_check_service), unless it was saved in the moments in which *)
(* one of them had the page in hand.                                            *)
THEOREM EditsSurvive == SpellSpec => []EditSurvives
<1>1. SpellInv => EditSurvives
  BY DEF SpellInv
<1> QED
  BY <1>1, SpellInvariant, PTL

-----------------------------------------------------------------------------
(* What the chat answers from                                                   *)
(* A result that is cached was allowed for its key, whoever asked: the books of *)
(* the scope in the key, on the shelves in the key.                               *)
ShelfOf(persona) == IF persona THEN InCategory ELSE Library
Findable(S, shelves) == Within(S) \cap shelves
CacheInScope(cache) ==
  \A k \in DOMAIN cache : cache[k] \subseteq Findable(k[2], ShelfOf(k[3]))

(* Evidence that is allowed for a question.                                     *)
FitsReader(t, E) ==
  Reader(t) => \A b \in Library :
    <<"passage", b>> \in E \/ <<"match", b>> \in E \/ <<"summary", b>> \in E =>
      b \in Volumes[question[t].open]
FitsPersona(t, E) ==
  question[t].persona => \A b \in Library : <<"passage", b>> \in E => b \in InCategory

ScopeShapes ==
  /\ question = [t \in RTurn |-> [stage |-> question[t].stage, open |-> question[t].open,
                                  persona |-> question[t].persona, context |-> question[t].context]]
  /\ \A t \in RTurn : Reader(t) => question[t].open \in Library
  /\ evidence = [t \in RTurn |-> evidence[t]]
ContextIsOpenBook ==
  \A t \in RTurn : Reader(t) /\ Stage(t, "asked") => question[t].context = {question[t].open}
EvidenceFits == \A t \in RTurn : FitsReader(t, evidence[t]) /\ FitsPersona(t, evidence[t])
ScopeInv == ScopeShapes /\ ContextIsOpenBook /\ CacheInScope(found) /\ EvidenceFits

LEMMA KeyNamesScope ==
  ASSUME NEW t, NEW S
  PROVE  Key(t, S)[2] = S /\ ShelfOf(Key(t, S)[3]) = Shelf(t)
<1>1. CASE Reader(t) /\ Cardinality(S) = 1 /\ ~question[t].persona
  <2>1. Key(t, S) = <<"single", S, FALSE>> /\ Shelf(t) = Library
    BY <1>1 DEF Key, Shelf
  <2> QED
    BY <2>1 DEF ShelfOf
<1>2. CASE ~(Reader(t) /\ Cardinality(S) = 1 /\ ~question[t].persona)
  <2>1. Key(t, S) = <<"multi", S, question[t].persona>>
    BY <1>2 DEF Key
  <2>2. Key(t, S)[2] = S /\ Key(t, S)[3] = question[t].persona
    BY <2>1
  <2> QED
    BY <2>2 DEF ShelfOf, Shelf
<1> QED
  BY <1>1, <1>2

(* A search finds what is allowed, in the cache or not, and caches only that;   *)
(* or it finds matches in its books, and leaves the cache alone.                *)
FoundInScope(t, S, E) ==
  \/ \E R \in SUBSET Findable(S, Shelf(t)) : E = Texts("passage", R)
  \/ S # Everything /\ E = Texts("match", S)

LEMMA KeptInScope ==
  ASSUME NEW cache, CacheInScope(cache), NEW key, NEW R, R \subseteq Findable(key[2], ShelfOf(key[3]))
  PROVE  CacheInScope(Remembered(cache, key, R))
<1> DEFINE after == Remembered(cache, key, R)
<1>1. after = [k \in DOMAIN cache \cup {key} |-> IF k = key THEN R ELSE cache[k]]
  BY DEF Remembered
<1>2. ASSUME NEW k \in DOMAIN after PROVE after[k] \subseteq Findable(k[2], ShelfOf(k[3]))
  <2>1. CASE k = key
    BY <1>1, <2>1
  <2>2. CASE k # key
    <3>1. k \in DOMAIN cache /\ after[k] = cache[k]
      BY <1>1, <1>2, <2>2
    <3> QED
      BY <3>1 DEF CacheInScope
  <2> QED
    BY <2>1, <2>2
<1> QED
  BY <1>2 DEF CacheInScope

LEMMA SearchIsScoped ==
  ASSUME NEW t, NEW S, NEW cache, CacheInScope(cache), NEW x \in Search(t, S, cache)
  PROVE  FoundInScope(t, S, x[1]) /\ CacheInScope(x[2])
<1> DEFINE key == Key(t, S)
           hits == Within(S) \cap Shelf(t)
<1>1. key[2] = S /\ ShelfOf(key[3]) = Shelf(t)
  BY KeyNamesScope
<1>2. CASE key \in DOMAIN cache
  <2>1. x = <<Texts("passage", cache[key]), cache>>
    BY <1>2 DEF Search
  <2>2. cache[key] \subseteq Findable(key[2], ShelfOf(key[3]))
    BY <1>2 DEF CacheInScope
  <2>3. x[1] = Texts("passage", cache[key]) /\ cache[key] \in SUBSET Findable(S, Shelf(t))
    BY <1>1, <2>1, <2>2
  <2> QED
    BY <2>1, <2>3 DEF FoundInScope
<1>3. CASE key \notin DOMAIN cache
  <2>1. \/ \E R \in {{}, hits} : x = <<Texts("passage", R), Remembered(cache, key, R)>>
        \/ \E M \in IF MatchesWords(S) THEN {S} ELSE {} :
             x = <<Texts("match", M), MatchesAreNotKept(cache, key, M)>>
    BY <1>3 DEF Search
  <2>2. CASE \E R \in {{}, hits} : x = <<Texts("passage", R), Remembered(cache, key, R)>>
    <3>1. PICK R \in {{}, hits} : x = <<Texts("passage", R), Remembered(cache, key, R)>>
      BY <2>2
    <3>2. R \in SUBSET Findable(S, Shelf(t)) /\ R \subseteq Findable(key[2], ShelfOf(key[3]))
      BY <1>1 DEF Findable
    <3>3. CacheInScope(Remembered(cache, key, R))
      BY <3>2, KeptInScope
    <3>4. x[1] = Texts("passage", R) /\ x[2] = Remembered(cache, key, R)
      BY <3>1
    <3> QED
      BY <3>2, <3>3, <3>4 DEF FoundInScope
  <2>3. CASE \E M \in IF MatchesWords(S) THEN {S} ELSE {} :
               x = <<Texts("match", M), MatchesAreNotKept(cache, key, M)>>
    <3>1. S # Everything /\ x = <<Texts("match", S), cache>>
      BY <2>3 DEF MatchesWords, MatchesAreNotKept
    <3>2. x[1] = Texts("match", S) /\ x[2] = cache
      BY <3>1
    <3> QED
      BY <3>1, <3>2 DEF FoundInScope
  <2> QED
    BY <2>1, <2>2, <2>3
<1> QED
  BY <1>2, <1>3

(* In the reader a tool stays in the open work, whatever ids it is called with.   *)
LEMMA ReaderStaysInWork ==
  ASSUME ScopeInv, NEW t \in RTurn, Reader(t), NEW given
  PROVE  /\ Scope(t, given) \subseteq Volumes[question[t].open] /\ Scope(t, given) # {}
         /\ question[t].open \in Library
<1>1. question[t].open \in Library /\ question[t].open \in Volumes[question[t].open]
  BY ScopeAssumption DEF ScopeInv, ScopeShapes
<1> QED
  BY <1>1 DEF Scope, ReaderScope

(* What a search finds fits the question, if a reader's scope is of his work.   *)
LEMMA FoundFits ==
  ASSUME NEW t \in RTurn, NEW S, NEW R, R \subseteq Findable(S, Shelf(t)),
         Reader(t) => S # {} /\ S \subseteq Volumes[question[t].open]
  PROVE  FitsReader(t, Texts("passage", R)) /\ FitsPersona(t, Texts("passage", R))
<1>1. \A b : <<"passage", b>> \in Texts("passage", R) => b \in R
  BY DEF Texts
<1>2. \A b : <<"summary", b>> \notin Texts("passage", R) /\ <<"match", b>> \notin Texts("passage", R)
  BY DEF Texts
<1>3. \A b \in Library : b \in R => b \in Within(S) /\ b \in Shelf(t)
  BY DEF Findable
<1>4. FitsReader(t, Texts("passage", R))
  BY <1>1, <1>2, <1>3 DEF FitsReader, Within, Everything
<1>5. FitsPersona(t, Texts("passage", R))
  BY <1>1, <1>3 DEF FitsPersona, Shelf
<1> QED
  BY <1>4, <1>5

LEMMA MatchesFit ==
  ASSUME NEW t \in RTurn, NEW S, Reader(t) => S \subseteq Volumes[question[t].open]
  PROVE  FitsReader(t, Texts("match", S)) /\ FitsPersona(t, Texts("match", S))
<1>1. \A b : /\ <<"match", b>> \in Texts("match", S) => b \in S
             /\ <<"summary", b>> \notin Texts("match", S) /\ <<"passage", b>> \notin Texts("match", S)
  BY DEF Texts
<1> QED
  BY <1>1 DEF FitsReader, FitsPersona

LEMMA SearchFits ==
  ASSUME NEW t \in RTurn, NEW S, NEW E, FoundInScope(t, S, E),
         Reader(t) => S # {} /\ S \subseteq Volumes[question[t].open]
  PROVE  FitsReader(t, E) /\ FitsPersona(t, E)
<1>1. CASE \E R \in SUBSET Findable(S, Shelf(t)) : E = Texts("passage", R)
  <2>1. PICK R \in SUBSET Findable(S, Shelf(t)) : E = Texts("passage", R)
    BY <1>1
  <2> QED
    BY <2>1, FoundFits
<1>2. CASE E = Texts("match", S)
  BY <1>2, MatchesFit
<1> QED
  BY <1>1, <1>2 DEF FoundInScope

(* A question that changes its stage keeps its book and persona; what it gathers *)
(* must fit them.                                                               *)
SameQuestions ==
  \A t \in RTurn : question'[t].open = question[t].open /\ question'[t].persona = question[t].persona

LEMMA GatheringKeeps ==
  ASSUME ScopeInv, NEW t \in RTurn, NEW E, Gathers(t, E), FitsReader(t, E), FitsPersona(t, E),
         SameQuestions
  PROVE  EvidenceFits' /\ evidence' = [u \in RTurn |-> evidence'[u]]
<1>1. evidence' = [u \in RTurn |-> IF u = t THEN evidence[t] \cup E ELSE evidence[u]]
  BY DEF Gathers, ScopeInv, ScopeShapes
<1>2. ASSUME NEW u \in RTurn PROVE FitsReader(u, evidence[u])' /\ FitsPersona(u, evidence[u])'
  <2>1. FitsReader(u, evidence[u]) /\ FitsPersona(u, evidence[u])
    BY DEF ScopeInv, EvidenceFits
  <2>2. question'[u].open = question[u].open /\ question'[u].persona = question[u].persona
    BY DEF SameQuestions
  <2>3. CASE u = t
    <3>1. evidence'[u] = evidence[u] \cup E
      BY <1>1, <2>3
    <3> QED
      BY <2>1, <2>2, <2>3, <3>1 DEF FitsReader, FitsPersona, Reader
  <2>4. CASE u # t
    <3>1. evidence'[u] = evidence[u]
      BY <1>1, <2>4
    <3> QED
      BY <2>1, <2>2, <3>1 DEF FitsReader, FitsPersona, Reader
  <2> QED
    BY <2>3, <2>4
<1>3. EvidenceFits'
  BY <1>2 DEF EvidenceFits
<1> QED
  BY <1>1, <1>3

LEMMA StageAndContext ==
  ASSUME NEW q, NEW st, NEW ctx,
         q = [stage |-> q.stage, open |-> q.open, persona |-> q.persona, context |-> q.context]
  PROVE  [[q EXCEPT !.stage = st] EXCEPT !.context = ctx]
           = [stage |-> st, open |-> q.open, persona |-> q.persona, context |-> ctx]
<1>1. ASSUME NEW o, NEW p, NEW c
      PROVE  [[stage |-> st, open |-> o, persona |-> p, context |-> c] EXCEPT !.context = ctx]
               = [stage |-> st, open |-> o, persona |-> p, context |-> ctx]
  OBVIOUS
<1>2. [q EXCEPT !.stage = st]
        = [stage |-> st, open |-> q.open, persona |-> q.persona, context |-> q.context]
  OBVIOUS
<1>3. [[stage |-> st, open |-> q.open, persona |-> q.persona, context |-> q.context] EXCEPT !.context = ctx]
        = [stage |-> st, open |-> q.open, persona |-> q.persona, context |-> ctx]
  BY <1>1
<1> QED
  BY <1>2, <1>3, Zenon

LEMMA StageChanges ==
  ASSUME ScopeInv, NEW t \in RTurn, NEW st, NEW ctx, Becomes(t, st, ctx), st # "asked"
  PROVE  /\ SameQuestions /\ ContextIsOpenBook'
         /\ \A u \in RTurn : Reader(u)' = Reader(u)
         /\ question' = [u \in RTurn |-> [stage |-> question'[u].stage, open |-> question'[u].open,
                           persona |-> question'[u].persona, context |-> question'[u].context]]
<1>1. question' = [u \in RTurn |-> IF u = t
         THEN [stage |-> st, open |-> question[u].open, persona |-> question[u].persona, context |-> ctx]
         ELSE question[u]]
  <2>1. question' = [question EXCEPT ![t] = [[@ EXCEPT !.stage = st] EXCEPT !.context = ctx]]
    BY DEF Becomes, ScopeInv, ScopeShapes
  <2>2. question[t] = [stage |-> question[t].stage, open |-> question[t].open,
                       persona |-> question[t].persona, context |-> question[t].context]
    BY DEF ScopeInv, ScopeShapes
  <2>3. [[question[t] EXCEPT !.stage = st] EXCEPT !.context = ctx]
          = [stage |-> st, open |-> question[t].open, persona |-> question[t].persona, context |-> ctx]
    BY <2>2, StageAndContext
  <2>4. DOMAIN question = RTurn
    BY DEF ScopeInv, ScopeShapes
  <2> QED
    BY <2>1, <2>3, <2>4
<1>2. SameQuestions
  BY <1>1 DEF SameQuestions
<1>3. \A u \in RTurn : Reader(u)' = Reader(u)
  BY <1>2 DEF SameQuestions, Reader
<1>4. ASSUME NEW u \in RTurn, question'[u].stage = "asked"
      PROVE  u # t /\ question'[u] = question[u]
  BY <1>1, <1>4
<1>5. ContextIsOpenBook'
  BY <1>2, <1>4 DEF ScopeInv, ContextIsOpenBook, SameQuestions, Reader, Stage
<1> QED
  BY <1>1, <1>2, <1>3, <1>5 DEF ScopeInv, ScopeShapes

LEMMA GateKeeps ==
  ASSUME ScopeInv, NEW t \in RTurn, Gates(t)
  PROVE  ScopeInv'
<1>1. ASSUME NEW st, NEW ctx, Becomes(t, st, ctx), st # "asked", UNCHANGED <<evidence, found>>
      PROVE  ScopeInv'
  <2>1. SameQuestions /\ ContextIsOpenBook' /\ \A u \in RTurn : Reader(u)' = Reader(u)
    BY <1>1, StageChanges
  <2>2. EvidenceFits'
    BY <1>1, <2>1 DEF ScopeInv, EvidenceFits, FitsReader, FitsPersona, SameQuestions
  <2>3. ScopeShapes'
    BY <1>1, <2>1, StageChanges DEF ScopeInv, ScopeShapes, SameQuestions
  <2> QED
    BY <1>1, <2>1, <2>2, <2>3 DEF ScopeInv
<1>2. ASSUME NEW st, NEW ctx, Becomes(t, st, ctx), st # "asked", UNCHANGED found,
             NEW E, Gathers(t, E), FitsReader(t, E), FitsPersona(t, E)
      PROVE  ScopeInv'
  <2>1. SameQuestions /\ ContextIsOpenBook' /\ \A u \in RTurn : Reader(u)' = Reader(u)
    BY <1>2, StageChanges
  <2>2. EvidenceFits' /\ evidence' = [u \in RTurn |-> evidence'[u]]
    BY <1>2, <2>1, GatheringKeeps
  <2>3. ScopeShapes'
    BY <1>2, <2>1, <2>2, StageChanges DEF ScopeInv, ScopeShapes, SameQuestions
  <2> QED
    BY <1>2, <2>1, <2>2, <2>3 DEF ScopeInv
<1>3. ASSUME NEW M \in SUBSET Library, QuotesTitle(t, M) PROVE ScopeInv'
  BY <1>1, <1>3 DEF QuotesTitle
<1>4. ASSUME NEW b \in Library, FindsShortWork(t, b) PROVE ScopeInv'
  <2>1. FitsReader(t, {<<"verbatim", b>>}) /\ FitsPersona(t, {<<"verbatim", b>>})
    BY DEF FitsReader, FitsPersona
  <2> QED
    BY <1>2, <1>4, <2>1 DEF FindsShortWork
<1>5. ASSUME FindsPhrase(t) PROVE ScopeInv'
  <2>1. PICK S \in {question[t].context} \cup (IF Reader(t) THEN {} ELSE {Library}) :
          Gathers(t, Texts("passage", S \cap Shelf(t)))
    BY <1>5 DEF FindsPhrase
  <2>2. Reader(t) => S = {question[t].open}
    BY <1>5, <2>1 DEF FindsPhrase, ScopeInv, ContextIsOpenBook
  <2>3. Reader(t) => S # {} /\ S \subseteq Volumes[question[t].open]
    BY <2>2, ScopeAssumption DEF ScopeInv, ScopeShapes
  <2>4. CASE Reader(t)
    <3>1. S \cap Shelf(t) \subseteq Findable(S, Shelf(t))
      BY <2>3, <2>4 DEF Findable, Within, Everything
    <3>2. FitsReader(t, Texts("passage", S \cap Shelf(t))) /\ FitsPersona(t, Texts("passage", S \cap Shelf(t)))
      BY <2>3, <3>1, FoundFits
    <3> QED
      BY <1>2, <1>5, <2>1, <3>2 DEF FindsPhrase
  <2>5. CASE ~Reader(t)
    <3>1. FitsPersona(t, Texts("passage", S \cap Shelf(t)))
      BY DEF FitsPersona, Texts, Shelf
    <3>2. FitsReader(t, Texts("passage", S \cap Shelf(t)))
      BY <2>5 DEF FitsReader
    <3> QED
      BY <1>2, <1>5, <2>1, <3>1, <3>2 DEF FindsPhrase
  <2> QED
    BY <2>4, <2>5
<1>6. ASSUME StartsAgent(t) PROVE ScopeInv'
  BY <1>1, <1>6 DEF StartsAgent
<1> QED
  BY <1>3, <1>4, <1>5, <1>6 DEF Gates

(* A tool leaves the questions alone; what it gathers must fit.                 *)
LEMMA ToolGathers ==
  ASSUME ScopeInv, NEW t \in RTurn, CallsTool(t), NEW E, Gathers(t, E),
         FitsReader(t, E), FitsPersona(t, E), CacheInScope(found')
  PROVE  ScopeInv'
<1>1. question' = question /\ SameQuestions
  BY DEF CallsTool, SameQuestions
<1>2. EvidenceFits' /\ evidence' = [u \in RTurn |-> evidence'[u]]
  BY <1>1, GatheringKeeps
<1>3. ScopeShapes' /\ ContextIsOpenBook'
  BY <1>1, <1>2 DEF ScopeInv, ScopeShapes, ContextIsOpenBook, Reader, Stage
<1> QED
  BY <1>2, <1>3 DEF ScopeInv, CacheInScope

LEMMA SearchingChunksKeeps ==
  ASSUME ScopeInv, NEW t \in RTurn, NEW given, SearchChunks(t, given)
  PROVE  ScopeInv'
<1> DEFINE S == Scope(t, given)
           others == Volumes[question[t].open] \ {question[t].open}
<1>1. PICK x \in Search(t, S, found) : \E y \in SisterSearch(t, S, x[2]) :
        \E z \in BroaderSearch(t, S, y[2]) : \E facts \in {{}, Library} :
          /\ Gathers(t, x[1] \cup y[1] \cup z[1] \cup Texts("fact", facts))
          /\ found' = z[2]
  BY DEF SearchChunks
<1>2. PICK y \in SisterSearch(t, S, x[2]) :
        \E z \in BroaderSearch(t, S, y[2]) : \E facts \in {{}, Library} :
          /\ Gathers(t, x[1] \cup y[1] \cup z[1] \cup Texts("fact", facts))
          /\ found' = z[2]
  BY <1>1
<1>3. PICK z \in BroaderSearch(t, S, y[2]) : \E facts \in {{}, Library} :
          /\ Gathers(t, x[1] \cup y[1] \cup z[1] \cup Texts("fact", facts))
          /\ found' = z[2]
  BY <1>2
<1>4. PICK facts \in {{}, Library} :
          /\ Gathers(t, x[1] \cup y[1] \cup z[1] \cup Texts("fact", facts))
          /\ found' = z[2]
  BY <1>3
<1> DEFINE P(R) == FitsReader(t, R) /\ FitsPersona(t, R)
<1>5. Reader(t) => S # {} /\ S \subseteq Volumes[question[t].open]
  BY ReaderStaysInWork
<1>6. P(x[1]) /\ CacheInScope(x[2])
  <2>1. CacheInScope(found)
    BY DEF ScopeInv
  <2>2. FoundInScope(t, S, x[1]) /\ CacheInScope(x[2])
    BY <2>1, SearchIsScoped
  <2> QED
    BY <1>5, <2>2, SearchFits
<1>7. P({})
  BY DEF FitsReader, FitsPersona
<1>8. P(y[1]) /\ CacheInScope(y[2])
  <2>1. CASE Reader(t) /\ S = {question[t].open} /\ others # {}
    <3>1. y \in Search(t, others, x[2])
      BY <1>2, <2>1 DEF SisterSearch
    <3>2. FoundInScope(t, others, y[1]) /\ CacheInScope(y[2])
      BY <1>6, <3>1, SearchIsScoped
    <3> QED
      BY <2>1, <3>2, SearchFits
  <2>2. CASE ~(Reader(t) /\ S = {question[t].open} /\ others # {})
    <3>1. y = <<{}, x[2]>>
      BY <1>2, <2>2 DEF SisterSearch
    <3> QED
      BY <1>6, <1>7, <3>1
  <2> QED
    BY <2>1, <2>2
<1>9. P(z[1]) /\ CacheInScope(z[2])
  <2>1. CASE z = <<{}, y[2]>>
    BY <1>7, <1>8, <2>1
  <2>2. CASE z # <<{}, y[2]>>
    <3>1. ~Reader(t) /\ \E N \in {Everything, Shelf(t)} : z \in Search(t, N, y[2])
      BY <1>3, <2>2 DEF BroaderSearch
    <3>2. PICK N \in {Everything, Shelf(t)} : z \in Search(t, N, y[2])
      BY <3>1
    <3>3. FoundInScope(t, N, z[1]) /\ CacheInScope(z[2])
      BY <1>8, <3>2, SearchIsScoped
    <3> QED
      BY <3>1, <3>3, SearchFits
  <2> QED
    BY <2>1, <2>2
<1> DEFINE F == Texts("fact", facts)
           E == x[1] \cup y[1] \cup z[1] \cup F
<1>10. P(F)
  BY DEF FitsReader, FitsPersona, Texts
<1>11. P(E)
  <2>1. P(x[1]) /\ P(y[1]) /\ P(z[1]) /\ P(F)
    BY <1>6, <1>8, <1>9, <1>10
  <2> HIDE DEF F
  <2> QED
    BY <2>1 DEF FitsReader, FitsPersona
<1>12. CallsTool(t) /\ Gathers(t, E) /\ CacheInScope(found')
  BY <1>4, <1>9 DEF SearchChunks
<1> QED
  BY <1>11, <1>12, ToolGathers

LEMMA OtherToolsKeep ==
  ASSUME ScopeInv, NEW t \in RTurn, NEW given,
         SearchKeywordPhrase(t, given) \/ GetBookSummary(t, given) \/ GetCurrentPage(t)
  PROVE  ScopeInv'
<1>1. ASSUME CallsTool(t), UNCHANGED found, NEW E, Gathers(t, E), FitsReader(t, E), FitsPersona(t, E)
      PROVE  ScopeInv'
  BY <1>1, ToolGathers DEF ScopeInv, CacheInScope
<1>2. CASE SearchKeywordPhrase(t, given)
  <2> DEFINE S == Scope(t, given)
  <2>1. Within(S) \cap Shelf(t) \subseteq Findable(S, Shelf(t))
    BY DEF Findable
  <2>2. Reader(t) => S # {} /\ S \subseteq Volumes[question[t].open]
    BY ReaderStaysInWork
  <2>3. /\ FitsReader(t, Texts("passage", Within(S) \cap Shelf(t)))
        /\ FitsPersona(t, Texts("passage", Within(S) \cap Shelf(t)))
    BY <2>1, <2>2, FoundFits
  <2> QED
    BY <1>1, <1>2, <2>3 DEF SearchKeywordPhrase
<1>3. CASE GetBookSummary(t, given)
  <2> DEFINE S == Scope(t, given)
             E == Texts("summary", UNION {Volumes[b] : b \in S})
  <2>1. \A b : <<"passage", b>> \notin E /\ <<"match", b>> \notin E
    BY DEF Texts
  <2>2. ASSUME Reader(t), NEW b \in Library, <<"summary", b>> \in E
        PROVE  b \in Volumes[question[t].open]
    <3>1. PICK c \in S : b \in Volumes[c]
      BY <2>2 DEF Texts
    <3>2. c \in Volumes[question[t].open] /\ question[t].open \in Library
      BY <2>2, ReaderStaysInWork
    <3>3. Volumes[c] = Volumes[question[t].open]
      BY <3>2, ScopeAssumption
    <3> QED
      BY <3>1, <3>3
  <2>3. FitsReader(t, E) /\ FitsPersona(t, E)
    BY <2>1, <2>2 DEF FitsReader, FitsPersona
  <2> QED
    BY <1>1, <1>3, <2>3 DEF GetBookSummary
<1>4. CASE GetCurrentPage(t)
  <2>1. FitsReader(t, {<<"page", question[t].open>>}) /\ FitsPersona(t, {<<"page", question[t].open>>})
    BY DEF FitsReader, FitsPersona
  <2> QED
    BY <1>1, <1>4, <2>1 DEF GetCurrentPage
<1> QED
  BY <1>2, <1>3, <1>4

LEMMA AskingKeepsScope ==
  ASSUME ScopeInv, NEW t \in RTurn, NEW open \in Library \cup {Nowhere}, NEW persona, NEW carried,
         AsksAbout(t, open, persona, carried)
  PROVE  ScopeInv'
<1> DEFINE q == [stage |-> "asked", open |-> open, persona |-> persona,
                 context |-> IF open = Nowhere THEN carried ELSE {open}]
<1>1. question' = [question EXCEPT ![t] = q]
      /\ evidence' = [evidence EXCEPT ![t] = {}] /\ found' = found
  BY DEF AsksAbout
<1>2. \A u \in RTurn : /\ u = t => question'[u] = q /\ evidence'[u] = {}
                       /\ u # t => question'[u] = question[u] /\ evidence'[u] = evidence[u]
  BY <1>1 DEF ScopeInv, ScopeShapes
<1>3. ScopeShapes'
  <2>1. question' = [u \in RTurn |-> IF u = t THEN q ELSE question[u]]
    BY <1>1 DEF ScopeInv, ScopeShapes
  <2>2. evidence' = [u \in RTurn |-> IF u = t THEN {} ELSE evidence[u]]
    BY <1>1 DEF ScopeInv, ScopeShapes
  <2>3. \A u \in RTurn : question'[u] = [stage |-> question'[u].stage, open |-> question'[u].open,
                           persona |-> question'[u].persona, context |-> question'[u].context]
    BY <2>1 DEF ScopeInv, ScopeShapes
  <2>4. \A u \in RTurn : question'[u].open # Nowhere => question'[u].open \in Library
    BY <1>2 DEF ScopeInv, ScopeShapes, Reader
  <2> QED
    BY <2>1, <2>2, <2>3, <2>4 DEF ScopeShapes, Reader
<1>4. ContextIsOpenBook'
  BY <1>2 DEF ScopeInv, ContextIsOpenBook, Reader, Stage
<1>5. EvidenceFits'
  BY <1>2 DEF ScopeInv, EvidenceFits, FitsReader, FitsPersona, Reader
<1> QED
  BY <1>1, <1>3, <1>4, <1>5 DEF ScopeInv

LEMMA ToolKeeps ==
  ASSUME ScopeInv, NEW t \in RTurn, Tools(t)
  PROVE  ScopeInv'
<1>1. CASE EndsAgent(t)
  <2>1. /\ SameQuestions /\ ContextIsOpenBook'
        /\ question' = [u \in RTurn |-> [stage |-> question'[u].stage, open |-> question'[u].open,
                          persona |-> question'[u].persona, context |-> question'[u].context]]
    BY <1>1, StageChanges DEF EndsAgent
  <2>2. evidence' = evidence /\ found' = found
    BY <1>1 DEF EndsAgent
  <2>3. ScopeShapes'
    BY <2>1, <2>2 DEF ScopeInv, ScopeShapes, SameQuestions, Reader
  <2>4. EvidenceFits'
    BY <2>1, <2>2 DEF ScopeInv, EvidenceFits, FitsReader, FitsPersona, SameQuestions, Reader
  <2> QED
    BY <2>1, <2>2, <2>3, <2>4 DEF ScopeInv
<1> QED
  BY <1>1, SearchingChunksKeeps, OtherToolsKeep DEF Tools

LEMMA ScopeNextKeeps == ScopeInv /\ [ScopeNext]_scopeVars => ScopeInv'
<1> SUFFICES ASSUME ScopeInv, [ScopeNext]_scopeVars PROVE ScopeInv'
  OBVIOUS
<1>1. CASE ResultsExpire
  <2>1. CacheInScope(found')
    BY <1>1 DEF ResultsExpire, CacheInScope
  <2> QED
    BY <1>1, <2>1 DEF ResultsExpire, ScopeInv, ScopeShapes, ContextIsOpenBook, EvidenceFits,
       FitsReader, FitsPersona, Reader, Stage
<1>2. CASE UNCHANGED scopeVars
  BY <1>2 DEF scopeVars, ScopeInv, ScopeShapes, ContextIsOpenBook, EvidenceFits,
     FitsReader, FitsPersona, Reader, Stage, CacheInScope
<1> QED
  BY <1>1, <1>2, GateKeeps, ToolKeeps, AskingKeepsScope DEF ScopeNext

LEMMA ScopeInitHolds == ScopeInit => ScopeInv
<1> SUFFICES ASSUME ScopeInit PROVE ScopeInv
  OBVIOUS
<1>1. ScopeShapes
  BY DEF ScopeInit, ScopeShapes, Reader
<1>2. ContextIsOpenBook
  BY DEF ScopeInit, ContextIsOpenBook, Reader, Stage
<1>3. CacheInScope(found)
  BY DEF ScopeInit, CacheInScope
<1>4. EvidenceFits
  BY DEF ScopeInit, EvidenceFits, FitsReader, FitsPersona
<1> QED
  BY <1>1, <1>2, <1>3, <1>4 DEF ScopeInv

(* Answers in the reader are made from the open work, those of a persona from   *)
(* its categories, for any library, questions, ids the agent makes up, and any    *)
(* sharing of cached results.                                                   *)
THEOREM AnswersStayInScope == ScopeSpec => []EvidenceIsInScope
<1>1. ScopeInv => EvidenceIsInScope
  BY DEF ScopeInv, EvidenceFits, FitsReader, FitsPersona, EvidenceIsInScope
<1> QED
  BY <1>1, ScopeInitHolds, ScopeNextKeeps, PTL DEF ScopeSpec

-----------------------------------------------------------------------------
(* The daily limit of the chat                                                  *)
(* A turn is paid when it is stored and past the charge, booked when it is also *)
(* past the counter in Redis. Postgres never counts more turns than are paid,   *)
(* nor does anybody who has read it; Redis never more than are booked, until a  *)
(* turn is counted twice.                                                       *)
StoredTurns == {t \in Turn : Stored(t)}
Paid == {t \in Turn : Stored(t) /\ turn[t].phase \notin {"charges", "writes"}}
Booked == {t \in Turn : Stored(t) /\ turn[t].phase \notin {"charges", "writes", "increments"}}
Early == {"new", "opens", "answers", "evaluates", "enqueues", "question", "answer"}
IsEarly(ph, th) == ph \in Early \/ (ph \in {"checks", "reads", "fills"} /\ th = "open")

ChatShapes ==
  /\ turn = [t \in Turn |-> Asked(turn[t].phase, turn[t].conv, turn[t].count, turn[t].then)]
  /\ message = [c \in Turn |-> message[c]]
  /\ used \in Nat /\ counted \subseteq Nat
TurnIsSound(t) ==
  /\ turn[t].count \in Nat /\ turn[t].then \in {"open", "end"}
  /\ turn[t].phase \in {"answers", "evaluates", "enqueues", "question", "answer"} => turn[t].conv \in Turn
  /\ turn[t].phase = "answer" => <<t, "user">> \in message[turn[t].conv]
  /\ IsEarly(turn[t].phase, turn[t].then) => \A c \in Turn : <<t, "model">> \notin message[c]
  /\ turn[t].phase \in {"charges", "writes", "increments"} => Stored(t)
  /\ turn[t].phase \in {"writes", "fills"} => turn[t].count <= Cardinality(Paid)
CountsArePaid ==
  /\ used <= Cardinality(Paid)
  /\ ~countedTwice => \A n \in counted : n <= Cardinality(Booked)
ChatInv == ChatShapes /\ (\A t \in Turn : TurnIsSound(t)) /\ CountsArePaid /\ RefusalIsDeserved

LEMMA TurnSets ==
  ASSUME NEW A \in SUBSET Turn, NEW B \in SUBSET Turn, A \subseteq B
  PROVE  Cardinality(A) \in Nat /\ Cardinality(B) \in Nat /\ Cardinality(A) <= Cardinality(B)
<1>1. IsFiniteSet(A) /\ IsFiniteSet(B)
  BY ChatAssumption, FS_Subset
<1> QED
  BY <1>1, FS_CardinalityType, FS_Subset

LEMMA OneMoreTurn ==
  ASSUME NEW A \in SUBSET Turn, NEW B \in SUBSET Turn, NEW t \in B, t \notin A, A \subseteq B
  PROVE  Cardinality(A) + 1 <= Cardinality(B)
<1>1. IsFiniteSet(A) /\ Cardinality(A) \in Nat
  BY ChatAssumption, FS_Subset, FS_CardinalityType
<1>2. Cardinality(A \cup {t}) = Cardinality(A) + 1
  BY <1>1, FS_AddElement
<1>3. A \cup {t} \in SUBSET Turn /\ A \cup {t} \subseteq B
  OBVIOUS
<1>4. Cardinality(A \cup {t}) <= Cardinality(B)
  BY <1>3, TurnSets
<1> QED
  BY <1>2, <1>4

(* Messages of other turns stay as they are, those of t are only added to.      *)
MessagesGrow(t) ==
  /\ message' = [c \in Turn |-> message'[c]]
  /\ \A c \in Turn : /\ message[c] \subseteq message'[c]
                     /\ \A u \in Turn \ {t}, r \in {"user", "model"} :
                          <<u, r>> \in message'[c] => <<u, r>> \in message[c]

(* A turn charges when it is not stored yet, writes after it charges, and       *)
(* increments after it writes.                                                  *)
TurnMoves(t, ph, c, n, th) ==
  /\ turn' = [turn EXCEPT ![t] = Asked(ph, c, n, th)]
  /\ ph = "charges" => ~Stored(t)
  /\ ph = "writes" => turn[t].phase = "charges"
  /\ ph = "increments" => turn[t].phase = "writes"

LEMMA PaidGrows ==
  ASSUME ChatInv, NEW t \in Turn, NEW ph, NEW c, NEW n, NEW th,
         TurnMoves(t, ph, c, n, th), MessagesGrow(t)
  PROVE  /\ turn'[t] = Asked(ph, c, n, th) /\ \A u \in Turn \ {t} : turn'[u] = turn[u]
         /\ \A u \in Turn : Stored(u) => Stored(u)'
         /\ StoredTurns \subseteq StoredTurns' /\ Paid \subseteq Paid' /\ Booked \subseteq Booked'
         /\ Cardinality(Paid) \in Nat /\ Cardinality(Paid') \in Nat
         /\ Cardinality(Paid) <= Cardinality(Paid')
         /\ Cardinality(Booked) \in Nat /\ Cardinality(Booked') \in Nat
         /\ Cardinality(Booked) <= Cardinality(Booked')
         /\ Cardinality(StoredTurns) \in Nat /\ Cardinality(StoredTurns') \in Nat
         /\ Cardinality(StoredTurns) <= Cardinality(StoredTurns')
<1>1. turn'[t] = Asked(ph, c, n, th) /\ \A u \in Turn \ {t} : turn'[u] = turn[u]
  BY DEF TurnMoves, ChatInv, ChatShapes
<1>2. turn'[t].phase = ph
  BY <1>1 DEF Asked
<1>3. \A u \in Turn : Stored(u) => Stored(u)'
  BY DEF MessagesGrow, Stored
<1>4. StoredTurns \subseteq StoredTurns'
  BY <1>3 DEF StoredTurns
<1>5. Paid \subseteq Paid'
  BY <1>1, <1>2, <1>3 DEF Paid, TurnMoves
<1>6. Booked \subseteq Booked'
  BY <1>1, <1>2, <1>3 DEF Booked, TurnMoves
<1>7. /\ Paid \in SUBSET Turn /\ Paid' \in SUBSET Turn /\ Booked \in SUBSET Turn /\ Booked' \in SUBSET Turn
      /\ StoredTurns \in SUBSET Turn /\ StoredTurns' \in SUBSET Turn
  BY DEF Paid, Booked, StoredTurns
<1>8. /\ Cardinality(Paid) \in Nat /\ Cardinality(Paid') \in Nat
      /\ Cardinality(Paid) <= Cardinality(Paid')
  BY <1>5, <1>7, TurnSets
<1>9. /\ Cardinality(Booked) \in Nat /\ Cardinality(Booked') \in Nat
      /\ Cardinality(Booked) <= Cardinality(Booked')
  BY <1>6, <1>7, TurnSets
<1>10. /\ Cardinality(StoredTurns) \in Nat /\ Cardinality(StoredTurns') \in Nat
       /\ Cardinality(StoredTurns) <= Cardinality(StoredTurns')
  BY <1>4, <1>7, TurnSets
<1> QED
  BY <1>1, <1>3, <1>4, <1>5, <1>6, <1>8, <1>9, <1>10

(* What a step of a turn has to show.                                           *)
LoudMove(t, ph, c, n, th) ==
  /\ TurnMoves(t, ph, c, n, th) /\ MessagesGrow(t) /\ TurnIsSound(t)'
  /\ used' \in Nat /\ used' <= Cardinality(Paid') /\ counted' \subseteq Nat
  /\ ~countedTwice' => ~countedTwice /\ \A m \in counted' : m <= Cardinality(Booked')
  /\ ph = "refused" /\ ~countedTwice' => Cardinality(StoredTurns') >= Limit

LEMMA TurnKeeps ==
  ASSUME ChatInv, NEW t \in Turn, NEW ph, NEW c, NEW n, NEW th, LoudMove(t, ph, c, n, th)
  PROVE  ChatInv'
<1> USE DEF LoudMove
<1>1. /\ turn'[t] = Asked(ph, c, n, th) /\ \A u \in Turn \ {t} : turn'[u] = turn[u]
      /\ \A u \in Turn : Stored(u) => Stored(u)'
      /\ Cardinality(Paid) \in Nat /\ Cardinality(Paid') \in Nat
      /\ Cardinality(Paid) <= Cardinality(Paid')
      /\ Cardinality(StoredTurns) \in Nat /\ Cardinality(StoredTurns') \in Nat
      /\ Cardinality(StoredTurns) <= Cardinality(StoredTurns')
  BY PaidGrows
<1>2. turn'[t].phase = ph
  BY <1>1 DEF Asked
<1>3. ChatShapes'
  <2>1. turn' = [u \in Turn |-> IF u = t THEN Asked(ph, c, n, th) ELSE turn[u]]
    BY DEF TurnMoves, ChatInv, ChatShapes
  <2>2. turn' = [u \in Turn |-> Asked(turn'[u].phase, turn'[u].conv, turn'[u].count, turn'[u].then)]
    BY <2>1 DEF Asked, ChatInv, ChatShapes
  <2> QED
    BY <2>2 DEF MessagesGrow, ChatShapes
<1>4. ASSUME NEW u \in Turn PROVE TurnIsSound(u)'
  <2>1. CASE u = t
    BY <2>1
  <2>2. CASE u # t
    <3>1. TurnIsSound(u) /\ turn'[u] = turn[u]
      BY <1>1, <2>2 DEF ChatInv
    <3>2. \A d \in Turn : /\ <<u, "user">> \in message[d] => <<u, "user">> \in message'[d]
                          /\ <<u, "model">> \in message'[d] => <<u, "model">> \in message[d]
      BY <2>2 DEF MessagesGrow
    <3>3. turn[u].count \in Nat /\ (turn[u].count <= Cardinality(Paid) => turn[u].count <= Cardinality(Paid'))
      BY <1>1, <3>1 DEF TurnIsSound
    <3> QED
      BY <1>1, <3>1, <3>2, <3>3 DEF TurnIsSound
  <2> QED
    BY <2>1, <2>2
<1>5. CountsArePaid'
  BY DEF CountsArePaid
<1>6. RefusalIsDeserved'
  <2> SUFFICES ASSUME NEW u \in Turn, turn'[u].phase = "refused", ~countedTwice'
               PROVE  Cardinality(StoredTurns') >= Limit
    BY DEF RefusalIsDeserved, At, StoredTurns
  <2>1. CASE u = t
    BY <1>2, <2>1
  <2>2. CASE u # t
    <3>1. turn[u].phase = "refused" /\ ~countedTwice
      BY <1>1, <2>2
    <3>2. Cardinality(StoredTurns) >= Limit
      BY <3>1 DEF ChatInv, RefusalIsDeserved, At, StoredTurns
    <3> QED
      BY <1>1, <3>2, ChatAssumption
  <2> QED
    BY <2>1, <2>2
<1> QED
  BY <1>3, <1>4, <1>5, <1>6 DEF ChatInv

(* A step that leaves messages and counts alone.                                *)
QuietMove(t, ph, c, n, th) ==
  /\ turn' = [turn EXCEPT ![t] = Asked(ph, c, n, th)]
  /\ UNCHANGED <<message, used, counted, countedTwice>>
  /\ n \in Nat /\ th \in {"open", "end"}
  /\ ph \notin {"charges", "answer", "increments"}
  /\ ph \in {"answers", "evaluates", "enqueues", "question"} => c \in Turn
  /\ IsEarly(ph, th) => IsEarly(turn[t].phase, turn[t].then)
  /\ ph = "writes" => turn[t].phase = "charges"
  /\ ph \in {"writes", "fills"} => n <= Cardinality(Paid)
  /\ ph = "refused" /\ ~countedTwice => Cardinality(StoredTurns) >= Limit

LEMMA QuietTurnKeeps ==
  ASSUME ChatInv, NEW t \in Turn, NEW ph, NEW c, NEW n, NEW th, QuietMove(t, ph, c, n, th)
  PROVE  ChatInv'
<1> USE DEF QuietMove
<1>1. TurnMoves(t, ph, c, n, th) /\ MessagesGrow(t)
  BY DEF TurnMoves, MessagesGrow, ChatInv, ChatShapes
<1>2. /\ turn'[t] = Asked(ph, c, n, th) /\ \A u \in Turn : Stored(u) => Stored(u)'
      /\ Cardinality(Paid) \in Nat /\ Cardinality(Paid') \in Nat
      /\ Cardinality(Paid) <= Cardinality(Paid')
      /\ Cardinality(Booked) \in Nat /\ Cardinality(Booked') \in Nat
      /\ Cardinality(Booked) <= Cardinality(Booked')
      /\ Cardinality(StoredTurns) \in Nat /\ Cardinality(StoredTurns') \in Nat
      /\ Cardinality(StoredTurns) <= Cardinality(StoredTurns')
  BY <1>1, PaidGrows
<1>3. turn'[t].phase = ph /\ turn'[t].conv = c /\ turn'[t].count = n /\ turn'[t].then = th
  BY <1>2 DEF Asked
<1>4. TurnIsSound(t)
  BY DEF ChatInv
<1>5. ph \in {"writes", "fills"} => n <= Cardinality(Paid')
  BY <1>2
<1>6. TurnIsSound(t)'
  BY <1>2, <1>3, <1>4, <1>5 DEF TurnIsSound
<1>7. used' \in Nat /\ used' <= Cardinality(Paid') /\ counted' \subseteq Nat
  BY <1>2 DEF ChatInv, ChatShapes, CountsArePaid
<1>8. ~countedTwice' => ~countedTwice /\ \A m \in counted' : m <= Cardinality(Booked')
  BY <1>2 DEF ChatInv, ChatShapes, CountsArePaid
<1>9. ph = "refused" /\ ~countedTwice' => Cardinality(StoredTurns') >= Limit
  BY <1>2, ChatAssumption
<1>10. LoudMove(t, ph, c, n, th)
  BY <1>1, <1>6, <1>7, <1>8, <1>9 DEF LoudMove
<1> QED
  BY <1>10, TurnKeeps

LEMMA AskedFields ==
  ASSUME NEW p, NEW c, NEW n, NEW th, NEW v
  PROVE  /\ [Asked(p, c, n, th) EXCEPT !.phase = v] = Asked(v, c, n, th)
         /\ [Asked(p, c, n, th) EXCEPT !.conv = v] = Asked(p, v, n, th)
         /\ [Asked(p, c, n, th) EXCEPT !.count = v] = Asked(p, c, v, th)
         /\ [Asked(p, c, n, th) EXCEPT !.then = v] = Asked(p, c, n, v)
  BY DEF Asked

LEMMA TurnIsAsked ==
  ASSUME ChatInv, NEW t \in Turn, NEW v
  PROVE  /\ [turn[t] EXCEPT !.phase = v] = Asked(v, turn[t].conv, turn[t].count, turn[t].then)
         /\ [turn[t] EXCEPT !.conv = v] = Asked(turn[t].phase, v, turn[t].count, turn[t].then)
         /\ [turn[t] EXCEPT !.count = v] = Asked(turn[t].phase, turn[t].conv, v, turn[t].then)
<1> DEFINE q == Asked(turn[t].phase, turn[t].conv, turn[t].count, turn[t].then)
<1>1. turn[t] = q
  BY DEF ChatInv, ChatShapes
<1>2. /\ [q EXCEPT !.phase = v] = Asked(v, turn[t].conv, turn[t].count, turn[t].then)
      /\ [q EXCEPT !.conv = v] = Asked(turn[t].phase, v, turn[t].count, turn[t].then)
      /\ [q EXCEPT !.count = v] = Asked(turn[t].phase, turn[t].conv, v, turn[t].then)
  BY DEF Asked
<1> QED
  BY <1>1, <1>2, Zenon

LEMMA GoesIs ==
  ASSUME ChatInv, NEW t \in Turn, NEW ph, Goes(t, ph)
  PROVE  turn' = [turn EXCEPT ![t] = Asked(ph, turn[t].conv, turn[t].count, turn[t].then)]
  BY TurnIsAsked DEF Goes

LEMMA CountAndPhase ==
  ASSUME ChatInv, NEW t \in Turn, NEW ph, NEW v,
         \/ turn' = [turn EXCEPT ![t].phase = ph, ![t].count = v]
         \/ turn' = [turn EXCEPT ![t].count = v, ![t].phase = ph]
  PROVE  turn' = [turn EXCEPT ![t] = Asked(ph, turn[t].conv, v, turn[t].then)]
<1>0. t \in DOMAIN turn
  BY DEF ChatInv, ChatShapes
<1>1. CASE turn' = [turn EXCEPT ![t].phase = ph, ![t].count = v]
  <2>1. turn' = [turn EXCEPT ![t] = [[turn[t] EXCEPT !.phase = ph] EXCEPT !.count = v]]
    BY <1>0, <1>1
  <2>2. [turn[t] EXCEPT !.phase = ph] = Asked(ph, turn[t].conv, turn[t].count, turn[t].then)
    BY TurnIsAsked
  <2>3. [Asked(ph, turn[t].conv, turn[t].count, turn[t].then) EXCEPT !.count = v]
          = Asked(ph, turn[t].conv, v, turn[t].then)
    BY DEF Asked
  <2> QED
    BY <2>1, <2>2, <2>3, Zenon
<1>2. CASE turn' = [turn EXCEPT ![t].count = v, ![t].phase = ph]
  <2>1. turn' = [turn EXCEPT ![t] = [[turn[t] EXCEPT !.count = v] EXCEPT !.phase = ph]]
    BY <1>0, <1>2
  <2>2. [turn[t] EXCEPT !.count = v] = Asked(turn[t].phase, turn[t].conv, v, turn[t].then)
    BY TurnIsAsked
  <2>3. [Asked(turn[t].phase, turn[t].conv, v, turn[t].then) EXCEPT !.phase = ph]
          = Asked(ph, turn[t].conv, v, turn[t].then)
    BY DEF Asked
  <2> QED
    BY <2>1, <2>2, <2>3, Zenon
<1> QED
  BY <1>1, <1>2

LEMMA ConvAndPhase ==
  ASSUME ChatInv, NEW t \in Turn, NEW ph, NEW v,
         turn' = [turn EXCEPT ![t].conv = v, ![t].phase = ph]
  PROVE  turn' = [turn EXCEPT ![t] = Asked(ph, v, turn[t].count, turn[t].then)]
<1>1. turn' = [turn EXCEPT ![t] = [[turn[t] EXCEPT !.conv = v] EXCEPT !.phase = ph]]
  BY DEF ChatInv, ChatShapes
<1>2. [turn[t] EXCEPT !.conv = v] = Asked(turn[t].phase, v, turn[t].count, turn[t].then)
  BY TurnIsAsked
<1>3. [Asked(turn[t].phase, v, turn[t].count, turn[t].then) EXCEPT !.phase = ph]
        = Asked(ph, v, turn[t].count, turn[t].then)
  BY DEF Asked
<1> QED
  BY <1>1, <1>2, <1>3, Zenon

(* The first steps of a turn, up to its first message.                          *)
LEMMA BeginningKeeps ==
  ASSUME ChatInv, NEW t \in Turn,
         \/ \E c \in Turn \cup {NoConv} : AsksChat(t, c)
         \/ Misses(t) \/ OpensConversation(t) \/ Synthesises(t) \/ Evaluates(t)
         \/ EnqueuesJudge(t) \/ ClientGoes(t)
  PROVE  ChatInv'
<1> USE DEF countVars, At
<1>0. TurnIsSound(t)
  BY DEF ChatInv
<1>1. CASE \E c \in Turn \cup {NoConv} : AsksChat(t, c)
  <2>1. PICK c \in Turn \cup {NoConv} : AsksChat(t, c)
    BY <1>1
  <2>2. turn' = [turn EXCEPT ![t] = Asked("checks", c, 0, "open")]
        /\ UNCHANGED <<message, used, counted, countedTwice>>
    BY <2>1 DEF AsksChat
  <2>3. IsEarly(turn[t].phase, turn[t].then)
    BY <2>1 DEF AsksChat, IsEarly, Early
  <2>4. QuietMove(t, "checks", c, 0, "open")
    BY <2>2, <2>3 DEF QuietMove
  <2> QED
    BY <2>4, QuietTurnKeeps
<1>2. CASE Misses(t)
  <2>1. QuietMove(t, "reads", turn[t].conv, turn[t].count, turn[t].then)
    BY <1>0, <1>2, GoesIs DEF QuietMove, Misses, IsEarly, Early, TurnIsSound
  <2> QED
    BY <2>1, QuietTurnKeeps
<1>3. CASE OpensConversation(t)
  <2>1. CASE turn[t].conv \in Live /\ Goes(t, "answers")
    <3>1. QuietMove(t, "answers", turn[t].conv, turn[t].count, turn[t].then)
      BY <1>0, <1>3, <2>1, GoesIs DEF QuietMove, OpensConversation, IsEarly, Early, TurnIsSound, Live
    <3> QED
      BY <3>1, QuietTurnKeeps
  <2>2. CASE turn' = [turn EXCEPT ![t].conv = t, ![t].phase = "answers"]
    <3>1. turn' = [turn EXCEPT ![t] = Asked("answers", t, turn[t].count, turn[t].then)]
      BY <2>2, ConvAndPhase
    <3>2. turn[t].count \in Nat /\ UNCHANGED <<message, used, counted, countedTwice>>
          /\ IsEarly(turn[t].phase, turn[t].then)
      BY <1>0, <1>3 DEF OpensConversation, IsEarly, Early, TurnIsSound
    <3>3. QuietMove(t, "answers", t, turn[t].count, turn[t].then)
      BY <1>0, <3>1, <3>2 DEF QuietMove, TurnIsSound
    <3> QED
      BY <3>3, QuietTurnKeeps
  <2> QED
    BY <1>3, <2>1, <2>2 DEF OpensConversation
<1>4. CASE Synthesises(t)
  <2>1. \E ph \in {"evaluates", "failed"} : QuietMove(t, ph, turn[t].conv, turn[t].count, turn[t].then)
    BY <1>0, <1>4, GoesIs DEF QuietMove, Synthesises, IsEarly, Early, TurnIsSound
  <2> QED
    BY <2>1, QuietTurnKeeps
<1>5. CASE Evaluates(t)
  <2>1. \E ph \in {"enqueues", "question"} : QuietMove(t, ph, turn[t].conv, turn[t].count, turn[t].then)
    BY <1>0, <1>5, GoesIs DEF QuietMove, Evaluates, IsEarly, Early, TurnIsSound
  <2> QED
    BY <2>1, QuietTurnKeeps
<1>6. CASE EnqueuesJudge(t)
  <2>1. QuietMove(t, "question", turn[t].conv, turn[t].count, turn[t].then)
    BY <1>0, <1>6, GoesIs DEF QuietMove, EnqueuesJudge, IsEarly, Early, TurnIsSound
  <2> QED
    BY <2>1, QuietTurnKeeps
<1>7. CASE ClientGoes(t)
  <2>1. turn' = [turn EXCEPT ![t] = Asked("gone", NoConv, 0, "end")]
        /\ UNCHANGED <<message, used, counted, countedTwice>>
    BY <1>7 DEF ClientGoes
  <2>2. ~IsEarly("gone", "end")
    BY DEF IsEarly, Early
  <2>3. QuietMove(t, "gone", NoConv, 0, "end")
    BY <2>1, <2>2 DEF QuietMove
  <2> QED
    BY <2>3, QuietTurnKeeps
<1> QED
  BY <1>1, <1>2, <1>3, <1>4, <1>5, <1>6, <1>7

(* What a turn learns about the limit is not more than what is paid; who is      *)
(* refused has that many stored turns.                                          *)
LEMMA AfterFacts ==
  ASSUME ChatInv, NEW t \in Turn, NEW n \in Nat
  PROVE  /\ After(t, n) \in {"done", "opens", "refused"}
         /\ After(t, n) = "refused" => n >= Limit
         /\ IsEarly(After(t, n), turn[t].then) => turn[t].then # "end"
  BY ChatAssumption DEF After, IsEarly, Early

LEMMA OnlyPaidAreStored ==
  /\ Cardinality(Paid) \in Nat /\ Cardinality(Booked) \in Nat /\ Cardinality(StoredTurns) \in Nat
  /\ Cardinality(Paid) <= Cardinality(StoredTurns)
  /\ Cardinality(Booked) <= Cardinality(Paid)
<1>1. /\ Paid \in SUBSET Turn /\ Booked \in SUBSET Turn /\ StoredTurns \in SUBSET Turn
      /\ Paid \subseteq StoredTurns /\ Booked \subseteq Paid
  BY DEF Paid, Booked, StoredTurns
<1> QED
  BY <1>1, TurnSets

LEMMA LearningKeeps ==
  ASSUME ChatInv, NEW t \in Turn, Hits(t) \/ ReadsUsage(t) \/ ReadsCount(t)
  PROVE  ChatInv'
<1> USE DEF countVars, At
<1>0. TurnIsSound(t) /\ used \in Nat /\ used <= Cardinality(Paid)
  BY DEF ChatInv, ChatShapes, CountsArePaid
<1>1. CASE Hits(t)
  <2>1. PICK n \in counted : Goes(t, After(t, n))
    BY <1>1 DEF Hits
  <2>2. n \in Nat /\ turn[t].phase = "checks"
    BY <1>1, <2>1 DEF Hits, ChatInv, ChatShapes
  <2>3. /\ After(t, n) \in {"done", "opens", "refused"}
        /\ After(t, n) = "refused" => n >= Limit
    BY <2>2, AfterFacts DEF IsEarly, Early
  <2>4. IsEarly(After(t, n), turn[t].then) => IsEarly(turn[t].phase, turn[t].then)
    BY <1>0, <2>2, AfterFacts DEF IsEarly, Early, TurnIsSound
  <2>5. ~countedTwice => n <= Cardinality(Booked)
    BY <2>1 DEF ChatInv, CountsArePaid
  <2>6. After(t, n) = "refused" /\ ~countedTwice => Cardinality(StoredTurns) >= Limit
    BY <2>2, <2>3, <2>5, OnlyPaidAreStored, ChatAssumption
  <2>7. turn' = [turn EXCEPT ![t] = Asked(After(t, n), turn[t].conv, turn[t].count, turn[t].then)]
        /\ UNCHANGED <<message, used, counted, countedTwice>> /\ turn[t].count \in Nat
    BY <1>0, <1>1, <2>1, GoesIs DEF Hits, TurnIsSound
  <2>8. QuietMove(t, After(t, n), turn[t].conv, turn[t].count, turn[t].then)
    BY <1>0, <2>3, <2>4, <2>6, <2>7 DEF QuietMove, TurnIsSound
  <2> QED
    BY <2>8, QuietTurnKeeps
<1>2. CASE ReadsUsage(t)
  <2>1. turn' = [turn EXCEPT ![t] = Asked("fills", turn[t].conv, used, turn[t].then)]
    BY <1>2, CountAndPhase DEF ReadsUsage
  <2>2. UNCHANGED <<message, used, counted, countedTwice>> /\ turn[t].phase = "reads"
    BY <1>2 DEF ReadsUsage
  <2>3. IsEarly("fills", turn[t].then) => IsEarly(turn[t].phase, turn[t].then)
    BY <2>2 DEF IsEarly, Early
  <2>4. QuietMove(t, "fills", turn[t].conv, used, turn[t].then)
    BY <1>0, <2>1, <2>2, <2>3 DEF QuietMove, TurnIsSound
  <2> QED
    BY <2>4, QuietTurnKeeps
<1>3. CASE ReadsCount(t)
  <2>1. turn' = [turn EXCEPT ![t] = Asked("writes", turn[t].conv, used, turn[t].then)]
    BY <1>3, CountAndPhase DEF ReadsCount
  <2>2. UNCHANGED <<message, used, counted, countedTwice>> /\ turn[t].phase = "charges"
    BY <1>3 DEF ReadsCount
  <2>3. ~IsEarly("writes", turn[t].then)
    BY DEF IsEarly, Early
  <2>4. QuietMove(t, "writes", turn[t].conv, used, turn[t].then)
    BY <1>0, <2>1, <2>2, <2>3 DEF QuietMove, TurnIsSound
  <2> QED
    BY <2>4, QuietTurnKeeps
<1> QED
  BY <1>1, <1>2, <1>3

LEMMA NotTwice ==
  ASSUME NEW B, countedTwice' = (countedTwice \/ B), ~countedTwice'
  PROVE  ~countedTwice /\ ~B
  BY Zenon

LEMMA BackfillingKeeps ==
  ASSUME ChatInv, NEW t \in Turn, Backfills(t)
  PROVE  ChatInv'
<1> DEFINE n == turn[t].count
           ph == After(t, n)
<1>1. /\ TurnIsSound(t) /\ n \in Nat /\ n <= Cardinality(Paid) /\ turn[t].phase = "fills"
      /\ turn[t].then \in {"open", "end"}
  BY DEF ChatInv, TurnIsSound, Backfills, At
<1>2. turn' = [turn EXCEPT ![t] = Asked(ph, turn[t].conv, 0, turn[t].then)]
  BY CountAndPhase DEF Backfills
<1>3. ph \in {"done", "opens", "refused"} /\ (ph = "refused" => n >= Limit)
  BY <1>1, AfterFacts
<1>4. IsEarly(ph, turn[t].then) => IsEarly(turn[t].phase, turn[t].then)
  BY <1>1, AfterFacts DEF IsEarly, Early
<1>5. UNCHANGED <<message, used>>
  BY DEF Backfills
<1>6. CASE UNCHANGED <<counted, countedTwice>>
  <2>1. ph = "refused" => Cardinality(StoredTurns) >= Limit
    BY <1>1, <1>3, OnlyPaidAreStored, ChatAssumption
  <2>2. QuietMove(t, ph, turn[t].conv, 0, turn[t].then)
    BY <1>1, <1>2, <1>3, <1>4, <1>5, <1>6, <2>1 DEF QuietMove
  <2> QED
    BY <2>2, QuietTurnKeeps
<1>7. CASE counted' = {n} /\ countedTwice' = (countedTwice \/ \E u \in Turn \ {t} : At(u, "increments"))
  <2>1. TurnMoves(t, ph, turn[t].conv, 0, turn[t].then) /\ MessagesGrow(t)
    BY <1>2, <1>3, <1>5 DEF TurnMoves, MessagesGrow, ChatInv, ChatShapes
  <2>2. /\ turn'[t] = Asked(ph, turn[t].conv, 0, turn[t].then)
        /\ \A u \in Turn : Stored(u) => Stored(u)'
        /\ Cardinality(Paid) <= Cardinality(Paid') /\ Cardinality(Paid') \in Nat
        /\ Cardinality(Paid) \in Nat
        /\ Cardinality(Booked) <= Cardinality(Booked') /\ Cardinality(Booked') \in Nat
        /\ Cardinality(Booked) \in Nat
        /\ Cardinality(StoredTurns) <= Cardinality(StoredTurns') /\ Cardinality(StoredTurns') \in Nat
        /\ Cardinality(StoredTurns) \in Nat
    BY <2>1, PaidGrows
  <2>3. turn'[t].phase = ph /\ turn'[t].count = 0 /\ turn'[t].then = turn[t].then
    BY <2>2 DEF Asked
  <2>4. TurnIsSound(t)'
    BY <1>1, <1>3, <1>4, <1>5, <2>2, <2>3 DEF TurnIsSound
  <2>5. used' \in Nat /\ used' <= Cardinality(Paid')
    BY <1>5, <2>2 DEF ChatInv, ChatShapes, CountsArePaid
  <2>6. ASSUME ~countedTwice'
        PROVE  ~countedTwice /\ \A m \in counted' : m <= Cardinality(Booked')
    <3>1. ~countedTwice /\ ~ \E u \in Turn \ {t} : At(u, "increments")
      BY <1>7, <2>6, NotTwice
    <3>2. Paid = Booked
      BY <1>1, <3>1 DEF Paid, Booked, At
    <3>3. n <= Cardinality(Booked')
      BY <1>1, <2>2, <3>2
    <3> QED
      BY <1>7, <3>1, <3>3
  <2>7. ph = "refused" => Cardinality(StoredTurns') >= Limit
    BY <1>1, <1>3, <2>2, OnlyPaidAreStored, ChatAssumption
  <2>8. LoudMove(t, ph, turn[t].conv, 0, turn[t].then)
    BY <1>1, <1>7, <2>1, <2>4, <2>5, <2>6, <2>7 DEF LoudMove
  <2> QED
    BY <2>8, TurnKeeps
<1> QED
  BY <1>6, <1>7 DEF Backfills

(* A turn is stored with its second message, and not before.                    *)
LEMMA SavingKeeps ==
  ASSUME ChatInv, NEW t \in Turn, SavesTurn(t)
  PROVE  ChatInv'
<1> USE DEF countVars, At
<1>0. TurnIsSound(t)
  BY DEF ChatInv
<1>1. ASSUME NEW role \in {"user", "model"}, NEW from \in {"question", "answer"}, NEW to,
             AddsMessage(t, role, from, to), to \in {"answer", "charges"},
             to = "answer" => role = "user" /\ from = "question",
             to = "charges" => role = "model" /\ from = "answer"
      PROVE  ChatInv'
  <2> DEFINE d == turn[t].conv
  <2>1. /\ d \in Turn /\ turn[t].phase = from /\ IsEarly(turn[t].phase, turn[t].then)
        /\ turn[t].count \in Nat /\ turn[t].then \in {"open", "end"}
    BY <1>0, <1>1 DEF AddsMessage, TurnIsSound, IsEarly, Early
  <2>2. turn' = [turn EXCEPT ![t] = Asked(to, d, turn[t].count, turn[t].then)]
    BY <1>1, GoesIs DEF AddsMessage
  <2>3. message' = [c \in Turn |-> IF c = d THEN message[d] \cup {<<t, role>>} ELSE message[c]]
    BY <1>1, <2>1 DEF AddsMessage, ChatInv, ChatShapes
  <2>4. \A c \in Turn : <<t, "model">> \notin message[c]
    BY <1>0, <2>1 DEF TurnIsSound
  <2>5. ~Stored(t)
    BY <2>4 DEF Stored
  <2>6. TurnMoves(t, to, d, turn[t].count, turn[t].then)
    BY <1>1, <2>2, <2>5 DEF TurnMoves
  <2>7. MessagesGrow(t)
    BY <2>3 DEF MessagesGrow
  <2>8. /\ turn'[t] = Asked(to, d, turn[t].count, turn[t].then)
        /\ Cardinality(Paid) <= Cardinality(Paid') /\ Cardinality(Paid') \in Nat
        /\ Cardinality(Paid) \in Nat
        /\ Cardinality(Booked) <= Cardinality(Booked') /\ Cardinality(Booked') \in Nat
        /\ Cardinality(Booked) \in Nat
    BY <2>6, <2>7, PaidGrows
  <2>9. /\ turn'[t].phase = to /\ turn'[t].conv = d /\ turn'[t].count = turn[t].count
        /\ turn'[t].then = turn[t].then
    BY <2>8 DEF Asked
  <2>10. to = "answer" => <<t, "user">> \in message'[d] /\ \A c \in Turn : <<t, "model">> \notin message'[c]
    BY <1>1, <2>1, <2>3, <2>4
  <2>11. to = "charges" => Stored(t)'
    <3>1. to = "charges" => <<t, "model">> \in message'[d] /\ <<t, "user">> \in message'[d]
      BY <1>0, <1>1, <2>1, <2>3 DEF TurnIsSound
    <3> QED
      BY <2>1, <3>1 DEF Stored
  <2>12. TurnIsSound(t)'
    BY <1>1, <2>1, <2>9, <2>10, <2>11 DEF TurnIsSound, IsEarly, Early
  <2>13. UNCHANGED <<used, counted, countedTwice>>
    BY <1>1 DEF AddsMessage
  <2>14. used' \in Nat /\ used' <= Cardinality(Paid') /\ counted' \subseteq Nat
    BY <2>8, <2>13 DEF ChatInv, ChatShapes, CountsArePaid
  <2>15. ~countedTwice' => ~countedTwice /\ \A m \in counted' : m <= Cardinality(Booked')
    BY <2>8, <2>13 DEF ChatInv, ChatShapes, CountsArePaid
  <2>16. LoudMove(t, to, d, turn[t].count, turn[t].then)
    BY <1>1, <2>6, <2>7, <2>12, <2>14, <2>15 DEF LoudMove
  <2> QED
    BY <2>16, TurnKeeps
<1> QED
  BY <1>1 DEF SavesTurn

(* A written count is of one more turn than was read, and that turn is paid now. *)
LEMMA WritingKeeps ==
  ASSUME ChatInv, NEW t \in Turn, WritesCount(t)
  PROVE  ChatInv'
<1> DEFINE n == turn[t].count
<1>1. /\ turn[t].phase = "writes" /\ Stored(t) /\ n \in Nat /\ n <= Cardinality(Paid)
      /\ turn[t].then \in {"open", "end"}
  BY DEF ChatInv, TurnIsSound, WritesCount, At
<1>2. UNCHANGED <<message, counted, countedTwice>>
  BY DEF WritesCount
<1>3. CASE Goes(t, "failed") /\ used' = used
  <2>1. QuietMove(t, "failed", turn[t].conv, n, turn[t].then)
    BY <1>1, <1>2, <1>3, GoesIs DEF QuietMove, IsEarly, Early
  <2> QED
    BY <2>1, QuietTurnKeeps
<1>4. CASE used' = n + 1 /\ turn' = [turn EXCEPT ![t].phase = "increments", ![t].count = 0]
  <2>1. turn' = [turn EXCEPT ![t] = Asked("increments", turn[t].conv, 0, turn[t].then)]
    BY <1>4, CountAndPhase
  <2>2. TurnMoves(t, "increments", turn[t].conv, 0, turn[t].then)
    BY <1>1, <2>1 DEF TurnMoves
  <2>3. MessagesGrow(t)
    BY <1>2 DEF MessagesGrow, ChatInv, ChatShapes
  <2>4. /\ turn'[t] = Asked("increments", turn[t].conv, 0, turn[t].then)
        /\ \A u \in Turn : Stored(u) => Stored(u)'
        /\ Paid \subseteq Paid'
        /\ Cardinality(Paid) \in Nat /\ Cardinality(Paid') \in Nat
        /\ Cardinality(Booked) <= Cardinality(Booked') /\ Cardinality(Booked') \in Nat
        /\ Cardinality(Booked) \in Nat
    BY <2>2, <2>3, PaidGrows
  <2>5. turn'[t].phase = "increments" /\ turn'[t].count = 0 /\ turn'[t].then = turn[t].then
    BY <2>4 DEF Asked
  <2>6. t \in Paid' /\ t \notin Paid
    BY <1>1, <2>4, <2>5 DEF Paid
  <2>7. Cardinality(Paid) + 1 <= Cardinality(Paid')
    <3>1. Paid \in SUBSET Turn /\ Paid' \in SUBSET Turn
      BY DEF Paid
    <3> QED
      BY <2>4, <2>6, <3>1, OneMoreTurn
  <2>8. used' \in Nat /\ used' <= Cardinality(Paid')
    BY <1>1, <1>4, <2>4, <2>7
  <2>9. TurnIsSound(t)'
    BY <1>1, <2>4, <2>5 DEF TurnIsSound, IsEarly, Early
  <2>10. counted' \subseteq Nat
    BY <1>2 DEF ChatInv, ChatShapes
  <2>11. ~countedTwice' => ~countedTwice /\ \A m \in counted' : m <= Cardinality(Booked')
    BY <1>2, <2>4 DEF ChatInv, ChatShapes, CountsArePaid
  <2>12. LoudMove(t, "increments", turn[t].conv, 0, turn[t].then)
    BY <2>2, <2>3, <2>8, <2>9, <2>10, <2>11 DEF LoudMove
  <2> QED
    BY <2>12, TurnKeeps
<1> QED
  BY <1>3, <1>4 DEF WritesCount

(* INCR counts a turn that is booked by the same step.                          *)
LEMMA IncrementKeeps ==
  ASSUME ChatInv, NEW t \in Turn, Increments(t)
  PROVE  ChatInv'
<1>1. /\ turn[t].phase = "increments" /\ Stored(t) /\ turn[t].count \in Nat
  <2>1. turn[t].phase = "increments"
    BY DEF Increments, At
  <2>2. TurnIsSound(t)
    BY DEF ChatInv
  <2>3. Stored(t) /\ turn[t].count \in Nat
    BY <2>1, <2>2 DEF TurnIsSound, IsEarly, Early
  <2> QED
    BY <2>1, <2>3
<1>2. turn' = [turn EXCEPT ![t] = Asked("checks", turn[t].conv, turn[t].count, "end")]
  <2>1. turn' = [turn EXCEPT ![t].phase = "checks", ![t].then = "end"]
    BY DEF Increments
  <2>2. turn' = [turn EXCEPT ![t] = [[turn[t] EXCEPT !.phase = "checks"] EXCEPT !.then = "end"]]
    BY <2>1 DEF ChatInv, ChatShapes
  <2>3. [turn[t] EXCEPT !.phase = "checks"] = Asked("checks", turn[t].conv, turn[t].count, turn[t].then)
    BY TurnIsAsked
  <2>4. [Asked("checks", turn[t].conv, turn[t].count, turn[t].then) EXCEPT !.then = "end"]
          = Asked("checks", turn[t].conv, turn[t].count, "end")
    BY DEF Asked
  <2> QED
    BY <2>2, <2>3, <2>4, Zenon
<1>3. UNCHANGED <<message, used, countedTwice>>
  BY DEF Increments
<1>4. TurnMoves(t, "checks", turn[t].conv, turn[t].count, "end") /\ MessagesGrow(t)
  BY <1>2, <1>3 DEF TurnMoves, MessagesGrow, ChatInv, ChatShapes
<1>5. /\ turn'[t] = Asked("checks", turn[t].conv, turn[t].count, "end")
      /\ \A u \in Turn : Stored(u) => Stored(u)'
      /\ Booked \subseteq Booked'
      /\ Cardinality(Paid) \in Nat /\ Cardinality(Paid') \in Nat
      /\ Cardinality(Paid) <= Cardinality(Paid')
      /\ Cardinality(Booked) <= Cardinality(Booked') /\ Cardinality(Booked') \in Nat
      /\ Cardinality(Booked) \in Nat
  BY <1>4, PaidGrows
<1>6. turn'[t].phase = "checks" /\ turn'[t].count = turn[t].count /\ turn'[t].then = "end"
  BY <1>5 DEF Asked
<1>7. Cardinality(Booked) + 1 <= Cardinality(Booked')
  <2>1. t \in Booked' /\ t \notin Booked
    BY <1>1, <1>5, <1>6 DEF Booked
  <2>2. Booked \in SUBSET Turn /\ Booked' \in SUBSET Turn
    BY DEF Booked
  <2> QED
    BY <1>5, <2>1, <2>2, OneMoreTurn
<1>8. counted \subseteq Nat /\ (~countedTwice => \A m \in counted : m <= Cardinality(Booked))
  BY DEF ChatInv, ChatShapes, CountsArePaid
<1>9. counted' \subseteq Nat /\ (~countedTwice => \A m \in counted' : m <= Cardinality(Booked'))
  <2>1. CASE counted' = counted
    BY <1>5, <1>8, <2>1
  <2>2. CASE counted' = {1}
    BY <1>5, <1>7, <2>2
  <2>3. CASE counted' = {n + 1 : n \in counted}
    BY <1>5, <1>7, <1>8, <2>3
  <2> QED
    BY <2>1, <2>2, <2>3 DEF Increments
<1>10. TurnIsSound(t)'
  BY <1>1, <1>5, <1>6 DEF TurnIsSound, IsEarly, Early
<1>11. used' \in Nat /\ used' <= Cardinality(Paid')
  BY <1>3, <1>5 DEF ChatInv, ChatShapes, CountsArePaid
<1>12. LoudMove(t, "checks", turn[t].conv, turn[t].count, "end")
  BY <1>3, <1>4, <1>9, <1>10, <1>11 DEF LoudMove
<1> QED
  BY <1>12, TurnKeeps

(* Nothing here looks at conversations and evaluations.                         *)
LEMMA StillTurns ==
  ASSUME ChatInv, UNCHANGED <<turn, message, used, countedTwice>>, counted' \subseteq counted
  PROVE  ChatInv'
<1>1. Paid' = Paid /\ Booked' = Booked /\ \A t \in Turn : Stored(t)' = Stored(t)
  BY DEF Paid, Booked, Stored
<1>2. ChatShapes'
  BY DEF ChatInv, ChatShapes
<1>3. \A t \in Turn : TurnIsSound(t)'
  BY <1>1 DEF ChatInv, TurnIsSound
<1>4. CountsArePaid'
  BY <1>1 DEF ChatInv, CountsArePaid
<1>5. RefusalIsDeserved'
  BY DEF ChatInv, RefusalIsDeserved, At, Stored
<1> QED
  BY <1>2, <1>3, <1>4, <1>5 DEF ChatInv

LEMMA ChatStepKeeps ==
  ASSUME ChatInv, NEW t \in Turn, ChatStep(t)
  PROVE  ChatInv'
<1>1. CASE Judges(t)
  BY <1>1, StillTurns DEF Judges, countVars
<1> QED
  BY <1>1, BeginningKeeps, LearningKeeps, BackfillingKeeps, SavingKeeps, WritingKeeps, IncrementKeeps
     DEF ChatStep

LEMMA ChatNextKeeps == ChatInv /\ [ChatNext]_chatVars => ChatInv'
<1> SUFFICES ASSUME ChatInv, [ChatNext]_chatVars PROVE ChatInv'
  OBVIOUS
<1>1. ASSUME NEW c \in Turn, DeletesConversation(c) PROVE ChatInv'
  BY <1>1, StillTurns DEF DeletesConversation, countVars
<1>2. CASE CountIsLost
  BY <1>2, StillTurns DEF CountIsLost
<1>3. CASE UNCHANGED chatVars
  BY <1>3, StillTurns DEF chatVars, countVars
<1> QED
  BY <1>1, <1>2, <1>3, ChatStepKeeps DEF ChatNext

LEMMA ChatInitHolds == ChatInit => ChatInv
<1> SUFFICES ASSUME ChatInit PROVE ChatInv
  OBVIOUS
<1>1. \A t \in Turn : turn[t] = Asked("new", NoConv, 0, "open") /\ message[t] = {}
  BY DEF ChatInit
<1>2. \A t \in Turn : turn[t].phase = "new" /\ turn[t].count = 0 /\ turn[t].then = "open"
  BY <1>1 DEF Asked
<1>3. ChatShapes
  <2>1. turn = [t \in Turn |-> Asked(turn[t].phase, turn[t].conv, turn[t].count, turn[t].then)]
    BY DEF ChatInit, Asked
  <2> QED
    BY <2>1 DEF ChatInit, ChatShapes
<1>4. \A t \in Turn : TurnIsSound(t)
  BY <1>1, <1>2 DEF TurnIsSound, IsEarly, Early
<1>5. CountsArePaid
  BY OnlyPaidAreStored DEF ChatInit, CountsArePaid
<1>6. RefusalIsDeserved
  BY <1>2 DEF RefusalIsDeserved, At
<1> QED
  BY <1>3, <1>4, <1>5, <1>6 DEF ChatInv

(* Nobody is refused before so many of his answers are stored, for any number   *)
(* of questions at once, any limit, and any loss in Redis.                      *)
THEOREM RefusalsAreDeserved == ChatSpec => []RefusalIsDeserved
<1>1. ChatInv => RefusalIsDeserved
  BY DEF ChatInv
<1> QED
  BY <1>1, ChatInitHolds, ChatNextKeeps, PTL DEF ChatSpec
=============================================================================
