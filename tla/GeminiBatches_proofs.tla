------------------------ MODULE GeminiBatches_proofs ------------------------
(* Ownership of pages by batches, and what a page may cost, for any pages,   *)
(* rows, submitters, pollers and bounds.                                     *)
EXTENDS GeminiBatches, Milestones_proofs

Holds(s, p) == sub[s].phase # "free" /\ p \in sub[s].todo
InRow(k, p) == ActiveRow(k) /\ p \in row[k].pages

(* A page that is claimed or in a batch is in progress, and has one owner.   *)
PagesInProgress ==
  \A p \in Page : /\ \A k \in Row : InRow(k, p) => ms[p] = "in_progress"
                  /\ \A s \in Submitter : Holds(s, p) => ms[p] = "in_progress"
OneOwner ==
  \A p \in Page :
    /\ \A k, l \in Row : InRow(k, p) /\ InRow(l, p) => k = l
    /\ \A s, t \in Submitter : Holds(s, p) /\ Holds(t, p) => s = t
    /\ \A s \in Submitter, k \in Row : ~(Holds(s, p) /\ InRow(k, p))

(* A batch under way is made of claimed pages, and its row is nobody else's. *)
SliceIsHeld ==
  \A s \in Submitter : sub[s].row # {} =>
    sub[s].phase = "sending" /\ sub[s].slice \subseteq sub[s].todo
RowIsReserved ==
  \A s \in Submitter : \A k \in sub[s].row :
    ~ActiveRow(k) /\ \A t \in Submitter : k \in sub[t].row => t = s

(* One poller has rows in hand, and they are open.                           *)
PollsOpenRows ==
  \A w \in Poller, k \in Row : seen[w][k] # "none" =>
    ActiveRow(k) /\ \A v \in Poller, l \in Row : seen[v][l] # "none" => v = w

OwnInv == PagesInProgress /\ OneOwner /\ SliceIsHeld /\ RowIsReserved /\ PollsOpenRows

(* What was paid for a page is counted, save for the batch it is part of and *)
(* for a page that is given up.                                              *)
Engaged(p) == \/ \E k \in Row : InRow(k, p)
              \/ \E s \in Submitter : sub[s].row # {} /\ p \in sub[s].slice
Counts(p) == \/ ms[p] \in {"idle", "in_progress"} /\ ~Engaged(p)
             \/ ms[p] = "failed" /\ retry[p] < MaxRetries
SpendInv == \A p \in Page : sent[p] <= retry[p] + faults + IF Counts(p) THEN 0 ELSE 1

(* Whoever says complete, or is about to, says so of succeeded pages.        *)
SaysComplete == bms = "complete" \/ \E x \in Actor : roll[x] = "complete"
CompleteInv == SaysComplete => \A p \in Page : ms[p] = "succeeded"

BatchInv == BatchTypeOK /\ (late \/ (OwnInv /\ SpendInv /\ CompleteInv))

-----------------------------------------------------------------------------
(* Types.                                                                    *)
LEMMA PageTypes ==
  ASSUME BatchTypeOK
  PROVE  /\ \A P, v : v \in PageStatus => Marked(P, v) \in [Page -> PageStatus]
         /\ \A P : Counted(P) \in [Page -> 0 .. MaxRetries]
         /\ \A m : Rolled(m) \in BookMilestone
         /\ {"idle", "in_progress", "succeeded", "failed"} = PageStatus
<1>1. \A m : Rolled(m) \in BookMilestone
  BY RollUpType DEF Rolled
<1>2. \A P : Counted(P) \in [Page -> 0 .. MaxRetries]
  BY BatchAssumption DEF BatchTypeOK, Counted, Bumped
<1>3. \A P, v : v \in PageStatus => Marked(P, v) \in [Page -> PageStatus]
  BY DEF BatchTypeOK, Marked
<1> QED
  BY <1>1, <1>2, <1>3 DEF PageStatus

LEMMA FailType ==
  ASSUME BatchTypeOK, NEW P, FailPages(P)
  PROVE  /\ ms' \in [Page -> PageStatus] /\ retry' \in [Page -> 0 .. MaxRetries]
         /\ result' \in [Page -> {"none", "whole"}]
BY PageTypes DEF FailPages, BatchTypeOK

LEMMA SpendType ==
  ASSUME BatchTypeOK, Spend \/ UNCHANGED faults
  PROVE  faults' \in 0 .. MaxFaults
BY BatchAssumption DEF Spend, BatchTypeOK

SubType == [phase : {"free", "queued", "sending"}, todo : SUBSET Page,
            slice : SUBSET Page, row : SUBSET Row]

LEMMA SubTypes ==
  /\ IdleSub \in SubType
  /\ \A x \in SubType : \A P : Without(x, P) \in SubType
  /\ \A P \in SUBSET Page : [IdleSub EXCEPT !.phase = "queued", !.todo = P] \in SubType
BY DEF IdleSub, SubType, Without

LEMMA OrphanType ==
  ASSUME BatchTypeOK, NEW s \in Submitter, Orphaned(s)
  PROVE  remote' \in [Row -> [state : RemoteState, answer : [Page -> Answer]]]
<1>1. NoBatch \in [state : RemoteState, answer : [Page -> Answer]]
  BY DEF NoBatch, NoAnswer, Answer, RemoteState
<1> QED
  BY <1>1 DEF Orphaned, BatchTypeOK

LEMMA SubmitType ==
  ASSUME BatchTypeOK, NEW s \in Submitter, Submit(s)
  PROVE  BatchTypeOK'
<1> USE DEF BatchTypeOK, pages, batch, history
<1>0. /\ sub \in [Submitter -> SubType] /\ sub[s] \in SubType /\ s \in Actor
      /\ "none" \in {"none", "due"} \cup BookMilestone
      /\ "due" \in {"none", "due"} \cup BookMilestone
  BY DEF SubType, Actor
<1>1. CASE Claim(s)
  <2>1. PICK P \in SUBSET Page :
          /\ ms' = Marked(P, "in_progress") /\ bms' = Rolled(ms')
          /\ sub' = [sub EXCEPT ![s] = [IdleSub EXCEPT !.phase = "queued", !.todo = P]]
    BY <1>1 DEF Claim
  <2>2. sub' \in [Submitter -> SubType]
    BY <1>0, <2>1, SubTypes
  <2>3. ms' \in [Page -> PageStatus] /\ bms' \in BookMilestone
    BY <2>1, PageTypes
  <2> QED
    BY <1>1, <2>2, <2>3 DEF Claim, SubType
<1>2. CASE StartOcr(s)
  BY <1>0, <1>2 DEF StartOcr, SubType
<1>3. CASE StartEmbedding(s)
  <2>1. /\ ms' \in [Page -> PageStatus]
        /\ roll' \in [Actor -> {"none", "due"} \cup BookMilestone]
    <3>1. \/ UNCHANGED <<ms, roll>>
          \/ ms' = Marked(sub[s].todo, "succeeded") /\ roll' = [roll EXCEPT ![s] = "due"]
      BY <1>3 DEF StartEmbedding
    <3>2. ms' \in [Page -> PageStatus]
      BY <3>1, PageTypes DEF BatchTypeOK
    <3>3. roll' \in [Actor -> {"none", "due"} \cup BookMilestone]
      BY <1>0, <3>1 DEF BatchTypeOK
    <3> QED
      BY <3>2, <3>3
  <2>2. sub' \in [Submitter -> SubType]
    <3> DEFINE open == {p \in sub[s].todo : result[p] = "none"}
    <3>1. \/ sub' = [sub EXCEPT ![s] = IdleSub]
          \/ sub' = [sub EXCEPT ![s].phase = "sending", ![s].todo = open]
      BY <1>3 DEF StartEmbedding
    <3>2. open \in SUBSET Page
      BY <1>0 DEF SubType
    <3> HIDE DEF open
    <3>3. CASE sub' = [sub EXCEPT ![s] = IdleSub]
      BY <1>0, <3>3, SubTypes
    <3>4. CASE sub' = [sub EXCEPT ![s].phase = "sending", ![s].todo = open]
      BY <1>0, <3>2, <3>4 DEF SubType
    <3> QED
      BY <3>1, <3>3, <3>4
  <2> QED
    BY <1>3, <2>1, <2>2 DEF StartEmbedding, SubType
<1>4. ASSUME NEW k \in Row, CreateRemote(s, k)
      PROVE  BatchTypeOK'
  <2>1. PICK P \in Slices(s) :
          /\ sub' = [sub EXCEPT ![s].slice = P, ![s].row = {k}]
          /\ sent' = [p \in Page |-> IF p \in P THEN sent[p] + 1 ELSE sent[p]]
    BY <1>4 DEF CreateRemote
  <2>2. sub' \in [Submitter -> SubType]
    BY <1>0, <2>1 DEF Slices, SubType
  <2>3. sent' \in [Page -> Nat]
    BY <2>1
  <2>4. [state |-> "pending", answer |-> NoAnswer] \in [state : RemoteState, answer : [Page -> Answer]]
    BY DEF NoAnswer, Answer, RemoteState
  <2>5. Unused \in [status : RowStatus, pages : SUBSET Page]
    BY DEF Unused, RowStatus
  <2>6. /\ remote' \in [Row -> [state : RemoteState, answer : [Page -> Answer]]]
        /\ row' \in [Row -> [status : RowStatus, pages : SUBSET Page]] /\ old' \subseteq Row
    BY <1>4, <2>4, <2>5 DEF CreateRemote
  <2> QED
    BY <1>4, <2>2, <2>3, <2>6 DEF CreateRemote, SubType
<1>5. CASE CreationFails(s)
  <2>1. PICK P : FailPages(P) /\ sub' = [sub EXCEPT ![s] = Without(@, P)]
    BY <1>5 DEF CreationFails
  <2>2. sub' \in [Submitter -> SubType]
    BY <1>0, <2>1, SubTypes
  <2> QED
    BY <1>0, <1>5, <2>1, <2>2, FailType DEF CreationFails, SubType
<1>6. CASE SaveRow(s)
  <2>1. sub' \in [Submitter -> SubType]
    BY <1>0, <1>6, SubTypes DEF SaveRow
  <2>2. row' \in [Row -> [status : RowStatus, pages : SUBSET Page]]
    BY <1>0, <1>6 DEF SaveRow, SubType, RowStatus, ActiveStatus
  <2> QED
    BY <1>6, <2>1, <2>2 DEF SaveRow, SubType
<1>7. CASE SaveFails(s)
  <2>1. sub' \in [Submitter -> SubType]
    <3>1. \/ sub' = [sub EXCEPT ![s] = IdleSub]
          \/ sub' = [sub EXCEPT ![s] = Without(@, sub[s].slice)]
      BY <1>7 DEF SaveFails
    <3>2. IdleSub \in SubType /\ Without(sub[s], sub[s].slice) \in SubType
      BY <1>0, SubTypes
    <3>3. PICK x \in SubType : sub' = [sub EXCEPT ![s] = x]
      BY <3>1, <3>2
    <3> QED
      BY <1>0, <3>3
  <2>2. /\ ms' \in [Page -> PageStatus] /\ retry' \in [Page -> 0 .. MaxRetries]
        /\ result' \in [Page -> {"none", "whole"}]
    BY <1>7, FailType DEF SaveFails
  <2>3. roll' \in [Actor -> {"none", "due"} \cup BookMilestone]
    BY <1>0, <1>7 DEF SaveFails
  <2> QED
    BY <1>7, <2>1, <2>2, <2>3, OrphanType, SpendType DEF SaveFails, SubType
<1>8. CASE SubmitEnds(s)
  BY <1>0, <1>8, SubTypes DEF SubmitEnds, SubType
<1>9. CASE SubmitDies(s)
  <2>1. sub' \in [Submitter -> SubType]
    BY <1>0, <1>9, SubTypes DEF SubmitDies
  <2> QED
    BY <1>0, <1>9, <2>1, OrphanType, SpendType DEF SubmitDies, SubType
<1> QED
  BY <1>1, <1>2, <1>3, <1>4, <1>5, <1>6, <1>7, <1>8, <1>9 DEF Submit

LEMMA EndedType ==
  ASSUME BatchTypeOK, NEW w \in Poller, NEW k \in Row, NEW v \in RowStatus, Ended(w, k, v)
  PROVE  /\ row' \in [Row -> [status : RowStatus, pages : SUBSET Page]]
         /\ remote' \in [Row -> [state : RemoteState, answer : [Page -> Answer]]]
         /\ old' \subseteq Row
<1>1. /\ NoBatch \in [state : RemoteState, answer : [Page -> Answer]]
      /\ Unused \in [status : RowStatus, pages : SUBSET Page]
  BY DEF NoBatch, NoAnswer, Answer, RemoteState, Unused, RowStatus
<1>2. CASE row' = [row EXCEPT ![k].status = v] /\ UNCHANGED <<remote, old>>
  <2>1. \A x \in [status : RowStatus, pages : SUBSET Page] :
          [x EXCEPT !.status = v] \in [status : RowStatus, pages : SUBSET Page]
    OBVIOUS
  <2> QED
    BY <1>2, <2>1 DEF BatchTypeOK
<1>3. CASE row' = [row EXCEPT ![k] = Unused] /\ remote' = [remote EXCEPT ![k] = NoBatch]
           /\ old' = old \ {k}
  BY <1>1, <1>3 DEF BatchTypeOK
<1> QED
  BY <1>2, <1>3 DEF Ended

LEMMA IngestType ==
  ASSUME BatchTypeOK, NEW k \in Row, IngestOcr(k) \/ IngestEmbedding(k)
  PROVE  /\ ms' \in [Page -> PageStatus] /\ retry' \in [Page -> 0 .. MaxRetries]
         /\ result' \in [Page -> {"none", "whole"}]
<1>1. CASE IngestOcr(k)
  <2>1. ms' \in [Page -> PageStatus] /\ result' \in [Page -> {"none", "whole"}]
    BY <1>1 DEF IngestOcr, BatchTypeOK, PageStatus
  <2> QED
    BY <1>1, <2>1, PageTypes DEF IngestOcr
<1>2. CASE IngestEmbedding(k)
  <2>1. ms' \in [Page -> PageStatus] /\ result' \in [Page -> {"none", "whole"}]
    BY <1>2 DEF IngestEmbedding, BatchTypeOK, PageStatus
  <2> QED
    BY <1>2, <2>1, PageTypes DEF IngestEmbedding
<1> QED
  BY <1>1, <1>2

LEMMA PollType ==
  ASSUME BatchTypeOK, NEW w \in Poller, Poll(w)
  PROVE  BatchTypeOK'
<1> USE DEF batch, pages, history
<1>0. /\ w \in Actor /\ {"none", "failed", "succeeded", "running"} \subseteq RowStatus
      /\ seen[w] \in [Row -> {"none"} \cup ActiveStatus]
  BY DEF Actor, RowStatus, ActiveStatus, BatchTypeOK
<1>1. CASE PollStarts(w)
  <2>1. seen' \in [Poller -> [Row -> {"none"} \cup ActiveStatus]]
    BY <1>0, <1>1 DEF PollStarts, BatchTypeOK, ActiveRow
  <2>2. late' \in BOOLEAN
    BY <1>1 DEF PollStarts, Alone
  <2>3. Spend \/ UNCHANGED faults
    BY <1>1 DEF PollStarts
  <2> QED
    BY <1>1, <2>1, <2>2, <2>3, SpendType DEF PollStarts, BatchTypeOK
<1>2. CASE PollDies(w)
  <2>1. NoRow \in [Row -> {"none"} \cup ActiveStatus]
    BY DEF NoRow
  <2>2. /\ seen' \in [Poller -> [Row -> {"none"} \cup ActiveStatus]]
        /\ roll' \in [Actor -> {"none", "due"} \cup BookMilestone]
    BY <1>0, <1>2, <2>1 DEF PollDies, BatchTypeOK
  <2> QED
    BY <1>2, <2>2, SpendType DEF PollDies, BatchTypeOK
<1>3. ASSUME NEW k \in Row, PollRow(w, k)
      PROVE  BatchTypeOK'
  <2>1. seen' \in [Poller -> [Row -> {"none"} \cup ActiveStatus]]
    BY <1>0, <1>3 DEF PollRow, BatchTypeOK
  <2>2. SUFFICES ASSUME TRUE
                 PROVE  /\ ms' \in [Page -> PageStatus] /\ retry' \in [Page -> 0 .. MaxRetries]
                        /\ result' \in [Page -> {"none", "whole"}]
                        /\ row' \in [Row -> [status : RowStatus, pages : SUBSET Page]]
                        /\ remote' \in [Row -> [state : RemoteState, answer : [Page -> Answer]]]
                        /\ old' \subseteq Row
                        /\ roll' \in [Actor -> {"none", "due"} \cup BookMilestone]
                        /\ silent' \subseteq Page /\ faults' \in 0 .. MaxFaults
    BY <1>3, <2>1, <2>2 DEF PollRow, BatchTypeOK
  <2>3. CASE RowFails(w, k)
    BY <1>0, <2>3, EndedType, FailType DEF RowFails, Owes, BatchTypeOK
  <2>4. CASE OutputIsLost(w, k)
    <3>1. FailPages(row[k].pages) \/ UNCHANGED pages
      BY <2>4 DEF OutputIsLost
    <3>2. Owes(w) \/ UNCHANGED roll
      BY <2>4 DEF OutputIsLost
    <3>3. /\ ms' \in [Page -> PageStatus] /\ retry' \in [Page -> 0 .. MaxRetries]
          /\ result' \in [Page -> {"none", "whole"}]
      BY <3>1, FailType DEF BatchTypeOK
    <3>4. roll' \in [Actor -> {"none", "due"} \cup BookMilestone]
      BY <1>0, <3>2 DEF Owes, BatchTypeOK
    <3> QED
      BY <1>0, <2>4, <3>3, <3>4, EndedType, SpendType DEF OutputIsLost, BatchTypeOK
  <2>5. CASE Ingest(w, k)
    <3>1. IngestOcr(k) \/ IngestEmbedding(k)
      BY <2>5 DEF Ingest
    <3>2. Spend \/ UNCHANGED faults
      BY <2>5 DEF Ingest
    <3>3. silent' \subseteq Page /\ roll' \in [Actor -> {"none", "due"} \cup BookMilestone]
      BY <1>0, <2>5 DEF Ingest, Owes, Answered, BatchTypeOK
    <3> QED
      BY <1>0, <2>5, <3>1, <3>2, <3>3, EndedType, IngestType, SpendType DEF Ingest
  <2>6. CASE StillRuns(w, k)
    <3>1. \A x \in [status : RowStatus, pages : SUBSET Page] :
            [x EXCEPT !.status = "running"] \in [status : RowStatus, pages : SUBSET Page]
      BY <1>0
    <3>2. row' = [row EXCEPT ![k].status = "running"] \/ UNCHANGED row
      BY <2>6 DEF StillRuns
    <3>3. row' \in [Row -> [status : RowStatus, pages : SUBSET Page]]
      <4>1. CASE row' = [row EXCEPT ![k].status = "running"]
        BY <3>1, <4>1 DEF BatchTypeOK
      <4>2. CASE UNCHANGED row
        BY <4>2 DEF BatchTypeOK
      <4> QED
        BY <3>2, <4>1, <4>2
    <3> QED
      BY <2>6, <3>3 DEF StillRuns, BatchTypeOK
  <2> QED
    BY <1>3, <2>3, <2>4, <2>5, <2>6 DEF PollRow
<1> QED
  BY <1>1, <1>2, <1>3 DEF Poll

LEMMA NextBatchType ==
  ASSUME BatchTypeOK, [BatchNext]_bvars
  PROVE  BatchTypeOK'
<1> USE DEF batch, pages, history
<1>1. ASSUME NEW x \in Actor, RollUpReads(x) \/ RollUpWrites(x)
      PROVE  BatchTypeOK'
  BY <1>1, PageTypes DEF RollUpReads, RollUpWrites, BatchTypeOK
<1>2. CASE Gemini
  <2>1. ASSUME NEW k \in Row, Ages(k)
        PROVE  BatchTypeOK'
    BY <2>1 DEF Ages, BatchTypeOK
  <2>2. ASSUME NEW k \in Row, NEW v \in RemoteState, RemoteMoves(k, v)
        PROVE  BatchTypeOK'
    <3>1. CASE remote' = [remote EXCEPT ![k].state = v]
      <4> DEFINE T == [state : RemoteState, answer : [Page -> Answer]]
      <4>1. \A x \in T : [x EXCEPT !.state = v] \in T
        OBVIOUS
      <4>2. remote' \in [Row -> T]
        BY <3>1, <4>1 DEF BatchTypeOK
      <4> QED
        BY <2>2, <4>2 DEF RemoteMoves, BatchTypeOK
    <3>2. ASSUME NEW a \in [row[k].pages -> Answer],
                 remote' = [remote EXCEPT ![k] = [state |-> v, answer |->
                              [p \in Page |-> IF p \in row[k].pages THEN a[p] ELSE "missing"]]]
          PROVE  BatchTypeOK'
      <4>1. [p \in Page |-> IF p \in row[k].pages THEN a[p] ELSE "missing"] \in [Page -> Answer]
        BY DEF Answer
      <4> QED
        BY <2>2, <3>2, <4>1 DEF RemoteMoves, BatchTypeOK
    <3> QED
      BY <2>2, <3>1, <3>2 DEF RemoteMoves
  <2> QED
    BY <1>2, <2>1, <2>2 DEF Gemini
<1>3. CASE Driver
  BY <1>3, PageTypes DEF Driver, BatchTypeOK
<1>4. ASSUME NEW P \in SUBSET Page, WatchdogResets(P)
      PROVE  BatchTypeOK'
  <2>1. Spend \/ UNCHANGED faults
    BY <1>4 DEF WatchdogResets, PutBack
  <2>2. ms' \in [Page -> PageStatus] /\ bms' \in BookMilestone /\ late' \in BOOLEAN
    BY <1>4, PageTypes DEF WatchdogResets, PutBack
  <2> QED
    BY <1>4, <2>1, <2>2, SpendType DEF WatchdogResets, PutBack, BatchTypeOK
<1>5. CASE UNCHANGED bvars
  BY <1>5 DEF bvars, BatchTypeOK
<1> QED
  BY <1>1, <1>2, <1>3, <1>4, <1>5, SubmitType, PollType DEF BatchNext

LEMMA InitBatchType == BatchInit => BatchTypeOK
<1> SUFFICES ASSUME BatchInit PROVE BatchTypeOK
  OBVIOUS
<1>1. bms \in BookMilestone
  BY RollUpType DEF BatchInit, Rolled
<1>2. /\ Unused \in [status : RowStatus, pages : SUBSET Page]
      /\ NoBatch \in [state : RemoteState, answer : [Page -> Answer]]
      /\ IdleSub \in SubType /\ NoRow \in [Row -> {"none"} \cup ActiveStatus]
  BY SubTypes DEF Unused, RowStatus, NoBatch, NoAnswer, Answer, RemoteState, NoRow
<1>3. retry \in [Page -> 0 .. MaxRetries] /\ result \in [Page -> {"none", "whole"}]
  BY BatchAssumption DEF BatchInit
<1>4. /\ ms \in [Page -> PageStatus] /\ sent \in [Page -> Nat]
      /\ roll \in [Actor -> {"none", "due"} \cup BookMilestone] /\ faults \in 0 .. MaxFaults
      /\ kind \in {"ocr", "embedding"} /\ old = {} /\ silent = {}
  BY BatchAssumption DEF BatchInit, PageStatus
<1>6. late \in BOOLEAN
  BY DEF BatchInit
<1>5. /\ row \in [Row -> [status : RowStatus, pages : SUBSET Page]]
      /\ remote \in [Row -> [state : RemoteState, answer : [Page -> Answer]]]
      /\ sub \in [Submitter -> SubType]
      /\ seen \in [Poller -> [Row -> {"none"} \cup ActiveStatus]]
  BY <1>2 DEF BatchInit
<1> QED
  BY <1>1, <1>3, <1>4, <1>5, <1>6 DEF BatchTypeOK, SubType

(* The variables of the batch services keep their types.                     *)
THEOREM BatchTypesHold == BatchSpec => []BatchTypeOK
BY InitBatchType, NextBatchType, PTL DEF BatchSpec

-----------------------------------------------------------------------------
(* Ownership. A submitter takes only idle pages, and changes only pages in   *)
(* progress that it holds and lets go.                                       *)
LEMMA SubmitterStep ==
  ASSUME OwnInv, NEW s \in Submitter, UNCHANGED seen,
         \A k \in Row : /\ ActiveRow(k)' <=> ActiveRow(k)
                        /\ ActiveRow(k) => row'[k] = row[k],
         \A t \in Submitter \ {s} : sub'[t] = sub[t],
         sub'[s].row # {} => sub'[s].phase = "sending" /\ sub'[s].slice \subseteq sub'[s].todo,
         sub'[s].row \subseteq Row,
         \A k \in sub'[s].row : ~ActiveRow(k) /\ \A t \in Submitter \ {s} : k \notin sub[t].row,
         \A p \in Page : Holds(s, p)' => ms'[p] = "in_progress" /\ (Holds(s, p) \/ ms[p] = "idle"),
         \A p \in Page : ms[p] = "in_progress" /\ ms'[p] # ms[p] => Holds(s, p) /\ ~Holds(s, p)',
         \A t \in Submitter : sub[t].row \subseteq Row
  PROVE  OwnInv'
<1>1. \A k \in Row, p \in Page : InRow(k, p)' <=> InRow(k, p)
  BY DEF InRow
<1>2. \A t \in Submitter \ {s}, p \in Page : Holds(t, p)' <=> Holds(t, p)
  BY DEF Holds
<1>3. PagesInProgress'
  BY <1>1, <1>2 DEF OwnInv, PagesInProgress, OneOwner
<1>4. OneOwner'
  <2> SUFFICES ASSUME NEW p \in Page
               PROVE  /\ \A k, l \in Row : (InRow(k, p) /\ InRow(l, p) => k = l)'
                      /\ \A t, u \in Submitter : (Holds(t, p) /\ Holds(u, p) => t = u)'
                      /\ \A t \in Submitter, k \in Row : (~(Holds(t, p) /\ InRow(k, p)))'
    BY DEF OneOwner
  <2>1. Holds(s, p)' => \/ Holds(s, p)
                        \/ /\ \A t \in Submitter : ~Holds(t, p)
                           /\ \A k \in Row : ~InRow(k, p)
    BY DEF OwnInv, PagesInProgress
  <2> QED
    BY <1>1, <1>2, <2>1 DEF OwnInv, OneOwner
<1>5. SliceIsHeld'
  BY DEF OwnInv, SliceIsHeld
<1>6. PollsOpenRows'
  BY DEF OwnInv, PollsOpenRows
<1>7. RowIsReserved'
  BY DEF OwnInv, RowIsReserved
<1> QED
  BY <1>3, <1>4, <1>5, <1>6, <1>7 DEF OwnInv

LEMMA SubmitOwns ==
  ASSUME BatchTypeOK, OwnInv, NEW s \in Submitter, Submit(s)
  PROVE  OwnInv'
<1>0. /\ sub \in [Submitter -> SubType] /\ sub[s] \in SubType /\ ms \in [Page -> PageStatus]
      /\ sub[s].todo \subseteq Page /\ \A t \in Submitter : sub[t].row \subseteq Row
      /\ row \in [Row -> [status : RowStatus, pages : SUBSET Page]]
      /\ seen \in [Poller -> [Row -> {"none"} \cup ActiveStatus]]
  BY DEF BatchTypeOK, SubType
<1>a. UNCHANGED row => \A k \in Row : /\ ActiveRow(k)' <=> ActiveRow(k)
                                      /\ ActiveRow(k) => row'[k] = row[k]
  BY DEF ActiveRow
<1>b. /\ sub[s].row # {} => sub[s].phase = "sending" /\ sub[s].slice \subseteq sub[s].todo
      /\ \A k \in sub[s].row : ~ActiveRow(k) /\ \A t \in Submitter \ {s} : k \notin sub[t].row
  BY DEF OwnInv, SliceIsHeld, RowIsReserved
<1>c. \A p \in Page : Holds(s, p) => ms[p] = "in_progress"
  BY DEF OwnInv, PagesInProgress
<1>1. CASE Claim(s)
  <2>1. PICK P \in SUBSET {p \in Page : ms[p] = "idle"} :
          /\ ms' = Marked(P, "in_progress")
          /\ sub' = [sub EXCEPT ![s] = [IdleSub EXCEPT !.phase = "queued", !.todo = P]]
          /\ UNCHANGED <<row, seen>>
    BY <1>1 DEF Claim, batch
  <2>2. sub'[s] = [phase |-> "queued", todo |-> P, slice |-> {}, row |-> {}]
    BY <1>0, <2>1 DEF IdleSub
  <2>3. \A p \in Page : /\ Holds(s, p)' <=> p \in P
                        /\ p \in P => ms'[p] = "in_progress" /\ ms[p] = "idle"
                        /\ ms[p] = "in_progress" => ms'[p] = ms[p]
    BY <2>1, <2>2 DEF Holds, Marked
  <2> QED
    BY <1>0, <1>a, <2>1, <2>2, <2>3, SubmitterStep
<1>2. CASE StartOcr(s)
  <2>1. /\ sub'[s].row = sub[s].row /\ sub'[s].row = {}
        /\ \A p \in Page : Holds(s, p)' => Holds(s, p)
        /\ \A t \in Submitter \ {s} : sub'[t] = sub[t]
        /\ UNCHANGED <<row, seen, ms>>
    BY <1>0, <1>2, <1>b DEF StartOcr, Holds, pages, batch, SubType
  <2> QED
    BY <1>0, <1>a, <1>c, <2>1, SubmitterStep
<1>3. CASE StartEmbedding(s)
  <2>1. UNCHANGED <<row, seen>> /\ sub[s].row = {} /\ sub[s].phase = "queued"
    BY <1>3, <1>b DEF StartEmbedding, batch
  <2>2. CASE ms' = Marked(sub[s].todo, "succeeded") /\ sub' = [sub EXCEPT ![s] = IdleSub]
    <3>1. /\ sub'[s].row = {} /\ \A t \in Submitter \ {s} : sub'[t] = sub[t]
          /\ \A p \in Page : ~Holds(s, p)' /\ (ms'[p] # ms[p] => Holds(s, p))
      BY <1>0, <2>1, <2>2 DEF IdleSub, Holds, Marked, SubType
    <3> QED
      BY <1>0, <1>a, <2>1, <3>1, SubmitterStep
  <2>3. ASSUME NEW open \in SUBSET sub[s].todo, UNCHANGED ms,
               sub' = [sub EXCEPT ![s].phase = "sending", ![s].todo = open]
        PROVE  OwnInv'
    <3>1. /\ sub'[s].row = {} /\ \A t \in Submitter \ {s} : sub'[t] = sub[t]
          /\ \A p \in Page : Holds(s, p)' => Holds(s, p)
      BY <1>0, <2>1, <2>3 DEF Holds, SubType
    <3> QED
      BY <1>0, <1>a, <1>c, <2>1, <2>3, <3>1, SubmitterStep
  <2>4. {p \in sub[s].todo : result[p] = "none"} \in SUBSET sub[s].todo
    OBVIOUS
  <2> QED
    BY <1>3, <2>2, <2>3, <2>4 DEF StartEmbedding
<1>4. ASSUME NEW k \in Row, CreateRemote(s, k)
      PROVE  OwnInv'
  <2>1. PICK P \in SUBSET sub[s].todo : sub' = [sub EXCEPT ![s].slice = P, ![s].row = {k}]
    BY <1>4 DEF CreateRemote, Slices
  <2>2. /\ sub'[s].row = {k} /\ sub'[s].slice = P /\ sub'[s].todo = sub[s].todo
        /\ sub'[s].phase = sub[s].phase /\ sub[s].phase = "sending"
        /\ \A t \in Submitter \ {s} : sub'[t] = sub[t]
        /\ \A p \in Page : Holds(s, p)' <=> Holds(s, p)
    BY <1>0, <1>4, <2>1 DEF CreateRemote, Sending, Holds, SubType
  <2>3. ~ActiveRow(k) /\ \A t \in Submitter \ {s} : k \notin sub[t].row
    BY <1>4 DEF CreateRemote, FreeRow
  <2>4. row' = [row EXCEPT ![k] = Unused] /\ UNCHANGED <<ms, seen>>
    BY <1>4 DEF CreateRemote, pages
  <2>5. \A l \in Row : /\ ActiveRow(l)' <=> ActiveRow(l)
                       /\ ActiveRow(l) => row'[l] = row[l]
    BY <1>0, <2>3, <2>4 DEF ActiveRow, ActiveStatus, Unused
  <2> QED
    BY <1>0, <1>c, <2>2, <2>3, <2>4, <2>5, SubmitterStep
<1>5. CASE CreationFails(s)
  <2>1. PICK P \in SUBSET sub[s].todo :
          FailPages(P) /\ sub' = [sub EXCEPT ![s] = Without(@, P)]
    BY <1>5 DEF CreationFails, Slices
  <2>2. /\ UNCHANGED <<row, seen>> /\ sub'[s].row = {} /\ sub[s].phase = "sending"
        /\ \A t \in Submitter \ {s} : sub'[t] = sub[t]
        /\ \A p \in Page : /\ Holds(s, p)' <=> Holds(s, p) /\ p \notin P
                           /\ p \in P => Holds(s, p)
    BY <1>0, <1>5, <2>1 DEF CreationFails, Sending, Without, Holds, SubType, batch
  <2>3. \A p \in Page \ P : ms'[p] = ms[p]
    BY <2>1 DEF FailPages, Marked
  <2> QED
    BY <1>0, <1>a, <1>c, <2>1, <2>2, <2>3, SubmitterStep
<1>6. CASE SaveRow(s)
  <2>1. PICK k \in sub[s].row :
          row' = [row EXCEPT ![k] = [status |-> "submitted", pages |-> sub[s].slice]]
    BY <1>6 DEF SaveRow
  <2>2. /\ sub'[s].row = {} /\ sub[s].phase = "sending" /\ k \in Row
        /\ \A t \in Submitter \ {s} : sub'[t] = sub[t]
        /\ \A p \in Page : /\ Holds(s, p)' <=> Holds(s, p) /\ p \notin sub[s].slice
                           /\ p \in sub[s].slice => Holds(s, p)
        /\ UNCHANGED <<ms, seen>>
    BY <1>0, <1>6, <1>b, <2>1 DEF SaveRow, Without, Holds, SubType, pages
  <2>3. /\ row'[k].pages = sub[s].slice /\ ActiveRow(k)'
        /\ \A l \in Row \ {k} : row'[l] = row[l]
    BY <1>0, <2>1, <2>2 DEF ActiveRow, ActiveStatus
  <2>4. \A l \in Row, p \in Page :
          InRow(l, p)' <=> IF l = k THEN p \in sub[s].slice ELSE InRow(l, p)
    BY <2>3 DEF InRow, ActiveRow
  <2>5. \A t \in Submitter \ {s}, p \in Page : Holds(t, p)' <=> Holds(t, p)
    BY <2>2 DEF Holds
  <2>6. PagesInProgress'
    BY <1>c, <2>2, <2>4, <2>5 DEF OwnInv, PagesInProgress
  <2>7. OneOwner'
    BY <2>2, <2>4, <2>5 DEF OwnInv, OneOwner
  <2>8. SliceIsHeld'
    BY <2>2 DEF OwnInv, SliceIsHeld
  <2>9. RowIsReserved'
    BY <1>0, <2>2, <2>3 DEF OwnInv, RowIsReserved, ActiveRow
  <2>10. PollsOpenRows'
    BY <2>2, <2>3 DEF OwnInv, PollsOpenRows, ActiveRow
  <2> QED
    BY <2>6, <2>7, <2>8, <2>9, <2>10 DEF OwnInv
<1>7. CASE SaveFails(s)
  <2>1. UNCHANGED <<row, seen>> /\ sub[s].row # {}
    BY <1>7 DEF SaveFails
  <2>2. CASE FailPages(sub[s].slice) /\ sub' = [sub EXCEPT ![s] = Without(@, sub[s].slice)]
    <3>1. /\ sub'[s].row = {} /\ \A t \in Submitter \ {s} : sub'[t] = sub[t]
          /\ \A p \in Page : /\ Holds(s, p)' <=> Holds(s, p) /\ p \notin sub[s].slice
                             /\ p \in sub[s].slice => Holds(s, p)
      BY <1>0, <1>b, <2>1, <2>2 DEF Without, Holds, SubType
    <3>2. \A p \in Page \ sub[s].slice : ms'[p] = ms[p]
      BY <2>2 DEF FailPages, Marked
    <3> QED
      BY <1>0, <1>a, <1>c, <2>1, <3>1, <3>2, SubmitterStep
  <2>3. CASE sub' = [sub EXCEPT ![s] = IdleSub] /\ UNCHANGED ms
    <3>1. /\ sub'[s].row = {} /\ \A t \in Submitter \ {s} : sub'[t] = sub[t]
          /\ \A p \in Page : ~Holds(s, p)'
      BY <1>0, <2>3 DEF IdleSub, Holds
    <3> QED
      BY <1>0, <1>a, <2>1, <2>3, <3>1, SubmitterStep
  <2> QED
    BY <1>7, <2>2, <2>3 DEF SaveFails, pages
<1>8. CASE SubmitEnds(s) \/ SubmitDies(s)
  <2>1. UNCHANGED <<row, seen, ms>> /\ sub' = [sub EXCEPT ![s] = IdleSub]
    BY <1>8 DEF SubmitEnds, SubmitDies, batch, pages
  <2>2. /\ sub'[s].row = {} /\ \A t \in Submitter \ {s} : sub'[t] = sub[t]
        /\ \A p \in Page : ~Holds(s, p)'
    BY <1>0, <2>1 DEF IdleSub, Holds
  <2> QED
    BY <1>0, <1>a, <2>1, <2>2, SubmitterStep
<1> QED
  BY <1>1, <1>2, <1>3, <1>4, <1>5, <1>6, <1>7, <1>8 DEF Submit

(* A step of nobody who owns anything takes no page away from an owner.      *)
LEMMA OwnFrame ==
  ASSUME OwnInv, UNCHANGED <<row, seen, sub>>,
         \A p \in Page : ms[p] = "in_progress" /\ ms'[p] # ms[p] =>
           /\ \A k \in Row : ~InRow(k, p)
           /\ \A s \in Submitter : ~Holds(s, p)
  PROVE  OwnInv'
<1>1. /\ \A k \in Row, p \in Page : InRow(k, p)' <=> InRow(k, p)
      /\ \A s \in Submitter, p \in Page : Holds(s, p)' <=> Holds(s, p)
      /\ \A k \in Row : ActiveRow(k)' <=> ActiveRow(k)
  BY DEF InRow, ActiveRow, Holds
<1>2. PagesInProgress' /\ OneOwner'
  BY <1>1 DEF OwnInv, PagesInProgress, OneOwner
<1>3. SliceIsHeld' /\ RowIsReserved' /\ PollsOpenRows'
  BY DEF OwnInv, SliceIsHeld, RowIsReserved, PollsOpenRows, ActiveRow
<1> QED
  BY <1>2, <1>3 DEF OwnInv

(* A row that has ended lets its pages go.                                   *)
LEMMA RowEnded ==
  ASSUME BatchTypeOK, NEW w \in Poller, NEW k \in Row, NEW v \in {"failed", "succeeded"},
         Ended(w, k, v)
  PROVE  ~ActiveRow(k)' /\ \A l \in Row \ {k} : row'[l] = row[l]
BY DEF Ended, BatchTypeOK, ActiveRow, ActiveStatus, Unused

(* What a poller changes of the pages is in the row that it ends.            *)
LEMMA RowPages ==
  ASSUME BatchTypeOK, NEW w \in Poller, NEW k \in Row, PollRow(w, k)
  PROVE  /\ \A p \in Page \ row[k].pages : ms'[p] = ms[p]
         /\ StillRuns(w, k) \/ \E v \in {"failed", "succeeded"} : Ended(w, k, v)
<1>1. \A a : Answered(k, a) \subseteq row[k].pages
  BY DEF Answered
<1>2. CASE RowFails(w, k)
  BY <1>2 DEF RowFails, FailPages, Marked
<1>3. CASE OutputIsLost(w, k)
  BY <1>3 DEF OutputIsLost, FailPages, Marked, pages
<1>4. CASE Ingest(w, k)
  <2>1. CASE IngestOcr(k)
    BY <1>1, <1>4, <2>1 DEF Ingest, IngestOcr
  <2>2. CASE IngestEmbedding(k)
    BY <1>1, <1>4, <2>2 DEF Ingest, IngestEmbedding
  <2> QED
    BY <1>4, <2>1, <2>2 DEF Ingest
<1>5. CASE StillRuns(w, k)
  BY <1>5 DEF StillRuns, pages
<1> QED
  BY <1>2, <1>3, <1>4, <1>5 DEF PollRow

LEMMA PollOwns ==
  ASSUME BatchTypeOK, OwnInv, NEW w \in Poller, Poll(w), ~late'
  PROVE  OwnInv'
<1>0. seen \in [Poller -> [Row -> {"none"} \cup ActiveStatus]]
  BY DEF BatchTypeOK
<1>1. CASE PollStarts(w)
  <2>1. /\ UNCHANGED <<row, sub, ms>> /\ Alone(w)
        /\ seen' = [seen EXCEPT ![w] = [k \in Row |-> IF ActiveRow(k) THEN row[k].status ELSE "none"]]
    BY <1>1 DEF PollStarts, batch, pages
  <2>2. PollsOpenRows'
    BY <1>0, <2>1 DEF PollsOpenRows, Alone, Busy, ActiveRow
  <2>3. PagesInProgress' /\ OneOwner' /\ SliceIsHeld' /\ RowIsReserved'
    BY <2>1 DEF OwnInv, PagesInProgress, OneOwner, SliceIsHeld, RowIsReserved, InRow, ActiveRow, Holds
  <2> QED
    BY <2>2, <2>3 DEF OwnInv
<1>2. CASE PollDies(w)
  <2>1. UNCHANGED <<row, sub, ms>> /\ seen' = [seen EXCEPT ![w] = NoRow]
    BY <1>2 DEF PollDies, batch, pages
  <2>2. PollsOpenRows'
    BY <1>0, <2>1 DEF OwnInv, PollsOpenRows, NoRow, ActiveRow
  <2>3. PagesInProgress' /\ OneOwner' /\ SliceIsHeld' /\ RowIsReserved'
    BY <2>1 DEF OwnInv, PagesInProgress, OneOwner, SliceIsHeld, RowIsReserved, InRow, ActiveRow, Holds
  <2> QED
    BY <2>2, <2>3 DEF OwnInv
<1>3. ASSUME NEW k \in Row, PollRow(w, k)
      PROVE  OwnInv'
  <2>1. /\ UNCHANGED sub /\ seen' = [seen EXCEPT ![w][k] = "none"]
        /\ ActiveRow(k) /\ \A v \in Poller, l \in Row : seen[v][l] # "none" => v = w
    BY <1>3 DEF PollRow, OwnInv, PollsOpenRows
  <2>2. \A s \in Submitter, p \in Page : Holds(s, p)' <=> Holds(s, p)
    BY <2>1 DEF Holds
  <2>3. \A v \in Poller, l \in Row :
          /\ seen'[v][l] # "none" => seen[v][l] # "none"
          /\ seen'[w][k] = "none"
    BY <1>0, <2>1
  <2>4. CASE StillRuns(w, k)
    <3>1. UNCHANGED ms /\ (row' = [row EXCEPT ![k].status = "running"] \/ UNCHANGED row)
      BY <2>4 DEF StillRuns, pages
    <3>2. \A l \in Row : row'[l].pages = row[l].pages /\ (ActiveRow(l)' <=> ActiveRow(l))
      <4>1. CASE row' = [row EXCEPT ![k].status = "running"]
        <5>1. row'[k].status = "running" /\ row'[k].pages = row[k].pages
          BY <4>1 DEF BatchTypeOK
        <5>2. \A l \in Row \ {k} : row'[l] = row[l]
          BY <4>1 DEF BatchTypeOK
        <5> QED
          BY <2>1, <5>1, <5>2 DEF ActiveRow, ActiveStatus
      <4>2. CASE UNCHANGED row
        BY <4>2 DEF ActiveRow
      <4> QED
        BY <3>1, <4>1, <4>2
    <3>3. \A l \in Row, p \in Page : InRow(l, p)' <=> InRow(l, p)
      BY <3>2 DEF InRow
    <3>4. PagesInProgress' /\ OneOwner'
      BY <2>2, <3>1, <3>3 DEF OwnInv, PagesInProgress, OneOwner
    <3>5. SliceIsHeld' /\ RowIsReserved'
      BY <2>1, <3>2 DEF OwnInv, SliceIsHeld, RowIsReserved, BatchTypeOK
    <3>6. PollsOpenRows'
      BY <2>3, <3>2 DEF OwnInv, PollsOpenRows
    <3> QED
      BY <3>4, <3>5, <3>6 DEF OwnInv
  <2>5. CASE \E v \in {"failed", "succeeded"} : Ended(w, k, v)
    <3>1. ~ActiveRow(k)' /\ \A l \in Row \ {k} : row'[l] = row[l]
      BY <2>5, RowEnded
    <3>2. \A l \in Row, p \in Page : InRow(l, p)' => InRow(l, p) /\ l # k
      BY <3>1 DEF InRow, ActiveRow
    <3>3. \A p \in Page : ms'[p] # ms[p] => InRow(k, p)
      BY <1>3, <2>1, RowPages DEF InRow
    <3>4. PagesInProgress' /\ OneOwner'
      BY <2>2, <3>2, <3>3 DEF OwnInv, PagesInProgress, OneOwner
    <3>5. \A l \in Row : ActiveRow(l)' => ActiveRow(l)
      BY <3>1 DEF ActiveRow
    <3>6. SliceIsHeld' /\ RowIsReserved'
      BY <2>1, <3>5 DEF OwnInv, SliceIsHeld, RowIsReserved, BatchTypeOK
    <3>7. \A l \in Row \ {k} : ActiveRow(l)' <=> ActiveRow(l)
      BY <3>1 DEF ActiveRow
    <3>8. PollsOpenRows'
      BY <2>1, <2>3, <3>7 DEF OwnInv, PollsOpenRows
    <3> QED
      BY <3>4, <3>6, <3>8 DEF OwnInv
  <2> QED
    BY <1>3, <2>4, <2>5, RowPages
<1> QED
  BY <1>1, <1>2, <1>3 DEF Poll

LEMMA NextOwns ==
  ASSUME BatchTypeOK, OwnInv, [BatchNext]_bvars, ~late'
  PROVE  OwnInv'
<1>1. ASSUME NEW x \in Actor, RollUpReads(x) \/ RollUpWrites(x)
      PROVE  OwnInv'
  BY <1>1, OwnFrame DEF RollUpReads, RollUpWrites, batch, pages
<1>2. CASE Gemini
  <2>1. UNCHANGED <<row, seen, sub, ms>>
    BY <1>2 DEF Gemini, Ages, RemoteMoves, pages
  <2> QED
    BY <2>1, OwnFrame
<1>3. CASE Driver
  <2>1. UNCHANGED <<row, seen, sub>> /\ \A p \in Page : ms[p] = "in_progress" => ms'[p] = ms[p]
    BY <1>3 DEF Driver, Retryable, Marked, batch
  <2> QED
    BY <2>1, OwnFrame
<1>4. ASSUME NEW P \in SUBSET Page, WatchdogResets(P)
      PROVE  OwnInv'
  <2>1. /\ UNCHANGED <<row, seen, sub>> /\ P \cap Held = {} /\ P \cap InBatch = {}
        /\ ms' = Marked(P, "idle")
    BY <1>4 DEF WatchdogResets, PutBack, batch
  <2>2. \A p \in P : /\ \A k \in Row : ~InRow(k, p)
                     /\ \A s \in Submitter : ~Holds(s, p)
    BY <2>1 DEF Held, InBatch, ActiveRows, InRow, Holds
  <2> QED
    BY <2>1, <2>2, OwnFrame DEF Marked
<1>5. CASE UNCHANGED bvars
  BY <1>5, OwnFrame DEF bvars, batch, pages
<1> QED
  BY <1>1, <1>2, <1>3, <1>4, <1>5, SubmitOwns, PollOwns DEF BatchNext

-----------------------------------------------------------------------------
(* What a batch costs.                                                       *)
LEMMA EngagedInProgress ==
  ASSUME OwnInv, NEW p \in Page, Engaged(p)
  PROVE  ms[p] = "in_progress"
BY DEF OwnInv, Engaged, SliceIsHeld, PagesInProgress, Holds

(* Nothing new is paid for: a step that lets more pages be sent again counts *)
(* a retry or a fault.                                                       *)
LEMMA SpendStep ==
  ASSUME BatchTypeOK, BatchTypeOK', SpendInv, UNCHANGED sent, faults' >= faults,
         \A p \in Page : retry'[p] >= retry[p],
         \/ faults' = faults + 1
         \/ \A p \in Page : retry'[p] = retry[p] + 1 \/ (Counts(p)' => Counts(p))
  PROVE  SpendInv'
<1>1. /\ \A p \in Page : /\ sent[p] \in Nat /\ retry[p] \in Nat /\ retry'[p] \in Nat
                         /\ sent'[p] = sent[p]
      /\ faults \in Nat /\ faults' \in Nat
  BY BatchAssumption DEF BatchTypeOK
<1> SUFFICES ASSUME NEW p \in Page
             PROVE  sent'[p] <= retry'[p] + faults' + IF Counts(p)' THEN 0 ELSE 1
  BY DEF SpendInv
<1>2. sent[p] <= retry[p] + faults + 1 /\ (Counts(p) => sent[p] <= retry[p] + faults)
  BY <1>1 DEF SpendInv
<1>3. CASE faults' = faults + 1
  BY <1>1, <1>2, <1>3
<1>4. CASE retry'[p] = retry[p] + 1
  BY <1>1, <1>2, <1>4
<1>5. CASE Counts(p)' => Counts(p)
  BY <1>1, <1>2, <1>5
<1> QED
  BY <1>3, <1>4, <1>5

(* A page that a step leaves alone.                                          *)
LEMMA SameCounts ==
  ASSUME NEW p \in Page, ms'[p] = ms[p], retry'[p] = retry[p], Engaged(p) => Engaged(p)'
  PROVE  Counts(p)' => Counts(p)
BY DEF Counts

LEMMA FailCounts ==
  ASSUME BatchTypeOK, NEW P, FailPages(P)
  PROVE  /\ \A p \in Page : retry'[p] >= retry[p]
         /\ \A p \in P \cap Page : retry'[p] = retry[p] + 1 \/ ~Counts(p)'
         /\ \A p \in Page \ P : ms'[p] = ms[p] /\ retry'[p] = retry[p]
<1>1. \A p \in Page : retry[p] \in 0 .. MaxRetries
  BY DEF BatchTypeOK
<1>2. /\ \A p \in P \cap Page : ms'[p] = "failed" /\ retry'[p] = Bumped(retry[p])
      /\ \A p \in Page \ P : ms'[p] = ms[p] /\ retry'[p] = retry[p]
  BY DEF FailPages, Marked, Counted
<1> QED
  BY <1>1, <1>2, BatchAssumption DEF Bumped, Counts

LEMMA SubmitCounts ==
  ASSUME BatchTypeOK, BatchTypeOK', OwnInv, SpendInv, NEW s \in Submitter, Submit(s)
  PROVE  SpendInv'
<1>0. /\ sub \in [Submitter -> SubType] /\ sub[s] \in SubType
      /\ row \in [Row -> [status : RowStatus, pages : SUBSET Page]]
      /\ \A p \in Page : retry[p] \in Nat /\ retry'[p] \in Nat /\ sent[p] \in Nat
      /\ faults \in Nat /\ retry \in [Page -> Nat]
  BY BatchAssumption DEF BatchTypeOK, SubType
<1>a. sub[s].row # {} => sub[s].phase = "sending" /\ sub[s].slice \subseteq sub[s].todo
  BY DEF OwnInv, SliceIsHeld
<1>b. ASSUME UNCHANGED row, sub[s].row = {}, \A t \in Submitter \ {s} : sub'[t] = sub[t]
      PROVE  \A p \in Page : Engaged(p) => Engaged(p)'
  BY <1>b DEF Engaged, InRow, ActiveRow
<1>c. Spend => faults' = faults + 1
  BY DEF Spend
<1>1. CASE Claim(s)
  <2>1. PICK P \in SUBSET {p \in Page : ms[p] = "idle"} :
          /\ ms' = Marked(P, "in_progress")
          /\ sub' = [sub EXCEPT ![s] = [IdleSub EXCEPT !.phase = "queued", !.todo = P]]
          /\ UNCHANGED <<row, sent, retry, faults>> /\ sub[s].row = {}
    BY <1>1, <1>a DEF Claim, batch, history
  <2>2. \A p \in Page : Engaged(p) => Engaged(p)'
    BY <1>0, <1>b, <2>1
  <2>3. \A p \in P : Counts(p)
    BY <2>1, EngagedInProgress DEF Counts
  <2>4. \A p \in Page \ P : ms'[p] = ms[p]
    BY <2>1 DEF Marked
  <2> QED
    BY <1>0, <2>1, <2>2, <2>3, <2>4, SpendStep, SameCounts
<1>2. CASE StartOcr(s)
  <2>1. UNCHANGED <<ms, row, sent, retry, faults>> /\ sub[s].row = {}
        /\ \A t \in Submitter \ {s} : sub'[t] = sub[t]
    BY <1>0, <1>2, <1>a DEF StartOcr, batch, pages, history
  <2>2. \A p \in Page : Engaged(p) => Engaged(p)'
    BY <1>b, <2>1
  <2> QED
    BY <1>0, <2>1, <2>2, SpendStep, SameCounts
<1>3. CASE StartEmbedding(s)
  <2>1. /\ UNCHANGED <<row, sent, retry, faults>> /\ sub[s].row = {}
        /\ \A t \in Submitter \ {s} : sub'[t] = sub[t]
    <3>1. \/ sub' = [sub EXCEPT ![s] = IdleSub]
          \/ \E open : sub' = [sub EXCEPT ![s].phase = "sending", ![s].todo = open]
      BY <1>3 DEF StartEmbedding
    <3>2. \A t \in Submitter \ {s} : sub'[t] = sub[t]
      BY <1>0, <3>1
    <3> QED
      BY <1>3, <1>a, <3>2 DEF StartEmbedding, batch, history
  <2>2. \A p \in Page : Engaged(p) => Engaged(p)'
    BY <1>b, <2>1
  <2>3. \A p \in Page : ms'[p] = ms[p] \/ ms'[p] = "succeeded"
    BY <1>3 DEF StartEmbedding, Marked
  <2>4. \A p \in Page : Counts(p)' => Counts(p)
    BY <2>1, <2>2, <2>3 DEF Counts
  <2> QED
    BY <1>0, <2>1, <2>4, SpendStep
<1>4. ASSUME NEW k \in Row, CreateRemote(s, k)
      PROVE  SpendInv'
  <2>1. PICK P \in SUBSET sub[s].todo :
          /\ sub' = [sub EXCEPT ![s].slice = P, ![s].row = {k}]
          /\ sent' = [p \in Page |-> IF p \in P THEN sent[p] + 1 ELSE sent[p]]
    BY <1>4 DEF CreateRemote, Slices
  <2>2. /\ UNCHANGED <<ms, retry, faults>> /\ ~ActiveRow(k) /\ row' = [row EXCEPT ![k] = Unused]
        /\ sub[s].row = {} /\ sub[s].phase = "sending"
    BY <1>4 DEF CreateRemote, pages, FreeRow, Sending
  <2>3. /\ \A t \in Submitter \ {s} : sub'[t] = sub[t]
        /\ sub'[s].row = {k} /\ sub'[s].slice = P
    BY <1>0, <2>1 DEF SubType
  <2>4. \A p \in Page : Engaged(p) => Engaged(p)'
    <3>1. \A l \in Row, p \in Page : InRow(l, p) => InRow(l, p)'
      BY <1>0, <2>2 DEF InRow, ActiveRow
    <3> QED
      BY <2>2, <2>3, <3>1 DEF Engaged
  <2>5. \A p \in P \cap Page : Counts(p) /\ ~Counts(p)'
    <3> SUFFICES ASSUME NEW p \in P \cap Page
                 PROVE  Counts(p) /\ ~Counts(p)'
      OBVIOUS
    <3>1. Holds(s, p) /\ ms[p] = "in_progress"
      BY <2>2 DEF Holds, OwnInv, PagesInProgress
    <3>2. ~Engaged(p)
      BY <2>2, <3>1 DEF Engaged, OwnInv, OneOwner, SliceIsHeld, Holds
    <3>3. Engaged(p)'
      BY <2>3 DEF Engaged
    <3> QED
      BY <2>2, <3>1, <3>2, <3>3 DEF Counts
  <2>6. ASSUME NEW p \in Page
        PROVE  sent'[p] <= retry'[p] + faults' + IF Counts(p)' THEN 0 ELSE 1
    <3>1. sent[p] <= retry[p] + faults + IF Counts(p) THEN 0 ELSE 1
      BY DEF SpendInv
    <3>2. CASE p \in P
      BY <1>0, <2>1, <2>2, <2>5, <3>1, <3>2
    <3>3. CASE p \notin P
      <4>1. Counts(p)' => Counts(p)
        BY <2>2, <2>4, SameCounts
      <4> QED
        BY <1>0, <2>1, <2>2, <3>1, <3>3, <4>1
    <3> QED
      BY <3>2, <3>3
  <2> QED
    BY <2>6 DEF SpendInv
<1>5. CASE CreationFails(s)
  <2>1. PICK P : FailPages(P) /\ sub' = [sub EXCEPT ![s] = Without(@, P)]
    BY <1>5 DEF CreationFails
  <2>2. /\ UNCHANGED <<row, sent, faults>> /\ sub[s].row = {}
        /\ \A t \in Submitter \ {s} : sub'[t] = sub[t]
    BY <1>0, <1>5, <2>1 DEF CreationFails, Sending, batch, history
  <2>3. \A p \in Page : Engaged(p) => Engaged(p)'
    BY <1>b, <2>2
  <2> QED
    BY <1>0, <2>1, <2>2, <2>3, FailCounts, SameCounts, SpendStep
<1>6. CASE SaveRow(s)
  <2>1. PICK k \in sub[s].row :
          row' = [row EXCEPT ![k] = [status |-> "submitted", pages |-> sub[s].slice]]
    BY <1>6 DEF SaveRow
  <2>2. /\ UNCHANGED <<ms, retry, sent, faults>> /\ k \in Row /\ ~ActiveRow(k)
        /\ \A t \in Submitter \ {s} : sub'[t] = sub[t]
    BY <1>0, <1>6, <2>1 DEF SaveRow, pages, history, OwnInv, RowIsReserved, SubType
  <2>3. /\ \A p \in sub[s].slice : InRow(k, p)'
        /\ \A l \in Row, p \in Page : InRow(l, p) => InRow(l, p)'
    BY <1>0, <2>1, <2>2 DEF InRow, ActiveRow, ActiveStatus
  <2>4. \A p \in Page : Engaged(p) => Engaged(p)'
    BY <2>2, <2>3 DEF Engaged
  <2> QED
    BY <1>0, <2>2, <2>4, SameCounts, SpendStep
<1>7. CASE SaveFails(s)
  <2>1. faults' = faults + 1 /\ UNCHANGED sent
    BY <1>7, <1>c DEF SaveFails, history
  <2>2. \A p \in Page : retry'[p] >= retry[p]
    <3>1. CASE FailPages(sub[s].slice)
      BY <3>1, FailCounts
    <3>2. CASE UNCHANGED pages
      BY <1>0, <3>2 DEF pages
    <3> QED
      BY <1>7, <3>1, <3>2 DEF SaveFails
  <2> QED
    BY <1>0, <2>1, <2>2, SpendStep
<1>8. CASE SubmitEnds(s)
  <2>1. UNCHANGED <<ms, row, sent, retry, faults>> /\ sub[s].row = {}
        /\ \A t \in Submitter \ {s} : sub'[t] = sub[t]
    BY <1>0, <1>8 DEF SubmitEnds, Sending, batch, pages, history
  <2>2. \A p \in Page : Engaged(p) => Engaged(p)'
    BY <1>b, <2>1
  <2> QED
    BY <1>0, <2>1, <2>2, SpendStep, SameCounts
<1>9. CASE SubmitDies(s)
  <2>1. faults' = faults + 1 /\ UNCHANGED <<sent, retry>>
    BY <1>9, <1>c DEF SubmitDies, history, pages
  <2> QED
    BY <1>0, <2>1, SpendStep
<1> QED
  BY <1>1, <1>2, <1>3, <1>4, <1>5, <1>6, <1>7, <1>8, <1>9 DEF Submit

LEMMA IngestCounts ==
  ASSUME BatchTypeOK, NEW k \in Row, IngestOcr(k) \/ IngestEmbedding(k)
  PROVE  /\ \A p \in Page : retry'[p] >= retry[p]
         /\ \A p \in row[k].pages : remote[k].answer[p] # "missing" =>
              retry'[p] = retry[p] + 1 \/ ~Counts(p)'
         /\ \A p \in Page \ row[k].pages : ms'[p] = ms[p] /\ retry'[p] = retry[p]
<1>1. /\ \A p \in Page : retry[p] \in 0 .. MaxRetries
      /\ row[k].pages \subseteq Page
      /\ \A p \in Page : remote[k].answer[p] \in Answer
  BY DEF BatchTypeOK
<1>2. /\ \A P : \A p \in Page : Counted(P)[p] >= retry[p]
      /\ \A P : \A p \in P \cap Page : Counted(P)[p] = retry[p] + 1 \/ Counted(P)[p] = MaxRetries
      /\ \A P : \A p \in Page \ P : Counted(P)[p] = retry[p]
  BY <1>1, BatchAssumption DEF Counted, Bumped
<1>3. /\ \A a, p : p \in Answered(k, a) <=> p \in row[k].pages /\ remote[k].answer[p] = a
      /\ \A p \in Page : ms'[p] = "succeeded" => ~Counts(p)'
      /\ \A p \in Page : ms'[p] = "failed" /\ retry'[p] = MaxRetries => ~Counts(p)'
  BY <1>1, BatchAssumption DEF Answered, Counts
<1>4. CASE IngestOcr(k)
  <2>1. PICK B : B = Answered(k, "error") /\ retry' = Counted(B)
    BY <1>4 DEF IngestOcr
  <2>2. /\ \A p \in Answered(k, "ok") : ms'[p] = "succeeded"
        /\ \A p \in B : ms'[p] \in {"succeeded", "failed"}
        /\ \A p \in Page \ row[k].pages : ms'[p] = ms[p]
    BY <1>1, <1>3, <1>4, <2>1 DEF IngestOcr
  <2> QED
    BY <1>1, <1>2, <1>3, <2>1, <2>2 DEF Answer
<1>5. CASE IngestEmbedding(k)
  <2>1. PICK B : B = {p \in Answered(k, "error") : ~LastTry(p)} /\ retry' = Counted(B)
    BY <1>5 DEF IngestEmbedding
  <2>2. /\ \A p \in B : ms'[p] = "failed"
        /\ \A p \in row[k].pages \ B : ms'[p] = "succeeded"
        /\ \A p \in Page \ row[k].pages : ms'[p] = ms[p]
    BY <1>1, <1>3, <1>5, <2>1 DEF IngestEmbedding
  <2> QED
    BY <1>1, <1>2, <1>3, <2>1, <2>2 DEF Answer
<1> QED
  BY <1>4, <1>5

LEMMA PollCounts ==
  ASSUME BatchTypeOK, BatchTypeOK', OwnInv, SpendInv, NEW w \in Poller, Poll(w), ~late'
  PROVE  SpendInv'
<1>0. /\ \A p \in Page : retry[p] \in Nat /\ sent[p] \in Nat
      /\ faults \in Nat /\ \A k \in Row : row[k].pages \subseteq Page
  BY BatchAssumption DEF BatchTypeOK
<1>c. Spend => faults' = faults + 1
  BY DEF Spend
<1>a. ASSUME UNCHANGED <<row, sub, ms, retry>>
      PROVE  \A p \in Page : Counts(p)' => Counts(p)
  BY <1>a DEF Counts, Engaged, InRow, ActiveRow
<1>1. CASE PollStarts(w) \/ PollDies(w)
  <2>1. UNCHANGED <<row, sub, ms, retry, sent>> /\ faults' \in {faults, faults + 1}
    BY <1>1, <1>c DEF PollStarts, PollDies, batch, pages, history
  <2> QED
    BY <1>0, <1>a, <2>1, SpendStep
<1>2. ASSUME NEW k \in Row, PollRow(w, k)
      PROVE  SpendInv'
  <2>1. UNCHANGED <<sub, sent>> /\ ActiveRow(k)
    BY <1>2 DEF PollRow, OwnInv, PollsOpenRows
  <2>2. ASSUME NEW v \in {"failed", "succeeded"}, Ended(w, k, v)
        PROVE  \A p \in Page \ row[k].pages : Engaged(p) => Engaged(p)'
    <3>1. \A l \in Row \ {k} : row'[l] = row[l]
      BY <2>2, RowEnded
    <3>2. \A l \in Row : \A p \in Page \ row[k].pages : InRow(l, p) => InRow(l, p)'
      BY <3>1 DEF InRow, ActiveRow
    <3> QED
      BY <2>1, <3>2 DEF Engaged
  <2>3. CASE RowFails(w, k)
    BY <1>0, <2>1, <2>2, <2>3, FailCounts, SameCounts, SpendStep DEF RowFails
  <2>4. CASE OutputIsLost(w, k)
    <3>1. \A p \in Page : retry'[p] >= retry[p]
      <4>1. CASE FailPages(row[k].pages)
        BY <4>1, FailCounts
      <4>2. CASE UNCHANGED pages
        BY <1>0, <4>2 DEF pages
      <4> QED
        BY <2>4, <4>1, <4>2 DEF OutputIsLost
    <3>2. faults' = faults + 1
      BY <1>c, <2>4 DEF OutputIsLost
    <3> QED
      BY <1>0, <2>1, <3>1, <3>2, SpendStep
  <2>5. CASE Ingest(w, k)
    <3>1. IngestOcr(k) \/ IngestEmbedding(k)
      BY <2>5 DEF Ingest
    <3>2. \A p \in Page \ row[k].pages : Engaged(p) => Engaged(p)'
      BY <2>2, <2>5 DEF Ingest
    <3>3. \/ faults' = faults + 1
          \/ faults' = faults /\ \A p \in row[k].pages : remote[k].answer[p] # "missing"
      BY <1>c, <2>5 DEF Ingest, Answered
    <3> QED
      BY <1>0, <2>1, <3>1, <3>2, <3>3, IngestCounts, SameCounts, SpendStep
  <2>6. CASE StillRuns(w, k)
    <3>1. UNCHANGED <<ms, retry, faults>> /\ (row' = [row EXCEPT ![k].status = "running"] \/ UNCHANGED row)
      BY <2>6 DEF StillRuns, pages
    <3>2. \A l \in Row, p \in Page : InRow(l, p) => InRow(l, p)'
      <4>1. CASE row' = [row EXCEPT ![k].status = "running"]
        <5>1. row'[k].status = "running" /\ row'[k].pages = row[k].pages
          BY <4>1 DEF BatchTypeOK
        <5>2. \A l \in Row \ {k} : row'[l] = row[l]
          BY <4>1 DEF BatchTypeOK
        <5> QED
          BY <2>1, <5>1, <5>2 DEF InRow, ActiveRow, ActiveStatus
      <4>2. CASE UNCHANGED row
        BY <4>2 DEF InRow, ActiveRow
      <4> QED
        BY <3>1, <4>1, <4>2
    <3>3. \A p \in Page : Engaged(p) => Engaged(p)'
      BY <2>1, <3>2 DEF Engaged
    <3> QED
      BY <1>0, <2>1, <3>1, <3>3, SameCounts, SpendStep
  <2> QED
    BY <1>2, <2>3, <2>4, <2>5, <2>6 DEF PollRow
<1> QED
  BY <1>1, <1>2 DEF Poll

LEMMA NextCounts ==
  ASSUME BatchTypeOK, BatchTypeOK', OwnInv, SpendInv, [BatchNext]_bvars, ~late'
  PROVE  SpendInv'
<1>0. (\A p \in Page : retry[p] \in Nat) /\ faults \in Nat
  BY BatchAssumption DEF BatchTypeOK
<1>a. ASSUME UNCHANGED <<row, sub, ms, retry, sent, faults>>
      PROVE  SpendInv'
  <2>1. \A p \in Page : Counts(p)' => Counts(p)
    BY <1>a DEF Counts, Engaged, InRow, ActiveRow
  <2> QED
    BY <1>0, <1>a, <2>1, SpendStep
<1>1. ASSUME NEW x \in Actor, RollUpReads(x) \/ RollUpWrites(x)
      PROVE  SpendInv'
  BY <1>1, <1>a DEF RollUpReads, RollUpWrites, batch, pages, history
<1>2. CASE Gemini
  BY <1>2, <1>a DEF Gemini, Ages, RemoteMoves, pages, history
<1>3. CASE Driver
  <2>1. /\ UNCHANGED <<row, sub, retry, sent, faults>>
        /\ \A p \in Page : ms'[p] # ms[p] => ms[p] = "failed" /\ retry[p] < MaxRetries
    BY <1>3 DEF Driver, Retryable, Marked, batch, history
  <2>2. \A p \in Page : Engaged(p) => Engaged(p)'
    BY <2>1 DEF Engaged, InRow, ActiveRow
  <2>3. \A p \in Page : Counts(p)' => Counts(p)
    BY <2>1, <2>2 DEF Counts
  <2> QED
    BY <1>0, <2>1, <2>3, SpendStep
<1>4. ASSUME NEW P \in SUBSET Page, WatchdogResets(P)
      PROVE  SpendInv'
  <2>1. /\ UNCHANGED <<row, sub, retry, sent, faults>>
        /\ P \cap Held = {} /\ P \cap InBatch = {}
        /\ \A p \in P : ms[p] = "in_progress"
        /\ \A p \in Page \ P : ms'[p] = ms[p]
    BY <1>4 DEF WatchdogResets, PutBack, Marked, batch, history
  <2>2. \A p \in P : ~Engaged(p)
    BY <2>1 DEF Held, InBatch, ActiveRows, Engaged, InRow, OwnInv, SliceIsHeld
  <2>3. \A p \in Page : Engaged(p) => Engaged(p)'
    BY <2>1 DEF Engaged, InRow, ActiveRow
  <2>4. \A p \in Page : Counts(p)' => Counts(p)
    BY <2>1, <2>2, <2>3 DEF Counts
  <2> QED
    BY <1>0, <2>1, <2>4, SpendStep
<1>5. CASE UNCHANGED bvars
  BY <1>5, <1>a DEF bvars, batch, pages, history
<1> QED
  BY <1>1, <1>2, <1>3, <1>4, <1>5, SubmitCounts, PollCounts DEF BatchNext

-----------------------------------------------------------------------------
(* What a book says. A page that succeeded is left alone, and a roll-up says *)
(* complete only of pages that succeeded.                                    *)
LEMMA RolledComplete ==
  ASSUME NEW m, Rolled(m) = "complete"
  PROVE  \A p \in Page : m[p] = "succeeded"
<1> DEFINE f == [p \in Page |-> m[p]]
<1>1. RollUp(f, Page) = "complete" => \A p \in Page : f[p] = "succeeded"
  BY BatchAssumption, CompleteMeansAllSucceeded
<1> QED
  BY <1>1 DEF Rolled

LEMMA SubmitKeeps ==
  ASSUME BatchTypeOK, OwnInv, NEW s \in Submitter, Submit(s)
  PROVE  \A p \in Page : ms[p] = "succeeded" => ms'[p] = "succeeded"
<1>1. \A p \in Page : p \in sub[s].todo /\ sub[s].phase # "free" => ms[p] = "in_progress"
  BY DEF OwnInv, PagesInProgress, Holds
<1>2. CASE Claim(s)
  <2>1. PICK P \in SUBSET {p \in Page : ms[p] = "idle"} : ms' = Marked(P, "in_progress")
    BY <1>2 DEF Claim
  <2> QED
    BY <2>1 DEF Marked
<1>3. CASE StartEmbedding(s)
  BY <1>3 DEF StartEmbedding, Marked
<1>4. CASE CreationFails(s)
  <2>1. PICK P \in SUBSET sub[s].todo : FailPages(P) /\ sub[s].phase = "sending"
    BY <1>4 DEF CreationFails, Slices, Sending
  <2> QED
    BY <1>1, <2>1 DEF FailPages, Marked
<1>5. CASE SaveFails(s)
  <2>1. sub[s].phase = "sending" /\ sub[s].slice \subseteq sub[s].todo
    BY <1>5 DEF SaveFails, OwnInv, SliceIsHeld
  <2> QED
    BY <1>1, <1>5, <2>1 DEF SaveFails, FailPages, Marked, pages
<1>6. CASE UNCHANGED ms
  BY <1>6
<1> QED
  BY <1>2, <1>3, <1>4, <1>5, <1>6 DEF Submit, StartOcr, SaveRow, SubmitEnds, SubmitDies, CreateRemote, pages

LEMMA NextKeeps ==
  ASSUME BatchTypeOK, OwnInv, [BatchNext]_bvars
  PROVE  \A p \in Page : ms[p] = "succeeded" => ms'[p] = "succeeded"
<1>1. ASSUME NEW w \in Poller, Poll(w)
      PROVE  \A p \in Page : ms[p] = "succeeded" => ms'[p] = "succeeded"
  <2>1. ASSUME NEW k \in Row, PollRow(w, k)
        PROVE  \A p \in Page : ms[p] = "succeeded" => ms'[p] = "succeeded"
    <3>1. \A p \in row[k].pages \cap Page : ms[p] = "in_progress"
      BY <2>1 DEF PollRow, OwnInv, PollsOpenRows, PagesInProgress, InRow
    <3> QED
      BY <2>1, <3>1, RowPages
  <2> QED
    BY <1>1, <2>1 DEF Poll, PollStarts, PollDies, pages
<1>2. ASSUME NEW P \in SUBSET Page, WatchdogResets(P)
      PROVE  \A p \in Page : ms[p] = "succeeded" => ms'[p] = "succeeded"
  BY <1>2 DEF WatchdogResets, PutBack, Marked
<1>3. CASE Driver
  BY <1>3 DEF Driver, Retryable, Marked
<1>4. CASE UNCHANGED ms
  BY <1>4
<1> QED
  BY <1>1, <1>2, <1>3, <1>4, SubmitKeeps
  DEF BatchNext, bvars, RollUpReads, RollUpWrites, Gemini, Ages, RemoteMoves, pages

(* Who newly says complete has counted.                                      *)
LEMMA WhoSaysComplete ==
  ASSUME BatchTypeOK, [BatchNext]_bvars, SaysComplete'
  PROVE  SaysComplete \/ \A p \in Page : ms'[p] = "succeeded"
<1>0. roll \in [Actor -> {"none", "due"} \cup BookMilestone]
  BY DEF BatchTypeOK
<1>1. ASSUME NEW x \in Actor, NEW v \in {"due", "none"}, UNCHANGED bms,
             roll' = [roll EXCEPT ![x] = v] \/ UNCHANGED roll
      PROVE  SaysComplete
  BY <1>0, <1>1 DEF SaysComplete
<1>2. ASSUME bms' = Rolled(ms'), UNCHANGED roll
      PROVE  SaysComplete \/ \A p \in Page : ms'[p] = "succeeded"
  BY <1>2, RolledComplete DEF SaysComplete
<1>3. ASSUME NEW s \in Submitter, Submit(s)
      PROVE  SaysComplete \/ \A p \in Page : ms'[p] = "succeeded"
  <2>1. s \in Actor
    BY DEF Actor
  <2>2. Claim(s) \/ (UNCHANGED bms /\ (UNCHANGED roll \/ \E v \in {"due", "none"} : roll' = [roll EXCEPT ![s] = v]))
    BY <1>3 DEF Submit, StartOcr, StartEmbedding, CreateRemote, CreationFails, SaveRow, SaveFails,
                SubmitEnds, SubmitDies
  <2>3. Claim(s) => bms' = Rolled(ms') /\ UNCHANGED roll
    BY DEF Claim
  <2> QED
    BY <1>1, <1>2, <2>1, <2>2, <2>3
<1>4. ASSUME NEW w \in Poller, Poll(w)
      PROVE  SaysComplete
  <2>1. w \in Actor
    BY DEF Actor
  <2>2. UNCHANGED bms /\ (UNCHANGED roll \/ \E v \in {"due", "none"} : roll' = [roll EXCEPT ![w] = v])
    <3>1. ASSUME NEW k \in Row, PollRow(w, k)
          PROVE  UNCHANGED bms /\ (UNCHANGED roll \/ roll' = [roll EXCEPT ![w] = "due"])
      BY <3>1 DEF PollRow, RowFails, OutputIsLost, Ingest, StillRuns, Owes
    <3> QED
      BY <1>4, <3>1 DEF Poll, PollStarts, PollDies
  <2> QED
    BY <1>1, <2>1, <2>2
<1>5. ASSUME NEW x \in Actor, RollUpReads(x)
      PROVE  SaysComplete \/ \A p \in Page : ms'[p] = "succeeded"
  <2>1. roll' = [roll EXCEPT ![x] = Rolled(ms)] /\ UNCHANGED <<bms, ms>>
    BY <1>5 DEF RollUpReads, pages
  <2>2. CASE Rolled(ms) = "complete"
    BY <2>1, <2>2, RolledComplete
  <2>3. CASE Rolled(ms) # "complete"
    BY <1>0, <2>1, <2>3 DEF SaysComplete
  <2> QED
    BY <2>2, <2>3
<1>6. ASSUME NEW x \in Actor, RollUpWrites(x)
      PROVE  SaysComplete
  BY <1>0, <1>6 DEF RollUpWrites, SaysComplete
<1>7. ASSUME NEW P \in SUBSET Page, WatchdogResets(P)
      PROVE  SaysComplete \/ \A p \in Page : ms'[p] = "succeeded"
  BY <1>2, <1>7 DEF WatchdogResets, PutBack
<1>8. CASE UNCHANGED <<bms, roll>>
  BY <1>8 DEF SaysComplete
<1> QED
  BY <1>3, <1>4, <1>5, <1>6, <1>7, <1>8 DEF BatchNext, bvars, Gemini, Ages, RemoteMoves, Driver

-----------------------------------------------------------------------------
LEMMA LateStays ==
  ASSUME [BatchNext]_bvars, BatchTypeOK, late
  PROVE  late'
<1>1. late' = late \/ late' = TRUE \/ \E b : late' = (late \/ b)
  BY DEF BatchNext, bvars, history, Submit, Claim, StartOcr, StartEmbedding, CreateRemote,
         CreationFails, SaveRow, SaveFails, SubmitEnds, SubmitDies, Poll, PollStarts, PollDies,
         PollRow, RollUpReads, RollUpWrites, Gemini, Ages, RemoteMoves, Driver, WatchdogResets, PutBack
<1> QED
  BY <1>1

LEMMA InitBatch == BatchInit => BatchInv
<1> SUFFICES ASSUME BatchInit PROVE OwnInv /\ SpendInv /\ CompleteInv
  BY InitBatchType DEF BatchInv
<1>1. /\ row = [k \in Row |-> Unused] /\ sub = [s \in Submitter |-> IdleSub]
      /\ seen = [w \in Poller |-> NoRow] /\ ms = [p \in Page |-> "idle"]
  BY DEF BatchInit
<1>2. /\ \A k \in Row : ~ActiveRow(k)
      /\ \A s \in Submitter : sub[s].row = {} /\ sub[s].phase = "free"
      /\ \A w \in Poller, k \in Row : seen[w][k] = "none"
  BY <1>1 DEF ActiveRow, ActiveStatus, Unused, IdleSub, NoRow
<1>3. OwnInv
  BY <1>2 DEF OwnInv, PagesInProgress, OneOwner, SliceIsHeld, RowIsReserved, PollsOpenRows,
              InRow, Holds
<1>4. SpendInv
  <2>1. /\ \A p \in Page : sent[p] = 0 /\ retry[p] \in Nat
        /\ faults = 0
    BY InitBatchType DEF BatchInit, BatchTypeOK
  <2> QED
    BY <2>1 DEF SpendInv
<1>5. CompleteInv
  <2>1. bms = Rolled(ms) /\ \A x \in Actor : roll[x] = "none"
    BY DEF BatchInit
  <2> QED
    BY <2>1, RolledComplete DEF CompleteInv, SaysComplete
<1> QED
  BY <1>3, <1>4, <1>5

LEMMA NextBatch ==
  ASSUME BatchInv, [BatchNext]_bvars
  PROVE  BatchInv'
<1>1. BatchTypeOK /\ BatchTypeOK'
  BY NextBatchType DEF BatchInv
<1>2. ASSUME ~late'
      PROVE  OwnInv' /\ SpendInv' /\ CompleteInv'
  <2>1. OwnInv /\ SpendInv /\ CompleteInv
    BY <1>1, <1>2, LateStays DEF BatchInv
  <2>2. OwnInv' /\ SpendInv'
    BY <1>1, <1>2, <2>1, NextOwns, NextCounts
  <2>3. CompleteInv'
    BY <1>1, <2>1, NextKeeps, WhoSaysComplete DEF CompleteInv
  <2> QED
    BY <2>2, <2>3
<1> QED
  BY <1>1, <1>2 DEF BatchInv

LEMMA BatchInvHolds == BatchSpec => []BatchInv
BY InitBatch, NextBatch, PTL DEF BatchSpec

(* The pages of a batch are in progress and its own, whatever the numbers of *)
(* pages, rows, submitters and pollers, and however claims, crashes,         *)
(* timeouts and watchdog interleave, as long as no poll overlaps the next    *)
(* and no claim outlives its half hour in the queue.                         *)
THEOREM BatchesOwnTheirPages == BatchSpec => []BatchOwnsItsPages
<1>1. BatchInv => BatchOwnsItsPages
  <2> SUFFICES ASSUME OwnInv, BatchTypeOK
               PROVE  /\ \A k \in ActiveRows : \A p \in row[k].pages : ms[p] = "in_progress"
                      /\ \A k, l \in ActiveRows : k # l => row[k].pages \cap row[l].pages = {}
                      /\ Held \cap InBatch = {}
    BY DEF BatchInv, BatchOwnsItsPages
  <2>1. \A k \in ActiveRows : k \in Row /\ \A p \in row[k].pages : p \in Page /\ InRow(k, p)
    BY DEF ActiveRows, InRow, BatchTypeOK
  <2>2. \A p \in Held : p \in Page /\ \E s \in Submitter : Holds(s, p)
    BY DEF Held, Holds, BatchTypeOK
  <2>3. \A p \in InBatch : \E k \in Row : InRow(k, p)
    BY <2>1 DEF InBatch
  <2>4. \A k \in ActiveRows : \A p \in row[k].pages : ms[p] = "in_progress"
    BY <2>1 DEF OwnInv, PagesInProgress
  <2>5. \A k, l \in ActiveRows : k # l => row[k].pages \cap row[l].pages = {}
    BY <2>1 DEF OwnInv, OneOwner
  <2>6. Held \cap InBatch = {}
    BY <2>2, <2>3 DEF OwnInv, OneOwner
  <2> QED
    BY <2>4, <2>5, <2>6
<1> QED
  BY <1>1, BatchInvHolds, PTL

(* Every batch a page was part of but one is accounted for by a retry that   *)
(* was counted or by a fault: no schedule of jobs, pollers, watchdog and     *)
(* driver pays for a page twice for nothing.                                 *)
THEOREM SpendingIsBounded == BatchSpec => []SpendIsBounded
<1>1. BatchInv => SpendIsBounded
  <2> SUFFICES ASSUME SpendInv, BatchTypeOK, NEW p \in Page
               PROVE  sent[p] <= retry[p] + faults + 1
    BY DEF BatchInv, SpendIsBounded
  <2>1. sent[p] \in Nat /\ retry[p] \in Nat /\ faults \in Nat
    BY BatchAssumption DEF BatchTypeOK
  <2> QED
    BY <2>1 DEF SpendInv
<1> QED
  BY <1>1, BatchInvHolds, PTL

(* A book that the batch services call complete is: its pages all succeeded, *)
(* although they commit between the counts of a roll-up and its write.       *)
THEOREM CompleteBooksAreComplete == BatchSpec => []CompleteIsTrue
<1>1. BatchInv => CompleteIsTrue
  BY DEF BatchInv, CompleteInv, SaysComplete, CompleteIsTrue
<1> QED
  BY <1>1, BatchInvHolds, PTL

(* Why a page may be done without a result: this is settled when it is marked,  *)
(* and stays true: retries only grow, and silence is not forgotten.             *)
Excused(p) == retry[p] + 1 >= MaxRetries \/ p \in silent
DoneInv == BatchTypeOK /\ DoneIsWhole

LEMMA DoneByPage ==
  ASSUME DoneInv, BatchTypeOK', silent \subseteq silent',
         \A p \in Page : retry[p] <= retry'[p],
         \A p \in Page : ms'[p] = "succeeded" /\ result'[p] = "none" =>
           (ms[p] = "succeeded" /\ result[p] = "none") \/ Excused(p) \/ p \in silent'
  PROVE  DoneIsWhole'
<1> SUFFICES ASSUME NEW p \in Page, ms'[p] = "succeeded", result'[p] = "none"
             PROVE  retry'[p] + 1 >= MaxRetries \/ p \in silent'
  BY DEF DoneIsWhole
<1>1. /\ retry[p] \in Nat /\ retry'[p] \in Nat /\ MaxRetries \in Nat /\ retry[p] <= retry'[p]
  BY BatchAssumption DEF DoneInv, BatchTypeOK
<1>2. Excused(p) \/ p \in silent'
  BY DEF DoneInv, DoneIsWhole, Excused
<1>3. CASE retry[p] + 1 >= MaxRetries
  BY <1>1, <1>3
<1> QED
  BY <1>2, <1>3 DEF Excused

LEMMA CountsGrow ==
  ASSUME DoneInv, NEW P, retry' = Counted(P)
  PROVE  \A p \in Page : retry[p] <= retry'[p]
<1> SUFFICES ASSUME NEW p \in Page PROVE retry[p] <= retry'[p]
  OBVIOUS
<1>1. retry[p] \in Nat /\ MaxRetries \in Nat /\ retry[p] <= MaxRetries
  BY BatchAssumption DEF DoneInv, BatchTypeOK
<1>2. retry[p] <= Bumped(retry[p])
  BY <1>1 DEF Bumped
<1>3. retry'[p] = IF p \in P THEN Bumped(retry[p]) ELSE retry[p]
  BY DEF Counted
<1> QED
  BY <1>1, <1>2, <1>3

LEMMA RetriesStay ==
  ASSUME DoneInv, retry' = retry
  PROVE  \A p \in Page : retry[p] <= retry'[p]
<1>1. \A p \in Page : retry[p] \in Nat
  BY BatchAssumption DEF DoneInv, BatchTypeOK
<1> QED
  BY <1>1

LEMMA FailedStaysWhole ==
  ASSUME DoneInv, BatchTypeOK', NEW P, FailPages(P), UNCHANGED silent
  PROVE  DoneIsWhole'
<1>1. \A p \in Page : ms'[p] = "succeeded" => ms[p] = "succeeded"
  BY DEF FailPages, Marked
<1> QED
  BY <1>1, CountsGrow, DoneByPage DEF FailPages

LEMMA UndoneStaysWhole ==
  ASSUME DoneInv, BatchTypeOK', UNCHANGED <<retry, result, silent>>,
         \A p \in Page : ms'[p] = "succeeded" => ms[p] = "succeeded" \/ result[p] = "whole"
  PROVE  DoneIsWhole'
  BY RetriesStay, DoneByPage

LEMMA AnswersAreThree ==
  ASSUME BatchTypeOK, NEW k \in Row
  PROVE  \A p \in row[k].pages : p \in Answered(k, "ok") \/ p \in Answered(k, "error") \/ p \in Answered(k, "missing")
<1>1. row[k].pages \subseteq Page /\ remote[k].answer \in [Page -> Answer]
  BY DEF BatchTypeOK
<1> QED
  BY <1>1 DEF Answered, Answer

LEMMA IngestIsWhole ==
  ASSUME DoneInv, BatchTypeOK', NEW k \in Row, IngestOcr(k) \/ IngestEmbedding(k),
         silent' = silent \cup Answered(k, "missing")
  PROVE  DoneIsWhole'
<1>1. CASE IngestOcr(k)
  <2> DEFINE bad == Answered(k, "error")
             given == {p \in bad : LastTry(p)}
  <2>1. /\ ms' = [p \in Page |-> CASE p \in Answered(k, "ok") \cup given -> "succeeded"
                                   [] p \in bad \ given -> "failed"
                                   [] OTHER -> ms[p]]
        /\ retry' = Counted(bad)
        /\ result' = [p \in Page |-> CASE p \in Answered(k, "ok") -> "whole"
                                       [] p \in given -> "none"
                                       [] OTHER -> result[p]]
    BY <1>1 DEF IngestOcr
  <2>2. ASSUME NEW p \in Page, ms'[p] = "succeeded", result'[p] = "none"
        PROVE  (ms[p] = "succeeded" /\ result[p] = "none") \/ Excused(p) \/ p \in silent'
    <3>1. p \notin Answered(k, "ok")
      <4>1. p \in Answered(k, "ok") => p \notin given
        BY DEF Answered
      <4> HIDE DEF given
      <4> QED
        BY <2>1, <2>2, <4>1
    <3>2. CASE p \in given
      BY <3>2 DEF LastTry, Excused
    <3>3. CASE p \notin given
      BY <2>1, <2>2, <3>1, <3>3
    <3> QED
      BY <3>2, <3>3
  <2> QED
    BY <2>1, <2>2, CountsGrow, DoneByPage
<1>2. CASE IngestEmbedding(k)
  <2> DEFINE bad == {p \in Answered(k, "error") : ~LastTry(p)}
  <2>1. /\ ms' = [p \in Page |-> CASE p \in bad -> "failed"
                                   [] p \in row[k].pages \ bad -> "succeeded"
                                   [] OTHER -> ms[p]]
        /\ retry' = Counted(bad)
        /\ result' = [p \in Page |-> IF p \in Answered(k, "ok") THEN "whole" ELSE result[p]]
    BY <1>2 DEF IngestEmbedding
  <2>2. ASSUME NEW p \in Page, ms'[p] = "succeeded", result'[p] = "none"
        PROVE  (ms[p] = "succeeded" /\ result[p] = "none") \/ Excused(p) \/ p \in silent'
    <3>1. p \notin Answered(k, "ok") /\ result[p] = "none" /\ p \notin bad
      BY <2>1, <2>2
    <3>2. CASE p \notin row[k].pages
      BY <2>1, <2>2, <3>1, <3>2
    <3>3. CASE p \in Answered(k, "error")
      BY <3>1, <3>3 DEF LastTry, Excused
    <3>4. CASE p \in Answered(k, "missing")
      BY <3>4
    <3> QED
      BY <3>1, <3>2, <3>3, <3>4, AnswersAreThree DEF DoneInv
  <2> QED
    BY <2>1, <2>2, CountsGrow, DoneByPage
<1> QED
  BY <1>1, <1>2

LEMMA DoneNext == DoneInv /\ [BatchNext]_bvars => DoneInv'
<1> SUFFICES ASSUME DoneInv, [BatchNext]_bvars PROVE DoneInv'
  OBVIOUS
<1> USE DEF batch, pages, history
<1>0. BatchTypeOK /\ BatchTypeOK' /\ \A p \in Page : result[p] # "none" => result[p] = "whole"
  BY NextBatchType DEF DoneInv, BatchTypeOK
<1> SUFFICES DoneIsWhole'
  BY <1>0 DEF DoneInv
<1>1. ASSUME UNCHANGED <<ms, retry, result, silent>> PROVE DoneIsWhole'
  BY <1>0, <1>1, UndoneStaysWhole
<1>2. ASSUME NEW P, NEW v \in {"idle", "in_progress"}, ms' = Marked(P, v),
             UNCHANGED <<retry, result, silent>>
      PROVE  DoneIsWhole'
  <2>1. \A p \in Page : ms'[p] = "succeeded" => ms[p] = "succeeded"
    BY <1>2 DEF Marked
  <2> QED
    BY <1>0, <1>2, <2>1, UndoneStaysWhole
<1>3. ASSUME NEW s \in Submitter, Submit(s) PROVE DoneIsWhole'
  <2>1. CASE Claim(s)
    <3>1. PICK P : ms' = Marked(P, "in_progress")
      BY <2>1 DEF Claim
    <3> QED
      BY <1>2, <2>1, <3>1 DEF Claim
  <2>2. CASE StartOcr(s)
    BY <1>1, <2>2 DEF StartOcr
  <2>3. CASE StartEmbedding(s)
    <3>1. CASE {p \in sub[s].todo : result[p] = "none"} = {}
      <4>1. ms' = Marked(sub[s].todo, "succeeded")
        BY <2>3, <3>1 DEF StartEmbedding
      <4>2. \A p \in Page : ms'[p] = "succeeded" => ms[p] = "succeeded" \/ result[p] = "whole"
        BY <1>0, <3>1, <4>1 DEF Marked
      <4> QED
        BY <1>0, <2>3, <4>2, UndoneStaysWhole DEF StartEmbedding
    <3>2. CASE {p \in sub[s].todo : result[p] = "none"} # {}
      BY <1>1, <2>3, <3>2 DEF StartEmbedding
    <3> QED
      BY <3>1, <3>2
  <2>4. CASE CreationFails(s)
    BY <1>0, <2>4, FailedStaysWhole DEF CreationFails
  <2>5. CASE SaveRow(s)
    BY <1>1, <2>5 DEF SaveRow
  <2>6. CASE SaveFails(s)
    <3>1. FailPages(sub[s].slice) \/ UNCHANGED pages
      BY <2>6 DEF SaveFails
    <3>2. UNCHANGED silent
      BY <2>6 DEF SaveFails
    <3> QED
      BY <1>0, <1>1, <3>1, <3>2, FailedStaysWhole
  <2>7. CASE SubmitEnds(s) \/ SubmitDies(s)
    BY <1>1, <2>7 DEF SubmitEnds, SubmitDies
  <2>8. ASSUME NEW k \in Row, CreateRemote(s, k) PROVE DoneIsWhole'
    BY <1>1, <2>8 DEF CreateRemote
  <2> QED
    BY <1>3, <2>1, <2>2, <2>3, <2>4, <2>5, <2>6, <2>7, <2>8 DEF Submit
<1>4. ASSUME NEW w \in Poller, Poll(w) PROVE DoneIsWhole'
  <2>1. CASE PollStarts(w) \/ PollDies(w)
    BY <1>1, <2>1 DEF PollStarts, PollDies
  <2>2. ASSUME NEW k \in Row, PollRow(w, k) PROVE DoneIsWhole'
    <3>1. CASE RowFails(w, k)
      BY <1>0, <3>1, FailedStaysWhole DEF RowFails
    <3>2. CASE OutputIsLost(w, k)
      <4>1. (FailPages(row[k].pages) \/ UNCHANGED pages) /\ UNCHANGED silent
        BY <3>2 DEF OutputIsLost
      <4> QED
        BY <1>0, <1>1, <4>1, FailedStaysWhole
    <3>3. CASE Ingest(w, k)
      BY <1>0, <3>3, IngestIsWhole DEF Ingest
    <3>4. CASE StillRuns(w, k)
      BY <1>1, <3>4 DEF StillRuns
    <3> QED
      BY <2>2, <3>1, <3>2, <3>3, <3>4 DEF PollRow
  <2> QED
    BY <1>4, <2>1, <2>2 DEF Poll
<1>5. ASSUME NEW x \in Actor, RollUpReads(x) \/ RollUpWrites(x) PROVE DoneIsWhole'
  BY <1>1, <1>5 DEF RollUpReads, RollUpWrites
<1>6. CASE Gemini
  BY <1>1, <1>6 DEF Gemini, Ages, RemoteMoves
<1>7. CASE Driver
  BY <1>2, <1>7 DEF Driver
<1>8. ASSUME NEW P, WatchdogResets(P) PROVE DoneIsWhole'
  BY <1>2, <1>8 DEF WatchdogResets, PutBack
<1>9. CASE UNCHANGED bvars
  BY <1>1, <1>9 DEF bvars
<1>10. CASE BatchNext
  BY <1>3, <1>4, <1>5, <1>6, <1>7, <1>8, <1>10 DEF BatchNext
<1> QED
  BY <1>9, <1>10

(* A page the batch services call done has its text or its vectors, for any     *)
(* overlap of batches, pollers and watchdog, unless it was given up on its last *)
(* try or an output left it out (batch_ocr_service.py, batch_embedding_service).*)
THEOREM DonePagesAreWhole == BatchSpec => []DoneIsWhole
<1>1. BatchInit => DoneInv
  <2> SUFFICES ASSUME BatchInit PROVE DoneIsWhole
    BY InitBatchType DEF DoneInv
  <2>1. \A p \in Page : ms[p] = "idle"
    BY DEF BatchInit
  <2> QED
    BY <2>1 DEF DoneIsWhole
<1>2. DoneInv => DoneIsWhole
  BY DEF DoneInv
<1> QED
  BY <1>1, <1>2, DoneNext, PTL DEF BatchSpec
=============================================================================
