--------------------------- MODULE Editors_proofs ---------------------------
(* Safety of what people and jobs write and read at the same time, for any users, books, *)
(* files, workers and bounds: one section per component, in the order of EXTENDS. *)
EXTENDS HistoryStaging, ClientPush, BookStorage, Client, Caches, EntityGraph,
        FiniteSetTheorems, SequenceTheorems, TLAPS

-----------------------------------------------------------------------------
(* The dictionary of history.                                                   *)
(* What an approval holds was read from a row without a conflict, and only that *)
(* is published: whatever is merged into the row meanwhile does not count.      *)
Harmless(F) == WithState(F, "conflict") = {}
ApprovalsAreHarmless == \A a \in Admin : Harmless(approval[a].facts)
Shapes ==
  /\ entry = [by |-> entry.by, facts |-> entry.facts]
  /\ approval = [a \in Admin |-> approval[a]]
StagingInv == Shapes /\ Harmless(entry.facts) /\ ApprovalsAreHarmless

LEMMA NothingIsHarmless == Harmless({})
  BY DEF Harmless, WithState

LEMMA StagingInitHolds == StagingInit => StagingInv
<1> SUFFICES ASSUME StagingInit PROVE StagingInv
  OBVIOUS
<1>1. entry.facts = {} /\ entry = [by |-> entry.by, facts |-> entry.facts]
  BY DEF StagingInit, NoEntry
<1>2. \A a \in Admin : approval[a].facts = {}
  BY DEF StagingInit, NothingRead
<1>3. approval = [a \in Admin |-> approval[a]]
  BY DEF StagingInit
<1> QED
  BY <1>1, <1>2, <1>3, NothingIsHarmless DEF StagingInv, Shapes, ApprovalsAreHarmless

LEMMA ApprovalBeginsKeeps ==
  ASSUME StagingInv, NEW b \in Admin, NEW i \in Candidate, ApprovalBegins(b, i)
  PROVE  StagingInv'
<1>1. entry' = entry
  BY DEF ApprovalBegins
<1>2. approval' = [approval EXCEPT ![b] = [row |-> i, facts |-> candidate[i].facts]]
  BY DEF ApprovalBegins
<1>3. Harmless(candidate[i].facts)
  BY DEF ApprovalBegins, Harmless
<1>4. approval' = [a \in Admin |-> IF a = b THEN [row |-> i, facts |-> candidate[i].facts] ELSE approval[a]]
  BY <1>2 DEF StagingInv, Shapes
<1>5. ApprovalsAreHarmless'
  BY <1>3, <1>4 DEF StagingInv, ApprovalsAreHarmless, Harmless, WithState
<1> QED
  BY <1>1, <1>4, <1>5 DEF StagingInv, Shapes, Harmless, WithState

(* An approval that ends forgets what it read.                                  *)
LEMMA ApprovalForgets ==
  ASSUME StagingInv, NEW b \in Admin, approval' = [approval EXCEPT ![b] = NothingRead]
  PROVE  ApprovalsAreHarmless' /\ approval' = [a \in Admin |-> approval'[a]]
<1>1. approval' = [a \in Admin |-> IF a = b THEN NothingRead ELSE approval[a]]
  BY DEF StagingInv, Shapes
<1>2. \A a \in Admin : approval'[a].facts = {} \/ approval'[a] = approval[a]
  BY <1>1 DEF NothingRead
<1>3. \A a \in Admin : Harmless(approval'[a].facts)
  BY <1>2, NothingIsHarmless DEF StagingInv, ApprovalsAreHarmless
<1> QED
  BY <1>1, <1>3 DEF ApprovalsAreHarmless, Harmless, WithState

LEMMA ApprovalEndsKeeps ==
  ASSUME StagingInv, NEW b \in Admin, ApprovalEnds(b)
  PROVE  StagingInv'
<1>1. ApprovalsAreHarmless' /\ approval' = [a \in Admin |-> approval'[a]]
  BY ApprovalForgets DEF ApprovalEnds
<1>2. entry' = entry \/ entry' = [by |-> "model", facts |-> approval[b].facts]
  BY DEF ApprovalEnds, FactsPublished
<1>3. Harmless(entry'.facts) /\ entry' = [by |-> entry'.by, facts |-> entry'.facts]
  BY <1>2 DEF StagingInv, Shapes, ApprovalsAreHarmless
<1> QED
  BY <1>1, <1>3 DEF StagingInv, Shapes, Harmless, WithState

LEMMA StagingNextKeeps == StagingInv /\ [StagingNext]_stagingVars => StagingInv'
<1> SUFFICES ASSUME StagingInv, [StagingNext]_stagingVars PROVE StagingInv'
  OBVIOUS
<1>1. ASSUME UNCHANGED <<entry, approval>> PROVE StagingInv'
  BY <1>1 DEF StagingInv, Shapes, Harmless, WithState, ApprovalsAreHarmless
<1>2. ASSUME NEW p \in Poller, NEW s \in Source, TakesSource(p, s) PROVE StagingInv'
  BY <1>1, <1>2 DEF TakesSource
<1>3. ASSUME NEW p \in Poller, SkipsCurated(p) \/ FindsTerm(p) PROVE StagingInv'
  BY <1>1, <1>3 DEF SkipsCurated, FindsTerm
<1>4. ASSUME NEW p \in Poller, StagesEntity(p) PROVE StagingInv'
  BY <1>1, <1>4 DEF StagesEntity
<1>5. ASSUME NEW p \in Poller, LosesLine(p) \/ EndsSource(p) \/ IngestDies(p) PROVE StagingInv'
  BY <1>1, <1>5 DEF LosesLine, EndsSource, IngestDies
<1>6. ASSUME NEW s \in Source, SourceFails(s) PROVE StagingInv'
  BY <1>1, <1>6 DEF SourceFails
<1>7. ASSUME NEW a \in Admin, ApprovalFails(a) PROVE StagingInv'
  <2>1. entry' = entry /\ approval' = [approval EXCEPT ![a] = NothingRead]
    BY <1>7 DEF ApprovalFails
  <2> QED
    BY <2>1, ApprovalForgets DEF StagingInv, Shapes, Harmless, WithState
<1>8. ASSUME NEW i \in Candidate, Rejects(i) PROVE StagingInv'
  BY <1>1, <1>8 DEF Rejects
<1>9. ASSUME NEW a \in Admin, \/ ResolutionFails(a) \/ \E i \in Candidate : ResolutionBegins(a, i)
                              \/ \E f, t, st : ResolvesFact(a, f, t, st)
      PROVE  StagingInv'
  BY <1>1, <1>9 DEF ResolutionBegins, ResolutionFails, ResolvesFact
<1>10. ASSUME DeletesEntry PROVE StagingInv'
  <2>1. entry' = NoEntry /\ approval' = approval
    BY <1>10 DEF DeletesEntry
  <2>2. entry'.facts = {} /\ entry' = [by |-> entry'.by, facts |-> entry'.facts]
    BY <2>1 DEF NoEntry
  <2> QED
    BY <2>1, <2>2, NothingIsHarmless DEF StagingInv, Shapes, ApprovalsAreHarmless, Harmless, WithState
<1>11. ASSUME NEW by \in {"person", "model"}, WritesEntry(by) PROVE StagingInv'
  <2>1. entry' = [entry EXCEPT !.by = by] /\ approval' = approval
    BY <1>11 DEF WritesEntry
  <2>2. entry' = [by |-> by, facts |-> entry.facts]
    BY <2>1 DEF StagingInv, Shapes
  <2> QED
    BY <2>1, <2>2 DEF StagingInv, Shapes, ApprovalsAreHarmless, Harmless, WithState
<1>12. CASE StagingNext
  BY <1>2, <1>3, <1>4, <1>5, <1>6, <1>7, <1>8, <1>9, <1>10, <1>11, <1>12,
     ApprovalBeginsKeeps, ApprovalEndsKeeps DEF StagingNext
<1> QED
  BY <1>1, <1>12 DEF stagingVars

(* The inductive invariant of the review: what approvals hold is harmless.      *)
THEOREM StagingInvariant == StagingSpec => []StagingInv
  BY StagingInitHolds, StagingNextKeeps, PTL DEF StagingSpec

(* The published entry never holds a conflict (approve_staging_term publishes   *)
(* the facts it has checked, not those of the row when the model has answered). *)
THEOREM EntryNeverContradicts == StagingSpec => []EntryHasNoConflict
<1>1. StagingInv => EntryHasNoConflict
  BY DEF StagingInv, Harmless, EntryHasNoConflict
<1> QED
  BY <1>1, StagingInvariant, PTL

(* Where committed facts are, as long as nobody has written over what he had    *)
(* not read: at most one candidate waits, it has all facts of the entry it may  *)
(* replace, and every committed fact is in it, in the entry, or given up.       *)
ACell(st, F) == [status |-> st, facts |-> F]
WhatIsRead == \A p \in Poller : ingest[p].row # 0 =>
  ingest[p].row \in Candidate /\ ingest[p].seen.status = "pending" /\ ingest[p].base = ingest[p].seen.facts
Who == entry.by \in {"none", "model", "person"} /\ (entry.by = "none" => entry.facts = {})
OneWaits == \A i, j \in Waiting : i = j
WaitingHasEntry == \A i \in Waiting : TextsOf(entry.facts) \subseteq settled \cup TextsOf(candidate[i].facts)
Places == settled \cup TextsOf(entry.facts) \cup UNION {TextsOf(candidate[i].facts) : i \in Waiting}
Whole == ~crossed => OneWaits /\ WaitingHasEntry /\ staged \subseteq Places
IngestShape == ingest = [p \in Poller |-> Ingest(ingest[p].phase, ingest[p].source, ingest[p].line,
                                           ingest[p].row, ingest[p].seen, ingest[p].base)]
CandidateShape == candidate = [i \in Candidate |-> ACell(candidate[i].status, candidate[i].facts)]
RowReads(reader) == \A a \in Admin : reader[a] = NothingRead \/ reader[a].row \in Candidate
ApprovalsHaveRows ==
  /\ approval = [a \in Admin |-> approval[a]] /\ RowReads(approval)
  /\ resolving = [a \in Admin |-> resolving[a]] /\ RowReads(resolving)
KeepingInv ==
  /\ StagingInv /\ ApprovalsHaveRows /\ IngestShape /\ CandidateShape /\ WhatIsRead /\ Who /\ crossed \in BOOLEAN /\ Whole

LEMMA TextsGrow ==
  ASSUME NEW F, NEW G, F \subseteq G
  PROVE  TextsOf(F) \subseteq TextsOf(G)
  BY DEF TextsOf

(* A merge forgets no text: a fact that is contradicted keeps its text.         *)
LEMMA MergesKeep ==
  ASSUME NEW B, NEW T, NEW F \in Merges(B, T)
  PROVE  TextsOf(B) \subseteq TextsOf(F)
<1> DEFINE U == T \ WithState(B, "active")
           G(N) == B \cup InState(N, "active")
           Verdicts(N) == [is : {"new"}, other : {Prose}]
                           \cup [is : {"duplicate", "conflict"}, other : WithState(G(N), "active")]
<1>1. CASE WithState(B, "active") = {}
  <2>1. B \subseteq F
    BY <1>1 DEF Merges
  <2> QED
    BY <2>1, TextsGrow
<1>2. CASE WithState(B, "active") # {}
  <2>1. F \in UNION {{Decided(G(N), U \ N, D) : D \in [U \ N -> Verdicts(N)]} : N \in SUBSET U}
    BY <1>2 DEF Merges
  <2>2. PICK N \in SUBSET U : F \in {Decided(G(N), U \ N, D) : D \in [U \ N -> Verdicts(N)]}
    BY <2>1
  <2>3. PICK D : F = Decided(G(N), U \ N, D)
    BY <2>2
  <2> DEFINE against == {D[t].other : t \in {u \in U \ N : D[u].is = "conflict"}}
  <2>4. (G(N) \ InState(against, "active")) \cup InState(against, "conflict") \subseteq F
    BY <2>3 DEF Decided
  <2> HIDE DEF against
  <2>5. ASSUME NEW f \in B PROVE f[1] \in TextsOf(F)
    <3>1. CASE f \in InState(against, "active")
      <4>1. PICK x \in against : f = <<x, "active">>
        BY <3>1 DEF InState
      <4>2. <<x, "conflict">> \in F
        BY <2>4 DEF InState
      <4> QED
        BY <4>1, <4>2 DEF TextsOf
    <3>2. CASE f \notin InState(against, "active")
      BY <2>4, <3>2 DEF TextsOf
    <3> QED
      BY <3>1, <3>2
  <2> QED
    BY <2>5 DEF TextsOf
<1> QED
  BY <1>1, <1>2

LEMMA IngestFields ==
  ASSUME NEW ph, NEW s, NEW l, NEW i, NEW c, NEW B
  PROVE  LET q == Ingest(ph, s, l, i, c, B) IN
         q.phase = ph /\ q.source = s /\ q.line = l /\ q.row = i /\ q.seen = c /\ q.base = B
  BY DEF Ingest

LEMMA KeepingInitHolds == StagingInit => KeepingInv
<1> SUFFICES ASSUME StagingInit PROVE KeepingInv
  OBVIOUS
<1>1. StagingInv
  BY StagingInitHolds
<1>2. ingest = [p \in Poller |-> NoIngest] /\ candidate = [i \in Candidate |-> Unused]
  BY DEF StagingInit
<1>3. IngestShape
  BY <1>2 DEF IngestShape, NoIngest, Ingest
<1>4. CandidateShape
  BY <1>2 DEF CandidateShape, Unused, ACell
<1>5. WhatIsRead
  BY <1>2 DEF WhatIsRead, NoIngest, Ingest
<1>6. entry.by \in {"none", "model", "person"} /\ entry.facts = {}
  BY DEF StagingInit, NoEntry
<1>7. Waiting = {}
  BY <1>2 DEF Waiting, Unused
<1>8. Whole
  BY <1>7 DEF StagingInit, Whole, OneWaits, WaitingHasEntry, Places
<1>9. ApprovalsHaveRows
  BY DEF StagingInit, ApprovalsHaveRows, RowReads
<1> QED
  BY <1>1, <1>3, <1>4, <1>5, <1>6, <1>8, <1>9 DEF KeepingInv, Who, StagingInit

(* A worker turns to another line, or comes to its end.                         *)
LEMMA IngestTurns ==
  ASSUME KeepingInv, NEW p \in Poller, NEW ph, NEW s, NEW l, NEW i, NEW c, NEW B,
         ingest' = [ingest EXCEPT ![p] = Ingest(ph, s, l, i, c, B)],
         i # 0 => i \in Candidate /\ c.status = "pending" /\ B = c.facts
  PROVE  IngestShape' /\ WhatIsRead'
<1>1. /\ ingest'[p] = Ingest(ph, s, l, i, c, B) /\ \A q \in Poller \ {p} : ingest'[q] = ingest[q]
      /\ ingest' = [q \in Poller |-> ingest'[q]]
  BY DEF KeepingInv, IngestShape
<1>2. ingest'[p].row = i /\ ingest'[p].seen = c /\ ingest'[p].base = B
  BY <1>1, IngestFields
<1>3. ingest'[p] = Ingest(ingest'[p].phase, ingest'[p].source, ingest'[p].line,
                          ingest'[p].row, ingest'[p].seen, ingest'[p].base)
  BY <1>1, IngestFields
<1>4. \A q \in Poller : ingest[q] = Ingest(ingest[q].phase, ingest[q].source, ingest[q].line,
                                           ingest[q].row, ingest[q].seen, ingest[q].base)
  BY DEF KeepingInv, IngestShape
<1>5. \A q \in Poller : ingest'[q] = Ingest(ingest'[q].phase, ingest'[q].source, ingest'[q].line,
                                            ingest'[q].row, ingest'[q].seen, ingest'[q].base)
  BY <1>1, <1>3, <1>4
<1>6. IngestShape'
  BY <1>1, <1>5 DEF IngestShape
<1>7. WhatIsRead'
  BY <1>1, <1>2 DEF KeepingInv, WhatIsRead
<1> QED
  BY <1>6, <1>7

LEMMA StillWhole ==
  ASSUME KeepingInv, UNCHANGED <<entry, candidate, settled, staged, crossed>>
  PROVE  CandidateShape' /\ Who' /\ crossed' \in BOOLEAN /\ Whole'
<1>1. Waiting' = Waiting /\ Places' = Places
  BY DEF Waiting, Places
<1> QED
  BY <1>1 DEF KeepingInv, CandidateShape, Who, Whole, OneWaits, WaitingHasEntry, TextsOf

LEMMA StillIngest ==
  ASSUME KeepingInv, UNCHANGED ingest
  PROVE  IngestShape' /\ WhatIsRead'
  BY DEF KeepingInv, IngestShape, WhatIsRead

(* What a cell becomes, and the others do not.                                  *)
LEMMA CellBecomes ==
  ASSUME CandidateShape, NEW i \in Candidate, NEW st, NEW F,
         candidate' = [candidate EXCEPT ![i] = ACell(st, F)]
  PROVE  /\ CandidateShape'
         /\ candidate'[i].status = st /\ candidate'[i].facts = F
         /\ \A j \in Candidate \ {i} : candidate'[j] = candidate[j]
         /\ Waiting' = IF st = "pending" THEN Waiting \cup {i} ELSE Waiting \ {i}
<1>1. candidate'[i] = ACell(st, F) /\ \A j \in Candidate \ {i} : candidate'[j] = candidate[j]
  BY DEF CandidateShape
<1>2. candidate'[i].status = st /\ candidate'[i].facts = F
  BY <1>1 DEF ACell
<1>3. CandidateShape'
  BY <1>1, <1>2 DEF CandidateShape
<1> QED
  BY <1>1, <1>2, <1>3 DEF Waiting

LEMMA FieldSet ==
  ASSUME CandidateShape, NEW i \in Candidate, NEW v
  PROVE  /\ candidate' = [candidate EXCEPT ![i].status = v] =>
              candidate' = [candidate EXCEPT ![i] = ACell(v, candidate[i].facts)]
         /\ candidate' = [candidate EXCEPT ![i].facts = v] =>
              candidate' = [candidate EXCEPT ![i] = ACell(candidate[i].status, v)]
<1>1. candidate[i] = ACell(candidate[i].status, candidate[i].facts)
  BY DEF CandidateShape
<1>2. /\ [ACell(candidate[i].status, candidate[i].facts) EXCEPT !.status = v] = ACell(v, candidate[i].facts)
      /\ [ACell(candidate[i].status, candidate[i].facts) EXCEPT !.facts = v] = ACell(candidate[i].status, v)
  BY DEF ACell
<1>3. /\ [candidate[i] EXCEPT !.status = v] = ACell(v, candidate[i].facts)
      /\ [candidate[i] EXCEPT !.facts = v] = ACell(candidate[i].status, v)
  BY <1>1, <1>2, Zenon
<1> QED
  BY <1>3, Zenon

(* What is read for a candidate or a row has not been written over.             *)
LEMMA StagesEntityKeeps ==
  ASSUME KeepingInv, NEW p \in Poller, StagesEntity(p)
  PROVE  CandidateShape' /\ Who' /\ crossed' \in BOOLEAN /\ Whole'
<1> DEFINE T == Extracted(p)[ingest[p].line]
           B == ingest[p].base
           r == ingest[p].row
<1>1. PICK F \in Merges(B, T) :
        /\ \/ r # 0 /\ candidate' = [candidate EXCEPT ![r].facts = F]
           \/ /\ r = 0
              /\ \E i \in Candidate :
                   /\ candidate[i] = Unused
                   /\ candidate' = [candidate EXCEPT ![i] = [status |-> "pending", facts |-> F]]
        /\ staged' = staged \cup TextsOf(F \ B)
        /\ settled' = settled \cup Absorbed(T, F)
  BY DEF StagesEntity
<1>2. /\ crossed' = (crossed \/ Cell(r) # ingest[p].seen
                     \/ (r = 0 /\ (Waiting # {} \/ entry.by = "person" \/ B # Basis)))
      /\ entry' = entry
  BY DEF StagesEntity
<1>3. TextsOf(B) \subseteq TextsOf(F) /\ TextsOf(F \ B) \subseteq TextsOf(F)
  BY <1>1, MergesKeep, TextsGrow
<1>4. Who' /\ crossed' \in BOOLEAN
  BY <1>2 DEF KeepingInv, Who
<1>5. CASE r # 0
  <2>1. r \in Candidate /\ ingest[p].seen.status = "pending" /\ B = ingest[p].seen.facts
    BY <1>5 DEF KeepingInv, WhatIsRead
  <2>2. candidate' = [candidate EXCEPT ![r] = ACell(candidate[r].status, F)]
    BY <1>1, <1>5, <2>1, FieldSet DEF KeepingInv
  <2>3. /\ CandidateShape' /\ candidate'[r].facts = F
        /\ \A j \in Candidate \ {r} : candidate'[j] = candidate[j]
        /\ Waiting' = IF candidate[r].status = "pending" THEN Waiting \cup {r} ELSE Waiting \ {r}
    <3>1. CandidateShape
      BY DEF KeepingInv
    <3>2. PICK i \in Candidate : i = r
      BY <2>1
    <3>3. PICK st : st = candidate[r].status
      OBVIOUS
    <3>4. candidate' = [candidate EXCEPT ![i] = ACell(st, F)]
      BY <2>2, <3>2, <3>3
    <3>5. /\ CandidateShape' /\ candidate'[i].facts = F
          /\ \A j \in Candidate \ {i} : candidate'[j] = candidate[j]
          /\ Waiting' = IF st = "pending" THEN Waiting \cup {i} ELSE Waiting \ {i}
      BY <3>1, <3>4, CellBecomes
    <3> QED
      BY <3>2, <3>3, <3>5
  <2>4. Whole'
    <3> SUFFICES ASSUME ~crossed' PROVE (OneWaits /\ WaitingHasEntry /\ staged \subseteq Places)'
      BY DEF Whole
    <3>1. ~crossed /\ candidate[r] = ingest[p].seen
      BY <1>2, <2>1 DEF Cell
    <3>2. r \in Waiting /\ B = candidate[r].facts
      BY <2>1, <3>1 DEF Waiting
    <3>3. Waiting' = Waiting /\ \A i, j \in Waiting : i = j
      BY <2>1, <2>3, <3>1, <3>2 DEF Waiting, KeepingInv, Whole, OneWaits
    <3>4. Waiting = {r}
      BY <3>2, <3>3
    <3>5. /\ staged \subseteq settled \cup TextsOf(entry.facts) \cup TextsOf(B)
          /\ TextsOf(entry.facts) \subseteq settled \cup TextsOf(B)
      BY <3>1, <3>2, <3>4 DEF KeepingInv, Whole, Places, WaitingHasEntry
    <3>6. Places' = settled' \cup TextsOf(entry.facts) \cup TextsOf(F)
      BY <1>2, <2>3, <3>3, <3>4 DEF Places
    <3>7. staged' \subseteq Places'
      BY <1>1, <1>3, <3>5, <3>6
    <3>8. WaitingHasEntry'
      BY <1>1, <1>2, <1>3, <2>3, <3>3, <3>4, <3>5 DEF WaitingHasEntry
    <3> QED
      BY <3>3, <3>7, <3>8 DEF OneWaits
  <2> QED
    BY <1>4, <2>3, <2>4
<1>6. CASE r = 0
  <2>1. PICK i \in Candidate : /\ candidate[i] = Unused
                               /\ candidate' = [candidate EXCEPT ![i] = ACell("pending", F)]
    BY <1>1, <1>6 DEF ACell
  <2>2. /\ CandidateShape' /\ candidate'[i].facts = F
        /\ Waiting' = Waiting \cup {i}
    BY <2>1, CellBecomes DEF KeepingInv
  <2>3. Whole'
    <3> SUFFICES ASSUME ~crossed' PROVE (OneWaits /\ WaitingHasEntry /\ staged \subseteq Places)'
      BY DEF Whole
    <3>1. ~crossed /\ Waiting = {} /\ entry.by # "person" /\ B = Basis
      BY <1>2, <1>6
    <3>2. Waiting' = {i}
      BY <2>2, <3>1
    <3>3. entry.facts = {} \/ entry.facts = B
      BY <3>1 DEF KeepingInv, Who, Basis
    <3>4. TextsOf(entry.facts) \subseteq TextsOf(F)
      BY <1>3, <3>3 DEF TextsOf
    <3>5. staged \subseteq settled \cup TextsOf(entry.facts)
      BY <3>1 DEF KeepingInv, Whole, Places
    <3>6. Places' = settled' \cup TextsOf(entry.facts) \cup TextsOf(F)
      BY <1>2, <2>2, <3>2 DEF Places
    <3>7. staged' \subseteq Places'
      BY <1>1, <1>3, <3>5, <3>6
    <3>8. WaitingHasEntry'
      BY <1>2, <2>2, <3>2, <3>4 DEF WaitingHasEntry
    <3> QED
      BY <3>2, <3>7, <3>8 DEF OneWaits
  <2> QED
    BY <1>4, <2>2, <2>3
<1> QED
  BY <1>5, <1>6

(* The candidate has all facts of the entry that it replaces.                   *)
LEMMA ApprovalEndsIsWhole ==
  ASSUME KeepingInv, NEW a \in Admin, ApprovalEnds(a), approval[a].row \in Candidate
  PROVE  CandidateShape' /\ Who' /\ crossed' \in BOOLEAN /\ Whole'
<1> DEFINE i == approval[a].row
           E == approval[a].facts
<1>1. /\ IF entry.by = "person"
         THEN entry' = entry /\ settled' = settled \cup TextsOf(candidate[i].facts)
         ELSE entry' = [by |-> "model", facts |-> E] /\ settled' = settled
      /\ candidate' = [candidate EXCEPT ![i].status = "approved"]
      /\ crossed' = (crossed \/ candidate[i] # [status |-> "pending", facts |-> E])
      /\ staged' = staged
  BY DEF ApprovalEnds, FactsPublished
<1>2. /\ CandidateShape' /\ Waiting' = Waiting \ {i}
  <2>1. CandidateShape /\ "approved" # "pending"
    BY DEF KeepingInv
  <2>2. candidate' = [candidate EXCEPT ![i] = ACell("approved", candidate[i].facts)]
    BY <1>1, <2>1, FieldSet
  <2> QED
    BY <2>1, <2>2, CellBecomes
<1>3. Who'
  BY <1>1 DEF KeepingInv, Who
<1>4. crossed' \in BOOLEAN
  BY <1>1 DEF KeepingInv
<1>5. Whole'
  <2> SUFFICES ASSUME ~crossed' PROVE (OneWaits /\ WaitingHasEntry /\ staged \subseteq Places)'
    BY DEF Whole
  <2>1. ~crossed /\ candidate[i] = [status |-> "pending", facts |-> E]
    BY <1>1
  <2>2. i \in Waiting /\ candidate[i].facts = E
    BY <2>1 DEF Waiting
  <2>3. Waiting = {i} /\ Waiting' = {}
    BY <1>2, <2>1, <2>2 DEF KeepingInv, Whole, OneWaits
  <2>4. /\ staged \subseteq settled \cup TextsOf(entry.facts) \cup TextsOf(E)
        /\ TextsOf(entry.facts) \subseteq settled \cup TextsOf(E)
    BY <2>1, <2>2, <2>3 DEF KeepingInv, Whole, Places, WaitingHasEntry
  <2>5. Places' = settled' \cup TextsOf(entry'.facts)
    BY <2>3 DEF Places
  <2>6. staged' \subseteq Places'
    <3>1. CASE entry.by = "person"
      BY <1>1, <2>2, <2>4, <2>5, <3>1
    <3>2. CASE entry.by # "person"
      BY <1>1, <2>4, <2>5, <3>2
    <3> QED
      BY <3>1, <3>2
  <2> QED
    BY <2>3, <2>6 DEF OneWaits, WaitingHasEntry
<1> QED
  BY <1>2, <1>3, <1>4, <1>5

LEMMA RejectsIsWhole ==
  ASSUME KeepingInv, NEW i \in Candidate, Rejects(i)
  PROVE  CandidateShape' /\ Who' /\ crossed' \in BOOLEAN /\ Whole'
<1>1. /\ candidate' = [candidate EXCEPT ![i].status = "rejected"]
      /\ settled' = settled \cup TextsOf(candidate[i].facts)
      /\ UNCHANGED <<entry, staged, crossed>>
  BY DEF Rejects
<1>2. /\ CandidateShape' /\ Waiting' = Waiting \ {i}
      /\ \A j \in Candidate \ {i} : candidate'[j] = candidate[j]
  <2>1. CandidateShape /\ "rejected" # "pending"
    BY DEF KeepingInv
  <2>2. candidate' = [candidate EXCEPT ![i] = ACell("rejected", candidate[i].facts)]
    BY <1>1, <2>1, FieldSet
  <2> QED
    BY <2>1, <2>2, CellBecomes
<1>3. Who' /\ crossed' \in BOOLEAN
  BY <1>1 DEF KeepingInv, Who
<1>4. Whole'
  <2> SUFFICES ASSUME ~crossed PROVE (OneWaits /\ WaitingHasEntry /\ staged \subseteq Places)'
    BY <1>1 DEF Whole
  <2>1. \A j \in Waiting' : j \in Waiting /\ candidate'[j] = candidate[j]
    BY <1>2 DEF Waiting
  <2>2. OneWaits'
    BY <2>1 DEF KeepingInv, Whole, OneWaits
  <2>3. WaitingHasEntry'
    BY <1>1, <2>1 DEF KeepingInv, Whole, WaitingHasEntry
  <2>4. staged \subseteq Places
    BY DEF KeepingInv, Whole
  <2>5. ASSUME NEW x \in Places PROVE x \in Places'
    <3>1. CASE x \in settled \cup TextsOf(entry.facts)
      BY <1>1, <3>1 DEF Places
    <3>2. CASE x \in UNION {TextsOf(candidate[j].facts) : j \in Waiting}
      <4>1. PICK j \in Waiting : x \in TextsOf(candidate[j].facts)
        BY <3>2
      <4>2. CASE j = i
        BY <1>1, <4>1, <4>2 DEF Places
      <4>3. CASE j # i
        BY <1>2, <4>1, <4>3 DEF Places, Waiting
      <4> QED
        BY <4>2, <4>3
    <3> QED
      BY <2>5, <3>1, <3>2 DEF Places
  <2> QED
    BY <1>1, <2>2, <2>3, <2>4, <2>5
<1> QED
  BY <1>2, <1>3, <1>4

LEMMA ResolvesFactIsWhole ==
  ASSUME KeepingInv, NEW a \in Admin, NEW f, NEW t, NEW st, ResolvesFact(a, f, t, st),
         resolving[a].row \in Candidate
  PROVE  CandidateShape' /\ Who' /\ crossed' \in BOOLEAN /\ Whole'
<1> DEFINE G == (resolving[a].facts \ {f}) \cup {<<t, st>>}
<1>0. PICK i \in Candidate : i = resolving[a].row OBVIOUS
<1>1. /\ candidate' = [candidate EXCEPT ![i].facts = G]
      /\ settled' = settled \cup ({f[1]} \ {t})
      /\ crossed' = (crossed \/ candidate[i].facts # resolving[a].facts)
      /\ entry' = entry /\ staged' = staged
  BY <1>0 DEF ResolvesFact
<1>2. TextsOf(resolving[a].facts) \subseteq settled' \cup TextsOf(G) /\ settled \subseteq settled'
  <2>1. ASSUME NEW g \in resolving[a].facts PROVE g[1] \in settled' \cup TextsOf(G)
    <3>1. CASE g = f /\ t = f[1]
      <4>1. <<t, st>> \in G /\ <<t, st>>[1] = g[1]
        BY <3>1
      <4> HIDE DEF G
      <4> QED
        BY <4>1 DEF TextsOf
    <3>2. CASE g = f /\ t # f[1]
      BY <1>1, <3>2
    <3>3. CASE g # f
      BY <3>3 DEF TextsOf
    <3> QED
      BY <3>1, <3>2, <3>3
  <2> QED
    BY <1>1, <2>1 DEF TextsOf
<1> HIDE DEF G
<1>3. CandidateShape /\ crossed \in BOOLEAN /\ Who BY DEF KeepingInv
<1>4. candidate' = [candidate EXCEPT ![i] = ACell(candidate[i].status, G)] BY <1>0, <1>1, <1>3, FieldSet
<1>5. /\ CandidateShape' /\ candidate'[i].facts = G
      /\ \A j \in Candidate \ {i} : candidate'[j] = candidate[j]
      /\ Waiting' = IF candidate[i].status = "pending" THEN Waiting \cup {i} ELSE Waiting \ {i}
  <2>1. CandidateShape BY <1>3
  <2>2. PICK st_, H : st_ = candidate[i].status /\ H = G OBVIOUS
  <2>3. candidate' = [candidate EXCEPT ![i] = ACell(st_, H)] BY <1>4, <2>2
  <2>4. CandidateShape' BY <1>0, <2>1, <2>3, CellBecomes
  <2>5. candidate'[i] = ACell(st_, H) BY <2>1, <2>3 DEF CandidateShape
  <2>6. candidate'[i].facts = H BY <2>5 DEF ACell
  <2>7. \A j \in Candidate \ {i} : candidate'[j] = candidate[j] BY <2>1, <2>3 DEF CandidateShape
  <2>8. Waiting' = IF st_ = "pending" THEN Waiting \cup {i} ELSE Waiting \ {i}
    BY <1>0, <2>1, <2>3, CellBecomes
  <2> QED BY <2>2, <2>4, <2>6, <2>7, <2>8
<1>6. Who' /\ crossed' \in BOOLEAN BY <1>1, <1>3 DEF Who
<1>7. Whole'
  <2> SUFFICES ASSUME ~crossed' PROVE (OneWaits /\ WaitingHasEntry /\ staged \subseteq Places)'
    BY DEF Whole
  <2>1. /\ ~crossed /\ TextsOf(candidate[i].facts) \subseteq settled' \cup TextsOf(G)
        /\ OneWaits /\ WaitingHasEntry /\ staged \subseteq Places /\ Waiting' = Waiting
    <3>1. ~crossed /\ candidate[i].facts = resolving[a].facts BY <1>1
    <3>2. Waiting' = Waiting BY <1>5 DEF Waiting
    <3> QED BY <1>2, <3>1, <3>2 DEF KeepingInv, Whole
  <2>2. ASSUME NEW j \in Waiting
        PROVE  TextsOf(candidate[j].facts) \subseteq settled' \cup TextsOf(candidate'[j].facts)
    BY <1>5, <2>1 DEF Waiting
  <2>3. WaitingHasEntry' BY <1>1, <2>1, <2>2 DEF WaitingHasEntry
  <2>4. Places \subseteq Places' BY <1>1, <2>1, <2>2 DEF Places
  <2> QED BY <1>1, <2>1, <2>3, <2>4 DEF OneWaits
<1> QED
  BY <1>5, <1>6, <1>7

(* The facts of the entry are given up with it, and kept when only its author   *)
(* changes.                                                                     *)
LEMMA EntryChangesIsWhole ==
  ASSUME KeepingInv, DeletesEntry \/ \E by \in {"person", "model"} : WritesEntry(by)
  PROVE  CandidateShape' /\ Who' /\ crossed' \in BOOLEAN /\ Whole'
<1>1. UNCHANGED <<candidate, staged, crossed>> /\ Waiting' = Waiting
  BY DEF DeletesEntry, WritesEntry, Waiting
<1>2. CandidateShape' /\ crossed' \in BOOLEAN
  BY <1>1 DEF KeepingInv, CandidateShape
<1>3. \/ entry'.by = "none" /\ entry'.facts = {} /\ settled' = settled \cup TextsOf(entry.facts)
      \/ entry'.by \in {"person", "model"} /\ entry'.facts = entry.facts /\ settled' = settled
  <2>1. CASE DeletesEntry
    BY <2>1 DEF DeletesEntry, NoEntry
  <2>2. CASE \E by \in {"person", "model"} : WritesEntry(by)
    <3>1. PICK by \in {"person", "model"} : WritesEntry(by)
      BY <2>2
    <3>2. entry' = [by |-> by, facts |-> entry.facts] /\ settled' = settled
      BY <3>1 DEF WritesEntry, KeepingInv, StagingInv, Shapes
    <3> QED
      BY <3>2
  <2> QED
    BY <2>1, <2>2
<1>4. Who'
  BY <1>3 DEF Who
<1>5. TextsOf({}) = {}
  BY DEF TextsOf
<1>6. /\ settled' \cup TextsOf(entry'.facts) = settled \cup TextsOf(entry.facts)
      /\ TextsOf(entry'.facts) \subseteq TextsOf(entry.facts) /\ settled \subseteq settled'
  BY <1>3, <1>5
<1>7. Places' = Places
  BY <1>1, <1>6 DEF Places
<1>8. WaitingHasEntry => WaitingHasEntry'
  BY <1>1, <1>6 DEF WaitingHasEntry
<1>9. Whole'
  BY <1>1, <1>7, <1>8 DEF KeepingInv, Whole, OneWaits
<1> QED
  BY <1>2, <1>4, <1>9

LEMMA ResolverHasRow ==
  ASSUME ApprovalsHaveRows, NEW a \in Admin, NEW f, NEW t, NEW st,
         ResolutionFails(a) \/ ResolvesFact(a, f, t, st)
  PROVE  resolving[a].row \in Candidate
<1>1. resolving[a] # NothingRead BY DEF ResolutionFails, ResolvesFact, NothingRead
<1> QED BY <1>1 DEF ApprovalsHaveRows, RowReads

LEMMA ReadsOn ==
  ASSUME NEW reader, reader = [a \in Admin |-> reader[a]], RowReads(reader), NEW then, NEW b \in Admin,
         NEW i, NEW F, i \in Candidate, then = [reader EXCEPT ![b] = [row |-> i, facts |-> F]]
                       \/ then = [reader EXCEPT ![b] = NothingRead]
  PROVE  then = [a \in Admin |-> then[a]] /\ RowReads(then)
<1>1. PICK v : /\ then = [reader EXCEPT ![b] = v] /\ (v = NothingRead \/ v.row \in Candidate)
  <2>1. PICK v : v = [row |-> i, facts |-> F] OBVIOUS
  <2>2. v.row = i BY <2>1
  <2> QED BY <2>1, <2>2
<1>2. then[b] = v /\ (\A a \in Admin \ {b} : then[a] = reader[a]) /\ then = [a \in Admin |-> then[a]]
  BY <1>1
<1>3. ASSUME NEW a \in Admin PROVE then[a] = NothingRead \/ then[a].row \in Candidate
  BY <1>1, <1>2 DEF RowReads
<1> QED BY <1>2, <1>3 DEF RowReads

LEMMA ApprovalsKeepRows == KeepingInv /\ [StagingNext]_stagingVars => ApprovalsHaveRows'
<1> SUFFICES ASSUME KeepingInv, [StagingNext]_stagingVars PROVE ApprovalsHaveRows'
  OBVIOUS
<1>0. ApprovalsHaveRows BY DEF KeepingInv
<1>1. CASE UNCHANGED <<approval, resolving>>
  BY <1>0, <1>1 DEF ApprovalsHaveRows, RowReads
<1>2. ASSUME NEW a \in Admin, NEW i \in Candidate, ApprovalBegins(a, i) PROVE ApprovalsHaveRows'
  BY <1>0, <1>2, ReadsOn DEF ApprovalBegins, ApprovalsHaveRows
<1>3. ASSUME NEW a \in Admin, NEW i \in Candidate, ResolutionBegins(a, i) PROVE ApprovalsHaveRows'
  BY <1>0, <1>3, ReadsOn DEF ResolutionBegins, ApprovalsHaveRows
<1>4. ASSUME NEW a \in Admin, ApprovalFails(a) \/ ApprovalEnds(a) PROVE ApprovalsHaveRows'
  <2>1. approval[a].row \in Candidate
    BY <1>0, <1>4 DEF ApprovalFails, ApprovalEnds, ApprovalsHaveRows, RowReads
  <2> QED BY <1>0, <1>4, <2>1, ReadsOn DEF ApprovalFails, ApprovalEnds, ApprovalsHaveRows
<1>5. ASSUME NEW a \in Admin, NEW f, NEW t, NEW st, ResolutionFails(a) \/ ResolvesFact(a, f, t, st)
      PROVE  ApprovalsHaveRows'
  <2>1. resolving[a].row \in Candidate BY <1>0, <1>5, ResolverHasRow
  <2> QED BY <1>0, <1>5, <2>1, ReadsOn DEF ResolutionFails, ResolvesFact, ApprovalsHaveRows
<1>6. CASE StagingNext
  <2>1. ASSUME NEW p \in Poller, \/ \E s \in Source : TakesSource(p, s)
                                 \/ SkipsCurated(p) \/ FindsTerm(p) \/ StagesEntity(p)
                                 \/ LosesLine(p) \/ EndsSource(p) \/ IngestDies(p)
        PROVE  UNCHANGED <<approval, resolving>>
    BY <2>1 DEF TakesSource, SkipsCurated, FindsTerm, StagesEntity, LosesLine, EndsSource, IngestDies
  <2>2. ASSUME \/ \E s \in Source : SourceFails(s)
               \/ \E i \in Candidate : Rejects(i)
               \/ DeletesEntry \/ \E by \in {"person", "model"} : WritesEntry(by)
        PROVE  UNCHANGED <<approval, resolving>>
    BY <2>2 DEF SourceFails, Rejects, DeletesEntry, WritesEntry
  <2>3. ASSUME NEW a \in Admin, \/ ApprovalFails(a) \/ ApprovalEnds(a) \/ ResolutionFails(a)
                                \/ \E i \in Candidate : ApprovalBegins(a, i) \/ ResolutionBegins(a, i)
                                \/ \E f, t, st : ResolvesFact(a, f, t, st)
        PROVE  ApprovalsHaveRows'
    BY <1>2, <1>3, <1>4, <1>5, <2>3
  <2> QED
    BY <1>1, <1>6, <2>1, <2>2, <2>3 DEF StagingNext
<1> QED
  BY <1>1, <1>6 DEF stagingVars

LEMMA KeepingNextHolds == KeepingInv /\ [StagingNext]_stagingVars => KeepingInv'
<1> SUFFICES ASSUME KeepingInv, [StagingNext]_stagingVars PROVE KeepingInv'
  OBVIOUS
<1>0. StagingInv' /\ ApprovalsHaveRows'
  BY StagingNextKeeps, ApprovalsKeepRows DEF KeepingInv
<1> SUFFICES /\ IngestShape' /\ WhatIsRead'
             /\ CandidateShape' /\ Who' /\ crossed' \in BOOLEAN /\ Whole'
  BY <1>0 DEF KeepingInv
<1>1. ASSUME NEW p \in Poller, NEW s \in Source, TakesSource(p, s)
      PROVE  /\ IngestShape' /\ WhatIsRead'
             /\ CandidateShape' /\ Who' /\ crossed' \in BOOLEAN /\ Whole'
  BY <1>1, IngestTurns, StillWhole DEF TakesSource
<1>2. ASSUME NEW p \in Poller, NextLine(p) PROVE IngestShape' /\ WhatIsRead'
  BY <1>2, IngestTurns DEF NextLine
<1>3. ASSUME NEW p \in Poller, SkipsCurated(p) \/ LosesLine(p)
      PROVE  /\ IngestShape' /\ WhatIsRead'
             /\ CandidateShape' /\ Who' /\ crossed' \in BOOLEAN /\ Whole'
  BY <1>2, <1>3, StillWhole DEF SkipsCurated, LosesLine
<1>4. ASSUME NEW p \in Poller, FindsTerm(p)
      PROVE  /\ IngestShape' /\ WhatIsRead'
             /\ CandidateShape' /\ Who' /\ crossed' \in BOOLEAN /\ Whole'
  <2>1. CASE ingest' = [ingest EXCEPT ![p] =
                          Ingest("writes", ingest[p].source, ingest[p].line, 0, Unused, Basis)]
    BY <1>4, <2>1, IngestTurns, StillWhole DEF FindsTerm
  <2>2. CASE \E i \in Waiting : ingest' = [ingest EXCEPT ![p] =
               Ingest("writes", ingest[p].source, ingest[p].line, i, candidate[i], candidate[i].facts)]
    <3>1. PICK i \in Waiting : ingest' = [ingest EXCEPT ![p] =
               Ingest("writes", ingest[p].source, ingest[p].line, i, candidate[i], candidate[i].facts)]
      BY <2>2
    <3>2. i \in Candidate /\ candidate[i].status = "pending"
      BY DEF Waiting
    <3>3. PICK c : c = candidate[i]
      OBVIOUS
    <3>4. PICK s : s = ingest[p].source
      OBVIOUS
    <3>5. PICK l : l = ingest[p].line
      OBVIOUS
    <3>6. ingest' = [ingest EXCEPT ![p] = Ingest("writes", s, l, i, c, c.facts)]
      BY <3>1, <3>3, <3>4, <3>5
    <3>7. IngestShape' /\ WhatIsRead'
      BY <3>2, <3>3, <3>6, IngestTurns
    <3> QED
      BY <1>4, <3>7, StillWhole DEF FindsTerm
  <2> QED
    BY <1>4, <2>1, <2>2 DEF FindsTerm
<1>5. ASSUME NEW p \in Poller, StagesEntity(p)
      PROVE  /\ IngestShape' /\ WhatIsRead'
             /\ CandidateShape' /\ Who' /\ crossed' \in BOOLEAN /\ Whole'
  BY <1>2, <1>5, StagesEntityKeeps DEF StagesEntity
<1>6. ASSUME NEW p \in Poller, EndsSource(p) \/ IngestDies(p)
      PROVE  /\ IngestShape' /\ WhatIsRead'
             /\ CandidateShape' /\ Who' /\ crossed' \in BOOLEAN /\ Whole'
  BY <1>6, IngestTurns, StillWhole DEF EndsSource, IngestDies, NoIngest
<1>7. ASSUME NEW s \in Source, SourceFails(s)
      PROVE  /\ IngestShape' /\ WhatIsRead'
             /\ CandidateShape' /\ Who' /\ crossed' \in BOOLEAN /\ Whole'
  BY <1>7, StillIngest, StillWhole DEF SourceFails
<1>8. ASSUME NEW a \in Admin, \/ ApprovalFails(a) \/ ResolutionFails(a)
                              \/ \E i \in Candidate : ApprovalBegins(a, i) \/ ResolutionBegins(a, i)
      PROVE  /\ IngestShape' /\ WhatIsRead'
             /\ CandidateShape' /\ Who' /\ crossed' \in BOOLEAN /\ Whole'
  BY <1>8, StillIngest, StillWhole DEF ApprovalFails, ApprovalBegins, ResolutionFails, ResolutionBegins
<1>9. ASSUME NEW a \in Admin, ApprovalEnds(a)
      PROVE  /\ IngestShape' /\ WhatIsRead'
             /\ CandidateShape' /\ Who' /\ crossed' \in BOOLEAN /\ Whole'
  <2>1. approval[a].row \in Candidate
    BY <1>9 DEF KeepingInv, ApprovalsHaveRows, RowReads, ApprovalEnds
  <2> QED
    BY <1>9, <2>1, StillIngest, ApprovalEndsIsWhole DEF ApprovalEnds
<1>10. ASSUME NEW i \in Candidate, Rejects(i)
       PROVE  /\ IngestShape' /\ WhatIsRead'
              /\ CandidateShape' /\ Who' /\ crossed' \in BOOLEAN /\ Whole'
  BY <1>10, StillIngest, RejectsIsWhole DEF Rejects
<1>11. ASSUME NEW a \in Admin, NEW f, NEW t, NEW st, ResolvesFact(a, f, t, st)
       PROVE  /\ IngestShape' /\ WhatIsRead'
              /\ CandidateShape' /\ Who' /\ crossed' \in BOOLEAN /\ Whole'
  <2>1. resolving[a].row \in Candidate BY <1>11, ResolverHasRow DEF KeepingInv
  <2> QED BY <1>11, <2>1, StillIngest, ResolvesFactIsWhole DEF ResolvesFact
<1>12. ASSUME DeletesEntry \/ \E by \in {"person", "model"} : WritesEntry(by)
       PROVE  /\ IngestShape' /\ WhatIsRead'
              /\ CandidateShape' /\ Who' /\ crossed' \in BOOLEAN /\ Whole'
  BY <1>12, StillIngest, EntryChangesIsWhole DEF DeletesEntry, WritesEntry
<1>13. CASE UNCHANGED stagingVars
  BY <1>13, StillIngest, StillWhole DEF stagingVars
<1>14. CASE StagingNext
  BY <1>1, <1>3, <1>4, <1>5, <1>6, <1>7, <1>8, <1>9, <1>10, <1>11, <1>12, <1>14 DEF StagingNext
<1> QED
  BY <1>13, <1>14

(* A fact that a job or a batch has committed is published, waits in a          *)
(* candidate, or was given up by a decision, whatever the model answers to      *)
(* merges (_merge_facts, approve_staging_term), unless somebody wrote over what *)
(* had changed since he read it.                                                *)
THEOREM StagedFactsAreKept == StagingSpec => []StagedFactIsKept
<1>1. KeepingInv => StagedFactIsKept
  BY DEF KeepingInv, Whole, Places, StagedFactIsKept
<1> QED
  BY <1>1, KeepingInitHolds, KeepingNextHolds, PTL DEF StagingSpec

-----------------------------------------------------------------------------
(* The texts a client sends                                                     *)
(* Texts only get newer: a push holds at most what is on disk, and at least     *)
(* what the push before it has sent. The server has the pages a push has passed *)
(* as long as the book has the id the client knows.                             *)
DiskTexts == [Leaf -> Nat]
PushTypes ==
  /\ server \in [book : Nat, text : DiskTexts]
  /\ work.book \in Nat /\ work = [book |-> work.book, uploaded |-> work.uploaded]
  /\ push \in [phase : {"idle", "asks", "new", "corrects"}, pages : DiskTexts, next : Nat \ {0}]
  /\ onDisk \in DiskTexts /\ sent \in DiskTexts
  /\ texts \in Nat /\ made \in Nat
IdsAreOld == server.book <= made /\ work.book <= made
TextsGetNewer ==
  \A p \in Leaf : /\ server.text[p] <= texts /\ onDisk[p] <= texts
                  /\ push.pages[p] <= onDisk[p] /\ sent[p] <= onDisk[p]
                  /\ push.phase # "idle" => sent[p] <= push.pages[p]
PassedIsThere ==
  /\ push.phase = "asks" => push.next = 1
  /\ push.phase = "corrects" /\ Named =>
       \A p \in Leaf : p < push.next => server.text[p] >= push.pages[p]
PushInv == PushTypes /\ IdsAreOld /\ TextsGetNewer /\ PassedIsThere /\ PushedTextIsThere

LEMMA NoPushFacts ==
  /\ NoTexts \in DiskTexts /\ \A p \in Leaf : NoTexts[p] = 0
  /\ NoPush \in [phase : {"idle", "asks", "new", "corrects"}, pages : DiskTexts, next : Nat \ {0}]
  /\ NoPush.phase = "idle" /\ \A p \in Leaf : NoPush.pages[p] = 0
  BY DEF NoTexts, NoPush, DiskTexts

LEMMA PushInitHolds == PushInit => PushInv
<1> SUFFICES ASSUME PushInit PROVE PushInv
  OBVIOUS
<1>1. PushTypes
  BY NoPushFacts DEF PushInit, PushTypes, DiskTexts
<1>2. IdsAreOld
  BY DEF PushInit, IdsAreOld
<1>3. TextsGetNewer
  <2>1. /\ server.text = NoTexts /\ push.pages = NoTexts /\ push.phase = "idle" /\ sent = NoTexts
        /\ texts = 1 /\ onDisk = [p \in Leaf |-> 1]
    BY DEF PushInit, NoPush
  <2>2. \A p \in Leaf : /\ server.text[p] = 0 /\ push.pages[p] = 0 /\ sent[p] = 0
                        /\ onDisk[p] = 1
    BY <2>1, NoPushFacts
  <2>3. texts = 1 /\ push.phase = "idle"
    BY <2>1
  <2> SUFFICES ASSUME NEW p \in Leaf
               PROVE  /\ server.text[p] <= texts /\ onDisk[p] <= texts
                      /\ push.pages[p] <= onDisk[p] /\ sent[p] <= onDisk[p]
    BY <2>3 DEF TextsGetNewer
  <2>4. server.text[p] <= texts /\ onDisk[p] <= texts
    BY <2>2, <2>3
  <2>5. push.pages[p] <= onDisk[p] /\ sent[p] <= onDisk[p]
    BY <2>2
  <2> QED
    BY <2>4, <2>5
<1>4. PassedIsThere /\ PushedTextIsThere
  BY NoPushFacts DEF PushInit, PassedIsThere, PushedTextIsThere, Named
<1> QED
  BY <1>1, <1>2, <1>3, <1>4 DEF PushInv

LEMMA EditingKeeps ==
  ASSUME PushInv, NEW q \in Leaf, LocalEdit(q) \/ WebEdit(q)
  PROVE  PushInv'
<1>1. CASE LocalEdit(q)
  BY <1>1 DEF LocalEdit, WritesText, PushInv, PushTypes, DiskTexts, IdsAreOld, TextsGetNewer,
     PassedIsThere, PushedTextIsThere, Named
<1>2. CASE WebEdit(q)
  BY <1>2 DEF WebEdit, WritesText, PushInv, PushTypes, DiskTexts, IdsAreOld, TextsGetNewer,
     PassedIsThere, PushedTextIsThere, Named
<1> QED
  BY <1>1, <1>2

LEMMA OthersKeep ==
  ASSUME PushInv, WebDeletes \/ WebUploads \/ Toggles
  PROVE  PushInv'
<1>1. CASE WebDeletes
  BY <1>1, NoPushFacts DEF WebDeletes, PushInv, PushTypes, IdsAreOld, TextsGetNewer,
     PassedIsThere, PushedTextIsThere, Named
<1>2. CASE WebUploads
  BY <1>2, NoPushFacts DEF WebUploads, Makes, PushInv, PushTypes, IdsAreOld, TextsGetNewer,
     PassedIsThere, PushedTextIsThere, Named
<1>3. CASE Toggles
  <2>1. PushTypes'
    BY <1>3, NoPushFacts DEF Toggles, PushInv, PushTypes, DiskTexts
  <2>2. IdsAreOld'
    BY <1>3, NoPushFacts DEF Toggles, PushInv, PushTypes, IdsAreOld
  <2>3. TextsGetNewer'
    BY <1>3, NoPushFacts DEF Toggles, PushInv, PushTypes, DiskTexts, TextsGetNewer, IdsAreOld
  <2>4. PassedIsThere'
    BY <1>3, NoPushFacts DEF Toggles, PushInv, PushTypes, DiskTexts, IdsAreOld, TextsGetNewer, PassedIsThere, Named
  <2>5. PushedTextIsThere'
    BY <1>3, NoPushFacts DEF Toggles, PushInv, PushTypes, DiskTexts, IdsAreOld, TextsGetNewer, PassedIsThere, PushedTextIsThere, Named
  <2> QED
    BY <2>1, <2>2, <2>3, <2>4, <2>5 DEF PushInv
<1> QED
  BY <1>1, <1>2, <1>3

LEMMA AskingKeeps ==
  ASSUME PushInv, PushBegins \/ AsksForBook \/ MissesBook
  PROVE  PushInv'
<1>1. CASE PushBegins
  BY <1>1, NoPushFacts DEF PushBegins, PushInv, PushTypes, DiskTexts, IdsAreOld, TextsGetNewer,
     PassedIsThere, PushedTextIsThere, Named
<1>2. ASSUME push.phase \in {"asks", "corrects"}, SaysYes \/ SaysNo,
             push.phase = "corrects" => SaysNo, UNCHANGED <<server, onDisk, sent, taken, texts, made>>
      PROVE  PushInv'
  <2>1. CASE SaysYes
    <3>1. push.phase = "asks" /\ push.next = 1
      <4>1. push'.phase = "corrects"
        BY <2>1 DEF SaysYes, PushInv, PushTypes
      <4>2. SaysNo => push'.phase = "new"
        BY DEF SaysNo, PushInv, PushTypes
      <4> QED
        BY <1>2, <4>1, <4>2 DEF PushInv, PassedIsThere
    <3>2. \A p \in Leaf : p \in Nat /\ p # 0
      BY PushAssumption
    <3>3. PushTypes' /\ IdsAreOld' /\ TextsGetNewer'
      BY <1>2, <2>1, <3>1 DEF SaysYes, PushInv, PushTypes, IdsAreOld, TextsGetNewer
    <3>4. PassedIsThere'
      BY <1>2, <2>1, <3>1, <3>2 DEF SaysYes, PushInv, PushTypes, PassedIsThere
    <3>5. PushedTextIsThere'
      BY <1>2, <2>1 DEF SaysYes, PushInv, PushedTextIsThere, Named
    <3> QED
      BY <3>3, <3>4, <3>5 DEF PushInv
  <2>2. CASE SaysNo
    BY <1>2, <2>2 DEF SaysYes, SaysNo, PushInv, PushTypes, DiskTexts, IdsAreOld, TextsGetNewer,
     PassedIsThere, PushedTextIsThere, Named
  <2> QED
    BY <1>2, <2>1, <2>2
<1>3. CASE AsksForBook
  BY <1>2, <1>3 DEF AsksForBook
<1>4. CASE MissesBook
  <2>1. CASE work.book # 0
    BY <1>2, <1>4, <2>1 DEF MissesBook
  <2>2. CASE work.book = 0
    BY <1>4, <2>2, NoPushFacts DEF MissesBook, PushInv, PushTypes, DiskTexts, IdsAreOld, TextsGetNewer,
     PassedIsThere, PushedTextIsThere, Named
  <2> QED
    BY <2>1, <2>2
<1> QED
  BY <1>1, <1>3, <1>4

LEMMA SendingBookKeeps ==
  ASSUME PushInv, SendsBook \/ LosesBook
  PROVE  PushInv'
<1>1. CASE SendsBook
  <2>1. PushTypes'
    <3>1. server' \in [book : Nat, text : DiskTexts] /\ made' \in Nat
      <4>1. CASE server.book = 0
        BY <1>1, <4>1 DEF SendsBook, Makes, PushInv, PushTypes
      <4>2. CASE server.book # 0
        BY <1>1, <4>2 DEF SendsBook, PushInv, PushTypes
      <4> QED
        BY <4>1, <4>2
    <3>2. work'.book \in Nat /\ work' = [book |-> work'.book, uploaded |-> work'.uploaded] /\ sent' \in DiskTexts /\ push' = NoPush
      <4>1. CASE server.book = 0
        BY <1>1, <4>1 DEF SendsBook, Ended, PushInv, PushTypes
      <4>2. CASE server.book # 0
        BY <1>1, <4>2 DEF SendsBook, Ended, PushInv, PushTypes
      <4> QED
        BY <4>1, <4>2
    <3> QED
      BY <1>1, <3>1, <3>2, NoPushFacts DEF SendsBook, PushInv, PushTypes
  <2>2. IdsAreOld'
    BY <1>1, NoPushFacts DEF SendsBook, Makes, Ended, PushInv, PushTypes, IdsAreOld
  <2>3. TextsGetNewer'
    BY <1>1, NoPushFacts DEF SendsBook, Makes, Ended, PushInv, PushTypes, DiskTexts, TextsGetNewer, IdsAreOld
  <2>4. PassedIsThere'
    BY <1>1, NoPushFacts DEF SendsBook, Makes, Ended, PushInv, PushTypes, DiskTexts, IdsAreOld, TextsGetNewer, PassedIsThere, Named
  <2>5. PushedTextIsThere'
    BY <1>1, NoPushFacts DEF SendsBook, Makes, Ended, PushInv, PushTypes, DiskTexts, IdsAreOld, TextsGetNewer, PassedIsThere, PushedTextIsThere, Named
  <2> QED
    BY <2>1, <2>2, <2>3, <2>4, <2>5 DEF PushInv
<1>2. CASE LosesBook
  BY <1>2, NoPushFacts DEF LosesBook, Makes, PushInv, PushTypes, DiskTexts, IdsAreOld, TextsGetNewer,
     PassedIsThere, PushedTextIsThere, Named
<1> QED
  BY <1>1, <1>2

LEMMA SendingPagesKeeps ==
  ASSUME PushInv, SendsPage \/ LosesPage \/ EndsPush
  PROVE  PushInv'
<1>1. CASE SendsPage
  <2>1. PushTypes'
    BY <1>1 DEF SendsPage, PushInv, PushTypes, DiskTexts
  <2>2. IdsAreOld'
    BY <1>1 DEF SendsPage, PushInv, PushTypes, IdsAreOld
  <2>3. TextsGetNewer'
    BY <1>1 DEF SendsPage, PushInv, PushTypes, DiskTexts, TextsGetNewer, IdsAreOld
  <2>4. PassedIsThere'
    <3>1. /\ push' = [push EXCEPT !.next = push.next + 1] /\ push.phase = "corrects"
          /\ server' = [server EXCEPT !.text[push.next] = push.pages[push.next]]
          /\ push.next \in Leaf /\ Named
      BY <1>1 DEF SendsPage
    <3>2. push'.phase = "corrects" /\ push'.pages = push.pages /\ push'.next = push.next + 1
      BY <3>1 DEF PushInv, PushTypes
    <3>3. \A p \in Leaf : p # push.next => server'.text[p] = server.text[p]
      BY <3>1 DEF PushInv, PushTypes, DiskTexts
    <3>4. server'.text[push.next] = push.pages[push.next] /\ push.pages[push.next] \in Nat
      BY <3>1 DEF PushInv, PushTypes, DiskTexts
    <3>5. \A p \in Leaf : p < push.next + 1 => p = push.next \/ p < push.next
      BY PushAssumption DEF PushInv, PushTypes
    <3>6. \A p \in Leaf : p < push.next => server.text[p] >= push.pages[p]
      BY <3>1 DEF PushInv, PassedIsThere
    <3>7. \A p \in Leaf : p < push'.next => server'.text[p] >= push'.pages[p]
      BY <3>2, <3>3, <3>4, <3>5, <3>6
    <3> QED
      BY <3>2, <3>7 DEF PassedIsThere
  <2>5. PushedTextIsThere'
    BY <1>1 DEF SendsPage, PushInv, PushTypes, DiskTexts, IdsAreOld, TextsGetNewer, PassedIsThere, PushedTextIsThere, Named
  <2> QED
    BY <2>1, <2>2, <2>3, <2>4, <2>5 DEF PushInv
<1>2. CASE LosesPage
  BY <1>2, NoPushFacts DEF LosesPage, Stops, PushInv, PushTypes, DiskTexts, IdsAreOld, TextsGetNewer,
     PassedIsThere, PushedTextIsThere, Named
<1>3. CASE EndsPush
  <2>1. \A p \in Leaf : p < push.next
    BY <1>3, PushAssumption DEF EndsPush, PushInv, PushTypes
  <2>2. PushTypes'
    BY <1>3, <2>1, NoPushFacts DEF EndsPush, Ended, PushInv, PushTypes, DiskTexts
  <2>3. IdsAreOld'
    BY <1>3, <2>1, NoPushFacts DEF EndsPush, Ended, PushInv, PushTypes, IdsAreOld
  <2>4. TextsGetNewer'
    BY <1>3, <2>1, NoPushFacts DEF EndsPush, Ended, PushInv, PushTypes, DiskTexts, TextsGetNewer, IdsAreOld
  <2>5. PassedIsThere'
    BY <1>3, <2>1, NoPushFacts DEF EndsPush, Ended, PushInv, PushTypes, DiskTexts, IdsAreOld, TextsGetNewer, PassedIsThere, Named
  <2>6. PushedTextIsThere'
    BY <1>3, <2>1, NoPushFacts DEF EndsPush, Ended, PushInv, PushTypes, DiskTexts, IdsAreOld, TextsGetNewer, PassedIsThere, PushedTextIsThere, Named
  <2> QED
    BY <2>2, <2>3, <2>4, <2>5, <2>6 DEF PushInv
<1> QED
  BY <1>1, <1>2, <1>3

LEMMA PushNextKeeps == PushInv /\ [PushNext]_pushVars => PushInv'
<1> SUFFICES ASSUME PushInv, [PushNext]_pushVars PROVE PushInv'
  OBVIOUS
<1>1. CASE PushNext
  BY <1>1, EditingKeeps, OthersKeep, AskingKeeps, SendingBookKeeps, SendingPagesKeeps DEF PushNext
<1>2. CASE UNCHANGED pushVars
  BY <1>2 DEF pushVars, PushInv, PushTypes, IdsAreOld, TextsGetNewer, PassedIsThere,
     PushedTextIsThere, Named
<1> QED
  BY <1>1, <1>2

(* The book a client calls uploaded holds the texts it sent, or later ones.     *)
THEOREM SentTextsArrive == PushSpec => []PushedTextIsThere
<1>1. PushInv => PushedTextIsThere
  BY DEF PushInv
<1> QED
  BY <1>1, PushInitHolds, PushNextKeeps, PTL DEF PushSpec

-----------------------------------------------------------------------------
(* Books and their files.                                                       *)
(* The records by their fields.                                                 *)
ARow(h, f) == [hash |-> h, file |-> f]
AnUpload(ph, c, f, i) == [phase |-> ph, content |-> c, file |-> f, id |-> i]
AScan(ph, t, p, c, i) == [phase |-> ph, todo |-> t, path |-> p, content |-> c, id |-> i]
ARemoval(ph, i, f) == [phase |-> ph, id |-> i, file |-> f]

Uploads(u) == upload[u].phase # "idle"
Moves == scan.phase \in {"stores", "deletes", "inserts"}
Removes == removal.phase # "idle"
HasRow(b) == shelf[b].hash # Absent

(* An id that was drawn and that nothing will ever use again.                   *)
Dead(i) == i <= ids /\ ~HasRow(i) /\ scan.id # i /\ \A u \in Uploader : upload[u].id # i

StorageShapes ==
  /\ stored \in [Path -> Content \cup {Absent}]
  /\ shelf = [b \in BookId |-> ARow(shelf[b].hash, shelf[b].file)]
  /\ upload = [u \in Uploader |->
                 AnUpload(upload[u].phase, upload[u].content, upload[u].file, upload[u].id)]
  /\ scan = AScan(scan.phase, scan.todo, scan.path, scan.content, scan.id)
  /\ removal = ARemoval(removal.phase, removal.id, removal.file)
  /\ ids \in Nat /\ wanted \subseteq Content /\ scan.todo \subseteq Path

FreshIsEmpty == \A b \in BookId : b > ids => stored[b] = Absent /\ ~HasRow(b)

RowIsSound(b) ==
  /\ ~HasRow(b) => shelf[b] = NoRow
  /\ HasRow(b) => /\ shelf[b].hash \in Content /\ shelf[b].file \in Path
                  /\ stored[b] \in {Absent, shelf[b].hash}
                  /\ shelf[b].file \in BookId => Dead(shelf[b].file)

UploadIsSound(u) ==
  /\ upload[u].phase \in {"idle", "stores", "commits"}
  /\ ~Uploads(u) => upload[u] = NoUpload
  /\ Uploads(u) => /\ upload[u].id \in BookId /\ upload[u].id <= ids /\ ~HasRow(upload[u].id)
                   /\ upload[u].content \in Content /\ upload[u].file \in FileName
                   /\ scan.id # upload[u].id
                   /\ \A v \in Uploader : v # u => upload[v].id # upload[u].id
  /\ upload[u].phase = "stores" => stored[upload[u].id] = Absent
  /\ upload[u].phase = "commits" => stored[upload[u].id] = upload[u].content

ScanIsSound ==
  /\ scan.phase \in {"idle", "next", "hash", "stores", "deletes", "inserts"}
  /\ scan.phase \in {"idle", "next", "hash"} => scan.id = 0
  /\ scan.phase \notin {"idle", "next"} =>
       /\ scan.content \in Content /\ scan.path \in Path /\ scan.path # scan.id
       /\ scan.path \in BookId => scan.path <= ids
  /\ Moves => scan.id \in BookId /\ scan.id <= ids /\ ~HasRow(scan.id)
  /\ scan.phase = "stores" => stored[scan.id] = Absent
  /\ scan.phase \in {"deletes", "inserts"} => stored[scan.id] = scan.content
  /\ scan.phase = "inserts" /\ scan.path \in BookId => Dead(scan.path)

(* Until a deletion has removed the file of its book, nobody counts on it.      *)
RemovalIsSound ==
  /\ removal.phase \in {"idle", "file", "original", "row"}
  /\ ~Removes => removal = NoRemoval
  /\ Removes => /\ removal.id \in BookId /\ HasRow(removal.id)
                /\ removal.file = shelf[removal.id].file
  /\ removal.phase = "file" /\ stored[removal.id] \in wanted =>
       \E p \in Path : p # removal.id /\ stored[p] = stored[removal.id]

StorageIsSound ==
  /\ StorageShapes /\ FreshIsEmpty /\ ScanIsSound /\ RemovalIsSound
  /\ \A b \in BookId : RowIsSound(b)
  /\ \A u \in Uploader : UploadIsSound(u)
  /\ BookHasItsFile /\ GivenIsStored

StorageInv == ~misled => StorageIsSound

LEMMA PathFacts ==
  /\ BookId \subseteq Nat /\ BookId \subseteq Path /\ FileName \subseteq Path
  /\ \A f \in FileName : f \notin BookId
  /\ Absent \notin Content /\ Absent \notin Path /\ Absent \notin Nat
  /\ 0 \notin BookId
  BY StorageAssumption DEF BookId, Path

LEMMA NoRecords ==
  /\ NoRow = ARow(Absent, Absent) /\ NoUpload = AnUpload("idle", Absent, Absent, 0)
  /\ NoScan = AScan("idle", {}, Absent, Absent, 0) /\ NoRemoval = ARemoval("idle", 0, Absent)
  BY DEF NoRow, NoUpload, NoScan, NoRemoval, ARow, AnUpload, AScan, ARemoval

LEMMA StorageInitHolds == StorageInit => StorageIsSound
<1> SUFFICES ASSUME StorageInit PROVE StorageIsSound
  OBVIOUS
<1>1. StorageShapes
  BY PathFacts, NoRecords DEF StorageInit, StorageShapes, ARow, AnUpload, AScan, ARemoval
<1>2. FreshIsEmpty /\ \A b \in BookId : RowIsSound(b)
  BY PathFacts, NoRecords DEF StorageInit, FreshIsEmpty, RowIsSound, HasRow, ARow
<1>3. \A u \in Uploader : UploadIsSound(u)
  BY NoRecords DEF StorageInit, UploadIsSound, Uploads, AnUpload
<1>4. ScanIsSound /\ RemovalIsSound
  BY NoRecords DEF StorageInit, ScanIsSound, RemovalIsSound, Moves, Removes, AScan, ARemoval
<1>5. BookHasItsFile /\ GivenIsStored
  BY DEF StorageInit, BookHasItsFile, GivenIsStored
<1> QED
  BY <1>1, <1>2, <1>3, <1>4, <1>5 DEF StorageIsSound

(* A file is dropped.                                                           *)
LEMMA DropKeeps ==
  ASSUME StorageIsSound, NEW c \in Content, NEW f \in FileName, DropsFile(c, f)
  PROVE  StorageIsSound'
<1>0. f \in Path /\ f \notin BookId /\ f # 0
  BY PathFacts, StorageAssumption
<1>1. /\ stored \in [Path -> Content \cup {Absent}] /\ stored' = [stored EXCEPT ![f] = c]
      /\ stored[f] = Absent /\ wanted' = wanted \cup {c}
      /\ UNCHANGED <<shelf, ids, upload, scan, removal>>
  BY DEF DropsFile, StorageIsSound, StorageShapes
<1>2. /\ \A p \in Path : p # f => stored'[p] = stored[p]
      /\ stored'[f] = c /\ stored' \in [Path -> Content \cup {Absent}]
      /\ \A p \in Path : stored[p] # Absent => stored'[p] = stored[p]
      /\ \A b \in BookId : stored'[b] = stored[b]
  BY <1>0, <1>1, PathFacts
<1>3. StorageShapes' /\ FreshIsEmpty'
  BY <1>1, <1>2 DEF StorageIsSound, StorageShapes, FreshIsEmpty, HasRow
<1>4. \A b \in BookId : RowIsSound(b)'
  BY <1>1, <1>2 DEF StorageIsSound, RowIsSound, HasRow, Dead
<1>5. \A u \in Uploader : UploadIsSound(u)'
  BY <1>1, <1>2 DEF StorageIsSound, UploadIsSound, Uploads, HasRow
<1>6. ScanIsSound'
  BY <1>1, <1>2 DEF StorageIsSound, ScanIsSound, Moves, HasRow, Dead
<1>7. RemovalIsSound'
  <2>1. RemovalIsSound /\ wanted \subseteq Content
    BY DEF StorageIsSound, StorageShapes
  <2>2. ASSUME removal.phase = "file", stored'[removal.id] \in wanted'
        PROVE  \E p \in Path : p # removal.id /\ stored'[p] = stored'[removal.id]
    <3>1. removal.id \in BookId /\ stored'[removal.id] = stored[removal.id] /\ removal.id # f
      BY <1>0, <1>2, <2>1, <2>2 DEF RemovalIsSound, Removes
    <3>2. CASE stored[removal.id] \in wanted
      <4>1. PICK p \in Path : p # removal.id /\ stored[p] = stored[removal.id]
        BY <2>1, <2>2, <3>2 DEF RemovalIsSound
      <4>2. stored'[p] = stored[p]
        BY <1>2, <2>1, <3>2, <4>1, PathFacts
      <4> QED
        BY <3>1, <4>1, <4>2
    <3>3. CASE stored[removal.id] = c
      BY <1>0, <1>2, <3>1, <3>3
    <3> QED
      BY <1>1, <2>2, <3>1, <3>2, <3>3
  <2> QED
    BY <1>1, <2>1, <2>2 DEF RemovalIsSound, Removes, HasRow
<1>8. BookHasItsFile' /\ GivenIsStored'
  <2>1. BookHasItsFile'
    BY <1>1, <1>2, PathFacts DEF StorageIsSound, BookHasItsFile, DropsFile
  <2>2. ASSUME NEW d \in wanted' PROVE \E p \in Path : stored'[p] = d
    <3>1. CASE d = c
      BY <1>0, <1>2, <3>1
    <3>2. CASE d \in wanted
      <4>1. PICK p \in Path : stored[p] = d
        BY <3>2 DEF StorageIsSound, GivenIsStored
      <4>2. d # Absent
        BY <3>2, PathFacts DEF StorageIsSound, StorageShapes
      <4> QED
        BY <1>2, <4>1, <4>2
    <3> QED
      BY <1>1, <2>2, <3>1, <3>2
  <2> QED
    BY <2>1, <2>2 DEF GivenIsStored
<1> QED
  BY <1>3, <1>4, <1>5, <1>6, <1>7, <1>8 DEF StorageIsSound

(* A file that is stored where none was takes no copy away.                     *)
LEMMA CopiesStay ==
  ASSUME StorageIsSound, NEW i \in BookId, NEW c \in Content, stored[i] = Absent, ~HasRow(i),
         stored' = [stored EXCEPT ![i] = c],
         UNCHANGED <<shelf, removal, wanted, torn>>
  PROVE  /\ stored' \in [Path -> Content \cup {Absent}] /\ stored'[i] = c
         /\ \A p \in Path : p # i => stored'[p] = stored[p]
         /\ GivenIsStored' /\ BookHasItsFile' /\ RemovalIsSound'
<1>1. stored \in [Path -> Content \cup {Absent}] /\ i \in Path /\ wanted \subseteq Content
  BY PathFacts DEF StorageIsSound, StorageShapes
<1>2. /\ stored' \in [Path -> Content \cup {Absent}] /\ stored'[i] = c
      /\ \A p \in Path : p # i => stored'[p] = stored[p]
  BY <1>1
<1>3. \A p \in Path : stored[p] \in wanted => stored'[p] = stored[p]
  BY <1>1, <1>2, PathFacts
<1>4. GivenIsStored'
  <2> SUFFICES ASSUME NEW d \in wanted PROVE \E p \in Path : stored'[p] = d
    BY DEF GivenIsStored
  <2>1. PICK p \in Path : stored[p] = d
    BY DEF StorageIsSound, GivenIsStored
  <2> QED
    BY <1>3, <2>1
<1>5. BookHasItsFile'
  <2> SUFFICES ASSUME NEW b \in BookId, shelf[b] # NoRow, removal.id # b, b \notin torn
               PROVE  stored'[b] = shelf[b].hash
    BY DEF BookHasItsFile
  <2>1. b # i
    BY DEF StorageIsSound, RowIsSound
  <2>2. stored[b] = shelf[b].hash
    BY DEF StorageIsSound, BookHasItsFile
  <2> QED
    BY <1>2, <2>1, <2>2, PathFacts
<1>6. RemovalIsSound'
  <2>1. RemovalIsSound
    BY DEF StorageIsSound
  <2>2. ASSUME removal.phase = "file", stored'[removal.id] \in wanted
        PROVE  \E p \in Path : p # removal.id /\ stored'[p] = stored'[removal.id]
    <3>1. removal.id \in BookId /\ HasRow(removal.id)
      BY <2>1, <2>2 DEF RemovalIsSound, Removes
    <3>2. stored'[removal.id] = stored[removal.id]
      BY <1>2, <3>1, PathFacts
    <3>3. PICK p \in Path : p # removal.id /\ stored[p] = stored[removal.id]
      BY <2>1, <2>2, <3>2 DEF RemovalIsSound
    <3> QED
      BY <1>3, <2>2, <3>2, <3>3
  <2> QED
    BY <2>1, <2>2 DEF RemovalIsSound, Removes, HasRow
<1> QED
  BY <1>2, <1>4, <1>5, <1>6

(* An upload draws an id that nobody has.                                       *)
LEMMA UploadBeginsKeeps ==
  ASSUME StorageIsSound, NEW u \in Uploader, NEW c \in Content, NEW f \in FileName,
         UploadBegins(u, c, f)
  PROVE  StorageIsSound'
<1>1. PICK i \in BookId : /\ Draws(i) /\ upload[u] = NoUpload
                          /\ upload' = [upload EXCEPT ![u] = AnUpload("stores", c, f, i)]
                          /\ UNCHANGED <<stored, shelf, scan, removal, wanted, torn>>
  BY DEF UploadBegins, AnUpload
<1>2. /\ ids \in Nat /\ i = ids + 1 /\ ids' = i /\ stored[i] = Absent /\ ~HasRow(i)
  BY <1>1, PathFacts DEF Draws, StorageIsSound, StorageShapes, FreshIsEmpty
<1>3. /\ upload'[u] = AnUpload("stores", c, f, i)
      /\ \A v \in Uploader : v # u => upload'[v] = upload[v]
      /\ upload' = [v \in Uploader |->
           AnUpload(upload'[v].phase, upload'[v].content, upload'[v].file, upload'[v].id)]
  BY <1>1 DEF StorageIsSound, StorageShapes, AnUpload
<1>4. upload'[u].phase = "stores" /\ upload'[u].content = c /\ upload'[u].file = f /\ upload'[u].id = i
  BY <1>3 DEF AnUpload
<1>5. /\ \A v \in Uploader : upload[v].id \in Nat /\ upload[v].id # i
      /\ scan.id \in Nat /\ scan.id # i
  BY <1>1, <1>2, PathFacts, NoRecords
    DEF StorageIsSound, UploadIsSound, Uploads, ScanIsSound, Moves, AnUpload
<1>6. StorageShapes' /\ FreshIsEmpty'
  <2>1. StorageShapes'
    <3>1. /\ StorageShapes
          /\ UNCHANGED <<stored, shelf, scan, removal>> /\ ids' \in Nat /\ wanted' \subseteq Content
      BY <1>1, <1>2 DEF StorageIsSound, StorageShapes, UploadBegins
    <3> QED
      BY <1>3, <3>1, Zenon DEF StorageShapes
  <2>2. FreshIsEmpty'
    BY <1>1, <1>2, PathFacts DEF StorageIsSound, FreshIsEmpty, HasRow
  <2> QED
    BY <2>1, <2>2
<1>7. \A b \in BookId : Dead(b) => Dead(b)'
  BY <1>1, <1>2, <1>3, <1>4, PathFacts DEF Dead, HasRow
<1>8. \A b \in BookId : RowIsSound(b)'
  BY <1>1, <1>7 DEF StorageIsSound, RowIsSound, HasRow
<1>9. \A v \in Uploader : UploadIsSound(v)'
  <2> SUFFICES ASSUME NEW v \in Uploader PROVE UploadIsSound(v)'
    OBVIOUS
  <2>1. CASE v = u
    BY <1>1, <1>2, <1>3, <1>4, <1>5, <2>1 DEF UploadIsSound, Uploads, HasRow
  <2>2. CASE v # u
    BY <1>1, <1>2, <1>3, <1>4, <1>5, <2>2, PathFacts DEF StorageIsSound, UploadIsSound, Uploads, HasRow
  <2> QED
    BY <2>1, <2>2
<1>10. ScanIsSound'
  BY <1>1, <1>2, <1>7, PathFacts DEF StorageIsSound, ScanIsSound, Moves, HasRow
<1>11. RemovalIsSound' /\ BookHasItsFile' /\ GivenIsStored'
  BY <1>1 DEF StorageIsSound, RemovalIsSound, Removes, HasRow, BookHasItsFile, GivenIsStored
<1> QED
  BY <1>6, <1>8, <1>9, <1>10, <1>11 DEF StorageIsSound

LEMMA UploadStoresKeeps ==
  ASSUME StorageIsSound, NEW u \in Uploader, UploadStores(u)
  PROVE  StorageIsSound'
<1> DEFINE i == upload[u].id
           c == upload[u].content
<1>1. /\ i \in BookId /\ c \in Content /\ stored[i] = Absent /\ ~HasRow(i) /\ i <= ids
      /\ \A v \in Uploader : v # u => upload[v].id # i
      /\ scan.id # i
  BY DEF UploadStores, StorageIsSound, UploadIsSound, Uploads
<1>2. /\ stored' = [stored EXCEPT ![i] = c] /\ upload[u].phase = "stores"
      /\ upload' = [upload EXCEPT ![u].phase = "commits"]
      /\ UNCHANGED <<shelf, ids, scan, removal, wanted, torn>>
  BY DEF UploadStores
<1>3. /\ stored' \in [Path -> Content \cup {Absent}] /\ stored'[i] = c
      /\ \A p \in Path : p # i => stored'[p] = stored[p]
      /\ GivenIsStored' /\ BookHasItsFile' /\ RemovalIsSound'
  BY <1>1, <1>2, CopiesStay
<1>4. /\ upload'[u] = AnUpload("commits", c, upload[u].file, i)
      /\ \A v \in Uploader : v # u => upload'[v] = upload[v]
      /\ upload' = [v \in Uploader |->
           AnUpload(upload'[v].phase, upload'[v].content, upload'[v].file, upload'[v].id)]
  BY <1>2 DEF StorageIsSound, StorageShapes, AnUpload
<1>5. upload'[u].phase = "commits" /\ upload'[u].content = c /\ upload'[u].file = upload[u].file
      /\ upload'[u].id = i
  BY <1>4 DEF AnUpload
<1>6. StorageShapes' /\ FreshIsEmpty'
  <2>1. StorageShapes'
    <3>1. /\ StorageShapes
          /\ shelf' = shelf /\ scan' = scan /\ removal' = removal
          /\ ids' \in Nat /\ wanted' \subseteq Content
      BY <1>2 DEF StorageIsSound, StorageShapes
    <3> QED
      BY <1>3, <1>4, <3>1, Zenon DEF StorageShapes
  <2>2. FreshIsEmpty'
    <3>1. FreshIsEmpty /\ ids \in Nat
      BY DEF StorageIsSound, StorageShapes
    <3>2. ASSUME NEW b \in BookId, b > ids PROVE stored'[b] = Absent /\ ~HasRow(b)
      <4>1. b # i
        BY <1>1, <3>1, <3>2, PathFacts
      <4> QED
        BY <1>3, <3>1, <3>2, <4>1, PathFacts DEF FreshIsEmpty
    <3> QED
      BY <1>2, <3>2 DEF FreshIsEmpty, HasRow
  <2> QED
    BY <2>1, <2>2
<1>7. \A b \in BookId : Dead(b) => Dead(b)'
  BY <1>1, <1>2, <1>4, <1>5, PathFacts DEF Dead, HasRow
<1>8. \A b \in BookId : RowIsSound(b)'
  BY <1>1, <1>2, <1>3, <1>7, PathFacts DEF StorageIsSound, RowIsSound, HasRow
<1>9. \A v \in Uploader : UploadIsSound(v)'
  <2> SUFFICES ASSUME NEW v \in Uploader PROVE UploadIsSound(v)'
    OBVIOUS
  <2>1. CASE v = u
    BY <1>1, <1>2, <1>3, <1>4, <1>5, <2>1 DEF StorageIsSound, UploadIsSound, Uploads, HasRow
  <2>2. CASE v # u
    BY <1>1, <1>2, <1>3, <1>4, <1>5, <2>2, PathFacts DEF StorageIsSound, UploadIsSound, Uploads, HasRow
  <2> QED
    BY <2>1, <2>2
<1>10. ScanIsSound'
  BY <1>1, <1>2, <1>3, <1>7, PathFacts DEF StorageIsSound, ScanIsSound, Moves, HasRow
<1> QED
  BY <1>3, <1>6, <1>8, <1>9, <1>10 DEF StorageIsSound

(* A book is registered whose file is stored.                                   *)
LEMMA RegisterKeeps ==
  ASSUME StorageIsSound, NEW i \in BookId, NEW c \in Content, NEW p \in Path,
         stored[i] = c, ~HasRow(i), i <= ids, ~FoundByHash(c),
         ~Dead(i), p \in BookId => Dead(p),
         shelf' = Register(i, c, p), wanted' = wanted \cup {c},
         UNCHANGED <<stored, ids, removal, torn>>,
         \A b \in BookId : Dead(b) => Dead(b)'
  PROVE  /\ shelf' = [b \in BookId |-> ARow(shelf'[b].hash, shelf'[b].file)]
         /\ wanted' \subseteq Content
         /\ FreshIsEmpty' /\ RemovalIsSound' /\ BookHasItsFile' /\ GivenIsStored'
         /\ \A b \in BookId : RowIsSound(b)' /\ (b # i => HasRow(b)' = HasRow(b))
<1>1. /\ shelf'[i] = ARow(c, p) /\ \A b \in BookId : b # i => shelf'[b] = shelf[b]
      /\ shelf' = [b \in BookId |-> ARow(shelf'[b].hash, shelf'[b].file)]
  BY DEF Register, StorageIsSound, StorageShapes, ARow
<1>2. shelf'[i].hash = c /\ shelf'[i].file = p
  BY <1>1 DEF ARow
<1>3. wanted' \subseteq Content /\ ids \in Nat
  BY DEF StorageIsSound, StorageShapes
<1>4. FreshIsEmpty'
  <2>1. ASSUME NEW b \in BookId, b > ids PROVE stored[b] = Absent /\ ~HasRow(b)'
    <3>1. b # i
      BY <1>3, <2>1, PathFacts
    <3> QED
      BY <1>1, <2>1, <3>1 DEF StorageIsSound, FreshIsEmpty, HasRow
  <2> QED
    BY <2>1 DEF FreshIsEmpty
<1>5. \A b \in BookId : b # i => HasRow(b)' = HasRow(b)
  BY <1>1 DEF HasRow
<1>6. \A b \in BookId : RowIsSound(b)'
  <2> SUFFICES ASSUME NEW b \in BookId PROVE RowIsSound(b)'
    OBVIOUS
  <2>1. CASE b = i
    BY <1>1, <1>2, <2>1, PathFacts DEF RowIsSound, HasRow
  <2>2. CASE b # i
    <3>1. RowIsSound(b)
      BY DEF StorageIsSound
    <3>2. HasRow(b) /\ shelf[b].file \in BookId => Dead(shelf[b].file)'
      <4> SUFFICES ASSUME HasRow(b), shelf[b].file \in BookId PROVE Dead(shelf[b].file)'
        OBVIOUS
      <4>1. PICK x \in BookId : x = shelf[b].file
        OBVIOUS
      <4>2. Dead(x)
        BY <3>1, <4>1 DEF RowIsSound
      <4>3. shelf'[b].file = x
        BY <1>1, <2>2, <4>1
      <4> QED
        BY <4>2, <4>3, Dead(x)' DEF Dead
    <3> QED
      BY <1>1, <2>2, <3>1, <3>2 DEF RowIsSound, HasRow
  <2> QED
    BY <2>1, <2>2
<1>7. RemovalIsSound'
  <2>1. RemovalIsSound
    BY DEF StorageIsSound
  <2>2. Removes => removal.id \in BookId /\ removal.id # i /\ shelf'[removal.id] = shelf[removal.id]
    BY <1>1, <2>1 DEF RemovalIsSound
  <2>3. removal.phase = "file" => stored[removal.id] # c
    BY <2>1, <2>2, PathFacts DEF RemovalIsSound, Removes, StorageIsSound, RowIsSound, FoundByHash
  <2> QED
    BY <2>1, <2>2, <2>3 DEF RemovalIsSound, Removes, HasRow
<1>8. BookHasItsFile' /\ GivenIsStored'
  BY <1>1, <1>2, PathFacts DEF StorageIsSound, BookHasItsFile, GivenIsStored
<1> QED
  BY <1>1, <1>3, <1>4, <1>5, <1>6, <1>7, <1>8

(* A request that ends gives its id up.                                         *)
LEMMA UploadEnds ==
  ASSUME StorageIsSound, NEW u \in Uploader, upload' = [upload EXCEPT ![u] = NoUpload],
         UNCHANGED <<stored, ids, scan>>,
         \A b \in BookId : b # upload[u].id => HasRow(b)' = HasRow(b)
  PROVE  /\ upload' = [v \in Uploader |->
              AnUpload(upload'[v].phase, upload'[v].content, upload'[v].file, upload'[v].id)]
         /\ \A v \in Uploader : UploadIsSound(v)'
         /\ \A b \in BookId : Dead(b) => Dead(b)'
<1>1. /\ upload'[u] = AnUpload("idle", Absent, Absent, 0)
      /\ \A v \in Uploader : v # u => upload'[v] = upload[v]
      /\ upload' = [v \in Uploader |->
           AnUpload(upload'[v].phase, upload'[v].content, upload'[v].file, upload'[v].id)]
  BY NoRecords DEF StorageIsSound, StorageShapes, AnUpload
<1>2. upload'[u].phase = "idle" /\ upload'[u].id = 0 /\ upload'[u] = NoUpload
  BY <1>1, NoRecords DEF AnUpload
<1>3. ASSUME NEW v \in Uploader PROVE UploadIsSound(v)'
  <2>1. CASE v = u
    BY <1>2, <2>1 DEF UploadIsSound, Uploads
  <2>2. CASE v # u /\ ~Uploads(v)
    BY <1>1, <2>2 DEF StorageIsSound, UploadIsSound, Uploads
  <2>3. CASE v # u /\ Uploads(v)
    <3>1. UploadIsSound(v) /\ upload[v].id \in BookId /\ upload[v].id # 0
          /\ upload[v].id # upload[u].id
      BY <2>3, PathFacts DEF StorageIsSound, UploadIsSound
    <3>2. \A w \in Uploader : w # v => upload'[w].id # upload[v].id
      BY <1>1, <1>2, <2>3, <3>1 DEF UploadIsSound
    <3> QED
      BY <1>1, <2>3, <3>1, <3>2 DEF UploadIsSound, Uploads
  <2> QED
    BY <2>1, <2>2, <2>3
<1>4. ASSUME NEW b \in BookId, Dead(b) PROVE Dead(b)'
  BY <1>1, <1>2, <1>4, PathFacts DEF Dead
<1> QED
  BY <1>1, <1>3, <1>4

LEMMA UploadCommitsKeeps ==
  ASSUME StorageIsSound, NEW u \in Uploader, UploadCommits(u) \/ UploadDies(u)
  PROVE  StorageIsSound'
<1> DEFINE i == upload[u].id
           c == upload[u].content
           f == upload[u].file
<1>1. /\ upload' = [upload EXCEPT ![u] = NoUpload]
      /\ UNCHANGED <<stored, ids, scan, removal, torn>>
  BY DEF UploadCommits, UploadDies
<1>2. CASE UNCHANGED <<shelf, wanted>>
  <2>1. \A b \in BookId : HasRow(b)' = HasRow(b)
    BY <1>2 DEF HasRow
  <2>2. /\ upload' = [v \in Uploader |->
              AnUpload(upload'[v].phase, upload'[v].content, upload'[v].file, upload'[v].id)]
        /\ \A v \in Uploader : UploadIsSound(v)'
        /\ \A b \in BookId : Dead(b) => Dead(b)'
    BY <1>1, <2>1, UploadEnds
  <2>3. StorageShapes'
    BY <1>1, <1>2, <2>2, Zenon DEF StorageIsSound, StorageShapes
  <2>4. FreshIsEmpty' /\ RemovalIsSound' /\ BookHasItsFile' /\ GivenIsStored'
    BY <1>1, <1>2 DEF StorageIsSound, FreshIsEmpty, RemovalIsSound, Removes, HasRow,
                      BookHasItsFile, GivenIsStored
  <2>5. \A b \in BookId : RowIsSound(b)'
    BY <1>1, <1>2, <2>2 DEF StorageIsSound, RowIsSound, HasRow
  <2>6. ScanIsSound'
    BY <1>1, <1>2, <2>2 DEF StorageIsSound, ScanIsSound, Moves, HasRow
  <2> QED
    BY <2>2, <2>3, <2>4, <2>5, <2>6 DEF StorageIsSound
<1>3. CASE /\ upload[u].phase = "commits" /\ ~FoundByHash(c)
           /\ shelf' = Register(i, c, f) /\ wanted' = wanted \cup {c}
  <2>1. /\ i \in BookId /\ c \in Content /\ stored[i] = c /\ ~HasRow(i) /\ i <= ids
        /\ scan.id # i /\ f \in FileName
    BY <1>3 DEF StorageIsSound, UploadIsSound, Uploads
  <2>2. f \in Path /\ f \notin BookId /\ ~Dead(i)
    BY <2>1, PathFacts DEF Dead
  <2>3. \A b \in BookId : b # i => HasRow(b)' = HasRow(b)
    BY <1>3 DEF StorageIsSound, StorageShapes, Register, HasRow
  <2>4. /\ upload' = [v \in Uploader |->
              AnUpload(upload'[v].phase, upload'[v].content, upload'[v].file, upload'[v].id)]
        /\ \A v \in Uploader : UploadIsSound(v)'
        /\ \A b \in BookId : Dead(b) => Dead(b)'
    BY <1>1, <2>3, UploadEnds
  <2>5. /\ shelf' = [b \in BookId |-> ARow(shelf'[b].hash, shelf'[b].file)]
        /\ wanted' \subseteq Content
        /\ FreshIsEmpty' /\ RemovalIsSound' /\ BookHasItsFile' /\ GivenIsStored'
        /\ \A b \in BookId : RowIsSound(b)' /\ (b # i => HasRow(b)' = HasRow(b))
    BY <1>1, <1>3, <2>1, <2>2, <2>4, RegisterKeeps
  <2>6. StorageShapes'
    <3>1. /\ StorageShapes
          /\ stored' = stored /\ scan' = scan /\ removal' = removal /\ ids' = ids
      BY <1>1 DEF StorageIsSound
    <3> QED
      BY <2>4, <2>5, <3>1, Zenon DEF StorageShapes
  <2>7. ScanIsSound'
    BY <1>1, <2>1, <2>4, <2>5 DEF StorageIsSound, ScanIsSound, Moves
  <2> QED
    BY <2>4, <2>5, <2>6, <2>7 DEF StorageIsSound
<1> QED
  BY <1>2, <1>3 DEF UploadCommits, UploadDies

(* Only the discovery moves on.                                                 *)
LEMMA ScanAlone ==
  ASSUME StorageIsSound, UNCHANGED <<shelf, upload, removal, wanted, torn>>,
         stored' = stored, ids' \in Nat, ids <= ids',
         scan' = AScan(scan'.phase, scan'.todo, scan'.path, scan'.content, scan'.id),
         scan'.todo \subseteq Path, ScanIsSound',
         scan'.id = 0 \/ scan'.id = scan.id \/ scan'.id = ids + 1
  PROVE  StorageIsSound'
<1>1. /\ StorageShapes /\ ids \in Nat
  BY DEF StorageIsSound, StorageShapes
<1>2. StorageShapes'
  <2>1. stored' = stored /\ shelf' = shelf /\ upload' = upload /\ removal' = removal /\ wanted' = wanted
    OBVIOUS
  <2> QED
    BY <1>1, <2>1, Zenon DEF StorageShapes
<1>3. FreshIsEmpty'
  <2> SUFFICES ASSUME NEW b \in BookId, b > ids' PROVE stored[b] = Absent /\ ~HasRow(b)
    BY DEF FreshIsEmpty, HasRow
  <2>1. b > ids
    BY <1>1, PathFacts
  <2> QED
    BY <2>1 DEF StorageIsSound, FreshIsEmpty
<1>4. \A b \in BookId : Dead(b) => Dead(b)'
  <2> SUFFICES ASSUME NEW b \in BookId, Dead(b) PROVE Dead(b)'
    OBVIOUS
  <2>1. b \in Nat /\ b # 0 /\ b <= ids /\ b <= ids'
    BY <1>1, PathFacts DEF Dead
  <2>2. scan'.id # b
    BY <1>1, <2>1 DEF Dead
  <2> QED
    BY <2>1, <2>2 DEF Dead, HasRow
<1>5. \A b \in BookId : RowIsSound(b)'
  BY <1>4 DEF StorageIsSound, RowIsSound, HasRow
<1>6. ASSUME NEW u \in Uploader PROVE UploadIsSound(u)'
  <2>1. UploadIsSound(u)
    BY DEF StorageIsSound
  <2>2. Uploads(u) => upload[u].id <= ids' /\ scan'.id # upload[u].id
    <3>1. PICK i : i = upload[u].id
      OBVIOUS
    <3>2. Uploads(u) => i \in Nat /\ i # 0 /\ i <= ids /\ scan.id # i
      BY <2>1, <3>1, PathFacts DEF UploadIsSound
    <3>3. ASSUME i \in Nat, i # 0, i <= ids, scan.id # i PROVE i <= ids' /\ scan'.id # i
      <4>1. i <= ids' /\ i # ids + 1
        BY <1>1, <3>3
      <4> QED
        BY <3>3, <4>1
    <3> QED
      BY <3>1, <3>2, <3>3
  <2> QED
    BY <2>1, <2>2 DEF UploadIsSound, Uploads, HasRow
<1>7. RemovalIsSound' /\ BookHasItsFile' /\ GivenIsStored'
  BY DEF StorageIsSound, RemovalIsSound, Removes, HasRow, BookHasItsFile, GivenIsStored
<1> QED
  BY <1>2, <1>3, <1>5, <1>6, <1>7 DEF StorageIsSound

LEMMA ScanRests ==
  ASSUME StorageIsSound, NEW ph \in {"idle", "next"}, NEW t \in SUBSET Path,
         scan' = AScan(ph, t, Absent, Absent, 0),
         UNCHANGED <<stored, shelf, ids, upload, removal, wanted, torn>>
  PROVE  StorageIsSound'
<1>1. /\ scan'.phase = ph /\ scan'.todo = t /\ scan'.id = 0
      /\ scan' = AScan(scan'.phase, scan'.todo, scan'.path, scan'.content, scan'.id)
  BY DEF AScan
<1>2. ScanIsSound'
  BY <1>1 DEF ScanIsSound, Moves
<1>3. ids \in Nat /\ ids' \in Nat /\ ids <= ids'
  BY DEF StorageIsSound, StorageShapes
<1> QED
  BY <1>1, <1>2, <1>3, ScanAlone

LEMMA PassesRests ==
  ASSUME StorageIsSound, NEW p, Passes(p),
         UNCHANGED <<stored, shelf, ids, upload, removal, wanted, torn>>
  PROVE  StorageIsSound'
<1>1. scan' = AScan("next", scan.todo \ {p}, Absent, Absent, 0)
  BY NoRecords DEF Passes, AScan
<1>2. scan.todo \ {p} \in SUBSET Path
  BY DEF StorageIsSound, StorageShapes
<1> QED
  BY <1>1, <1>2, ScanRests

LEMMA LookingKeeps ==
  ASSUME StorageIsSound,
         \/ ScanLists \/ DiscoveryEnds \/ ScanDies
         \/ \E p \in Path : ScanSkips(p) \/ ScanRaises(p) \/ ScanDownloads(p)
  PROVE  StorageIsSound'
<1>1. CASE ScanLists
  <2>1. scan' = AScan("next", {p \in Path : stored[p] # Absent}, Absent, Absent, 0)
    BY <1>1, NoRecords DEF ScanLists, AScan
  <2> QED
    BY <1>1, <2>1, ScanRests DEF ScanLists
<1>2. CASE \/ DiscoveryEnds \/ ScanDies \/ \E p \in Path : ScanRaises(p)
  <2>1. /\ scan' = AScan("idle", {}, Absent, Absent, 0)
        /\ UNCHANGED <<stored, shelf, ids, upload, removal, wanted, torn>>
    BY <1>2, NoRecords DEF DiscoveryEnds, ScanDies, ScanRaises
  <2> QED
    BY <2>1, ScanRests
<1>3. CASE \E p \in Path : ScanSkips(p)
  BY <1>3, PassesRests DEF ScanSkips
<1>4. ASSUME NEW p \in Path, ScanDownloads(p) PROVE StorageIsSound'
  <2>1. UNCHANGED <<stored, shelf, ids, upload, removal, wanted, torn>>
    BY <1>4 DEF ScanDownloads
  <2>2. CASE stored[p] = Absent
    BY <1>4, <2>1, <2>2, PassesRests DEF ScanDownloads
  <2>3. CASE stored[p] # Absent
    <3>1. /\ scan' = [scan EXCEPT !.phase = "hash", !.path = p, !.content = stored[p]]
          /\ scan.phase = "next"
      BY <1>4, <2>3 DEF ScanDownloads
    <3>2. /\ scan = AScan(scan.phase, scan.todo, scan.path, scan.content, scan.id)
          /\ scan.id = 0 /\ scan.todo \subseteq Path
          /\ stored \in [Path -> Content \cup {Absent}] /\ ids \in Nat
      BY <3>1 DEF StorageIsSound, StorageShapes, ScanIsSound
    <3>3. scan' = AScan("hash", scan.todo, p, stored[p], 0)
      BY <3>1, <3>2 DEF AScan
    <3>4. /\ scan'.phase = "hash" /\ scan'.todo = scan.todo /\ scan'.path = p
          /\ scan'.content = stored[p] /\ scan'.id = 0
          /\ scan' = AScan(scan'.phase, scan'.todo, scan'.path, scan'.content, scan'.id)
      BY <3>3 DEF AScan
    <3>5. p \in BookId => p <= ids
      BY <2>3, <3>2, PathFacts DEF StorageIsSound, FreshIsEmpty
    <3>6. ScanIsSound'
      BY <2>1, <2>3, <3>2, <3>4, <3>5, PathFacts, StorageAssumption DEF ScanIsSound, Moves, Path
    <3> QED
      BY <2>1, <3>2, <3>4, <3>6, ScanAlone
  <2> QED
    BY <2>2, <2>3
<1> QED
  BY <1>1, <1>2, <1>3, <1>4

LEMMA ScanKnowsKeeps ==
  ASSUME StorageIsSound, ScanKnows
  PROVE  StorageIsSound'
<1>1. UNCHANGED <<stored, shelf, upload, removal, wanted, torn>> /\ scan.phase = "hash"
  BY DEF ScanKnows
<1>2. CASE FoundByHash(scan.content)
  BY <1>1, <1>2, PassesRests DEF ScanKnows
<1>3. CASE ~FoundByHash(scan.content)
  <2>1. PICK i \in BookId : Draws(i) /\ scan' = [scan EXCEPT !.phase = NextPhase("hash"), !.id = i]
    BY <1>3 DEF ScanKnows
  <2>2. NextPhase("hash") = "stores"
    BY DEF NextPhase
  <2>3. /\ scan = AScan(scan.phase, scan.todo, scan.path, scan.content, scan.id)
        /\ scan.todo \subseteq Path /\ ids \in Nat /\ scan.content \in Content
        /\ scan.path \in Path /\ (scan.path \in BookId => scan.path <= ids)
    BY <1>1 DEF StorageIsSound, StorageShapes, ScanIsSound
  <2>4. ids' = ids + 1 /\ i = ids + 1
    BY <2>1 DEF Draws
  <2>5. scan' = AScan("stores", scan.todo, scan.path, scan.content, i)
    BY <2>1, <2>2, <2>3 DEF AScan
  <2>6. /\ scan'.phase = "stores" /\ scan'.todo = scan.todo /\ scan'.path = scan.path
        /\ scan'.content = scan.content /\ scan'.id = i
        /\ scan' = AScan(scan'.phase, scan'.todo, scan'.path, scan'.content, scan'.id)
    BY <2>5 DEF AScan
  <2>7. stored[i] = Absent /\ ~HasRow(i)
    BY <2>3, <2>4, PathFacts DEF StorageIsSound, FreshIsEmpty
  <2>8. scan.path # i /\ (scan.path \in BookId => scan.path <= ids')
    <3>1. ~(i <= ids)
      BY <2>3, <2>4
    <3>2. ASSUME scan.path \in BookId PROVE scan.path <= ids'
      <4>1. scan.path \in Nat /\ scan.path <= ids
        BY <2>3, <3>2, PathFacts
      <4> QED
        BY <2>3, <2>4, <4>1
    <3> QED
      BY <2>3, <3>1, <3>2
  <2>9. ScanIsSound'
    BY <1>1, <2>3, <2>4, <2>6, <2>7, <2>8 DEF ScanIsSound, Moves, HasRow
  <2> QED
    BY <1>1, <2>3, <2>4, <2>6, <2>9, ScanAlone
<1> QED
  BY <1>2, <1>3

LEMMA ScanStoresKeeps ==
  ASSUME StorageIsSound, ScanStores
  PROVE  StorageIsSound'
<1>1. UNCHANGED <<shelf, ids, upload, removal, wanted, torn>> /\ scan.phase = "stores"
  BY DEF ScanStores
<1>2. CASE Passes(scan.path) /\ UNCHANGED stored
  BY <1>1, <1>2, PassesRests
<1>3. CASE /\ stored' = [stored EXCEPT ![scan.id] = scan.content]
           /\ scan' = [scan EXCEPT !.phase = NextPhase("stores")]
  <2> DEFINE i == scan.id
             c == scan.content
  <2>1. /\ scan = AScan(scan.phase, scan.todo, scan.path, c, i)
        /\ scan.todo \subseteq Path /\ ids \in Nat /\ c \in Content
        /\ scan.path \in Path /\ scan.path # i /\ (scan.path \in BookId => scan.path <= ids)
        /\ i \in BookId /\ i <= ids /\ ~HasRow(i) /\ stored[i] = Absent
    BY <1>1 DEF StorageIsSound, StorageShapes, ScanIsSound, Moves
  <2>2. NextPhase("stores") = "deletes"
    BY DEF NextPhase
  <2>3. scan' = AScan("deletes", scan.todo, scan.path, c, i)
    BY <1>3, <2>1, <2>2 DEF AScan
  <2>4. /\ scan'.phase = "deletes" /\ scan'.todo = scan.todo /\ scan'.path = scan.path
        /\ scan'.content = c /\ scan'.id = i
        /\ scan' = AScan(scan'.phase, scan'.todo, scan'.path, scan'.content, scan'.id)
    BY <2>3 DEF AScan
  <2>5. /\ stored' \in [Path -> Content \cup {Absent}] /\ stored'[i] = c
        /\ \A p \in Path : p # i => stored'[p] = stored[p]
        /\ GivenIsStored' /\ BookHasItsFile' /\ RemovalIsSound'
    BY <1>1, <1>3, <2>1, CopiesStay
  <2>6. StorageShapes'
    <3>1. /\ StorageShapes
          /\ shelf' = shelf /\ upload' = upload /\ removal' = removal
          /\ ids' = ids /\ wanted' = wanted /\ scan'.todo \subseteq Path
      BY <1>1, <2>1, <2>4 DEF StorageIsSound
    <3>2. /\ stored' \in [Path -> Content \cup {Absent}]
          /\ scan' = AScan(scan'.phase, scan'.todo, scan'.path, scan'.content, scan'.id)
      BY <2>4, <2>5
    <3> QED
      BY <3>1, <3>2, Zenon DEF StorageShapes
  <2>7. FreshIsEmpty'
    <3>1. ASSUME NEW b \in BookId, b > ids PROVE stored'[b] = Absent /\ ~HasRow(b)
      <4>1. b # i
        BY <2>1, <3>1, PathFacts
      <4> QED
        BY <2>5, <3>1, <4>1, PathFacts DEF StorageIsSound, FreshIsEmpty
    <3> QED
      BY <1>1, <3>1 DEF FreshIsEmpty, HasRow
  <2>8. \A b \in BookId : Dead(b) => Dead(b)'
    BY <1>1, <2>4 DEF Dead, HasRow
  <2>9. \A b \in BookId : RowIsSound(b)'
    BY <1>1, <2>1, <2>5, <2>8, PathFacts DEF StorageIsSound, RowIsSound, HasRow
  <2>10. ASSUME NEW u \in Uploader PROVE UploadIsSound(u)'
    <3>1. UploadIsSound(u)
      BY DEF StorageIsSound
    <3>2. upload' = upload /\ ids' = ids /\ shelf' = shelf /\ scan'.id = scan.id
      BY <1>1, <2>4
    <3>3. Uploads(u) => upload[u].id \in Path /\ upload[u].id # i
      BY <3>1, PathFacts DEF UploadIsSound
    <3>4. Uploads(u) => stored'[upload[u].id] = stored[upload[u].id]
      BY <2>5, <3>3
    <3> QED
      BY <3>1, <3>2, <3>4 DEF UploadIsSound, Uploads, HasRow
  <2>11. ScanIsSound'
    BY <1>1, <2>1, <2>4, <2>5 DEF ScanIsSound, Moves, HasRow
  <2> QED
    BY <2>5, <2>6, <2>7, <2>9, <2>10, <2>11 DEF StorageIsSound
<1> QED
  BY <1>2, <1>3 DEF ScanStores

(* What nobody has a claim on is taken away.                                    *)
LEMMA TakingKeeps ==
  ASSUME StorageIsSound, NEW p \in Path, stored' = [stored EXCEPT ![p] = Absent],
         p \in BookId => ~HasRow(p) /\ \A u \in Uploader : upload[u].id # p,
         UNCHANGED <<shelf, ids, upload, wanted, torn>>
  PROVE  /\ stored' \in [Path -> Content \cup {Absent}] /\ stored'[p] = Absent
         /\ \A q \in Path : q # p => stored'[q] = stored[q]
         /\ FreshIsEmpty'
         /\ \A b \in BookId : HasRow(b) => stored'[b] = stored[b]
         /\ \A u \in Uploader : Uploads(u) => stored'[upload[u].id] = stored[upload[u].id]
<1>1. stored \in [Path -> Content \cup {Absent}]
  BY DEF StorageIsSound, StorageShapes
<1>2. /\ stored' \in [Path -> Content \cup {Absent}] /\ stored'[p] = Absent
      /\ \A q \in Path : q # p => stored'[q] = stored[q]
  BY <1>1
<1>3. FreshIsEmpty'
  <2>1. FreshIsEmpty
    BY DEF StorageIsSound
  <2> QED
    BY <1>2, <2>1, PathFacts DEF FreshIsEmpty, HasRow
<1>4. \A b \in BookId : HasRow(b) => stored'[b] = stored[b]
  BY <1>2, PathFacts
<1>5. \A u \in Uploader : Uploads(u) => stored'[upload[u].id] = stored[upload[u].id]
  BY <1>2, PathFacts DEF StorageIsSound, UploadIsSound
<1> QED
  BY <1>2, <1>3, <1>4, <1>5

(* The original goes when its copy is there, and nobody else counts on it.      *)
LEMMA ScanDeletesKeeps ==
  ASSUME StorageIsSound, ScanDeletes,
         ~IsSomebodys(scan.path), stored[scan.path] \notin wanted \ {scan.content}
  PROVE  StorageIsSound'
<1> DEFINE i == scan.id
           c == scan.content
           p == scan.path
<1>1. /\ UNCHANGED <<shelf, ids, upload, removal, wanted, torn>> /\ scan.phase = "deletes"
      /\ scan' = [scan EXCEPT !.phase = NextPhase("deletes")]
      /\ stored' = [stored EXCEPT ![p] = Absent] \/ stored' = stored
  BY DEF ScanDeletes
<1>2. /\ scan = AScan(scan.phase, scan.todo, p, c, i)
      /\ scan.todo \subseteq Path /\ ids \in Nat /\ c \in Content /\ wanted \subseteq Content
      /\ p \in Path /\ p # i /\ (p \in BookId => p <= ids)
      /\ i \in BookId /\ i \in Path /\ i <= ids /\ ~HasRow(i) /\ stored[i] = c
      /\ stored \in [Path -> Content \cup {Absent}]
  BY <1>1, PathFacts DEF StorageIsSound, StorageShapes, ScanIsSound, Moves
<1>3. NextPhase("deletes") = "inserts"
  BY DEF NextPhase
<1>4. scan' = AScan("inserts", scan.todo, p, c, i)
  BY <1>1, <1>2, <1>3 DEF AScan
<1>5. /\ scan'.phase = "inserts" /\ scan'.todo = scan.todo /\ scan'.path = p
      /\ scan'.content = c /\ scan'.id = i
      /\ scan' = AScan(scan'.phase, scan'.todo, scan'.path, scan'.content, scan'.id)
  BY <1>4 DEF AScan
<1>6. p \in BookId => ~HasRow(p) /\ \A u \in Uploader : upload[u].id # p
  <2>1. ASSUME p \in BookId PROVE shelf[p] = NoRow /\ \A u \in Uploader : upload[u].id # p
    BY <2>1 DEF IsSomebodys
  <2> QED
    BY <2>1, NoRecords DEF HasRow, ARow
<1>7. /\ stored' \in [Path -> Content \cup {Absent}]
      /\ \A q \in Path : q # p => stored'[q] = stored[q]
      /\ FreshIsEmpty'
      /\ \A b \in BookId : HasRow(b) => stored'[b] = stored[b]
      /\ \A u \in Uploader : Uploads(u) => stored'[upload[u].id] = stored[upload[u].id]
  <2>1. CASE stored' = [stored EXCEPT ![p] = Absent]
    BY <1>1, <1>2, <1>6, <2>1, TakingKeeps
  <2>2. CASE stored' = stored
    BY <1>1, <1>2, <2>2 DEF StorageIsSound, FreshIsEmpty, HasRow
  <2> QED
    BY <1>1, <2>1, <2>2
<1>8. stored'[i] = c
  BY <1>2, <1>7
<1>9. \A q \in Path : stored[q] \in wanted \ {c} => stored'[q] = stored[q]
  BY <1>7
<1>10. \A b \in BookId : Dead(b) => Dead(b)'
  BY <1>1, <1>5 DEF Dead, HasRow
<1>11. p \in BookId => Dead(p)'
  BY <1>1, <1>2, <1>5, <1>6 DEF Dead, HasRow
<1>12. StorageShapes'
  <2>1. /\ StorageShapes
        /\ shelf' = shelf /\ upload' = upload /\ removal' = removal
        /\ ids' = ids /\ wanted' = wanted /\ scan'.todo \subseteq Path
    BY <1>1, <1>2, <1>5 DEF StorageIsSound
  <2>2. /\ stored' \in [Path -> Content \cup {Absent}]
        /\ scan' = AScan(scan'.phase, scan'.todo, scan'.path, scan'.content, scan'.id)
    BY <1>5, <1>7
  <2> QED
    BY <2>1, <2>2, Zenon DEF StorageShapes
<1>13. \A b \in BookId : RowIsSound(b)'
  BY <1>1, <1>7, <1>10 DEF StorageIsSound, RowIsSound, HasRow
<1>14. \A u \in Uploader : UploadIsSound(u)'
  BY <1>1, <1>5, <1>7 DEF StorageIsSound, UploadIsSound, Uploads, HasRow
<1>15. ScanIsSound'
  <2>1. (p \in BookId => Dead(p)') /\ scan'.path = p
    BY <1>5, <1>11
  <2>2. scan'.path \in BookId => Dead(scan.path)'
    BY <2>1, <1>5 DEF Dead
  <2> QED
    BY <1>1, <1>2, <1>5, <1>8, <2>2 DEF ScanIsSound, Moves, HasRow
<1>16. GivenIsStored'
  <2> SUFFICES ASSUME NEW d \in wanted PROVE \E q \in Path : stored'[q] = d
    BY <1>1 DEF GivenIsStored
  <2>1. CASE d = c
    BY <1>2, <1>8, <2>1
  <2>2. CASE d # c
    <3>1. PICK q \in Path : stored[q] = d
      BY DEF StorageIsSound, GivenIsStored
    <3> QED
      BY <1>9, <2>2, <3>1
  <2> QED
    BY <2>1, <2>2
<1>17. RemovalIsSound'
  <2>1. RemovalIsSound
    BY DEF StorageIsSound
  <2>2. ASSUME removal.phase = "file", stored'[removal.id] \in wanted
        PROVE  \E q \in Path : q # removal.id /\ stored'[q] = stored'[removal.id]
    <3>1. removal.id \in BookId /\ HasRow(removal.id)
      BY <2>1, <2>2 DEF RemovalIsSound, Removes
    <3>2. stored'[removal.id] = stored[removal.id] /\ removal.id # i
      BY <1>2, <1>7, <3>1
    <3>3. CASE stored[removal.id] = c
      BY <1>2, <1>8, <3>2, <3>3
    <3>4. CASE stored[removal.id] # c
      <4>1. PICK q \in Path : q # removal.id /\ stored[q] = stored[removal.id]
        BY <2>1, <2>2, <3>2 DEF RemovalIsSound
      <4> QED
        BY <1>9, <2>2, <3>2, <3>4, <4>1
    <3> QED
      BY <3>3, <3>4
  <2> QED
    BY <1>1, <2>1, <2>2 DEF RemovalIsSound, Removes, HasRow
<1>18. BookHasItsFile'
  <2> SUFFICES ASSUME NEW b \in BookId, shelf[b] # NoRow, removal.id # b, b \notin torn
               PROVE  stored'[b] = shelf[b].hash
    BY <1>1 DEF BookHasItsFile
  <2>1. HasRow(b) /\ stored[b] = shelf[b].hash
    BY DEF StorageIsSound, RowIsSound, BookHasItsFile
  <2> QED
    BY <1>7, <2>1
<1> QED
  BY <1>7, <1>12, <1>13, <1>14, <1>15, <1>16, <1>17, <1>18 DEF StorageIsSound

LEMMA ScanInsertsKeeps ==
  ASSUME StorageIsSound, ScanInserts
  PROVE  StorageIsSound'
<1> DEFINE i == scan.id
           c == scan.content
           p == scan.path
<1>1. /\ UNCHANGED <<stored, ids, upload, removal, torn>> /\ scan.phase = "inserts" /\ Passes(p)
  BY DEF ScanInserts
<1>2. CASE UNCHANGED <<shelf, wanted>>
  BY <1>1, <1>2, PassesRests
<1>3. CASE ~FoundByHash(c) /\ shelf' = Register(i, c, p) /\ wanted' = wanted \cup {c}
  <2>1. scan' = AScan("next", scan.todo \ {p}, Absent, Absent, 0)
    BY <1>1, NoRecords DEF Passes, AScan
  <2>2. /\ scan'.phase = "next" /\ scan'.todo = scan.todo \ {p} /\ scan'.id = 0
        /\ scan' = AScan(scan'.phase, scan'.todo, scan'.path, scan'.content, scan'.id)
    BY <2>1 DEF AScan
  <2>3. /\ i \in BookId /\ c \in Content /\ p \in Path /\ stored[i] = c /\ ~HasRow(i) /\ i <= ids
        /\ (p \in BookId => Dead(p)) /\ scan'.todo \subseteq Path
    BY <1>1, <2>2 DEF StorageIsSound, StorageShapes, ScanIsSound, Moves
  <2>4. ~Dead(i)
    BY DEF Dead
  <2>5. \A b \in BookId : b # i => HasRow(b)' = HasRow(b)
    BY <1>3 DEF StorageIsSound, StorageShapes, Register, HasRow
  <2>6. \A b \in BookId : Dead(b) => Dead(b)'
    BY <1>1, <2>2, <2>5, PathFacts DEF Dead
  <2>7. /\ shelf' = [b \in BookId |-> ARow(shelf'[b].hash, shelf'[b].file)]
        /\ wanted' \subseteq Content
        /\ FreshIsEmpty' /\ RemovalIsSound' /\ BookHasItsFile' /\ GivenIsStored'
        /\ \A b \in BookId : RowIsSound(b)' /\ (b # i => HasRow(b)' = HasRow(b))
    BY <1>1, <1>3, <2>3, <2>4, <2>6, RegisterKeeps
  <2>8. StorageShapes'
    <3>1. /\ StorageShapes
          /\ stored' = stored /\ upload' = upload /\ removal' = removal /\ ids' = ids
          /\ scan'.todo \subseteq Path
          /\ scan' = AScan(scan'.phase, scan'.todo, scan'.path, scan'.content, scan'.id)
      BY <1>1, <2>2, <2>3 DEF StorageIsSound
    <3> QED
      BY <2>7, <3>1, Zenon DEF StorageShapes
  <2>9. ASSUME NEW u \in Uploader PROVE UploadIsSound(u)'
    <3>1. UploadIsSound(u)
      BY DEF StorageIsSound
    <3>2. Uploads(u) => upload[u].id # 0 /\ HasRow(upload[u].id)' = HasRow(upload[u].id)
      <4> SUFFICES ASSUME Uploads(u)
                   PROVE  upload[u].id # 0 /\ HasRow(upload[u].id)' = HasRow(upload[u].id)
        OBVIOUS
      <4>1. PICK b \in BookId : b = upload[u].id
        BY <3>1 DEF UploadIsSound
      <4>2. b # i /\ b # 0 /\ upload'[u].id = b
        BY <1>1, <3>1, <4>1, PathFacts DEF UploadIsSound
      <4> QED
        BY <2>5, <4>1, <4>2 DEF HasRow
    <3> QED
      BY <1>1, <2>2, <3>1, <3>2 DEF UploadIsSound, Uploads
  <2>10. ScanIsSound'
    BY <2>2 DEF ScanIsSound, Moves
  <2> QED
    BY <2>7, <2>8, <2>9, <2>10 DEF StorageIsSound
<1> QED
  BY <1>2, <1>3 DEF ScanInserts

(* A deletion, up to its last step. The file of a book goes first: by then      *)
(* nobody counts on it any more.                                                *)
LEMMA DeleteBeginsKeeps ==
  ASSUME StorageIsSound, NEW b \in BookId, DeleteBegins(b)
  PROVE  StorageIsSound'
<1>1. /\ removal = NoRemoval /\ shelf[b] # NoRow
      /\ removal' = ARemoval("file", b, shelf[b].file) /\ wanted' = wanted \ {shelf[b].hash}
      /\ stored' = stored /\ shelf' = shelf /\ ids' = ids /\ upload' = upload /\ scan' = scan
      /\ torn' = torn
  BY DEF DeleteBegins, ARemoval
<1>2. /\ removal'.phase = "file" /\ removal'.id = b /\ removal'.file = shelf[b].file
      /\ removal' = ARemoval(removal'.phase, removal'.id, removal'.file)
  BY <1>1 DEF ARemoval
<1>3. StorageShapes'
  <2>1. StorageShapes /\ wanted' \subseteq Content
    BY <1>1 DEF StorageIsSound, StorageShapes
  <2> QED
    BY <1>1, <1>2, <2>1, Zenon DEF StorageShapes
<1>4. /\ FreshIsEmpty' /\ ScanIsSound' /\ \A a \in BookId : RowIsSound(a)'
      /\ \A u \in Uploader : UploadIsSound(u)'
  BY <1>1 DEF StorageIsSound, FreshIsEmpty, ScanIsSound, Moves, RowIsSound, UploadIsSound,
              Uploads, HasRow, Dead
<1>5. RemovalIsSound'
  <2>1. HasRow(b) /\ stored[b] \in {Absent, shelf[b].hash} /\ wanted \subseteq Content
    BY <1>1 DEF StorageIsSound, StorageShapes, RowIsSound
  <2>2. stored[b] \notin wanted'
    BY <1>1, <2>1, PathFacts
  <2> QED
    BY <1>1, <1>2, <2>1, <2>2 DEF RemovalIsSound, Removes, HasRow
<1>6. BookHasItsFile' /\ GivenIsStored'
  BY <1>1, <1>2, NoRecords, PathFacts
    DEF StorageIsSound, BookHasItsFile, GivenIsStored, ARemoval
<1> QED
  BY <1>3, <1>4, <1>5, <1>6 DEF StorageIsSound

LEMMA DeletesFileKeeps ==
  ASSUME StorageIsSound, DeletesFile
  PROVE  StorageIsSound'
<1> DEFINE i == removal.id
<1>1. /\ removal.phase = "file"
      /\ shelf' = shelf /\ ids' = ids /\ upload' = upload /\ scan' = scan
      /\ wanted' = wanted /\ torn' = torn
      /\ \/ stored' = [stored EXCEPT ![i] = Absent] /\ removal' = [removal EXCEPT !.phase = "original"]
         \/ stored' = stored /\ removal' = [removal EXCEPT !.phase = "row"]
  BY DEF DeletesFile
<1>2. /\ StorageShapes /\ removal = ARemoval("file", i, removal.file)
      /\ i \in BookId /\ i \in Path /\ HasRow(i) /\ removal.file = shelf[i].file
      /\ stored \in [Path -> Content \cup {Absent}] /\ wanted \subseteq Content
  BY <1>1, PathFacts DEF StorageIsSound, StorageShapes, RemovalIsSound, Removes
<1>3. PICK ph \in {"original", "row"} : removal' = ARemoval(ph, i, removal.file)
  BY <1>1, <1>2 DEF ARemoval
<1>4. /\ removal'.phase = ph /\ removal'.id = i /\ removal'.file = removal.file
      /\ removal' = ARemoval(removal'.phase, removal'.id, removal'.file)
  BY <1>3 DEF ARemoval
<1>5. /\ stored' \in [Path -> Content \cup {Absent}] /\ stored'[i] \in {Absent, stored[i]}
      /\ \A q \in Path : q # i => stored'[q] = stored[q]
  BY <1>1, <1>2
<1>6. StorageShapes'
  BY <1>1, <1>2, <1>4, <1>5, Zenon DEF StorageShapes
<1>7. FreshIsEmpty'
  <2>1. FreshIsEmpty
    BY DEF StorageIsSound
  <2> QED
    BY <1>1, <1>5, <2>1, PathFacts DEF FreshIsEmpty, HasRow
<1>8. \A b \in BookId : RowIsSound(b)'
  <2> SUFFICES ASSUME NEW b \in BookId PROVE RowIsSound(b)'
    OBVIOUS
  <2>1. stored'[b] \in {Absent, stored[b]}
    BY <1>5, PathFacts
  <2> QED
    BY <1>1, <2>1 DEF StorageIsSound, RowIsSound, HasRow, Dead
<1>9. \A u \in Uploader : UploadIsSound(u)'
  <2> SUFFICES ASSUME NEW u \in Uploader PROVE UploadIsSound(u)'
    OBVIOUS
  <2>1. Uploads(u) => stored'[upload[u].id] = stored[upload[u].id]
    BY <1>2, <1>5, PathFacts DEF StorageIsSound, UploadIsSound
  <2> QED
    BY <1>1, <2>1 DEF StorageIsSound, UploadIsSound, Uploads, HasRow
<1>10. ScanIsSound'
  <2>1. Moves => stored'[scan.id] = stored[scan.id]
    BY <1>2, <1>5, PathFacts DEF StorageIsSound, ScanIsSound
  <2> QED
    BY <1>1, <2>1 DEF StorageIsSound, ScanIsSound, Moves, HasRow, Dead
<1>11. RemovalIsSound'
  BY <1>1, <1>2, <1>4 DEF RemovalIsSound, Removes, HasRow
<1>12. GivenIsStored'
  <2> SUFFICES ASSUME NEW d \in wanted PROVE \E q \in Path : stored'[q] = d
    BY <1>1 DEF GivenIsStored
  <2>1. PICK q \in Path : stored[q] = d
    BY DEF StorageIsSound, GivenIsStored
  <2>2. CASE q # i
    BY <1>5, <2>1, <2>2
  <2>3. CASE q = i
    <3>1. PICK r \in Path : r # i /\ stored[r] = stored[i]
      BY <1>1, <2>1, <2>3 DEF StorageIsSound, RemovalIsSound
    <3> QED
      BY <1>5, <2>1, <2>3, <3>1
  <2> QED
    BY <2>2, <2>3
<1>13. BookHasItsFile'
  BY <1>1, <1>4, <1>5, PathFacts DEF StorageIsSound, BookHasItsFile
<1> QED
  BY <1>6, <1>7, <1>8, <1>9, <1>10, <1>11, <1>12, <1>13 DEF StorageIsSound

(* The path a file was discovered under belongs to no book any more.            *)
LEMMA DeletesOriginalKeeps ==
  ASSUME StorageIsSound, DeletesOriginal, stored' # stored => stored[removal.file] \notin wanted
  PROVE  StorageIsSound'
<1> DEFINE i == removal.id
           p == removal.file
<1>1. /\ removal.phase = "original" /\ (stored' = stored \/ stored' = [stored EXCEPT ![p] = Absent])
      /\ removal' = [removal EXCEPT !.phase = "row"]
      /\ shelf' = shelf /\ ids' = ids /\ upload' = upload /\ scan' = scan
      /\ wanted' = wanted /\ torn' = torn
  BY DEF DeletesOriginal
<1>2. /\ StorageShapes /\ removal = ARemoval("original", i, p)
      /\ i \in BookId /\ HasRow(i) /\ p = shelf[i].file
  BY <1>1 DEF StorageIsSound, StorageShapes, RemovalIsSound, Removes
<1>3. p \in Path /\ (p \in BookId => Dead(p))
  BY <1>2 DEF StorageIsSound, RowIsSound
<1>4. removal' = ARemoval("row", i, p)
  BY <1>1, <1>2 DEF ARemoval
<1>5. /\ removal'.phase = "row" /\ removal'.id = i /\ removal'.file = p
      /\ removal' = ARemoval(removal'.phase, removal'.id, removal'.file)
  BY <1>4 DEF ARemoval
<1>6. /\ stored' \in [Path -> Content \cup {Absent}] /\ (stored'[p] = Absent \/ stored' = stored)
      /\ \A q \in Path : q # p => stored'[q] = stored[q]
      /\ FreshIsEmpty'
      /\ \A b \in BookId : HasRow(b) => stored'[b] = stored[b]
      /\ \A u \in Uploader : Uploads(u) => stored'[upload[u].id] = stored[upload[u].id]
  <2>1. CASE stored' = stored
    BY <1>1, <1>2, <2>1 DEF StorageIsSound, StorageShapes, FreshIsEmpty, HasRow
  <2>2. CASE stored' # stored
    BY <1>1, <1>3, <2>2, TakingKeeps DEF Dead
  <2> QED BY <2>1, <2>2
<1>7. StorageShapes'
  BY <1>1, <1>2, <1>5, <1>6, Zenon DEF StorageShapes
<1>8. \A b \in BookId : RowIsSound(b)'
  BY <1>1, <1>6 DEF StorageIsSound, RowIsSound, HasRow, Dead
<1>9. \A u \in Uploader : UploadIsSound(u)'
  BY <1>1, <1>6 DEF StorageIsSound, UploadIsSound, Uploads, HasRow
<1>10. ScanIsSound'
  <2>1. Moves => stored'[scan.id] = stored[scan.id]
    <3>1. Moves => scan.id \in BookId /\ scan.id # p
      BY <1>3 DEF StorageIsSound, ScanIsSound, Dead
    <3> QED
      BY <1>6, <3>1, PathFacts
  <2> QED
    BY <1>1, <2>1 DEF StorageIsSound, ScanIsSound, Moves, HasRow, Dead
<1>11. RemovalIsSound'
  BY <1>1, <1>2, <1>5 DEF RemovalIsSound, Removes, HasRow
<1>12. GivenIsStored'
  BY <1>1, <1>6 DEF StorageIsSound, GivenIsStored
<1>13. BookHasItsFile'
  <2> SUFFICES ASSUME NEW b \in BookId, shelf[b] # NoRow, i # b, b \notin torn
               PROVE  stored'[b] = shelf[b].hash
    BY <1>1, <1>5 DEF BookHasItsFile
  <2>1. HasRow(b) /\ stored[b] = shelf[b].hash
    BY DEF StorageIsSound, RowIsSound, BookHasItsFile
  <2> QED
    BY <1>6, <2>1
<1> QED
  BY <1>6, <1>7, <1>8, <1>9, <1>10, <1>11, <1>12, <1>13 DEF StorageIsSound

LEMMA RemovalEndsKeeps ==
  ASSUME StorageIsSound, DeletesRow \/ DeleteDies
  PROVE  StorageIsSound'
<1> DEFINE i == removal.id
<1>1. /\ removal' = NoRemoval /\ stored' = stored /\ ids' = ids /\ upload' = upload
      /\ scan' = scan /\ wanted' = wanted
  BY DEF DeletesRow, DeleteDies
<1>2. /\ StorageShapes /\ i \in BookId /\ HasRow(i)
  BY NoRecords DEF StorageIsSound, RemovalIsSound, Removes, DeletesRow, DeleteDies
<1>3. /\ shelf' = [b \in BookId |-> ARow(shelf'[b].hash, shelf'[b].file)]
      /\ \A b \in BookId : shelf'[b] = shelf[b] \/ shelf'[b] = NoRow
      /\ \A b \in BookId : b # i => shelf'[b] = shelf[b]
      /\ \/ shelf'[i] = NoRow /\ torn' = torn
         \/ i \in torn' /\ torn \subseteq torn'
  <2>1. CASE DeletesRow
    BY <1>2, <2>1, NoRecords DEF DeletesRow, StorageShapes, ARow
  <2>2. CASE DeleteDies
    BY <1>2, <2>2 DEF DeleteDies, StorageShapes
  <2> QED
    BY <2>1, <2>2
<1>4. NoRow.hash = Absent /\ removal'.phase = "idle" /\ removal'.id = 0
      /\ removal' = ARemoval(removal'.phase, removal'.id, removal'.file)
  BY <1>1, NoRecords DEF ARow, ARemoval
<1>5. StorageShapes'
  BY <1>1, <1>2, <1>3, <1>4, Zenon DEF StorageShapes
<1>6. \A b \in BookId : (~HasRow(b) => ~HasRow(b)') /\ (Dead(b) => Dead(b)')
  BY <1>1, <1>3, <1>4 DEF HasRow, Dead
<1>7. FreshIsEmpty'
  BY <1>1, <1>6 DEF StorageIsSound, FreshIsEmpty
<1>8. \A b \in BookId : RowIsSound(b)'
  <2> SUFFICES ASSUME NEW b \in BookId PROVE RowIsSound(b)'
    OBVIOUS
  <2>1. CASE shelf'[b] = shelf[b]
    BY <1>1, <1>6, <2>1 DEF StorageIsSound, RowIsSound, HasRow
  <2>2. CASE shelf'[b] = NoRow
    BY <1>4, <2>2 DEF RowIsSound, HasRow
  <2> QED
    BY <1>3, <2>1, <2>2
<1>9. \A u \in Uploader : UploadIsSound(u)'
  BY <1>1, <1>6 DEF StorageIsSound, UploadIsSound, Uploads, HasRow
<1>10. ScanIsSound'
  BY <1>1, <1>6 DEF StorageIsSound, ScanIsSound, Moves, HasRow
<1>11. RemovalIsSound'
  BY <1>1, <1>4 DEF RemovalIsSound, Removes
<1>12. BookHasItsFile' /\ GivenIsStored'
  BY <1>1, <1>3, <1>4 DEF StorageIsSound, BookHasItsFile, GivenIsStored
<1> QED
  BY <1>5, <1>7, <1>8, <1>9, <1>10, <1>11, <1>12 DEF StorageIsSound

LEMMA NeitherOfThree == ASSUME NEW a, NEW b, NEW d, NEW e, a = (b \/ d \/ e), ~a PROVE ~b /\ ~d /\ ~e
  BY Zenon

LEMMA StorageInvariant == StorageSpec => []StorageInv
<1>1. StorageInit => StorageInv
  BY StorageInitHolds DEF StorageInv
<1>2. StorageInv /\ [StorageNext]_storageVars => StorageInv'
  <2> SUFFICES ASSUME StorageInv, [StorageNext]_storageVars, ~misled' PROVE StorageIsSound'
    BY DEF StorageInv
  <2>1. CASE ScanDeletes
    <3>1. misled' = (misled \/ IsSomebodys(scan.path) \/ stored[scan.path] \in wanted \ {scan.content})
      BY <2>1 DEF ScanDeletes
    <3>2. /\ ~misled /\ ~IsSomebodys(scan.path)
          /\ ~(stored[scan.path] \in wanted \ {scan.content})
      BY <3>1, NeitherOfThree
    <3> QED
      BY <2>1, <3>2, ScanDeletesKeeps DEF StorageInv
  <2>2. CASE DeletesOriginal
    <3>1. \/ stored' = stored /\ misled' = misled
          \/ misled' = (misled \/ stored[removal.file] \in wanted \/ FALSE)
      BY <2>2 DEF DeletesOriginal
    <3>2. ~misled /\ (stored' # stored => ~(stored[removal.file] \in wanted))
      BY <3>1, NeitherOfThree
    <3> QED
      BY <2>2, <3>2, DeletesOriginalKeeps DEF StorageInv
  <2>3. CASE \/ \E c \in Content, f \in FileName :
                  DropsFile(c, f) \/ \E u \in Uploader : UploadBegins(u, c, f)
             \/ \E u \in Uploader : UploadStores(u) \/ UploadCommits(u) \/ UploadDies(u)
    <3>1. misled' = misled
      BY <2>3 DEF DropsFile, UploadBegins, UploadStores, UploadCommits, UploadDies
    <3> QED
      BY <2>3, <3>1, DropKeeps, UploadBeginsKeeps, UploadStoresKeeps, UploadCommitsKeeps
        DEF StorageInv
  <2>4. CASE \/ ScanLists \/ ScanKnows \/ ScanStores \/ ScanInserts \/ ScanDies \/ DiscoveryEnds
             \/ \E p \in Path : ScanSkips(p) \/ ScanRaises(p) \/ ScanDownloads(p)
    <3>1. misled' = misled
      BY <2>4 DEF ScanLists, ScanKnows, ScanStores, ScanInserts, ScanDies, DiscoveryEnds,
                  ScanSkips, ScanRaises, ScanDownloads
    <3> QED
      BY <2>4, <3>1, LookingKeeps, ScanKnowsKeeps, ScanStoresKeeps, ScanInsertsKeeps DEF StorageInv
  <2>5. CASE (\E b \in BookId : DeleteBegins(b)) \/ DeletesFile \/ DeletesRow \/ DeleteDies
    <3>1. misled' = misled
      BY <2>5 DEF DeleteBegins, DeletesFile, DeletesRow, DeleteDies
    <3> QED
      BY <2>5, <3>1, DeleteBeginsKeeps, DeletesFileKeeps, RemovalEndsKeeps DEF StorageInv
  <2>6. CASE UNCHANGED storageVars
    <3>1. /\ stored' = stored /\ shelf' = shelf /\ ids' = ids /\ upload' = upload
          /\ scan' = scan /\ removal' = removal /\ wanted' = wanted
          /\ torn' = torn /\ misled' = misled
      BY <2>6 DEF storageVars
    <3> QED
      BY <3>1 DEF StorageInv, StorageIsSound, StorageShapes, FreshIsEmpty, RowIsSound,
        UploadIsSound, Uploads, ScanIsSound, Moves, RemovalIsSound, Removes, HasRow, Dead,
        BookHasItsFile, GivenIsStored
  <2> QED
    BY <2>1, <2>2, <2>3, <2>4, <2>5, <2>6 DEF StorageNext
<1> QED
  BY <1>1, <1>2, PTL DEF StorageSpec

(* Theorem: whatever uploads, discovery and deletions do at the same time, and  *)
(* wherever they are cut off, a book on the shelf has its file and every file   *)
(* that was given to the library is in the bucket until its book is deleted,    *)
(* but for the three races (upload_pdf, gcs_discovery_scanner, delete_book).    *)
THEOREM ContentsAreKept == StorageSpec => []ContentIsKept
<1>1. StorageInv => ContentIsKept
  BY DEF StorageInv, StorageIsSound, ContentIsKept
<1> QED
  BY <1>1, StorageInvariant, PTL

-----------------------------------------------------------------------------
(* The threads of the desktop client.                                           *)
TaskShape == [call : OcrCall, on : Nat, running : BOOLEAN, wanted : BOOLEAN]
CallShape == [at : {"outside", "waits", "read", "failed", "late"}, on : Nat, attempt : Nat]
ThreadShapes ==
  /\ width \in [Batch -> Widths] /\ executors \in Seq(Nat) /\ call \in [OcrCall -> CallShape]
  /\ submitted \in Seq(TaskShape) /\ misread \in [OcrCall -> Nat]

(* A call that waits has exactly one task, on the executor it submitted it   *)
(* to, which has as many threads as its batch is wide.                       *)
Ix(s) == 1 .. Len(s)
WantedFits(s, cl) ==
  \A k \in Ix(s) : s[k].wanted => cl[s[k].call].at = "waits" /\ s[k].on = cl[s[k].call].on
WantedOnce(s) ==
  \A k, l \in Ix(s) : s[k].wanted /\ s[l].wanted /\ s[k].call = s[l].call => k = l
EachWanted(s, cl) ==
  \A c \in OcrCall : cl[c].at = "waits" => \E k \in Ix(s) : s[k].wanted /\ s[k].call = c
TasksFit(s, cl) == WantedFits(s, cl) /\ WantedOnce(s) /\ EachWanted(s, cl)

OnItsExecutor(c) ==
  call[c].at = "waits" =>
    call[c].on \in 1 .. Len(executors) /\ executors[call[c].on] = width[BatchOf[c]]

(* Every attempt but the present one was misread.                            *)
AttemptsCounted(c) ==
  /\ call[c].at = "outside" => misread[c] = 0
  /\ call[c].at = "waits" => call[c].attempt \in 1 .. MaxAttempts /\ misread[c] = call[c].attempt - 1
  /\ call[c].at = "failed" => misread[c] = MaxAttempts \/ call[c].on < Len(executors)

SemaphoreHolds(b) == IsFiniteSet(Busy(b)) /\ Cardinality(Busy(b)) <= width[b]

ThreadsInv ==
  /\ ThreadShapes /\ TasksFit(submitted, call)
  /\ (\A c \in OcrCall : OnItsExecutor(c) /\ AttemptsCounted(c)) /\ \A b \in Batch : SemaphoreHolds(b)

(* Sequences of tasks: t is s without its task i, in order, or has the tasks  *)
(* of s but for the fields of i that nobody else looks at.                    *)
LeavesOut(s, i, t) ==
  /\ \A k \in Ix(t) : \E j \in Ix(s) : j # i /\ t[k] = s[j]
  /\ \A k, l \in Ix(t) : k # l =>
       \E j, h \in Ix(s) : j # h /\ j # i /\ h # i /\ t[k] = s[j] /\ t[l] = s[h]
  /\ \A j \in Ix(s) : j # i => \E k \in Ix(t) : t[k] = s[j]

LEMMA RestFits ==
  ASSUME NEW s, NEW i, NEW t, NEW cl, NEW cm, LeavesOut(s, i, t), WantedFits(s, cl),
         \A k \in Ix(s) : k # i /\ s[k].wanted => cm[s[k].call] = cl[s[k].call]
  PROVE  WantedFits(t, cm)
BY DEF LeavesOut, WantedFits
LEMMA RestOnce ==
  ASSUME NEW s, NEW i, NEW t, LeavesOut(s, i, t), WantedOnce(s) PROVE WantedOnce(t)
BY DEF LeavesOut, WantedOnce
WaitsBut(cl, cm, x) ==
  \A c \in OcrCall : cm[c].at = "waits" => cl[c].at = "waits" /\ ~(x.wanted /\ x.call = c)
LEMMA RestWanted ==
  ASSUME NEW s, NEW i, NEW t, NEW cl, NEW cm, LeavesOut(s, i, t), EachWanted(s, cl), WaitsBut(cl, cm, s[i])
  PROVE  EachWanted(t, cm)
<1> SUFFICES ASSUME NEW c \in OcrCall, cm[c].at = "waits" PROVE \E k \in Ix(t) : t[k].wanted /\ t[k].call = c
  BY DEF EachWanted
<1>0. cl[c].at = "waits" /\ ~(s[i].wanted /\ s[i].call = c) BY DEF WaitsBut
<1>1. PICK j \in Ix(s) : s[j].wanted /\ s[j].call = c BY <1>0 DEF EachWanted
<1>2. j # i BY <1>0, <1>1
<1> QED BY <1>1, <1>2 DEF LeavesOut

LEMMA Piece ==
  ASSUME NEW S, NEW s, NEW m \in Int, NEW n \in Int, \A k \in m .. n : s[k] \in S,
         NEW t, t = SubSeq(s, m, n), NEW l \in Nat, l = n - m + 1
  PROVE  t \in Seq(S) /\ Len(t) = l /\ \A k \in 1 .. l : t[k] = s[m + k - 1]
<1>1. /\ SubSeq(s, m, n) \in Seq(S)
      /\ Len(SubSeq(s, m, n)) = IF m <= n THEN n - m + 1 ELSE 0
      /\ \A k \in 1 .. n - m + 1 : SubSeq(s, m, n)[k] = s[m + k - 1]
  BY SubSeqProperties
<1> QED BY <1>1

LEMMA TaskRemoved ==
  ASSUME NEW S, NEW s, s \in Seq(S), NEW i \in Ix(s),
         NEW t, t = SubSeq(s, 1, i - 1) \o SubSeq(s, i + 1, Len(s))
  PROVE  t \in Seq(S) /\ LeavesOut(s, i, t)
<1>1. PICK a, b, n, m : /\ a = SubSeq(s, 1, i - 1) /\ b = SubSeq(s, i + 1, n) /\ n = Len(s)
                        /\ m = i - 1
  OBVIOUS
<1>2. n \in Nat /\ i \in Int /\ 1 <= i /\ i <= n /\ \A k \in 1 .. n : s[k] \in S BY <1>1 DEF Ix
<1>3. m \in Nat /\ a \in Seq(S) /\ Len(a) = m /\ \A k \in 1 .. m : a[k] = s[k]
  <2>1. \A k \in 1 .. m : s[k] \in S BY <1>1, <1>2
  <2>2. m \in Nat /\ m \in Int /\ m = m - 1 + 1 /\ a = SubSeq(s, 1, m) BY <1>1, <1>2
  <2>3. a \in Seq(S) /\ Len(a) = m /\ \A k \in 1 .. m : a[k] = s[1 + k - 1]
    BY <2>1, <2>2, Piece
  <2> QED BY <2>2, <2>3
<1>4. n - i \in Nat /\ b \in Seq(S) /\ Len(b) = n - i /\ \A k \in 1 .. n - i : b[k] = s[i + k]
  <2>2. PICK h, l : h = i + 1 /\ l = n - i OBVIOUS
  <2>1. \A k \in h .. n : s[k] \in S BY <2>2, <1>2
  <2>3. h \in Int /\ n \in Int /\ l \in Nat /\ l = n - h + 1 /\ b = SubSeq(s, h, n) BY <2>2, <1>1, <1>2
  <2>4. b \in Seq(S) /\ Len(b) = l /\ \A k \in 1 .. l : b[k] = s[h + k - 1]
    BY ONLY <2>1, <2>3, Piece
  <2>5. \A k \in 1 .. l : h + k - 1 = i + k BY <2>2, <2>3, <1>2
  <2> QED BY <2>2, <2>3, <2>4, <2>5
<1>5. t = a \o b BY <1>1
<1>6. /\ t \in Seq(S) /\ Len(t) = n - 1
      /\ \A k \in 1 .. n - 1 : t[k] = IF k <= m THEN a[k] ELSE b[k - m]
  <2>1. PICK l : l = n - i OBVIOUS
  <2>2. /\ t \in Seq(S) /\ Len(t) = m + l
        /\ \A k \in 1 .. m + l : t[k] = IF k <= m THEN a[k] ELSE b[k - m]
    <3>1. l \in Nat /\ Len(b) = l /\ b \in Seq(S) BY <1>4, <2>1
    <3>2. m \in Nat /\ Len(a) = m /\ a \in Seq(S) BY <1>3
    <3>3. /\ a \o b \in Seq(S) /\ Len(a \o b) = Len(a) + Len(b)
          /\ \A k \in 1 .. Len(a) + Len(b) : (a \o b)[k] = IF k <= Len(a) THEN a[k] ELSE b[k - Len(a)]
      BY <3>1, <3>2, ConcatProperties
    <3> QED BY <3>1, <3>2, <3>3, <1>5
  <2>3. m + l = n - 1 BY <2>1, <1>1, <1>2
  <2> QED BY <2>2, <2>3
<1>s. \A k \in 1 .. n - 1 : (k <= m => t[k] = a[k]) /\ (~(k <= m) => t[k] = b[k - m]) BY <1>6
<1>7. Ix(t) = 1 .. n - 1 /\ Ix(s) = 1 .. n BY <1>1, <1>6 DEF Ix
<1> DEFINE old(k) == IF k < i THEN k ELSE k + 1
<1>8. ASSUME NEW k \in Ix(t) PROVE old(k) \in Ix(s) /\ old(k) # i /\ t[k] = s[old(k)]
  <2>0. k \in 1 .. n - 1 BY <1>7
  <2>1. CASE k < i
    <3>1. k \in 1 .. m /\ k <= m /\ k \in 1 .. n BY <2>0, <2>1, <1>1, <1>2
    <3>2. t[k] = a[k] BY <3>1, <2>0, <1>s
    <3>3. a[k] = s[k] BY <3>1, <1>3
    <3>4. k # i BY <2>0, <2>1, <1>2
    <3> QED BY <3>1, <3>2, <3>3, <3>4, <2>1, <1>7
  <2>2. CASE ~(k < i)
    <3>1. k - m \in 1 .. n - i /\ i + (k - m) = k + 1 /\ k + 1 \in 1 .. n /\ k + 1 # i /\ ~(k <= m)
      BY <2>0, <2>2, <1>1, <1>2
    <3>2. t[k] = b[k - m] BY <3>1, <2>0, <1>s
    <3>3. b[k - m] = s[k + 1] BY <3>1, <1>4
    <3> QED BY <3>1, <3>2, <3>3, <2>2, <1>7
  <2> QED BY <2>1, <2>2
<1>9. ASSUME NEW k \in Ix(t), NEW l \in Ix(t), k # l PROVE old(k) # old(l) BY <1>2, <1>7, <1>9
<1>10. ASSUME NEW j \in Ix(s), j # i PROVE \E k \in Ix(t) : old(k) = j
  <2>1. CASE j < i
    <3>1. j \in Ix(t) /\ old(j) = j BY <2>1, <1>2, <1>7
    <3> QED BY <3>1
  <2>2. CASE j > i
    <3>1. j - 1 \in Ix(t) /\ old(j - 1) = j BY <2>2, <1>2, <1>7
    <3> QED BY <3>1
  <2> QED BY <1>10, <2>1, <2>2, <1>2, <1>7
<1> HIDE DEF old
<1>11. \A k \in Ix(t) : \E j \in Ix(s) : j # i /\ t[k] = s[j] BY <1>8
<1>12. ASSUME NEW k \in Ix(t), NEW l \in Ix(t), k # l
       PROVE  \E j, h \in Ix(s) : j # h /\ j # i /\ h # i /\ t[k] = s[j] /\ t[l] = s[h]
  BY <1>8, <1>9, <1>12
<1>13. \A j \in Ix(s) : j # i => \E k \in Ix(t) : t[k] = s[j] BY <1>8, <1>10
<1> QED BY <1>6, <1>11, <1>12, <1>13 DEF LeavesOut

(* A wanted task n is added for a call that had none.                        *)
Grown(s, n, t) == Ix(t) = Ix(s) \cup {n} /\ t[n].wanted /\ \A k \in Ix(s) : t[k] = s[k]
CallsKept(s, cl, cm) == \A k \in Ix(s) : s[k].wanted => cm[s[k].call] = cl[s[k].call]
LEMMA AddedFits ==
  ASSUME NEW s, NEW n, NEW t, NEW cl, NEW cm, Grown(s, n, t), WantedFits(s, cl),
         cm[t[n].call].at = "waits", t[n].on = cm[t[n].call].on, CallsKept(s, cl, cm)
  PROVE  WantedFits(t, cm)
<1> SUFFICES ASSUME NEW k \in Ix(t), t[k].wanted
             PROVE  cm[t[k].call].at = "waits" /\ t[k].on = cm[t[k].call].on
  BY DEF WantedFits
<1>1. CASE k = n BY <1>1
<1>2. CASE k # n
  <2>1. k \in Ix(s) /\ t[k] = s[k] BY <1>2 DEF Grown
  <2> QED BY <2>1 DEF WantedFits, CallsKept
<1> QED BY <1>1, <1>2
LEMMA AddedOnce ==
  ASSUME NEW s, NEW n, NEW t, Grown(s, n, t), WantedOnce(s),
         \A k \in Ix(s) : s[k].wanted => s[k].call # t[n].call
  PROVE  WantedOnce(t)
BY DEF Grown, WantedOnce
WaitsToo(cl, cm, x) == \A c \in OcrCall : cm[c].at = "waits" => cl[c].at = "waits" \/ c = x.call
LEMMA AddedWanted ==
  ASSUME NEW s, NEW n, NEW t, NEW cl, NEW cm, Grown(s, n, t), EachWanted(s, cl), WaitsToo(cl, cm, t[n])
  PROVE  EachWanted(t, cm)
BY DEF Grown, EachWanted, WaitsToo

(* The task of a call is taken away, as the call stops waiting for it.       *)
LEMMA CallStopsWaiting ==
  ASSUME NEW s, NEW cl, s \in Seq(TaskShape), TasksFit(s, cl), cl \in [OcrCall -> CallShape],
         NEW i \in Ix(s), s[i].wanted, NEW r \in CallShape, r.at # "waits",
         NEW t, \/ t = SubSeq(s, 1, i - 1) \o SubSeq(s, i + 1, Len(s))
                \/ t = [s EXCEPT ![i].wanted = FALSE],
         NEW cm, cm = [cl EXCEPT ![s[i].call] = r]
  PROVE  t \in Seq(TaskShape) /\ TasksFit(t, cm)
<1>1. PICK c : c = s[i].call OBVIOUS
<1>2. \A k \in Ix(s) : s[k] \in TaskShape BY DEF Ix
<1>3. c \in OcrCall /\ cm[c] = r /\ \A d \in OcrCall \ {c} : cm[d] = cl[d] BY <1>1, <1>2 DEF TaskShape
<1>f. WantedFits(s, cl) /\ WantedOnce(s) /\ EachWanted(s, cl) BY DEF TasksFit
<1>4. ASSUME NEW k \in Ix(s), k # i, s[k].wanted PROVE cm[s[k].call] = cl[s[k].call]
  <2>1. s[k].call # c BY <1>1, <1>4, <1>f DEF WantedOnce
  <2>2. s[k].call \in OcrCall BY <1>2 DEF TaskShape
  <2> QED BY <2>1, <2>2, <1>3
<1>w. \A d \in OcrCall : cm[d].at = "waits" => cl[d].at = "waits" /\ d # c BY <1>3
<1>v. WaitsBut(cl, cm, s[i]) BY <1>w, <1>1 DEF WaitsBut
<1>5. CASE t = SubSeq(s, 1, i - 1) \o SubSeq(s, i + 1, Len(s))
  <2>1. t \in Seq(TaskShape) /\ LeavesOut(s, i, t) BY <1>5, TaskRemoved
  <2>2. WantedFits(t, cm)
    <3>1. \A k \in Ix(s) : k # i /\ s[k].wanted => cm[s[k].call] = cl[s[k].call] BY <1>4
    <3> QED BY ONLY <2>1, <3>1, <1>f, RestFits
  <2>3. WantedOnce(t) BY <2>1, <1>f, RestOnce
  <2>4. EachWanted(t, cm)
    <3>1. LeavesOut(s, i, t) BY <2>1
    <3>2. EachWanted(s, cl) BY <1>f
    <3> QED BY <3>1, <3>2, <1>v, RestWanted
  <2> QED BY <2>1, <2>2, <2>3, <2>4 DEF TasksFit
<1>6. CASE t = [s EXCEPT ![i].wanted = FALSE]
  <2>1. PICK u : u = [s[i] EXCEPT !.wanted = FALSE] OBVIOUS
  <2>2. u \in TaskShape /\ ~u.wanted BY <2>1, <1>2 DEF TaskShape
  <2>3. t = [s EXCEPT ![i] = u] BY <2>1, <1>6
  <2>4. t \in Seq(TaskShape) /\ Ix(t) = Ix(s) /\ \A k \in Ix(s) : t[k] = IF k = i THEN u ELSE s[k]
    BY <2>2, <2>3, ExceptSeq DEF Ix
  <2>5. \A k \in Ix(t) : t[k].wanted => k \in Ix(s) /\ k # i /\ t[k] = s[k] BY <2>2, <2>4
  <2>6. WantedFits(t, cm) BY <2>5, <1>4, <1>f DEF WantedFits
  <2>7. WantedOnce(t) BY <2>5, <1>f DEF WantedOnce
  <2>8. EachWanted(t, cm)
    <3> SUFFICES ASSUME NEW d \in OcrCall, cm[d].at = "waits" PROVE \E k \in Ix(t) : t[k].wanted /\ t[k].call = d
      BY DEF EachWanted
    <3>1. PICK j \in Ix(s) : s[j].wanted /\ s[j].call = d BY <1>f, <1>w DEF EachWanted
    <3>2. j # i BY <3>1, <1>1, <1>w
    <3> QED BY <3>1, <3>2, <2>4
  <2> QED BY <2>4, <2>6, <2>7, <2>8 DEF TasksFit
<1> QED BY <1>5, <1>6

(* What nobody wants may go, and whether a thread has a task says nothing.   *)
LEMMA UnwantedGoes ==
  ASSUME NEW s, NEW cl, s \in Seq(TaskShape), TasksFit(s, cl), NEW i \in Ix(s), ~s[i].wanted,
         NEW t, t = SubSeq(s, 1, i - 1) \o SubSeq(s, i + 1, Len(s))
  PROVE  t \in Seq(TaskShape) /\ TasksFit(t, cl)
<1>1. t \in Seq(TaskShape) /\ LeavesOut(s, i, t) BY TaskRemoved
<1>2. WantedFits(s, cl) /\ WantedOnce(s) /\ EachWanted(s, cl) BY DEF TasksFit
<1>3. WantedFits(t, cl) BY <1>1, <1>2, RestFits
<1>4. WantedOnce(t) BY <1>1, <1>2, RestOnce
<1>w. WaitsBut(cl, cl, s[i]) BY DEF WaitsBut
<1>5. EachWanted(t, cl) BY <1>1, <1>2, <1>w, RestWanted
<1> QED BY <1>1, <1>3, <1>4, <1>5 DEF TasksFit

LEMMA ThreadHasTask ==
  ASSUME NEW s, NEW cl, s \in Seq(TaskShape), TasksFit(s, cl), NEW i \in Ix(s),
         NEW t, t = [s EXCEPT ![i].running = TRUE]
  PROVE  t \in Seq(TaskShape) /\ TasksFit(t, cl)
<1>1. PICK u : u = [s[i] EXCEPT !.running = TRUE] OBVIOUS
<1>2. s[i] \in TaskShape BY DEF Ix
<1>3. u \in TaskShape /\ (u.wanted <=> s[i].wanted) /\ u.call = s[i].call /\ u.on = s[i].on
  BY <1>1, <1>2 DEF TaskShape
<1>4. t = [s EXCEPT ![i] = u] BY <1>1
<1>5. t \in Seq(TaskShape) /\ Ix(t) = Ix(s) /\ \A k \in Ix(s) : t[k] = IF k = i THEN u ELSE s[k]
  <2>1. u \in TaskShape /\ i \in 1 .. Len(s) BY <1>3 DEF Ix
  <2>2. /\ [s EXCEPT ![i] = u] \in Seq(TaskShape) /\ Len([s EXCEPT ![i] = u]) = Len(s)
        /\ \A k \in 1 .. Len(s) : [s EXCEPT ![i] = u][k] = IF k = i THEN u ELSE s[k]
    BY <2>1, ExceptSeq
  <2> QED BY <2>2, <1>4 DEF Ix
<1>6. \A k \in Ix(s) : (t[k].wanted <=> s[k].wanted) /\ t[k].call = s[k].call /\ t[k].on = s[k].on
  BY <1>3, <1>5
<1>7. Ix(t) = Ix(s) BY <1>5
<1>8. WantedFits(t, cl) BY <1>6, <1>7 DEF WantedFits, TasksFit
<1>9. WantedOnce(t) BY <1>6, <1>7 DEF WantedOnce, TasksFit
<1>10. EachWanted(t, cl) BY <1>6, <1>7 DEF EachWanted, TasksFit
<1> QED BY <1>5, <1>8, <1>9, <1>10 DEF TasksFit

(* A call that did not wait submits a task.                                  *)
LEMMA CallSubmits ==
  ASSUME NEW s, NEW cl, s \in Seq(TaskShape), TasksFit(s, cl), cl \in [OcrCall -> CallShape],
         NEW c \in OcrCall, cl[c].at # "waits", NEW r \in CallShape, r.at = "waits", NEW e \in Nat, r.on = e,
         NEW t, t = Append(s, Task(c, e)), NEW cm, cm = [cl EXCEPT ![c] = r]
  PROVE  t \in Seq(TaskShape) /\ TasksFit(t, cm)
<1>1. PICK u, n : u = Task(c, e) /\ n = Len(s) + 1 OBVIOUS
<1>2. \A k \in Ix(s) : s[k] \in TaskShape BY DEF Ix
<1>3. u \in TaskShape /\ u.wanted /\ u.call = c /\ u.on = e BY <1>1 DEF Task, TaskShape
<1>4. t = Append(s, u) BY <1>1
<1>5. /\ t \in Seq(TaskShape) /\ n \notin Ix(s) /\ Ix(t) = Ix(s) \cup {n} /\ t[n] = u
      /\ \A k \in Ix(s) : t[k] = s[k]
  BY <1>1, <1>3, <1>4, AppendProperties DEF Ix
<1>6. Ix(t) = Ix(s) \cup {n} /\ t[n] = u /\ \A k \in Ix(s) : t[k] = s[k] BY <1>5
<1>7. cm[c] = r /\ \A d \in OcrCall \ {c} : cm[d] = cl[d] OBVIOUS
<1>f. WantedFits(s, cl) /\ WantedOnce(s) /\ EachWanted(s, cl) BY DEF TasksFit
<1>8. ASSUME NEW k \in Ix(s), s[k].wanted PROVE s[k].call # c /\ cm[s[k].call] = cl[s[k].call]
  <2>1. s[k].call # c BY <1>8, <1>f DEF WantedFits
  <2>2. s[k].call \in OcrCall BY <1>2 DEF TaskShape
  <2> QED BY <2>1, <2>2, <1>7
<1>e. WantedFits(s, cl) BY <1>f
<1>o. WantedOnce(s) BY <1>f
<1>a. EachWanted(s, cl) BY <1>f
<1>n. Grown(s, n, t) BY <1>3, <1>6 DEF Grown
<1>g. t[n].call = c /\ t[n].on = e BY <1>3, <1>6
<1>9. WantedFits(t, cm)
  <2>1. cm[t[n].call].at = "waits" /\ t[n].on = cm[t[n].call].on BY <1>g, <1>7
  <2>2. CallsKept(s, cl, cm) BY <1>8 DEF CallsKept
  <2> QED BY ONLY <2>1, <2>2, <1>n, <1>e, AddedFits
<1>10. WantedOnce(t)
  <2>1. \A k \in Ix(s) : s[k].wanted => s[k].call # t[n].call BY <1>g, <1>8
  <2> QED BY <2>1, <1>n, <1>o, AddedOnce
<1>11. EachWanted(t, cm)
  <2>1. WaitsToo(cl, cm, t[n]) BY <1>g, <1>7 DEF WaitsToo
  <2> QED BY <2>1, <1>n, <1>a, AddedWanted
<1> QED BY <1>5, <1>9, <1>10, <1>11 DEF TasksFit

LEMMA BusyShrinks ==
  ASSUME NEW b, SemaphoreHolds(b), width[b] \in Nat, UNCHANGED width,
         \A c \in OcrCall : call'[c].at = "waits" => call[c].at = "waits"
  PROVE  SemaphoreHolds(b)'
<1>1. PICK B, C : B = Busy(b) /\ C = Busy(b)' OBVIOUS
<1>2. IsFiniteSet(B) /\ Cardinality(B) <= width[b] BY <1>1 DEF SemaphoreHolds
<1>3. C \in SUBSET B BY <1>1 DEF Busy
<1>4. IsFiniteSet(C) /\ Cardinality(C) <= Cardinality(B) /\ Cardinality(B) \in Nat /\ Cardinality(C) \in Nat
  BY <1>2, <1>3, FS_Subset, FS_CardinalityType
<1>5. Cardinality(C) <= width'[b] BY <1>2, <1>4
<1> QED BY <1>1, <1>4, <1>5 DEF SemaphoreHolds

LEMMA BusyGrows ==
  ASSUME NEW b, SemaphoreHolds(b), width[b] \in Nat, UNCHANGED width,
         NEW d \in OcrCall, BatchOf[d] = b => Cardinality(Busy(b)) < width[b],
         \A c \in OcrCall \ {d} : call'[c].at = "waits" => call[c].at = "waits"
  PROVE  SemaphoreHolds(b)'
<1>1. PICK B, C, w : B = Busy(b) /\ C = Busy(b)' /\ w = width[b] OBVIOUS
<1>2. IsFiniteSet(B) /\ Cardinality(B) <= w BY <1>1 DEF SemaphoreHolds
<1>3. Cardinality(B) \in Nat /\ IsFiniteSet(B \cup {d}) /\ Cardinality(B \cup {d}) <= Cardinality(B) + 1
  <2>1. Cardinality(B) \in Nat BY <1>2, FS_CardinalityType
  <2>2. /\ IsFiniteSet(B \cup {d})
        /\ Cardinality(B \cup {d}) = IF d \in B THEN Cardinality(B) ELSE Cardinality(B) + 1
    BY <1>2, FS_AddElement
  <2> QED BY <2>1, <2>2
<1>4. CASE BatchOf[d] = b
  <2>1. C \in SUBSET (B \cup {d}) BY <1>1 DEF Busy
  <2>2. IsFiniteSet(C) /\ Cardinality(C) <= Cardinality(B \cup {d}) BY <2>1, <1>3, FS_Subset
  <2>3. Cardinality(B) < w BY <1>1, <1>4
  <2>4. Cardinality(C) \in Nat /\ Cardinality(B \cup {d}) \in Nat BY <2>2, <1>3, FS_CardinalityType
  <2>5. Cardinality(C) <= w BY <2>2, <2>3, <2>4, <1>1, <1>3
  <2> QED BY <2>2, <2>5, <1>1 DEF SemaphoreHolds
<1>5. CASE BatchOf[d] # b
  <2>1. C \in SUBSET B BY <1>1, <1>5 DEF Busy
  <2>2. IsFiniteSet(C) /\ Cardinality(C) <= Cardinality(B) /\ Cardinality(C) \in Nat
    BY <2>1, <1>2, FS_Subset, FS_CardinalityType
  <2>3. Cardinality(C) <= w BY <2>2, <1>1, <1>2, <1>3
  <2> QED BY <2>2, <2>3, <1>1 DEF SemaphoreHolds
<1> QED BY <1>4, <1>5

LEMMA ThreadsStart == ThreadsInit => ThreadsInv
<1> SUFFICES ASSUME ThreadsInit PROVE ThreadsInv OBVIOUS
<1>1. Outside \in CallShape BY DEF Outside, CallShape
<1>2. \A c \in OcrCall : call[c] = Outside /\ misread[c] = 0 BY DEF ThreadsInit
<1>3. ThreadShapes BY <1>1 DEF ThreadsInit, ThreadShapes
<1>4. TasksFit(submitted, call)
  <2>1. submitted = <<>> /\ Ix(submitted) = {} BY DEF ThreadsInit, Ix
  <2> QED BY <2>1, <1>2 DEF TasksFit, WantedFits, WantedOnce, EachWanted, Outside
<1>5. \A c \in OcrCall : OnItsExecutor(c) /\ AttemptsCounted(c) BY <1>2 DEF OnItsExecutor, AttemptsCounted, Outside
<1>6. ASSUME NEW b \in Batch PROVE SemaphoreHolds(b)
  <2>1. Busy(b) = {} BY <1>2 DEF Busy, Outside
  <2>2. width[b] \in Nat BY ThreadsAssumption DEF ThreadsInit
  <2> QED BY <2>1, <2>2, FS_EmptySet DEF SemaphoreHolds
<1> QED BY <1>3, <1>4, <1>5, <1>6 DEF ThreadsInv

(* One call moves on, in one of its ways, with its tasks.                    *)
LEMMA OneCallMoves ==
  ASSUME ThreadsInv, NEW c \in OcrCall, NEW r \in CallShape, call' = [call EXCEPT ![c] = r],
         UNCHANGED <<width, executors>>, misread' \in [OcrCall -> Nat],
         \A d \in OcrCall \ {c} : misread'[d] = misread[d],
         submitted' \in Seq(TaskShape), TasksFit(submitted', call'),
         call[c].at = "waits", r.at # "outside",
         r.at = "waits" => /\ r.on = call[c].on /\ r.attempt \in 1 .. MaxAttempts
                           /\ misread'[c] = r.attempt - 1,
         r.at = "failed" => misread'[c] = MaxAttempts \/ r.on < Len(executors)
  PROVE  ThreadsInv'
<1>1. ThreadShapes /\ (\A d \in OcrCall : OnItsExecutor(d) /\ AttemptsCounted(d)) /\ \A b \in Batch : SemaphoreHolds(b)
  BY DEF ThreadsInv
<1>2. call' \in [OcrCall -> CallShape] /\ call'[c] = r /\ \A d \in OcrCall \ {c} : call'[d] = call[d]
  BY <1>1 DEF ThreadShapes
<1>3. ThreadShapes' BY <1>1, <1>2 DEF ThreadShapes
<1>4. ASSUME NEW d \in OcrCall PROVE OnItsExecutor(d)'
  <2>1. call'[d].at = "waits" => call[d].at = "waits" /\ call'[d].on = call[d].on BY <1>2
  <2> QED BY <2>1, <1>1 DEF OnItsExecutor
<1>5. ASSUME NEW d \in OcrCall PROVE AttemptsCounted(d)'
  <2>1. CASE d = c BY <2>1, <1>2 DEF AttemptsCounted
  <2>2. CASE d # c
    <3>1. call'[d] = call[d] /\ misread'[d] = misread[d] /\ AttemptsCounted(d) BY <2>2, <1>1, <1>2
    <3> QED BY <3>1 DEF AttemptsCounted
  <2> QED BY <2>1, <2>2
<1>6. ASSUME NEW b \in Batch PROVE SemaphoreHolds(b)'
  <2>1. \A d \in OcrCall : call'[d].at = "waits" => call[d].at = "waits" BY <1>2
  <2>2. width[b] \in Nat BY <1>1, ThreadsAssumption DEF ThreadShapes
  <2> QED BY <2>1, <2>2, <1>1, BusyShrinks
<1> QED BY <1>3, <1>4, <1>5, <1>6 DEF ThreadsInv

LEMMA CallsBegin ==
  ASSUME ThreadsInv, NEW c \in OcrCall, CallBegins(c) PROVE ThreadsInv'
<1> DEFINE w == width[BatchOf[c]]
<1>1. /\ ThreadShapes /\ TasksFit(submitted, call)
      /\ (\A d \in OcrCall : OnItsExecutor(d) /\ AttemptsCounted(d)) /\ \A b \in Batch : SemaphoreHolds(b)
  BY DEF ThreadsInv
<1>2. w \in Nat /\ BatchOf[c] \in Batch BY <1>1, ThreadsAssumption DEF ThreadShapes
<1>3. call[c].at = "outside" /\ Cardinality(Busy(BatchOf[c])) < w /\ UNCHANGED <<width, misread>>
  BY DEF CallBegins, Admitted
<1>4. /\ executors' \in Seq(Nat) /\ Len(executors') \in Nat \ {0} /\ Len(executors) <= Len(executors')
      /\ Len(executors) \in Nat /\ executors'[Len(executors')] = w
      /\ \A e \in 1 .. Len(executors) : executors'[e] = executors[e]
  <2>1. PICK x, v : x = executors /\ v = w OBVIOUS
  <2>2. x \in Seq(Nat) /\ Len(x) \in Nat /\ v \in Nat BY <2>1, <1>1, <1>2 DEF ThreadShapes
  <2>3. CASE x = <<>>
    <3>1. executors' = <<v>> BY <2>1, <2>3 DEF CallBegins, ExecutorFor
    <3> QED BY <3>1, <2>1, <2>2, <2>3
  <2>4. CASE x # <<>> /\ x[Len(x)] = v
    <3>1. executors' = x BY <2>1, <2>4 DEF CallBegins, ExecutorFor, Current
    <3>2. Len(x) # 0 BY <2>2, <2>4
    <3> QED BY <3>1, <3>2, <2>1, <2>2, <2>4
  <2>5. CASE x # <<>> /\ x[Len(x)] # v
    <3>1. executors' = Append(x, v) BY <2>1, <2>5 DEF CallBegins, ExecutorFor, Current
    <3>2. /\ Append(x, v) \in Seq(Nat) /\ Len(Append(x, v)) = Len(x) + 1
          /\ (\A k \in 1 .. Len(x) : Append(x, v)[k] = x[k]) /\ Append(x, v)[Len(x) + 1] = v
      BY <2>2, AppendProperties
    <3> QED BY <3>1, <3>2, <2>1, <2>2
  <2> QED BY <2>3, <2>4, <2>5
<1>5. PICK n : n = Len(executors') OBVIOUS
<1>6. PICK r : /\ r \in CallShape /\ call' = [call EXCEPT ![c] = r] /\ r.at \in {"waits", "read"}
               /\ r.at = "waits" => r.on = n /\ r.attempt = 1 /\ submitted' = Append(submitted, Task(c, n))
               /\ r.at = "read" => UNCHANGED submitted
  <2>1. call[c] \in CallShape /\ n \in Nat BY <1>1, <1>4, <1>5 DEF ThreadShapes
  <2>2. CASE call' = [call EXCEPT ![c] = [at |-> "waits", on |-> n, attempt |-> 1]]
             /\ submitted' = Append(submitted, Task(c, n))
    <3>1. PICK r : r = [at |-> "waits", on |-> n, attempt |-> 1] OBVIOUS
    <3>2. r \in CallShape /\ r.at = "waits" /\ r.on = n /\ r.attempt = 1 BY <3>1, <2>1 DEF CallShape
    <3> QED BY <3>1, <3>2, <2>2
  <2>3. CASE call' = [call EXCEPT ![c].at = "read"] /\ UNCHANGED submitted
    <3>1. PICK r : r = [call[c] EXCEPT !.at = "read"] OBVIOUS
    <3>2. r \in CallShape /\ r.at = "read" BY <3>1, <2>1 DEF CallShape
    <3>3. call' = [call EXCEPT ![c] = r] BY <3>1, <2>3
    <3> QED BY <3>2, <3>3, <2>3
  <2> QED BY <2>2, <2>3, <1>5 DEF CallBegins
<1>7. call \in [OcrCall -> CallShape] BY <1>1 DEF ThreadShapes
<1>8. call' \in [OcrCall -> CallShape] /\ call'[c] = r /\ \A d \in OcrCall \ {c} : call'[d] = call[d]
  BY <1>6, <1>7
<1>9. submitted' \in Seq(TaskShape) /\ TasksFit(submitted', call')
  <2>1. PICK s : s = submitted OBVIOUS
  <2>2. s \in Seq(TaskShape) /\ TasksFit(s, call) BY <2>1, <1>1 DEF ThreadShapes
  <2>3. CASE r.at = "waits"
    <3>1. n \in Nat /\ r.on = n /\ call[c].at # "waits" /\ submitted' = Append(s, Task(c, n))
      BY <2>1, <2>3, <1>3, <1>4, <1>5, <1>6
    <3> QED BY <3>1, <2>2, <2>3, <1>6, <1>7, CallSubmits
  <2>4. CASE r.at = "read"
    <3>1. submitted' = s BY <2>1, <2>4, <1>6
    <3>2. \A d \in OcrCall : call'[d].at = "waits" <=> call[d].at = "waits" BY <2>4, <1>3, <1>8
    <3>3. \A d \in OcrCall : call[d].at = "waits" => call'[d].on = call[d].on BY <1>3, <1>8
    <3>4. \A k \in Ix(s) : s[k].call \in OcrCall
      <4>1. \A k \in Ix(s) : s[k] \in TaskShape BY <2>2 DEF Ix
      <4> QED BY <4>1 DEF TaskShape
    <3>5. WantedFits(s, call) /\ WantedOnce(s) /\ EachWanted(s, call) BY <2>2 DEF TasksFit
    <3>6. WantedFits(s, call') BY <3>2, <3>3, <3>4, <3>5 DEF WantedFits
    <3>7. EachWanted(s, call') BY <3>2, <3>5 DEF EachWanted
    <3> QED BY <3>1, <3>5, <3>6, <3>7, <2>2 DEF TasksFit
  <2> QED BY <2>3, <2>4, <1>6
<1>10. ThreadShapes' BY <1>1, <1>3, <1>4, <1>8, <1>9 DEF ThreadShapes
<1>11. ASSUME NEW d \in OcrCall PROVE OnItsExecutor(d)' /\ AttemptsCounted(d)'
  <2>1. CASE d = c
    <3>1. misread'[c] = 0 BY <1>1, <1>3 DEF AttemptsCounted
    <3>2. 1 \in 1 .. MaxAttempts BY ThreadsAssumption
    <3>3. call'[c] = r BY <1>8
    <3>4. AttemptsCounted(c)' BY <3>1, <3>2, <3>3, <1>6 DEF AttemptsCounted
    <3>5. OnItsExecutor(c)' BY <3>3, <1>3, <1>4, <1>5, <1>6 DEF OnItsExecutor
    <3> QED BY <3>4, <3>5, <2>1
  <2>2. CASE d # c
    <3>1. call'[d] = call[d] /\ misread'[d] = misread[d] /\ AttemptsCounted(d) /\ OnItsExecutor(d)
      BY <2>2, <1>1, <1>3, <1>8
    <3>2. call[d].on \in Nat BY <1>7 DEF CallShape
    <3>3. AttemptsCounted(d)' BY <3>1, <3>2, <1>4 DEF AttemptsCounted
    <3>4. OnItsExecutor(d)' BY <3>1, <3>2, <1>3, <1>4 DEF OnItsExecutor
    <3> QED BY <3>3, <3>4
  <2> QED BY <2>1, <2>2
<1>12. ASSUME NEW b \in Batch PROVE SemaphoreHolds(b)'
  <2>1. \A d \in OcrCall \ {c} : call'[d].at = "waits" => call[d].at = "waits" BY <1>8
  <2>2. width[b] \in Nat BY <1>1, ThreadsAssumption DEF ThreadShapes
  <2> QED BY <2>1, <2>2, <1>1, <1>3, BusyGrows
<1> QED BY <1>9, <1>10, <1>11, <1>12 DEF ThreadsInv

LEMMA ThreadsStep == ThreadsInv /\ [ThreadsNext]_threadVars => ThreadsInv'
<1> SUFFICES ASSUME ThreadsInv, [ThreadsNext]_threadVars PROVE ThreadsInv' OBVIOUS
<1>1. /\ ThreadShapes /\ TasksFit(submitted, call)
      /\ (\A c \in OcrCall : OnItsExecutor(c) /\ AttemptsCounted(c)) /\ \A b \in Batch : SemaphoreHolds(b)
  BY DEF ThreadsInv
<1>2. submitted \in Seq(TaskShape) /\ call \in [OcrCall -> CallShape] /\ misread \in [OcrCall -> Nat]
  BY <1>1 DEF ThreadShapes
<1>3. CASE UNCHANGED threadVars
  BY <1>1, <1>3 DEF threadVars, ThreadsInv, ThreadShapes, TasksFit, WantedFits, WantedOnce, EachWanted, Ix,
                    OnItsExecutor, AttemptsCounted, SemaphoreHolds, Busy
<1>4. ASSUME NEW c \in OcrCall, CallBegins(c) PROVE ThreadsInv' BY <1>4, CallsBegin
<1>5. ASSUME UNCHANGED <<width, executors, call, misread>>, submitted' \in Seq(TaskShape),
             TasksFit(submitted', call)
      PROVE  ThreadsInv'
  <2>1. ThreadShapes' BY <1>1, <1>5 DEF ThreadShapes
  <2>2. TasksFit(submitted, call)' BY <1>5 DEF TasksFit, WantedFits, WantedOnce, EachWanted
  <2>3. ASSUME NEW c \in OcrCall PROVE OnItsExecutor(c)' /\ AttemptsCounted(c)'
    BY <1>1, <1>5 DEF OnItsExecutor, AttemptsCounted
  <2>4. ASSUME NEW b \in Batch PROVE SemaphoreHolds(b)' BY <1>1, <1>5 DEF SemaphoreHolds, Busy
  <2> QED BY <2>1, <2>2, <2>3, <2>4 DEF ThreadsInv
<1> SUFFICES ASSUME NEW i \in DOMAIN submitted,
                    ThreadTakes(i) \/ ThreadReads(i) \/ ThreadMisreads(i) \/ TimesOut(i)
             PROVE  ThreadsInv'
  BY <1>3, <1>4 DEF ThreadsNext
<1>6. PICK s, c : s = submitted /\ c = submitted[i].call OBVIOUS
<1>7. i \in Ix(s) /\ s \in Seq(TaskShape) /\ TasksFit(s, call) BY <1>1, <1>2, <1>6 DEF Ix
<1>8. c \in OcrCall /\ c = s[i].call
  <2>1. s[i] \in TaskShape BY <1>7 DEF Ix
  <2> QED BY <2>1, <1>6 DEF TaskShape
<1>9. call[c] \in CallShape BY <1>2, <1>8
<1>10. s[i].wanted =>
         /\ call[c].at = "waits" /\ call[c].on \in 1 .. Len(executors)
         /\ call[c].attempt \in 1 .. MaxAttempts /\ misread[c] = call[c].attempt - 1
  <2>1. s[i].wanted => call[c].at = "waits" BY <1>7, <1>8 DEF TasksFit, WantedFits
  <2> QED BY <2>1, <1>1, <1>8 DEF OnItsExecutor, AttemptsCounted
<1>11. CASE ThreadTakes(i)
  <2>2. submitted' = [s EXCEPT ![i].running = TRUE] /\ UNCHANGED <<width, executors, call, misread>>
    BY <1>6, <1>11 DEF ThreadTakes
  <2>3. submitted' \in Seq(TaskShape) /\ TasksFit(submitted', call) BY <2>2, <1>7, ThreadHasTask
  <2> QED BY <2>2, <2>3, <1>5
(* A call that ends: it was read, failed, or is late.                        *)
<1>12. ASSUME s[i].wanted, NEW st \in {"read", "failed", "late"},
              call' = [call EXCEPT ![c].at = st], UNCHANGED <<width, executors>>,
              \/ submitted' = SubSeq(s, 1, i - 1) \o SubSeq(s, i + 1, Len(s))
              \/ submitted' = [s EXCEPT ![i].wanted = FALSE],
              misread' \in [OcrCall -> Nat], \A d \in OcrCall \ {c} : misread'[d] = misread[d],
              st = "failed" => misread'[c] = MaxAttempts \/ call[c].on < Len(executors)
       PROVE  ThreadsInv'
  <2>1. PICK r : r = [call[c] EXCEPT !.at = st] OBVIOUS
  <2>2. r \in CallShape /\ r.at = st /\ r.on = call[c].on BY <2>1, <1>9, <1>12 DEF CallShape
  <2>3. call' = [call EXCEPT ![c] = r] BY <2>1, <1>12
  <2>4. call' = [call EXCEPT ![s[i].call] = r] /\ r.at # "waits" BY <2>2, <2>3, <1>8
  <2>5. submitted' \in Seq(TaskShape) /\ TasksFit(submitted', call')
    <3>1. PICK t, cm : t = submitted' /\ cm = call' OBVIOUS
    <3>2. cm = [call EXCEPT ![s[i].call] = r] /\ r \in CallShape /\ r.at # "waits" BY <3>1, <2>2, <2>4
    <3>3. \/ t = SubSeq(s, 1, i - 1) \o SubSeq(s, i + 1, Len(s))
          \/ t = [s EXCEPT ![i].wanted = FALSE]
      BY <3>1, <1>12
    <3>4. s[i].wanted /\ call \in [OcrCall -> CallShape] BY <1>12, <1>2
    <3>5. t \in Seq(TaskShape) /\ TasksFit(t, cm) BY <3>2, <3>3, <3>4, <1>7, CallStopsWaiting
    <3> QED BY <3>1, <3>5
  <2>6. call[c].at = "waits" /\ r.at # "outside" /\ r.at # "waits" BY <2>2, <1>10, <1>12
  <2>7. r.at = "failed" => misread'[c] = MaxAttempts \/ r.on < Len(executors) BY <2>2, <1>12
  <2> QED BY <2>2, <2>3, <2>5, <2>6, <2>7, <1>8, <1>12, OneCallMoves
<1>13. CASE ThreadReads(i)
  <2>1. submitted' = SubSeq(s, 1, i - 1) \o SubSeq(s, i + 1, Len(s)) /\ UNCHANGED <<width, executors, misread>>
    BY <1>6, <1>13 DEF ThreadReads, RemoveAt
  <2>2. CASE s[i].wanted
    <3>1. call' = [call EXCEPT ![c].at = "read"] BY <1>6, <1>13, <2>2 DEF ThreadReads
    <3> QED BY <2>1, <2>2, <3>1, <1>2, <1>12
  <2>3. CASE ~s[i].wanted
    <3>1. call' = call BY <1>6, <1>13, <2>3 DEF ThreadReads
    <3>2. submitted' \in Seq(TaskShape) /\ TasksFit(submitted', call) BY <2>1, <2>3, <1>7, UnwantedGoes
    <3> QED BY <2>1, <3>1, <3>2, <1>5
  <2> QED BY <2>2, <2>3
<1>14. CASE ThreadMisreads(i)
  <2>1. /\ s[i].wanted /\ misread' = [misread EXCEPT ![c] = @ + 1] /\ UNCHANGED <<width, executors>>
    BY <1>6, <1>14 DEF ThreadMisreads
  <2>2. PICK t : t = SubSeq(s, 1, i - 1) \o SubSeq(s, i + 1, Len(s)) OBVIOUS
  <2>3. /\ misread' \in [OcrCall -> Nat] /\ misread'[c] = call[c].attempt /\ call[c].attempt \in Nat
        /\ \A d \in OcrCall \ {c} : misread'[d] = misread[d]
    BY <2>1, <1>2, <1>8, <1>10
  <2>4. CASE call[c].attempt < MaxAttempts /\ call[c].on = Current
    <3>1. /\ call' = [call EXCEPT ![c].attempt = @ + 1]
          /\ submitted' = Append(t, Task(c, call[c].on))
      BY <1>6, <1>14, <2>2, <2>4 DEF ThreadMisreads, RemoveAt
    <3>2. PICK r, q, cl, e : /\ r = [call[c] EXCEPT !.attempt = @ + 1] /\ q = [call[c] EXCEPT !.at = "late"]
                             /\ cl = [call EXCEPT ![c] = q] /\ e = call[c].on
      OBVIOUS
    <3>3. r \in CallShape /\ r.at = "waits" /\ r.on = e /\ r.attempt = call[c].attempt + 1 /\ e \in Nat
      BY <3>2, <2>1, <1>9, <1>10 DEF CallShape
    <3>4. q \in CallShape /\ q.at # "waits" BY <3>2, <1>9 DEF CallShape
    <3>5. cl = [call EXCEPT ![s[i].call] = q] BY <3>2, <1>8
    <3>6. t \in Seq(TaskShape) /\ TasksFit(t, cl)
      <4>1. s[i].wanted /\ call \in [OcrCall -> CallShape] BY <2>1, <1>2
      <4>2. \/ t = SubSeq(s, 1, i - 1) \o SubSeq(s, i + 1, Len(s))
            \/ t = [s EXCEPT ![i].wanted = FALSE]
        BY <2>2
      <4> QED BY <4>1, <4>2, <3>4, <3>5, <1>7, CallStopsWaiting
    <3>7. cl \in [OcrCall -> CallShape] /\ cl[c].at # "waits" BY <3>2, <3>4, <1>2, <1>8
    <3>8. call' = [call EXCEPT ![c] = r] /\ call' = [cl EXCEPT ![c] = r] BY <3>1, <3>2, <1>2, <1>8
    <3>9. submitted' = Append(t, Task(c, e)) BY <3>1, <3>2
    <3>10. submitted' \in Seq(TaskShape) /\ TasksFit(submitted', call')
      <4>1. PICK u, cm : u = submitted' /\ cm = call' OBVIOUS
      <4>2. u = Append(t, Task(c, e)) /\ cm = [cl EXCEPT ![c] = r] BY <4>1, <3>8, <3>9
      <4>3. r \in CallShape /\ r.at = "waits" /\ r.on = e /\ e \in Nat BY <3>3
      <4>4. u \in Seq(TaskShape) /\ TasksFit(u, cm) BY <4>2, <4>3, <3>6, <3>7, <1>8, CallSubmits
      <4> QED BY <4>1, <4>4
    <3>11. r.attempt \in 1 .. MaxAttempts /\ misread'[c] = r.attempt - 1
      BY <3>3, <2>1, <2>3, <2>4, <1>10, ThreadsAssumption
    <3>12. call[c].at = "waits" /\ r.at # "outside" /\ r.at # "failed" /\ r.on = call[c].on
      BY <3>2, <3>3, <2>1, <1>10
    <3> QED BY <3>3, <3>8, <3>10, <3>11, <3>12, <2>1, <2>3, <1>8, OneCallMoves
  <2>5. CASE ~(call[c].attempt < MaxAttempts /\ call[c].on = Current)
    <3>1. call' = [call EXCEPT ![c].at = "failed"] /\ submitted' = t
      BY <1>6, <1>14, <2>2, <2>5 DEF ThreadMisreads, RemoveAt
    <3>2. misread'[c] = MaxAttempts \/ call[c].on < Len(executors)
      BY <2>1, <2>3, <2>5, <1>10, ThreadsAssumption DEF Current
    <3> QED BY <3>1, <3>2, <2>1, <2>2, <2>3, <1>12
  <2> QED BY <2>4, <2>5
<1>15. CASE TimesOut(i)
  <2>1. s[i].wanted /\ call' = [call EXCEPT ![c].at = "late"] /\ UNCHANGED <<width, executors, misread>>
    BY <1>6, <1>15 DEF TimesOut
  <2>2. \/ submitted' = SubSeq(s, 1, i - 1) \o SubSeq(s, i + 1, Len(s))
        \/ submitted' = [s EXCEPT ![i].wanted = FALSE]
    BY <1>6, <1>15 DEF TimesOut, RemoveAt
  <2> QED BY <2>1, <2>2, <1>2, <1>12
<1> QED BY <1>11, <1>13, <1>14, <1>15

-----------------------------------------------------------------------------
(* What the invariant says of tasks and executors.                           *)
LEMMA QueuesAreShort == ThreadsInv => NobodyQueues
<1> SUFFICES ASSUME ThreadsInv, NEW e \in DOMAIN executors, ~Shared(e), ~Haunted(e)
             PROVE  Cardinality(RunningOn(e) \cup Queueing(e)) <= executors[e]
  BY DEF NobodyQueues
<1>1. /\ ThreadShapes /\ WantedFits(submitted, call) /\ WantedOnce(submitted)
      /\ (\A c \in OcrCall : OnItsExecutor(c)) /\ \A b \in Batch : SemaphoreHolds(b)
  BY DEF ThreadsInv, TasksFit
<1>2. PICK T : T = RunningOn(e) \cup Queueing(e) OBVIOUS
<1>3. \A i \in T : i \in Ix(submitted) /\ submitted[i].on = e /\ submitted[i] \in TaskShape
  <2>1. DOMAIN submitted = Ix(submitted) /\ \A i \in Ix(submitted) : submitted[i] \in TaskShape
    BY <1>1 DEF ThreadShapes, Ix
  <2> QED BY <2>1, <1>2 DEF RunningOn, Queueing
<1>4. \A i \in T : submitted[i].wanted BY <1>2, <1>3 DEF Haunted, OnExecutor
<1>5. \A i, j \in T : BatchOf[submitted[i].call] = BatchOf[submitted[j].call]
  BY <1>2 DEF Shared, OnExecutor
<1>6. executors[e] \in Nat BY <1>1 DEF ThreadShapes
<1>7. CASE T = {}
  <2>1. Cardinality(T) = 0 BY <1>7, FS_EmptySet
  <2> QED BY <2>1, <1>2, <1>6
<1>8. ASSUME NEW k \in T PROVE Cardinality(T) <= executors[e]
  <2>1. PICK b, B : b = BatchOf[submitted[k].call] /\ B = Busy(b) OBVIOUS
  <2>2. \A i \in T : submitted[i].call \in OcrCall BY <1>3 DEF TaskShape
  <2>3. \A i \in T : call[submitted[i].call].at = "waits" /\ call[submitted[i].call].on = e
    BY <1>1, <1>3, <1>4 DEF WantedFits
  <2>4. b \in Batch BY <2>1, <2>2, <1>8, ThreadsAssumption
  <2>5. executors[e] = width[b]
    <3>1. PICK c : c = submitted[k].call OBVIOUS
    <3>2. c \in OcrCall /\ call[c].at = "waits" /\ call[c].on = e /\ b = BatchOf[c]
      BY <3>1, <2>1, <2>2, <2>3, <1>8
    <3> QED BY <3>2, <1>1 DEF OnItsExecutor
  <2>6. PICK f : f = [i \in T |-> submitted[i].call] OBVIOUS
  <2>7. \A i \in T : f[i] \in B BY <2>1, <2>2, <2>3, <2>6, <1>5, <1>8 DEF Busy
  <2>8. \A i, j \in T : f[i] = f[j] => i = j BY <2>6, <1>1, <1>3, <1>4 DEF WantedOnce
  <2>9. f \in Injection(T, B)
    <3>1. f \in [T -> B] BY <2>6, <2>7
    <3>2. \A i, j \in DOMAIN f : f[i] = f[j] => i = j BY <2>6, <2>8
    <3> QED BY <3>1, <3>2 DEF Injection, IsInjective
  <2>10. IsFiniteSet(B) /\ Cardinality(B) <= width[b] BY <2>1, <2>4, <1>1 DEF SemaphoreHolds
  <2>11. Cardinality(T) <= Cardinality(B) /\ IsFiniteSet(T) BY <2>9, <2>10, FS_Injection
  <2>12. Cardinality(T) \in Nat /\ Cardinality(B) \in Nat BY <2>10, <2>11, FS_CardinalityType
  <2> QED BY <2>5, <2>10, <2>11, <2>12, <1>6
<1> QED BY <1>2, <1>7, <1>8

LEMMA AttemptsAreSingle == ThreadsInv => OneAttempt
<1> SUFFICES ASSUME ThreadsInv, NEW c \in OcrCall, NEW W,
                    W = {i \in DOMAIN submitted : submitted[i].call = c /\ submitted[i].wanted}
             PROVE  Cardinality(W) = IF call[c].at = "waits" THEN 1 ELSE 0
  BY DEF OneAttempt
<1>1. WantedFits(submitted, call) /\ WantedOnce(submitted) /\ EachWanted(submitted, call)
  BY DEF ThreadsInv, TasksFit
<1>2. DOMAIN submitted = Ix(submitted) BY DEF ThreadsInv, ThreadShapes, Ix
<1>3. CASE call[c].at = "waits"
  <2>1. PICK k \in Ix(submitted) : submitted[k].wanted /\ submitted[k].call = c BY <1>1, <1>3 DEF EachWanted
  <2>2. W = {k} BY <2>1, <1>1, <1>2 DEF WantedOnce
  <2> QED BY <2>2, <1>3, FS_Singleton
<1>4. CASE call[c].at # "waits"
  <2>1. W = {} BY <1>1, <1>2, <1>4 DEF WantedFits
  <2> QED BY <2>1, <1>4, FS_EmptySet
<1> QED BY <1>3, <1>4

(* PagesGetTheirChance: while no thread is left from a call that ran out of  *)
(* time and one batch has the executor, no page queues while its clock runs; *)
(* a page has one attempt at a time, and all of them before it is given up   *)
(* (recognize.py), for any calls, batches, widths and numbers of attempts.   *)
THEOREM PagesAlwaysGetTheirChance == ThreadsSpec => []PagesGetTheirChance
<1>1. ThreadsInit => ThreadsInv BY ThreadsStart
<1>2. ThreadsInv /\ [ThreadsNext]_threadVars => ThreadsInv' BY ThreadsStep
<1>3. ThreadsInv => PagesGetTheirChance
  <2> SUFFICES ASSUME ThreadsInv PROVE PagesGetTheirChance OBVIOUS
  <2>1. NobodyQueues /\ OneAttempt BY QueuesAreShort, AttemptsAreSingle
  <2>2. FailsForACause BY DEF ThreadsInv, AttemptsCounted, FailsForACause, Current
  <2> QED BY <2>1, <2>2 DEF PagesGetTheirChance
<1> QED BY <1>1, <1>2, <1>3, PTL DEF ThreadsSpec

-----------------------------------------------------------------------------
(* The sessions of the desktop client.                                          *)
PageShape == [st : {"pending", "processing", "ocrd", "failed", "reviewed"}, rev : Nat]
DirShape == [here : BOOLEAN, pages : [DPage -> PageShape]]
CopyShape == [of : SUBSET DSession, pages : [DPage -> PageShape]]
RequestShape ==
  [kind : {"free", "redo", "review", "open", "hydrate", "job"}, memory : SUBSET Copy,
   page : SUBSET DPage, todo : SUBSET DPage]
PageTasks == [DPage -> {"none", "new", "todo", "ocr"}]
DesktopShapes ==
  /\ disk \in [DSession -> DirShape] /\ memory \in [Copy -> CopyShape]
  /\ request \in [Call -> RequestShape] /\ task \in PageTasks
  /\ said \in [DSession -> [DPage -> Nat]] /\ reviews \in Nat
  /\ waiting \in Seq(DSession) /\ active \subseteq DSession
  /\ view \subseteq Copy /\ live \subseteq Copy

(* Who holds an instance holds one, of one session.                          *)
One(S) == \A x, y \in S : x = y
OneEach == One(view) /\ One(live) /\ One(active) /\ \A k \in Call : One(request[k].memory)
OfOne == \A c \in HeldCopies : \E s \in DSession : memory[c].of = {s}

(* What is queued or running has its directory, and the job's instance is of *)
(* the session that is running.                                              *)
Queued(q) ==
  /\ \A i \in DOMAIN q : disk[q[i]].here
  /\ \A i, j \in DOMAIN q : q[i] = q[j] => i = j
InUse ==
  /\ Queued(waiting) /\ \A s \in active : disk[s].here
  /\ \A c \in live : memory[c].of = active

(* But for the sessions in doubled there is one instance of a session.       *)
Alone ==
  \A s \in DSession \ doubled : \A c, d \in HeldCopies :
    memory[c].of = {s} /\ memory[d].of = {s} => c = d

(* A page saved by hand is in the file of a session that is there and in its *)
(* instance, and not one that a task is still to take.                       *)
AsSaid(s, p) == [st |-> "reviewed", rev |-> said[s][p]]
Listed(c, p) ==
  \/ c \in live /\ task[p] = "todo"
  \/ \E k \in Call : c \in request[k].memory /\ p \in request[k].todo
SaidIsHad(s, p) ==
  said[s][p] > 0 =>
    /\ disk[s].here
    /\ s \notin doubled =>
         /\ disk[s].pages[p] = AsSaid(s, p)
         /\ \A c \in HeldCopies : memory[c].of = {s} =>
              memory[c].pages[p] = AsSaid(s, p) /\ ~Listed(c, p)
AllSaid == \A s \in DSession, p \in DPage : SaidIsHad(s, p)

WellHeld == DesktopShapes /\ OneEach /\ OfOne /\ InUse /\ Alone
DesktopInv == WellHeld /\ AllSaid

(* There is room for one more instance.                                      *)
LEMMA OneIsSmall ==
  ASSUME NEW S, One(S) PROVE IsFiniteSet(S) /\ Cardinality(S) \in Nat /\ Cardinality(S) <= 1
<1>1. CASE S = {} BY <1>1, FS_EmptySet
<1>2. CASE S # {}
  <2>1. PICK x : S = {x} BY <1>2 DEF One
  <2>2. IsFiniteSet({x}) /\ Cardinality({x}) = 1 BY FS_Singleton
  <2> QED BY <2>1, <2>2
<1> QED BY <1>1, <1>2

LEMMA FewCopiesOfCalls ==
  ASSUME OneEach
  PROVE  IsFiniteSet(CopiesOfCalls) /\ Cardinality(CopiesOfCalls) <= Cardinality(Call)
<1> DEFINE f == [c \in CopiesOfCalls |-> CHOOSE k \in Call : c \in request[k].memory]
<1>1. \A c \in CopiesOfCalls : f[c] \in Call /\ c \in request[f[c]].memory BY DEF CopiesOfCalls
<1>2. f \in [CopiesOfCalls -> Call] BY <1>1
<1>3. \A c, d \in CopiesOfCalls : f[c] = f[d] => c = d
  <2> SUFFICES ASSUME NEW c \in CopiesOfCalls, NEW d \in CopiesOfCalls, f[c] = f[d] PROVE c = d
    OBVIOUS
  <2> QED BY <1>1 DEF OneEach, One
<1> HIDE DEF f
<1>4. f \in Injection(CopiesOfCalls, Call) BY <1>2, <1>3 DEF Injection, IsInjective
<1> QED BY <1>4, FS_Injection, DesktopAssumption

LEMMA FreshIsFree ==
  ASSUME DesktopShapes, OneEach PROVE Fresh \in Copy /\ Fresh \notin HeldCopies
<1>1. PICK a, n, m : a = view \cup live /\ n = Cardinality(Call) /\ m = Cardinality(Copy)
  OBVIOUS
<1>2. n \in Nat /\ m \in Nat /\ m > n + 2 BY <1>1, DesktopAssumption, FS_CardinalityType
<1>3. IsFiniteSet(a) /\ Cardinality(a) \in Nat /\ Cardinality(a) <= 2
  <2>1. /\ IsFiniteSet(view) /\ Cardinality(view) \in Nat /\ Cardinality(view) <= 1
        /\ IsFiniteSet(live) /\ Cardinality(live) \in Nat /\ Cardinality(live) <= 1
    BY OneIsSmall DEF OneEach
  <2>2. IsFiniteSet(view \cap live) /\ Cardinality(view \cap live) \in Nat
    BY <2>1, FS_Intersection, FS_CardinalityType
  <2>3. /\ IsFiniteSet(view \cup live)
        /\ Cardinality(view \cup live) = Cardinality(view) + Cardinality(live) - Cardinality(view \cap live)
    BY <2>1, FS_Union
  <2>4. Cardinality(a) \in Nat BY <2>3, <1>1, FS_CardinalityType
  <2> QED BY <2>1, <2>2, <2>3, <2>4, <1>1
<1>4. PICK b : b = CopiesOfCalls OBVIOUS
<1>5. IsFiniteSet(b) /\ Cardinality(b) \in Nat /\ Cardinality(b) <= n
  BY FewCopiesOfCalls, <1>1, <1>4, FS_CardinalityType
<1>6. Cardinality(a \cap b) \in Nat BY <1>3, <1>5, FS_Intersection, FS_CardinalityType
<1>7. /\ IsFiniteSet(a \cup b)
      /\ Cardinality(a \cup b) = Cardinality(a) + Cardinality(b) - Cardinality(a \cap b)
  BY <1>3, <1>5, FS_Union
<1>8. Cardinality(a \cup b) < m BY <1>2, <1>3, <1>5, <1>6, <1>7
<1>9. HeldCopies = a \cup b BY <1>1, <1>4 DEF HeldCopies
<1>10. HeldCopies # Copy BY <1>1, <1>2, <1>8, <1>9
<1>11. HeldCopies \subseteq Copy BY DEF HeldCopies, CopiesOfCalls, DesktopShapes, RequestShape
<1> QED BY <1>10, <1>11 DEF Fresh

LEMMA HeldAreCopies == DesktopShapes => HeldCopies \subseteq Copy
BY DEF HeldCopies, CopiesOfCalls, DesktopShapes, RequestShape

LEMMA SoundAsKept == DesktopInv => SessionsAreSound
<1> SUFFICES ASSUME DesktopInv PROVE OneInstance /\ ReviewStays BY DEF SessionsAreSound
<1> USE DEF DesktopInv, WellHeld
<1>1. OneInstance
  <2> SUFFICES ASSUME NEW c \in HeldCopies, live # {}, memory[c].of = active
               PROVE  c \in live \/ active \subseteq doubled
    BY DEF OneInstance
  <2>1. PICK d : d \in live OBVIOUS
  <2>2. PICK s \in DSession : memory[c].of = {s} BY DEF OfOne
  <2>3. memory[d].of = {s} BY <2>1, <2>2 DEF InUse
  <2>4. d \in HeldCopies BY <2>1 DEF HeldCopies
  <2>5. CASE s \notin doubled BY <2>1, <2>2, <2>3, <2>4, <2>5 DEF Alone
  <2>6. CASE s \in doubled BY <2>2, <2>6
  <2> QED BY <2>5, <2>6
<1>2. ReviewStays BY DEF ReviewStays, AllSaid, SaidIsHad, AsSaid
<1> QED BY <1>1, <1>2

LEMMA LiveIsActive ==
  ASSUME OneEach, OfOne, InUse, live # {}
  PROVE  \E s \in DSession, c \in live : active = {s} /\ live = {c} /\ memory[c].of = {s} /\ Of(live) = {s}
<1>1. PICK c \in live : TRUE OBVIOUS
<1>2. c \in HeldCopies BY <1>1 DEF HeldCopies
<1>3. PICK s \in DSession : memory[c].of = {s} BY <1>2 DEF OfOne
<1>4. live = {c} BY <1>1 DEF OneEach, One
<1>5. active = {s} BY <1>1, <1>3 DEF InUse
<1> QED BY <1>1, <1>3, <1>4, <1>5 DEF Of

LEMMA PagesFit ==
  /\ Pages("pending") \in [DPage -> PageShape] /\ Pages("ocrd") \in [DPage -> PageShape]
<1>1. [st |-> "pending", rev |-> 0] \in PageShape /\ [st |-> "ocrd", rev |-> 0] \in PageShape
  BY DEF PageShape
<1> QED BY <1>1 DEF Pages

LEMMA NoCallFits == NoCall \in RequestShape
BY DEF NoCall, RequestShape

-----------------------------------------------------------------------------
(* The queue.                                                                *)
QueueFits ==
  /\ waiting' \in Seq(DSession) /\ active' \subseteq DSession /\ One(active') /\ Queued(waiting)'
  /\ \A t \in active' : disk'[t].here

LEMMA QueueAsItIs ==
  ASSUME WellHeld, waiting' = waiting, active' = active,
         \A t \in DSession : disk[t].here => disk'[t].here
  PROVE  QueueFits
<1> USE DEF WellHeld
<1>1. waiting \in Seq(DSession) /\ \A i \in DOMAIN waiting : waiting[i] \in DSession BY DEF DesktopShapes
<1>2. Queued(waiting)' BY <1>1 DEF InUse, Queued
<1> QED BY <1>1, <1>2 DEF DesktopShapes, OneEach, QueueFits, InUse

LEMMA QueueGrows ==
  ASSUME WellHeld, NEW s \in DSession, Enqueue(s),
         disk'[s].here, \A t \in DSession : disk[t].here => disk'[t].here
  PROVE  QueueFits /\ (live # {} => active' = active)
<1> USE DEF WellHeld
<1>0. Queued(waiting) /\ \A t \in active : disk[t].here BY DEF InUse
<1>1. active' \subseteq DSession /\ One(active') /\ (active # {} => active' = active)
  BY DEF Enqueue, DesktopShapes, OneEach, One
<1>2. \A t \in active' : disk'[t].here BY <1>0 DEF Enqueue, DesktopShapes
<1>3. waiting \in Seq(DSession) /\ Len(waiting) \in Nat /\ DOMAIN waiting = 1 .. Len(waiting)
  BY DEF DesktopShapes
<1>4. \A i \in DOMAIN waiting : waiting[i] \in DSession BY <1>3
<1>5. waiting' \in Seq(DSession) /\ Queued(waiting)'
  <2>1. CASE waiting' = waiting BY <2>1, <1>0, <1>3, <1>4 DEF Queued
  <2>2. CASE waiting' # waiting
    <3>1. waiting' = Append(waiting, s) /\ s \notin InQueue BY <2>2 DEF Enqueue
    <3>2. /\ Append(waiting, s) \in Seq(DSession)
          /\ Len(Append(waiting, s)) = Len(waiting) + 1
          /\ \A i \in 1 .. Len(waiting) : Append(waiting, s)[i] = waiting[i]
          /\ Append(waiting, s)[Len(waiting) + 1] = s
      BY <1>3, AppendProperties
    <3>3. PICK n, w : n = Len(waiting) /\ w = waiting' OBVIOUS
    <3>4. /\ w \in Seq(DSession) /\ n \in Nat /\ DOMAIN w = 1 .. n + 1 /\ w[n + 1] = s
          /\ \A i \in 1 .. n : w[i] = waiting[i] /\ i \in DOMAIN waiting
      BY <1>3, <3>1, <3>2, <3>3
    <3>5. \A i \in 1 .. n : w[i] # s BY <3>1, <3>4 DEF InQueue
    <3>6. \A i \in DOMAIN w : disk'[w[i]].here
      <4> SUFFICES ASSUME NEW i \in DOMAIN w PROVE disk'[w[i]].here OBVIOUS
      <4>1. CASE i = n + 1 BY <4>1, <3>4
      <4>2. CASE i # n + 1
        <5>1. i \in 1 .. n BY <4>2, <3>4
        <5> QED BY <5>1, <3>4, <1>0, <1>4 DEF Queued
      <4> QED BY <4>1, <4>2
    <3>7. \A i, j \in DOMAIN w : w[i] = w[j] => i = j
      <4> SUFFICES ASSUME NEW i \in DOMAIN w, NEW j \in DOMAIN w, w[i] = w[j] PROVE i = j OBVIOUS
      <4>1. (i \in 1 .. n \/ i = n + 1) /\ (j \in 1 .. n \/ j = n + 1) BY <3>4
      <4> QED BY <4>1, <3>4, <3>5, <1>0 DEF Queued
    <3> QED BY <3>3, <3>4, <3>6, <3>7 DEF Queued
  <2> QED BY <2>1, <2>2
<1>6. live # {} => active # {} BY LiveIsActive
<1> QED BY <1>1, <1>2, <1>5, <1>6 DEF QueueFits

LEMMA NextBookFits ==
  ASSUME WellHeld, NextBook, \A t \in DSession : disk[t].here => disk'[t].here PROVE QueueFits
<1> USE DEF WellHeld
<1>1. waiting \in Seq(DSession) /\ Queued(waiting) BY DEF DesktopShapes, InUse
<1>2. CASE waiting = <<>>
  <2>1. active' = {} /\ waiting' = waiting BY <1>2 DEF NextBook
  <2>2. Queued(waiting)' BY <2>1, <1>2 DEF Queued
  <2> QED BY <2>1, <2>2, <1>1 DEF QueueFits, One
<1>3. CASE waiting # <<>>
  <2>1. active' = {Head(waiting)} /\ waiting' = Tail(waiting) BY <1>3 DEF NextBook
  <2>2. PICK w, n : w = Tail(waiting) /\ n = Len(waiting) OBVIOUS
  <2>3. /\ Tail(waiting) \in Seq(DSession) /\ Len(Tail(waiting)) = Len(waiting) - 1
        /\ \A i \in 1 .. Len(Tail(waiting)) : Tail(waiting)[i] = waiting[i + 1]
        /\ Head(waiting) = waiting[1] /\ Len(waiting) \in Nat /\ Len(waiting) > 0
        /\ DOMAIN waiting = 1 .. Len(waiting) /\ waiting[1] \in DSession
    BY <1>1, <1>3
  <2>4. /\ w \in Seq(DSession) /\ DOMAIN w = 1 .. n - 1 /\ n \in Nat /\ n > 0
        /\ \A i \in 1 .. n - 1 : w[i] = waiting[i + 1] /\ i + 1 \in DOMAIN waiting /\ w[i] \in DSession
    BY <2>2, <2>3
  <2>5. \A i \in DOMAIN w : disk'[w[i]].here BY <2>4, <1>1 DEF Queued
  <2>6. \A i, j \in DOMAIN w : w[i] = w[j] => i = j BY <2>4, <1>1 DEF Queued
  <2>7. Queued(waiting)' BY <2>5, <2>6, <2>1, <2>2 DEF Queued
  <2>8. disk'[waiting[1]].here BY <1>1, <2>3 DEF Queued
  <2> QED BY <2>1, <2>2, <2>3, <2>4, <2>7, <2>8 DEF QueueFits, One
<1> QED BY <1>2, <1>3

-----------------------------------------------------------------------------
(* A step that may load an instance of s, whose file then has these pages.   *)
CopyStays(c) == c \in HeldCopies /\ memory'[c] = memory[c]
IsNew(c, s, pages) == c = Fresh /\ memory'[c].of = {s} /\ memory'[c].pages = pages
Excused(s) ==
  Fresh \in HeldCopies' => s \in doubled' \/ \A c \in HeldCopies' : c # Fresh => memory[c].of # {s}
FileIs(s, pages) ==
  /\ disk' \in [DSession -> DirShape] /\ disk'[s].here /\ disk'[s].pages = pages
  /\ disk[s].here => disk[s].pages = pages
  /\ \A t \in DSession : t # s => disk'[t] = disk[t]
QueueIs(s) == QueueFits /\ (live # {} => active' = active) /\ (Fresh \in live' => active' = {s})
Holders ==
  /\ view' \subseteq view \cup live \cup {Fresh} /\ live' \subseteq live \cup {Fresh}
  /\ One(view') /\ One(live') /\ request' \in [Call -> RequestShape]
  /\ \A k \in Call : request'[k] = request[k] \/ (request'[k].memory = {Fresh} /\ request'[k].todo = {})
TasksGo ==
  \/ task' = task /\ live' = live
  \/ task' \in PageTasks /\ \A p \in DPage : task'[p] # "todo"
LoadStep(s, pages) ==
  /\ Keeps(Loaded(s, pages)) /\ FileIs(s, pages) /\ QueueIs(s) /\ Holders /\ TasksGo
  /\ Excused(s) /\ said' = said /\ reviews' = reviews /\ doubled \subseteq doubled'

LEMMA LoadedCopies ==
  ASSUME DesktopShapes, OneEach, NEW s \in DSession, NEW pages \in [DPage -> PageShape],
         Holders, Keeps(Loaded(s, pages))
  PROVE  /\ memory' \in [Copy -> CopyShape]
         /\ \A c \in HeldCopies' : c \in Copy /\ (CopyStays(c) \/ IsNew(c, s, pages))
<1>0. Fresh \in Copy /\ Fresh \notin HeldCopies BY FreshIsFree
<1>1. Loaded(s, pages) = [c \in Copy |-> IF c = Fresh THEN [of |-> {s}, pages |-> pages] ELSE memory[c]]
  BY <1>0 DEF Loaded, DesktopShapes
<1>2. memory' = [c \in Copy |-> IF c \in HeldCopies' THEN
                                  (IF c = Fresh THEN [of |-> {s}, pages |-> pages] ELSE memory[c])
                                ELSE NoCopy]
  BY <1>1 DEF Keeps
<1>3. HeldCopies' \subseteq HeldCopies \cup {Fresh}
  <2>1. CopiesOfCalls' \subseteq CopiesOfCalls \cup {Fresh} BY DEF Holders, CopiesOfCalls
  <2> QED BY <2>1 DEF Holders, HeldCopies
<1>4. NoCopy \in CopyShape BY PagesFit DEF NoCopy, CopyShape
<1>5. [of |-> {s}, pages |-> pages] \in CopyShape BY DEF CopyShape
<1>6. memory' \in [Copy -> CopyShape] BY <1>2, <1>4, <1>5 DEF DesktopShapes
<1>7. ASSUME NEW c \in HeldCopies' PROVE c \in Copy /\ (CopyStays(c) \/ IsNew(c, s, pages))
  <2>1. c \in Copy BY <1>0, <1>3, HeldAreCopies
  <2>2. CASE c = Fresh BY <2>1, <2>2, <1>2 DEF IsNew
  <2>3. CASE c # Fresh BY <2>1, <2>3, <1>2, <1>3 DEF CopyStays
  <2> QED BY <2>1, <2>2, <2>3
<1> QED BY <1>6, <1>7

(* What is listed was listed before, and not of the new instance.            *)
LEMMA ListedAfterLoad ==
  ASSUME DesktopShapes, OneEach, Holders, TasksGo, NEW c, NEW p \in DPage, Listed(c, p)'
  PROVE  Listed(c, p) /\ c # Fresh
<1>0. Fresh \notin live /\ Fresh \notin CopiesOfCalls BY FreshIsFree DEF HeldCopies
<1>1. CASE c \in live' /\ task'[p] = "todo"
  <2>1. task' = task /\ live' = live BY <1>1 DEF TasksGo
  <2> QED BY <2>1, <1>0, <1>1 DEF Listed
<1>2. CASE \E k \in Call : c \in request'[k].memory /\ p \in request'[k].todo
  <2>1. PICK k \in Call : c \in request'[k].memory /\ p \in request'[k].todo BY <1>2
  <2>2. c \in request[k].memory /\ p \in request[k].todo BY <2>1 DEF Holders
  <2> QED BY <2>2, <1>0 DEF Listed, CopiesOfCalls
<1> QED BY <1>1, <1>2 DEF Listed

LEMMA LoadKeeps ==
  ASSUME DesktopInv, NEW s \in DSession, NEW pages \in [DPage -> PageShape], LoadStep(s, pages)
  PROVE  DesktopInv'
<1> USE DEF DesktopInv, WellHeld
<1>0. Fresh \in Copy /\ Fresh \notin HeldCopies BY FreshIsFree
<1>1. Holders /\ TasksGo /\ FileIs(s, pages) /\ doubled \subseteq doubled' BY DEF LoadStep
<1>2. /\ memory' \in [Copy -> CopyShape]
      /\ \A c \in HeldCopies' : c \in Copy /\ (CopyStays(c) \/ IsNew(c, s, pages))
  BY <1>1, LoadedCopies DEF LoadStep
<1>3. OfOne' BY <1>2 DEF OfOne, CopyStays, IsNew
<1>4. Alone'
  <2> SUFFICES ASSUME NEW t \in DSession \ doubled', NEW c \in HeldCopies', NEW d \in HeldCopies',
                      memory'[c].of = {t}, memory'[d].of = {t}
               PROVE  c = d
    BY DEF Alone
  <2>1. (CopyStays(c) \/ IsNew(c, s, pages)) /\ (CopyStays(d) \/ IsNew(d, s, pages)) BY <1>2
  <2>2. CASE CopyStays(c) /\ CopyStays(d) BY <1>1, <2>2 DEF CopyStays, Alone
  <2>3. CASE IsNew(c, s, pages) /\ IsNew(d, s, pages) BY <2>3 DEF IsNew
  <2>4. CASE CopyStays(c) /\ IsNew(d, s, pages) BY <1>0, <2>4 DEF CopyStays, IsNew, Excused, LoadStep
  <2>5. CASE IsNew(c, s, pages) /\ CopyStays(d) BY <1>0, <2>5 DEF CopyStays, IsNew, Excused, LoadStep
  <2> QED BY <2>1, <2>2, <2>3, <2>4, <2>5
<1>5. AllSaid'
  <2> SUFFICES ASSUME NEW t \in DSession, NEW p \in DPage, said'[t][p] > 0
               PROVE  /\ disk'[t].here
                      /\ t \notin doubled' =>
                           /\ disk'[t].pages[p] = AsSaid(t, p)'
                           /\ \A c \in HeldCopies' : memory'[c].of = {t} =>
                                memory'[c].pages[p] = AsSaid(t, p)' /\ ~Listed(c, p)'
    BY DEF AllSaid, SaidIsHad
  <2>1. said[t][p] > 0 /\ AsSaid(t, p)' = AsSaid(t, p) BY DEF LoadStep, AsSaid
  <2>2. disk[t].here /\ disk'[t].here /\ disk'[t].pages = disk[t].pages
    BY <1>1, <2>1 DEF AllSaid, SaidIsHad, FileIs
  <2>3. ASSUME t \notin doubled', NEW c \in HeldCopies', memory'[c].of = {t}
        PROVE  memory'[c].pages[p] = AsSaid(t, p) /\ ~Listed(c, p)'
    <3>1. CASE CopyStays(c)
      <4>1. memory'[c].pages[p] = AsSaid(t, p) /\ ~Listed(c, p)
        BY <3>1, <2>1, <2>3, <1>1 DEF AllSaid, SaidIsHad, CopyStays
      <4> QED BY <4>1, <1>1, ListedAfterLoad
    <3>2. CASE IsNew(c, s, pages)
      <4>1. memory'[c].pages = disk[t].pages BY <3>2, <2>2, <2>3, <1>1 DEF IsNew, FileIs
      <4>2. ~Listed(c, p)' BY <3>2, <1>1, ListedAfterLoad DEF IsNew
      <4> QED BY <4>1, <4>2, <2>1, <2>3, <1>1 DEF AllSaid, SaidIsHad
    <3> QED BY <3>1, <3>2, <1>2
  <2> QED BY <2>1, <2>2, <2>3, <1>1 DEF AllSaid, SaidIsHad
<1>6. DesktopShapes'
  <2>1. view' \subseteq Copy /\ live' \subseteq Copy BY <1>0 DEF LoadStep, Holders, DesktopShapes
  <2>2. task' \in PageTasks BY DEF LoadStep, TasksGo, DesktopShapes
  <2> QED BY <2>1, <2>2, <1>2 DEF DesktopShapes, LoadStep, FileIs, QueueIs, QueueFits, Holders
<1>7. OneEach'
  <2>1. \A k \in Call : One(request'[k].memory) BY <1>1 DEF Holders, OneEach, One
  <2> QED BY <2>1 DEF OneEach, LoadStep, Holders, QueueIs, QueueFits
<1>8. InUse'
  <2>1. ASSUME NEW c \in live' PROVE memory'[c].of = active'
    <3>1. c \in HeldCopies' BY DEF HeldCopies
    <3>2. CASE CopyStays(c)
      <4>1. c \in live BY <3>2, <1>0 DEF CopyStays, LoadStep, Holders
      <4> QED BY <3>2, <4>1 DEF CopyStays, LoadStep, QueueIs, InUse
    <3>3. CASE IsNew(c, s, pages) BY <3>3 DEF IsNew, LoadStep, QueueIs
    <3> QED BY <3>1, <3>2, <3>3, <1>2
  <2> QED BY <2>1 DEF InUse, LoadStep, QueueIs, QueueFits
<1> QED BY <1>3, <1>4, <1>5, <1>6, <1>7, <1>8

LEMMA FileAsItIs ==
  ASSUME DesktopShapes, NEW s \in DSession, disk[s].here, disk' = disk
  PROVE  FileIs(s, disk[s].pages) /\ disk[s].pages \in [DPage -> PageShape]
BY DEF DesktopShapes, DirShape, FileIs

(* Only the view and the job get the new instance.                           *)
LEMMA HoldersAsTheyAre ==
  ASSUME DesktopShapes, OneEach, request' = request, One(view'), One(live'),
         view' \subseteq view \cup live \cup {Fresh}, live' \subseteq live \cup {Fresh}
  PROVE  Holders /\ CopiesOfCalls' = CopiesOfCalls
BY DEF Holders, DesktopShapes, CopiesOfCalls

LEMMA LoadsKeeps ==
  ASSUME DesktopInv, NEW k \in Call, NEW what \in {"open", "hydrate"}, NEW s \in DSession,
         Loads(k, what, s), \A c \in view \cup live : memory[c].of # {s}
  PROVE  DesktopInv'
<1> USE DEF DesktopInv, WellHeld
<1>0. /\ disk[s].here /\ disk' = disk /\ Keeps(Loaded(s, disk[s].pages))
      /\ UNCHANGED <<waiting, active, live, task, view, said, reviews>>
      /\ request[k] = NoCall
      /\ request' = [request EXCEPT ![k] = [NoCall EXCEPT !.kind = what, !.memory = {Fresh}]]
      /\ DoublesIf(s, s \in Of(CopiesOfCalls))
  BY DEF Loads, Published, jobVars, bounds
<1>f. Fresh \in Copy /\ Fresh \notin HeldCopies BY FreshIsFree
<1>1. FileIs(s, disk[s].pages) /\ disk[s].pages \in [DPage -> PageShape] BY <1>0, FileAsItIs
<1>2. QueueIs(s)
  <2>1. QueueFits BY <1>0, QueueAsItIs
  <2> QED BY <2>1, <1>0, <1>f DEF QueueIs, HeldCopies
<1>3. PICK r : r = [NoCall EXCEPT !.kind = what, !.memory = {Fresh}] OBVIOUS
<1>4. r \in RequestShape /\ r.memory = {Fresh} /\ r.todo = {} BY <1>3, <1>f DEF NoCall, RequestShape
<1>5. request' = [request EXCEPT ![k] = r] BY <1>0, <1>3
<1>6. Holders
  <2>1. request' \in [Call -> RequestShape] BY <1>4, <1>5 DEF DesktopShapes
  <2>2. \A l \in Call : request'[l] = request[l] \/ request'[l] = r BY <1>5 DEF DesktopShapes
  <2> QED BY <2>1, <2>2, <1>0, <1>4 DEF Holders, OneEach
<1>7. TasksGo BY <1>0 DEF TasksGo
<1>8. Excused(s)
  <2> SUFFICES ASSUME s \notin doubled', NEW c \in HeldCopies', c # Fresh, memory[c].of = {s}
               PROVE  FALSE
    BY DEF Excused
  <2>1. CopiesOfCalls' \subseteq CopiesOfCalls \cup {Fresh} BY <1>6 DEF Holders, CopiesOfCalls
  <2>2. c \in view \cup live \/ c \in CopiesOfCalls BY <2>1, <1>0 DEF HeldCopies
  <2>3. s \notin Of(CopiesOfCalls) BY <1>0 DEF DoublesIf
  <2> QED BY <2>2, <2>3 DEF Of
<1>9. LoadStep(s, disk[s].pages)
  BY <1>0, <1>1, <1>2, <1>6, <1>7, <1>8 DEF LoadStep, DoublesIf
<1> QED BY <1>1, <1>9, LoadKeeps

LEMMA OpenLoadsKeeps ==
  ASSUME DesktopInv, NEW k \in Call, NEW s \in DSession, OpenLoads(k, s) PROVE DesktopInv'
<1> USE DEF DesktopInv, WellHeld
<1>1. LiveOf(s) = {} /\ ~(Of(view) = {s} /\ view # {}) BY DEF OpenLoads, Held
<1>2. ASSUME NEW c \in view, memory[c].of = {s} PROVE FALSE
  <2>1. view = {c} BY DEF OneEach, One
  <2> QED BY <2>1, <1>1, <1>2 DEF Of
<1>3. ASSUME NEW c \in live, memory[c].of = {s} PROVE FALSE
  <2>1. active = {s} BY <1>3 DEF InUse
  <2> QED BY <2>1, <1>1 DEF LiveOf
<1> QED BY <1>2, <1>3, LoadsKeeps DEF OpenLoads

LEMMA HydrateLoadsKeeps ==
  ASSUME DesktopInv, NEW k \in Call, NEW s \in DSession, HydrateLoads(k, s) PROVE DesktopInv'
BY LoadsKeeps DEF HydrateLoads

LEMMA ResumesKeeps ==
  ASSUME DesktopInv, NEW s \in DSession, Resumes(s) PROVE DesktopInv'
<1> USE DEF DesktopInv, WellHeld
<1>0. /\ disk[s].here /\ disk' = disk /\ Keeps(Loaded(s, disk[s].pages))
      /\ UNCHANGED <<live, task, request, said, reviews>>
  BY DEF Resumes, jobVars, bounds
<1>1. FileIs(s, disk[s].pages) /\ disk[s].pages \in [DPage -> PageShape] BY <1>0, FileAsItIs
<1>f. Fresh \notin view /\ Fresh \notin live /\ Fresh \notin CopiesOfCalls BY FreshIsFree DEF HeldCopies
<1>2. QueueIs(s)
  <2>1. CASE Pending(s)
    <3>1. Enqueue(s) BY <2>1 DEF Resumes
    <3> QED BY <3>1, <1>0, <1>f, QueueGrows DEF QueueIs
  <2>2. CASE ~Pending(s)
    <3>1. active' = active /\ waiting' = waiting BY <2>2 DEF Resumes
    <3> QED BY <3>1, <1>0, <1>f, QueueAsItIs DEF QueueIs
  <2> QED BY <2>1, <2>2
<1>4. \/ view' = view /\ doubled' = doubled
      \/ LiveOf(s) # {} /\ view' = LiveOf(s) /\ Published(s, LiveOf(s))
      \/ LiveOf(s) = {} /\ view' = {Fresh} /\ DoublesIf(s, s \in Of(CopiesOfCalls))
  BY DEF Resumes, Shows, KeepsView, Published
<1>5. Holders /\ CopiesOfCalls' = CopiesOfCalls
  BY <1>0, <1>4, HoldersAsTheyAre DEF OneEach, One, LiveOf
<1>6. TasksGo BY <1>0 DEF TasksGo
<1>7. doubled \subseteq doubled' BY <1>4 DEF Published, DoublesIf
<1>8. Excused(s)
  <2> SUFFICES ASSUME Fresh \in HeldCopies', s \notin doubled', NEW c \in HeldCopies', c # Fresh,
                      memory[c].of = {s}
               PROVE  FALSE
    BY DEF Excused
  <2>1. LiveOf(s) = {} /\ view' = {Fresh} /\ s \notin Of(CopiesOfCalls)
    BY <1>0, <1>4, <1>5, <1>f DEF HeldCopies, LiveOf, DoublesIf
  <2>2. c \in live \/ c \in CopiesOfCalls BY <2>1, <1>0, <1>5 DEF HeldCopies
  <2>3. CASE c \in live BY <2>1, <2>3 DEF LiveOf, InUse
  <2>4. CASE c \in CopiesOfCalls BY <2>4, <2>1 DEF Of
  <2> QED BY <2>2, <2>3, <2>4
<1>9. LoadStep(s, disk[s].pages) BY <1>0, <1>1, <1>2, <1>5, <1>6, <1>7, <1>8 DEF LoadStep
<1> QED BY <1>1, <1>9, LoadKeeps

LEMMA JobLoadsKeeps ==
  ASSUME DesktopInv, NEW s \in DSession, JobLoads(s) PROVE DesktopInv'
<1> USE DEF DesktopInv, WellHeld
<1>0. /\ active = {s} /\ Keeps(Loaded(s, disk[s].pages)) /\ live = {} /\ live' = {Fresh}
      /\ UNCHANGED <<disk, request, waiting, active, said, reviews>>
  BY DEF JobLoads, bounds
<1>a. disk[s].here BY <1>0 DEF InUse
<1>1. FileIs(s, disk[s].pages) /\ disk[s].pages \in [DPage -> PageShape] BY <1>0, <1>a, FileAsItIs
<1>2. QueueIs(s) BY <1>0, QueueAsItIs DEF QueueIs
<1>4. view' = view \/ view' = {Fresh} BY DEF JobLoads, KeepsView, Shows
<1>5. Holders /\ CopiesOfCalls' = CopiesOfCalls BY <1>0, <1>4, HoldersAsTheyAre DEF OneEach, One
<1>6. TasksGo BY DEF TasksGo, PageTasks, JobLoads
<1>7. doubled \subseteq doubled' /\ (s \in Of(view' \cup CopiesOfCalls) => s \in doubled')
  BY DEF JobLoads, DoublesIf
<1>8. Excused(s)
  <2> SUFFICES ASSUME s \notin doubled', NEW c \in HeldCopies', c # Fresh, memory[c].of = {s}
               PROVE  FALSE
    BY DEF Excused
  <2>1. c \in view' \cup CopiesOfCalls BY <1>0, <1>5 DEF HeldCopies
  <2> QED BY <2>1, <1>7 DEF Of
<1>9. LoadStep(s, disk[s].pages) BY <1>0, <1>1, <1>2, <1>5, <1>6, <1>7, <1>8 DEF LoadStep
<1> QED BY <1>1, <1>9, LoadKeeps

LEMMA StartUploadKeeps ==
  ASSUME DesktopInv, NEW s \in DSession, StartUpload(s) PROVE DesktopInv'
<1> USE DEF DesktopInv, WellHeld
<1>0. /\ ~disk[s].here /\ s \notin Of(HeldCopies)
      /\ disk' = [disk EXCEPT ![s] = [here |-> TRUE, pages |-> Pages("pending")]]
      /\ Keeps(Loaded(s, Pages("pending"))) /\ Enqueue(s)
      /\ UNCHANGED <<live, task, request, said, reviews, doubled>>
  BY DEF StartUpload, jobVars, bounds
<1>a. Pages("pending") \in [DPage -> PageShape] BY PagesFit
<1>b. [here |-> TRUE, pages |-> Pages("pending")] \in DirShape BY <1>a DEF DirShape
<1>1. FileIs(s, Pages("pending")) BY <1>0, <1>b DEF FileIs, DesktopShapes
<1>f. Fresh \notin live BY FreshIsFree DEF HeldCopies
<1>c. \A t \in DSession : disk[t].here => disk'[t].here BY <1>0, <1>1 DEF FileIs
<1>2. QueueIs(s) BY <1>0, <1>1, <1>c, <1>f, QueueGrows DEF FileIs, QueueIs
<1>4. view' = view \/ view' = {Fresh} BY DEF StartUpload
<1>5. Holders /\ CopiesOfCalls' = CopiesOfCalls BY <1>0, <1>4, HoldersAsTheyAre DEF OneEach, One
<1>6. TasksGo BY <1>0 DEF TasksGo
<1>8. Excused(s)
  <2>1. HeldCopies' \subseteq HeldCopies \cup {Fresh} BY <1>5 DEF Holders, HeldCopies
  <2>2. \A c \in HeldCopies : memory[c].of # {s} BY <1>0 DEF Of
  <2> QED BY <2>1, <2>2 DEF Excused
<1>9. LoadStep(s, Pages("pending")) BY <1>0, <1>1, <1>2, <1>5, <1>6, <1>8 DEF LoadStep
<1> QED BY <1>a, <1>9, LoadKeeps

LEMMA StartExistingKeeps ==
  ASSUME DesktopInv, NEW s \in DSession, StartExisting(s) PROVE DesktopInv'
<1> USE DEF DesktopInv, WellHeld
<1>p. PICK pages : pages = (IF disk[s].here THEN disk[s].pages ELSE Pages("ocrd")) OBVIOUS
<1>0. /\ disk' = [disk EXCEPT ![s] = [here |-> TRUE, pages |-> pages]]
      /\ IF \E p \in DPage : pages[p].st \notin Done
           THEN /\ Enqueue(s)
                /\ manual' = {}
                /\ IF active' = {s} THEN view' = {Fresh} /\ stage' = "processing"
                                    ELSE UNCHANGED <<view, stage>>
           ELSE Shows({Fresh}, "review", {}) /\ UNCHANGED <<active, waiting>>
      /\ Keeps(Loaded(s, pages))
      /\ UNCHANGED <<live, task, request, said, reviews>>
  BY <1>p DEF StartExisting, jobVars, bounds
<1>a. pages \in [DPage -> PageShape] BY <1>p, PagesFit DEF DesktopShapes, DirShape
<1>b. [here |-> TRUE, pages |-> pages] \in DirShape BY <1>a DEF DirShape
<1>1. FileIs(s, pages) BY <1>0, <1>b, <1>p DEF FileIs, DesktopShapes
<1>f. Fresh \notin view /\ Fresh \notin live /\ Fresh \notin CopiesOfCalls BY FreshIsFree DEF HeldCopies
<1>c. \A t \in DSession : disk[t].here => disk'[t].here BY <1>0, <1>1 DEF FileIs
<1>2. QueueIs(s)
  <2>1. CASE \E p \in DPage : pages[p].st \notin Done
    <3>1. Enqueue(s) BY <2>1, <1>0
    <3> QED BY <3>1, <1>0, <1>1, <1>c, <1>f, QueueGrows DEF FileIs, QueueIs
  <2>2. CASE ~\E p \in DPage : pages[p].st \notin Done
    <3>1. active' = active /\ waiting' = waiting BY <2>2, <1>0
    <3> QED BY <3>1, <1>0, <1>c, <1>f, QueueAsItIs DEF QueueIs
  <2> QED BY <2>1, <2>2
<1>4. view' = view \/ view' = {Fresh} BY <1>0 DEF Shows
<1>5. Holders /\ CopiesOfCalls' = CopiesOfCalls BY <1>0, <1>4, HoldersAsTheyAre DEF OneEach, One
<1>6. TasksGo BY <1>0 DEF TasksGo
<1>7. doubled \subseteq doubled' /\ (view' = {Fresh} /\ s \in Of(live \cup CopiesOfCalls) => s \in doubled')
  BY DEF StartExisting, DoublesIf
<1>8. Excused(s)
  <2> SUFFICES ASSUME Fresh \in HeldCopies', s \notin doubled', NEW c \in HeldCopies', c # Fresh,
                      memory[c].of = {s}
               PROVE  FALSE
    BY DEF Excused
  <2>1. view' = {Fresh} BY <1>0, <1>4, <1>5, <1>f DEF HeldCopies
  <2>2. c \in live \cup CopiesOfCalls BY <2>1, <1>0, <1>5 DEF HeldCopies
  <2> QED BY <2>1, <2>2, <1>7 DEF Of
<1>9. LoadStep(s, pages) BY <1>0, <1>1, <1>2, <1>5, <1>6, <1>7, <1>8 DEF LoadStep
<1> QED BY <1>a, <1>9, LoadKeeps

-----------------------------------------------------------------------------
(* A step that loads nothing.                                                *)
HoldStep ==
  /\ disk' \in [DSession -> DirShape] /\ memory' \in [Copy -> CopyShape] /\ QueueFits
  /\ HeldCopies' \subseteq HeldCopies /\ \A c \in HeldCopies' : memory'[c].of = memory[c].of
  /\ live' \subseteq live /\ (live' # {} => active' = active) /\ One(view')
  /\ request' \in [Call -> RequestShape] /\ \A k \in Call : One(request'[k].memory)
  /\ task' \in PageTasks /\ said' \in [DSession -> [DPage -> Nat]] /\ reviews' \in Nat
  /\ doubled' = doubled

LEMMA HoldKeeps ==
  ASSUME WellHeld, HoldStep PROVE WellHeld'
<1> USE DEF WellHeld
<1>1. OfOne' BY DEF OfOne, HoldStep
<1>2. Alone'
  <2> SUFFICES ASSUME NEW t \in DSession \ doubled, NEW c \in HeldCopies', NEW d \in HeldCopies',
                      memory'[c].of = {t}, memory'[d].of = {t}
               PROVE  c = d
    BY DEF Alone, HoldStep
  <2> QED BY DEF HoldStep, Alone
<1>3. view' \subseteq Copy /\ live' \subseteq Copy BY HeldAreCopies DEF HoldStep, HeldCopies
<1>4. DesktopShapes' BY <1>3 DEF DesktopShapes, HoldStep, QueueFits
<1>5. OneEach' BY DEF OneEach, One, HoldStep, QueueFits
<1>6. InUse'
  <2>1. \A c \in live' : memory'[c].of = active' BY DEF HoldStep, InUse, HeldCopies
  <2> QED BY <2>1 DEF InUse, HoldStep, QueueFits
<1> QED BY <1>1, <1>2, <1>4, <1>5, <1>6

(* Pages that are left alone, and that nobody lists anew.                    *)
Spares(t, p) ==
  /\ said'[t][p] = said[t][p] /\ disk'[t].here = disk[t].here
  /\ t \notin doubled /\ disk[t].here => disk'[t].pages[p] = disk[t].pages[p]
  /\ \A c \in HeldCopies' : memory'[c].pages[p] = memory[c].pages[p] /\ (Listed(c, p)' => Listed(c, p))

LEMMA SparedIsHad ==
  ASSUME DesktopInv, HoldStep, NEW t \in DSession, NEW p \in DPage,
         said'[t][p] > 0 => Spares(t, p)
  PROVE  SaidIsHad(t, p)'
<1> SUFFICES ASSUME said'[t][p] > 0
             PROVE  /\ disk'[t].here
                    /\ t \notin doubled' =>
                         /\ disk'[t].pages[p] = AsSaid(t, p)'
                         /\ \A c \in HeldCopies' : memory'[c].of = {t} =>
                              memory'[c].pages[p] = AsSaid(t, p)' /\ ~Listed(c, p)'
  BY DEF SaidIsHad
<1>1. said[t][p] > 0 /\ AsSaid(t, p)' = AsSaid(t, p) /\ Spares(t, p) BY DEF Spares, AsSaid
<1>2. SaidIsHad(t, p) BY DEF DesktopInv, AllSaid
<1>3. doubled' = doubled /\ HeldCopies' \subseteq HeldCopies
      /\ \A c \in HeldCopies' : memory'[c].of = memory[c].of
  BY DEF HoldStep
<1> QED BY <1>1, <1>2, <1>3 DEF SaidIsHad, Spares

LEMMA KeptCopies ==
  ASSUME DesktopShapes, HeldCopies' \subseteq HeldCopies, Keeps(memory)
  PROVE  memory' \in [Copy -> CopyShape] /\ \A c \in HeldCopies' : memory'[c] = memory[c]
<1>1. memory' = [c \in Copy |-> IF c \in HeldCopies' THEN memory[c] ELSE NoCopy] BY DEF Keeps
<1>2. NoCopy \in CopyShape BY PagesFit DEF NoCopy, CopyShape
<1>3. memory' \in [Copy -> CopyShape] BY <1>1, <1>2 DEF DesktopShapes
<1> QED BY <1>1, <1>3, HeldAreCopies

(* A step that changes no page and no file.                                  *)
SaidNoMore == \A t \in DSession, p \in DPage : said'[t][p] = said[t][p] \/ said'[t][p] = 0
ListedNoMore == \A c \in HeldCopies', p \in DPage : Listed(c, p)' => Listed(c, p)
KeepStep ==
  /\ disk' = disk /\ QueueFits
  /\ HeldCopies' \subseteq HeldCopies /\ \A c \in HeldCopies' : memory'[c] = memory[c]
  /\ memory' \in [Copy -> CopyShape]
  /\ live' \subseteq live /\ (live' # {} => active' = active) /\ One(view')
  /\ request' \in [Call -> RequestShape] /\ \A k \in Call : One(request'[k].memory)
  /\ task' \in PageTasks /\ said' \in [DSession -> [DPage -> Nat]] /\ SaidNoMore
  /\ doubled' = doubled /\ reviews' = reviews

LEMMA KeepKeeps ==
  ASSUME DesktopInv, KeepStep, ListedNoMore PROVE DesktopInv'
<1> USE DEF DesktopInv
<1>1. HoldStep BY DEF HoldStep, KeepStep, WellHeld, DesktopShapes
<1>2. WellHeld' BY <1>1, HoldKeeps
<1>3. ASSUME NEW t \in DSession, NEW p \in DPage PROVE SaidIsHad(t, p)'
  <2>1. said'[t][p] > 0 => Spares(t, p) BY DEF Spares, KeepStep, SaidNoMore, ListedNoMore
  <2> QED BY <2>1, <1>1, SparedIsHad
<1> QED BY <1>2, <1>3 DEF AllSaid

LEMMA ListedAsItWas ==
  ASSUME live' \subseteq live, \A p \in DPage : task'[p] = "todo" => task[p] = "todo",
         \A k \in Call : /\ request'[k].memory \subseteq request[k].memory \/ request'[k].todo = {}
                         /\ request'[k].todo \subseteq request[k].todo
  PROVE  ListedNoMore
BY DEF ListedNoMore, Listed

(* The copies that are held go from one holder to another, or are given up.  *)
LEMMA ShownKeeps ==
  ASSUME DesktopInv, HeldCopies' \subseteq HeldCopies, One(view'), Keeps(memory),
         UNCHANGED <<disk, waiting, active, live, task, said, doubled, reviews>>,
         request' \in [Call -> RequestShape],
         \A k \in Call : request'[k] = request[k] \/ request'[k] = NoCall
  PROVE  DesktopInv'
<1> USE DEF DesktopInv, WellHeld
<1>1. memory' \in [Copy -> CopyShape] /\ \A c \in HeldCopies' : memory'[c] = memory[c] BY KeptCopies
<1>2. QueueFits BY QueueAsItIs
<1>3. \A k \in Call : One(request'[k].memory) BY DEF OneEach, One, NoCall
<1>4. KeepStep BY <1>1, <1>2, <1>3 DEF KeepStep, DesktopShapes, SaidNoMore
<1>5. ListedNoMore
  <2>1. \A k \in Call : /\ request'[k].memory \subseteq request[k].memory
                        /\ request'[k].todo \subseteq request[k].todo
    BY DEF NoCall
  <2> QED BY <2>1, ListedAsItWas
<1> QED BY <1>4, <1>5, KeepKeeps

LEMMA OpensKeeps ==
  ASSUME DesktopInv, NEW s \in DSession, Opens(s) PROVE DesktopInv'
<1> USE DEF DesktopInv, WellHeld
<1>1. /\ UNCHANGED <<disk, waiting, active, live, task, request, said, doubled, reviews>>
      /\ Keeps(memory) /\ (view' = live \/ view' = view)
  BY DEF Opens, Held, LiveOf, Shows, jobVars, bounds
<1>2. HeldCopies' \subseteq HeldCopies BY <1>1 DEF HeldCopies, CopiesOfCalls
<1> QED BY <1>1, <1>2, ShownKeeps DEF OneEach, DesktopShapes

LEMMA HydratesKeeps ==
  ASSUME DesktopInv, NEW s \in DSession, Hydrates(s) PROVE DesktopInv'
<1> USE DEF DesktopInv, WellHeld
<1>1. /\ UNCHANGED <<disk, waiting, active, live, task, request, said, doubled, reviews>>
      /\ Keeps(memory) /\ view' = live
  BY DEF Hydrates, jobVars, bounds
<1>2. HeldCopies' \subseteq HeldCopies BY <1>1 DEF HeldCopies, CopiesOfCalls
<1> QED BY <1>1, <1>2, ShownKeeps DEF OneEach, DesktopShapes

LEMMA UnloadsKeeps ==
  ASSUME DesktopInv, NEW k \in Call, NEW what, Unloads(k, what), view' = request[k].memory
  PROVE  DesktopInv'
<1> USE DEF DesktopInv, WellHeld
<1>1. /\ UNCHANGED <<disk, waiting, active, live, task, said, doubled, reviews>>
      /\ Keeps(memory) /\ request' = [request EXCEPT ![k] = NoCall]
  BY DEF Unloads, jobVars, bounds
<1>2. request' \in [Call -> RequestShape] /\ \A l \in Call : request'[l] = request[l] \/ request'[l] = NoCall
  BY <1>1, NoCallFits DEF DesktopShapes
<1>3. HeldCopies' \subseteq HeldCopies BY <1>1, <1>2 DEF HeldCopies, CopiesOfCalls, NoCall
<1> QED BY <1>1, <1>2, <1>3, ShownKeeps DEF OneEach

LEMMA StartFailsKeeps ==
  ASSUME DesktopInv, StartFails PROVE DesktopInv'
<1> USE DEF DesktopInv, WellHeld
<1>1. UNCHANGED <<disk, memory, waiting, active, live, task, view, request, said, doubled, reviews>>
  BY DEF StartFails, jobVars, bounds
<1>2. HeldCopies' = HeldCopies BY <1>1 DEF HeldCopies, CopiesOfCalls
<1>3. QueueFits BY <1>1, QueueAsItIs
<1>4. KeepStep BY <1>1, <1>2, <1>3 DEF KeepStep, DesktopShapes, OneEach, SaidNoMore
<1>5. ListedNoMore BY <1>1, ListedAsItWas
<1> QED BY <1>4, <1>5, KeepKeeps

LEMMA ResetsKeeps ==
  ASSUME DesktopInv, Resets PROVE DesktopInv'
<1> USE DEF DesktopInv, WellHeld
<1>1. /\ UNCHANGED <<disk, waiting, active, live, task, request, said, doubled, reviews>>
      /\ view' = {} /\ Keeps(memory)
  BY DEF Resets, jobVars, bounds, Shows
<1>2. HeldCopies' \subseteq HeldCopies BY <1>1 DEF HeldCopies, CopiesOfCalls
<1> QED BY <1>1, <1>2, ShownKeeps DEF One, DesktopShapes

(* The job ends: nothing changes but who works on what.                      *)
LEMMA OcrJobEndsKeeps ==
  ASSUME DesktopInv, NEW s, NEW ok, OcrJobEnds(s, ok) PROVE DesktopInv'
<1> USE DEF DesktopInv, WellHeld
<1>0. /\ UNCHANGED <<disk, view, request, said, doubled, reviews>>
      /\ live' = {} /\ task' = NoTask /\ NextBook /\ Keeps(memory)
  BY DEF OcrJobEnds, RunEnds, bounds
<1>a. HeldCopies' \subseteq HeldCopies BY <1>0 DEF HeldCopies, CopiesOfCalls
<1>1. memory' \in [Copy -> CopyShape] /\ \A c \in HeldCopies' : memory'[c] = memory[c]
  BY <1>0, <1>a, KeptCopies
<1>2. QueueFits BY <1>0, NextBookFits
<1>3. task' \in PageTasks BY <1>0 DEF NoTask, PageTasks
<1>4. KeepStep BY <1>0, <1>a, <1>1, <1>2, <1>3 DEF KeepStep, DesktopShapes, OneEach, SaidNoMore
<1>5. ListedNoMore BY <1>0, ListedAsItWas DEF NoTask
<1> QED BY <1>4, <1>5, KeepKeeps

LEMMA AsksKeeps ==
  ASSUME DesktopInv, NEW k \in Call, NEW what \in {"redo", "review"}, NEW p \in DPage, Asks(k, what, p),
         said' \in [DSession -> [DPage -> Nat]], SaidNoMore
  PROVE  DesktopInv'
<1> USE DEF DesktopInv, WellHeld
<1>0. /\ UNCHANGED <<disk, memory, waiting, active, live, task, view, doubled, reviews>>
      /\ request' = [request EXCEPT ![k] = [NoCall EXCEPT !.kind = what, !.memory = view, !.page = {p}]]
  BY DEF Asks, jobVars, bounds
<1>r. PICK r : r = [NoCall EXCEPT !.kind = what, !.memory = view, !.page = {p}] OBVIOUS
<1>a. r \in RequestShape /\ r.memory = view /\ r.todo = {}
  BY <1>r DEF NoCall, RequestShape, DesktopShapes
<1>b. request' = [request EXCEPT ![k] = r] BY <1>0, <1>r
<1>c. request' \in [Call -> RequestShape] /\ \A l \in Call : request'[l] = request[l] \/ request'[l] = r
  BY <1>a, <1>b DEF DesktopShapes
<1>d. HeldCopies' \subseteq HeldCopies BY <1>0, <1>a, <1>c DEF HeldCopies, CopiesOfCalls
<1>e. \A l \in Call : One(request'[l].memory) BY <1>a, <1>c DEF OneEach
<1>2. QueueFits BY <1>0, QueueAsItIs
<1>3. KeepStep BY <1>0, <1>2, <1>c, <1>d, <1>e DEF KeepStep, DesktopShapes, OneEach
<1>4. ListedNoMore
  <2>1. \A l \in Call : /\ request'[l].memory \subseteq request[l].memory \/ request'[l].todo = {}
                        /\ request'[l].todo \subseteq request[l].todo
    BY <1>a, <1>c
  <2> QED BY <2>1, <1>0, ListedAsItWas
<1> QED BY <1>3, <1>4, KeepKeeps

LEMMA RedoBeginsKeeps ==
  ASSUME DesktopInv, NEW k \in Call, NEW p \in DPage, RedoBegins(k, p) PROVE DesktopInv'
<1>1. Asks(k, "redo", p) BY DEF RedoBegins
<1>2. said' = [s \in DSession |-> IF Of(view) = {s} THEN [said[s] EXCEPT ![p] = 0] ELSE said[s]]
  BY DEF RedoBegins
<1>3. said \in [DSession -> [DPage -> Nat]] BY DEF DesktopInv, WellHeld, DesktopShapes
<1>4. said' \in [DSession -> [DPage -> Nat]] BY <1>2, <1>3
<1>5. SaidNoMore
  <2> SUFFICES ASSUME NEW t \in DSession, NEW q \in DPage
               PROVE  said'[t][q] = said[t][q] \/ said'[t][q] = 0
    BY DEF SaidNoMore
  <2>1. said'[t] = said[t] \/ said'[t] = [said[t] EXCEPT ![p] = 0] BY <1>2
  <2> QED BY <2>1, <1>3
<1> QED BY <1>1, <1>4, <1>5, AsksKeeps

LEMMA ReviewBeginsKeeps ==
  ASSUME DesktopInv, NEW k \in Call, NEW p \in DPage, ReviewBegins(k, p) PROVE DesktopInv'
<1>1. Asks(k, "review", p) /\ said' = said BY DEF ReviewBegins
<1>2. SaidNoMore BY <1>1 DEF SaidNoMore
<1>3. said' \in [DSession -> [DPage -> Nat]] BY <1>1 DEF DesktopInv, WellHeld, DesktopShapes
<1> QED BY <1>1, <1>2, <1>3, AsksKeeps

(* The job lists the pages that its instance does not show as done.          *)
LEMMA JobListsKeeps ==
  ASSUME DesktopInv, NEW c \in Copy, JobLists(c) PROVE DesktopInv'
<1> USE DEF DesktopInv, WellHeld
<1>0. /\ UNCHANGED <<disk, memory, waiting, active, live, view, request, said, doubled, reviews>>
      /\ task' = [p \in DPage |-> IF memory[c].pages[p].st \in Done THEN "none" ELSE "todo"]
      /\ live = {c}
  BY DEF JobLists, bounds
<1>a. HeldCopies' = HeldCopies BY <1>0 DEF HeldCopies, CopiesOfCalls
<1>2. QueueFits BY <1>0, QueueAsItIs
<1>3. task' \in PageTasks BY <1>0 DEF PageTasks
<1>4. HoldStep BY <1>0, <1>a, <1>2, <1>3 DEF HoldStep, DesktopShapes, OneEach
<1>5. WellHeld' BY <1>4, HoldKeeps
<1>6. ASSUME NEW t \in DSession, NEW p \in DPage PROVE SaidIsHad(t, p)'
  <2> SUFFICES ASSUME said[t][p] > 0, t \notin doubled, NEW d \in HeldCopies, memory[d].of = {t},
                      Listed(d, p)'
               PROVE  FALSE
    BY <1>0, <1>a DEF AllSaid, SaidIsHad, AsSaid
  <2>0. SaidIsHad(t, p) BY DEF AllSaid
  <2>1. memory[d].pages[p] = AsSaid(t, p) /\ ~Listed(d, p) BY <2>0 DEF SaidIsHad
  <2>2. d = c /\ task'[p] = "todo" BY <2>1, <1>0 DEF Listed
  <2>3. memory[d].pages[p].st = "reviewed" BY <2>1 DEF AsSaid
  <2>4. task'[p] = "none" BY <2>2, <2>3, <1>0 DEF Done
  <2> QED BY <2>2, <2>4
<1> QED BY <1>5, <1>6 DEF AllSaid

-----------------------------------------------------------------------------
(* A session is deleted: nothing is left of it but in who still holds it.    *)
LEMMA CancelsKeeps ==
  ASSUME DesktopShapes, Queued(waiting), NEW s \in DSession, Cancels(s),
         \A t \in DSession : t # s => disk'[t] = disk[t]
  PROVE  waiting' \in Seq(DSession) /\ Queued(waiting)'
<1>1. waiting \in Seq(DSession) /\ DOMAIN waiting = Ix(waiting) /\ \A i \in DOMAIN waiting : waiting[i] \in DSession
  BY DEF DesktopShapes, Ix
<1>2. CASE s \notin InQueue /\ waiting' = waiting
  <2>1. \A i \in DOMAIN waiting : waiting[i] # s BY <1>2 DEF InQueue
  <2> QED BY <1>1, <1>2, <2>1 DEF Queued
<1>3. CASE \E i \in DOMAIN waiting :
             /\ waiting[i] = s
             /\ waiting' = SubSeq(waiting, 1, i - 1) \o SubSeq(waiting, i + 1, Len(waiting))
  <2>1. PICK i \in DOMAIN waiting :
               /\ waiting[i] = s
               /\ waiting' = SubSeq(waiting, 1, i - 1) \o SubSeq(waiting, i + 1, Len(waiting))
    BY <1>3
  <2>2. PICK w : w = waiting' OBVIOUS
  <2>3. w \in Seq(DSession) /\ LeavesOut(waiting, i, w) BY <1>1, <2>1, <2>2, TaskRemoved
  <2>4. DOMAIN w = Ix(w) BY <2>3 DEF Ix
  <2>5. \A k \in Ix(w) : disk'[w[k]].here
    <3> SUFFICES ASSUME NEW k \in Ix(w) PROVE disk'[w[k]].here OBVIOUS
    <3>1. PICK j \in Ix(waiting) : j # i /\ w[k] = waiting[j] BY <2>3 DEF LeavesOut
    <3>2. waiting[j] # s BY <3>1, <2>1, <1>1 DEF Queued
    <3> QED BY <3>1, <3>2, <1>1 DEF Queued
  <2>6. \A k, l \in Ix(w) : w[k] = w[l] => k = l
    <3> SUFFICES ASSUME NEW k \in Ix(w), NEW l \in Ix(w), w[k] = w[l], k # l PROVE FALSE OBVIOUS
    <3>1. PICK j \in Ix(waiting), h \in Ix(waiting) : j # h /\ w[k] = waiting[j] /\ w[l] = waiting[h]
      BY <2>3 DEF LeavesOut
    <3> QED BY <3>1, <1>1 DEF Queued
  <2> QED BY <2>2, <2>3, <2>4, <2>5, <2>6 DEF Queued
<1> QED BY <1>2, <1>3 DEF Cancels

LEMMA DeletesKeeps ==
  ASSUME DesktopInv, NEW s \in DSession, Deletes(s) PROVE DesktopInv'
<1> USE DEF DesktopInv, WellHeld
<1>0. /\ UNCHANGED <<active, live, task, request, doubled, reviews>>
      /\ disk' = [disk EXCEPT ![s] = NoDir] /\ s \notin active /\ Cancels(s) /\ Keeps(memory)
      /\ said' = [said EXCEPT ![s] = Nothing[s]]
      /\ view' = {} \/ view' = view
  BY DEF Deletes, jobVars, bounds
<1>a. HeldCopies' \subseteq HeldCopies BY <1>0 DEF HeldCopies, CopiesOfCalls
<1>1. memory' \in [Copy -> CopyShape] /\ \A c \in HeldCopies' : memory'[c] = memory[c]
  BY <1>0, <1>a, KeptCopies
<1>b. NoDir \in DirShape BY PagesFit DEF NoDir, DirShape
<1>c. /\ disk' \in [DSession -> DirShape] /\ \A t \in DSession : t # s => disk'[t] = disk[t]
  BY <1>0, <1>b DEF DesktopShapes
<1>2. waiting' \in Seq(DSession) /\ Queued(waiting)' BY <1>0, <1>c, CancelsKeeps DEF InUse
<1>3. QueueFits BY <1>0, <1>2, <1>c DEF QueueFits, OneEach, InUse, DesktopShapes
<1>d. Nothing[s] \in [DPage -> Nat] /\ \A p \in DPage : Nothing[s][p] = 0 BY DEF Nothing
<1>e. said' \in [DSession -> [DPage -> Nat]] BY <1>0, <1>d DEF DesktopShapes
<1>f. \A t \in DSession, p \in DPage : said'[t][p] = IF t = s THEN 0 ELSE said[t][p]
  BY <1>0, <1>d DEF DesktopShapes
<1>4. HoldStep BY <1>0, <1>1, <1>3, <1>a, <1>c, <1>e DEF HoldStep, DesktopShapes, OneEach, One
<1>5. WellHeld' BY <1>4, HoldKeeps
<1>6. ListedNoMore BY <1>0, ListedAsItWas
<1>7. ASSUME NEW t \in DSession, NEW p \in DPage PROVE SaidIsHad(t, p)'
  <2>1. said'[t][p] > 0 => Spares(t, p) BY <1>1, <1>6, <1>c, <1>f DEF Spares, ListedNoMore
  <2> QED BY <2>1, <1>4, SparedIsHad
<1> QED BY <1>5, <1>7 DEF AllSaid

-----------------------------------------------------------------------------
(* A page of an instance of s changes, and mostly the file with it.          *)
Changes(c, p, page) == Keeps([memory EXCEPT ![c].pages = [memory[c].pages EXCEPT ![p] = page]])
FileSaved(c, p, page) ==
  disk' = [t \in DSession |-> IF {t} = memory[c].of /\ disk[t].here
             THEN [disk[t] EXCEPT !.pages = [memory[c].pages EXCEPT ![p] = page]] ELSE disk[t]]
PageStep(c, s, p, page) ==
  /\ c \in HeldCopies /\ memory[c].of = {s} /\ Changes(c, p, page)
  /\ disk' = disk \/ FileSaved(c, p, page)
  /\ HeldCopies' \subseteq HeldCopies /\ live' \subseteq live /\ (live' # {} => active' = active)
  /\ (\A t \in DSession : disk[t].here => disk'[t].here) => QueueFits
  /\ view' = view /\ doubled' = doubled /\ ListedNoMore
  /\ request' \in [Call -> RequestShape] /\ \A k \in Call : One(request'[k].memory)
  /\ task' \in PageTasks /\ said' \in [DSession -> [DPage -> Nat]] /\ reviews' \in Nat

(* What is said of the page that changed: nothing, or what is now in it.     *)
SaidOfChanged(c, s, p, page) ==
  said'[s][p] > 0 =>
    /\ disk[s].here
    /\ s \notin doubled => /\ page = AsSaid(s, p)' /\ ~Listed(c, p)
                           /\ FileSaved(c, p, page) \/ disk'[s].pages[p] = page
SaidOfOthers(s, p) ==
  \A t \in DSession, q \in DPage : t # s \/ q # p => said'[t][q] = said[t][q]

LEMMA PageStepKeeps ==
  ASSUME DesktopInv, NEW c, NEW s \in DSession, NEW p \in DPage, NEW page \in PageShape,
         PageStep(c, s, p, page), SaidOfChanged(c, s, p, page), SaidOfOthers(s, p)
  PROVE  DesktopInv'
<1> USE DEF DesktopInv, WellHeld
<1>p. PICK pages : pages = [memory[c].pages EXCEPT ![p] = page] OBVIOUS
<1>0. /\ Keeps([memory EXCEPT ![c].pages = pages])
      /\ FileSaved(c, p, page) =>
           disk' = [t \in DSession |-> IF {t} = memory[c].of /\ disk[t].here
                                         THEN [disk[t] EXCEPT !.pages = pages] ELSE disk[t]]
  BY <1>p DEF PageStep, Changes, FileSaved
<1>1. HeldCopies \subseteq Copy BY HeldAreCopies
<1>2. HeldCopies' \subseteq HeldCopies /\ doubled' = doubled BY DEF PageStep
<1>3. c \in Copy /\ c \in HeldCopies /\ memory[c].of = {s} BY <1>1 DEF PageStep
<1>4. memory[c].pages \in [DPage -> PageShape] BY <1>3 DEF DesktopShapes, CopyShape
<1>5. /\ pages \in [DPage -> PageShape] /\ pages[p] = page
      /\ \A q \in DPage : q # p => pages[q] = memory[c].pages[q]
  BY <1>p, <1>4
<1>6. \A t \in DSession : disk[t] \in DirShape BY DEF DesktopShapes
<1>7. \A t \in DSession : /\ disk'[t] \in DirShape /\ disk'[t].here = disk[t].here
                          /\ (t # s => disk'[t] = disk[t])
                          /\ disk'[t] = disk[t] \/ disk'[t].pages = pages
                          /\ (FileSaved(c, p, page) /\ disk[s].here => disk'[s].pages = pages)
  <2>1. CASE disk' = disk
    <3> SUFFICES ASSUME FileSaved(c, p, page), disk[s].here PROVE disk'[s].pages = pages
      BY <2>1, <1>6
    <3>1. disk'[s] = [disk[s] EXCEPT !.pages = pages] BY <1>0, <1>3
    <3> QED BY <3>1, <1>5, <1>6 DEF DirShape
  <2>2. CASE FileSaved(c, p, page)
    <3>1. \A t \in DSession : disk'[t] = IF t = s /\ disk[t].here
                                           THEN [disk[t] EXCEPT !.pages = pages] ELSE disk[t]
      BY <2>2, <1>0, <1>3
    <3> QED BY <3>1, <1>5, <1>6 DEF DirShape
  <2> QED BY <2>1, <2>2 DEF PageStep
<1>9. disk' \in [DSession -> DirShape] BY <1>7 DEF PageStep, FileSaved, DesktopShapes
<1>10. PICK altered : altered = [memory EXCEPT ![c].pages = pages] OBVIOUS
<1>11. memory' = [d \in Copy |-> IF d \in HeldCopies' THEN altered[d] ELSE NoCopy] BY <1>0, <1>10 DEF Keeps
<1>12. \A d \in Copy : /\ altered[d] \in CopyShape /\ altered[d].of = memory[d].of
                       /\ altered[d].pages = IF d = c THEN pages ELSE memory[d].pages
  BY <1>3, <1>5, <1>10 DEF DesktopShapes, CopyShape
<1>13. NoCopy \in CopyShape BY PagesFit DEF NoCopy, CopyShape
<1>14. memory' \in [Copy -> CopyShape] BY <1>11, <1>12, <1>13
<1>15. \A d \in HeldCopies' : /\ d \in HeldCopies /\ memory'[d].of = memory[d].of
                              /\ memory'[d].pages = IF d = c THEN pages ELSE memory[d].pages
  BY <1>1, <1>2, <1>11, <1>12
<1>16. HoldStep BY <1>2, <1>7, <1>9, <1>14, <1>15 DEF PageStep, HoldStep, OneEach
<1>17. WellHeld' BY <1>16, HoldKeeps
<1>18. ASSUME NEW t \in DSession, NEW q \in DPage PROVE SaidIsHad(t, q)'
  <2>0. SaidIsHad(t, q) /\ SaidIsHad(s, q) BY DEF AllSaid
  <2>1. CASE t # s \/ q # p
    <3>1. said'[t][q] = said[t][q] BY <2>1 DEF SaidOfOthers
    <3> SUFFICES ASSUME said[t][q] > 0, t \notin doubled
                 PROVE  /\ disk'[t].pages[q] = AsSaid(t, q)
                        /\ \A d \in HeldCopies' : memory'[d].of = {t} =>
                             memory'[d].pages[q] = AsSaid(t, q) /\ ~Listed(d, q)'
      BY <2>0, <3>1, <1>2, <1>7 DEF SaidIsHad, AsSaid
    <3>2. /\ disk[t].here /\ disk[t].pages[q] = AsSaid(t, q)
          /\ \A d \in HeldCopies : memory[d].of = {t} =>
               memory[d].pages[q] = AsSaid(t, q) /\ ~Listed(d, q)
      BY <2>0 DEF SaidIsHad
    <3>3. t = s => pages[q] = AsSaid(t, q) BY <2>1, <3>2, <1>3, <1>5
    <3>4. disk'[t].pages[q] = AsSaid(t, q) BY <3>2, <3>3, <1>7
    <3>5. ASSUME NEW d \in HeldCopies', memory'[d].of = {t}
          PROVE  memory'[d].pages[q] = AsSaid(t, q) /\ ~Listed(d, q)'
      <4>1. d \in HeldCopies /\ memory[d].of = {t} BY <3>5, <1>15
      <4>2. ~Listed(d, q)' BY <4>1, <3>2 DEF PageStep, ListedNoMore
      <4>3. CASE d = c
        <5>1. t = s BY <4>1, <4>3, <1>3
        <5> QED BY <5>1, <3>3, <4>2, <4>3, <1>15
      <4>4. CASE d # c BY <4>1, <4>2, <4>4, <3>2, <1>15
      <4> QED BY <4>3, <4>4
    <3> QED BY <3>4, <3>5
  <2>2. CASE t = s /\ q = p
    <3> SUFFICES ASSUME said'[s][p] > 0
                 PROVE  /\ disk'[s].here
                        /\ s \notin doubled' =>
                             /\ disk'[s].pages[p] = AsSaid(s, p)'
                             /\ \A d \in HeldCopies' : memory'[d].of = {s} =>
                                  memory'[d].pages[p] = AsSaid(s, p)' /\ ~Listed(d, p)'
      BY <2>2 DEF SaidIsHad
    <3>1. disk[s].here /\ disk'[s].here BY <1>7 DEF SaidOfChanged
    <3>2. ASSUME s \notin doubled
          PROVE  /\ disk'[s].pages[p] = AsSaid(s, p)'
                 /\ \A d \in HeldCopies' : memory'[d].of = {s} =>
                      memory'[d].pages[p] = AsSaid(s, p)' /\ ~Listed(d, p)'
      <4>1. /\ page = AsSaid(s, p)' /\ ~Listed(c, p)
            /\ FileSaved(c, p, page) \/ disk'[s].pages[p] = page
        BY <3>2 DEF SaidOfChanged
      <4>2. disk'[s].pages[p] = page BY <4>1, <3>1, <1>5, <1>7
      <4>3. ASSUME NEW d \in HeldCopies', memory'[d].of = {s} PROVE d = c
        BY <4>3, <3>2, <1>3, <1>15 DEF Alone
      <4> QED BY <4>1, <4>2, <4>3, <1>5, <1>15 DEF PageStep, ListedNoMore
    <3> QED BY <3>1, <3>2, <1>2
  <2> QED BY <2>1, <2>2
<1> QED BY <1>17, <1>18 DEF AllSaid

(* The task of a page: it takes the page, answers, or ends with an error.    *)
TaskStep(c, s) ==
  /\ c \in HeldCopies /\ memory[c].of = {s}
  /\ HeldCopies' \subseteq HeldCopies /\ live' \subseteq live /\ (live' # {} => active' = active)
  /\ (\A t \in DSession : disk[t].here => disk'[t].here) => QueueFits
  /\ UNCHANGED <<view, doubled, said, reviews>> /\ ListedNoMore
  /\ request' \in [Call -> RequestShape] /\ \A k \in Call : One(request'[k].memory)
  /\ task' \in PageTasks

LEMMA TaskStepKeeps ==
  ASSUME DesktopInv, NEW c, NEW s \in DSession, NEW p \in DPage, NEW page \in PageShape,
         TaskStep(c, s), Changes(c, p, page), disk' = disk \/ FileSaved(c, p, page),
         s \notin doubled /\ said[s][p] > 0 =>
           page = AsSaid(s, p) /\ ~Listed(c, p) /\ FileSaved(c, p, page)
  PROVE  DesktopInv'
<1>1. PageStep(c, s, p, page) BY DEF TaskStep, PageStep, DesktopInv, WellHeld, DesktopShapes
<1>2. SaidIsHad(s, p) /\ AsSaid(s, p)' = AsSaid(s, p) BY DEF DesktopInv, AllSaid, TaskStep, AsSaid
<1>3. SaidOfChanged(c, s, p, page) BY <1>2 DEF SaidOfChanged, SaidIsHad, TaskStep
<1>4. SaidOfOthers(s, p) BY DEF SaidOfOthers, TaskStep
<1> QED BY <1>1, <1>3, <1>4, PageStepKeeps

LEMMA SavesChanges ==
  ASSUME NEW c, NEW p, NEW page, Saves(c, p, page) PROVE Changes(c, p, page) /\ FileSaved(c, p, page)
BY DEF Saves, Changes, FileSaved

LEMMA UnsavedChanges ==
  ASSUME DesktopShapes, NEW c \in Copy, NEW p \in DPage, NEW page, Unsaved(c, p, page)
  PROVE  Changes(c, p, page) /\ disk' = disk
<1>1. [memory EXCEPT ![c].pages[p] = page] = [memory EXCEPT ![c].pages = [memory[c].pages EXCEPT ![p] = page]]
  BY DEF DesktopShapes, CopyShape
<1> QED BY <1>1 DEF Unsaved, Changes

(* A page that is listed is not one that was saved by hand.                  *)
LEMMA ListedIsUnsaid ==
  ASSUME DesktopInv, NEW c \in HeldCopies, NEW s \in DSession, NEW p \in DPage,
         memory[c].of = {s}, s \notin doubled, said[s][p] > 0
  PROVE  ~Listed(c, p) /\ memory[c].pages[p] = AsSaid(s, p)
BY DEF DesktopInv, AllSaid, SaidIsHad

LEMMA TakesKeeps ==
  ASSUME DesktopInv, NEW c, NEW s \in DSession, NEW p \in DPage, TaskStep(c, s), Listed(c, p), Takes(c, p)
  PROVE  DesktopInv'
<1>1. PICK page : page = [st |-> "processing", rev |-> 0] OBVIOUS
<1>2. page \in PageShape BY <1>1 DEF PageShape
<1>3. Changes(c, p, page) /\ FileSaved(c, p, page) BY <1>1, SavesChanges DEF Takes
<1>4. s \notin doubled => ~(said[s][p] > 0) BY ListedIsUnsaid DEF TaskStep
<1> QED BY <1>2, <1>3, <1>4, TaskStepKeeps

LEMMA SameKeeps ==
  ASSUME DesktopInv, NEW c, NEW s \in DSession, TaskStep(c, s), UNCHANGED disk, Keeps(memory)
  PROVE  DesktopInv'
<1> USE DEF DesktopInv, WellHeld
<1>1. memory' \in [Copy -> CopyShape] /\ \A d \in HeldCopies' : memory'[d] = memory[d]
  BY KeptCopies DEF TaskStep
<1>2. KeepStep BY <1>1 DEF KeepStep, TaskStep, DesktopShapes, OneEach, SaidNoMore
<1> QED BY <1>2, KeepKeeps DEF TaskStep

LEMMA OcrAnswersKeeps ==
  ASSUME DesktopInv, NEW c, NEW s \in DSession, NEW p \in DPage, TaskStep(c, s), OcrAnswers(c, p)
  PROVE  DesktopInv'
<1> USE DEF DesktopInv, WellHeld
<1>0. c \in HeldCopies /\ memory[c].of = {s} BY DEF TaskStep
<1>1. PICK v \in {"ocrd", "failed"} :
        IF v = "failed" /\ memory[c].pages[p].st = "reviewed"
          THEN UNCHANGED disk /\ Keeps(memory)
          ELSE Saves(c, p, Answered(memory[c].pages[p], v))
  BY DEF OcrAnswers
<1>2. CASE UNCHANGED disk /\ Keeps(memory) BY <1>2, SameKeeps
<1>3. CASE Saves(c, p, Answered(memory[c].pages[p], v))
  <2>1. PICK page : page = Answered(memory[c].pages[p], v) OBVIOUS
  <2>2. memory[c].pages[p] \in PageShape BY <1>0, HeldAreCopies DEF DesktopShapes, CopyShape
  <2>3. page \in PageShape BY <2>1, <2>2 DEF Answered, PageShape
  <2>4. Changes(c, p, page) /\ FileSaved(c, p, page) BY <1>3, <2>1, SavesChanges
  <2>5. ASSUME s \notin doubled, said[s][p] > 0 PROVE page = AsSaid(s, p) /\ ~Listed(c, p)
    <3>1. ~Listed(c, p) /\ memory[c].pages[p] = AsSaid(s, p) BY <2>5, <1>0, ListedIsUnsaid
    <3> QED BY <3>1, <2>1 DEF Answered, AsSaid
  <2> QED BY <2>3, <2>4, <2>5, TaskStepKeeps
<1> QED BY <1>1, <1>2, <1>3

LEMMA TaskRaisesKeeps ==
  ASSUME DesktopInv, NEW c, NEW s \in DSession, NEW p \in DPage, NEW st, TaskStep(c, s),
         TaskRaises(c, p, st), st = "todo" => Listed(c, p)
  PROVE  DesktopInv'
<1> USE DEF DesktopInv, WellHeld
<1>0. c \in HeldCopies /\ memory[c].of = {s} /\ c \in Copy BY HeldAreCopies DEF TaskStep
<1>a. memory[c].pages[p] \in PageShape BY <1>0 DEF DesktopShapes, CopyShape
<1>1. CASE st = "todo" /\ Takes(c, p) BY <1>1, TakesKeeps
<1>2. CASE st = "todo" /\ Unsaved(c, p, [st |-> "processing", rev |-> 0])
  <2>1. PICK page : page = [st |-> "processing", rev |-> 0] OBVIOUS
  <2>2. page \in PageShape BY <2>1 DEF PageShape
  <2>3. Changes(c, p, page) /\ disk' = disk BY <1>0, <1>2, <2>1, UnsavedChanges
  <2>4. s \notin doubled => ~(said[s][p] > 0) BY <1>0, <1>2, ListedIsUnsaid
  <2> QED BY <2>2, <2>3, <2>4, TaskStepKeeps
<1>3. CASE /\ memory[c].pages[p].st # "reviewed"
           /\ \E rev \in {0, memory[c].pages[p].rev} : Unsaved(c, p, [st |-> "failed", rev |-> rev])
  <2>0. PICK rev \in {0, memory[c].pages[p].rev} : Unsaved(c, p, [st |-> "failed", rev |-> rev]) BY <1>3
  <2>1. PICK page : page = [st |-> "failed", rev |-> rev] OBVIOUS
  <2>2. page \in PageShape BY <2>1, <1>a DEF PageShape
  <2>3. Changes(c, p, page) /\ disk' = disk BY <1>0, <2>0, <2>1, UnsavedChanges
  <2>4. ASSUME s \notin doubled, said[s][p] > 0 PROVE FALSE
    <3>1. memory[c].pages[p] = AsSaid(s, p) BY <2>4, <1>0, ListedIsUnsaid
    <3>2. memory[c].pages[p].st = "reviewed" BY <3>1 DEF AsSaid
    <3> QED BY <3>2, <1>3
  <2> QED BY <2>2, <2>3, <2>4, TaskStepKeeps
<1> QED BY <1>1, <1>2, <1>3 DEF TaskRaises

(* The tasks of the running job.                                             *)
LEMMA JobTaskSteps ==
  ASSUME DesktopInv, NEW c \in Copy, NEW p \in DPage, NEW v \in {"none", "ocr"}, live = {c},
         UNCHANGED <<waiting, active, live, view, request, said, doubled, reviews>>,
         task' = [task EXCEPT ![p] = v]
  PROVE  \E s \in DSession : TaskStep(c, s)
<1> USE DEF DesktopInv, WellHeld
<1>1. c \in HeldCopies BY DEF HeldCopies
<1>2. PICK s \in DSession : memory[c].of = {s} BY <1>1 DEF OfOne
<1>3. HeldCopies' = HeldCopies BY DEF HeldCopies, CopiesOfCalls
<1>4. task' \in PageTasks /\ \A q \in DPage : task'[q] = "todo" => task[q] = "todo"
  BY DEF DesktopShapes, PageTasks
<1>5. ListedNoMore BY <1>4, ListedAsItWas
<1>6. (\A t \in DSession : disk[t].here => disk'[t].here) => QueueFits BY QueueAsItIs
<1>7. TaskStep(c, s) BY <1>1, <1>2, <1>3, <1>4, <1>5, <1>6 DEF TaskStep, DesktopShapes, OneEach
<1> QED BY <1>7

LEMMA JobTakesKeeps ==
  ASSUME DesktopInv, NEW c \in Copy, NEW p \in DPage, JobTakes(c, p) PROVE DesktopInv'
<1>0. /\ UNCHANGED <<waiting, active, live, view, request, said, doubled, reviews>>
      /\ live = {c} /\ task[p] = "todo" /\ task' = [task EXCEPT ![p] = "ocr"] /\ Takes(c, p)
  BY DEF JobTakes, bounds
<1>1. PICK s \in DSession : TaskStep(c, s) BY <1>0, JobTaskSteps
<1>2. Listed(c, p) BY <1>0 DEF Listed
<1> QED BY <1>0, <1>1, <1>2, TakesKeeps

LEMMA JobAnswersKeeps ==
  ASSUME DesktopInv, NEW c \in Copy, NEW p \in DPage, JobAnswers(c, p) PROVE DesktopInv'
<1>0. /\ UNCHANGED <<waiting, active, live, view, request, said, doubled, reviews>>
      /\ live = {c} /\ task' = [task EXCEPT ![p] = "none"] /\ OcrAnswers(c, p)
  BY DEF JobAnswers, bounds
<1>1. PICK s \in DSession : TaskStep(c, s) BY <1>0, JobTaskSteps
<1> QED BY <1>0, <1>1, OcrAnswersKeeps

(* A task breaks off the job: what is left of it holds its instance.         *)
LEMMA LeavesFits ==
  ASSUME DesktopInv, NEW c \in Copy, NEW p \in DPage, Leaves(c, p), live = {c}, live' = {}, view' = view,
         task' = NoTask
  PROVE  /\ HeldCopies' \subseteq HeldCopies /\ ListedNoMore
         /\ request' \in [Call -> RequestShape] /\ \A k \in Call : One(request'[k].memory)
<1> USE DEF DesktopInv, WellHeld
<1>1. CASE request' = request
  <2>1. ListedNoMore BY <1>1, ListedAsItWas DEF NoTask
  <2>2. CopiesOfCalls' = CopiesOfCalls BY <1>1 DEF CopiesOfCalls
  <2> QED BY <2>1, <2>2, <1>1 DEF HeldCopies, DesktopShapes, OneEach
<1>2. CASE request' # request
  <2>0. PICK todo, ocr : /\ todo = {q \in DPage \ {p} : task[q] = "todo"}
                         /\ ocr = {q \in DPage \ {p} : task[q] = "ocr"}
    OBVIOUS
  <2>a. PICK r : r = [kind |-> "job", memory |-> {c}, page |-> ocr, todo |-> todo] OBVIOUS
  <2>1. PICK k \in Call : request' = [request EXCEPT ![k] = r] BY <1>2, <2>0, <2>a DEF Leaves
  <2>2. r \in RequestShape BY <2>0, <2>a DEF RequestShape
  <2>3. request' \in [Call -> RequestShape] /\ \A l \in Call : request'[l] = request[l] \/ request'[l] = r
    BY <2>1, <2>2 DEF DesktopShapes
  <2>4. \A l \in Call : One(request'[l].memory) BY <2>a, <2>3 DEF One, OneEach
  <2>5. HeldCopies' \subseteq HeldCopies
    <3>1. CopiesOfCalls' \subseteq CopiesOfCalls \cup {c} BY <2>a, <2>3 DEF CopiesOfCalls
    <3> QED BY <3>1 DEF HeldCopies
  <2>6. ListedNoMore
    <3> SUFFICES ASSUME NEW d \in HeldCopies', NEW q \in DPage, Listed(d, q)' PROVE Listed(d, q)
      BY DEF ListedNoMore
    <3>1. PICK l \in Call : d \in request'[l].memory /\ q \in request'[l].todo BY DEF Listed
    <3>2. CASE request'[l] = request[l] BY <3>1, <3>2 DEF Listed
    <3>3. CASE request'[l] = r BY <3>1, <3>3, <2>0, <2>a DEF Listed
    <3> QED BY <3>2, <3>3, <2>3
  <2> QED BY <2>3, <2>4, <2>5, <2>6
<1> QED BY <1>1, <1>2

LEMMA JobBreaksKeeps ==
  ASSUME DesktopInv, NEW r \in DSession, NEW c \in Copy, NEW p \in DPage, JobBreaks(r, c, p)
  PROVE  DesktopInv'
<1> USE DEF DesktopInv, WellHeld
<1>0. /\ UNCHANGED <<view, said, doubled, reviews>> /\ live = {c} /\ live' = {} /\ task' = NoTask
      /\ NextBook /\ Leaves(c, p) /\ TaskRaises(c, p, task[p])
  BY DEF JobBreaks, RunEnds, bounds
<1>1. c \in HeldCopies BY <1>0 DEF HeldCopies
<1>2. PICK s \in DSession : memory[c].of = {s} BY <1>1 DEF OfOne
<1>3. /\ HeldCopies' \subseteq HeldCopies /\ ListedNoMore
      /\ request' \in [Call -> RequestShape] /\ \A k \in Call : One(request'[k].memory)
  BY <1>0, LeavesFits
<1>4. task' \in PageTasks BY <1>0 DEF NoTask, PageTasks
<1>5. (\A t \in DSession : disk[t].here => disk'[t].here) => QueueFits BY <1>0, NextBookFits
<1>6. TaskStep(c, s) BY <1>0, <1>1, <1>2, <1>3, <1>4, <1>5 DEF TaskStep
<1>7. task[p] = "todo" => Listed(c, p) BY <1>0 DEF Listed
<1> QED BY <1>0, <1>6, <1>7, TaskRaisesKeeps

(* The tasks that are left of a job.                                         *)
LEMMA LeftoverSteps ==
  ASSUME DesktopInv, NEW k \in Call, NEW c \in Copy, NEW page \in SUBSET DPage, NEW todo \in SUBSET DPage,
         Leftover(k, c, page, todo), todo \subseteq request[k].todo
  PROVE  \E s \in DSession : TaskStep(c, s)
<1> USE DEF DesktopInv, WellHeld
<1>0. /\ request[k].memory = {c}
      /\ UNCHANGED <<waiting, active, live, task, view, said, doubled, reviews>>
      /\ request' = [request EXCEPT ![k] =
           IF page \cup todo = {} THEN NoCall ELSE [request[k] EXCEPT !.page = page, !.todo = todo]]
  BY DEF Leftover, jobVars, bounds
<1>r. PICK r : r = IF page \cup todo = {} THEN NoCall ELSE [request[k] EXCEPT !.page = page, !.todo = todo]
  OBVIOUS
<1>a. r \in RequestShape /\ r.memory \subseteq {c} /\ r.todo \subseteq request[k].todo
  BY <1>0, <1>r, NoCallFits DEF DesktopShapes, RequestShape, NoCall
<1>b. /\ request' \in [Call -> RequestShape]
      /\ \A l \in Call : request'[l] = request[l] \/ (l = k /\ request'[l] = r)
  BY <1>0, <1>a, <1>r DEF DesktopShapes
<1>c. \A l \in Call : /\ request'[l].memory \subseteq request[l].memory
                      /\ request'[l].todo \subseteq request[l].todo
  BY <1>0, <1>a, <1>b
<1>1. c \in HeldCopies BY <1>0 DEF HeldCopies, CopiesOfCalls
<1>2. PICK s \in DSession : memory[c].of = {s} BY <1>1 DEF OfOne
<1>3. HeldCopies' \subseteq HeldCopies BY <1>0, <1>c DEF HeldCopies, CopiesOfCalls
<1>4. ListedNoMore BY <1>0, <1>c, ListedAsItWas
<1>5. (\A t \in DSession : disk[t].here => disk'[t].here) => QueueFits BY <1>0, QueueAsItIs
<1>6. \A l \in Call : One(request'[l].memory) BY <1>c DEF OneEach, One
<1>7. TaskStep(c, s)
  BY <1>0, <1>1, <1>2, <1>3, <1>4, <1>5, <1>6, <1>b DEF TaskStep, DesktopShapes, OneEach
<1> QED BY <1>7

LEMMA LeftTakesKeeps ==
  ASSUME DesktopInv, NEW k \in Call, NEW c \in Copy, NEW p \in DPage, LeftTakes(k, c, p)
  PROVE  DesktopInv'
<1>0. request[k].page \in SUBSET DPage /\ request[k].todo \in SUBSET DPage /\ p \in request[k].todo
  BY DEF LeftTakes, DesktopInv, WellHeld, DesktopShapes, RequestShape
<1>1. CASE Leftover(k, c, request[k].page \cup {p}, request[k].todo \ {p}) /\ Takes(c, p)
  <2>1. PICK s \in DSession : TaskStep(c, s) BY <1>0, <1>1, LeftoverSteps
  <2>2. Listed(c, p) BY <1>0, <1>1 DEF Listed, Leftover
  <2> QED BY <1>1, <2>1, <2>2, TakesKeeps
<1>2. CASE Leftover(k, c, request[k].page, request[k].todo \ {p}) /\ TaskRaises(c, p, "todo")
  <2>1. PICK s \in DSession : TaskStep(c, s) BY <1>0, <1>2, LeftoverSteps
  <2>2. Listed(c, p) BY <1>0, <1>2 DEF Listed, Leftover
  <2> QED BY <1>2, <2>1, <2>2, TaskRaisesKeeps
<1> QED BY <1>1, <1>2 DEF LeftTakes

LEMMA LeftAnswersKeeps ==
  ASSUME DesktopInv, NEW k \in Call, NEW c \in Copy, NEW p \in DPage, LeftAnswers(k, c, p)
  PROVE  DesktopInv'
<1>0. request[k].page \in SUBSET DPage /\ request[k].todo \in SUBSET DPage
  BY DEF DesktopInv, WellHeld, DesktopShapes, RequestShape
<1>1. PICK s \in DSession : TaskStep(c, s) BY <1>0, LeftoverSteps DEF LeftAnswers
<1>2. CASE OcrAnswers(c, p) BY <1>1, <1>2, OcrAnswersKeeps
<1>3. CASE TaskRaises(c, p, "ocr") BY <1>1, <1>3, TaskRaisesKeeps
<1>4. CASE UNCHANGED disk /\ Keeps(memory) BY <1>1, <1>4, SameKeeps
<1> QED BY <1>2, <1>3, <1>4 DEF LeftAnswers

-----------------------------------------------------------------------------
(* Requests on a page end.                                                   *)
LEMMA UnsaidFits ==
  ASSUME DesktopShapes, NEW s \in DSession, NEW p \in DPage, NEW n \in Nat,
         said' = [said EXCEPT ![s][p] = n]
  PROVE  said' \in [DSession -> [DPage -> Nat]] /\ SaidOfOthers(s, p) /\ said'[s][p] = n
<1>1. said \in [DSession -> [DPage -> Nat]] BY DEF DesktopShapes
<1>2. said' \in [DSession -> [DPage -> Nat]] BY <1>1
<1>3. \A t \in DSession, q \in DPage : said'[t][q] = IF t = s /\ q = p THEN n ELSE said[t][q]
  BY <1>1
<1> QED BY <1>2, <1>3 DEF SaidOfOthers

LEMMA CallEnds ==
  ASSUME DesktopInv, NEW k \in Call, request' = [request EXCEPT ![k] = NoCall],
         UNCHANGED <<waiting, active, live, task, view, doubled>>
  PROVE  /\ request' \in [Call -> RequestShape] /\ \A l \in Call : One(request'[l].memory)
         /\ HeldCopies' \subseteq HeldCopies /\ ListedNoMore
         /\ (\A t \in DSession : disk[t].here => disk'[t].here) => QueueFits
<1> USE DEF DesktopInv, WellHeld
<1>1. request' \in [Call -> RequestShape] BY NoCallFits DEF DesktopShapes
<1>2. \A l \in Call : request'[l] = request[l] \/ request'[l] = NoCall BY DEF DesktopShapes
<1>3. \A l \in Call : One(request'[l].memory) BY <1>2 DEF OneEach, One, NoCall
<1>4. \A l \in Call : request'[l].memory \subseteq request[l].memory /\ request'[l].todo \subseteq request[l].todo
  BY <1>2 DEF NoCall
<1>5. HeldCopies' \subseteq HeldCopies BY <1>4 DEF HeldCopies, CopiesOfCalls
<1>6. ListedNoMore BY <1>4, ListedAsItWas
<1> QED BY <1>1, <1>3, <1>5, <1>6, QueueAsItIs

LEMMA RedoEndsKeeps ==
  ASSUME DesktopInv, NEW k \in Call, NEW c \in Copy, NEW p \in DPage, NEW s \in DSession,
         RedoEnds(k, c, p, s)
  PROVE  DesktopInv'
<1> USE DEF DesktopInv, WellHeld
<1>0. /\ UNCHANGED <<waiting, active, live, task, view, doubled, reviews>>
      /\ request[k].memory = {c} /\ memory[c].of = {s} /\ request' = [request EXCEPT ![k] = NoCall]
      /\ said' = [said EXCEPT ![s][p] = 0]
  BY DEF RedoEnds, jobVars, bounds, Unsaid
<1>1. said' \in [DSession -> [DPage -> Nat]] /\ SaidOfOthers(s, p) /\ said'[s][p] = 0
  BY <1>0, UnsaidFits
<1>2. /\ request' \in [Call -> RequestShape] /\ \A l \in Call : One(request'[l].memory)
      /\ HeldCopies' \subseteq HeldCopies /\ ListedNoMore
      /\ (\A t \in DSession : disk[t].here => disk'[t].here) => QueueFits
  BY <1>0, CallEnds
<1>3. c \in HeldCopies BY <1>0 DEF HeldCopies, CopiesOfCalls
<1>4. CASE \E v \in {"ocrd", "failed"} :
             Saves(c, p, [st |-> v, rev |-> IF v = "ocrd" THEN 0 ELSE memory[c].pages[p].rev])
  <2>0. PICK v \in {"ocrd", "failed"} :
          Saves(c, p, [st |-> v, rev |-> IF v = "ocrd" THEN 0 ELSE memory[c].pages[p].rev])
    BY <1>4
  <2>1. PICK page : page = [st |-> v, rev |-> IF v = "ocrd" THEN 0 ELSE memory[c].pages[p].rev]
    OBVIOUS
  <2>2. memory[c].pages[p] \in PageShape BY DEF DesktopShapes, CopyShape
  <2>3. page \in PageShape BY <2>1, <2>2 DEF PageShape
  <2>4. Changes(c, p, page) /\ FileSaved(c, p, page) BY <2>0, <2>1, SavesChanges
  <2>5. PageStep(c, s, p, page) BY <1>0, <1>1, <1>2, <1>3, <2>4 DEF PageStep, DesktopShapes
  <2>6. SaidOfChanged(c, s, p, page) BY <1>1 DEF SaidOfChanged
  <2> QED BY <1>1, <2>3, <2>5, <2>6, PageStepKeeps
<1>5. CASE UNCHANGED disk /\ Keeps(memory)
  <2>1. memory' \in [Copy -> CopyShape] /\ \A d \in HeldCopies' : memory'[d] = memory[d]
    BY <1>2, <1>5, KeptCopies
  <2>2. SaidNoMore BY <1>1 DEF SaidNoMore, SaidOfOthers
  <2>3. KeepStep BY <1>0, <1>1, <1>2, <1>5, <2>1, <2>2 DEF KeepStep, DesktopShapes, OneEach
  <2> QED BY <1>2, <2>3, KeepKeeps
<1> QED BY <1>4, <1>5 DEF RedoEnds

LEMMA ReviewEndsKeeps ==
  ASSUME DesktopInv, NEW k \in Call, NEW c \in Copy, NEW p \in DPage, NEW s \in DSession,
         ReviewEnds(k, c, p, s)
  PROVE  DesktopInv'
<1> USE DEF DesktopInv, WellHeld
<1>p. PICK was, page, n : /\ was = memory[c].pages[p].st /\ n = reviews + 1
                          /\ page = [st |-> IF was = "failed" THEN was ELSE "reviewed", rev |-> n]
  OBVIOUS
<1>0. /\ UNCHANGED <<waiting, active, live, task, view, doubled>> /\ reviews' = n
      /\ request[k].memory = {c} /\ memory[c].of = {s} /\ request' = [request EXCEPT ![k] = NoCall]
      /\ said' = IF was = "failed" \/ InRedo(s, p) \/ Waits(s, p) \/ ~disk[s].here THEN Unsaid(s, p)
                 ELSE [said EXCEPT ![s][p] = n]
      /\ Saves(c, p, page)
  BY <1>p DEF ReviewEnds, jobVars
<1>n. n \in Nat BY <1>p DEF DesktopShapes
<1>2. /\ request' \in [Call -> RequestShape] /\ \A l \in Call : One(request'[l].memory)
      /\ HeldCopies' \subseteq HeldCopies /\ ListedNoMore
      /\ (\A t \in DSession : disk[t].here => disk'[t].here) => QueueFits
  BY <1>0, CallEnds
<1>3. c \in HeldCopies BY <1>0 DEF HeldCopies, CopiesOfCalls
<1>4. memory[c].pages[p] \in PageShape BY DEF DesktopShapes, CopyShape
<1>5. page \in PageShape BY <1>p, <1>4, <1>n DEF PageShape
<1>a. Changes(c, p, page) /\ FileSaved(c, p, page) BY <1>0, SavesChanges
<1>6. said' \in [DSession -> [DPage -> Nat]] /\ SaidOfOthers(s, p) /\ SaidOfChanged(c, s, p, page)
  <2>1. CASE was = "failed" \/ InRedo(s, p) \/ Waits(s, p) \/ ~disk[s].here
    <3>1. said' = [said EXCEPT ![s][p] = 0] BY <2>1, <1>0 DEF Unsaid
    <3>2. said' \in [DSession -> [DPage -> Nat]] /\ SaidOfOthers(s, p) /\ said'[s][p] = 0
      BY <3>1, UnsaidFits
    <3> QED BY <3>2 DEF SaidOfChanged
  <2>2. CASE ~(was = "failed" \/ InRedo(s, p) \/ Waits(s, p) \/ ~disk[s].here)
    <3>1. said' = [said EXCEPT ![s][p] = n] BY <2>2, <1>0
    <3>2. said' \in [DSession -> [DPage -> Nat]] /\ SaidOfOthers(s, p) /\ said'[s][p] = n
      BY <3>1, <1>n, UnsaidFits
    <3>3. disk[s].here /\ page = AsSaid(s, p)' BY <2>2, <3>2, <1>p DEF AsSaid
    <3>4. ~Listed(c, p)
      <4>1. CASE c \in live /\ task[p] = "todo"
        <5>1. active = {s} BY <4>1, <1>0 DEF InUse
        <5>2. Of(live) = {s} BY <4>1, <5>1, LiveIsActive
        <5> QED BY <5>2, <4>1, <2>2 DEF Waits
      <4>2. CASE \E l \in Call : c \in request[l].memory /\ p \in request[l].todo
        <5>1. PICK l \in Call : c \in request[l].memory /\ p \in request[l].todo BY <4>2
        <5>2. request[l].memory = {c} BY <5>1 DEF OneEach, One
        <5>3. Of(request[l].memory) = {s} BY <5>2, <1>0 DEF Of
        <5> QED BY <5>1, <5>3, <2>2 DEF Waits
      <4> QED BY <4>1, <4>2 DEF Listed
    <3> QED BY <3>2, <3>3, <3>4, <1>a DEF SaidOfChanged
  <2> QED BY <2>1, <2>2
<1>7. PageStep(c, s, p, page) BY <1>0, <1>2, <1>3, <1>6, <1>a, <1>n DEF PageStep, DesktopShapes
<1> QED BY <1>5, <1>6, <1>7, PageStepKeeps

-----------------------------------------------------------------------------
LEMMA RestartsKeeps ==
  ASSUME DesktopInv, Restarts PROVE DesktopInv'
<1> USE DEF DesktopInv, WellHeld
<1>0. /\ disk' = [s \in DSession |->
                    [disk[s] EXCEPT !.pages = [p \in DPage |-> Interrupted(disk[s].pages[p])]]]
      /\ memory' = [c \in Copy |-> NoCopy] /\ live' = {} /\ task' = NoTask /\ waiting' = <<>>
      /\ active' = {} /\ view' = {} /\ request' = [k \in Call |-> NoCall]
      /\ said' = [s \in DSession |-> IF s \in doubled THEN Nothing[s] ELSE said[s]]
      /\ doubled' = {} /\ reviews' = reviews
  BY DEF Restarts, Shows
<1>1. HeldCopies' = {} BY <1>0 DEF HeldCopies, CopiesOfCalls, NoCall
<1>2. \A x \in PageShape : Interrupted(x) \in PageShape /\ (x.st = "reviewed" => Interrupted(x) = x)
  BY DEF Interrupted, PageShape
<1>3. \A s \in DSession : disk[s] \in DirShape BY DEF DesktopShapes
<1>4. \A s \in DSession :
        /\ disk'[s] \in DirShape /\ disk'[s].here = disk[s].here
        /\ \A p \in DPage : disk[s].pages[p].st = "reviewed" => disk'[s].pages[p] = disk[s].pages[p]
  <2> SUFFICES ASSUME NEW s \in DSession
               PROVE  /\ disk'[s] \in DirShape /\ disk'[s].here = disk[s].here
                      /\ \A p \in DPage : disk[s].pages[p].st = "reviewed" => disk'[s].pages[p] = disk[s].pages[p]
    OBVIOUS
  <2>1. PICK q : q = [p \in DPage |-> Interrupted(disk[s].pages[p])] OBVIOUS
  <2>2. disk'[s] = [disk[s] EXCEPT !.pages = q] BY <1>0, <2>1
  <2>3. \A p \in DPage : disk[s].pages[p] \in PageShape BY <1>3 DEF DirShape
  <2>4. q \in [DPage -> PageShape] BY <2>1, <2>3, <1>2
  <2>5. disk'[s] \in DirShape /\ disk'[s].here = disk[s].here /\ disk'[s].pages = q
    BY <2>2, <2>4, <1>3 DEF DirShape
  <2>6. \A p \in DPage : disk[s].pages[p].st = "reviewed" => q[p] = disk[s].pages[p]
    BY <2>1, <2>3, <1>2
  <2> QED BY <2>5, <2>6
<1>5. \A s \in DSession, p \in DPage : said'[s][p] = IF s \in doubled THEN 0 ELSE said[s][p]
  BY <1>0 DEF Nothing
<1>6. said' \in [DSession -> [DPage -> Nat]] BY <1>0 DEF Nothing, DesktopShapes
<1>7. DesktopShapes'
  <2>1. disk' \in [DSession -> DirShape] BY <1>0, <1>4
  <2>2. memory' \in [Copy -> CopyShape] BY <1>0, PagesFit DEF NoCopy, CopyShape
  <2>3. request' \in [Call -> RequestShape] BY <1>0, NoCallFits
  <2>4. task' \in PageTasks BY <1>0 DEF NoTask, PageTasks
  <2>5. waiting' \in Seq(DSession) BY <1>0
  <2> QED BY <2>1, <2>2, <2>3, <2>4, <2>5, <1>0, <1>6 DEF DesktopShapes
<1>8. OneEach' BY <1>0 DEF OneEach, One, NoCall
<1>9. OfOne' /\ Alone' BY <1>1 DEF OfOne, Alone
<1>10. InUse' BY <1>0 DEF InUse, Queued
<1>11. ASSUME NEW s \in DSession, NEW p \in DPage PROVE SaidIsHad(s, p)'
  <2> SUFFICES ASSUME said'[s][p] > 0 PROVE disk'[s].here /\ disk'[s].pages[p] = AsSaid(s, p)'
    BY <1>1 DEF SaidIsHad
  <2>1. s \notin doubled /\ said'[s][p] = said[s][p] BY <1>5
  <2>2. disk[s].here /\ disk[s].pages[p] = AsSaid(s, p) BY <2>1 DEF AllSaid, SaidIsHad
  <2> QED BY <2>1, <2>2, <1>4 DEF AsSaid
<1> QED BY <1>7, <1>8, <1>9, <1>10, <1>11 DEF AllSaid

-----------------------------------------------------------------------------
LEMMA DesktopBegins == DesktopInit => DesktopInv
<1> SUFFICES ASSUME DesktopInit PROVE DesktopInv OBVIOUS
<1> USE DEF DesktopInit
<1>1. HeldCopies = {} BY DEF HeldCopies, CopiesOfCalls, NoCall
<1>2. DesktopShapes
  <2>1. NoDir \in DirShape /\ NoCopy \in CopyShape
    BY PagesFit DEF NoDir, NoCopy, DirShape, CopyShape
  <2>2. disk \in [DSession -> DirShape] /\ memory \in [Copy -> CopyShape] BY <2>1
  <2>3. request \in [Call -> RequestShape] BY NoCallFits
  <2>4. task \in PageTasks BY DEF NoTask, PageTasks
  <2>5. said \in [DSession -> [DPage -> Nat]] BY DEF Nothing
  <2>6. waiting \in Seq(DSession) OBVIOUS
  <2> QED BY <2>2, <2>3, <2>4, <2>5, <2>6 DEF DesktopShapes
<1>3. OneEach BY DEF OneEach, One, NoCall
<1>4. OfOne /\ Alone BY <1>1 DEF OfOne, Alone
<1>5. InUse BY DEF InUse, Queued
<1>6. AllSaid BY DEF AllSaid, SaidIsHad, Nothing
<1> QED BY <1>2, <1>3, <1>4, <1>5, <1>6 DEF DesktopInv, WellHeld

LEMMA DesktopStep == DesktopInv /\ [DesktopNext]_dvars => DesktopInv'
<1> SUFFICES ASSUME DesktopInv, [DesktopNext]_dvars PROVE DesktopInv' OBVIOUS
<1>1. ASSUME NEW s \in DSession, SessionNext(s) PROVE DesktopInv'
  <2>1. ASSUME NEW c \in Copy, NEW p \in DPage, JobBreaks(s, c, p) PROVE DesktopInv'
    BY <2>1, JobBreaksKeeps
  <2>2. CASE StartUpload(s) \/ StartExisting(s) \/ Opens(s) \/ Resumes(s)
    BY <2>2, StartUploadKeeps, StartExistingKeeps, OpensKeeps, ResumesKeeps
  <2>3. CASE Hydrates(s) \/ Deletes(s) \/ OcrJobEnds(s, FALSE)
    BY <2>3, HydratesKeeps, DeletesKeeps, OcrJobEndsKeeps
  <2> QED BY <1>1, <2>1, <2>2, <2>3 DEF SessionNext
<1>2. ASSUME NEW s \in DSession, NEW k \in Call, LoadNext(k, s) PROVE DesktopInv'
  <2>1. CASE OpenShows(k, s) BY <2>1, UnloadsKeeps DEF OpenShows, Shows
  <2> QED BY <1>2, <2>1, OpenLoadsKeeps, HydrateLoadsKeeps DEF LoadNext
<1>3. CASE StartFails BY <1>3, StartFailsKeeps
<1>4. CASE Resets BY <1>4, ResetsKeeps
<1>5. CASE OcrJobGoes
  <2>1. ASSUME NEW s \in DSession, JobLoads(s) \/ OcrJobEnds(s, TRUE) PROVE DesktopInv'
    BY <2>1, JobLoadsKeeps, OcrJobEndsKeeps
  <2>2. ASSUME NEW c \in Copy, JobLists(c) PROVE DesktopInv' BY <2>2, JobListsKeeps
  <2>3. ASSUME NEW c \in Copy, NEW p \in DPage, JobTakes(c, p) \/ JobAnswers(c, p) PROVE DesktopInv'
    BY <2>3, JobTakesKeeps, JobAnswersKeeps
  <2> QED BY <1>5, <2>1, <2>2, <2>3 DEF OcrJobGoes
<1>6. CASE Restarts BY <1>6, RestartsKeeps
<1>7. ASSUME NEW k \in Call, HydrateShows(k) PROVE DesktopInv' BY <1>7, UnloadsKeeps DEF HydrateShows
<1>8. ASSUME NEW k \in Call, NEW p \in DPage, PageNext(k, p) PROVE DesktopInv'
  <2>1. ASSUME NEW c \in Copy, NEW s \in DSession, RedoEnds(k, c, p, s) \/ ReviewEnds(k, c, p, s)
        PROVE  DesktopInv'
    BY <2>1, RedoEndsKeeps, ReviewEndsKeeps
  <2> QED BY <1>8, <2>1, RedoBeginsKeeps, ReviewBeginsKeeps DEF PageNext
<1>9. ASSUME NEW k \in Call, NEW p \in DPage, NEW c \in Copy, LeftNext(k, c, p) PROVE DesktopInv'
  BY <1>9, LeftTakesKeeps, LeftAnswersKeeps DEF LeftNext
<1>10. CASE UNCHANGED dvars
  <2>1. UNCHANGED <<disk, memory, waiting, active, live, task, view, request, said, doubled, reviews>>
    BY <1>10 DEF dvars
  <2>2. HeldCopies' = HeldCopies BY <2>1 DEF HeldCopies, CopiesOfCalls
  <2>3. DesktopShapes' /\ OneEach' BY <2>1 DEF DesktopInv, WellHeld, DesktopShapes, OneEach
  <2>4. OfOne' /\ Alone' BY <2>1, <2>2 DEF DesktopInv, WellHeld, OfOne, Alone
  <2>5. InUse' BY <2>1 DEF DesktopInv, WellHeld, InUse, Queued
  <2>6. AllSaid' BY <2>1, <2>2 DEF DesktopInv, AllSaid, SaidIsHad, AsSaid, Listed
  <2> QED BY <2>3, <2>4, <2>5, <2>6 DEF DesktopInv, WellHeld
<1> QED
  BY <1>1, <1>2, <1>3, <1>4, <1>5, <1>6, <1>7, <1>8, <1>9, <1>10 DEF DesktopNext

(* However many sessions, pages, requests and instances there are, nobody    *)
(* works on a second instance of the session the job is processing, and what *)
(* a reader saved stays in the file, also when tasks go on after their job   *)
(* has broken off, outside the windows that doubled names.                   *)
THEOREM SessionsStaySound == DesktopSpec => []SessionsAreSound
<1>1. DesktopInit => DesktopInv BY DesktopBegins
<1>2. DesktopInv /\ [DesktopNext]_dvars => DesktopInv' BY DesktopStep
<1>3. DesktopInv => SessionsAreSound BY SoundAsKept
<1> QED BY <1>1, <1>2, <1>3, PTL DEF DesktopSpec

(* Nobody works on a second instance of a session, what readers save stays,  *)
(* and a page is given up only for a cause of its own, for any sessions,     *)
(* pages, requests, batches, widths and attempts.                            *)
THEOREM ClientStaysSound == DesktopSpec /\ ThreadsSpec => []ClientIsSound
  BY SessionsStaySound, PagesAlwaysGetTheirChance, PTL DEF ClientIsSound

-----------------------------------------------------------------------------
(* The caches of the backend: first the list of books.                          *)
(* As long as no version was skipped or set back there is at most one, nothing *)
(* is stored under a later one, and nobody works with a later one; before the   *)
(* first there is no list.                                                      *)
HasVersion(r) == reading[r].phase \in {"looks", "queries", "stores"}
Phases == {"idle", "answered", "asks", "sets", "looks", "queries", "stores"}
ListTypes ==
  /\ table \in Nat /\ acknowledged \in 0 .. table
  /\ changing \in [Editor -> 0 .. table]
  /\ reading \in [Asker -> [phase : Phases,
                            version : Nat, table : 0 .. table, floor : 0 .. acknowledged]]
  /\ version \in SUBSET (Nat \ {0}) /\ listed \in [DOMAIN listed -> 0 .. table]
  /\ DOMAIN listed \in SUBSET Nat /\ lapsed \in BOOLEAN
OneVersion ==
  /\ \A v, w \in version : v = w
  /\ version = {} => DOMAIN listed = {} /\ \A r \in Asker : ~HasVersion(r)
  /\ \A v \in version : /\ \A k \in DOMAIN listed : k <= v
                        /\ \A r \in Asker : HasVersion(r) => reading[r].version <= v

(* Lists under the version of a request are no older than what it was told,     *)
(* those under the present version no older than what anybody was told.         *)
NewestIsNew ==
  /\ \A v \in version \cap DOMAIN listed : listed[v] >= acknowledged
  /\ \A r \in Asker : Reads(r, "stores") /\ reading[r].version \in version =>
       reading[r].table >= acknowledged
FoundIsNew ==
  \A r \in Asker : HasVersion(r) /\ reading[r].version \in DOMAIN listed =>
    listed[reading[r].version] >= reading[r].floor
StoredIsNew ==
  \A r, q \in Asker : HasVersion(r) /\ Reads(q, "stores") /\ reading[q].version = reading[r].version =>
    reading[q].table >= reading[r].floor
ListsAreNew == NewestIsNew /\ FoundIsNew /\ StoredIsNew
ListIsRight == OneVersion /\ ListsAreNew /\ ListShowsChange
ListInv == ListTypes /\ (lapsed \/ ListIsRight)

(* What a request does to what it has read.                                     *)
TurnsInto(r, ph, v, t, f) ==
  /\ reading' = [q \in Asker |-> IF q = r THEN reading'[r] ELSE reading[q]]
  /\ reading'[r] = [phase |-> ph, version |-> v, table |-> t, floor |-> f]
LEMMA OnlyOne ==
  ASSUME OneVersion, NEW v \in version
  PROVE  version = {v}
  BY DEF OneVersion

LEMMA MovesBecome ==
  ASSUME ListTypes, NEW r \in Asker, NEW ph, MovesTo(r, ph)
  PROVE  TurnsInto(r, ph, reading[r].version, reading[r].table, reading[r].floor)
  BY DEF MovesTo, TurnsInto, ListTypes

LEMMA AnswersBecome ==
  ASSUME ListTypes, NEW r \in Asker, NEW e, Answers(r, e)
  PROVE  TurnsInto(r, "answered", 0, e, reading[r].floor)
  BY DEF Answers, TurnsInto, ListTypes

LEMMA VersionsBecome ==
  ASSUME ListTypes, NEW r \in Asker, NEW v,
         reading' = [reading EXCEPT ![r].phase = "looks", ![r].version = v]
  PROVE  TurnsInto(r, "looks", v, reading[r].table, reading[r].floor)
  BY DEF TurnsInto, ListTypes

LEMMA QueriesBecome ==
  ASSUME ListTypes, NEW r \in Asker, QueriesBooks(r)
  PROVE  TurnsInto(r, "stores", reading[r].version, table, reading[r].floor)
  BY DEF QueriesBooks, TurnsInto, ListTypes

LEMMA AskedBecomes ==
  ASSUME ListTypes, NEW r \in Asker, AsksList(r)
  PROVE  TurnsInto(r, "asks", 0, 0, acknowledged)
  BY DEF AsksList, TurnsInto, ListTypes

LEMMA BecomesTyped ==
  ASSUME ListTypes, NEW r \in Asker, NEW ph \in Phases, NEW v \in Nat, NEW t \in 0 .. table,
         NEW f \in 0 .. acknowledged, TurnsInto(r, ph, v, t, f), UNCHANGED <<table, acknowledged>>
  PROVE  reading' \in [Asker -> [phase : Phases, version : Nat, table : 0 .. table',
                                 floor : 0 .. acknowledged']]
<1>1. reading'[r] \in [phase : Phases, version : Nat, table : 0 .. table', floor : 0 .. acknowledged']
  BY DEF TurnsInto
<1>2. \A q \in Asker : reading[q] \in [phase : Phases, version : Nat, table : 0 .. table', floor : 0 .. acknowledged']
  BY DEF ListTypes, Phases
<1> QED
  BY <1>1, <1>2, Zenon DEF TurnsInto

Fields(r, ph, v, t, f) ==
  /\ reading'[r].phase = ph /\ reading'[r].version = v
  /\ reading'[r].table = t /\ reading'[r].floor = f
  /\ \A q \in Asker : q # r => reading'[q] = reading[q]

LEMMA BecomesFields ==
  ASSUME NEW r \in Asker, NEW ph, NEW v, NEW t, NEW f, TurnsInto(r, ph, v, t, f)
  PROVE  Fields(r, ph, v, t, f)
  BY DEF TurnsInto, Fields

(* What the types say, in numbers.                                              *)
Numbers ==
  /\ table \in Nat /\ acknowledged \in Nat /\ acknowledged <= table
  /\ \A q \in Asker : /\ reading[q].version \in Nat /\ reading[q].table \in Nat
                      /\ reading[q].floor \in Nat /\ reading[q].floor <= acknowledged
  /\ \A v \in version : v \in Nat /\ v > 0
  /\ \A k \in DOMAIN listed : k \in Nat /\ listed[k] \in Nat
LEMMA TypesAreNumbers == ASSUME ListTypes PROVE Numbers
  BY DEF ListTypes, Numbers

LEMMA AsksListKeeps ==
  ASSUME ListInv, NEW r \in Asker, AsksList(r)
  PROVE  ListInv'
<1>a. ListTypes /\ (lapsed \/ ListIsRight)
  BY DEF ListInv
<1>b. Numbers
  BY <1>a, TypesAreNumbers
<1>1. TurnsInto(r, "asks", 0, 0, acknowledged)
  BY <1>a, AskedBecomes
<1>2. Fields(r, "asks", 0, 0, acknowledged)
  BY <1>1, BecomesFields
<1>3. reading[r].version \in Nat /\ reading[r].table \in 0 .. table /\ reading[r].floor \in 0 .. acknowledged /\ DOMAIN listed \in SUBSET Nat
  BY <1>a DEF ListTypes
<1>4. ListTypes'
  BY <1>a, <1>1, <1>3, BecomesTyped DEF AsksList, Reads, ListKey, Phases, ListTypes
<1>5. lapsed' \/ OneVersion'
  BY <1>a, <1>b, <1>2 DEF Numbers, Fields, AsksList, ListIsRight, OneVersion, HasVersion, Reads, ListKey
<1>ee. lapsed' \/ NewestIsNew'
  BY <1>a, <1>b, <1>2 DEF Numbers, Fields, AsksList, ListIsRight, OneVersion, ListsAreNew, NewestIsNew, HasVersion, Reads, ListKey
<1>ff. lapsed' \/ FoundIsNew'
  BY <1>a, <1>b, <1>2 DEF Numbers, Fields, AsksList, ListIsRight, OneVersion, ListsAreNew, FoundIsNew, HasVersion, Reads, ListKey
<1>gg. lapsed' \/ StoredIsNew'
  BY <1>a, <1>b, <1>2 DEF Numbers, Fields, AsksList, ListIsRight, OneVersion, ListsAreNew, StoredIsNew, HasVersion, Reads, ListKey
<1>6. lapsed' \/ ListsAreNew'
  BY <1>ee, <1>ff, <1>gg DEF ListsAreNew
<1>7. lapsed' \/ ListShowsChange'
  BY <1>a, <1>b, <1>2 DEF Numbers, Fields, AsksList, ListIsRight, OneVersion, ListsAreNew, NewestIsNew, FoundIsNew, StoredIsNew, ListShowsChange, HasVersion, Reads
<1> QED
  BY <1>4, <1>5, <1>6, <1>7 DEF ListInv, ListIsRight

LEMMA SetsVersionKeeps ==
  ASSUME ListInv, NEW r \in Asker, SetsVersion(r)
  PROVE  ListInv'
<1>a. ListTypes /\ (lapsed \/ ListIsRight)
  BY DEF ListInv
<1>b. Numbers
  BY <1>a, TypesAreNumbers
<1>0. reading' = [reading EXCEPT ![r].phase = "looks", ![r].version = 1]
  BY DEF SetsVersion
<1>1. TurnsInto(r, "looks", 1, reading[r].table, reading[r].floor)
  BY <1>0, <1>a, VersionsBecome
<1>2. Fields(r, "looks", 1, reading[r].table, reading[r].floor)
  BY <1>1, BecomesFields
<1>3. reading[r].version \in Nat /\ reading[r].table \in 0 .. table /\ reading[r].floor \in 0 .. acknowledged /\ DOMAIN listed \in SUBSET Nat
  BY <1>a DEF ListTypes
<1>v. version' = {1} /\ UNCHANGED <<table, listed, changing, acknowledged>>
  BY DEF SetsVersion
<1>w. lapsed' \in BOOLEAN
  BY DEF SetsVersion
<1>x. lapsed' \/ (~lapsed /\ ListIsRight /\ (version = {} \/ version = {1}))
  BY <1>a, Zenon DEF SetsVersion
<1>y. 1 \in Nat /\ "looks" \in Phases
  BY DEF Phases
<1>z. reading' \in [Asker -> [phase : Phases, version : Nat, table : 0 .. table', floor : 0 .. acknowledged']]
  BY <1>a, <1>1, <1>3, <1>v, <1>y, BecomesTyped
<1>4. ListTypes'
  BY <1>a, <1>z, <1>v, <1>w DEF Phases, ListTypes
<1>5. lapsed' \/ OneVersion'
  BY <1>v, <1>x, <1>b, <1>2 DEF Numbers, Fields, ListIsRight, OneVersion, HasVersion, Reads, ListKey
<1>ee. lapsed' \/ NewestIsNew'
  BY <1>v, <1>x, <1>b, <1>2 DEF Numbers, Fields, ListIsRight, OneVersion, ListsAreNew, NewestIsNew, HasVersion, Reads, ListKey
<1>ff. lapsed' \/ FoundIsNew'
  BY <1>v, <1>x, <1>b, <1>2 DEF Numbers, Fields, ListIsRight, OneVersion, ListsAreNew, NewestIsNew, FoundIsNew, HasVersion, Reads, ListKey
<1>gg. lapsed' \/ StoredIsNew'
  BY <1>v, <1>x, <1>b, <1>2 DEF Numbers, Fields, ListIsRight, OneVersion, ListsAreNew, NewestIsNew, StoredIsNew, HasVersion, Reads, ListKey
<1>6. lapsed' \/ ListsAreNew'
  BY <1>ee, <1>ff, <1>gg DEF ListsAreNew
<1>7. lapsed' \/ ListShowsChange'
  BY <1>v, <1>x, <1>b, <1>2 DEF Numbers, Fields, ListIsRight, ListShowsChange, HasVersion, Reads
<1> QED
  BY <1>4, <1>5, <1>6, <1>7 DEF ListInv, ListIsRight

LEMMA MissesVersionKeeps ==
  ASSUME ListInv, NEW r \in Asker, MissesVersion(r)
  PROVE  ListInv'
<1>a. ListTypes /\ (lapsed \/ ListIsRight)
  BY DEF ListInv
<1>b. Numbers
  BY <1>a, TypesAreNumbers
<1>0. reading' = [reading EXCEPT ![r].phase = "looks", ![r].version = 1]
  BY DEF MissesVersion
<1>1. TurnsInto(r, "looks", 1, reading[r].table, reading[r].floor)
  BY <1>0, <1>a, VersionsBecome
<1>2. Fields(r, "looks", 1, reading[r].table, reading[r].floor)
  BY <1>1, BecomesFields
<1>3. reading[r].version \in Nat /\ reading[r].table \in 0 .. table /\ reading[r].floor \in 0 .. acknowledged /\ DOMAIN listed \in SUBSET Nat
  BY <1>a DEF ListTypes
<1>4. ListTypes'
  BY <1>a, <1>1, <1>3, BecomesTyped DEF MissesVersion, Reads, ListKey, Phases, ListTypes
<1>5. lapsed' \/ OneVersion'
  BY <1>a, <1>b, <1>2 DEF Numbers, Fields, MissesVersion, ListIsRight, OneVersion, HasVersion, Reads, ListKey
<1>ee. lapsed' \/ NewestIsNew'
  BY <1>a, <1>b, <1>2 DEF Numbers, Fields, MissesVersion, ListIsRight, OneVersion, ListsAreNew, NewestIsNew, HasVersion, Reads, ListKey
<1>ff. lapsed' \/ FoundIsNew'
  BY <1>a, <1>b, <1>2 DEF Numbers, Fields, MissesVersion, ListIsRight, OneVersion, ListsAreNew, FoundIsNew, HasVersion, Reads, ListKey
<1>gg. lapsed' \/ StoredIsNew'
  BY <1>a, <1>b, <1>2 DEF Numbers, Fields, MissesVersion, ListIsRight, OneVersion, ListsAreNew, StoredIsNew, HasVersion, Reads, ListKey
<1>6. lapsed' \/ ListsAreNew'
  BY <1>ee, <1>ff, <1>gg DEF ListsAreNew
<1>7. lapsed' \/ ListShowsChange'
  BY <1>a, <1>b, <1>2 DEF Numbers, Fields, MissesVersion, ListIsRight, OneVersion, ListsAreNew, NewestIsNew, FoundIsNew, StoredIsNew, ListShowsChange, HasVersion, Reads
<1> QED
  BY <1>4, <1>5, <1>6, <1>7 DEF ListInv, ListIsRight

LEMMA FindsListKeeps ==
  ASSUME ListInv, NEW r \in Asker, FindsList(r)
  PROVE  ListInv'
<1>a. ListTypes /\ (lapsed \/ ListIsRight)
  BY DEF ListInv
<1>b. Numbers
  BY <1>a, TypesAreNumbers
<1>0. Answers(r, listed[reading[r].version])
  BY DEF FindsList
<1>1. TurnsInto(r, "answered", 0, listed[reading[r].version], reading[r].floor)
  BY <1>0, <1>a, AnswersBecome
<1>2. Fields(r, "answered", 0, listed[reading[r].version], reading[r].floor)
  BY <1>1, BecomesFields
<1>3. reading[r].version \in Nat /\ reading[r].table \in 0 .. table /\ reading[r].floor \in 0 .. acknowledged /\ DOMAIN listed \in SUBSET Nat
  BY <1>a DEF ListTypes
<1>4. ListTypes'
  BY <1>a, <1>1, <1>3, BecomesTyped DEF FindsList, Reads, ListKey, Phases, ListTypes
<1>5. lapsed' \/ OneVersion'
  BY <1>a, <1>b, <1>2 DEF Numbers, Fields, FindsList, ListIsRight, OneVersion, HasVersion, Reads, ListKey
<1>ee. lapsed' \/ NewestIsNew'
  BY <1>a, <1>b, <1>2 DEF Numbers, Fields, FindsList, ListIsRight, OneVersion, ListsAreNew, NewestIsNew, HasVersion, Reads, ListKey
<1>ff. lapsed' \/ FoundIsNew'
  BY <1>a, <1>b, <1>2 DEF Numbers, Fields, FindsList, ListIsRight, OneVersion, ListsAreNew, FoundIsNew, HasVersion, Reads, ListKey
<1>gg. lapsed' \/ StoredIsNew'
  BY <1>a, <1>b, <1>2 DEF Numbers, Fields, FindsList, ListIsRight, OneVersion, ListsAreNew, StoredIsNew, HasVersion, Reads, ListKey
<1>6. lapsed' \/ ListsAreNew'
  BY <1>ee, <1>ff, <1>gg DEF ListsAreNew
<1>7. lapsed' \/ ListShowsChange'
  BY <1>a, <1>b, <1>2 DEF Numbers, Fields, FindsList, ListIsRight, OneVersion, ListsAreNew, NewestIsNew, FoundIsNew, StoredIsNew, ListShowsChange, HasVersion, Reads
<1> QED
  BY <1>4, <1>5, <1>6, <1>7 DEF ListInv, ListIsRight

LEMMA FindsNoListKeeps ==
  ASSUME ListInv, NEW r \in Asker, FindsNoList(r)
  PROVE  ListInv'
<1>a. ListTypes /\ (lapsed \/ ListIsRight)
  BY DEF ListInv
<1>b. Numbers
  BY <1>a, TypesAreNumbers
<1>0. MovesTo(r, "queries")
  BY DEF FindsNoList
<1>1. TurnsInto(r, "queries", reading[r].version, reading[r].table, reading[r].floor)
  BY <1>0, <1>a, MovesBecome
<1>2. Fields(r, "queries", reading[r].version, reading[r].table, reading[r].floor)
  BY <1>1, BecomesFields
<1>3. reading[r].version \in Nat /\ reading[r].table \in 0 .. table /\ reading[r].floor \in 0 .. acknowledged /\ DOMAIN listed \in SUBSET Nat
  BY <1>a DEF ListTypes
<1>4. ListTypes'
  BY <1>a, <1>1, <1>3, BecomesTyped DEF FindsNoList, Reads, ListKey, Phases, ListTypes
<1>5. lapsed' \/ OneVersion'
  BY <1>a, <1>b, <1>2 DEF Numbers, Fields, FindsNoList, ListIsRight, OneVersion, HasVersion, Reads, ListKey
<1>ee. lapsed' \/ NewestIsNew'
  BY <1>a, <1>b, <1>2 DEF Numbers, Fields, FindsNoList, ListIsRight, OneVersion, ListsAreNew, NewestIsNew, HasVersion, Reads, ListKey
<1>ff. lapsed' \/ FoundIsNew'
  BY <1>a, <1>b, <1>2 DEF Numbers, Fields, FindsNoList, ListIsRight, OneVersion, ListsAreNew, FoundIsNew, HasVersion, Reads, ListKey
<1>gg. lapsed' \/ StoredIsNew'
  <2> SUFFICES ASSUME ~lapsed', NEW p \in Asker, NEW q \in Asker, HasVersion(p)', Reads(q, "stores")',
                      reading'[q].version = reading'[p].version
               PROVE  reading'[q].table >= reading'[p].floor
    BY DEF StoredIsNew
  <2>1. reading'[q] = reading[q] /\ Reads(q, "stores")
    BY <1>2 DEF Fields, Reads
  <2>2. HasVersion(p) /\ reading'[p].version = reading[p].version /\ reading'[p].floor = reading[p].floor
    BY <1>2 DEF Fields, FindsNoList, HasVersion, Reads
  <2>3. StoredIsNew
    BY <1>a DEF FindsNoList, ListIsRight, ListsAreNew
  <2> QED
    BY <2>1, <2>2, <2>3 DEF StoredIsNew
<1>6. lapsed' \/ ListsAreNew'
  BY <1>ee, <1>ff, <1>gg DEF ListsAreNew
<1>7. lapsed' \/ ListShowsChange'
  BY <1>a, <1>b, <1>2 DEF Numbers, Fields, FindsNoList, ListIsRight, OneVersion, ListsAreNew, NewestIsNew, FoundIsNew, StoredIsNew, ListShowsChange, HasVersion, Reads
<1> QED
  BY <1>4, <1>5, <1>6, <1>7 DEF ListInv, ListIsRight

LEMMA QueriesBooksKeeps ==
  ASSUME ListInv, NEW r \in Asker, QueriesBooks(r)
  PROVE  ListInv'
<1>a. ListTypes /\ (lapsed \/ ListIsRight)
  BY DEF ListInv
<1>b. Numbers
  BY <1>a, TypesAreNumbers
<1>1. TurnsInto(r, "stores", reading[r].version, table, reading[r].floor)
  BY <1>a, QueriesBecome
<1>2. Fields(r, "stores", reading[r].version, table, reading[r].floor)
  BY <1>1, BecomesFields
<1>3. reading[r].version \in Nat /\ reading[r].table \in 0 .. table /\ reading[r].floor \in 0 .. acknowledged /\ DOMAIN listed \in SUBSET Nat
  BY <1>a DEF ListTypes
<1>4. ListTypes'
  BY <1>a, <1>1, <1>3, BecomesTyped DEF QueriesBooks, Reads, ListKey, Phases, ListTypes
<1>5. lapsed' \/ OneVersion'
  <2> SUFFICES ASSUME ~lapsed' PROVE OneVersion'
    OBVIOUS
  <2>1. OneVersion /\ version' = version /\ listed' = listed
    BY <1>a DEF QueriesBooks, ListIsRight
  <2>2. \A q \in Asker : HasVersion(q)' => HasVersion(q) /\ reading'[q].version = reading[q].version
    BY <1>2 DEF Fields, QueriesBooks, HasVersion, Reads
  <2> QED
    BY <2>1, <2>2 DEF OneVersion
<1>c. lapsed' \/ (ListIsRight /\ UNCHANGED <<version, listed, acknowledged>>)
  BY <1>a DEF QueriesBooks
<1>d. HasVersion(r) /\ \A q \in Asker : reading[q].floor <= table
  BY <1>b DEF QueriesBooks, Numbers, HasVersion, Reads
<1>e. lapsed' \/ NewestIsNew'
  BY <1>c, <1>d, <1>b, <1>2 DEF Numbers, Fields, ListIsRight, ListsAreNew, NewestIsNew, Reads
<1>f. lapsed' \/ FoundIsNew'
  BY <1>c, <1>d, <1>b, <1>2 DEF Numbers, Fields, ListIsRight, ListsAreNew, FoundIsNew, HasVersion, Reads
<1>g. lapsed' \/ StoredIsNew'
  BY <1>c, <1>d, <1>b, <1>2 DEF Numbers, Fields, ListIsRight, ListsAreNew, StoredIsNew, HasVersion, Reads
<1>6. lapsed' \/ ListsAreNew'
  BY <1>e, <1>f, <1>g DEF ListsAreNew
<1>7. lapsed' \/ ListShowsChange'
  BY <1>a, <1>b, <1>2 DEF Numbers, Fields, QueriesBooks, ListIsRight, OneVersion, ListsAreNew, NewestIsNew, FoundIsNew, StoredIsNew, ListShowsChange, HasVersion, Reads
<1> QED
  BY <1>4, <1>5, <1>6, <1>7 DEF ListInv, ListIsRight

LEMMA StoresListKeeps ==
  ASSUME ListInv, NEW r \in Asker, StoresList(r)
  PROVE  ListInv'
<1>a. ListTypes /\ (lapsed \/ ListIsRight)
  BY DEF ListInv
<1>b. Numbers
  BY <1>a, TypesAreNumbers
<1>0. Answers(r, reading[r].table)
  BY DEF StoresList
<1>1. TurnsInto(r, "answered", 0, reading[r].table, reading[r].floor)
  BY <1>0, <1>a, AnswersBecome
<1>2. Fields(r, "answered", 0, reading[r].table, reading[r].floor)
  BY <1>1, BecomesFields
<1>3. reading[r].version \in Nat /\ reading[r].table \in 0 .. table /\ reading[r].floor \in 0 .. acknowledged /\ DOMAIN listed \in SUBSET Nat
  BY <1>a DEF ListTypes
<1>4. ListTypes'
  BY <1>a, <1>1, <1>3, BecomesTyped DEF StoresList, Reads, ListKey, Phases, ListTypes
<1>5. lapsed' \/ OneVersion'
  BY <1>a, <1>b, <1>2 DEF Numbers, Fields, StoresList, ListIsRight, OneVersion, HasVersion, Reads, ListKey
<1>ee. lapsed' \/ NewestIsNew'
  BY <1>a, <1>b, <1>2 DEF Numbers, Fields, StoresList, ListIsRight, OneVersion, ListsAreNew, NewestIsNew, HasVersion, Reads, ListKey
<1>ff. lapsed' \/ FoundIsNew'
  BY <1>a, <1>b, <1>2 DEF Numbers, Fields, StoresList, ListIsRight, OneVersion, ListsAreNew, FoundIsNew, StoredIsNew, HasVersion, Reads, ListKey
<1>gg. lapsed' \/ StoredIsNew'
  BY <1>a, <1>b, <1>2 DEF Numbers, Fields, StoresList, ListIsRight, OneVersion, ListsAreNew, StoredIsNew, HasVersion, Reads, ListKey
<1>6. lapsed' \/ ListsAreNew'
  BY <1>ee, <1>ff, <1>gg DEF ListsAreNew
<1>7. lapsed' \/ ListShowsChange'
  BY <1>a, <1>b, <1>2 DEF Numbers, Fields, StoresList, ListIsRight, OneVersion, ListsAreNew, NewestIsNew, FoundIsNew, StoredIsNew, ListShowsChange, HasVersion, Reads
<1> QED
  BY <1>4, <1>5, <1>6, <1>7 DEF ListInv, ListIsRight

LEMMA ReadsVersionKeeps ==
  ASSUME ListInv, NEW r \in Asker, ReadsVersion(r)
  PROVE  ListInv'
<1>a. ListTypes /\ (lapsed \/ ListIsRight)
  BY DEF ListInv
<1>b. Numbers
  BY <1>a, TypesAreNumbers
<1>1. CASE version = {} /\ MovesTo(r, "sets")
  <2>1. TurnsInto(r, "sets", reading[r].version, reading[r].table, reading[r].floor)
    BY <1>1, <1>a, MovesBecome
  <2>2. Fields(r, "sets", reading[r].version, reading[r].table, reading[r].floor)
    BY <2>1, BecomesFields
  <2>3. reading[r].version \in Nat /\ reading[r].table \in 0 .. table /\ reading[r].floor \in 0 .. acknowledged /\ DOMAIN listed \in SUBSET Nat
    BY <1>a DEF ListTypes
  <2>4. ListTypes'
    BY <1>a, <2>1, <2>3, BecomesTyped DEF ReadsVersion, Reads, ListKey, Phases, ListTypes
  <2>5. lapsed' \/ OneVersion'
    BY <1>a, <1>b, <1>1, <2>2 DEF Numbers, Fields, ReadsVersion, ListIsRight, OneVersion, HasVersion, Reads, ListKey
  <2>ee. lapsed' \/ NewestIsNew'
    BY <1>a, <1>b, <1>1, <2>2 DEF Numbers, Fields, ReadsVersion, ListIsRight, OneVersion, ListsAreNew, NewestIsNew, HasVersion, Reads, ListKey
  <2>ff. lapsed' \/ FoundIsNew'
    BY <1>a, <1>b, <1>1, <2>2 DEF Numbers, Fields, ReadsVersion, ListIsRight, OneVersion, ListsAreNew, NewestIsNew, FoundIsNew, HasVersion, Reads, ListKey
  <2>gg. lapsed' \/ StoredIsNew'
    BY <1>a, <1>b, <1>1, <2>2 DEF Numbers, Fields, ReadsVersion, ListIsRight, OneVersion, ListsAreNew, NewestIsNew, StoredIsNew, HasVersion, Reads, ListKey
  <2>6. lapsed' \/ ListsAreNew'
    BY <2>ee, <2>ff, <2>gg DEF ListsAreNew
  <2>7. lapsed' \/ ListShowsChange'
    BY <1>a, <1>b, <1>1, <2>2 DEF Numbers, Fields, ReadsVersion, ListIsRight, OneVersion, ListsAreNew, NewestIsNew, FoundIsNew, StoredIsNew, ListShowsChange, HasVersion, Reads
  <2> QED
    BY <2>4, <2>5, <2>6, <2>7 DEF ListInv, ListIsRight
<1>2. ASSUME NEW v \in version, reading' = [reading EXCEPT ![r].phase = "looks", ![r].version = v]
      PROVE  ListInv'
  <2>1. TurnsInto(r, "looks", v, reading[r].table, reading[r].floor)
    BY <1>2, <1>a, VersionsBecome
  <2>2. Fields(r, "looks", v, reading[r].table, reading[r].floor)
    BY <2>1, BecomesFields
  <2>3. reading[r].version \in Nat /\ reading[r].table \in 0 .. table /\ reading[r].floor \in 0 .. acknowledged /\ DOMAIN listed \in SUBSET Nat
    BY <1>a DEF ListTypes
  <2>v. v \in Nat
    BY <1>b DEF Numbers
  <2>w. lapsed \/ (ListIsRight /\ version = {v})
    BY <1>a, OnlyOne DEF ListIsRight
  <2>x. Reads(r, "asks") /\ UNCHANGED <<table, version, listed, changing, acknowledged, lapsed, vfaults>>
    BY DEF ReadsVersion
  <2>4. ListTypes'
    BY <1>a, <2>1, <2>3, <2>v, BecomesTyped DEF ReadsVersion, Reads, ListKey, Phases, ListTypes
  <2>5. lapsed' \/ OneVersion'
    BY <2>w, <2>x, <1>b, <2>2 DEF Numbers, Fields, ListIsRight, OneVersion, HasVersion, Reads, ListKey
  <2>ee. lapsed' \/ NewestIsNew'
    BY <2>w, <2>x, <1>b, <2>2 DEF Numbers, Fields, ListIsRight, OneVersion, ListsAreNew, NewestIsNew, HasVersion, Reads, ListKey
  <2>ff. lapsed' \/ FoundIsNew'
    BY <2>w, <2>x, <1>b, <2>2 DEF Numbers, Fields, ListIsRight, OneVersion, ListsAreNew, NewestIsNew, FoundIsNew, HasVersion, Reads, ListKey
  <2>gg. lapsed' \/ StoredIsNew'
    BY <2>w, <2>x, <1>b, <2>2 DEF Numbers, Fields, ListIsRight, OneVersion, ListsAreNew, NewestIsNew, StoredIsNew, HasVersion, Reads, ListKey
  <2>6. lapsed' \/ ListsAreNew'
    BY <2>ee, <2>ff, <2>gg DEF ListsAreNew
  <2>7. lapsed' \/ ListShowsChange'
    BY <2>w, <2>x, <1>b, <2>2 DEF Numbers, Fields, ListIsRight, OneVersion, ListsAreNew, NewestIsNew, FoundIsNew, StoredIsNew, ListShowsChange, HasVersion, Reads
  <2> QED
    BY <2>4, <2>5, <2>6, <2>7 DEF ListInv, ListIsRight
<1> QED
  BY <1>1, <1>2 DEF ReadsVersion

LEMMA ListStep == ListInv /\ [ListNext]_listVars => ListInv'
<1> SUFFICES ASSUME ListInv, [ListNext]_listVars PROVE ListInv'
  OBVIOUS
<1> USE ListAssumption
<1>1. CASE \E r \in Asker : \/ AsksList(r) \/ ReadsVersion(r) \/ SetsVersion(r) \/ MissesVersion(r)
                           \/ FindsList(r) \/ FindsNoList(r) \/ QueriesBooks(r) \/ StoresList(r)
  BY <1>1, AsksListKeeps, ReadsVersionKeeps, SetsVersionKeeps, MissesVersionKeeps,
     FindsListKeeps, FindsNoListKeeps, QueriesBooksKeeps, StoresListKeeps
<1>2. ASSUME NEW x \in Editor, ChangesBooks(x) PROVE ListInv'
  <2>1. ListTypes'
    BY <1>2 DEF ListInv, ChangesBooks, ListTypes
  <2> QED
    BY <2>1, <1>2 DEF ListInv, ChangesBooks, ListTypes, ListIsRight, OneVersion, ListsAreNew, NewestIsNew, FoundIsNew, StoredIsNew, ListShowsChange, HasVersion, Reads
<1>c. /\ version \in SUBSET (Nat \ {0}) => Counted(version) \in SUBSET (Nat \ {0})
      /\ version = {} => Counted(version) = {1}
      /\ \A v \in version : OneVersion => Counted(version) = {v + 1}
  BY OnlyOne DEF Counted
<1>d. ListTypes /\ (lapsed \/ ListIsRight)
  BY DEF ListInv
<1>e. Numbers
  BY <1>d, TypesAreNumbers
<1>f. lapsed \/ (ListIsRight /\ (\/ version = {} /\ Counted(version) = {1}
                               \/ \E v \in Nat : version = {v} /\ Counted(version) = {v + 1}))
  BY <1>c, <1>d, <1>e, OnlyOne DEF ListIsRight, Numbers
<1>3. ASSUME NEW x \in Editor, BumpsVersion(x) PROVE ListInv'
  <2>1. /\ UNCHANGED <<table, listed, reading>>
        /\ acknowledged' \in acknowledged .. table /\ changing' \in [Editor -> 0 .. table]
    BY <1>d, <1>3 DEF BumpsVersion, ListTypes
  <2>2. lapsed' \/ (version' = Counted(version) /\ lapsed' = lapsed)
    BY <1>3 DEF BumpsVersion
  <2>3. version' \in {version, Counted(version)} /\ lapsed' \in BOOLEAN
    BY <1>d, <1>3 DEF BumpsVersion, ListTypes
  <2>4. ListTypes'
    BY <1>c, <1>d, <2>1, <2>3 DEF ListTypes
  <2>5. lapsed' \/ OneVersion'
    <3> SUFFICES ASSUME ~lapsed' PROVE OneVersion'
      OBVIOUS
    <3>1. CASE version = {}
      BY <1>e, <1>f, <2>1, <2>2, <3>1 DEF Numbers, ListIsRight, OneVersion, HasVersion
    <3>2. CASE \E v \in Nat : version = {v} /\ Counted(version) = {v + 1}
      <4>1. PICK v \in Nat : version = {v} /\ version' = {v + 1}
        BY <2>2, <3>2
      <4>2. /\ \A k \in DOMAIN listed : k \in Nat /\ k <= v
            /\ \A r \in Asker : HasVersion(r) => reading[r].version \in Nat /\ reading[r].version <= v
        BY <1>e, <1>f, <2>2, <4>1 DEF Numbers, ListIsRight, OneVersion
      <4> QED
        BY <2>1, <4>1, <4>2 DEF OneVersion, HasVersion
    <3> QED
      BY <1>f, <2>2, <3>1, <3>2
  <2>ee. lapsed' \/ NewestIsNew'
    BY <1>e, <1>f, <2>1, <2>2 DEF Numbers, ListIsRight, OneVersion, ListsAreNew, NewestIsNew, HasVersion, Reads
  <2>ff. lapsed' \/ FoundIsNew'
    BY <1>e, <1>f, <2>1, <2>2 DEF Numbers, ListIsRight, OneVersion, ListsAreNew, FoundIsNew, HasVersion, Reads
  <2>gg. lapsed' \/ StoredIsNew'
    BY <1>e, <1>f, <2>1, <2>2 DEF Numbers, ListIsRight, OneVersion, ListsAreNew, StoredIsNew, HasVersion, Reads
  <2>6. lapsed' \/ ListsAreNew'
    BY <2>ee, <2>ff, <2>gg DEF ListsAreNew
  <2>7. lapsed' \/ ListShowsChange'
    BY <1>e, <1>f, <2>1, <2>2 DEF Numbers, ListIsRight, ListShowsChange, Reads
  <2> QED
    BY <2>4, <2>5, <2>6, <2>7 DEF ListInv, ListIsRight
<1>4. ASSUME NEW x \in Editor, ChangeDies(x) PROVE ListInv'
  BY <1>4 DEF ListInv, ChangeDies, ListTypes, ListIsRight, OneVersion, ListsAreNew, NewestIsNew, FoundIsNew, StoredIsNew, ListShowsChange, HasVersion, Reads
<1>5. ASSUME NEW v \in DOMAIN listed, ListExpires(v) PROVE ListInv'
  <2>1. ListTypes'
    BY <1>5 DEF ListInv, ListExpires, ListTypes, Without
  <2> QED
    BY <2>1, <1>5 DEF ListInv, ListExpires, Without, ListTypes, ListIsRight, OneVersion, ListsAreNew, NewestIsNew, FoundIsNew, StoredIsNew, ListShowsChange, HasVersion, Reads
<1>6. CASE ChangesQuietly
  <2>1. ListTypes'
    BY <1>6 DEF ListInv, ChangesQuietly, ListTypes
  <2> QED
    BY <2>1, <1>6 DEF ListInv, ChangesQuietly, ListTypes, ListIsRight, OneVersion, ListsAreNew, NewestIsNew, FoundIsNew, StoredIsNew, ListShowsChange, HasVersion, Reads
<1>7. CASE OperatorInvalidates
  <2>1. UNCHANGED <<table, reading, changing, acknowledged, lapsed>> /\ version' = Counted(version)
        /\ listed' = [k \in {} |-> 0]
    BY <1>7 DEF OperatorInvalidates
  <2>4. ListTypes'
    BY <1>c, <1>d, <2>1 DEF ListTypes
  <2>5. lapsed' \/ OneVersion'
    BY <1>e, <1>f, <2>1 DEF Numbers, ListIsRight, OneVersion, HasVersion
  <2>ee. lapsed' \/ NewestIsNew'
    BY <1>e, <1>f, <2>1 DEF Numbers, ListIsRight, OneVersion, ListsAreNew, NewestIsNew, HasVersion, Reads
  <2>ff. lapsed' \/ FoundIsNew'
    BY <1>e, <1>f, <2>1 DEF Numbers, ListIsRight, OneVersion, ListsAreNew, FoundIsNew, HasVersion, Reads
  <2>gg. lapsed' \/ StoredIsNew'
    BY <1>e, <1>f, <2>1 DEF Numbers, ListIsRight, OneVersion, ListsAreNew, StoredIsNew, HasVersion, Reads
  <2>6. lapsed' \/ ListsAreNew'
    BY <2>ee, <2>ff, <2>gg DEF ListsAreNew
  <2>7. lapsed' \/ ListShowsChange'
    BY <1>e, <1>f, <2>1 DEF Numbers, ListIsRight, ListShowsChange, Reads
  <2> QED
    BY <2>4, <2>5, <2>6, <2>7 DEF ListInv, ListIsRight
<1>8. CASE VersionIsLost
  BY <1>8 DEF ListInv, VersionIsLost, ListTypes
<1>9. CASE UNCHANGED listVars
  BY <1>9 DEF ListInv, listVars, ListTypes, ListIsRight, OneVersion, ListsAreNew, NewestIsNew, FoundIsNew, StoredIsNew, ListShowsChange, HasVersion, Reads
<1> QED
  BY <1>1, <1>2, <1>3, <1>4, <1>5, <1>6, <1>7, <1>8, <1>9, Zenon DEF ListNext

LEMMA ListInitHolds == ListInit => ListInv
<1> SUFFICES ASSUME ListInit PROVE ListInv
  OBVIOUS
<1>1. /\ table = 0 /\ acknowledged = 0 /\ version = {} /\ DOMAIN listed = {} /\ lapsed = FALSE
      /\ listed = [k \in DOMAIN listed |-> 0] /\ changing = [x \in Editor |-> 0]
      /\ \A r \in Asker : reading[r].phase = "idle"
  BY DEF ListInit
<1>2. reading \in [Asker -> [phase : Phases, version : Nat, table : 0 .. table, floor : 0 .. acknowledged]]
  BY DEF ListInit, Phases
<1>a. changing \in [Editor -> 0 .. table] /\ acknowledged \in 0 .. table /\ table \in Nat
  BY <1>1
<1>b. listed \in [DOMAIN listed -> 0 .. table] /\ DOMAIN listed \in SUBSET Nat
  BY <1>1
<1>3. ListTypes
  BY <1>1, <1>2, <1>a, <1>b DEF ListTypes, Phases
<1> QED
  BY <1>1, <1>3 DEF ListInv, ListIsRight, OneVersion, ListsAreNew, NewestIsNew, FoundIsNew, StoredIsNew,
     ListShowsChange, HasVersion, Reads

(* Who has been told that his change is saved finds it in the list of books, for *)
(* any requests, changes and failures of Redis that leave the version in order.  *)
THEOREM ListsShowChanges == ListSpec => []ListShowsChange
<1>1. ListInv => ListShowsChange
  BY DEF ListInv, ListIsRight, ListShowsChange
<1> QED
  BY ListInitHolds, ListStep, <1>1, PTL DEF ListSpec

-----------------------------------------------------------------------------
(* Cached rows.                                                                 *)
(* How long a copy of a row that has changed can still be there. A request that *)
(* is about to store such a copy in Redis has begun before the change.          *)
Entry == (0 .. row) \X (1 .. Ttl)
FetchPhases == {"idle", "asks", "shares", "keeps"}
ReadTypes ==
  /\ kind \in {"profile", "setting", "book"} /\ row \in Nat /\ since \in Nat
  /\ shared \in SUBSET Entry /\ local \in [Process -> SUBSET Entry]
  /\ fetch \in [CRequest -> [phase : FetchPhases, process : Process \cup {"none"}, row : 0 .. row]]
OnlyProfiles ==
  /\ \A s \in Process : local[s] # {} => kind = "profile"
  /\ \A r \in CRequest : Fetches(r, "keeps") => kind = "profile"
SharedIsDying == \A e \in shared : e[1] # row => e[2] <= Ttl - since
LocalIsDying == \A s \in Process : \A e \in local[s] : e[1] # row => e[2] <= 2 * Ttl - 1 - since
OldIsYoung ==
  \A r \in CRequest : fetch[r].row # row =>
    /\ Fetches(r, "shares") => since = 0
    /\ Fetches(r, "keeps") => since <= Ttl - 1
Dying == SharedIsDying /\ LocalIsDying /\ OldIsYoung
ReadInv == ReadTypes /\ OnlyProfiles /\ (write = "none" => Dying)

LEMMA DyingIsOld == ASSUME ReadInv PROVE OldRowDies
<1> SUFFICES ASSUME write = "none", since >= Lifetime,
                    NEW e \in shared \cup UNION {local[s] : s \in Process}, e[1] # row
             PROVE  FALSE
  BY DEF OldRowDies
<1>1. Ttl \in Nat \ {0} /\ since \in Nat
  BY CachedAssumption DEF ReadInv, ReadTypes
<1>2. CASE e \in shared
  <2>1. e[2] \in 1 .. Ttl /\ e[2] <= Ttl - since
    BY <1>2 DEF ReadInv, ReadTypes, Entry, Dying, SharedIsDying
  <2> QED
    BY <1>1, <2>1 DEF Lifetime
<1>3. ASSUME NEW s \in Process, e \in local[s] PROVE FALSE
  <2>1. kind = "profile" /\ e[2] \in 1 .. Ttl /\ e[2] <= 2 * Ttl - 1 - since
    BY <1>3 DEF ReadInv, ReadTypes, OnlyProfiles, Entry, Dying, LocalIsDying
  <2> QED
    BY <1>1, <2>1 DEF Lifetime
<1> QED
  BY <1>2, <1>3

(* Reads.                                                                       *)
Fetched(r, ph, p, t) ==
  fetch' = [q \in CRequest |-> IF q = r THEN [phase |-> ph, process |-> p, row |-> t] ELSE fetch[q]]
LEMMA FinishedIs ==
  ASSUME ReadTypes, NEW r \in CRequest, Finished(r)
  PROVE  Fetched(r, "idle", "none", 0)
  BY DEF Finished, Idling, Fetched, ReadTypes
LEMMA FetchingIs ==
  ASSUME ReadTypes, NEW r \in CRequest, NEW ph, NEW t,
         fetch' = [fetch EXCEPT ![r].phase = ph, ![r].row = t]
  PROVE  Fetched(r, ph, fetch[r].process, t)
<1>1. fetch = [q \in CRequest |-> fetch[q]]
      /\ fetch[r] = [phase |-> fetch[r].phase, process |-> fetch[r].process, row |-> fetch[r].row]
  BY DEF ReadTypes
<1>2. fetch' = [q \in CRequest |-> IF q = r THEN [fetch[r] EXCEPT !.phase = ph, !.row = t] ELSE fetch[q]]
  BY <1>1
<1>a. PICK a, b, c : fetch[r] = [phase |-> a, process |-> b, row |-> c]
  BY <1>1
<1>b. [fetch[r] EXCEPT !.phase = ph] = [phase |-> ph, process |-> b, row |-> c] /\ fetch[r].process = b
  BY <1>a
<1>c. [[phase |-> ph, process |-> b, row |-> c] EXCEPT !.row = t] = [phase |-> ph, process |-> b, row |-> t]
  OBVIOUS
<1>3. [fetch[r] EXCEPT !.phase = ph, !.row = t] = [phase |-> ph, process |-> fetch[r].process, row |-> t]
  BY <1>b, <1>c, Zenon
<1> QED
  BY <1>2, <1>3 DEF Fetched
LEMMA FetchedTyped ==
  ASSUME ReadTypes, NEW r \in CRequest, NEW ph \in FetchPhases, NEW p \in Process \cup {"none"},
         NEW t \in 0 .. row, Fetched(r, ph, p, t), UNCHANGED row
  PROVE  fetch' \in [CRequest -> [phase : FetchPhases, process : Process \cup {"none"}, row : 0 .. row']]
<1>1. [phase |-> ph, process |-> p, row |-> t]
        \in [phase : FetchPhases, process : Process \cup {"none"}, row : 0 .. row']
  OBVIOUS
<1> QED
  BY <1>1 DEF Fetched, ReadTypes
LEMMA FetchedFields ==
  ASSUME NEW r \in CRequest, NEW ph, NEW p, NEW t, Fetched(r, ph, p, t)
  PROVE  /\ fetch'[r].phase = ph /\ fetch'[r].row = t
         /\ \A q \in CRequest : q # r => fetch'[q] = fetch[q]
  BY DEF Fetched

(* A read that moves on, with the caches as they are, keeps what is promised    *)
(* if what it has is young enough for its new phase.                            *)
LEMMA MovingKeeps ==
  ASSUME ReadInv, NEW r \in CRequest, NEW ph \in FetchPhases, NEW p \in Process \cup {"none"},
         NEW t \in 0 .. row, Fetched(r, ph, p, t),
         UNCHANGED <<kind, row, shared, local, write, since>>,
         ph = "keeps" => kind = "profile",
         write = "none" /\ t # row /\ ph = "shares" => since = 0,
         write = "none" /\ t # row /\ ph = "keeps" => since <= Ttl - 1
  PROVE  ReadInv'
<1>1. ReadTypes'
  BY FetchedTyped DEF ReadInv, ReadTypes, Entry
<1>2. OnlyProfiles'
  BY FetchedFields DEF ReadInv, OnlyProfiles, Fetches
<1>3. write' = "none" => Dying'
  BY FetchedFields DEF ReadInv, Dying, SharedIsDying, LocalIsDying, OldIsYoung, Fetches
<1> QED
  BY <1>1, <1>2, <1>3 DEF ReadInv

LEMMA FetchingKeeps ==
  ASSUME ReadInv, NEW r \in CRequest,
         (\E s \in Process : AsksRow(r, s)) \/ HitsLocal(r) \/ HitsShared(r) \/ ReadsRow(r)
  PROVE  ReadInv'
<1>0. ReadTypes /\ row \in Nat /\ 0 \in 0 .. row /\ row \in 0 .. row
  BY DEF ReadInv, ReadTypes
<1>f. /\ fetch[r] \in [phase : FetchPhases, process : Process \cup {"none"}, row : 0 .. row]
      /\ fetch[r].process \in Process \cup {"none"} /\ fetch[r].row \in 0 .. row
  BY <1>0 DEF ReadTypes
<1>p. {"idle", "asks", "shares", "keeps"} = FetchPhases
  BY DEF FetchPhases
<1>1. ASSUME NEW s \in Process, AsksRow(r, s) PROVE ReadInv'
  <2>1. Fetched(r, "asks", s, 0)
    BY <1>0, <1>1 DEF AsksRow, Fetched, ReadTypes
  <2> QED
    BY <1>0, <1>1, <1>p, <2>1, MovingKeeps DEF AsksRow
<1>2. CASE HitsLocal(r)
  <2>1. Fetched(r, "idle", "none", 0)
    BY <1>0, <1>2, FinishedIs DEF HitsLocal
  <2>2. local' = local
    BY <1>0, <1>2 DEF HitsLocal, LeftAsIs, ReadTypes
  <2> QED
    BY <1>0, <1>2, <1>p, <2>1, <2>2, MovingKeeps DEF HitsLocal
<1>3. CASE HitsShared(r)
  <2>1. PICK e \in shared : IF kind = "profile"
                           THEN fetch' = [fetch EXCEPT ![r].phase = "keeps", ![r].row = e[1]]
                           ELSE Finished(r)
    BY <1>3 DEF HitsShared
  <2>2. CASE kind = "profile"
    <3>1. PICK t \in 0 .. row : t = e[1]
      BY DEF ReadInv, ReadTypes, Entry
    <3>2. Fetched(r, "keeps", fetch[r].process, t)
      BY <1>0, <2>1, <2>2, <3>1, FetchingIs
    <3>3. Ttl \in Nat /\ since \in Nat /\ e[2] \in 1 .. Ttl
      BY CachedAssumption DEF ReadInv, ReadTypes, Entry
    <3>4. write = "none" /\ t # row => since <= Ttl - 1
      BY <3>1, <3>3 DEF ReadInv, Dying, SharedIsDying
    <3> QED
      BY <1>3, <1>f, <1>p, <2>2, <3>2, <3>4, MovingKeeps DEF HitsShared
  <2>3. CASE kind # "profile"
    <3>1. Fetched(r, "idle", "none", 0)
      BY <1>0, <2>1, <2>3, FinishedIs
    <3> QED
      BY <1>0, <1>3, <1>p, <3>1, MovingKeeps DEF HitsShared
  <2> QED
    BY <2>2, <2>3
<1>4. CASE ReadsRow(r)
  <2>0. fetch' = [fetch EXCEPT ![r].phase = "shares", ![r].row = row]
    BY <1>4 DEF ReadsRow
  <2>1. Fetched(r, "shares", fetch[r].process, row)
    BY <1>0, <2>0, FetchingIs
  <2> QED
    BY <1>0, <1>4, <1>f, <1>p, <2>1, MovingKeeps DEF ReadsRow
<1> QED
  BY <1>1, <1>2, <1>3, <1>4

LEMMA SharingKeeps ==
  ASSUME ReadInv, NEW r \in CRequest, SharesRow(r)
  PROVE  ReadInv'
<1>0. ReadTypes /\ row \in Nat /\ 0 \in 0 .. row /\ Ttl \in Nat \ {0} /\ since \in Nat
  BY CachedAssumption DEF ReadInv, ReadTypes
<1>1. UNCHANGED <<kind, row, local, write, since>> /\ Fetches(r, "shares")
  BY DEF SharesRow
<1>a. fetch[r] \in [phase : FetchPhases, process : Process \cup {"none"}, row : 0 .. row]
  BY <1>0 DEF ReadTypes
<1>2. PICK t \in 0 .. row : t = fetch[r].row
  BY <1>a
<1>b. Ttl \in 1 .. Ttl
  BY <1>0
<1>3. PICK e \in Entry : e = <<t, Ttl>>
  BY <1>b DEF Entry
<1>4. shared' \in {shared, {e}}
  BY <1>2, <1>3 DEF SharesRow
<1>5. write = "none" /\ t # row => since = 0
  BY <1>1, <1>2 DEF ReadInv, Dying, OldIsYoung
<1>6. PICK ph \in FetchPhases, p \in Process \cup {"none"}, u \in {0, t} :
        /\ Fetched(r, ph, p, u) /\ ph \in {"keeps", "idle"}
        /\ ph = "keeps" => kind = "profile" /\ u = t
  <2>1. CASE kind = "profile"
    <3>1. fetch[r].process \in Process \cup {"none"} /\ "keeps" \in FetchPhases
      BY <1>0 DEF ReadTypes, FetchPhases
    <3>2. Fetched(r, "keeps", fetch[r].process, t)
      BY <1>0, <1>2, <2>1 DEF SharesRow, Fetched, ReadTypes
    <3> QED
      BY <2>1, <3>1, <3>2
  <2>2. CASE kind # "profile"
    <3>1. Fetched(r, "idle", "none", 0) /\ "idle" \in FetchPhases
      BY <1>0, <2>2, FinishedIs DEF SharesRow, FetchPhases
    <3> QED
      BY <3>1
  <2> QED
    BY <2>1, <2>2
<1>7. ReadTypes'
  <2>1. u \in 0 .. row
    BY <1>0
  <2> QED
    BY <1>0, <1>1, <1>4, <1>6, <2>1, FetchedTyped DEF ReadTypes, Entry
<1>8. OnlyProfiles'
  BY <1>1, <1>6, FetchedFields DEF ReadInv, OnlyProfiles, Fetches
<1>9. write' = "none" => SharedIsDying'
  BY <1>0, <1>1, <1>3, <1>4, <1>5 DEF ReadInv, Dying, SharedIsDying
<1>10. write' = "none" => LocalIsDying'
  BY <1>1 DEF ReadInv, Dying, LocalIsDying
<1>11. write' = "none" => OldIsYoung'
  BY <1>0, <1>1, <1>5, <1>6, FetchedFields DEF ReadInv, Dying, OldIsYoung, Fetches
<1> QED
  BY <1>7, <1>8, <1>9, <1>10, <1>11 DEF ReadInv, Dying

LEMMA KeepingKeeps ==
  ASSUME ReadInv, NEW r \in CRequest, KeepsRow(r)
  PROVE  ReadInv'
<1>0. ReadTypes /\ row \in Nat /\ 0 \in 0 .. row /\ Ttl \in Nat \ {0} /\ since \in Nat
  BY CachedAssumption DEF ReadInv, ReadTypes
<1>1. UNCHANGED <<kind, row, shared, write, since>> /\ Fetches(r, "keeps")
  BY DEF KeepsRow
<1>a. fetch[r] \in [phase : FetchPhases, process : Process \cup {"none"}, row : 0 .. row]
  BY <1>0 DEF ReadTypes
<1>2. PICK t \in 0 .. row : t = fetch[r].row
  BY <1>a
<1>b. Ttl \in 1 .. Ttl
  BY <1>0
<1>3. PICK e \in Entry : e = <<t, Ttl>>
  BY <1>b DEF Entry
<1>4. \A s \in Process : local'[s] \in {local[s], {e}}
  BY <1>0, <1>2, <1>3 DEF KeepsRow, ReadTypes
<1>5. write = "none" /\ t # row => since <= Ttl - 1
  BY <1>1, <1>2 DEF ReadInv, Dying, OldIsYoung
<1>6. Fetched(r, "idle", "none", 0) /\ "idle" \in FetchPhases /\ kind = "profile"
  BY <1>0, <1>1, FinishedIs DEF KeepsRow, FetchPhases, ReadInv, OnlyProfiles
<1>7. ReadTypes'
  <2>1. local' \in [Process -> SUBSET Entry]
    BY <1>0, <1>2, <1>3 DEF KeepsRow, ReadTypes
  <2> QED
    BY <1>0, <1>1, <1>6, <2>1, FetchedTyped DEF ReadTypes, Entry
<1>8. OnlyProfiles'
  BY <1>1, <1>6, FetchedFields DEF ReadInv, OnlyProfiles, Fetches
<1>9. write' = "none" => SharedIsDying'
  BY <1>1 DEF ReadInv, Dying, SharedIsDying
<1>10. write' = "none" => LocalIsDying'
  BY <1>0, <1>1, <1>3, <1>4, <1>5 DEF ReadInv, Dying, LocalIsDying
<1>11. write' = "none" => OldIsYoung'
  BY <1>1, <1>6, FetchedFields DEF ReadInv, Dying, OldIsYoung, Fetches
<1> QED
  BY <1>7, <1>8, <1>9, <1>10, <1>11 DEF ReadInv, Dying

(* Changes of the row.                                                          *)
LEMMA RowChangesKeep ==
  ASSUME ReadInv, StartsWrite \/ DropsEarly \/ Publishes \/ CommitsRow
  PROVE  ReadInv'
<1>0. ReadTypes /\ row \in Nat
  BY DEF ReadInv, ReadTypes
<1>1. UNCHANGED <<kind, local, fetch, since>> /\ row' \in {row, row + 1}
  BY <1>0 DEF StartsWrite, DropsEarly, Publishes, CommitsRow
<1>2. shared' \in {shared, {}}
  BY DEF StartsWrite, DropsEarly, Publishes, CommitsRow, Drops
<1>3. write' # "none"
  BY DEF StartsWrite, DropsEarly, Publishes, CommitsRow, Drops
<1>4. ReadTypes'
  <2>1. row' \in Nat /\ Entry \subseteq Entry' /\ 0 .. row \subseteq 0 .. row'
    BY <1>0, <1>1 DEF Entry
  <2>2. shared' \in SUBSET Entry' /\ local \in [Process -> SUBSET Entry']
    BY <1>0, <1>2, <2>1 DEF ReadTypes
  <2>3. fetch \in [CRequest -> [phase : FetchPhases, process : Process \cup {"none"}, row : 0 .. row']]
    BY <1>0, <2>1 DEF ReadTypes
  <2> QED
    BY <1>0, <1>1, <2>1, <2>2, <2>3 DEF ReadTypes
<1>5. OnlyProfiles'
  BY <1>1 DEF ReadInv, OnlyProfiles, Fetches
<1> QED
  BY <1>3, <1>4, <1>5 DEF ReadInv

LEMMA LateDropKeeps ==
  ASSUME ReadInv, DropsLate
  PROVE  ReadInv'
<1>0. ReadTypes /\ Ttl \in Nat \ {0} /\ row \in Nat
  BY CachedAssumption DEF ReadInv, ReadTypes
<1>1. UNCHANGED <<kind, row, local, fetch>> /\ since' = 0 /\ shared' \in {shared, {}}
  BY DEF DropsLate, Drops
<1>2. ReadTypes' /\ OnlyProfiles'
  BY <1>0, <1>1 DEF ReadInv, ReadTypes, OnlyProfiles, Fetches, Entry
<1>3. \A e \in Entry : e[2] <= Ttl /\ e[2] \in Nat
  BY <1>0 DEF Entry
<1>4. SharedIsDying'
  BY <1>0, <1>1, <1>3 DEF SharedIsDying, ReadTypes
<1>5. LocalIsDying'
  <2>1. \A s \in Process : \A e \in local[s] : e \in Entry
    BY <1>0 DEF ReadTypes
  <2> QED
    BY <1>0, <1>1, <1>3, <2>1 DEF LocalIsDying
<1>6. OldIsYoung'
  BY <1>0, <1>1 DEF OldIsYoung
<1> QED
  BY <1>2, <1>4, <1>5, <1>6 DEF ReadInv, Dying

LEMMA DroppingKeeps ==
  ASSUME ReadInv, OperatorDrops \/ \E s \in Process : HearsNews(s)
  PROVE  ReadInv'
<1>0. ReadTypes
  BY DEF ReadInv
<1>1. UNCHANGED <<kind, row, fetch, write, since>>
  BY DEF OperatorDrops, HearsNews
<1>2. shared' \subseteq shared /\ local' \in [Process -> SUBSET Entry]
      /\ \A s \in Process : local'[s] \subseteq local[s]
  BY <1>0 DEF OperatorDrops, HearsNews, ReadTypes
<1>3. ReadTypes' /\ OnlyProfiles'
  BY <1>0, <1>1, <1>2 DEF ReadInv, ReadTypes, OnlyProfiles, Fetches, Entry
<1>4. write' = "none" => Dying'
  BY <1>1, <1>2 DEF ReadInv, Dying, SharedIsDying, LocalIsDying, OldIsYoung, Fetches
<1> QED
  BY <1>3, <1>4 DEF ReadInv

(* A tick makes every entry older, and finds no request at work.                *)
LEMMA TickKeeps ==
  ASSUME ReadInv, Tick
  PROVE  ReadInv'
<1>0. ReadTypes /\ Ttl \in Nat \ {0} /\ row \in Nat /\ since \in Nat
  BY CachedAssumption DEF ReadInv, ReadTypes
<1>1. /\ UNCHANGED <<kind, row, fetch, write>> /\ since' \in {since, since + 1} /\ write = "none"
      /\ shared' = Aged(shared) /\ local' = [s \in Process |-> Aged(local[s])]
  BY <1>0 DEF Tick
<1>2. \A E \in SUBSET Entry : \A x \in Aged(E) :
        /\ x \in Entry
        /\ \E e \in E : x[1] = e[1] /\ x[2] = e[2] - 1
  <2> SUFFICES ASSUME NEW E \in SUBSET Entry, NEW x \in Aged(E)
               PROVE  x \in Entry /\ \E e \in E : x[1] = e[1] /\ x[2] = e[2] - 1
    OBVIOUS
  <2>1. PICK e \in E : e[2] > 1 /\ x = <<e[1], e[2] - 1>>
    BY DEF Aged
  <2>2. e[1] \in 0 .. row /\ e[2] \in 1 .. Ttl
    BY DEF Entry
  <2>3. e[2] - 1 \in 1 .. Ttl
    BY <1>0, <2>1, <2>2
  <2> QED
    BY <2>1, <2>2, <2>3 DEF Entry
<1>3. \A s \in Process : local[s] \in SUBSET Entry /\ local'[s] = Aged(local[s])
  BY <1>0, <1>1 DEF ReadTypes
<1>4. shared \in SUBSET Entry
  BY <1>0 DEF ReadTypes
<1>5. ReadTypes'
  <2>1. shared' \in SUBSET Entry' /\ local' \in [Process -> SUBSET Entry'] /\ since' \in Nat
    BY <1>0, <1>1, <1>2, <1>3, <1>4 DEF Entry
  <2> QED
    BY <1>0, <1>1, <2>1 DEF ReadTypes
<1>6. OnlyProfiles'
  <2>1. \A s \in Process : local'[s] # {} => local[s] # {}
    BY <1>2, <1>3
  <2> QED
    BY <1>1, <2>1 DEF ReadInv, OnlyProfiles, Fetches
<1>7. \A e \in Entry : e[2] \in Nat
  BY <1>0 DEF Entry
<1>8. SharedIsDying'
  <2> SUFFICES ASSUME NEW x \in shared', x[1] # row PROVE x[2] <= Ttl - since'
    BY <1>1 DEF SharedIsDying
  <2>1. PICK e \in shared : x[1] = e[1] /\ x[2] = e[2] - 1
    BY <1>1, <1>2, <1>4
  <2>2. e[2] <= Ttl - since /\ e[2] \in Nat
    BY <1>1, <1>4, <1>7, <2>1 DEF ReadInv, Dying, SharedIsDying
  <2> QED
    BY <1>0, <1>1, <2>1, <2>2
<1>9. LocalIsDying'
  <2> SUFFICES ASSUME NEW s \in Process, NEW x \in local'[s], x[1] # row
               PROVE  x[2] <= 2 * Ttl - 1 - since'
    BY <1>1 DEF LocalIsDying
  <2>1. PICK e \in local[s] : x[1] = e[1] /\ x[2] = e[2] - 1
    BY <1>2, <1>3
  <2>2. e[2] <= 2 * Ttl - 1 - since /\ e[2] \in Nat
    BY <1>1, <1>3, <1>7, <2>1 DEF ReadInv, Dying, LocalIsDying
  <2> QED
    BY <1>0, <1>1, <2>1, <2>2
<1>10. OldIsYoung'
  <2>1. \A r \in CRequest : fetch'[r].phase = "idle"
    BY <1>1 DEF Tick, Idling
  <2> QED
    BY <2>1 DEF OldIsYoung, Fetches
<1> QED
  BY <1>5, <1>6, <1>8, <1>9, <1>10 DEF ReadInv, Dying

LEMMA ReadStep == ReadInv /\ [ReadNext]_readVars => ReadInv'
<1> SUFFICES ASSUME ReadInv, [ReadNext]_readVars PROVE ReadInv'
  OBVIOUS
<1>1. CASE ReadNext
  BY <1>1, FetchingKeeps, SharingKeeps, KeepingKeeps, RowChangesKeep, LateDropKeeps, DroppingKeeps, TickKeeps
     DEF ReadNext
<1>2. CASE UNCHANGED readVars
  BY <1>2 DEF readVars, ReadInv, ReadTypes, OnlyProfiles, Dying, SharedIsDying, LocalIsDying, OldIsYoung,
     Fetches, Entry
<1> QED
  BY <1>1, <1>2

LEMMA ReadInitHolds == ReadInit => ReadInv
<1> SUFFICES ASSUME ReadInit PROVE ReadInv
  OBVIOUS
<1>1. ReadTypes
  BY DEF ReadInit, ReadTypes, Entry, FetchPhases, Idling
<1>2. OnlyProfiles
  BY DEF ReadInit, OnlyProfiles, Fetches, Idling
<1>3. Dying
  BY DEF ReadInit, Dying, SharedIsDying, LocalIsDying, OldIsYoung, Fetches, Idling
<1> QED
  BY <1>1, <1>2, <1>3 DEF ReadInv

(* A changed row is gone from every cache within the time promised for its      *)
(* kind, for any processes, requests, lost messages and times to live.          *)
THEOREM OldRowsDie == ReadSpec => []OldRowDies
  BY ReadInitHolds, ReadStep, DyingIsOld, PTL DEF ReadSpec

(* Both caches of the backend, side by side: who has been told of a change      *)
(* finds it in the list, and every process finds it in the row in time.         *)
THEOREM CachesAreAlwaysFresh == ListSpec /\ ReadSpec => []CachesAreFresh
  BY ListsShowChanges, OldRowsDie, PTL DEF CachesAreFresh

-----------------------------------------------------------------------------
(* The graph of entities under merges.                                          *)
GraphEntity == Known \cup Spare
Values(m) == {m[i] : i \in DOMAIN m}
IsEdge(x) == DOMAIN x = {"id", "from", "to", "rel", "book", "facts"}
ReviewShape ==
  [a : GraphEntity, b : GraphEntity, action : {"merge", "unsure"}, st : {"pending", "approved", "rejected"}]

(* Edges are between entities that are there, one for a key.                 *)
KeysDiffer(S) == \A x, y \in S : EdgeKey(x) = EdgeKey(y) => x = y
EdgesFit ==
  /\ node \subseteq GraphEntity /\ KeysDiffer(edge)
  /\ \A x \in edge : IsEdge(x) /\ EndsOf(x) \subseteq node

(* What was written down of the edges of an entity.                          *)
Snapshot(S, r) == KeysDiffer(S) /\ \A x \in S : IsEdge(x) /\ r \in EndsOf(x)
LogFits ==
  /\ mlog \in Seq(Values(mlog))
  /\ \A i \in DOMAIN mlog :
       /\ DOMAIN mlog[i] = {"kept", "removed", "taken", "open"} /\ mlog[i].removed \in GraphEntity
       /\ Snapshot(mlog[i].taken, mlog[i].removed)

(* A merge under way has its entities, their edges and what is at the other  *)
(* ends to itself. All that the entity to be removed has on its edges was    *)
(* written down; then it is on edges of the other entity as well, but for    *)
(* what was between the two.                                                 *)
MergesFit ==
  /\ DOMAIN merging = Merger
  /\ \A h \in Merger : DOMAIN merging[h] = {"at", "keep", "remove", "taken", "todo", "marks"}
MergesOf(h, k, r) == merging[h].keep = {k} /\ merging[h].remove = {r}
Between(h, k, r) == {x \in merging[h].taken : EndsOf(x) \subseteq {k, r}}
HasCopy(h, r, f) == f \in spent \/ \E y \in edge : f \in y.facts /\ EndsOf(y) \subseteq Touches(h) \ {r}
Written(h, k, r) ==
  /\ k # r /\ k \in GraphEntity /\ r \in GraphEntity /\ Snapshot(merging[h].taken, r)
  /\ Touches(h) \ {r} \subseteq node
  /\ merging[h].at # "detached" => r \in node
  /\ merging[h].at = "taken" => EdgesAt(r) \subseteq merging[h].taken
  /\ merging[h].at = "connected" =>
       \A x \in EdgesAt(r) : \A f \in x.facts : HasCopy(h, r, f) \/ f \in Facts(Between(h, k, r))

(* An unmerge under way has the entity that came back to itself, with none   *)
(* of the edges yet that it still has to give back.                          *)
Restored(h, r) ==
  /\ merging[h].keep = {} /\ merging[h].remove = {r} /\ r \in node
  /\ Snapshot(merging[h].taken \cup merging[h].todo, r)
  /\ merging[h].taken \cap merging[h].todo = {}
  /\ \A y \in EdgesAt(r) : \A x \in merging[h].taken \cup merging[h].todo : EdgeKey(y) # EdgeKey(x)

(* A split under way has its two entities and what is at the other ends of   *)
(* the edges to be moved to itself; the new entity has none, then all facts. *)
Parted(h, e, n) ==
  /\ e # n /\ Snapshot(merging[h].taken, e) /\ Touches(h) \subseteq node
  /\ \A x \in merging[h].taken : n \notin EndsOf(x)
  /\ merging[h].at = "parted" => EdgesAt(n) = {}
  /\ merging[h].at = "copied" => \A x \in merging[h].taken : \A f \in x.facts :
       f \in spent \/ \E z \in edge : f \in z.facts /\ n \in EndsOf(z) /\ EndsOf(z) \subseteq Touches(h)

MergeGoes(h) ==
  /\ merging[h].at \in {"free", "judging"} \/ UnderWay(h)
  /\ MergeGoing(h) => \E k, r \in GraphEntity : MergesOf(h, k, r) /\ Written(h, k, r)
  /\ merging[h].at = "judging" => \E k, r \in GraphEntity : k # r /\ MergesOf(h, k, r)
  /\ UnmergeGoing(h) => \E r \in GraphEntity : Restored(h, r)
  /\ SplitGoing(h) => \E e, n \in GraphEntity : MergesOf(h, e, n) /\ Parted(h, e, n)
Apart == \A g, h \in Merger : g # h /\ UnderWay(g) /\ UnderWay(h) => Touches(g) \cap Touches(h) = {}

GraphIsSane ==
  /\ EdgesFit /\ LogFits /\ MergesFit /\ review \in Seq(ReviewShape)
  /\ (\A h \in Merger : MergeGoes(h)) /\ Apart /\ FactsAreKept /\ ReviewsAreLive
GraphInv == entangled \in BOOLEAN /\ (~entangled => GraphIsSane)

-----------------------------------------------------------------------------
LEMMA SameKey ==
  ASSUME NEW x, NEW y
  PROVE  EdgeKey(x) = EdgeKey(y) <=> x.from = y.from /\ x.rel = y.rel /\ x.book = y.book /\ x.to = y.to
BY DEF EdgeKey

LEMMA SameTouches ==
  ASSUME NEW h, merging'[h].keep = merging[h].keep, merging'[h].remove = merging[h].remove,
         merging'[h].taken = merging[h].taken
  PROVE  Touches(h)' = Touches(h)
BY DEF Touches

LEMMA SameWay ==
  ASSUME NEW h, merging'[h].at = merging[h].at
  PROVE  /\ UnderWay(h)' <=> UnderWay(h)
         /\ MergeGoing(h)' <=> MergeGoing(h)
         /\ UnmergeGoing(h)' <=> UnmergeGoing(h)
         /\ SplitGoing(h)' <=> SplitGoing(h)
BY DEF UnderWay, MergeGoing, UnmergeGoing, SplitGoing

(* What a step leaves to a merge under way that it is not part of.           *)
SparesMerge(g) ==
  /\ merging'[g] = merging[g] /\ spent \subseteq spent'
  /\ Touches(g) \cap node \subseteq node'
  /\ \A x \in edge' : x \in edge \/ EndsOf(x) \cap (Touches(g) \cap node) = {}
  /\ \A y \in edge : y \in edge' \/ y.facts \subseteq spent' \/ ~(EndsOf(y) \subseteq Touches(g))

LEMMA SparedWritten ==
  ASSUME NEW g \in Merger, NEW k, NEW r, UnderWay(g), MergesOf(g, k, r), Written(g, k, r), SparesMerge(g)
  PROVE  Written(g, k, r)'
<1>1. Touches(g)' = Touches(g) BY SameTouches DEF SparesMerge
<1>2. merging'[g] = merging[g] BY DEF SparesMerge
<1>3. Touches(g) \ {r} \subseteq node' BY DEF Written, SparesMerge
<1>4. r \in Touches(g) BY DEF MergesOf, Touches
<1>5. merging[g].at # "detached" => r \in node' BY <1>4 DEF Written, SparesMerge
<1>6. ASSUME merging[g].at # "detached", NEW x \in EdgesAt(r)' PROVE x \in EdgesAt(r)
  <2>1. x \in edge' /\ r \in EndsOf(x) BY <1>6 DEF EdgesAt, EndsOf
  <2>2. r \in Touches(g) \cap node BY <1>4, <1>6 DEF Written
  <2>3. x \in edge BY <2>1, <2>2 DEF SparesMerge
  <2> QED BY <2>1, <2>3 DEF EdgesAt
<1>7. merging[g].at = "taken" => EdgesAt(r)' \subseteq merging[g].taken BY <1>6 DEF Written
<1>8. ASSUME merging[g].at = "connected", NEW x \in EdgesAt(r)', NEW f \in x.facts
      PROVE  HasCopy(g, r, f)' \/ f \in Facts(Between(g, k, r))
  <2>1. HasCopy(g, r, f) \/ f \in Facts(Between(g, k, r)) BY <1>6, <1>8 DEF Written
  <2>2. CASE f \in spent BY <2>2 DEF HasCopy, SparesMerge
  <2>3. ASSUME NEW y \in edge, f \in y.facts, EndsOf(y) \subseteq Touches(g) \ {r} PROVE HasCopy(g, r, f)'
    BY <2>3, <1>1 DEF SparesMerge, HasCopy, EndsOf
  <2> QED BY <2>1, <2>2, <2>3 DEF HasCopy
<1>9. Facts(Between(g, k, r))' = Facts(Between(g, k, r)) BY <1>2 DEF Facts, Between, EndsOf
<1>10. /\ k # r /\ k \in GraphEntity /\ r \in GraphEntity /\ Snapshot(merging'[g].taken, r)
       /\ merging'[g].at # "detached" => r \in node'
       /\ merging'[g].at = "taken" => EdgesAt(r)' \subseteq merging'[g].taken
  BY <1>2, <1>5, <1>7 DEF Written
<1>11. merging'[g].at = "connected" =>
         \A x \in EdgesAt(r)' : \A f \in x.facts : HasCopy(g, r, f)' \/ f \in Facts(Between(g, k, r))'
  BY <1>2, <1>8, <1>9
<1>12. Touches(g)' \ {r} \subseteq node' BY <1>1, <1>3
<1> QED BY <1>10, <1>11, <1>12 DEF Written

LEMMA SparedRestored ==
  ASSUME NEW g \in Merger, NEW r, Restored(g, r), SparesMerge(g)
  PROVE  Restored(g, r)'
<1>1. merging'[g] = merging[g] BY DEF SparesMerge
<1>2. r \in Touches(g) \cap node BY DEF Restored, Touches
<1>3. r \in node' BY <1>2 DEF SparesMerge
<1>4. ASSUME NEW y \in EdgesAt(r)' PROVE y \in EdgesAt(r)
  <2>1. y \in edge' /\ r \in EndsOf(y) BY <1>4 DEF EdgesAt, EndsOf
  <2>2. y \in edge BY <1>2, <2>1 DEF SparesMerge
  <2> QED BY <2>1, <2>2 DEF EdgesAt
<1>5. \A y \in EdgesAt(r)' : \A x \in merging[g].taken \cup merging[g].todo : EdgeKey(y) # EdgeKey(x)
  BY <1>4 DEF Restored
<1> QED BY <1>1, <1>3, <1>5 DEF Restored, Snapshot, KeysDiffer, IsEdge, EndsOf, EdgeKey

LEMMA SparedParted ==
  ASSUME NEW g \in Merger, NEW e, NEW n, MergesOf(g, e, n), Parted(g, e, n), SparesMerge(g)
  PROVE  Parted(g, e, n)'
<1>1. merging'[g] = merging[g] /\ Touches(g)' = Touches(g) BY SameTouches DEF SparesMerge
<1>2. Touches(g) \subseteq node' /\ Touches(g) \subseteq node BY DEF Parted, SparesMerge
<1>3. n \in Touches(g) BY DEF MergesOf, Touches
<1>4. ASSUME merging[g].at = "parted" PROVE EdgesAt(n)' = {}
  <2>1. \A x \in edge' : n \in EndsOf(x) => x \in edge BY <1>2, <1>3 DEF SparesMerge
  <2>2. \A x \in edge : n \notin EndsOf(x) BY <1>4 DEF Parted, EdgesAt
  <2> QED BY <2>1, <2>2 DEF EdgesAt, EndsOf
<1>5. ASSUME merging[g].at = "copied", NEW x \in merging[g].taken, NEW f \in x.facts
      PROVE  f \in spent' \/ \E z \in edge' : f \in z.facts /\ n \in EndsOf(z) /\ EndsOf(z) \subseteq Touches(g)
  <2>1. CASE f \in spent BY <2>1 DEF SparesMerge
  <2>2. ASSUME NEW z \in edge, f \in z.facts, n \in EndsOf(z), EndsOf(z) \subseteq Touches(g)
        PROVE  f \in spent' \/ z \in edge'
    BY <2>2 DEF SparesMerge
  <2> QED BY <1>5, <2>1, <2>2 DEF Parted
<1>6. e # n /\ Snapshot(merging[g].taken, e) /\ \A x \in merging[g].taken : n \notin EndsOf(x) BY DEF Parted
<1>7. \A x : EndsOf(x)' = EndsOf(x) BY DEF EndsOf
<1>8. e # n /\ Snapshot(merging'[g].taken, e) /\ \A x \in merging'[g].taken : n \notin EndsOf(x)
  BY <1>1, <1>6
<1> QED BY <1>1, <1>2, <1>4, <1>5, <1>8 DEF Parted, Snapshot, KeysDiffer, IsEdge, EndsOf, EdgeKey

LEMMA SparedGoes ==
  ASSUME NEW g \in Merger, MergeGoes(g), merging'[g] = merging[g], UnderWay(g) => SparesMerge(g)
  PROVE  MergeGoes(g)'
<1>1. /\ UnderWay(g)' <=> UnderWay(g)
      /\ MergeGoing(g)' <=> MergeGoing(g)
      /\ UnmergeGoing(g)' <=> UnmergeGoing(g)
      /\ SplitGoing(g)' <=> SplitGoing(g)
  BY SameWay
<1>2. MergeGoing(g) \/ UnmergeGoing(g) \/ SplitGoing(g) => SparesMerge(g) BY DEF UnderWay
<1>3. \A k, r : MergesOf(g, k, r)' = MergesOf(g, k, r) BY DEF MergesOf
<1>4. MergeGoing(g) => \E k, r \in GraphEntity : MergesOf(g, k, r) /\ Written(g, k, r)'
  BY <1>2, SparedWritten DEF MergeGoes, UnderWay
<1>5. UnmergeGoing(g) => \E r \in GraphEntity : Restored(g, r)' BY <1>2, SparedRestored DEF MergeGoes
<1>6. SplitGoing(g) => \E e, n \in GraphEntity : MergesOf(g, e, n) /\ Parted(g, e, n)'
  BY <1>2, SparedParted DEF MergeGoes
<1>7. merging'[g].at \in {"free", "judging"} \/ UnderWay(g)' BY <1>1 DEF MergeGoes
<1>8. merging'[g].at = "judging" => \E k, r \in GraphEntity : k # r /\ MergesOf(g, k, r)' BY <1>3 DEF MergeGoes
<1> QED BY <1>1, <1>3, <1>4, <1>5, <1>6, <1>7, <1>8 DEF MergeGoes

LEMMA StillApart ==
  ASSUME Apart, NEW h, \A g \in Merger : g # h => merging'[g] = merging[g],
         \/ ~UnderWay(h)'
         \/ UnderWay(h) /\ Touches(h)' = Touches(h)
  PROVE  Apart'
<1>1. \A g \in Merger : g # h => (UnderWay(g)' <=> UnderWay(g)) /\ Touches(g)' = Touches(g)
  BY SameTouches, SameWay
<1> QED BY <1>1 DEF Apart

(* One that begins, or takes more to itself, where no other is.              *)
LEMMA TakesApart ==
  ASSUME Apart, NEW h \in Merger, NEW E, ~Entangles(E, Merger \ {h}),
         \A g \in Merger : g # h => merging'[g] = merging[g],
         \/ Touches(h)' \subseteq E
         \/ UnderWay(h) /\ Touches(h)' \subseteq Touches(h) \cup E
  PROVE  Apart'
<1>1. \A g \in Merger : g # h => (UnderWay(g)' <=> UnderWay(g)) /\ Touches(g)' = Touches(g)
  BY SameTouches, SameWay
<1>2. \A g \in Merger : g # h /\ UnderWay(g) => Touches(g) \cap E = {} BY DEF Entangles
<1>3. \A g \in Merger : g # h /\ UnderWay(g) => Touches(g) \cap Touches(h)' = {} BY <1>2 DEF Apart
<1> QED BY <1>1, <1>3 DEF Apart

LEMMA SameReviews ==
  ASSUME ReviewsAreLive, review' = review, adrift \subseteq adrift',
         node \subseteq node' \cup adrift' \cup Leaving', Leaving \subseteq Leaving' \cup adrift'
  PROVE  ReviewsAreLive'
BY DEF ReviewsAreLive, Undecided, Pair

LEMMA SameLeaving ==
  ASSUME \A g \in Merger : merging[g].at = "detached" => merging'[g] = merging[g]
  PROVE  Leaving \subseteq Leaving'
BY DEF Leaving

LEMMA SameGraph ==
  ASSUME EdgesFit, node' = node, edge' = edge, spent' = spent
  PROVE  EdgesFit' /\ \A g \in Merger : merging'[g] = merging[g] => SparesMerge(g)
BY DEF EdgesFit, KeysDiffer, IsEdge, EndsOf, EdgeKey, SparesMerge

(* What is on edges or in a hand stays so.                                   *)
LEMMA FactsStay ==
  ASSUME FactsAreKept, spent \subseteq spent',
         \A f \in Facts(edge) : f \in Facts(edge') \/ f \in spent' \/ \E g \in Merger : f \in TornFacts(g)',
         \A g \in Merger : merging'[g] = merging[g] \/ TornFacts(g) \subseteq Facts(edge') \cup spent'
  PROVE  FactsAreKept'
<1>1. \A g \in Merger : merging'[g] = merging[g] => TornFacts(g)' = TornFacts(g) BY DEF TornFacts, Facts
<1>2. ASSUME NEW f \in Facts(FirstEdges), f \notin spent'
      PROVE  f \in Facts(edge') \/ \E g \in Merger : f \in TornFacts(g)'
  <2>1. f \in Facts(edge) \/ \E g \in Merger : f \in TornFacts(g) BY <1>2 DEF FactsAreKept
  <2> QED BY <1>1, <1>2, <2>1
<1>3. Facts(edge)' = Facts(edge') /\ Facts(FirstEdges)' = Facts(FirstEdges) BY DEF Facts
<1> QED BY <1>2, <1>3 DEF FactsAreKept

LEMMA NoneTorn == ASSUME NEW h, merging[h].at # "torn" PROVE TornFacts(h) = {}
BY DEF TornFacts

-----------------------------------------------------------------------------
(* The log and the reviews as sequences.                                     *)
LEMMA OfItsValues == ASSUME NEW S, NEW s \in Seq(S) PROVE s \in Seq(Values(s)) /\ DOMAIN s = 1 .. Len(s)
<1>1. PICK n \in Nat : s \in [1 .. n -> S] BY SeqDef
<1>2. s \in [1 .. n -> Values(s)] BY <1>1 DEF Values
<1>3. s \in Seq(Values(s)) BY <1>2, SeqDef
<1> QED BY <1>3, LenProperties

LEMMA Appended ==
  ASSUME NEW S, NEW s, s \in Seq(S), NEW v \in S, NEW t, t = Append(s, v)
  PROVE  t \in Seq(S) /\ \A i \in DOMAIN t : (i \in DOMAIN s /\ t[i] = s[i]) \/ t[i] = v
<1>1. s \in Seq(S) OBVIOUS
<1>2. /\ Append(s, v) \in Seq(S) /\ Len(Append(s, v)) = Len(s) + 1
      /\ \A i \in 1 .. Len(s) : Append(s, v)[i] = s[i]
      /\ Append(s, v)[Len(s) + 1] = v
  BY <1>1, AppendProperties
<1>3. t \in Seq(S) BY <1>2
<1>4. DOMAIN s = 1 .. Len(s) /\ Len(s) \in Nat /\ DOMAIN t = 1 .. Len(t) BY <1>1, <1>3, LenProperties
<1>5. \A i \in DOMAIN t : i \in 1 .. Len(s) \/ i = Len(s) + 1 BY <1>2, <1>4
<1> QED BY <1>2, <1>3, <1>4, <1>5

LEMMA Replaced ==
  ASSUME NEW S, NEW s, s \in Seq(S), NEW v \in S, NEW i \in DOMAIN s, NEW t, t = [s EXCEPT ![i] = v]
  PROVE  t \in Seq(S) /\ DOMAIN t = DOMAIN s /\ \A j \in DOMAIN s : t[j] = IF j = i THEN v ELSE s[j]
<1>1. DOMAIN s = 1 .. Len(s) BY LenProperties
<1>2. s \in Seq(S) /\ i \in 1 .. Len(s) BY <1>1
<1>3. [s EXCEPT ![i] = v] \in Seq(S) BY <1>2, ExceptSeq
<1> QED BY <1>3

LEMMA Logged ==
  ASSUME LogFits, NEW v, DOMAIN v = {"kept", "removed", "taken", "open"}, v.removed \in GraphEntity,
         Snapshot(v.taken, v.removed),
         \/ mlog' = Append(mlog, v)
         \/ \E i \in DOMAIN mlog : mlog' = [mlog EXCEPT ![i] = v]
  PROVE  LogFits'
<1>1. PICK S : S = Values(mlog) \cup {v} OBVIOUS
<1>2. mlog \in Seq(S)
  <2>1. Values(mlog) \subseteq S /\ mlog \in Seq(Values(mlog)) BY <1>1 DEF LogFits
  <2> QED BY <2>1, SeqMonotonic
<1>3. mlog' \in Seq(S) /\ \A i \in DOMAIN mlog' : (i \in DOMAIN mlog /\ mlog'[i] = mlog[i]) \/ mlog'[i] = v
  <2>1. CASE mlog' = Append(mlog, v) BY <1>1, <1>2, <2>1, Appended
  <2>2. ASSUME NEW i \in DOMAIN mlog, mlog' = [mlog EXCEPT ![i] = v]
        PROVE  mlog' \in Seq(S) /\ \A j \in DOMAIN mlog' : (j \in DOMAIN mlog /\ mlog'[j] = mlog[j]) \/ mlog'[j] = v
    <3>1. /\ mlog' \in Seq(S) /\ DOMAIN mlog' = DOMAIN mlog
          /\ \A j \in DOMAIN mlog : mlog'[j] = IF j = i THEN v ELSE mlog[j]
      BY <1>1, <1>2, <2>2, Replaced
    <3> QED BY <3>1
  <2> QED BY <2>1, <2>2
<1>4. mlog' \in Seq(Values(mlog')) BY <1>3, OfItsValues
<1>5. ASSUME NEW i \in DOMAIN mlog'
      PROVE  /\ DOMAIN mlog'[i] = {"kept", "removed", "taken", "open"} /\ mlog'[i].removed \in GraphEntity
             /\ Snapshot(mlog'[i].taken, mlog'[i].removed)
  BY <1>3, <1>5 DEF LogFits
<1>6. Values(mlog)' = Values(mlog') BY DEF Values
<1> QED BY <1>4, <1>5, <1>6 DEF LogFits

-----------------------------------------------------------------------------
(* What a step does to the merges.                                           *)
ShapeOfMerge == {"at", "keep", "remove", "taken", "todo", "marks"}
LEMMA MergingChanges ==
  ASSUME MergesFit, NEW h \in Merger, NEW m, DOMAIN m = ShapeOfMerge, merging' = [merging EXCEPT ![h] = m]
  PROVE  MergesFit' /\ merging'[h] = m /\ \A g \in Merger : g # h => merging'[g] = merging[g]
<1>1. /\ DOMAIN merging' = Merger /\ merging'[h] = m
      /\ \A g \in Merger : g # h => merging'[g] = merging[g]
  BY DEF MergesFit
<1>2. \A g \in Merger : DOMAIN merging'[g] = ShapeOfMerge BY <1>1 DEF MergesFit, ShapeOfMerge
<1> QED BY <1>1, <1>2 DEF MergesFit, ShapeOfMerge

LEMMA MergeEnds ==
  ASSUME MergesFit, NEW h \in Merger, merging' = [merging EXCEPT ![h] = NotMerging]
  PROVE  /\ MergesFit' /\ merging'[h] = NotMerging /\ MergeGoes(h)' /\ ~UnderWay(h)'
         /\ \A g \in Merger : g # h => merging'[g] = merging[g]
<1>1. PICK m : m = NotMerging OBVIOUS
<1>2. DOMAIN m = ShapeOfMerge BY <1>1 DEF NotMerging, ShapeOfMerge
<1>3. merging' = [merging EXCEPT ![h] = m] BY <1>1
<1>4. MergesFit' /\ merging'[h] = m /\ \A g \in Merger : g # h => merging'[g] = merging[g]
  BY <1>2, <1>3, MergingChanges
<1>5. merging'[h].at = "free" BY <1>4, <1>1 DEF NotMerging
<1> QED BY <1>1, <1>4, <1>5 DEF MergeGoes, UnderWay, MergeGoing, UnmergeGoing, SplitGoing

(* A merge that goes on: only how far it has come changes.                   *)
LEMMA MergeGoesOn ==
  ASSUME MergesFit, NEW h \in Merger, NEW a, merging' = [merging EXCEPT ![h].at = a]
  PROVE  /\ MergesFit' /\ merging'[h].at = a /\ merging'[h].keep = merging[h].keep
         /\ merging'[h].remove = merging[h].remove /\ merging'[h].taken = merging[h].taken
         /\ merging'[h].todo = merging[h].todo /\ Touches(h)' = Touches(h)
         /\ \A g \in Merger : g # h => merging'[g] = merging[g]
<1>1. PICK m : m = [merging[h] EXCEPT !.at = a] OBVIOUS
<1>2. DOMAIN merging[h] = ShapeOfMerge BY DEF MergesFit, ShapeOfMerge
<1>3. /\ DOMAIN m = ShapeOfMerge /\ m.at = a /\ m.keep = merging[h].keep
      /\ m.remove = merging[h].remove /\ m.taken = merging[h].taken /\ m.todo = merging[h].todo
  BY <1>1, <1>2 DEF ShapeOfMerge
<1>4. merging' = [merging EXCEPT ![h] = m] BY <1>1
<1>5. MergesFit' /\ merging'[h] = m /\ \A g \in Merger : g # h => merging'[g] = merging[g]
  BY <1>3, <1>4, MergingChanges
<1>6. Touches(h)' = Touches(h) BY <1>3, <1>5, SameTouches
<1> QED BY <1>3, <1>5, <1>6

(* A step of one merge, or of none, that spares the others.                  *)
LEMMA OthersGo ==
  ASSUME \A g \in Merger : MergeGoes(g), NEW h, h \in Merger => MergeGoes(h)',
         \A g \in Merger : g # h => merging'[g] = merging[g] /\ (UnderWay(g) => SparesMerge(g))
  PROVE  \A g \in Merger : MergeGoes(g)'
<1>1. \A g \in Merger : g # h => MergeGoes(g)' BY SparedGoes
<1> QED BY <1>1

LEMMA OnlyReviews ==
  ASSUME GraphIsSane, UNCHANGED <<node, edge, mlog, spent>>,
         \A g \in Merger : merging'[g] = merging[g] \/ merging[g].at # "torn",
         MergesFit', \A g \in Merger : MergeGoes(g)', Apart', review' \in Seq(ReviewShape), ReviewsAreLive'
  PROVE  GraphIsSane'
<1>1. EdgesFit /\ FactsAreKept /\ LogFits /\ node' = node /\ edge' = edge /\ spent' = spent /\ mlog' = mlog
  BY DEF GraphIsSane
<1>2. EdgesFit' BY <1>1, SameGraph
<1>3. FactsAreKept'
  <2>1. \A g \in Merger : merging'[g] = merging[g] \/ TornFacts(g) = {} BY NoneTorn
  <2> QED BY <1>1, <2>1, FactsStay
<1>4. LogFits' BY <1>1 DEF LogFits, Values, Snapshot, KeysDiffer, IsEdge, EndsOf, EdgeKey
<1> QED BY <1>2, <1>3, <1>4 DEF GraphIsSane

LEMMA BreakStays ==
  ASSUME GraphIsSane, NEW h \in Merger, MergeBreaks(h)
  PROVE  GraphIsSane'
<1>1. /\ MergesFit /\ EdgesFit /\ FactsAreKept /\ Apart /\ ReviewsAreLive /\ \A g \in Merger : MergeGoes(g)
      /\ review \in Seq(ReviewShape)
  BY DEF GraphIsSane
<1>2. /\ merging' = [merging EXCEPT ![h] = NotMerging] /\ adrift' = adrift \cup merging[h].remove
      /\ UNCHANGED <<node, edge, mlog, spent>> /\ review' = review /\ merging[h].at # "torn"
  BY DEF MergeBreaks, MergeGoing
<1>3. /\ MergesFit' /\ MergeGoes(h)' /\ ~UnderWay(h)'
      /\ \A g \in Merger : g # h => merging'[g] = merging[g]
  BY <1>1, <1>2, MergeEnds
<1>4. \A g \in Merger : merging'[g] = merging[g] => SparesMerge(g) BY <1>1, <1>2, SameGraph
<1>5. \A g \in Merger : MergeGoes(g)' BY <1>1, <1>3, <1>4, OthersGo
<1>6. Apart' BY <1>1, <1>3, StillApart
<1>7. Leaving \subseteq Leaving' \cup adrift' BY <1>2, <1>3 DEF Leaving
<1>8. ReviewsAreLive' BY <1>1, <1>2, <1>7, SameReviews
<1> QED BY <1>1, <1>2, <1>3, <1>5, <1>6, <1>8, OnlyReviews

LEMMA JudgeStays ==
  ASSUME GraphIsSane, NEW h \in Merger, NEW e \in GraphEntity, NEW c \in GraphEntity,
         JudgesPair(h, e, c) \/ JudgedDifferent(h)
  PROVE  GraphIsSane'
<1>1. /\ MergesFit /\ EdgesFit /\ FactsAreKept /\ Apart /\ ReviewsAreLive /\ \A g \in Merger : MergeGoes(g)
      /\ review \in Seq(ReviewShape)
  BY DEF GraphIsSane
<1>2. UNCHANGED <<node, edge, mlog, spent>> /\ review' = review /\ adrift' = adrift
  BY DEF JudgesPair, JudgedDifferent
<1>3. /\ MergesFit' /\ MergeGoes(h)' /\ ~UnderWay(h)' /\ merging[h].at \notin {"detached", "torn"}
      /\ \A g \in Merger : g # h => merging'[g] = merging[g]
  <2>1. CASE JudgedDifferent(h) BY <1>1, <2>1, MergeEnds DEF JudgedDifferent
  <2>2. CASE JudgesPair(h, e, c)
    <3>1. PICK m : m = [merging[h] EXCEPT !.at = "judging", !.keep = {e}, !.remove = {c}] OBVIOUS
    <3>2. DOMAIN merging[h] = ShapeOfMerge BY <1>1 DEF MergesFit, ShapeOfMerge
    <3>3. DOMAIN m = ShapeOfMerge /\ m.at = "judging" /\ m.keep = {e} /\ m.remove = {c}
      BY <3>1, <3>2 DEF ShapeOfMerge
    <3>4. merging' = [merging EXCEPT ![h] = m] BY <2>2, <3>1 DEF JudgesPair
    <3>5. MergesFit' /\ merging'[h] = m /\ \A g \in Merger : g # h => merging'[g] = merging[g]
      BY <1>1, <3>3, <3>4, MergingChanges
    <3>6. MergesOf(h, e, c)' /\ ~UnderWay(h)' BY <3>3, <3>5 DEF MergesOf, UnderWay, MergeGoing, UnmergeGoing, SplitGoing
    <3>7. e # c /\ merging[h].at = "free" BY <2>2 DEF JudgesPair, NotMerging
    <3> QED BY <3>3, <3>5, <3>6, <3>7 DEF MergeGoes, UnderWay
  <2> QED BY <2>1, <2>2
<1>4. \A g \in Merger : merging'[g] = merging[g] => SparesMerge(g) BY <1>1, <1>2, SameGraph
<1>5. \A g \in Merger : MergeGoes(g)' BY <1>1, <1>3, <1>4, OthersGo
<1>6. Apart' BY <1>1, <1>3, StillApart
<1>7. Leaving \subseteq Leaving' BY <1>3, SameLeaving
<1>8. ReviewsAreLive' BY <1>1, <1>2, <1>7, SameReviews
<1> QED BY <1>1, <1>2, <1>3, <1>5, <1>6, <1>8, OnlyReviews

(* Reviews come, are decided, and follow the entity that stays.              *)
LEMMA NoMergeMoves ==
  ASSUME GraphIsSane, merging' = merging, UNCHANGED <<node, edge, mlog, spent>>
  PROVE  MergesFit' /\ (\A g \in Merger : MergeGoes(g)') /\ Apart' /\ Leaving' = Leaving
<1>1. MergesFit /\ EdgesFit /\ FactsAreKept /\ Apart /\ \A g \in Merger : MergeGoes(g) BY DEF GraphIsSane
<1>2. \A g \in Merger : merging'[g] = merging[g] OBVIOUS
<1>3. \A g \in Merger : SparesMerge(g) BY <1>1, <1>2, SameGraph
<1>4. \A g \in Merger : MergeGoes(g)' BY <1>1, <1>2, <1>3, SparedGoes
<1>5. MergesFit' BY <1>1 DEF MergesFit
<1>6. Apart' BY <1>1, SameTouches, SameWay DEF Apart
<1>7. Leaving' = Leaving BY DEF Leaving
<1> QED BY <1>4, <1>5, <1>6, <1>7

LEMMA DecidedStays ==
  ASSUME GraphIsSane, NEW i \in DOMAIN review, NEW s \in {"approved", "rejected"},
         review' = [review EXCEPT ![i].st = s],
         merging' = merging, UNCHANGED <<node, edge, mlog, spent, adrift>>
  PROVE  GraphIsSane'
<1>1. ReviewsAreLive /\ review \in Seq(ReviewShape) BY DEF GraphIsSane
<1>2. MergesFit' /\ (\A g \in Merger : MergeGoes(g)') /\ Apart' /\ Leaving' = Leaving BY NoMergeMoves
<1>3. PICK v : v = [review[i] EXCEPT !.st = s] OBVIOUS
<1>4. review[i] \in ReviewShape
  <2>1. i \in 1 .. Len(review) BY <1>1, LenProperties
  <2> QED BY <1>1, <2>1, ElementOfSeq
<1>5. v \in ReviewShape /\ v.st = s BY <1>3, <1>4 DEF ReviewShape
<1>6. review' = [review EXCEPT ![i] = v] BY <1>3
<1>7. /\ review' \in Seq(ReviewShape) /\ DOMAIN review' = DOMAIN review
      /\ \A j \in DOMAIN review : review'[j] = IF j = i THEN v ELSE review[j]
  BY <1>1, <1>5, <1>6, Replaced
<1>8. ASSUME NEW j \in DOMAIN review', Undecided(j)'
      PROVE  Pair(j)' \subseteq node' \cup adrift' \cup Leaving' /\ review'[j].a # review'[j].b
  <2>1. j # i BY <1>5, <1>7, <1>8 DEF Undecided
  <2>2. j \in DOMAIN review /\ review'[j] = review[j] BY <1>7, <1>8, <2>1
  <2>3. Undecided(j) /\ Pair(j)' = Pair(j) BY <1>8, <2>2 DEF Undecided, Pair
  <2> QED BY <1>1, <1>2, <2>2, <2>3 DEF ReviewsAreLive
<1>9. ReviewsAreLive' BY <1>8 DEF ReviewsAreLive
<1> QED BY <1>2, <1>7, <1>9, OnlyReviews

LEMMA DoubtStays ==
  ASSUME GraphIsSane, NEW h \in Merger, NEW e \in GraphEntity, NEW c \in GraphEntity,
         NEW action \in {"merge", "unsure"}, JudgeDoubts(h, e, c, action)
  PROVE  GraphIsSane'
<1>1. /\ MergesFit /\ EdgesFit /\ FactsAreKept /\ Apart /\ ReviewsAreLive /\ \A g \in Merger : MergeGoes(g)
      /\ review \in Seq(ReviewShape)
  BY DEF GraphIsSane
<1>2. /\ merging' = [merging EXCEPT ![h] = NotMerging] /\ adrift' = adrift \cup ({e, c} \ node)
      /\ UNCHANGED <<node, edge, mlog, spent>> /\ merging[h].at = "judging"
      /\ merging[h].keep = {e} /\ merging[h].remove = {c}
      /\ review' = Append(review, [a |-> e, b |-> c, action |-> action, st |-> "pending"])
  BY DEF JudgeDoubts
<1>3. /\ MergesFit' /\ MergeGoes(h)' /\ ~UnderWay(h)'
      /\ \A g \in Merger : g # h => merging'[g] = merging[g]
  BY <1>1, <1>2, MergeEnds
<1>4. \A g \in Merger : merging'[g] = merging[g] => SparesMerge(g) BY <1>1, <1>2, SameGraph
<1>5. \A g \in Merger : MergeGoes(g)' BY <1>1, <1>3, <1>4, OthersGo
<1>6. Apart' BY <1>1, <1>3, StillApart
<1>7. Leaving \subseteq Leaving' BY <1>2, <1>3, SameLeaving
<1>8. e # c
  <2>1. PICK k, r \in GraphEntity : k # r /\ MergesOf(h, k, r) BY <1>1, <1>2 DEF MergeGoes
  <2> QED BY <1>2, <2>1 DEF MergesOf
<1>9. PICK v : v = [a |-> e, b |-> c, action |-> action, st |-> "pending"] OBVIOUS
<1>10. v \in ReviewShape /\ v.a = e /\ v.b = c BY <1>9 DEF ReviewShape
<1>11. review' \in Seq(ReviewShape) /\ \A j \in DOMAIN review' : (j \in DOMAIN review /\ review'[j] = review[j]) \/ review'[j] = v
  <2>1. review' = Append(review, v) BY <1>2, <1>9
  <2> QED BY <1>1, <1>10, <2>1, Appended
<1>12. ASSUME NEW j \in DOMAIN review', Undecided(j)'
       PROVE  Pair(j)' \subseteq node' \cup adrift' \cup Leaving' /\ review'[j].a # review'[j].b
  <2>1. CASE review'[j] = v BY <1>2, <1>8, <1>10, <2>1 DEF Pair
  <2>2. CASE j \in DOMAIN review /\ review'[j] = review[j]
    <3>1. Undecided(j) /\ Pair(j)' = Pair(j) BY <1>12, <2>2 DEF Undecided, Pair
    <3> QED BY <1>1, <1>2, <1>7, <2>2, <3>1 DEF ReviewsAreLive
  <2> QED BY <1>11, <2>1, <2>2
<1>13. ReviewsAreLive' BY <1>12 DEF ReviewsAreLive
<1> QED BY <1>2, <1>3, <1>5, <1>6, <1>11, <1>13, OnlyReviews

LEMMA EndStays ==
  ASSUME GraphIsSane, NEW h \in Merger, NEW k \in GraphEntity, NEW r \in GraphEntity, MergeEndsWith(h, k, r)
  PROVE  GraphIsSane'
<1>1. /\ MergesFit /\ EdgesFit /\ FactsAreKept /\ Apart /\ ReviewsAreLive /\ \A g \in Merger : MergeGoes(g)
      /\ review \in Seq(ReviewShape)
  BY DEF GraphIsSane
<1>2. /\ merging' = [merging EXCEPT ![h] = NotMerging] /\ merging[h].at = "detached" /\ MergesOf(h, k, r)
      /\ UNCHANGED <<node, edge, mlog, spent>>
      /\ adrift' = IF TooMany(k, r) THEN adrift \cup {r} ELSE adrift
  BY DEF MergeEndsWith, MergesOf
<1>3. /\ MergesFit' /\ MergeGoes(h)' /\ ~UnderWay(h)'
      /\ \A g \in Merger : g # h => merging'[g] = merging[g]
  BY <1>1, <1>2, MergeEnds
<1>4. \A g \in Merger : merging'[g] = merging[g] => SparesMerge(g) BY <1>1, <1>2, SameGraph
<1>5. \A g \in Merger : MergeGoes(g)' BY <1>1, <1>3, <1>4, OthersGo
<1>6. Apart' BY <1>1, <1>3, StillApart
<1>7. k # r /\ k \in node
  <2>1. MergeGoing(h) BY <1>2 DEF MergeGoing
  <2>2. PICK l, q \in GraphEntity : MergesOf(h, l, q) /\ Written(h, l, q) BY <1>1, <2>1 DEF MergeGoes
  <2>3. l = k /\ q = r BY <1>2, <2>2 DEF MergesOf
  <2> QED BY <1>2, <2>2, <2>3 DEF Written, MergesOf, Touches
<1>8. Leaving \subseteq Leaving' \cup {r} BY <1>2, <1>3 DEF Leaving, MergesOf
<1>9. CASE TooMany(k, r)
  <2>1. review' = review BY <1>9 DEF MergeEndsWith
  <2>2. ReviewsAreLive' BY <1>1, <1>2, <1>8, <1>9, <2>1, SameReviews
  <2> QED BY <1>1, <1>2, <1>3, <1>5, <1>6, <2>1, <2>2, OnlyReviews
<1>10. CASE ~TooMany(k, r)
  <2>1. review' = [i \in DOMAIN review |->
              IF i \in merging[h].marks THEN [Resolved(k, r)[i] EXCEPT !.st = "approved"]
                                        ELSE Resolved(k, r)[i]]
    BY <1>10 DEF MergeEndsWith
  <2>2. PICK n \in Nat : DOMAIN review = 1 .. n /\ \A i \in 1 .. n : review[i] \in ReviewShape
    BY <1>1, SeqDef
  <2>3. ASSUME NEW i \in DOMAIN review
        PROVE  Resolved(k, r)[i] = IF i \notin About(r) THEN review[i]
                 ELSE IF Pair(i) = {k, r} \/ Twins(i, k, r) # {} THEN [review[i] EXCEPT !.st = "approved"]
                 ELSE RepointedReview(i, k, r)
    BY DEF Resolved
  <2>4. ASSUME NEW i \in DOMAIN review
        PROVE  /\ Resolved(k, r)[i] \in ReviewShape
               /\ Resolved(k, r)[i].st = "pending" =>
                    \/ i \notin About(r) /\ Resolved(k, r)[i] = review[i]
                    \/ /\ i \in About(r) /\ Pair(i) # {k, r}
                       /\ Resolved(k, r)[i] = RepointedReview(i, k, r)
    <3>1. review[i] \in ReviewShape BY <2>2
    <3>2. RepointedReview(i, k, r) \in ReviewShape BY <3>1 DEF RepointedReview, ReviewShape, Renamed
    <3>3. [review[i] EXCEPT !.st = "approved"] \in ReviewShape /\ [review[i] EXCEPT !.st = "approved"].st # "pending"
      BY <3>1 DEF ReviewShape
    <3> QED BY <2>3, <3>1, <3>2, <3>3
  <2>5. DOMAIN review' = DOMAIN review BY <2>1
  <2>6. ASSUME NEW i \in DOMAIN review
        PROVE  /\ review'[i] \in ReviewShape
               /\ review'[i].st = "pending" => review'[i] = Resolved(k, r)[i]
    <3>1. CASE i \in merging[h].marks
      <4>1. review'[i] = [Resolved(k, r)[i] EXCEPT !.st = "approved"] BY <2>1, <3>1
      <4> QED BY <2>4, <4>1 DEF ReviewShape
    <3>2. CASE i \notin merging[h].marks
      <4>1. review'[i] = Resolved(k, r)[i] BY <2>1, <3>2
      <4> QED BY <2>4, <4>1
    <3> QED BY <3>1, <3>2
  <2>7. review' \in Seq(ReviewShape)
    <3>1. review' \in [1 .. n -> ReviewShape] BY <2>1, <2>2, <2>6
    <3> QED BY <3>1, SeqDef
  <2>8. ASSUME NEW i \in DOMAIN review', Undecided(i)'
        PROVE  Pair(i)' \subseteq node' \cup adrift' \cup Leaving' /\ review'[i].a # review'[i].b
    <3>1. i \in DOMAIN review /\ review'[i] = Resolved(k, r)[i] /\ Resolved(k, r)[i].st = "pending"
      BY <2>5, <2>6, <2>8 DEF Undecided
    <3>2. CASE i \notin About(r) /\ Resolved(k, r)[i] = review[i]
      <4>1. Undecided(i) /\ r \notin Pair(i) /\ Pair(i)' = Pair(i)
        BY <2>8, <3>1, <3>2 DEF Undecided, Pair, About
      <4>2. Pair(i) \subseteq node \cup adrift \cup Leaving /\ review[i].a # review[i].b
        BY <1>1, <3>1, <4>1 DEF ReviewsAreLive
      <4> QED BY <1>2, <1>8, <3>1, <3>2, <4>1, <4>2
    <3>3. CASE i \in About(r) /\ Pair(i) # {k, r} /\ Resolved(k, r)[i] = RepointedReview(i, k, r)
      <4>1. Undecided(i) /\ r \in Pair(i) BY <3>3 DEF About
      <4>2. Pair(i) \subseteq node \cup adrift \cup Leaving /\ review[i].a # review[i].b
        BY <1>1, <3>1, <4>1 DEF ReviewsAreLive
      <4>3. review[i] \in ReviewShape BY <2>2, <3>1
      <4>4. review'[i].a = Renamed(review[i].a, k, r) /\ review'[i].b = Renamed(review[i].b, k, r)
        BY <3>1, <3>3, <4>3 DEF RepointedReview, ReviewShape
      <4>5. Pair(i)' = {Renamed(review[i].a, k, r), Renamed(review[i].b, k, r)} BY <4>4 DEF Pair
      <4>6. Pair(i)' \subseteq (Pair(i) \ {r}) \cup {k} BY <4>5, <1>7 DEF Pair, Renamed
      <4>7. Renamed(review[i].a, k, r) # Renamed(review[i].b, k, r)
        BY <3>3, <4>1, <4>2 DEF Pair, Renamed
      <4> QED BY <1>2, <1>7, <1>8, <4>2, <4>4, <4>6, <4>7
    <3> QED BY <2>4, <3>1, <3>2, <3>3
  <2>9. ReviewsAreLive' BY <2>8 DEF ReviewsAreLive
  <2> QED BY <1>2, <1>3, <1>5, <1>6, <2>7, <2>9, OnlyReviews
<1> QED BY <1>9, <1>10

-----------------------------------------------------------------------------
(* A merge under way.                                                        *)
LEMMA EdgesAtFit ==
  ASSUME EdgesFit, NEW r \in node
  PROVE  Snapshot(EdgesAt(r), r) /\ UNION {EndsOf(x) : x \in EdgesAt(r)} \subseteq node
BY DEF EdgesFit, Snapshot, KeysDiffer, EdgesAt

LEMMA BeginStays ==
  ASSUME GraphIsSane, NEW h \in Merger, ~UnderWay(h), NEW k \in GraphEntity, NEW r \in GraphEntity,
         NEW approves, MergeBegins(h, k, r, approves), ~entangled', UNCHANGED <<node, edge, review, spent, adrift>>,
         k # r, LET touched == {k, r} \cup UNION {EndsOf(x) : x \in EdgesAt(r)} IN ~Entangles(touched, Merger \ {h})
  PROVE  GraphIsSane'
<1> DEFINE touched == {k, r} \cup UNION {EndsOf(x) : x \in EdgesAt(r)}
<1>1. /\ MergesFit /\ EdgesFit /\ FactsAreKept /\ Apart /\ ReviewsAreLive /\ \A g \in Merger : MergeGoes(g)
      /\ review \in Seq(ReviewShape) /\ LogFits
  BY DEF GraphIsSane
<1>2. k \in node /\ r \in node /\ ~Entangles(touched, Merger \ {h}) BY DEF MergeBegins
<1>3. Snapshot(EdgesAt(r), r) /\ touched \subseteq node BY <1>1, <1>2, EdgesAtFit
<1>4. PICK m : m = [at |-> "taken", keep |-> {k}, remove |-> {r}, taken |-> EdgesAt(r), todo |-> {},
                    marks |-> approves]
  OBVIOUS
<1>5. DOMAIN m = ShapeOfMerge /\ m.at = "taken" /\ m.keep = {k} /\ m.remove = {r} /\ m.taken = EdgesAt(r)
  BY <1>4 DEF ShapeOfMerge
<1>6. merging' = [merging EXCEPT ![h] = m] BY <1>4 DEF MergeBegins
<1>7. MergesFit' /\ merging'[h] = m /\ \A g \in Merger : g # h => merging'[g] = merging[g]
  BY <1>1, <1>5, <1>6, MergingChanges
<1>8. Touches(h)' = touched /\ MergesOf(h, k, r)' BY <1>5, <1>7 DEF Touches, MergesOf
<1>9. EdgesAt(r)' = EdgesAt(r) BY DEF EdgesAt, EndsOf
<1>10. Written(h, k, r)'
  <2>1. /\ k # r /\ k \in GraphEntity /\ r \in GraphEntity /\ Snapshot(merging'[h].taken, r)
        /\ merging'[h].at # "detached" => r \in node'
        /\ merging'[h].at = "taken" => EdgesAt(r)' \subseteq merging'[h].taken
    BY <1>2, <1>3, <1>5, <1>7, <1>9
  <2>2. Touches(h)' \ {r} \subseteq node' BY <1>3, <1>8
  <2>3. merging'[h].at # "connected" BY <1>5, <1>7
  <2> QED BY <2>1, <2>2, <2>3 DEF Written
<1>11. MergeGoes(h)'
  <2>1. merging'[h].at = "taken" BY <1>5, <1>7
  <2> QED BY <2>1, <1>8, <1>10 DEF MergeGoes, UnderWay, MergeGoing, UnmergeGoing, SplitGoing
<1>12. \A g \in Merger : merging'[g] = merging[g] => SparesMerge(g) BY <1>1, SameGraph
<1>13. \A g \in Merger : MergeGoes(g)' BY <1>1, <1>7, <1>11, <1>12, OthersGo
<1>14. Apart' BY <1>1, <1>2, <1>7, <1>8, TakesApart
<1>15. merging[h].at \notin {"detached", "torn"} BY DEF UnderWay, MergeGoing, UnmergeGoing, SplitGoing
<1>16. Leaving \subseteq Leaving' BY <1>7, <1>15, SameLeaving
<1>17. ReviewsAreLive' BY <1>1, <1>16, SameReviews
<1>18. PICK v : v = [kept |-> k, removed |-> r, taken |-> EdgesAt(r), open |-> TRUE] OBVIOUS
<1>19. /\ DOMAIN v = {"kept", "removed", "taken", "open"} /\ v.removed \in GraphEntity
       /\ Snapshot(v.taken, v.removed)
  BY <1>3, <1>18
<1>20. mlog' = Append(mlog, v) BY <1>18 DEF MergeBegins
<1>21. LogFits' BY <1>1, <1>19, <1>20, Logged
<1>22. EdgesFit' /\ FactsAreKept'
  <2>1. TornFacts(h) = {} BY <1>15, NoneTorn
  <2> QED BY <1>1, <1>7, <2>1, SameGraph, FactsStay
<1> QED BY <1>1, <1>7, <1>13, <1>14, <1>17, <1>21, <1>22 DEF GraphIsSane

LEMMA DetachStays ==
  ASSUME GraphIsSane, NEW h \in Merger, NEW k \in GraphEntity, NEW r \in GraphEntity, MergeDetaches(h, k, r)
  PROVE  GraphIsSane'
<1>1. /\ MergesFit /\ EdgesFit /\ FactsAreKept /\ Apart /\ ReviewsAreLive /\ \A g \in Merger : MergeGoes(g)
      /\ review \in Seq(ReviewShape) /\ LogFits
  BY DEF GraphIsSane
<1>2. /\ merging' = [merging EXCEPT ![h].at = "detached"] /\ merging[h].at = "connected" /\ MergesOf(h, k, r)
      /\ node' = node \ {r} /\ edge' = edge \ EdgesAt(r) /\ spent' = spent \cup Facts(Between(h, k, r))
      /\ mlog' = mlog /\ review' = review /\ adrift' = adrift
  BY DEF MergeDetaches, MergesOf, Between
<1>3. /\ MergesFit' /\ merging'[h].at = "detached" /\ merging'[h].keep = merging[h].keep
      /\ merging'[h].remove = merging[h].remove /\ merging'[h].taken = merging[h].taken
      /\ Touches(h)' = Touches(h)
      /\ \A g \in Merger : g # h => merging'[g] = merging[g]
  BY <1>1, <1>2, MergeGoesOn
<1>4. MergeGoing(h) /\ UnderWay(h) /\ UnderWay(h)' BY <1>2, <1>3 DEF UnderWay, MergeGoing
<1>5. Written(h, k, r)
  <2>1. PICK l, q \in GraphEntity : MergesOf(h, l, q) /\ Written(h, l, q) BY <1>1, <1>4 DEF MergeGoes
  <2> QED BY <1>2, <2>1 DEF MergesOf
<1>6. r \in Touches(h) BY <1>2 DEF Touches, MergesOf
<1>7. ASSUME NEW g \in Merger, g # h, UnderWay(g) PROVE SparesMerge(g)
  <2>1. r \notin Touches(g) BY <1>1, <1>4, <1>6, <1>7 DEF Apart
  <2>2. \A y \in edge : y \in edge' \/ ~(EndsOf(y) \subseteq Touches(g)) BY <1>2, <2>1 DEF EdgesAt
  <2> QED BY <1>2, <1>3, <1>7, <2>1, <2>2 DEF SparesMerge
<1>8. Written(h, k, r)'
  <2>1. /\ k # r /\ k \in GraphEntity /\ r \in GraphEntity /\ Snapshot(merging'[h].taken, r)
        /\ Touches(h)' \ {r} \subseteq node'
    BY <1>2, <1>3, <1>5 DEF Written
  <2> QED BY <1>3, <2>1 DEF Written
<1>9. MergeGoes(h)'
  <2>1. MergesOf(h, k, r)' BY <1>2, <1>3 DEF MergesOf
  <2> QED BY <1>3, <1>8, <2>1 DEF MergeGoes, UnderWay, MergeGoing, UnmergeGoing, SplitGoing
<1>10. \A g \in Merger : MergeGoes(g)' BY <1>1, <1>3, <1>7, <1>9, OthersGo
<1>11. Apart' BY <1>1, <1>3, <1>4, StillApart
<1>12. \A g \in Merger : merging[g].at = "detached" => merging'[g] = merging[g] BY <1>2, <1>3
<1>13. Leaving \subseteq Leaving' BY <1>12, SameLeaving
<1>14. r \in Leaving' BY <1>2, <1>3 DEF Leaving, MergesOf
<1>15. ReviewsAreLive' BY <1>1, <1>2, <1>13, <1>14, SameReviews
<1>16. ASSUME NEW f \in Facts(edge) \ spent' PROVE f \in Facts(edge')
  <2>1. PICK x \in edge : f \in x.facts BY <1>16 DEF Facts
  <2>2. CASE x \notin EdgesAt(r) BY <1>2, <2>1, <2>2 DEF Facts
  <2>3. CASE x \in EdgesAt(r)
    <3>1. HasCopy(h, r, f) \/ f \in Facts(Between(h, k, r)) BY <1>2, <1>5, <2>1, <2>3 DEF Written
    <3>2. f \notin spent /\ f \notin Facts(Between(h, k, r)) BY <1>2, <1>16
    <3>3. PICK y \in edge : f \in y.facts /\ EndsOf(y) \subseteq Touches(h) \ {r} BY <3>1, <3>2 DEF HasCopy
    <3>4. y \in edge' BY <1>2, <3>3 DEF EdgesAt
    <3> QED BY <3>3, <3>4 DEF Facts
  <2> QED BY <2>2, <2>3
<1>17. FactsAreKept'
  <2>1. TornFacts(h) = {} BY <1>2, NoneTorn
  <2>2. spent \subseteq spent' BY <1>2
  <2> QED BY <1>1, <1>3, <1>16, <2>1, <2>2, FactsStay
<1>18. EdgesFit'
  <2>1. \A x \in edge' : x \in edge /\ r \notin EndsOf(x) BY <1>2 DEF EdgesAt
  <2>2. node' \subseteq GraphEntity /\ KeysDiffer(edge') BY <1>1, <1>2, <2>1 DEF EdgesFit, KeysDiffer
  <2>3. \A x \in edge' : IsEdge(x) /\ EndsOf(x) \subseteq node' BY <1>1, <1>2, <2>1 DEF EdgesFit
  <2> QED BY <2>2, <2>3 DEF EdgesFit
<1>19. LogFits' BY <1>1, <1>2 DEF LogFits, Values, Snapshot, KeysDiffer, IsEdge, EndsOf, EdgeKey
<1> QED BY <1>1, <1>2, <1>3, <1>10, <1>11, <1>15, <1>17, <1>18, <1>19 DEF GraphIsSane

-----------------------------------------------------------------------------
(* What connect_entities_bulk makes of the edges.                            *)
Picks(f, S) == f \in [EdgeKeys(S) -> S] /\ \A k \in EdgeKeys(S) : EdgeKey(f[k]) = k
WithFacts(x, F) == [x EXCEPT !.facts = F]

LEMMA FactsReplaced ==
  ASSUME NEW x, IsEdge(x), NEW F, NEW y, y = WithFacts(x, F)
  PROVE  IsEdge(y) /\ y.facts = F /\ EdgeKey(y) = EdgeKey(x) /\ EndsOf(y) = EndsOf(x)
BY DEF IsEdge, WithFacts, EdgeKey, EndsOf

LEMMA SameKeySameEnds == ASSUME NEW x, NEW y, EdgeKey(x) = EdgeKey(y) PROVE EndsOf(x) = EndsOf(y)
BY SameKey DEF EndsOf

(* An edge of the result is an old one, a new one or an old one with more.   *)
OldEdge(x, S) == x \in edge /\ EdgeKey(x) \notin EdgeKeys(S)
NewEdge(y, S, first, last) ==
  \E k \in EdgeKeys(S) \ EdgeKeys(edge) : y = WithFacts(first[k], last[k].facts)
MoreOnEdge(y, S, last) ==
  \E x \in edge : EdgeKey(x) \in EdgeKeys(S) /\ y = WithFacts(x, x.facts \cup last[EdgeKey(x)].facts)

LEMMA ConnectedIs ==
  ASSUME NEW S, NEW first, NEW last, NEW E, E = Connected(S, first, last)
  PROVE  \A y : y \in E <=> OldEdge(y, S) \/ NewEdge(y, S, first, last) \/ MoreOnEdge(y, S, last)
BY DEF Connected, NewEdges, OldEdge, NewEdge, MoreOnEdge, WithFacts

LEMMA NewEdgeIs ==
  ASSUME NEW S, \A x \in S : IsEdge(x), NEW first, Picks(first, S), NEW last, NEW y, NewEdge(y, S, first, last)
  PROVE  /\ IsEdge(y) /\ EdgeKey(y) \in EdgeKeys(S) /\ EdgeKey(y) \notin EdgeKeys(edge)
         /\ y = WithFacts(first[EdgeKey(y)], last[EdgeKey(y)].facts) /\ y.facts = last[EdgeKey(y)].facts
<1>1. PICK k \in EdgeKeys(S) \ EdgeKeys(edge) : y = WithFacts(first[k], last[k].facts) BY DEF NewEdge
<1>2. first[k] \in S /\ EdgeKey(first[k]) = k BY DEF Picks
<1>3. PICK x, F : x = first[k] /\ F = last[k].facts OBVIOUS
<1>4. IsEdge(x) /\ y = WithFacts(x, F) BY <1>1, <1>2, <1>3
<1>5. IsEdge(y) /\ y.facts = F /\ EdgeKey(y) = EdgeKey(x) BY <1>4, FactsReplaced
<1>6. EdgeKey(y) = k BY <1>2, <1>3, <1>5
<1> QED BY <1>1, <1>3, <1>5, <1>6

LEMMA MoreOnEdgeIs ==
  ASSUME EdgesFit, NEW S, NEW last, NEW y, MoreOnEdge(y, S, last)
  PROVE  \E x \in edge : /\ IsEdge(y) /\ EdgeKey(y) = EdgeKey(x) /\ EdgeKey(x) \in EdgeKeys(S)
                        /\ y.facts = x.facts \cup last[EdgeKey(x)].facts
                        /\ y = WithFacts(x, x.facts \cup last[EdgeKey(x)].facts)
<1>1. PICK x \in edge : EdgeKey(x) \in EdgeKeys(S) /\ y = WithFacts(x, x.facts \cup last[EdgeKey(x)].facts)
  BY DEF MoreOnEdge
<1>2. PICK F : F = x.facts \cup last[EdgeKey(x)].facts OBVIOUS
<1>3. IsEdge(x) /\ y = WithFacts(x, F) BY <1>1, <1>2 DEF EdgesFit
<1>4. IsEdge(y) /\ y.facts = F /\ EdgeKey(y) = EdgeKey(x) BY <1>3, FactsReplaced
<1> QED BY <1>1, <1>2, <1>4

(* Every edge stays, with what it had.                                       *)
IsKept(x, E, S) ==
  \E y \in E : EdgeKey(y) = EdgeKey(x) /\ x.facts \subseteq y.facts /\ (y = x \/ EdgeKey(x) \in EdgeKeys(S))
LEMMA ConnectedKeeps ==
  ASSUME EdgesFit, NEW S, NEW first, Picks(first, S), NEW last, Picks(last, S),
         NEW E, E = Connected(S, first, last), NEW x \in edge
  PROVE  IsKept(x, E, S)
<1>1. CASE EdgeKey(x) \notin EdgeKeys(S)
  <2>1. x \in E BY <1>1, ConnectedIs DEF OldEdge
  <2> QED BY <2>1 DEF IsKept
<1>2. CASE EdgeKey(x) \in EdgeKeys(S)
  <2>1. PICK F, y : F = x.facts \cup last[EdgeKey(x)].facts /\ y = WithFacts(x, F) OBVIOUS
  <2>2. MoreOnEdge(y, S, last) BY <1>2, <2>1 DEF MoreOnEdge
  <2>3. y \in E BY <2>2, ConnectedIs
  <2>4. IsEdge(x) BY DEF EdgesFit
  <2>5. y.facts = F /\ EdgeKey(y) = EdgeKey(x) BY <2>1, <2>4, FactsReplaced
  <2> QED BY <1>2, <2>1, <2>3, <2>5 DEF IsKept
<1> QED BY <1>1, <1>2

(* Every edge to be written is there, with the facts of the last of its key. *)
IsWritten(k, last, E) == \E y \in E : EdgeKey(y) = k /\ last[k].facts \subseteq y.facts
LEMMA ConnectedWrites ==
  ASSUME EdgesFit, NEW S, \A x \in S : IsEdge(x), NEW first, Picks(first, S), NEW last,
         NEW E, E = Connected(S, first, last), NEW k \in EdgeKeys(S)
  PROVE  IsWritten(k, last, E)
<1>1. CASE k \in EdgeKeys(edge)
  <2>1. PICK x \in edge : EdgeKey(x) = k BY <1>1 DEF EdgeKeys
  <2>2. PICK F, y : F = x.facts \cup last[EdgeKey(x)].facts /\ y = WithFacts(x, F) OBVIOUS
  <2>3. MoreOnEdge(y, S, last) BY <2>1, <2>2 DEF MoreOnEdge
  <2>4. y \in E BY <2>3, ConnectedIs
  <2>5. IsEdge(x) BY DEF EdgesFit
  <2>6. y.facts = F /\ EdgeKey(y) = EdgeKey(x) BY <2>2, <2>5, FactsReplaced
  <2> QED BY <2>1, <2>2, <2>4, <2>6 DEF IsWritten
<1>2. CASE k \notin EdgeKeys(edge)
  <2>1. PICK y : y = WithFacts(first[k], last[k].facts) OBVIOUS
  <2>2. NewEdge(y, S, first, last) BY <1>2, <2>1 DEF NewEdge
  <2>3. y \in E BY <2>2, ConnectedIs
  <2>4. PICK x, F : x = first[k] /\ F = last[k].facts OBVIOUS
  <2>5. IsEdge(x) /\ y = WithFacts(x, F) /\ EdgeKey(x) = k BY <2>1, <2>4 DEF Picks
  <2>6. y.facts = F /\ EdgeKey(y) = EdgeKey(x) BY <2>5, FactsReplaced
  <2> QED BY <2>3, <2>4, <2>5, <2>6 DEF IsWritten
<1> QED BY <1>1, <1>2

(* Nothing else is there.                                                    *)
Stems(y, S) ==
  /\ y \in edge \/ \E z \in S : EdgeKey(z) = EdgeKey(y)
  /\ \A f \in y.facts : \/ \E x \in edge : EdgeKey(x) = EdgeKey(y) /\ f \in x.facts
                        \/ \E z \in S : EdgeKey(z) = EdgeKey(y) /\ f \in z.facts
LEMMA ConnectedOnly ==
  ASSUME EdgesFit, NEW S, \A x \in S : IsEdge(x), NEW first, Picks(first, S), NEW last, Picks(last, S),
         NEW E, E = Connected(S, first, last), NEW y \in E
  PROVE  IsEdge(y) /\ Stems(y, S)
<1>1. OldEdge(y, S) \/ NewEdge(y, S, first, last) \/ MoreOnEdge(y, S, last) BY ConnectedIs
<1>2. CASE OldEdge(y, S) BY <1>2 DEF OldEdge, EdgesFit, Stems
<1>3. CASE NewEdge(y, S, first, last)
  <2>1. /\ IsEdge(y) /\ EdgeKey(y) \in EdgeKeys(S) /\ y.facts = last[EdgeKey(y)].facts
    BY <1>3, NewEdgeIs
  <2>2. last[EdgeKey(y)] \in S /\ EdgeKey(last[EdgeKey(y)]) = EdgeKey(y) BY <2>1 DEF Picks
  <2> QED BY <2>1, <2>2 DEF Stems, EdgeKeys
<1>4. CASE MoreOnEdge(y, S, last)
  <2>1. PICK x \in edge : EdgeKey(x) \in EdgeKeys(S) /\ y = WithFacts(x, x.facts \cup last[EdgeKey(x)].facts)
    BY <1>4 DEF MoreOnEdge
  <2>2. PICK F : F = x.facts \cup last[EdgeKey(x)].facts OBVIOUS
  <2>3. IsEdge(x) /\ y = WithFacts(x, F) BY <2>1, <2>2 DEF EdgesFit
  <2>4. IsEdge(y) /\ y.facts = F /\ EdgeKey(y) = EdgeKey(x) BY <2>3, FactsReplaced
  <2>5. last[EdgeKey(x)] \in S /\ EdgeKey(last[EdgeKey(x)]) = EdgeKey(x) BY <2>1 DEF Picks
  <2> QED BY <2>1, <2>2, <2>4, <2>5 DEF Stems
<1> QED BY <1>1, <1>2, <1>3, <1>4

LEMMA ConnectedDiffer ==
  ASSUME EdgesFit, NEW S, \A x \in S : IsEdge(x), NEW first, Picks(first, S), NEW last, Picks(last, S),
         NEW E, E = Connected(S, first, last)
  PROVE  KeysDiffer(E)
<1>1. SUFFICES ASSUME NEW x \in E, NEW y \in E, EdgeKey(x) = EdgeKey(y) PROVE x = y BY DEF KeysDiffer
<1>2. \A z \in E : OldEdge(z, S) \/ NewEdge(z, S, first, last) \/ MoreOnEdge(z, S, last) BY ConnectedIs
<1>3. \A z : OldEdge(z, S) => z \in edge /\ EdgeKey(z) \notin EdgeKeys(S) /\ EdgeKey(z) \in EdgeKeys(edge)
  BY DEF OldEdge, EdgeKeys
<1>4. \A z : NewEdge(z, S, first, last) =>
         /\ EdgeKey(z) \in EdgeKeys(S) /\ EdgeKey(z) \notin EdgeKeys(edge)
         /\ z = WithFacts(first[EdgeKey(z)], last[EdgeKey(z)].facts)
  BY NewEdgeIs
<1>5. \A z : MoreOnEdge(z, S, last) =>
        \E u \in edge : /\ EdgeKey(z) = EdgeKey(u) /\ EdgeKey(u) \in EdgeKeys(S)
                       /\ z = WithFacts(u, u.facts \cup last[EdgeKey(u)].facts)
  BY MoreOnEdgeIs
<1>6. \A z : MoreOnEdge(z, S, last) => EdgeKey(z) \in EdgeKeys(S) /\ EdgeKey(z) \in EdgeKeys(edge)
  BY <1>5 DEF EdgeKeys
<1>7. CASE OldEdge(x, S)
  <2>1. OldEdge(y, S) BY <1>1, <1>2, <1>3, <1>4, <1>6, <1>7
  <2> QED BY <1>1, <1>3, <1>7, <2>1 DEF EdgesFit, KeysDiffer
<1>8. CASE NewEdge(x, S, first, last)
  <2>1. NewEdge(y, S, first, last) BY <1>1, <1>2, <1>3, <1>4, <1>6, <1>8
  <2> QED BY <1>1, <1>4, <1>8, <2>1
<1>9. CASE MoreOnEdge(x, S, last)
  <2>1. MoreOnEdge(y, S, last) BY <1>1, <1>2, <1>3, <1>4, <1>6, <1>9
  <2>2. PICK u \in edge : EdgeKey(x) = EdgeKey(u) /\ x = WithFacts(u, u.facts \cup last[EdgeKey(u)].facts)
    BY <1>5, <1>9
  <2>3. PICK v \in edge : EdgeKey(y) = EdgeKey(v) /\ y = WithFacts(v, v.facts \cup last[EdgeKey(v)].facts)
    BY <1>5, <2>1
  <2>4. u = v BY <1>1, <2>2, <2>3 DEF EdgesFit, KeysDiffer
  <2> QED BY <2>2, <2>3, <2>4
<1> QED BY <1>1, <1>2, <1>7, <1>8, <1>9

-----------------------------------------------------------------------------
(* The edges of the entity that goes, written from the one that stays.       *)
FromNow(x, k) == [x EXCEPT !.from = k]
ToNow(x, k) == [x EXCEPT !.to = k]

LEMMA EndReplaced ==
  ASSUME NEW x, IsEdge(x), NEW k, NEW y
  PROVE  /\ y = FromNow(x, k) => /\ IsEdge(y) /\ y.from = k /\ y.to = x.to
                                /\ y.rel = x.rel /\ y.book = x.book /\ y.facts = x.facts
         /\ y = ToNow(x, k) => /\ IsEdge(y) /\ y.to = k /\ y.from = x.from
                              /\ y.rel = x.rel /\ y.book = x.book /\ y.facts = x.facts
BY DEF IsEdge, FromNow, ToNow

FromStay(z, S, r, k) == \E x \in S : x.from = r /\ z = FromNow(x, k)
ToStay(z, S, r, k) == \E x \in S : x.to = r /\ z = ToNow(x, k)
LEMMA RepointedIs ==
  ASSUME NEW S, NEW r, NEW k
  PROVE  \A z : z \in Repointed(S, r, k) <=> FromStay(z, S, r, k) \/ ToStay(z, S, r, k)
BY DEF Repointed, FromStay, ToStay, FromNow, ToNow

(* What such an edge comes from.                                             *)
FromBefore(z, x, r, k) == x.from = r /\ z.from = k /\ z.to = x.to
ToBefore(z, x, r, k) == x.to = r /\ z.to = k /\ z.from = x.from
LEMMA RepointedFrom ==
  ASSUME NEW S, NEW r, NEW k, Snapshot(S, r), NEW z \in Repointed(S, r, k)
  PROVE  /\ IsEdge(z)
         /\ \E x \in S : /\ z.rel = x.rel /\ z.book = x.book /\ z.facts = x.facts
                         /\ FromBefore(z, x, r, k) \/ ToBefore(z, x, r, k)
<1>1. CASE FromStay(z, S, r, k)
  <2>1. PICK x \in S : x.from = r /\ z = FromNow(x, k) BY <1>1 DEF FromStay
  <2>2. IsEdge(x) BY DEF Snapshot
  <2>3. IsEdge(z) /\ z.from = k /\ z.to = x.to /\ z.rel = x.rel /\ z.book = x.book /\ z.facts = x.facts
    BY <2>1, <2>2, EndReplaced
  <2> QED BY <2>1, <2>3 DEF FromBefore
<1>2. CASE ToStay(z, S, r, k)
  <2>1. PICK x \in S : x.to = r /\ z = ToNow(x, k) BY <1>2 DEF ToStay
  <2>2. IsEdge(x) BY DEF Snapshot
  <2>3. IsEdge(z) /\ z.to = k /\ z.from = x.from /\ z.rel = x.rel /\ z.book = x.book /\ z.facts = x.facts
    BY <2>1, <2>2, EndReplaced
  <2> QED BY <2>1, <2>3 DEF ToBefore
<1> QED BY <1>1, <1>2, RepointedIs

LEMMA RepointedEnds ==
  ASSUME NEW S, NEW r, NEW k, Snapshot(S, r), NEW z \in Repointed(S, r, k)
  PROVE  EndsOf(z) \subseteq {k} \cup UNION {EndsOf(x) : x \in S}
<1>1. PICK x \in S : FromBefore(z, x, r, k) \/ ToBefore(z, x, r, k) BY RepointedFrom
<1> QED BY <1>1 DEF FromBefore, ToBefore, EndsOf

LEMMA RepointedAtGone ==
  ASSUME NEW S, NEW r, NEW k, k # r, Snapshot(S, r), NEW z \in Repointed(S, r, k), r \in EndsOf(z)
  PROVE  \E x \in S : EndsOf(x) \subseteq {k, r} /\ z.facts = x.facts
<1>1. PICK x \in S : z.facts = x.facts /\ (FromBefore(z, x, r, k) \/ ToBefore(z, x, r, k)) BY RepointedFrom
<1>2. EndsOf(x) \subseteq {k, r} BY <1>1 DEF FromBefore, ToBefore, EndsOf
<1> QED BY <1>1, <1>2

LEMMA RepointedOut ==
  ASSUME NEW S, NEW r, NEW k, k # r, Snapshot(S, r), NEW x \in S, ~(EndsOf(x) \subseteq {k, r})
  PROVE  \E z \in Repointed(S, r, k) :
           /\ r \notin EndsOf(z)
           /\ \A w \in Repointed(S, r, k) : EdgeKey(w) = EdgeKey(z) => w.facts = x.facts
<1>1. IsEdge(x) /\ r \in EndsOf(x) BY DEF Snapshot
<1>2. ASSUME NEW w \in Repointed(S, r, k), NEW z, EdgeKey(w) = EdgeKey(z),
             z.rel = x.rel, z.book = x.book,
             \/ x.from = r /\ x.to # k /\ z.from = k /\ z.to = x.to
             \/ x.to = r /\ x.from # k /\ z.to = k /\ z.from = x.from
      PROVE  w.facts = x.facts
  <2>1. PICK y \in S : /\ w.rel = y.rel /\ w.book = y.book /\ w.facts = y.facts
                       /\ FromBefore(w, y, r, k) \/ ToBefore(w, y, r, k)
    BY RepointedFrom
  <2>2. w.from = z.from /\ w.to = z.to /\ w.rel = z.rel /\ w.book = z.book BY <1>2, SameKey
  <2>3. y.from = x.from /\ y.to = x.to /\ y.rel = x.rel /\ y.book = x.book
    BY <1>2, <2>1, <2>2 DEF FromBefore, ToBefore
  <2>4. EdgeKey(y) = EdgeKey(x) BY <2>3, SameKey
  <2>5. y = x BY <2>4 DEF Snapshot, KeysDiffer
  <2> QED BY <2>1, <2>5
<1>3. CASE x.from = r
  <2>1. PICK z : z = FromNow(x, k) OBVIOUS
  <2>2. z \in Repointed(S, r, k) BY <1>3, <2>1, RepointedIs DEF FromStay
  <2>3. z.from = k /\ z.to = x.to /\ z.rel = x.rel /\ z.book = x.book BY <1>1, <2>1, EndReplaced
  <2>4. x.to # k /\ x.to # r BY <1>3 DEF EndsOf
  <2>5. r \notin EndsOf(z) BY <2>3, <2>4 DEF EndsOf
  <2> QED BY <1>2, <1>3, <2>2, <2>3, <2>4, <2>5
<1>4. CASE x.to = r
  <2>1. PICK z : z = ToNow(x, k) OBVIOUS
  <2>2. z \in Repointed(S, r, k) BY <1>4, <2>1, RepointedIs DEF ToStay
  <2>3. z.to = k /\ z.from = x.from /\ z.rel = x.rel /\ z.book = x.book BY <1>1, <2>1, EndReplaced
  <2>4. x.from # k /\ x.from # r BY <1>4 DEF EndsOf
  <2>5. r \notin EndsOf(z) BY <2>3, <2>4 DEF EndsOf
  <2> QED BY <1>2, <1>4, <2>2, <2>3, <2>4, <2>5
<1> QED BY <1>1, <1>3, <1>4 DEF EndsOf

(* What connecting does to the edges, with what S writes within W.           *)
Writes(S, last) ==
  /\ \A x \in edge : \E y \in edge' :
       /\ EdgeKey(y) = EdgeKey(x) /\ x.facts \subseteq y.facts
       /\ (y = x \/ EdgeKey(x) \in EdgeKeys(S))
  /\ \A c \in EdgeKeys(S) :
       /\ last[c] \in S /\ EdgeKey(last[c]) = c
       /\ \E y \in edge' : EdgeKey(y) = c /\ last[c].facts \subseteq y.facts
  /\ \A y \in edge' : IsEdge(y) /\ Stems(y, S)

LEMMA ConnectsWrites ==
  ASSUME EdgesFit, node' = node, NEW M, Connects(M), \A z \in M : IsEdge(z),
         NEW S, S = {z \in M : EndsOf(z) \subseteq node}
  PROVE  EdgesFit' /\ \E last : Writes(S, last)
<1> DEFINE PerKey == {f \in [EdgeKeys(S) -> S] : \A c \in DOMAIN f : EdgeKey(f[c]) = c}
<1>1. \E first, last \in PerKey : edge' = Connected(S, first, last) BY DEF Connects
<1>2. PICK first \in PerKey, last \in PerKey : edge' = Connected(S, first, last) BY <1>1
<1>3. Picks(first, S) /\ Picks(last, S) BY DEF Picks
<1>4. \A z \in S : IsEdge(z) /\ EndsOf(z) \subseteq node OBVIOUS
<1> HIDE DEF PerKey
<1>5. \A x \in edge : \E y \in edge' :
        /\ EdgeKey(y) = EdgeKey(x) /\ x.facts \subseteq y.facts
        /\ (y = x \/ EdgeKey(x) \in EdgeKeys(S))
  <2>1. PICK E : E = edge' OBVIOUS
  <2>2. E = Connected(S, first, last) BY <1>2, <2>1
  <2>3. \A x \in edge : IsKept(x, E, S) BY <1>3, <2>2, ConnectedKeeps
  <2> QED BY <2>1, <2>3 DEF IsKept
<1>6. \A c \in EdgeKeys(S) : \E y \in edge' : EdgeKey(y) = c /\ last[c].facts \subseteq y.facts
  <2>1. PICK E : E = edge' OBVIOUS
  <2>2. E = Connected(S, first, last) BY <1>2, <2>1
  <2>3. \A c \in EdgeKeys(S) : IsWritten(c, last, E) BY <1>3, <1>4, <2>2, ConnectedWrites
  <2> QED BY <2>1, <2>3 DEF IsWritten
<1>7. \A c \in EdgeKeys(S) : last[c] \in S /\ EdgeKey(last[c]) = c BY <1>3 DEF Picks
<1>8. \A y \in edge' : IsEdge(y) /\ Stems(y, S) BY <1>2, <1>3, <1>4, ConnectedOnly
<1>9. Writes(S, last) BY <1>5, <1>6, <1>7, <1>8 DEF Writes
<1>10. KeysDiffer(edge') BY <1>2, <1>3, <1>4, ConnectedDiffer
<1>11. ASSUME NEW y \in edge' PROVE IsEdge(y) /\ EndsOf(y) \subseteq node'
  <2>1. IsEdge(y) BY <1>8
  <2>2. CASE y \in edge BY <2>1, <2>2 DEF EdgesFit
  <2>3. ASSUME NEW z \in S, EdgeKey(z) = EdgeKey(y) PROVE EndsOf(y) \subseteq node'
    <3>1. EndsOf(z) = EndsOf(y) BY <2>3, SameKeySameEnds
    <3> QED BY <1>4, <3>1
  <2> QED BY <1>8, <2>1, <2>2, <2>3 DEF Stems
<1>12. node' \subseteq GraphEntity BY DEF EdgesFit
<1>13. EdgesFit' BY <1>10, <1>11, <1>12 DEF EdgesFit
<1> QED BY <1>9, <1>13

LEMMA WritesKeep ==
  ASSUME NEW S, NEW last, Writes(S, last)
  PROVE  \A x \in edge : \E y \in edge' : x.facts \subseteq y.facts
<1>1. TAKE x \in edge
<1>2. PICK y \in edge' : EdgeKey(y) = EdgeKey(x) /\ x.facts \subseteq y.facts BY DEF Writes
<1> QED BY <1>2

LEMMA WritesSpare ==
  ASSUME NEW S, NEW last, Writes(S, last), NEW W, \A z \in S : EndsOf(z) \subseteq W,
         node' = node, spent' = spent, NEW g \in Merger, merging'[g] = merging[g], Touches(g) \cap W = {}
  PROVE  SparesMerge(g)
<1>1. ASSUME NEW x \in edge', x \notin edge PROVE EndsOf(x) \cap Touches(g) = {}
  <2>1. PICK z \in S : EdgeKey(z) = EdgeKey(x) BY <1>1 DEF Writes, Stems
  <2>2. EndsOf(z) = EndsOf(x) BY <2>1, SameKeySameEnds
  <2> QED BY <2>2
<1>2. ASSUME NEW y \in edge, y \notin edge' PROVE ~(EndsOf(y) \subseteq Touches(g))
  <2>1. EdgeKey(y) \in EdgeKeys(S) BY <1>2 DEF Writes
  <2>2. PICK z \in S : EdgeKey(z) = EdgeKey(y) BY <2>1 DEF EdgeKeys
  <2>3. EndsOf(z) = EndsOf(y) BY <2>2, SameKeySameEnds
  <2>4. EndsOf(y) \subseteq W /\ y.from \in EndsOf(y) BY <2>3 DEF EndsOf
  <2> QED BY <2>4
<1> QED BY <1>1, <1>2 DEF SparesMerge

LEMMA ConnectStays ==
  ASSUME GraphIsSane, NEW h \in Merger, NEW k \in GraphEntity, NEW r \in GraphEntity, MergeConnects(h, k, r)
  PROVE  GraphIsSane'
<1>1. /\ MergesFit /\ EdgesFit /\ FactsAreKept /\ Apart /\ ReviewsAreLive /\ \A g \in Merger : MergeGoes(g)
      /\ review \in Seq(ReviewShape) /\ LogFits
  BY DEF GraphIsSane
<1>2. /\ merging' = [merging EXCEPT ![h].at = "connected"] /\ merging[h].at = "taken" /\ MergesOf(h, k, r)
      /\ node' = node /\ spent' = spent /\ mlog' = mlog /\ review' = review /\ adrift' = adrift
      /\ Connects(Repointed(merging[h].taken, r, k))
  BY DEF MergeConnects, MergesOf
<1>3. /\ MergesFit' /\ merging'[h].at = "connected" /\ merging'[h].keep = merging[h].keep
      /\ merging'[h].remove = merging[h].remove /\ merging'[h].taken = merging[h].taken
      /\ Touches(h)' = Touches(h)
      /\ \A g \in Merger : g # h => merging'[g] = merging[g]
  BY <1>1, <1>2, MergeGoesOn
<1>4. MergeGoing(h) /\ UnderWay(h) /\ UnderWay(h)' BY <1>2, <1>3 DEF UnderWay, MergeGoing
<1>5. Written(h, k, r)
  <2>1. PICK l, q \in GraphEntity : MergesOf(h, l, q) /\ Written(h, l, q) BY <1>1, <1>4 DEF MergeGoes
  <2> QED BY <1>2, <2>1 DEF MergesOf
<1>6. /\ k # r /\ Snapshot(merging[h].taken, r) /\ Touches(h) \ {r} \subseteq node /\ r \in node
      /\ EdgesAt(r) \subseteq merging[h].taken
  BY <1>2, <1>5 DEF Written
<1>7. PICK S, T : T = merging[h].taken /\ S = {z \in Repointed(T, r, k) : EndsOf(z) \subseteq node} OBVIOUS
<1>8. Snapshot(T, r) BY <1>6, <1>7
<1>9. \A z \in Repointed(T, r, k) : IsEdge(z) BY <1>8, RepointedFrom
<1>10. EdgesFit' /\ \E last : Writes(S, last) BY <1>1, <1>2, <1>7, <1>9, ConnectsWrites
<1>11. PICK last : Writes(S, last) BY <1>10
<1>12. \A z \in S : EndsOf(z) \subseteq Touches(h)
  <2>1. {k} \cup UNION {EndsOf(x) : x \in T} \subseteq Touches(h) BY <1>2, <1>7 DEF MergesOf, Touches
  <2> QED BY <1>7, <1>8, <2>1, RepointedEnds
<1>13. \A x \in edge : \E y \in edge' : x.facts \subseteq y.facts BY <1>11, WritesKeep
<1>14. \A c \in EdgeKeys(S) : \E y \in edge' : EdgeKey(y) = c /\ last[c].facts \subseteq y.facts
  BY <1>11 DEF Writes
<1>15. \A y \in edge' : IsEdge(y) /\ Stems(y, S) BY <1>11 DEF Writes
<1>16. EdgesFit' BY <1>10
<1>17. ASSUME NEW g \in Merger, g # h, UnderWay(g) PROVE SparesMerge(g)
  <2>1. Touches(g) \cap Touches(h) = {} BY <1>1, <1>4, <1>17 DEF Apart
  <2> QED BY <1>2, <1>3, <1>11, <1>12, <1>17, <2>1, WritesSpare
<1>18. ASSUME NEW x \in edge, NEW f \in x.facts, r \in EndsOf(x)
       PROVE  HasCopy(h, r, f)' \/ f \in Facts(Between(h, k, r))
  <2>1. x \in T BY <1>6, <1>7, <1>18 DEF EdgesAt
  <2>2. CASE EndsOf(x) \subseteq {k, r} BY <1>7, <1>18, <2>1, <2>2 DEF Facts, Between
  <2>3. CASE ~(EndsOf(x) \subseteq {k, r})
    <3>1. PICK z \in Repointed(T, r, k) :
            /\ r \notin EndsOf(z)
            /\ \A w \in Repointed(T, r, k) : EdgeKey(w) = EdgeKey(z) => w.facts = x.facts
      BY <1>6, <1>8, <2>1, <2>3, RepointedOut
    <3>2. EndsOf(z) \subseteq {k} \cup UNION {EndsOf(u) : u \in T} BY <1>8, RepointedEnds
    <3>3. EndsOf(z) \subseteq Touches(h) \ {r} BY <1>2, <1>7, <3>1, <3>2 DEF MergesOf, Touches
    <3>4. z \in S BY <1>6, <1>7, <3>3
    <3>5. EdgeKey(z) \in EdgeKeys(S) BY <3>4 DEF EdgeKeys
    <3>6. PICK c, w : c = EdgeKey(z) /\ w = last[c] OBVIOUS
    <3>7. w \in S /\ EdgeKey(w) = EdgeKey(z) BY <1>11, <3>5, <3>6 DEF Writes
    <3>8. w.facts = x.facts BY <1>7, <3>1, <3>7
    <3>9. PICK y \in edge' : EdgeKey(y) = EdgeKey(z) /\ x.facts \subseteq y.facts BY <1>14, <3>5, <3>6, <3>8
    <3>10. EndsOf(y) = EndsOf(z) BY <3>9, SameKeySameEnds
    <3>11. EndsOf(y) \subseteq Touches(h)' \ {r} BY <1>3, <3>3, <3>10
    <3>12. f \in y.facts BY <1>18, <3>9
    <3> QED BY <3>11, <3>12 DEF HasCopy, EndsOf
  <2> QED BY <2>2, <2>3
<1>19. Facts(Between(h, k, r))' = Facts(Between(h, k, r)) BY <1>3 DEF Facts, Between, EndsOf
<1>20. ASSUME NEW y \in EdgesAt(r)', NEW f \in y.facts
       PROVE  HasCopy(h, r, f)' \/ f \in Facts(Between(h, k, r))'
  <2>1. y \in edge' /\ r \in EndsOf(y) BY <1>20 DEF EdgesAt, EndsOf
  <2>2. ASSUME NEW x \in edge, EdgeKey(x) = EdgeKey(y), f \in x.facts
        PROVE  HasCopy(h, r, f)' \/ f \in Facts(Between(h, k, r))
    <3>1. EndsOf(x) = EndsOf(y) BY <2>2, SameKeySameEnds
    <3> QED BY <1>18, <2>1, <2>2, <3>1
  <2>3. ASSUME NEW z \in S, EdgeKey(z) = EdgeKey(y), f \in z.facts
        PROVE  f \in Facts(Between(h, k, r))
    <3>1. EndsOf(z) = EndsOf(y) BY <2>3, SameKeySameEnds
    <3>2. z \in Repointed(T, r, k) /\ r \in EndsOf(z) BY <1>7, <2>1, <3>1
    <3>3. PICK x \in T : EndsOf(x) \subseteq {k, r} /\ z.facts = x.facts BY <1>6, <1>8, <3>2, RepointedAtGone
    <3> QED BY <1>7, <2>3, <3>3 DEF Facts, Between
  <2> QED BY <1>15, <1>19, <2>1, <2>2, <2>3 DEF Stems
<1>21. Written(h, k, r)'
  <2>1. /\ k # r /\ k \in GraphEntity /\ r \in GraphEntity /\ Snapshot(merging'[h].taken, r)
        /\ Touches(h)' \ {r} \subseteq node' /\ r \in node' /\ merging'[h].at # "taken"
    BY <1>2, <1>3, <1>6
  <2> QED BY <1>20, <2>1 DEF Written
<1>22. MergeGoes(h)'
  <2>1. MergesOf(h, k, r)' BY <1>2, <1>3 DEF MergesOf
  <2> QED BY <1>3, <1>21, <2>1 DEF MergeGoes, UnderWay, MergeGoing, UnmergeGoing, SplitGoing
<1>23. \A g \in Merger : MergeGoes(g)' BY <1>1, <1>3, <1>17, <1>22, OthersGo
<1>24. Apart' BY <1>1, <1>3, <1>4, StillApart
<1>25. \A g \in Merger : merging[g].at = "detached" => merging'[g] = merging[g] BY <1>2, <1>3
<1>26. Leaving \subseteq Leaving' BY <1>25, SameLeaving
<1>27. ReviewsAreLive' BY <1>1, <1>2, <1>26, SameReviews
<1>28. FactsAreKept'
  <2>1. Facts(edge) \subseteq Facts(edge') BY <1>13 DEF Facts
  <2>2. TornFacts(h) = {} BY <1>2, NoneTorn
  <2> QED BY <1>1, <1>2, <1>3, <2>1, <2>2, FactsStay
<1>29. LogFits' BY <1>1, <1>2 DEF LogFits, Values, Snapshot, KeysDiffer, IsEdge, EndsOf, EdgeKey
<1> QED BY <1>1, <1>2, <1>3, <1>16, <1>23, <1>24, <1>27, <1>28, <1>29 DEF GraphIsSane

-----------------------------------------------------------------------------
(* Requests that are not a merge.                                            *)
LEMMA RequestSpares ==
  ASSUME GraphIsSane, merging' = merging, node \subseteq node', spent \subseteq spent', edge' \subseteq edge,
         \A x \in edge : x \in edge' \/ x.facts \subseteq spent'
  PROVE  MergesFit' /\ (\A g \in Merger : MergeGoes(g)') /\ Apart' /\ Leaving' = Leaving /\ FactsAreKept'
<1>1. MergesFit /\ Apart /\ FactsAreKept /\ \A g \in Merger : MergeGoes(g) BY DEF GraphIsSane
<1>2. \A g \in Merger : SparesMerge(g) BY DEF SparesMerge
<1>3. \A g \in Merger : MergeGoes(g)' BY <1>1, <1>2, SparedGoes
<1>4. MergesFit' BY <1>1 DEF MergesFit
<1>5. Apart' BY <1>1, SameTouches, SameWay DEF Apart
<1>6. Leaving' = Leaving BY DEF Leaving
<1>7. \A f \in Facts(edge) : f \in Facts(edge') \/ f \in spent' BY DEF Facts
<1>8. FactsAreKept' BY <1>1, <1>7, FactsStay
<1> QED BY <1>3, <1>4, <1>5, <1>6, <1>8

LEMMA DeleteStays ==
  ASSUME GraphIsSane, NEW x \in edge, DeletesRelationship(x)
  PROVE  GraphIsSane'
<1> DEFINE gone == {y \in edge : y.id = x.id}
<1>1. /\ EdgesFit /\ ReviewsAreLive /\ review \in Seq(ReviewShape) /\ LogFits BY DEF GraphIsSane
<1>2. /\ edge' = edge \ gone /\ spent' = spent \cup Facts(gone)
      /\ node' = node /\ mlog' = mlog /\ review' = review /\ merging' = merging /\ adrift' = adrift
  BY DEF DeletesRelationship
<1>3. \A y \in edge : y \in edge' \/ y.facts \subseteq spent' BY <1>2 DEF Facts
<1>4. MergesFit' /\ (\A g \in Merger : MergeGoes(g)') /\ Apart' /\ Leaving' = Leaving /\ FactsAreKept'
  BY <1>2, <1>3, RequestSpares
<1>5. ReviewsAreLive' BY <1>1, <1>2, <1>4, SameReviews
<1>6. EdgesFit' BY <1>1, <1>2 DEF EdgesFit, KeysDiffer
<1>7. LogFits' BY <1>1, <1>2 DEF LogFits, Values, Snapshot, KeysDiffer, IsEdge, EndsOf, EdgeKey
<1> QED BY <1>1, <1>2, <1>4, <1>5, <1>6, <1>7 DEF GraphIsSane

(* A step of an unmerge or a split that leaves log and reviews alone.        *)
LEMMA EditGoesOn ==
  ASSUME GraphIsSane, NEW h \in Merger, mlog' = mlog, review' = review, adrift' = adrift,
         node \subseteq node', spent \subseteq spent', merging[h].at # "detached",
         \A g \in Merger : g # h => merging'[g] = merging[g] /\ (UnderWay(g) => SparesMerge(g)),
         MergesFit', MergeGoes(h)', Apart', EdgesFit',
         \A f \in Facts(edge) \cup TornFacts(h) : f \in Facts(edge') \/ f \in spent' \/ f \in TornFacts(h)'
  PROVE  GraphIsSane'
<1>1. /\ FactsAreKept /\ ReviewsAreLive /\ review \in Seq(ReviewShape) /\ LogFits /\ \A g \in Merger : MergeGoes(g)
  BY DEF GraphIsSane
<1>2. \A g \in Merger : MergeGoes(g)' BY <1>1, OthersGo
<1>3. Leaving \subseteq Leaving' BY SameLeaving
<1>4. ReviewsAreLive' BY <1>1, <1>3, SameReviews
<1>5. LogFits' BY <1>1 DEF LogFits, Values, Snapshot, KeysDiffer, IsEdge, EndsOf, EdgeKey
<1>6. \A g \in Merger : g # h => TornFacts(g)' = TornFacts(g) BY DEF TornFacts, Facts
<1>7. ASSUME NEW f \in Facts(FirstEdges), f \notin spent'
      PROVE  f \in Facts(edge') \/ \E g \in Merger : f \in TornFacts(g)'
  <2>1. f \in Facts(edge) \/ \E g \in Merger : f \in TornFacts(g) BY <1>1, <1>7 DEF FactsAreKept
  <2> QED BY <1>6, <1>7, <2>1
<1>8. Facts(edge)' = Facts(edge') /\ Facts(FirstEdges)' = Facts(FirstEdges) BY DEF Facts
<1>9. FactsAreKept' BY <1>7, <1>8 DEF FactsAreKept
<1> QED BY <1>1, <1>2, <1>4, <1>5, <1>9 DEF GraphIsSane

LEMMA NotEntangled ==
  ASSUME entangled \in BOOLEAN, NEW P, entangled' = (entangled \/ P), ~entangled'
  PROVE  ~P
BY Zenon

LEMMA UnmergeBeginStays ==
  ASSUME GraphIsSane, entangled \in BOOLEAN, ~entangled', NEW h \in Merger, NEW i \in DOMAIN mlog, UnmergeBegins(h, i)
  PROVE  GraphIsSane'
<1>1. MergesFit /\ EdgesFit /\ Apart /\ LogFits BY DEF GraphIsSane
<1>2. PICK r, T : r = mlog[i].removed /\ T = mlog[i].taken OBVIOUS
<1>3. /\ merging[h] = NotMerging /\ r \notin node /\ node' = node \cup {r} /\ edge' = edge /\ spent' = spent
      /\ mlog' = mlog /\ review' = review /\ adrift' = adrift
      /\ merging' = [merging EXCEPT ![h] = [at |-> "restoring", keep |-> {}, remove |-> {r},
                                            taken |-> {}, todo |-> T, marks |-> {i}]]
  BY <1>2 DEF UnmergeBegins
<1>4. ~Entangles({r}, Merger \ {h})
  <2>1. PICK P : P = Entangles({r}, Merger \ {h}) OBVIOUS
  <2>2. entangled' = (entangled \/ P) BY <1>2, <2>1, Zenon DEF UnmergeBegins
  <2> QED BY <2>1, <2>2, NotEntangled
<1>5. r \in GraphEntity /\ Snapshot(T, r) BY <1>1, <1>2 DEF LogFits
<1>6. PICK m : m = [at |-> "restoring", keep |-> {}, remove |-> {r}, taken |-> {}, todo |-> T, marks |-> {i}] OBVIOUS
<1>7. /\ DOMAIN m = ShapeOfMerge /\ m.at = "restoring" /\ m.keep = {} /\ m.remove = {r} /\ m.taken = {} /\ m.todo = T
  BY <1>6 DEF ShapeOfMerge
<1>8. MergesFit' /\ merging'[h] = m /\ \A g \in Merger : g # h => merging'[g] = merging[g]
  BY <1>1, <1>3, <1>6, <1>7, MergingChanges
<1>9. EdgesAt(r)' = {} BY <1>1, <1>3 DEF EdgesFit, EdgesAt, EndsOf
<1>10. Restored(h, r)'
  <2>1. merging'[h].taken \cup merging'[h].todo = T /\ merging'[h].taken \cap merging'[h].todo = {} BY <1>7, <1>8
  <2> QED BY <1>3, <1>5, <1>7, <1>8, <1>9, <2>1 DEF Restored, Snapshot, KeysDiffer, IsEdge, EndsOf, EdgeKey
<1>11. MergeGoes(h)'
  <2>1. merging'[h].at = "restoring" BY <1>7, <1>8
  <2> QED BY <1>5, <1>10, <2>1 DEF MergeGoes, UnderWay, MergeGoing, UnmergeGoing, SplitGoing
<1>12. Apart'
  <2>1. Touches(h)' \subseteq {r} BY <1>7, <1>8 DEF Touches
  <2> QED BY <1>1, <1>4, <1>8, <2>1, TakesApart
<1>13. \A g \in Merger : g # h => SparesMerge(g) BY <1>3, <1>8 DEF SparesMerge
<1>14. EdgesFit' BY <1>1, <1>3, <1>5 DEF EdgesFit, KeysDiffer, IsEdge, EndsOf, EdgeKey
<1>15. merging[h].at \notin {"detached", "torn"} BY <1>3 DEF NotMerging
<1>16. TornFacts(h) = {} BY <1>15, NoneTorn
<1> QED BY <1>3, <1>8, <1>11, <1>12, <1>13, <1>14, <1>15, <1>16, EditGoesOn

LEMMA UnmergeOf ==
  ASSUME GraphIsSane, NEW h \in Merger, UnmergeGoing(h)
  PROVE  \E r \in GraphEntity : Restored(h, r) /\ r \in Touches(h)
<1>1. MergeGoes(h) BY DEF GraphIsSane
<1> QED BY <1>1 DEF MergeGoes, Restored, Touches

LEMMA UnmergeFindStays ==
  ASSUME GraphIsSane, entangled \in BOOLEAN, ~entangled', NEW h \in Merger, NEW x \in merging[h].todo, UnmergeFinds(h, x)
  PROVE  GraphIsSane'
<1>1. MergesFit /\ EdgesFit /\ Apart BY DEF GraphIsSane
<1>2. PICK a, T : /\ a = IF x.id \in Ids(edge) THEN "found" ELSE merging[h].at
                  /\ T = IF x.id \in Ids(edge) THEN {x} ELSE {}
  OBVIOUS
<1>3. /\ merging[h].at = "restoring" /\ node' = node /\ edge' = edge /\ spent' = spent
      /\ mlog' = mlog /\ review' = review /\ adrift' = adrift
      /\ merging' = [merging EXCEPT ![h].todo = @ \ {x}, ![h].at = IF x.id \in Ids(edge) THEN "found" ELSE @,
                                    ![h].taken = IF x.id \in Ids(edge) THEN {x} ELSE {}]
  BY DEF UnmergeFinds
<1>4. PICK m : m = [merging[h] EXCEPT !.todo = @ \ {x}, !.at = a, !.taken = T] OBVIOUS
<1>5. DOMAIN merging[h] = ShapeOfMerge BY <1>1 DEF MergesFit, ShapeOfMerge
<1>6. /\ DOMAIN m = ShapeOfMerge /\ m.at = a /\ m.keep = merging[h].keep /\ m.remove = merging[h].remove
      /\ m.taken = T /\ m.todo = merging[h].todo \ {x}
  BY <1>4, <1>5 DEF ShapeOfMerge
<1>7. merging' = [merging EXCEPT ![h] = m] BY <1>2, <1>3, <1>4
<1>8. MergesFit' /\ merging'[h] = m /\ \A g \in Merger : g # h => merging'[g] = merging[g]
  BY <1>1, <1>6, <1>7, MergingChanges
<1>9. UnmergeGoing(h) /\ UnderWay(h) BY <1>3 DEF UnmergeGoing, UnderWay
<1>10. PICK r \in GraphEntity : Restored(h, r) BY <1>9, UnmergeOf
<1>11. Restored(h, r)'
  <2>1. /\ T \cup m.todo \subseteq merging[h].taken \cup merging[h].todo /\ T \cap m.todo = {}
    BY <1>2, <1>6
  <2>2. EdgesAt(r)' = EdgesAt(r) BY <1>3 DEF EdgesAt, EndsOf
  <2>3. Snapshot(T \cup m.todo, r) BY <1>10, <2>1 DEF Restored, Snapshot, KeysDiffer
  <2>4. /\ merging'[h].keep = {} /\ merging'[h].remove = {r} /\ r \in node'
        /\ merging'[h].taken = T /\ merging'[h].todo = m.todo
    BY <1>3, <1>6, <1>8, <1>10 DEF Restored
  <2>5. \A y \in EdgesAt(r)' : \A z \in T \cup m.todo : EdgeKey(y) # EdgeKey(z) BY <1>10, <2>1, <2>2 DEF Restored
  <2> QED BY <2>1, <2>3, <2>4, <2>5 DEF Restored, Snapshot, KeysDiffer, IsEdge, EndsOf, EdgeKey
<1>12. MergeGoes(h)'
  <2>1. merging'[h].at \in {"restoring", "found"} BY <1>2, <1>3, <1>6, <1>8
  <2> QED BY <1>11, <2>1 DEF MergeGoes, UnderWay, MergeGoing, UnmergeGoing, SplitGoing
<1>13. Apart'
  <2>1. PICK E : E = IF x.id \in Ids(edge) THEN EndsOf(x) ELSE {} OBVIOUS
  <2>2. Touches(h)' \subseteq Touches(h) \cup E BY <1>2, <1>6, <1>8, <2>1 DEF Touches, EndsOf
  <2>3. ~Entangles(E, Merger \ {h})
    <3>1. CASE x.id \in Ids(edge)
      <4>1. PICK P : P = (x.id \in Ids(edge) /\ Entangles(EndsOf(x), Merger \ {h})) OBVIOUS
      <4>2. entangled' = (entangled \/ P) BY <4>1, Zenon DEF UnmergeFinds
      <4>3. ~P BY <4>2, NotEntangled
      <4> QED BY <2>1, <3>1, <4>1, <4>3
    <3>2. CASE x.id \notin Ids(edge) BY <2>1, <3>2 DEF Entangles
    <3> QED BY <3>1, <3>2
  <2> QED BY <1>1, <1>8, <1>9, <2>2, <2>3, TakesApart
<1>14. EdgesFit' /\ \A g \in Merger : merging'[g] = merging[g] => SparesMerge(g) BY <1>1, <1>3, SameGraph
<1>15. TornFacts(h) = {} BY <1>3, NoneTorn
<1> QED BY <1>3, <1>8, <1>12, <1>13, <1>14, <1>15, EditGoesOn

LEMMA UnmergeTearStays ==
  ASSUME GraphIsSane, entangled \in BOOLEAN, ~entangled', NEW h \in Merger, NEW x, UnmergeTears(h, x)
  PROVE  GraphIsSane'
<1>1. MergesFit /\ EdgesFit /\ Apart BY DEF GraphIsSane
<1>2. PICK gone : gone = {y \in edge : y.id = x.id} OBVIOUS
<1>3. /\ merging[h].at = "found" /\ merging[h].taken = {x} /\ node' = node /\ edge' = edge \ gone
      /\ spent' = spent \cup (Facts(gone) \ x.facts) /\ mlog' = mlog /\ review' = review /\ adrift' = adrift
      /\ merging' = [merging EXCEPT ![h].at = "torn"]
  BY <1>2 DEF UnmergeTears
<1>4. ~Entangles(UNION {EndsOf(y) : y \in gone}, Merger \ {h})
  <2>1. PICK P : P = Entangles(UNION {EndsOf(y) : y \in gone}, Merger \ {h}) OBVIOUS
  <2>2. entangled' = (entangled \/ P) BY <1>2, <2>1, Zenon DEF UnmergeTears
  <2> QED BY <2>1, <2>2, NotEntangled
<1>5. /\ MergesFit' /\ merging'[h].at = "torn" /\ merging'[h].keep = merging[h].keep
      /\ merging'[h].remove = merging[h].remove /\ merging'[h].taken = merging[h].taken
      /\ merging'[h].todo = merging[h].todo /\ Touches(h)' = Touches(h)
      /\ \A g \in Merger : g # h => merging'[g] = merging[g]
  BY <1>1, <1>3, MergeGoesOn
<1>6. UnmergeGoing(h) /\ UnderWay(h) BY <1>3 DEF UnmergeGoing, UnderWay
<1>7. PICK r \in GraphEntity : Restored(h, r) BY <1>6, UnmergeOf
<1>8. Restored(h, r)'
  <2>1. EdgesAt(r)' \subseteq EdgesAt(r) BY <1>3 DEF EdgesAt, EndsOf
  <2> QED BY <1>3, <1>5, <1>7, <2>1 DEF Restored, Snapshot, KeysDiffer, IsEdge, EndsOf, EdgeKey
<1>9. MergeGoes(h)' BY <1>5, <1>8 DEF MergeGoes, UnderWay, MergeGoing, UnmergeGoing, SplitGoing
<1>10. Apart' BY <1>1, <1>5, <1>6, StillApart
<1>11. ASSUME NEW g \in Merger, g # h, UnderWay(g) PROVE SparesMerge(g)
  <2>1. ASSUME NEW y \in gone PROVE ~(EndsOf(y) \subseteq Touches(g))
    <3>1. y.from \in EndsOf(y) BY DEF EndsOf
    <3>2. y.from \notin Touches(g) BY <1>4, <1>11, <2>1, <3>1 DEF Entangles
    <3> QED BY <3>1, <3>2
  <2> QED BY <1>3, <1>5, <1>11, <2>1 DEF SparesMerge
<1>12. EdgesFit' BY <1>1, <1>3 DEF EdgesFit, KeysDiffer, IsEdge, EndsOf, EdgeKey
<1>13. ASSUME NEW f \in Facts(edge) PROVE f \in Facts(edge') \/ f \in spent' \/ f \in TornFacts(h)'
  <2>1. TornFacts(h)' = x.facts BY <1>3, <1>5 DEF TornFacts, Facts
  <2>2. PICK y \in edge : f \in y.facts BY <1>13 DEF Facts
  <2>3. CASE y \in gone BY <1>3, <2>1, <2>2, <2>3 DEF Facts
  <2>4. CASE y \notin gone BY <1>3, <2>2, <2>4 DEF Facts
  <2> QED BY <2>3, <2>4
<1>14. TornFacts(h) = {} BY <1>3, NoneTorn
<1> QED BY <1>3, <1>5, <1>9, <1>10, <1>11, <1>12, <1>13, <1>14, EditGoesOn

LEMMA UnmergeGiveStays ==
  ASSUME GraphIsSane, NEW h \in Merger, NEW x, UnmergeGives(h, x)
  PROVE  GraphIsSane'
<1>1. MergesFit /\ EdgesFit /\ Apart BY DEF GraphIsSane
<1>2. /\ merging[h].at = "torn" /\ merging[h].taken = {x} /\ node' = node
      /\ \/ EndsOf(x) \subseteq node /\ edge' = edge \cup {x} /\ spent' = spent
         \/ spent' = spent \cup x.facts /\ edge' = edge
      /\ mlog' = mlog /\ review' = review /\ adrift' = adrift
      /\ merging' = [merging EXCEPT ![h].at = "restoring", ![h].taken = {}]
  BY DEF UnmergeGives
<1>3. PICK m : m = [merging[h] EXCEPT !.at = "restoring", !.taken = {}] OBVIOUS
<1>4. DOMAIN merging[h] = ShapeOfMerge BY <1>1 DEF MergesFit, ShapeOfMerge
<1>5. /\ DOMAIN m = ShapeOfMerge /\ m.at = "restoring" /\ m.keep = merging[h].keep /\ m.remove = merging[h].remove
      /\ m.taken = {} /\ m.todo = merging[h].todo
  BY <1>3, <1>4 DEF ShapeOfMerge
<1>6. merging' = [merging EXCEPT ![h] = m] BY <1>2, <1>3
<1>7. MergesFit' /\ merging'[h] = m /\ \A g \in Merger : g # h => merging'[g] = merging[g]
  BY <1>1, <1>5, <1>6, MergingChanges
<1>8. UnmergeGoing(h) /\ UnderWay(h) BY <1>2 DEF UnmergeGoing, UnderWay
<1>9. PICK r \in GraphEntity : Restored(h, r) BY <1>8, UnmergeOf
<1>10. /\ IsEdge(x) /\ r \in EndsOf(x) /\ \A y \in EdgesAt(r) : EdgeKey(y) # EdgeKey(x)
       /\ \A z \in merging[h].todo : EdgeKey(x) # EdgeKey(z)
  <2>1. \A z \in merging[h].todo : z # x BY <1>2, <1>9 DEF Restored
  <2> QED BY <1>2, <1>9, <2>1 DEF Restored, Snapshot, KeysDiffer
<1>11. ASSUME NEW y \in edge PROVE EdgeKey(y) # EdgeKey(x)
  <2>1. CASE r \in EndsOf(y) BY <1>10, <2>1 DEF EdgesAt
  <2>2. CASE r \notin EndsOf(y) BY <1>10, <2>2, SameKeySameEnds
  <2> QED BY <2>1, <2>2
<1>12. EdgesFit'
  <2>1. KeysDiffer(edge') BY <1>1, <1>2, <1>11 DEF EdgesFit, KeysDiffer
  <2>2. \A y \in edge' : IsEdge(y) /\ EndsOf(y) \subseteq node' BY <1>1, <1>2, <1>10 DEF EdgesFit
  <2>3. node' \subseteq GraphEntity BY <1>1, <1>2 DEF EdgesFit
  <2> QED BY <2>1, <2>2, <2>3 DEF EdgesFit
<1>13. Restored(h, r)'
  <2>1. EdgesAt(r)' \subseteq EdgesAt(r) \cup {x} BY <1>2 DEF EdgesAt, EndsOf
  <2>2. Snapshot(m.todo, r) BY <1>5, <1>9 DEF Restored, Snapshot, KeysDiffer
  <2>3. /\ merging'[h].keep = {} /\ merging'[h].remove = {r} /\ r \in node'
        /\ merging'[h].taken \cup merging'[h].todo = m.todo /\ merging'[h].taken \cap merging'[h].todo = {}
    BY <1>2, <1>5, <1>7, <1>9 DEF Restored
  <2>4. \A y \in EdgesAt(r)' : \A z \in m.todo : EdgeKey(y) # EdgeKey(z)
    BY <1>5, <1>9, <1>10, <2>1 DEF Restored
  <2> QED BY <2>2, <2>3, <2>4 DEF Restored, Snapshot, KeysDiffer, IsEdge, EndsOf, EdgeKey
<1>14. MergeGoes(h)'
  <2>1. merging'[h].at = "restoring" BY <1>5, <1>7
  <2> QED BY <1>13, <2>1 DEF MergeGoes, UnderWay, MergeGoing, UnmergeGoing, SplitGoing
<1>15. Apart'
  <2>1. PICK E : E = {} OBVIOUS
  <2>2. ~Entangles(E, Merger \ {h}) BY <2>1 DEF Entangles
  <2>3. Touches(h)' \subseteq Touches(h) BY <1>5, <1>7 DEF Touches
  <2> QED BY <1>1, <1>7, <1>8, <2>2, <2>3, TakesApart
<1>16. ASSUME NEW g \in Merger, g # h, UnderWay(g) PROVE SparesMerge(g)
  <2>1. EndsOf(x) \subseteq Touches(h) BY <1>2 DEF Touches
  <2>2. Touches(g) \cap Touches(h) = {} BY <1>1, <1>8, <1>16 DEF Apart
  <2>3. \A y \in edge' : y \in edge \/ EndsOf(y) \cap (Touches(g) \cap node) = {} BY <1>2, <2>1, <2>2
  <2> QED BY <1>2, <1>7, <1>16, <2>3 DEF SparesMerge
<1>17. ASSUME NEW f \in Facts(edge) \cup TornFacts(h) PROVE f \in Facts(edge') \/ f \in spent'
  <2>1. TornFacts(h) = x.facts BY <1>2 DEF TornFacts, Facts
  <2> QED BY <1>2, <1>17, <2>1 DEF Facts
<1>18. node \subseteq node' /\ spent \subseteq spent' BY <1>2
<1>19. merging[h].at # "detached" BY <1>2
<1> QED BY <1>2, <1>7, <1>12, <1>14, <1>15, <1>16, <1>17, <1>18, <1>19, EditGoesOn

LEMMA UnmergeEndStays == ASSUME GraphIsSane, NEW h \in Merger, UnmergeEnds(h) PROVE GraphIsSane'
<1>1. /\ MergesFit /\ EdgesFit /\ Apart /\ FactsAreKept /\ ReviewsAreLive /\ LogFits
      /\ review \in Seq(ReviewShape) /\ \A g \in Merger : MergeGoes(g)
  BY DEF GraphIsSane
<1>2. /\ merging[h].at = "restoring" /\ merging' = [merging EXCEPT ![h] = NotMerging]
      /\ node' = node /\ edge' = edge /\ spent' = spent /\ review' = review /\ adrift' = adrift
      /\ mlog' = [i \in DOMAIN mlog |->
                   IF i \in merging[h].marks THEN [mlog[i] EXCEPT !.open = FALSE] ELSE mlog[i]]
  BY DEF UnmergeEnds
<1>3. /\ MergesFit' /\ MergeGoes(h)' /\ ~UnderWay(h)'
      /\ \A g \in Merger : g # h => merging'[g] = merging[g]
  BY <1>1, <1>2, MergeEnds
<1>4. EdgesFit' /\ \A g \in Merger : merging'[g] = merging[g] => SparesMerge(g) BY <1>1, <1>2, SameGraph
<1>5. \A g \in Merger : MergeGoes(g)' BY <1>1, <1>3, <1>4, OthersGo
<1>6. Apart' BY <1>1, <1>3, StillApart
<1>7. Leaving \subseteq Leaving' BY <1>2, <1>3, SameLeaving
<1>8. ReviewsAreLive' BY <1>1, <1>2, <1>7, SameReviews
<1>9. FactsAreKept'
  <2>1. TornFacts(h) = {} BY <1>2, NoneTorn
  <2> QED BY <1>1, <1>2, <1>3, <2>1, FactsStay
<1>10. PICK n \in Nat : DOMAIN mlog = 1 .. n
  <2>1. mlog \in Seq(Values(mlog)) BY <1>1 DEF LogFits
  <2> QED BY <2>1, SeqDef
<1>11. ASSUME NEW i \in 1 .. n
       PROVE  /\ DOMAIN mlog'[i] = {"kept", "removed", "taken", "open"} /\ mlog'[i].removed \in GraphEntity
              /\ Snapshot(mlog'[i].taken, mlog'[i].removed)
  <2>1. /\ DOMAIN mlog[i] = {"kept", "removed", "taken", "open"} /\ mlog[i].removed \in GraphEntity
        /\ Snapshot(mlog[i].taken, mlog[i].removed)
    BY <1>1, <1>10 DEF LogFits
  <2>2. mlog'[i] = IF i \in merging[h].marks THEN [mlog[i] EXCEPT !.open = FALSE] ELSE mlog[i] BY <1>2, <1>10
  <2>3. PICK v : v = [mlog[i] EXCEPT !.open = FALSE] OBVIOUS
  <2>4. DOMAIN v = {"kept", "removed", "taken", "open"} /\ v.removed = mlog[i].removed /\ v.taken = mlog[i].taken
    BY <2>1, <2>3
  <2> QED BY <2>1, <2>2, <2>3, <2>4
<1>12. LogFits'
  <2>1. DOMAIN mlog' = 1 .. n /\ mlog' \in [1 .. n -> Values(mlog')] BY <1>2, <1>10 DEF Values
  <2>2. mlog' \in Seq(Values(mlog')) BY <2>1, SeqDef
  <2>3. Values(mlog)' = Values(mlog') BY DEF Values
  <2> QED BY <1>11, <2>1, <2>2, <2>3 DEF LogFits, Snapshot, KeysDiffer, IsEdge, EndsOf, EdgeKey
<1> QED BY <1>1, <1>2, <1>3, <1>4, <1>5, <1>6, <1>8, <1>9, <1>12 DEF GraphIsSane

LEMMA EditBreakStays == ASSUME GraphIsSane, NEW h \in Merger, EditBreaks(h) PROVE GraphIsSane'
<1>1. MergesFit /\ EdgesFit /\ Apart BY DEF GraphIsSane
<1>2. /\ merging' = [merging EXCEPT ![h] = NotMerging] /\ spent' = spent \cup TornFacts(h)
      /\ node' = node /\ edge' = edge /\ mlog' = mlog /\ review' = review /\ adrift' = adrift
      /\ merging[h].at # "detached"
  BY DEF EditBreaks, UnmergeGoing, SplitGoing
<1>3. /\ MergesFit' /\ MergeGoes(h)' /\ ~UnderWay(h)'
      /\ \A g \in Merger : g # h => merging'[g] = merging[g]
  BY <1>1, <1>2, MergeEnds
<1>4. \A g \in Merger : g # h => SparesMerge(g) BY <1>2, <1>3 DEF SparesMerge
<1>5. Apart' BY <1>1, <1>3, StillApart
<1>6. EdgesFit' BY <1>1, <1>2 DEF EdgesFit, KeysDiffer, IsEdge, EndsOf, EdgeKey
<1>7. \A f \in Facts(edge) \cup TornFacts(h) : f \in Facts(edge') \/ f \in spent' BY <1>2
<1>8. node \subseteq node' /\ spent \subseteq spent' BY <1>2
<1> QED BY <1>2, <1>3, <1>4, <1>5, <1>6, <1>7, <1>8, EditGoesOn

(* A split takes edges that there are.                                       *)
LEMMA SplitOffIs == ASSUME NEW R, NEW x, NEW e, NEW G \in SplitsOff(R, x, e) PROVE G \subseteq R
<1> DEFINE near == {Group(y, R, e) : y \in {z \in R : Near(x, z, e)}}
           Contradicts(own) ==
             {Group(y, R, e) : y \in {z \in R : z.rel = x.rel /\ Other(z, e) # Other(x, e)}} \ own
           Largest(H) == {g \in H : \A f \in H : Cardinality(f) <= Cardinality(g)}
<1>1. PICK own : G \in IF Contradicts(own) = {} THEN {{}} ELSE Largest(Contradicts(own))
  BY DEF SplitsOff
<1>2. \A y : Group(y, R, e) \subseteq R BY DEF Group
<1>3. \A H : Largest(H) \subseteq H OBVIOUS
<1>4. Contradicts(own) \subseteq {Group(y, R, e) : y \in R} OBVIOUS
<1> HIDE DEF Contradicts, Largest
<1> QED BY <1>1, <1>2, <1>3, <1>4

NewId(x, i) == [x EXCEPT !.id = i]
LEMMA IdReplaced ==
  ASSUME NEW x, IsEdge(x), NEW i, NEW y, y = NewId(x, i)
  PROVE  IsEdge(y) /\ EdgeKey(y) = EdgeKey(x) /\ EndsOf(y) = EndsOf(x) /\ y.facts = x.facts
BY DEF IsEdge, NewId, EdgeKey, EndsOf

MovedFrom(z, G, e, n) == \E x \in G : x.from = e /\ z = NewId(FromNow(x, n), x.id \o <<n, "out">>)
MovedTo(z, G, e, n) == \E x \in G : x.to = e /\ z = NewId(ToNow(x, n), x.id \o <<n, "in">>)
LEMMA MovedIs ==
  ASSUME NEW G, \A x \in G : IsEdge(x), NEW e, NEW n
  PROVE  \A z : z \in Moved(G, e, n) <=> MovedFrom(z, G, e, n) \/ MovedTo(z, G, e, n)
<1>1. ASSUME NEW x \in G
      PROVE  /\ [x EXCEPT !.from = n, !.id = @ \o <<n, "out">>] = NewId(FromNow(x, n), x.id \o <<n, "out">>)
             /\ [x EXCEPT !.to = n, !.id = @ \o <<n, "in">>] = NewId(ToNow(x, n), x.id \o <<n, "in">>)
  BY DEF NewId, FromNow, ToNow
<1>2. \A z : MovedFrom(z, G, e, n) <=> z \in {[x EXCEPT !.from = n, !.id = @ \o <<n, "out">>] : x \in {y \in G : y.from = e}}
  BY <1>1 DEF MovedFrom
<1>3. \A z : MovedTo(z, G, e, n) <=> z \in {[x EXCEPT !.to = n, !.id = @ \o <<n, "in">>] : x \in {y \in G : y.to = e}}
  BY <1>1 DEF MovedTo
<1> QED BY <1>2, <1>3 DEF Moved

(* What a moved edge was.                                                    *)
MovedOutOf(z, x, e, n) == x.from = e /\ z.from = n /\ z.to = x.to /\ z = NewId(FromNow(x, n), x.id \o <<n, "out">>)
MovedInto(z, x, e, n) == x.to = e /\ z.to = n /\ z.from = x.from /\ z = NewId(ToNow(x, n), x.id \o <<n, "in">>)
SameText(z, x) == z.rel = x.rel /\ z.book = x.book /\ z.facts = x.facts
LEMMA MovedWas ==
  ASSUME NEW G, \A x \in G : IsEdge(x), NEW e, NEW n, NEW z \in Moved(G, e, n)
  PROVE  IsEdge(z) /\ \E x \in G : SameText(z, x) /\ (MovedOutOf(z, x, e, n) \/ MovedInto(z, x, e, n))
<1>1. ASSUME NEW x \in G, x.from = e, z = NewId(FromNow(x, n), x.id \o <<n, "out">>)
      PROVE  IsEdge(z) /\ SameText(z, x) /\ MovedOutOf(z, x, e, n)
  <2>1. PICK y, i : y = FromNow(x, n) /\ i = x.id \o <<n, "out">> OBVIOUS
  <2>2. IsEdge(y) /\ y.from = n /\ y.to = x.to /\ y.rel = x.rel /\ y.book = x.book /\ y.facts = x.facts
    BY <2>1, EndReplaced
  <2>3. z = NewId(y, i) BY <1>1, <2>1
  <2>4. IsEdge(z) /\ EdgeKey(z) = EdgeKey(y) /\ z.facts = y.facts BY <2>2, <2>3, IdReplaced
  <2>5. z.from = y.from /\ z.to = y.to /\ z.rel = y.rel /\ z.book = y.book BY <2>4, SameKey
  <2> QED BY <1>1, <2>2, <2>4, <2>5 DEF SameText, MovedOutOf
<1>2. ASSUME NEW x \in G, x.to = e, z = NewId(ToNow(x, n), x.id \o <<n, "in">>)
      PROVE  IsEdge(z) /\ SameText(z, x) /\ MovedInto(z, x, e, n)
  <2>1. PICK y, i : y = ToNow(x, n) /\ i = x.id \o <<n, "in">> OBVIOUS
  <2>2. IsEdge(y) /\ y.to = n /\ y.from = x.from /\ y.rel = x.rel /\ y.book = x.book /\ y.facts = x.facts
    BY <2>1, EndReplaced
  <2>3. z = NewId(y, i) BY <1>2, <2>1
  <2>4. IsEdge(z) /\ EdgeKey(z) = EdgeKey(y) /\ z.facts = y.facts BY <2>2, <2>3, IdReplaced
  <2>5. z.from = y.from /\ z.to = y.to /\ z.rel = y.rel /\ z.book = y.book BY <2>4, SameKey
  <2> QED BY <1>2, <2>2, <2>4, <2>5 DEF SameText, MovedInto
<1>3. CASE MovedFrom(z, G, e, n) BY <1>1, <1>3 DEF MovedFrom
<1>4. CASE MovedTo(z, G, e, n) BY <1>2, <1>4 DEF MovedTo
<1> QED BY <1>3, <1>4, MovedIs

LEMMA MovedAll ==
  ASSUME NEW G, NEW e, NEW n, NEW x \in G, \A y \in G : IsEdge(y) /\ e \in EndsOf(y)
  PROVE  \E z \in Moved(G, e, n) : z.facts = x.facts
<1>1. IsEdge(x) BY DEF EndsOf
<1>2. CASE x.from = e
  <2>1. PICK y, i, z : y = FromNow(x, n) /\ i = x.id \o <<n, "out">> /\ z = NewId(y, i) OBVIOUS
  <2>2. IsEdge(y) /\ y.facts = x.facts BY <1>1, <2>1, EndReplaced
  <2>3. z.facts = y.facts BY <2>1, <2>2, IdReplaced
  <2>4. MovedFrom(z, G, e, n) BY <1>2, <2>1 DEF MovedFrom
  <2>5. z \in Moved(G, e, n) BY <2>4, MovedIs
  <2> QED BY <2>2, <2>3, <2>5
<1>3. CASE x.to = e
  <2>1. PICK y, i, z : y = ToNow(x, n) /\ i = x.id \o <<n, "in">> /\ z = NewId(y, i) OBVIOUS
  <2>2. IsEdge(y) /\ y.facts = x.facts BY <1>1, <2>1, EndReplaced
  <2>3. z.facts = y.facts BY <2>1, <2>2, IdReplaced
  <2>4. MovedTo(z, G, e, n) BY <1>3, <2>1 DEF MovedTo
  <2>5. z \in Moved(G, e, n) BY <2>4, MovedIs
  <2> QED BY <2>2, <2>3, <2>5
<1> QED BY <1>2, <1>3 DEF EndsOf

LEMMA MovedDiffer ==
  ASSUME NEW G, NEW e, NEW n, Snapshot(G, e), \A y \in G : n \notin EndsOf(y),
         NEW z \in Moved(G, e, n), NEW w \in Moved(G, e, n), EdgeKey(z) = EdgeKey(w)
  PROVE  z = w
<1>1. \A y \in G : IsEdge(y) BY DEF Snapshot
<1>2. PICK y \in G : SameText(z, y) /\ (MovedOutOf(z, y, e, n) \/ MovedInto(z, y, e, n)) BY <1>1, MovedWas
<1>3. PICK u \in G : SameText(w, u) /\ (MovedOutOf(w, u, e, n) \/ MovedInto(w, u, e, n)) BY <1>1, MovedWas
<1>4. z.from = w.from /\ z.to = w.to /\ z.rel = w.rel /\ z.book = w.book BY SameKey
<1>5. y.from # n /\ y.to # n /\ u.from # n /\ u.to # n BY DEF EndsOf
<1>6. \/ MovedOutOf(z, y, e, n) /\ MovedOutOf(w, u, e, n)
      \/ MovedInto(z, y, e, n) /\ MovedInto(w, u, e, n)
  BY <1>2, <1>3, <1>4, <1>5 DEF MovedOutOf, MovedInto
<1>7. y.from = u.from /\ y.to = u.to /\ y.rel = u.rel /\ y.book = u.book
  BY <1>2, <1>3, <1>4, <1>6 DEF MovedOutOf, MovedInto, SameText
<1>8. EdgeKey(y) = EdgeKey(u) BY <1>7, SameKey
<1>9. y = u BY <1>8 DEF Snapshot, KeysDiffer
<1> QED BY <1>6, <1>9 DEF MovedOutOf, MovedInto

LEMMA MovedEnds ==
  ASSUME NEW G, NEW e, NEW n, \A y \in G : IsEdge(y), NEW z \in Moved(G, e, n)
  PROVE  n \in EndsOf(z) /\ EndsOf(z) \subseteq {n} \cup UNION {EndsOf(y) : y \in G}
<1>1. PICK y \in G : MovedOutOf(z, y, e, n) \/ MovedInto(z, y, e, n) BY MovedWas
<1> QED BY <1>1 DEF MovedOutOf, MovedInto, EndsOf

LEMMA SplitBeginStays ==
  ASSUME GraphIsSane, entangled \in BOOLEAN, ~entangled', NEW h \in Merger, NEW e, NEW x \in edge, NEW n \in Spare,
         SplitBegins(h, e, x, n)
  PROVE  GraphIsSane'
<1>1. /\ MergesFit /\ EdgesFit /\ Apart /\ ReviewsAreLive /\ review \in Seq(ReviewShape) /\ LogFits
  BY DEF GraphIsSane
<1>2. /\ merging[h] = NotMerging /\ e \in node /\ n \notin node /\ node' = node \cup {n}
      /\ edge' = edge /\ mlog' = mlog /\ review' = review /\ spent' = spent /\ adrift' = adrift
  BY DEF SplitBegins
<1>3. PICK G \in SplitsOff(EdgesAt(e) \ {x}, x, e) :
        IF G = {} THEN UNCHANGED <<merging, entangled>>
        ELSE /\ merging' = [merging EXCEPT ![h] = [at |-> "parted", keep |-> {e}, remove |-> {n},
                                                   taken |-> G, todo |-> {}, marks |-> {}]]
             /\ LET touched == {e, n} \cup UNION {EndsOf(y) : y \in G} IN
                  entangled' = (entangled \/ Entangles(touched, Merger \ {h}))
  BY DEF SplitBegins
<1>4. e \in GraphEntity /\ n \in GraphEntity /\ e # n BY <1>1, <1>2 DEF EdgesFit, GraphEntity
<1>5. EdgesFit' BY <1>1, <1>2, <1>4 DEF EdgesFit, KeysDiffer, IsEdge, EndsOf, EdgeKey
<1>6. CASE G = {}
  <2>1. merging' = merging BY <1>3, <1>6
  <2>2. MergesFit' /\ (\A g \in Merger : MergeGoes(g)') /\ Apart' /\ Leaving' = Leaving /\ FactsAreKept'
    BY <1>2, <2>1, RequestSpares
  <2>3. ReviewsAreLive' BY <1>1, <1>2, <2>2, SameReviews
  <2>4. LogFits' BY <1>1, <1>2 DEF LogFits, Values, Snapshot, KeysDiffer, IsEdge, EndsOf, EdgeKey
  <2> QED BY <1>1, <1>2, <1>5, <2>2, <2>3, <2>4 DEF GraphIsSane
<1>7. CASE G # {}
  <2>1. PICK E : E = {e, n} \cup UNION {EndsOf(y) : y \in G} OBVIOUS
  <2>2. ~Entangles(E, Merger \ {h})
    <3>1. PICK P : P = Entangles(E, Merger \ {h}) OBVIOUS
    <3>2. entangled' = (entangled \/ P) BY <1>3, <1>7, <2>1, <3>1, Zenon
    <3> QED BY <3>1, <3>2, NotEntangled
  <2>3. PICK m : m = [at |-> "parted", keep |-> {e}, remove |-> {n}, taken |-> G, todo |-> {}, marks |-> {}] OBVIOUS
  <2>4. /\ DOMAIN m = ShapeOfMerge /\ m.at = "parted" /\ m.keep = {e} /\ m.remove = {n} /\ m.taken = G
    BY <2>3 DEF ShapeOfMerge
  <2>5. merging' = [merging EXCEPT ![h] = m] BY <1>3, <1>7, <2>3
  <2>6. MergesFit' /\ merging'[h] = m /\ \A g \in Merger : g # h => merging'[g] = merging[g]
    BY <1>1, <2>4, <2>5, MergingChanges
  <2>7. Touches(h)' = E /\ MergesOf(h, e, n)' BY <2>1, <2>4, <2>6 DEF Touches, MergesOf, EndsOf
  <2>8. G \subseteq EdgesAt(e) BY <1>3, SplitOffIs
  <2>9. \A y \in G : y \in edge /\ IsEdge(y) /\ e \in EndsOf(y) /\ EndsOf(y) \subseteq node
    BY <1>1, <2>8 DEF EdgesAt, EdgesFit
  <2>10. Parted(h, e, n)'
    <3>1. Snapshot(G, e) /\ \A y \in G : n \notin EndsOf(y) BY <1>1, <1>2, <2>9 DEF Snapshot, KeysDiffer, EdgesFit
    <3>2. E \subseteq node' BY <1>2, <2>1, <2>9
    <3>3. EdgesAt(n)' = {} BY <1>1, <1>2 DEF EdgesFit, EdgesAt, EndsOf
    <3>4. merging'[h].taken = G /\ merging'[h].at = "parted" BY <2>4, <2>6
    <3> QED BY <1>4, <2>7, <3>1, <3>2, <3>3, <3>4 DEF Parted, Snapshot, KeysDiffer, IsEdge, EndsOf, EdgeKey
  <2>11. MergeGoes(h)'
    <3>1. merging'[h].at = "parted" BY <2>4, <2>6
    <3> QED BY <1>4, <2>7, <2>10, <3>1 DEF MergeGoes, UnderWay, MergeGoing, UnmergeGoing, SplitGoing
  <2>12. Apart' BY <1>1, <2>2, <2>6, <2>7, TakesApart
  <2>13. \A g \in Merger : g # h => SparesMerge(g) BY <1>2, <2>6 DEF SparesMerge
  <2>14. merging[h].at \notin {"detached", "torn"} BY <1>2 DEF NotMerging
  <2>15. TornFacts(h) = {} BY <2>14, NoneTorn
  <2> QED BY <1>2, <1>5, <2>6, <2>11, <2>12, <2>13, <2>14, <2>15, EditGoesOn
<1> QED BY <1>6, <1>7

LEMMA SplitOf ==
  ASSUME GraphIsSane, NEW h \in Merger, SplitGoing(h)
  PROVE  \E e, n \in GraphEntity : MergesOf(h, e, n) /\ Parted(h, e, n)
<1>1. MergeGoes(h) BY DEF GraphIsSane
<1> QED BY <1>1 DEF MergeGoes

LEMMA SplitConnectStays ==
  ASSUME GraphIsSane, NEW h \in Merger, NEW e \in GraphEntity, NEW n \in GraphEntity, SplitConnects(h, e, n)
  PROVE  GraphIsSane'
<1>1. MergesFit /\ EdgesFit /\ Apart BY DEF GraphIsSane
<1>2. PICK G : G = merging[h].taken OBVIOUS
<1>3. /\ merging' = [merging EXCEPT ![h].at = "copied"] /\ merging[h].at = "parted" /\ MergesOf(h, e, n)
      /\ node' = node /\ spent' = spent /\ mlog' = mlog /\ review' = review /\ adrift' = adrift
      /\ Connects(Moved(G, e, n))
  BY <1>2 DEF SplitConnects, MergesOf
<1>4. /\ MergesFit' /\ merging'[h].at = "copied" /\ merging'[h].keep = merging[h].keep
      /\ merging'[h].remove = merging[h].remove /\ merging'[h].taken = merging[h].taken
      /\ Touches(h)' = Touches(h)
      /\ \A g \in Merger : g # h => merging'[g] = merging[g]
  BY <1>1, <1>3, MergeGoesOn
<1>5. SplitGoing(h) /\ UnderWay(h) BY <1>3 DEF SplitGoing, UnderWay
<1>6. Parted(h, e, n)
  <2>1. PICK l, q \in GraphEntity : MergesOf(h, l, q) /\ Parted(h, l, q) BY <1>5, SplitOf
  <2> QED BY <1>3, <2>1 DEF MergesOf
<1>7. e # n /\ Snapshot(G, e) /\ Touches(h) \subseteq node /\ \A y \in G : n \notin EndsOf(y)
  BY <1>2, <1>6 DEF Parted
<1>8. \A y \in G : IsEdge(y) /\ e \in EndsOf(y) BY <1>7 DEF Snapshot
<1>9. \A z \in Moved(G, e, n) : IsEdge(z) BY <1>8, MovedWas
<1>10. \A z \in Moved(G, e, n) : n \in EndsOf(z) /\ EndsOf(z) \subseteq Touches(h)
  <2>1. {n} \cup UNION {EndsOf(y) : y \in G} \subseteq Touches(h) BY <1>2, <1>3 DEF MergesOf, Touches
  <2> QED BY <1>8, <2>1, MovedEnds
<1>11. PICK S : S = {z \in Moved(G, e, n) : EndsOf(z) \subseteq node} OBVIOUS
<1>12. S = Moved(G, e, n) BY <1>7, <1>10, <1>11
<1>13. EdgesFit' /\ \E last : Writes(S, last) BY <1>1, <1>3, <1>9, <1>11, ConnectsWrites
<1>14. PICK last : Writes(S, last) BY <1>13
<1>15. ASSUME NEW g \in Merger, g # h, UnderWay(g) PROVE SparesMerge(g)
  <2>1. Touches(g) \cap Touches(h) = {} BY <1>1, <1>5, <1>15 DEF Apart
  <2> QED BY <1>3, <1>4, <1>10, <1>12, <1>14, <1>15, <2>1, WritesSpare
<1>16. ASSUME NEW x \in G, NEW f \in x.facts
       PROVE  \E y \in edge' : f \in y.facts /\ n \in EndsOf(y) /\ EndsOf(y) \subseteq Touches(h)
  <2>1. PICK z \in Moved(G, e, n) : z.facts = x.facts BY <1>8, MovedAll
  <2>2. PICK c, w : c = EdgeKey(z) /\ w = last[c] OBVIOUS
  <2>3. c \in EdgeKeys(S) BY <1>12, <2>1, <2>2 DEF EdgeKeys
  <2>4. w \in S /\ EdgeKey(w) = c BY <1>14, <2>2, <2>3 DEF Writes
  <2>5. w = z BY <1>7, <1>12, <2>1, <2>2, <2>4, MovedDiffer
  <2>6. PICK y \in edge' : EdgeKey(y) = c /\ w.facts \subseteq y.facts BY <1>14, <2>2, <2>3 DEF Writes
  <2>7. EndsOf(y) = EndsOf(z) BY <2>2, <2>6, SameKeySameEnds
  <2> QED BY <1>10, <1>16, <2>1, <2>5, <2>6, <2>7
<1>17. Parted(h, e, n)'
  <2>1. /\ e # n /\ Snapshot(merging'[h].taken, e) /\ \A x \in merging'[h].taken : n \notin EndsOf(x)
        /\ Touches(h)' \subseteq node' /\ merging'[h].at # "parted"
    BY <1>2, <1>3, <1>4, <1>7
  <2>2. \A x \in merging'[h].taken : \A f \in x.facts :
          f \in spent' \/ \E y \in edge' : f \in y.facts /\ n \in EndsOf(y) /\ EndsOf(y) \subseteq Touches(h)'
    BY <1>2, <1>4, <1>16
  <2> QED BY <2>1, <2>2 DEF Parted, Snapshot, KeysDiffer, IsEdge, EndsOf, EdgeKey
<1>18. MergeGoes(h)'
  <2>1. MergesOf(h, e, n)' BY <1>3, <1>4 DEF MergesOf
  <2> QED BY <1>4, <1>17, <2>1 DEF MergeGoes, UnderWay, MergeGoing, UnmergeGoing, SplitGoing
<1>19. Apart' BY <1>1, <1>4, <1>5, StillApart
<1>20. Facts(edge) \subseteq Facts(edge')
  <2>1. \A x \in edge : \E y \in edge' : x.facts \subseteq y.facts BY <1>14, WritesKeep
  <2> QED BY <2>1 DEF Facts
<1>21. TornFacts(h) = {} /\ merging[h].at # "detached" BY <1>3, NoneTorn
<1> QED BY <1>3, <1>4, <1>13, <1>15, <1>18, <1>19, <1>20, <1>21, EditGoesOn

LEMMA SplitCutStays ==
  ASSUME GraphIsSane, entangled \in BOOLEAN, ~entangled', NEW h \in Merger, SplitCuts(h)
  PROVE  GraphIsSane'
<1>1. MergesFit /\ EdgesFit /\ Apart BY DEF GraphIsSane
<1>2. PICK G, gone : G = merging[h].taken /\ gone = {y \in edge : y.id \in Ids(merging[h].taken)} OBVIOUS
<1>3. /\ merging[h].at = "copied" /\ merging' = [merging EXCEPT ![h] = NotMerging] /\ edge' = edge \ gone
      /\ node' = node /\ mlog' = mlog /\ review' = review /\ spent' = spent /\ adrift' = adrift
  BY <1>2 DEF SplitCuts
<1>4. gone \subseteq G
  <2>1. PICK P : P = ~(gone \subseteq G) OBVIOUS
  <2>2. entangled' = (entangled \/ P) BY <1>2, <2>1, Zenon DEF SplitCuts
  <2> QED BY <2>1, <2>2, NotEntangled
<1>5. SplitGoing(h) /\ UnderWay(h) BY <1>3 DEF SplitGoing, UnderWay
<1>6. PICK e, n \in GraphEntity : MergesOf(h, e, n) /\ Parted(h, e, n) BY <1>5, SplitOf
<1>7. /\ MergesFit' /\ MergeGoes(h)' /\ ~UnderWay(h)'
      /\ \A g \in Merger : g # h => merging'[g] = merging[g]
  BY <1>1, <1>3, MergeEnds
<1>8. Apart' BY <1>1, <1>7, StillApart
<1>9. ASSUME NEW g \in Merger, g # h, UnderWay(g) PROVE SparesMerge(g)
  <2>1. Touches(g) \cap Touches(h) = {} BY <1>1, <1>5, <1>9 DEF Apart
  <2>2. ASSUME NEW y \in gone PROVE ~(EndsOf(y) \subseteq Touches(g))
    <3>1. EndsOf(y) \subseteq Touches(h) /\ y.from \in EndsOf(y) BY <1>2, <1>4, <2>2 DEF Touches, EndsOf
    <3> QED BY <2>1, <3>1
  <2> QED BY <1>3, <1>7, <1>9, <2>2 DEF SparesMerge
<1>10. EdgesFit' BY <1>1, <1>3 DEF EdgesFit, KeysDiffer, IsEdge, EndsOf, EdgeKey
<1>11. ASSUME NEW f \in Facts(edge) PROVE f \in Facts(edge') \/ f \in spent'
  <2>1. PICK y \in edge : f \in y.facts BY <1>11 DEF Facts
  <2>2. CASE y \notin gone BY <1>3, <2>1, <2>2 DEF Facts
  <2>3. CASE y \in gone
    <3>1. y \in G BY <1>4, <2>3
    <3>2. f \in spent \/ \E z \in edge : f \in z.facts /\ n \in EndsOf(z) BY <1>2, <1>3, <1>6, <2>1, <3>1 DEF Parted
    <3>3. \A z \in gone : n \notin EndsOf(z) BY <1>2, <1>4, <1>6 DEF Parted
    <3> QED BY <1>3, <3>2, <3>3 DEF Facts
  <2> QED BY <2>2, <2>3
<1>12. TornFacts(h) = {} /\ merging[h].at # "detached" BY <1>3, NoneTorn
<1> QED BY <1>3, <1>7, <1>8, <1>9, <1>10, <1>11, <1>12, EditGoesOn

-----------------------------------------------------------------------------
(* The graph as a whole.                                                     *)
LEMMA GraphStarts == ASSUME GraphInit PROVE GraphInv
<1>1. /\ node = Known /\ edge = FirstEdges /\ mlog = <<>> /\ review = <<>>
      /\ merging = [h \in Merger |-> NotMerging] /\ spent = {} /\ entangled = FALSE
  BY DEF GraphInit
<1>2. EdgesFit
  <2>1. KeysDiffer(edge) BY <1>1, EntityGraphAssumption DEF KeysDiffer
  <2>2. \A x \in edge : IsEdge(x) /\ EndsOf(x) \subseteq node BY <1>1, EntityGraphAssumption DEF IsEdge, EndsOf
  <2> QED BY <1>1, <2>1, <2>2 DEF EdgesFit, GraphEntity
<1>3. <<>> \in Seq(Values(mlog)) /\ <<>> \in Seq(ReviewShape) /\ Len(<<>>) = 0 BY EmptySeq
<1>4. mlog \in Seq(Values(mlog)) /\ review \in Seq(ReviewShape) BY <1>1, <1>3
<1>5. DOMAIN mlog = {} /\ DOMAIN review = {}
  <2>1. \A i \in 1 .. Len(<<>>) : FALSE BY <1>3
  <2>2. DOMAIN mlog = 1 .. Len(mlog) /\ DOMAIN review = 1 .. Len(review) BY <1>4, LenProperties
  <2> QED BY <1>1, <2>1, <2>2
<1>6. LogFits BY <1>4, <1>5 DEF LogFits
<1>7. ReviewsAreLive BY <1>5 DEF ReviewsAreLive
<1>8. \A h \in Merger : merging[h] = NotMerging BY <1>1
<1>9. MergesFit BY <1>1, <1>8 DEF MergesFit, NotMerging
<1>10. \A h \in Merger : merging[h].at = "free" BY <1>8 DEF NotMerging
<1>11. (\A h \in Merger : MergeGoes(h)) /\ Apart
  BY <1>10 DEF MergeGoes, Apart, UnderWay, MergeGoing, UnmergeGoing, SplitGoing
<1>12. FactsAreKept BY <1>1 DEF FactsAreKept
<1> QED BY <1>1, <1>2, <1>4, <1>6, <1>7, <1>9, <1>11, <1>12 DEF GraphInv, GraphIsSane

LEMMA BeginsClear ==
  ASSUME entangled \in BOOLEAN, NEW h, NEW k, NEW r, NEW approves, MergeBegins(h, k, r, approves), ~entangled'
  PROVE  /\ ~entangled /\ k # r
         /\ LET touched == {k, r} \cup UNION {EndsOf(x) : x \in EdgesAt(r)} IN ~Entangles(touched, Merger \ {h})
<1> DEFINE touched == {k, r} \cup UNION {EndsOf(x) : x \in EdgesAt(r)}
<1>1. entangled' = (entangled \/ k = r \/ Entangles(touched, Merger \ {h})) BY Zenon DEF MergeBegins
<1>2. ~(entangled \/ k = r \/ Entangles(touched, Merger \ {h})) BY <1>1, Zenon
<1> QED BY <1>2, Zenon

(* Whether something is entangled is remembered.                             *)
LEMMA EntangledIsKept ==
  ASSUME entangled \in BOOLEAN, EntityGraphNext
  PROVE  entangled' \in BOOLEAN /\ (~entangled' => ~entangled)
<1>1. ASSUME NEW P, entangled' = (entangled \/ P) PROVE entangled' \in BOOLEAN /\ (~entangled' => ~entangled)
  BY <1>1, Zenon
<1>2. ASSUME NEW h, NEW k, NEW r, NEW a, MergeBegins(h, k, r, a)
      PROVE  entangled' \in BOOLEAN /\ (~entangled' => ~entangled)
  <2>1. PICK E : entangled' = (entangled \/ k = r \/ Entangles(E, Merger \ {h})) BY <1>2, Zenon DEF MergeBegins
  <2> QED BY <2>1, Zenon
<1>3. ASSUME entangled' = entangled PROVE entangled' \in BOOLEAN /\ (~entangled' => ~entangled) BY <1>3, Zenon
<1>4. ASSUME NEW h, MergeBreaks(h) PROVE entangled' = entangled BY <1>4 DEF MergeBreaks
<1>5. ASSUME NEW h, NEW k, NEW r, MergeConnects(h, k, r) \/ MergeDetaches(h, k, r) \/ MergeEndsWith(h, k, r)
      PROVE  entangled' = entangled
  BY <1>5 DEF MergeConnects, MergeDetaches, MergeEndsWith
<1>6. ASSUME NEW h, NEW k, NEW r, JudgesPair(h, k, r) \/ JudgedDifferent(h) PROVE entangled' = entangled
  BY <1>6 DEF JudgesPair, JudgedDifferent
<1>7. ASSUME NEW h, NEW k, NEW r, NEW a, JudgeDoubts(h, k, r, a) PROVE entangled' = entangled
  BY <1>7 DEF JudgeDoubts
<1>8. ASSUME NEW h, NEW k, NEW r, AdminMergesTwo(h, k, r) \/ JudgedSame(h, k, r)
      PROVE  entangled' \in BOOLEAN /\ (~entangled' => ~entangled)
  BY <1>2, <1>8 DEF AdminMergesTwo, JudgedSame
<1>9. ASSUME NEW h, NEW i, Approves(h, i) PROVE entangled' \in BOOLEAN /\ (~entangled' => ~entangled)
  <2>1. MergeBegins(h, review[i].a, review[i].b, {i}) \/ entangled' = entangled BY <1>9 DEF Approves
  <2> QED BY <1>2, <1>3, <2>1
<1>10. ASSUME NEW i, RejectsReview(i) PROVE entangled' = entangled BY <1>10 DEF RejectsReview
<1>11. ASSUME NEW h, NEW x, UnmergeGives(h, x) \/ UnmergeEnds(h) \/ EditBreaks(h) \/ DeletesRelationship(x)
       PROVE  entangled' = entangled
  BY <1>11 DEF UnmergeGives, UnmergeEnds, EditBreaks, DeletesRelationship
<1>12. ASSUME NEW h, NEW i, UnmergeBegins(h, i) PROVE \E P : entangled' = (entangled \/ P)
  BY <1>12, Zenon DEF UnmergeBegins
<1>13. ASSUME NEW h, NEW x, UnmergeFinds(h, x) PROVE \E P : entangled' = (entangled \/ P)
  BY <1>13, Zenon DEF UnmergeFinds
<1>14. ASSUME NEW h, NEW x, UnmergeTears(h, x) PROVE \E P : entangled' = (entangled \/ P)
  BY <1>14, Zenon DEF UnmergeTears
<1>15. ASSUME NEW h, SplitCuts(h) PROVE \E P : entangled' = (entangled \/ P)
  BY <1>15, Zenon DEF SplitCuts
<1>16. ASSUME NEW h, NEW e, NEW n, SplitConnects(h, e, n) PROVE entangled' = entangled
  BY <1>16 DEF SplitConnects
<1>17. ASSUME NEW h, NEW e, NEW x, NEW n, SplitBegins(h, e, x, n)
       PROVE  entangled' = entangled \/ \E P : entangled' = (entangled \/ P)
  <2>1. PICK G : IF G = {} THEN UNCHANGED <<merging, entangled>>
                 ELSE LET touched == {e, n} \cup UNION {EndsOf(y) : y \in G} IN
                        entangled' = (entangled \/ Entangles(touched, Merger \ {h}))
    BY <1>17 DEF SplitBegins
  <2>2. CASE G = {} BY <2>1, <2>2
  <2>3. CASE G # {}
    <3>1. PICK P : P = LET touched == {e, n} \cup UNION {EndsOf(y) : y \in G} IN Entangles(touched, Merger \ {h}) OBVIOUS
    <3>2. entangled' = (entangled \/ P) BY <2>1, <2>3, <3>1, Zenon
    <3> QED BY <3>2
  <2> QED BY <2>2, <2>3
<1>18. ASSUME NEW h, \/ UnmergeEnds(h) \/ EditBreaks(h) \/ SplitCuts(h)
                     \/ \E i : UnmergeBegins(h, i)
                     \/ \E x : UnmergeFinds(h, x) \/ UnmergeTears(h, x) \/ UnmergeGives(h, x)
                     \/ \E e, n : SplitConnects(h, e, n) \/ \E x : SplitBegins(h, e, x, n)
       PROVE  entangled' \in BOOLEAN /\ (~entangled' => ~entangled)
  BY <1>1, <1>3, <1>11, <1>12, <1>13, <1>14, <1>15, <1>16, <1>17, <1>18
<1> QED BY <1>3, <1>4, <1>5, <1>6, <1>7, <1>8, <1>9, <1>10, <1>11, <1>18 DEF EntityGraphNext

LEMMA MergerStays ==
  ASSUME GraphIsSane, entangled \in BOOLEAN, ~entangled', NEW h \in Merger, NEW k \in GraphEntity, NEW r \in GraphEntity,
         \/ MergeBreaks(h) \/ MergeConnects(h, k, r) \/ MergeDetaches(h, k, r) \/ MergeEndsWith(h, k, r)
         \/ AdminMergesTwo(h, k, r) \/ JudgesPair(h, k, r) \/ JudgedSame(h, k, r) \/ JudgedDifferent(h)
         \/ \E action \in {"merge", "unsure"} : JudgeDoubts(h, k, r, action)
         \/ \E i \in DOMAIN review : Approves(h, i)
  PROVE  GraphIsSane'
<1>1. ASSUME NEW a, NEW l \in GraphEntity, NEW q \in GraphEntity, MergeBegins(h, l, q, a), ~UnderWay(h),
             UNCHANGED <<node, edge, review, spent, adrift>>
      PROVE  GraphIsSane'
  <2>1. /\ l # q
        /\ LET touched == {l, q} \cup UNION {EndsOf(x) : x \in EdgesAt(q)} IN ~Entangles(touched, Merger \ {h})
    BY <1>1, BeginsClear
  <2> QED BY <1>1, <2>1, BeginStays
<1>2. CASE AdminMergesTwo(h, k, r)
  <2>1. MergeBegins(h, k, r, {}) /\ merging[h] = NotMerging /\ UNCHANGED <<node, edge, review, spent, adrift>>
    BY <1>2 DEF AdminMergesTwo
  <2>2. ~UnderWay(h) BY <2>1 DEF UnderWay, MergeGoing, UnmergeGoing, SplitGoing, NotMerging
  <2> QED BY <1>1, <2>1, <2>2
<1>3. CASE JudgedSame(h, k, r)
  <2>1. MergeBegins(h, k, r, {}) /\ ~UnderWay(h) /\ UNCHANGED <<node, edge, review, spent, adrift>>
    BY <1>3 DEF JudgedSame, UnderWay, MergeGoing, UnmergeGoing, SplitGoing
  <2> QED BY <1>1, <2>1
<1>4. ASSUME NEW i \in DOMAIN review, Approves(h, i) PROVE GraphIsSane'
  <2>1. PICK l, q : l = review[i].a /\ q = review[i].b OBVIOUS
  <2>2. review[i] \in ReviewShape
    <3>1. review \in Seq(ReviewShape) BY DEF GraphIsSane
    <3>2. i \in 1 .. Len(review) BY <3>1, LenProperties
    <3> QED BY <3>1, <3>2, ElementOfSeq
  <2>3. l \in GraphEntity /\ q \in GraphEntity BY <2>1, <2>2 DEF ReviewShape
  <2>4. ~UnderWay(h) /\ UNCHANGED <<node, edge, spent, adrift>>
    BY <1>4 DEF Approves, UnderWay, MergeGoing, UnmergeGoing, SplitGoing, NotMerging
  <2>5. \/ MergeBegins(h, l, q, {i}) /\ UNCHANGED review
        \/ review' = [review EXCEPT ![i].st = "approved"] /\ UNCHANGED <<merging, mlog>>
    BY <1>4, <2>1 DEF Approves
  <2>6. CASE MergeBegins(h, l, q, {i}) /\ UNCHANGED review BY <1>1, <2>3, <2>4, <2>6
  <2>7. CASE review' = [review EXCEPT ![i].st = "approved"] /\ UNCHANGED <<merging, mlog>>
    BY <2>4, <2>7, DecidedStays
  <2> QED BY <2>5, <2>6, <2>7
<1> QED
  BY <1>2, <1>3, <1>4, BreakStays, ConnectStays, DetachStays, EndStays, JudgeStays, DoubtStays

LEMMA EditStays ==
  ASSUME GraphIsSane, entangled \in BOOLEAN, ~entangled', NEW h \in Merger,
         \/ UnmergeEnds(h) \/ EditBreaks(h) \/ SplitCuts(h)
         \/ \E i \in DOMAIN mlog : UnmergeBegins(h, i)
         \/ \E x \in merging[h].todo : UnmergeFinds(h, x)
         \/ \E x \in merging[h].taken : UnmergeTears(h, x) \/ UnmergeGives(h, x)
         \/ \E e, n \in GraphEntity : SplitConnects(h, e, n)
         \/ \E x \in edge : \E e \in EndsOf(x), n \in Spare : SplitBegins(h, e, x, n)
  PROVE  GraphIsSane'
BY UnmergeBeginStays, UnmergeFindStays, UnmergeTearStays, UnmergeGiveStays, UnmergeEndStays, EditBreakStays,
   SplitBeginStays, SplitConnectStays, SplitCutStays

LEMMA GraphSteps == ASSUME GraphInv, [EntityGraphNext]_factVars PROVE GraphInv'
<1>1. entangled \in BOOLEAN /\ (~entangled => GraphIsSane) BY DEF GraphInv
<1>2. CASE UNCHANGED factVars
  <2>1. /\ node' = node /\ edge' = edge /\ mlog' = mlog /\ review' = review /\ merging' = merging
        /\ spent' = spent /\ adrift' = adrift /\ entangled' = entangled
    BY <1>2 DEF factVars
  <2>2. ASSUME GraphIsSane PROVE GraphIsSane'
    <3>1. MergesFit' /\ (\A g \in Merger : MergeGoes(g)') /\ Apart' /\ Leaving' = Leaving
      BY <2>1, <2>2, NoMergeMoves
    <3>2. ReviewsAreLive /\ review \in Seq(ReviewShape) BY <2>2 DEF GraphIsSane
    <3>3. ReviewsAreLive' BY <2>1, <3>1, <3>2, SameReviews
    <3> QED BY <2>1, <2>2, <3>1, <3>2, <3>3, OnlyReviews
  <2> QED BY <1>1, <2>1, <2>2 DEF GraphInv
<1>3. CASE EntityGraphNext
  <2>1. entangled' \in BOOLEAN /\ (~entangled' => ~entangled) BY <1>1, <1>3, EntangledIsKept
  <2>2. ASSUME ~entangled' PROVE GraphIsSane'
    <3>1. GraphIsSane BY <1>1, <2>1, <2>2
    <3>2. \A h : h \in Resolver \/ h \in Curator => h \in Merger BY DEF Merger
    <3>3. \A k, r \in Known \cup Spare : k \in GraphEntity /\ r \in GraphEntity BY DEF GraphEntity
    <3>4. ASSUME NEW h \in Merger, NEW k \in Known \cup Spare, NEW r \in Known \cup Spare,
                 \/ MergeConnects(h, k, r) \/ MergeDetaches(h, k, r) \/ MergeEndsWith(h, k, r)
                 \/ AdminMergesTwo(h, k, r) \/ JudgesPair(h, k, r) \/ JudgedSame(h, k, r)
                 \/ \E action \in {"merge", "unsure"} : JudgeDoubts(h, k, r, action)
          PROVE  GraphIsSane'
      BY <1>1, <2>2, <3>1, <3>3, <3>4, MergerStays
    <3>5. ASSUME NEW h \in Merger, MergeBreaks(h) PROVE GraphIsSane' BY <3>1, <3>5, BreakStays
    <3>6. ASSUME NEW h \in Merger, JudgedDifferent(h) PROVE GraphIsSane'
      <4>1. CASE GraphEntity = {}
        <5>1. \A k, r \in GraphEntity : FALSE BY <4>1
        <5>2. merging[h].at = "judging" BY <3>6 DEF JudgedDifferent
        <5>3. MergeGoes(h) BY <3>1 DEF GraphIsSane
        <5> QED BY <5>1, <5>2, <5>3 DEF MergeGoes
      <4>2. CASE GraphEntity # {} BY <3>1, <3>6, <4>2, JudgeStays
      <4> QED BY <4>1, <4>2
    <3>7. ASSUME NEW h \in Merger, NEW i \in DOMAIN review, Approves(h, i) PROVE GraphIsSane'
      <4>1. review \in Seq(ReviewShape) BY <3>1 DEF GraphIsSane
      <4>2. i \in 1 .. Len(review) BY <4>1, LenProperties
      <4>3. review[i] \in ReviewShape BY <4>1, <4>2, ElementOfSeq
      <4>4. PICK k \in GraphEntity : k = review[i].a BY <4>3 DEF ReviewShape
      <4> QED BY <1>1, <2>2, <3>1, <3>7, <4>4, MergerStays
    <3>8. ASSUME NEW i \in DOMAIN review, RejectsReview(i) PROVE GraphIsSane'
      <4>1. /\ review' = [review EXCEPT ![i].st = "rejected"] /\ merging' = merging
            /\ UNCHANGED <<node, edge, mlog, spent, adrift>>
        BY <3>8 DEF RejectsReview
      <4> QED BY <3>1, <4>1, DecidedStays
    <3>9. ASSUME NEW h \in Merger,
                 \/ UnmergeEnds(h) \/ EditBreaks(h) \/ SplitCuts(h)
                 \/ \E i \in DOMAIN mlog : UnmergeBegins(h, i)
                 \/ \E x \in merging[h].todo : UnmergeFinds(h, x)
                 \/ \E x \in merging[h].taken : UnmergeTears(h, x) \/ UnmergeGives(h, x)
                 \/ \E e, n \in GraphEntity : SplitConnects(h, e, n)
                 \/ \E x \in edge : \E e \in EndsOf(x), n \in Spare : SplitBegins(h, e, x, n)
          PROVE  GraphIsSane'
      BY <1>1, <2>2, <3>1, <3>9, EditStays
    <3>10. ASSUME NEW x \in edge, DeletesRelationship(x) PROVE GraphIsSane' BY <3>1, <3>10, DeleteStays
    <3> QED BY <1>3, <3>2, <3>3, <3>4, <3>5, <3>6, <3>7, <3>8, <3>9, <3>10 DEF EntityGraphNext
  <2> QED BY <2>1, <2>2 DEF GraphInv
<1> QED BY <1>2, <1>3

(* Whatever is merged, split, unmerged, deleted and reviewed in any order,   *)
(* and wherever a merge breaks, what a book says about two entities stays on *)
(* an edge and every open question is about two entities that are there:     *)
(* execute_merge, unmerge_entities, split_entity and the review endpoints.   *)
THEOREM MergesStaySound == EntityGraphSpec => []MergesAreSound
<1>1. GraphInit => GraphInv BY GraphStarts
<1>2. GraphInv /\ [EntityGraphNext]_factVars => GraphInv' BY GraphSteps
<1>3. GraphInv => MergesAreSound
  <2>1. ASSUME GraphInv PROVE entangled \/ GraphIsSane BY <2>1, Zenon DEF GraphInv
  <2>2. GraphIsSane => FactsAreKept /\ ReviewsAreLive BY DEF GraphIsSane
  <2> QED BY <2>1, <2>2, Zenon DEF MergesAreSound
<1> QED BY <1>1, <1>2, <1>3, PTL DEF EntityGraphSpec
=============================================================================
