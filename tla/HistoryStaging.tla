----------------------------- MODULE HistoryStaging -----------------------------
(* Facts about one term of history: extracted from books by a job or a batch,  *)
(* merged into a candidate that waits for review, and published by an          *)
(* administrator into the dictionary. Merging and publishing call a language   *)
(* model between reading and writing, without a lock. Only the text of a fact  *)
(* tells it from others; its citations are left out.                           *)
EXTENDS Integers, Sequences

CONSTANTS
  Fact,          \* texts of facts
  Prose,         \* the definition of an entry without facts, taken for one
  Source,        \* jobs and batches that extract
  Output,        \* for each source the entities found, as sets of facts
  Poller,        \* workers that ingest
  Admin,         \* approvals
  Candidate,     \* rows of history_dictionary_staging, 1 .. n
  MaxDecisions,  \* requests of administrators about facts and entries
  MaxHFaults     \* crashes and lost outputs

ASSUME StagingAssumption ==
  /\ Prose \notin Fact /\ Output \in [Source -> Seq(SUBSET Fact)]
  /\ Candidate \subseteq Nat \ {0} /\ MaxDecisions \in Nat /\ MaxHFaults \in Nat

VARIABLES
  entry,         \* the published entry: who wrote it, and its facts
  candidate,     \* rows: status and facts, as pairs <<text, status>>
  source,        \* status of a source
  ingest,        \* a worker: phase, source, line, and the row and facts it has read
  approval,      \* an approval: the row and the facts it has read
  resolving,     \* a request about one fact: the row and the facts it has read
  staged,        \* history: facts that were committed to a row
  settled,       \* history: facts that were given up on purpose
  crossed,       \* history: somebody wrote over what he had not read
  decisions, hfaults

stagingVars ==
  <<entry, candidate, source, ingest, approval, resolving, staged, settled, crossed, decisions, hfaults>>

NoEntry == [by |-> "none", facts |-> {}]
Unused == [status |-> "none", facts |-> {}]
Ingest(ph, s, l, i, c, B) ==
  [phase |-> ph, source |-> s, line |-> l, row |-> i, seen |-> c, base |-> B]
NoIngest == Ingest("idle", "none", 0, 0, Unused, {})
NothingRead == [row |-> 0, facts |-> {}]
HFault == hfaults < MaxHFaults /\ hfaults' = hfaults + 1
Decides == decisions < MaxDecisions /\ decisions' = decisions + 1
TextsOf(F) == {f[1] : f \in F}
WithState(F, st) == {f[1] : f \in {g \in F : g[2] = st}}
InState(T, st) == T \X {st}
Waiting == {i \in Candidate : candidate[i].status = "pending"}
Cell(i) == IF i \in Candidate THEN candidate[i] ELSE Unused

-----------------------------------------------------------------------------
(* _merge_facts: a repeated active text adds a citation; without active facts *)
(* every text is new; otherwise one that is not related to them is new, and   *)
(* for the rest a model decides: new, the same as another, or in conflict.    *)
Decided(F, R, D) ==
  LET against == {D[t].other : t \in {u \in R : D[u].is = "conflict"}}
      added(is, st) == InState({t \in R : D[t].is = is}, st)
  IN  (F \ InState(against, "active")) \cup InState(against, "conflict")
        \cup added("conflict", "conflict") \cup added("new", "active")
Merges(F, T) ==
  LET U == T \ WithState(F, "active") IN
  IF WithState(F, "active") = {} THEN {F \cup InState(U, "active")}
  ELSE UNION {LET G == F \cup InState(N, "active")
                  decisions_ == [is : {"new"}, other : {Prose}]
                                  \cup [is : {"duplicate", "conflict"}, other : WithState(G, "active")]
              IN  {Decided(G, U \ N, D) : D \in [U \ N -> decisions_]} : N \in SUBSET U}
(* Texts the model takes for another fact are not stored.                     *)
Absorbed(T, F) == T \ TextsOf(F)

-----------------------------------------------------------------------------
(* poll_and_process_batch_history_jobs, extract_book_history_terms_task      *)
TakesSource(p, s) ==
  /\ ingest[p] = NoIngest /\ source[s] = "open"
  /\ ingest' = [ingest EXCEPT ![p] = Ingest("finds", s, 1, 0, Unused, {})]
  /\ UNCHANGED <<entry, candidate, source, approval, resolving, staged, settled, crossed, decisions, hfaults>>

Extracted(p) == Output[ingest[p].source]
NextLine(p) == ingest' = [ingest EXCEPT ![p] = Ingest("finds", @.source, @.line + 1, 0, Unused, {})]
(* A term that a person has written is left alone.                            *)
SkipsCurated(p) ==
  /\ ingest[p].phase = "finds" /\ ingest[p].line <= Len(Extracted(p))
  /\ entry.by = "person" /\ Waiting = {}
  /\ NextLine(p)
  /\ UNCHANGED <<entry, candidate, source, approval, resolving, staged, settled, crossed, decisions, hfaults>>

(* The facts of the entry are the basis of a candidate that enriches it.      *)
(* Fault: it starts from nothing.                                             *)
EnrichesNothing == {}
Basis == IF entry.by # "model" THEN {}
         ELSE IF entry.facts = {} THEN {<<Prose, "active">>} ELSE entry.facts
FindsTerm(p) ==
  /\ ingest[p].phase = "finds" /\ ingest[p].line <= Len(Extracted(p))
  /\ \/ \E i \in Waiting : ingest' = [ingest EXCEPT ![p] =
          Ingest("writes", @.source, @.line, i, candidate[i], candidate[i].facts)]
     \/ /\ Waiting = {} /\ entry.by # "person"
        /\ ingest' = [ingest EXCEPT ![p] = Ingest("writes", @.source, @.line, 0, Unused, Basis)]
  /\ UNCHANGED <<entry, candidate, source, approval, resolving, staged, settled, crossed, decisions, hfaults>>

(* Each entity is a commit.                                                   *)
StagesEntity(p) ==
  LET T == Extracted(p)[ingest[p].line] IN
  /\ ingest[p].phase = "writes"
  /\ \E F \in Merges(ingest[p].base, T) :
       /\ \/ ingest[p].row # 0 /\ candidate' = [candidate EXCEPT ![ingest[p].row].facts = F]
          \/ /\ ingest[p].row = 0
             /\ \E i \in Candidate :
                  /\ candidate[i] = Unused /\ \A j \in Candidate : j < i => candidate[j] # Unused
                  /\ candidate' = [candidate EXCEPT ![i] = [status |-> "pending", facts |-> F]]
       /\ staged' = staged \cup TextsOf(F \ ingest[p].base)
       /\ settled' = settled \cup Absorbed(T, F)
  /\ crossed' = (crossed \/ Cell(ingest[p].row) # ingest[p].seen
                 \/ (ingest[p].row = 0
                       /\ (Waiting # {} \/ entry.by = "person" \/ ingest[p].base # Basis)))
  /\ NextLine(p)
  /\ UNCHANGED <<entry, source, approval, resolving, decisions, hfaults>>

(* An entity without an answer of the model, and a line that is not readable. *)
LosesLine(p) ==
  /\ ingest[p].phase # "idle" /\ ingest[p].line <= Len(Extracted(p)) /\ HFault /\ NextLine(p)
  /\ UNCHANGED <<entry, candidate, source, approval, resolving, staged, settled, crossed, decisions>>

(* An output that cannot be read counts as ingested.                          *)
EndsSource(p) ==
  /\ ingest[p].phase = "finds"
  /\ IF ingest[p].line > Len(Extracted(p)) THEN UNCHANGED hfaults ELSE ingest[p].line = 1 /\ HFault
  /\ source' = [source EXCEPT ![ingest[p].source] = "succeeded"]
  /\ ingest' = [ingest EXCEPT ![p] = NoIngest]
  /\ UNCHANGED <<entry, candidate, approval, resolving, staged, settled, crossed, decisions>>

(* The lines before are committed, and will be ingested once more.            *)
IngestDies(p) ==
  /\ ingest[p] # NoIngest /\ ingest' = [ingest EXCEPT ![p] = NoIngest] /\ HFault
  /\ UNCHANGED <<entry, candidate, source, approval, resolving, staged, settled, crossed, decisions>>

SourceFails(s) ==
  /\ source[s] = "open" /\ \A p \in Poller : ingest[p].source # s /\ HFault
  /\ source' = [source EXCEPT ![s] = "failed"]
  /\ UNCHANGED <<entry, candidate, ingest, approval, resolving, staged, settled, crossed, decisions>>

-----------------------------------------------------------------------------
(* approve_staging_term: the facts are read and checked, a definition is      *)
(* written by a model, and the facts that were read are published.            *)
ApprovalBegins(a, i) ==
  /\ approval[a] = NothingRead /\ i \in Waiting
  /\ WithState(candidate[i].facts, "conflict") = {}
  /\ approval' = [approval EXCEPT ![a] = [row |-> i, facts |-> candidate[i].facts]]
  /\ UNCHANGED <<entry, candidate, source, ingest, resolving, staged, settled, crossed, decisions, hfaults>>

ApprovalFails(a) ==
  /\ approval[a] # NothingRead /\ approval' = [approval EXCEPT ![a] = NothingRead]
  /\ UNCHANGED <<entry, candidate, source, ingest, resolving, staged, settled, crossed, decisions, hfaults>>

(* Fault: the row is read again after the model has answered.                 *)
FactsAnew(a) == candidate[approval[a].row].facts
FactsPublished(a) == approval[a].facts
ApprovalEnds(a) ==
  LET i == approval[a].row IN
  /\ approval[a] # NothingRead
  /\ IF entry.by = "person"
     THEN UNCHANGED entry /\ settled' = settled \cup TextsOf(candidate[i].facts)
     ELSE entry' = [by |-> "model", facts |-> FactsPublished(a)] /\ UNCHANGED settled
  /\ candidate' = [candidate EXCEPT ![i].status = "approved"]
  /\ crossed' = (crossed \/ candidate[i] # [status |-> "pending", facts |-> approval[a].facts])
  /\ approval' = [approval EXCEPT ![a] = NothingRead]
  /\ UNCHANGED <<source, ingest, resolving, staged, decisions, hfaults>>

(* reject_staging_term looks at no status.                                    *)
Rejects(i) ==
  /\ candidate[i].status # "none" /\ Decides
  /\ candidate' = [candidate EXCEPT ![i].status = "rejected"]
  /\ settled' = settled \cup TextsOf(candidate[i].facts)
  /\ UNCHANGED <<entry, source, ingest, approval, resolving, staged, crossed, hfaults>>

(* resolve_fact: a status, and perhaps another text; all facts are written    *)
(* back as they were read, whatever has become of the row.                    *)
ResolutionBegins(a, i) ==
  /\ resolving[a] = NothingRead /\ i \in Waiting /\ Decides
  /\ resolving' = [resolving EXCEPT ![a] = [row |-> i, facts |-> candidate[i].facts]]
  /\ UNCHANGED <<entry, candidate, source, ingest, approval, staged, settled, crossed, hfaults>>

ResolvesFact(a, f, t, st) ==
  LET i == resolving[a].row IN
  /\ f \in resolving[a].facts
  /\ candidate' = [candidate EXCEPT ![i].facts = (resolving[a].facts \ {f}) \cup {<<t, st>>}]
  /\ settled' = settled \cup ({f[1]} \ {t})
  /\ crossed' = (crossed \/ candidate[i].facts # resolving[a].facts)
  /\ resolving' = [resolving EXCEPT ![a] = NothingRead]
  /\ UNCHANGED <<entry, source, ingest, approval, staged, decisions, hfaults>>

ResolutionFails(a) ==
  /\ resolving[a] # NothingRead /\ resolving' = [resolving EXCEPT ![a] = NothingRead]
  /\ UNCHANGED <<entry, candidate, source, ingest, approval, staged, settled, crossed, decisions, hfaults>>

(* create_history_entry, update_history_entry                                 *)
WritesEntry(by) ==
  /\ by \in {"person", "model"} /\ entry.by # by /\ Decides
  /\ entry' = [entry EXCEPT !.by = by]
  /\ UNCHANGED <<candidate, source, ingest, approval, resolving, staged, settled, crossed, hfaults>>

DeletesEntry ==
  /\ entry # NoEntry /\ Decides /\ entry' = NoEntry
  /\ settled' = settled \cup TextsOf(entry.facts)
  /\ UNCHANGED <<candidate, source, ingest, approval, resolving, staged, crossed, hfaults>>

-----------------------------------------------------------------------------
StagingInit ==
  /\ entry \in {NoEntry, [by |-> "model", facts |-> {}], [by |-> "person", facts |-> {}]}
  /\ candidate = [i \in Candidate |-> Unused] /\ source = [s \in Source |-> "open"]
  /\ ingest = [p \in Poller |-> NoIngest]
  /\ approval = [a \in Admin |-> NothingRead] /\ resolving = [a \in Admin |-> NothingRead]
  /\ staged = {} /\ settled = {} /\ crossed = FALSE /\ decisions = 0 /\ hfaults = 0

StagingNext ==
  \/ \E p \in Poller : \/ \E s \in Source : TakesSource(p, s)
                       \/ SkipsCurated(p) \/ FindsTerm(p) \/ StagesEntity(p) \/ LosesLine(p)
                       \/ EndsSource(p) \/ IngestDies(p)
  \/ \E s \in Source : SourceFails(s)
  \/ \E a \in Admin : \/ \E i \in Candidate : ApprovalBegins(a, i)
                      \/ ApprovalFails(a) \/ ApprovalEnds(a)
                      \/ \E i \in Candidate : ResolutionBegins(a, i)
                      \/ ResolutionFails(a)
                      \/ \E f \in resolving[a].facts, t \in Fact, st \in {"active", "rejected"} :
                           ResolvesFact(a, f, t, st)
  \/ \E i \in Candidate : Rejects(i)
  \/ DeletesEntry \/ \E by \in {"person", "model"} : WritesEntry(by)
StagingSpec == StagingInit /\ [][StagingNext]_stagingVars

-----------------------------------------------------------------------------
(* Readers of the dictionary never see two facts that contradict each other   *)
(* before somebody has chosen one of them, although an extraction may bring a *)
(* new contradiction into a candidate while it is being approved.             *)
EntryHasNoConflict == WithState(entry.facts, "conflict") = {}

(* A fact that was committed to a candidate is not lost, through merges,      *)
(* reviews, enrichments and repeated ingestion: it is published, waits in a   *)
(* candidate, or was given up by a decision. Exempt are handlers that wrote   *)
(* over what had changed since they read it: the code has no lock there.      *)
StagedFactIsKept ==
  ~crossed => staged \subseteq
     settled \cup TextsOf(entry.facts) \cup UNION {TextsOf(candidate[i].facts) : i \in Waiting}
=============================================================================
