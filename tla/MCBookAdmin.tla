---------------------------- MODULE MCBookAdmin ----------------------------
(* Instances for TLC of what editors do: their requests beside the pipeline, *)
(* those beside the spell check by an LLM, the issues of the spell check by  *)
(* dictionary, and the pages of one book in the desktop client; and of what  *)
(* readers ask: in the chat, of the list of books, of a cached row; of facts *)
(* of history under review; of the files of books, the texts a client sends, *)
(* and the chunks of a page; of the edges of the knowledge graph, the pages  *)
(* of a DOCX, and the threads of the desktop client. The parts share no      *)
(* state; the initial state chooses the one that is explored.                *)
EXTENDS BookAdmin, LlmSpellCheck, SpellIssues, Client, ChatTurn, RetrievalScope,
        Caches, HistoryStaging, BookStorage, ClientPush, Chunking,
        EntityGraph, DocxPages

CONSTANTS b1, p1, j1, k1, r1, r2, a1, a2, x1, u1, i1, i2, i3, i4, i5, k2, t1, t2, v1, v2, v3, n1,
          f1, f2, s1, s2, c1, c2, m1, e1, e2, e3, e4, q1, q2, q3
VARIABLE part

OnePage == [p \in {p1} |-> b1]
TwoWords == <<"first word", "second word">>
TwoVolumes == [b \in {v1, v2, v3} |-> IF b = v3 THEN {v3} ELSE {v1, v2}]
OneFactEach == [s \in {s1, s2} |-> IF s = s1 THEN <<{f1}>> ELSE <<{f2}>>]
Passed == {{v2, v3}, {n1}}
TwoBatches == [q \in OcrCall |-> IF q = q3 THEN "redo" ELSE "job"]
Says(i, e, f, rel, b) ==
  [id |-> <<i>>, from |-> e, to |-> f, rel |-> rel, book |-> b, facts |-> {i}]
ThreeEdges == {Says(1, e1, e3, "TEACHER_OF", 1), Says(2, e2, e3, "TEACHER_OF", 1),
               Says(3, e1, e2, "TEACHER_OF", 2)}
Parts == {"admin", "spell", "issues", "desktop", "chat", "scope", "list", "row",
          "history", "storage", "push", "chunks", "facts", "docx", "threads"}

(* A change of the rules only by an editor's correction, and no faults: they *)
(* are explored in MCServices.                                               *)
IssuesPart == IssuesNext /\ ifaults' = 0 /\ (ruleChanges' = 0 \/ session' # session)

(* Nothing is said of a session once it has two instances.                   *)
DesktopPart ==
  /\ doubled = {} /\ DesktopNext
  /\ \A k \in Call : request'[k].kind \in {"redo", "review"} => request'[k].page = {1}

(* Nothing is said of merges that got entangled, nor of what follows.        *)
FactsPart == ~entangled /\ EntityGraphNext

EditVars == <<avars, lvars, ivars, dvars>>
ReaderVars == <<chatVars, scopeVars, listVars, readVars, stagingVars>>
PeopleVars == <<EditVars, ReaderVars>>
PaperVars == <<docxVars, threadVars>>
FileVars == <<storageVars, pushVars, chunkVars, factVars, PaperVars>>
AskVars == <<ReaderVars, FileVars>>
ListVars == <<listVars, readVars, stagingVars, FileVars>>

EditorsInit ==
  /\ AdminInit /\ SpellInit /\ IssuesInit /\ DesktopInit
  /\ ChatInit /\ ScopeInit /\ ListInit /\ ReadInit /\ StagingInit
  /\ StorageInit /\ PushInit /\ ChunkingInit /\ GraphInit /\ DocxInit /\ ThreadsInit
  /\ part \in Parts
  /\ part # "admin" => fresh = Page
  /\ part # "issues" => rules = {}
  /\ part # "row" => kind = "book"
  /\ part # "history" => entry = NoEntry
  /\ part # "threads" => width = [b \in Batch |-> 1]
EditorsNext ==
  /\ UNCHANGED part
  /\ \/ part = "admin" /\ AdminNext /\ UNCHANGED <<lvars, ivars, dvars, AskVars>>
     \/ part = "spell" /\ SpellNext /\ UNCHANGED <<avars, ivars, dvars, AskVars>>
     \/ part = "issues" /\ IssuesPart /\ UNCHANGED <<avars, lvars, dvars, AskVars>>
     \/ part = "desktop" /\ DesktopPart /\ UNCHANGED <<avars, lvars, ivars, AskVars>>
     \/ part = "chat" /\ ChatNext /\ UNCHANGED <<EditVars, scopeVars, ListVars>>
     \/ part = "scope" /\ ScopeNext /\ UNCHANGED <<EditVars, chatVars, ListVars>>
     \/ /\ part = "list" /\ ListNext
        /\ UNCHANGED <<EditVars, chatVars, scopeVars, readVars, stagingVars, FileVars>>
     \/ /\ part = "row" /\ ReadNext
        /\ UNCHANGED <<EditVars, chatVars, scopeVars, listVars, stagingVars, FileVars>>
     \/ /\ part = "history" /\ StagingNext
        /\ UNCHANGED <<EditVars, chatVars, scopeVars, listVars, readVars, FileVars>>
     \/ /\ part = "storage" /\ StorageNext
        /\ UNCHANGED <<PeopleVars, pushVars, chunkVars, factVars, PaperVars>>
     \/ /\ part = "push" /\ PushNext
        /\ UNCHANGED <<PeopleVars, storageVars, chunkVars, factVars, PaperVars>>
     \/ /\ part = "chunks" /\ ChunkingNext
        /\ UNCHANGED <<PeopleVars, storageVars, pushVars, factVars, PaperVars>>
     \/ /\ part = "facts" /\ FactsPart
        /\ UNCHANGED <<PeopleVars, storageVars, pushVars, chunkVars, PaperVars>>
     \/ /\ part = "docx" /\ DocxNext
        /\ UNCHANGED <<PeopleVars, storageVars, pushVars, chunkVars, factVars, threadVars>>
     \/ /\ part = "threads" /\ ThreadsNext
        /\ UNCHANGED <<PeopleVars, storageVars, pushVars, chunkVars, factVars, docxVars>>
EditorsSpec == EditorsInit /\ [][EditorsNext]_<<EditVars, AskVars, part>>

-----------------------------------------------------------------------------
(* On its way from the file over the pages into the chunks no text is lost,   *)
(* and pages and sections stay what they are.                                 *)
TextIsWhole == DocxIsWhole /\ ChunksAreSound
===========================================================================
