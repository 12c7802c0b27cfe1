------------------------------ MODULE BookStorage ------------------------------
(* The files of books in the bucket and the rows of books in the database:    *)
(* uploads by editors, files that an operator drops into the bucket and the   *)
(* scanner discovers, and deletions. File and row cannot be written together, *)
(* so each handler is a sequence of steps that may end at any of them.        *)
EXTENDS Naturals, FiniteSets

CONSTANTS
  Content,     \* contents of PDF files: a content is known by its hash
  FileName,    \* names of files an operator or an editor gives
  Absent,      \* no file, no name
  Uploader,    \* requests that upload
  MaxIds,      \* ids of books, drawn at random and never twice
  MaxDrops,    \* files dropped into the bucket
  MaxSFaults   \* crashes and errors of the storage

ASSUME StorageAssumption ==
  /\ MaxIds \in Nat /\ MaxDrops \in Nat /\ MaxSFaults \in Nat
  /\ Absent \notin Content \cup FileName \cup Nat /\ FileName \cap Nat = {}

VARIABLES
  stored,    \* uploads/ in the bucket: the content at each path
  shelf,     \* rows of books: hash of the content and file_name
  ids,       \* ids drawn so far
  upload,    \* a request: phase, content, name of the file, id of the book
  scan,      \* the discovery: phase, paths still to look at, path, content, id
  removal,   \* a deletion: phase, book, file_name
  wanted,    \* history: contents dropped or registered, and not deleted since
  misled,    \* history: a file was deleted that belongs to somebody else
  torn,      \* history: books whose deletion did not end
  drops, sfaults

storageVars == <<stored, shelf, ids, upload, scan, removal, wanted, misled, torn, drops, sfaults>>

BookId == 1 .. MaxIds
Path == FileName \cup BookId        \* uploads/{file_name}, uploads/{book_id}.pdf
NoRow == [hash |-> Absent, file |-> Absent]
NoUpload == [phase |-> "idle", content |-> Absent, file |-> Absent, id |-> 0]
NoScan == [phase |-> "idle", todo |-> {}, path |-> Absent, content |-> Absent, id |-> 0]
NoRemoval == [phase |-> "idle", id |-> 0, file |-> Absent]
SFault == sfaults < MaxSFaults /\ sfaults' = sfaults + 1
Draws(i) == i = ids + 1 /\ i \in BookId /\ ids' = i

(* find_by_hash; the column content_hash is unique.                           *)
FoundByHash(c) == \E b \in BookId : shelf[b].hash = c
NamedLike(p) == {b \in BookId : shelf[b].file = p}
Register(i, c, p) == [shelf EXCEPT ![i] = [hash |-> c, file |-> p]]

-----------------------------------------------------------------------------
DropsFile(c, f) ==
  /\ drops < MaxDrops /\ drops' = drops + 1
  /\ stored[f] = Absent /\ stored' = [stored EXCEPT ![f] = c]
  /\ wanted' = wanted \cup {c}
  /\ UNCHANGED <<shelf, ids, upload, scan, removal, misled, torn, sfaults>>

(* upload_pdf, upload_pdf_ocrd: an upload of a known content ends here.       *)
UploadBegins(u, c, f) ==
  /\ upload[u] = NoUpload /\ ~FoundByHash(c)
  /\ \E i \in BookId :
       /\ Draws(i)
       /\ upload' = [upload EXCEPT ![u] = [phase |-> "stores", content |-> c, file |-> f, id |-> i]]
  /\ UNCHANGED <<stored, shelf, scan, removal, wanted, misled, torn, drops, sfaults>>

UploadStores(u) ==
  /\ upload[u].phase = "stores"
  /\ stored' = [stored EXCEPT ![upload[u].id] = upload[u].content]
  /\ upload' = [upload EXCEPT ![u].phase = "commits"]
  /\ UNCHANGED <<shelf, ids, scan, removal, wanted, misled, torn, drops, sfaults>>

(* A content that was registered meanwhile violates the unique key: the       *)
(* request fails, and its file stays.                                         *)
UploadCommits(u) ==
  LET r == upload[u] IN
  /\ r.phase = "commits"
  /\ IF FoundByHash(r.content) THEN UNCHANGED <<shelf, wanted>>
     ELSE shelf' = Register(r.id, r.content, r.file) /\ wanted' = wanted \cup {r.content}
  /\ upload' = [upload EXCEPT ![u] = NoUpload]
  /\ UNCHANGED <<stored, ids, scan, removal, misled, torn, drops, sfaults>>

UploadDies(u) ==
  /\ upload[u] # NoUpload /\ SFault /\ upload' = [upload EXCEPT ![u] = NoUpload]
  /\ UNCHANGED <<stored, shelf, ids, scan, removal, wanted, misled, torn, drops>>

-----------------------------------------------------------------------------
(* run_gcs_discovery_scanner                                                  *)
ScanLists ==
  /\ scan = NoScan
  /\ scan' = [NoScan EXCEPT !.phase = "next", !.todo = {p \in Path : stored[p] # Absent}]
  /\ UNCHANGED <<stored, shelf, ids, upload, removal, wanted, misled, torn, drops, sfaults>>

Passes(p) == scan' = [NoScan EXCEPT !.phase = "next", !.todo = scan.todo \ {p}]

(* The path of a book or a name of a file that was uploaded is not looked at. *)
ScanSkips(p) ==
  /\ scan.phase = "next" /\ p \in scan.todo
  /\ Cardinality(NamedLike(p)) = 1 \/ (p \in BookId /\ shelf[p] # NoRow /\ NamedLike(p) = {})
  /\ Passes(p)
  /\ UNCHANGED <<stored, shelf, ids, upload, removal, wanted, misled, torn, drops, sfaults>>

(* find_by_filename expects at most one row: the whole scan ends.             *)
ScanRaises(p) ==
  /\ scan.phase = "next" /\ p \in scan.todo /\ Cardinality(NamedLike(p)) > 1
  /\ scan' = NoScan
  /\ UNCHANGED <<stored, shelf, ids, upload, removal, wanted, misled, torn, drops, sfaults>>

DiscoveryEnds ==
  /\ scan.phase = "next" /\ scan.todo = {} /\ scan' = NoScan
  /\ UNCHANGED <<stored, shelf, ids, upload, removal, wanted, misled, torn, drops, sfaults>>

(* A file that has gone since it was listed raises, and is passed over.       *)
ScanDownloads(p) ==
  /\ scan.phase = "next" /\ p \in scan.todo /\ NamedLike(p) = {}
  /\ p \in BookId => shelf[p] = NoRow
  /\ IF stored[p] = Absent THEN Passes(p)
     ELSE scan' = [scan EXCEPT !.phase = "hash", !.path = p, !.content = stored[p]]
  /\ UNCHANGED <<stored, shelf, ids, upload, removal, wanted, misled, torn, drops, sfaults>>

(* The order in which a file is moved. Fault: deleted before it is stored.    *)
DeletesFirst(phase) ==
  [hash |-> "deletes", deletes |-> "stores", stores |-> "inserts"][phase]
NextPhase(phase) == [hash |-> "stores", stores |-> "deletes", deletes |-> "inserts"][phase]

ScanKnows ==
  /\ scan.phase = "hash"
  /\ IF FoundByHash(scan.content) THEN Passes(scan.path) /\ UNCHANGED ids
     ELSE \E i \in BookId : Draws(i) /\ scan' = [scan EXCEPT !.phase = NextPhase("hash"), !.id = i]
  /\ UNCHANGED <<stored, shelf, upload, removal, wanted, misled, torn, drops, sfaults>>

ScanStores ==
  /\ scan.phase = "stores"
  /\ \/ /\ stored' = [stored EXCEPT ![scan.id] = scan.content] /\ UNCHANGED sfaults
        /\ scan' = [scan EXCEPT !.phase = NextPhase("stores")]
     \/ SFault /\ Passes(scan.path) /\ UNCHANGED stored
  /\ UNCHANGED <<shelf, ids, upload, removal, wanted, misled, torn, drops>>

(* The original goes, or stays when that fails. It may be the file of an      *)
(* upload whose row was not committed when the scanner looked, or a file that *)
(* was dropped under its name since.                                          *)
IsSomebodys(p) ==
  p \in BookId /\ (shelf[p] # NoRow \/ \E u \in Uploader : upload[u].id = p)
ScanDeletes ==
  /\ scan.phase = "deletes"
  /\ \/ stored' = [stored EXCEPT ![scan.path] = Absent] /\ UNCHANGED sfaults
     \/ SFault /\ UNCHANGED stored
  /\ scan' = [scan EXCEPT !.phase = NextPhase("deletes")]
  /\ misled' = (misled \/ IsSomebodys(scan.path) \/ stored[scan.path] \in wanted \ {scan.content})
  /\ UNCHANGED <<shelf, ids, upload, removal, wanted, torn, drops>>

ScanInserts ==
  /\ scan.phase = "inserts"
  /\ IF FoundByHash(scan.content) THEN UNCHANGED <<shelf, wanted>>
     ELSE /\ shelf' = Register(scan.id, scan.content, scan.path)
          /\ wanted' = wanted \cup {scan.content}
  /\ Passes(scan.path)
  /\ UNCHANGED <<stored, ids, upload, removal, misled, torn, drops, sfaults>>

ScanDies ==
  /\ scan # NoScan /\ SFault /\ scan' = NoScan
  /\ UNCHANGED <<stored, shelf, ids, upload, removal, wanted, misled, torn, drops>>

-----------------------------------------------------------------------------
(* delete_book: the files go first, and an error there is only logged.        *)
DeleteBegins(b) ==
  /\ removal = NoRemoval /\ shelf[b] # NoRow
  /\ removal' = [phase |-> "file", id |-> b, file |-> shelf[b].file]
  /\ wanted' = wanted \ {shelf[b].hash}
  /\ UNCHANGED <<stored, shelf, ids, upload, scan, misled, torn, drops, sfaults>>

DeletesFile ==
  /\ removal.phase = "file"
  /\ \/ /\ stored' = [stored EXCEPT ![removal.id] = Absent] /\ UNCHANGED sfaults
        /\ removal' = [removal EXCEPT !.phase = "original"]
     \/ SFault /\ UNCHANGED stored /\ removal' = [removal EXCEPT !.phase = "row"]
  /\ UNCHANGED <<shelf, ids, upload, scan, wanted, misled, torn, drops>>

(* uploads/{file_name} may have been dropped since by somebody else.          *)
DeletesOriginal ==
  /\ removal.phase = "original"
  /\ \/ /\ stored' = [stored EXCEPT ![removal.file] = Absent] /\ UNCHANGED sfaults
        /\ misled' = (misled \/ stored[removal.file] \in wanted)
     \/ SFault /\ UNCHANGED <<stored, misled>>
  /\ removal' = [removal EXCEPT !.phase = "row"]
  /\ UNCHANGED <<shelf, ids, upload, scan, wanted, torn, drops>>

DeletesRow ==
  /\ removal.phase = "row"
  /\ shelf' = [shelf EXCEPT ![removal.id] = NoRow] /\ removal' = NoRemoval
  /\ UNCHANGED <<stored, ids, upload, scan, wanted, misled, torn, drops, sfaults>>

DeleteDies ==
  /\ removal # NoRemoval /\ SFault
  /\ removal' = NoRemoval /\ torn' = torn \cup {removal.id}
  /\ UNCHANGED <<stored, shelf, ids, upload, scan, wanted, misled, drops>>

-----------------------------------------------------------------------------
StorageInit ==
  /\ stored = [p \in Path |-> Absent] /\ shelf = [b \in BookId |-> NoRow] /\ ids = 0
  /\ upload = [u \in Uploader |-> NoUpload] /\ scan = NoScan /\ removal = NoRemoval
  /\ wanted = {} /\ misled = FALSE /\ torn = {} /\ drops = 0 /\ sfaults = 0

StorageNext ==
  \/ \E c \in Content, f \in FileName : DropsFile(c, f) \/ \E u \in Uploader : UploadBegins(u, c, f)
  \/ \E u \in Uploader : UploadStores(u) \/ UploadCommits(u) \/ UploadDies(u)
  \/ ScanLists \/ ScanKnows \/ ScanStores \/ ScanDeletes \/ ScanInserts \/ ScanDies \/ DiscoveryEnds
  \/ \E p \in Path : ScanSkips(p) \/ ScanRaises(p) \/ ScanDownloads(p)
  \/ \E b \in BookId : DeleteBegins(b)
  \/ DeletesFile \/ DeletesOriginal \/ DeletesRow \/ DeleteDies
StorageSpec == StorageInit /\ [][StorageNext]_storageVars

-----------------------------------------------------------------------------
(* A book on the shelf has its file: the OCR job will download it.            *)
BookHasItsFile ==
  \A b \in BookId : shelf[b] # NoRow /\ removal.id # b /\ b \notin torn => stored[b] = shelf[b].hash

(* What was given to the library stays in the bucket until its book is        *)
(* deleted, wherever an upload, the discovery or a deletion is cut off.       *)
GivenIsStored == \A c \in wanted : \E p \in Path : stored[p] = c

(* Neither uploads, discovery nor deletions lose a book of somebody else.     *)
(* Exempt are the three races the code has: the scanner takes the file of an  *)
(* upload that is not committed, and the scanner or a deletion takes a file   *)
(* dropped under the name of an earlier one.                                  *)
ContentIsKept == ~misled => BookHasItsFile /\ GivenIsStored
=============================================================================
