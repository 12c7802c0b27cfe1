------------------------------- MODULE ListCache -------------------------------
(* The list of books, and that of categories: cached in Redis under a version  *)
(* of their namespace, which a request that changes books counts up after its   *)
(* commit. Nothing is deleted: a list read from the table before the change is  *)
(* stored under the version before. Stands for one list and one namespace.      *)
EXTENDS Integers

CONSTANTS
  Asker,        \* requests for the list
  Editor,        \* requests that change books
  MaxEditions,   \* changes of books
  MaxVFaults     \* calls of Redis that fail, or that the breaker refuses

ASSUME ListAssumption == MaxEditions \in Nat /\ MaxVFaults \in Nat

VARIABLES
  table,         \* the table books, as the number of its changes
  version,       \* version:books:list in Redis, {} without the key
  listed,        \* books:list:<version>:<hash>: the table of each cached list
  reading,       \* phase, version and table of a request, and the floor: what
                 \* had been acknowledged when it began
  changing,      \* the table an editor has committed; 0 when he is idle
  acknowledged,  \* the newest table whose editor has got his answer
  lapsed,        \* history: a version was skipped, set back or not read
  vfaults

listVars == <<table, version, listed, reading, changing, acknowledged, lapsed, vfaults>>

VFault == vfaults < MaxVFaults /\ vfaults' = vfaults + 1
Reads(r, ph) == reading[r].phase = ph
MovesTo(r, ph) == reading' = [reading EXCEPT ![r].phase = ph]
Answers(r, e) ==
  reading' = [reading EXCEPT ![r].phase = "answered", ![r].version = 0, ![r].table = e]
Without(f, k) == [x \in DOMAIN f \ {k} |-> f[x]]
Counted(V) == IF V = {} THEN {1} ELSE {n + 1 : n \in V}

-----------------------------------------------------------------------------
(* get_books, get_top_categories                                             *)
AsksList(r) ==
  /\ reading[r].phase \in {"idle", "answered"}
  /\ reading' = [reading EXCEPT ![r] = [phase |-> "asks", version |-> 0, table |-> 0,
                                        floor |-> acknowledged]]
  /\ UNCHANGED <<table, version, listed, changing, acknowledged, lapsed, vfaults>>

ReadsVersion(r) ==
  /\ Reads(r, "asks")
  /\ \/ version = {} /\ MovesTo(r, "sets")
     \/ \E v \in version :
          reading' = [reading EXCEPT ![r].phase = "looks", ![r].version = v]
  /\ UNCHANGED <<table, version, listed, changing, acknowledged, lapsed, vfaults>>

(* A missing version is set by a second call.                                *)
SetsVersion(r) ==
  /\ Reads(r, "sets") /\ version' = {1}
  /\ lapsed' = (lapsed \/ version \notin {{}, {1}})
  /\ reading' = [reading EXCEPT ![r].phase = "looks", ![r].version = 1]
  /\ UNCHANGED <<table, listed, changing, acknowledged, vfaults>>

(* After an error the request goes on with version 1.                        *)
MissesVersion(r) ==
  /\ Reads(r, "asks") \/ Reads(r, "sets")
  /\ VFault /\ lapsed' = TRUE
  /\ reading' = [reading EXCEPT ![r].phase = "looks", ![r].version = 1]
  /\ UNCHANGED <<table, version, listed, changing, acknowledged>>

FindsList(r) ==
  /\ Reads(r, "looks") /\ reading[r].version \in DOMAIN listed
  /\ Answers(r, listed[reading[r].version])
  /\ UNCHANGED <<table, version, listed, changing, acknowledged, lapsed, vfaults>>

(* So do administrators who skip the cache.                                  *)
FindsNoList(r) ==
  /\ Reads(r, "looks") /\ MovesTo(r, "queries")
  /\ IF reading[r].version \in DOMAIN listed THEN VFault ELSE UNCHANGED vfaults
  /\ UNCHANGED <<table, version, listed, changing, acknowledged, lapsed>>

QueriesBooks(r) ==
  /\ Reads(r, "queries")
  /\ reading' = [reading EXCEPT ![r].phase = "stores", ![r].table = table]
  /\ UNCHANGED <<table, version, listed, changing, acknowledged, lapsed, vfaults>>

(* Fault: the version of the key is that of the moment the list is stored.   *)
KeyAtStore(r) == IF version = {} THEN 1 ELSE CHOOSE v \in version : TRUE
ListKey(r) == reading[r].version
StoresList(r) ==
  /\ Reads(r, "stores") /\ Answers(r, reading[r].table)
  /\ \/ /\ listed' = [k \in DOMAIN listed \cup {ListKey(r)} |->
                        IF k = ListKey(r) THEN reading[r].table ELSE listed[k]]
        /\ UNCHANGED vfaults
     \/ VFault /\ UNCHANGED listed
  /\ UNCHANGED <<table, version, changing, acknowledged, lapsed>>

-----------------------------------------------------------------------------
(* upload_pdf, upload_pdf_ocrd, create_book, update_book_details, delete_book *)
ChangesBooks(x) ==
  /\ changing[x] = 0 /\ table < MaxEditions /\ table' = table + 1
  /\ changing' = [changing EXCEPT ![x] = table']
  /\ UNCHANGED <<version, listed, reading, acknowledged, lapsed, vfaults>>

(* A bump that fails, or that the breaker refuses, is only logged.           *)
BumpsVersion(x) ==
  /\ changing[x] # 0
  /\ \/ version' = Counted(version) /\ UNCHANGED <<lapsed, vfaults>>
     \/ VFault /\ lapsed' = TRUE /\ UNCHANGED version
  /\ acknowledged' = IF changing[x] > acknowledged THEN changing[x] ELSE acknowledged
  /\ changing' = [changing EXCEPT ![x] = 0]
  /\ UNCHANGED <<table, listed, reading>>

(* The backend stops after the commit: nobody is told of the change.         *)
ChangeDies(x) ==
  /\ changing[x] # 0 /\ changing' = [changing EXCEPT ![x] = 0] /\ VFault
  /\ UNCHANGED <<table, version, listed, reading, acknowledged, lapsed>>

(* The reprocess endpoints, the worker, and a change of other fields than the *)
(* categories for the list of these: nothing is counted.                      *)
ChangesQuietly ==
  /\ table < MaxEditions /\ table' = table + 1
  /\ UNCHANGED <<version, listed, reading, changing, acknowledged, lapsed, vfaults>>

OperatorInvalidates ==
  /\ version' = Counted(version) /\ listed' = [k \in {} |-> 0] /\ VFault
  /\ UNCHANGED <<table, reading, changing, acknowledged, lapsed>>

ListExpires(v) ==
  /\ v \in DOMAIN listed /\ listed' = Without(listed, v)
  /\ UNCHANGED <<table, version, reading, changing, acknowledged, lapsed, vfaults>>

VersionIsLost ==
  /\ version # {} /\ version' = {} /\ lapsed' = TRUE /\ VFault
  /\ UNCHANGED <<table, listed, reading, changing, acknowledged>>

-----------------------------------------------------------------------------
ListInit ==
  /\ table = 0 /\ version = {} /\ listed = [k \in {} |-> 0]
  /\ reading = [r \in Asker |-> [phase |-> "idle", version |-> 0, table |-> 0, floor |-> 0]]
  /\ changing = [x \in Editor |-> 0] /\ acknowledged = 0 /\ lapsed = FALSE /\ vfaults = 0

ListNext ==
  \/ \E r \in Asker : \/ AsksList(r) \/ ReadsVersion(r) \/ SetsVersion(r) \/ MissesVersion(r)
                       \/ FindsList(r) \/ FindsNoList(r) \/ QueriesBooks(r) \/ StoresList(r)
  \/ \E x \in Editor : ChangesBooks(x) \/ BumpsVersion(x) \/ ChangeDies(x)
  \/ \E v \in DOMAIN listed : ListExpires(v)
  \/ ChangesQuietly \/ OperatorInvalidates \/ VersionIsLost
ListSpec == ListInit /\ [][ListNext]_listVars

-----------------------------------------------------------------------------
(* Who has been told that his change is saved finds it in the list: a request  *)
(* that begins after the answer to a change never shows an older list, however *)
(* many lists of older tables are still being read and stored, and although    *)
(* nothing is ever deleted. Exempt is a version that was not counted or read,  *)
(* or set back to 1 by the two calls of get_namespace_version: an old list is  *)
(* then shown until it expires (cache_service.py:148-161).                     *)
ListShowsChange ==
  \A r \in Asker : Reads(r, "answered") /\ ~lapsed => reading[r].table >= reading[r].floor
=============================================================================
