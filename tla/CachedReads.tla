------------------------------ MODULE CachedReads ------------------------------
(* Rows that are read through a cache with a time to live: the profile of a    *)
(* user, in Redis and in the memory of every backend process; a setting; and   *)
(* the details of a book. What a change does to the copies differs, and a read *)
(* that has begun before it may store the old row after it. Stands for one row *)
(* and one change at a time; a request ends within a tick of the clock.        *)
EXTENDS Integers

CONSTANTS
  Process,      \* backend processes
  CRequest,     \* reads of the row
  Ttl,          \* cache_ttl_user_profile and the like, in ticks
  MaxTicks,     \* ticks that are counted after a change
  MaxWrites,    \* changes of the row
  MaxKFaults    \* deletions and messages that get lost

ASSUME CachedAssumption ==
  Ttl \in Nat \ {0} /\ MaxTicks \in Nat /\ MaxWrites \in Nat /\ MaxKFaults \in Nat

VARIABLES
  kind,         \* "profile", "setting" or "book"
  row,          \* the committed row, as the number of its changes
  shared,       \* the entry in Redis: {} or {<<row, ticks left>>}
  local,        \* user_lru_cache of a process, likewise
  news,         \* processes a published invalidation has not reached yet
  fetch,        \* a read: its phase, process and the row it has
  write,        \* where the change is
  since,        \* ticks since a change was acknowledged
  kfaults

readVars == <<kind, row, shared, local, news, fetch, write, since, kfaults>>

KFault == kfaults < MaxKFaults /\ kfaults' = kfaults + 1
Fetches(r, ph) == fetch[r].phase = ph
Idling == [phase |-> "idle", process |-> "none", row |-> 0]
Finished(r) == fetch' = [fetch EXCEPT ![r] = Idling]
NotInMemory(r) == kind = "profile" => local[fetch[r].process] = {}
Aged(E) == {<<e[1], e[2] - 1>> : e \in {d \in E : d[2] > 1}}

-----------------------------------------------------------------------------
(* get_current_user_optional, SystemConfigsRepository.get_value, get_book     *)
AsksRow(r, s) ==
  /\ fetch[r] = Idling
  /\ fetch' = [fetch EXCEPT ![r] = [phase |-> "asks", process |-> s, row |-> 0]]
  /\ UNCHANGED <<kind, row, shared, local, news, write, since, kfaults>>

(* An entry is as old as its set: a hit does not renew it.                    *)
(* Fault: it does.                                                            *)
Renewed(E) == {<<e[1], Ttl>> : e \in E}
LeftAsIs(E) == E
HitsLocal(r) ==
  /\ Fetches(r, "asks") /\ kind = "profile" /\ local[fetch[r].process] # {} /\ Finished(r)
  /\ local' = [local EXCEPT ![fetch[r].process] = LeftAsIs(@)]
  /\ UNCHANGED <<kind, row, shared, news, write, since, kfaults>>

HitsShared(r) ==
  /\ Fetches(r, "asks") /\ NotInMemory(r)
  /\ \E e \in shared :
       IF kind = "profile"
       THEN fetch' = [fetch EXCEPT ![r].phase = "keeps", ![r].row = e[1]]
       ELSE Finished(r)
  /\ UNCHANGED <<kind, row, shared, local, news, write, since, kfaults>>

(* An error of the cache is a miss.                                           *)
ReadsRow(r) ==
  /\ Fetches(r, "asks") /\ NotInMemory(r)
  /\ IF shared = {} THEN UNCHANGED kfaults ELSE KFault
  /\ fetch' = [fetch EXCEPT ![r].phase = "shares", ![r].row = row]
  /\ UNCHANGED <<kind, row, shared, local, news, write, since>>

SharesRow(r) ==
  /\ Fetches(r, "shares")
  /\ \/ shared' = {<<fetch[r].row, Ttl>>} /\ UNCHANGED kfaults
     \/ KFault /\ UNCHANGED shared
  /\ IF kind = "profile" THEN fetch' = [fetch EXCEPT ![r].phase = "keeps"] ELSE Finished(r)
  /\ UNCHANGED <<kind, row, local, news, write, since>>

KeepsRow(r) ==
  /\ Fetches(r, "keeps") /\ Finished(r)
  /\ local' = [local EXCEPT ![fetch[r].process] = {<<fetch[r].row, Ttl>>}]
  /\ UNCHANGED <<kind, row, shared, news, write, since, kfaults>>

-----------------------------------------------------------------------------
(* Changes                                                                   *)
(* A profile is dropped from the caches before the change is committed, and   *)
(* from Redis once more after it; a setting after it.                         *)
StartsWrite ==
  /\ write = "none" /\ row < MaxWrites
  /\ write' = IF kind = "profile" THEN "drops" ELSE "commits"
  /\ UNCHANGED <<kind, row, shared, local, news, fetch, since, kfaults>>

Drops(to) ==
  /\ write' = to
  /\ \/ shared' = {} /\ UNCHANGED kfaults
     \/ KFault /\ UNCHANGED shared
DropsEarly ==
  /\ write = "drops" /\ Drops("publishes")
  /\ UNCHANGED <<kind, row, local, news, fetch, since>>

(* A process that is not connected to Redis misses the message.               *)
Publishes ==
  /\ write = "publishes" /\ write' = "commits"
  /\ \/ news' = Process /\ UNCHANGED kfaults
     \/ KFault /\ \E P \in SUBSET Process : P # Process /\ news' = P
  /\ UNCHANGED <<kind, row, shared, local, fetch, since>>

HearsNews(s) ==
  /\ s \in news /\ news' = news \ {s} /\ local' = [local EXCEPT ![s] = {}]
  /\ UNCHANGED <<kind, row, shared, fetch, write, since, kfaults>>

CommitsRow ==
  /\ write = "commits" /\ row' = row + 1 /\ write' = "dropped after"
  /\ UNCHANGED <<kind, shared, local, news, fetch, since, kfaults>>

(* The entry of a book is book:<id>:<scope>; what is deleted is book:<id>.    *)
DropsLate ==
  /\ write = "dropped after" /\ since' = 0
  /\ IF kind = "book" THEN write' = "none" /\ UNCHANGED <<shared, kfaults>>
     ELSE Drops("none")
  /\ UNCHANGED <<kind, row, local, news, fetch>>

(* DELETE of all keys of books, and of all profiles in memory.                *)
OperatorDrops ==
  /\ KFault /\ shared' = IF kind = "book" THEN {} ELSE shared
  /\ news' = Process
  /\ UNCHANGED <<kind, row, local, fetch, write, since>>

-----------------------------------------------------------------------------
Tick ==
  /\ \A r \in CRequest : fetch[r] = Idling
  /\ write = "none" /\ news = {}
  /\ shared' = Aged(shared) /\ local' = [s \in Process |-> Aged(local[s])]
  /\ since' = IF since < MaxTicks THEN since + 1 ELSE since
  /\ UNCHANGED <<kind, row, news, fetch, write, kfaults>>

ReadInit ==
  /\ kind \in {"profile", "setting", "book"} /\ row = 0
  /\ shared = {} /\ local = [s \in Process |-> {}] /\ news = {}
  /\ fetch = [r \in CRequest |-> Idling] /\ write = "none" /\ since = 0 /\ kfaults = 0

ReadNext ==
  \/ \E r \in CRequest : \/ HitsLocal(r) \/ HitsShared(r) \/ ReadsRow(r) \/ SharesRow(r)
                         \/ KeepsRow(r) \/ \E s \in Process : AsksRow(r, s)
  \/ StartsWrite \/ DropsEarly \/ Publishes \/ CommitsRow \/ DropsLate \/ OperatorDrops
  \/ Tick \/ \E s \in Process : HearsNews(s)
ReadSpec == ReadInit /\ [][ReadNext]_readVars

-----------------------------------------------------------------------------
(* A change takes effect everywhere in bounded time, whatever message or       *)
(* deletion is lost and whichever read stores an old row after it: for a       *)
(* setting and a book within the time to live of the entry, for a profile      *)
(* within twice that time, as a process copies an entry of Redis just before   *)
(* it expires and keeps it as long again. (dependencies.py:25 names the time   *)
(* itself.)                                                                    *)
Lifetime == IF kind = "profile" THEN 2 * Ttl - 1 ELSE Ttl
OldRowDies ==
  write = "none" /\ since >= Lifetime =>
    \A e \in shared \cup UNION {local[s] : s \in Process} : e[1] = row
=============================================================================
