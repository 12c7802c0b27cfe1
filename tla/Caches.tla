-------------------------------- MODULE Caches --------------------------------
(* What readers get from the caches of the backend: the list of books, cached  *)
(* under a version that is counted up, and single rows, which are dropped or    *)
(* left to expire. The two share no state.                                      *)
EXTENDS ListCache, CachedReads

(* What readers get from the caches is never older than what is promised: of    *)
(* the list of books, and of a cached row.                                      *)
CachesAreFresh == ListShowsChange /\ OldRowDies
===============================================================================
