--------------------------- MODULE PageOwnership ---------------------------
(* What the page locks promise, whatever crashes: workers take items, one    *)
(* step of one page each, that no other worker holds; the outcome of an item *)
(* is recorded by the worker that holds it, once for each time it was taken; *)
(* anybody may open an item again.                                           *)
CONSTANTS Worker, Item
VARIABLES held, outcome

ownershipVars == <<held, outcome>>
Outcome == {"open", "succeeded", "failed"}

Free(x) == \A w \in Worker : x \notin held[w]

(* Beyond the items of X, outcomes are kept or forgotten.                    *)
Records(X) ==
  /\ outcome' \in [Item -> Outcome]
  /\ \A x \in Item \ X : outcome'[x] \in {outcome[x], "open"}

Take(w) ==
  /\ held[w] = {}
  /\ \E X \in (SUBSET Item) \ {{}} : /\ held' = [held EXCEPT ![w] = X]
                                     /\ \A x \in X : Free(x)
  /\ UNCHANGED outcome

Settle(w) ==
  \E X \in (SUBSET held[w]) \ {{}} : /\ held' = [held EXCEPT ![w] = @ \ X]
                                     /\ Records(X) /\ \A x \in X : outcome'[x] # "open"

Drop(W) ==
  /\ held' = [w \in Worker |-> IF w \in W THEN {} ELSE held[w]]
  /\ UNCHANGED outcome

Reopen == UNCHANGED held /\ Records({})

-----------------------------------------------------------------------------
Init ==
  /\ held = [w \in Worker |-> {}]
  /\ outcome \in [Item -> {"open", "succeeded"}]

Next ==
  \/ Reopen
  \/ \E w \in Worker : Settle(w) \/ Take(w)
  \/ \E W \in SUBSET Worker : Drop(W)

Spec == Init /\ [][Next]_ownershipVars
=============================================================================
