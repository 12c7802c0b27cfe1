--------------------------- MODULE MCPageContent ---------------------------
(* Instances of PageContent for TLC.                                         *)
EXTENDS PageContent

CONSTANTS b1, p1, j1, j2

OnePage == [p \in {p1} |-> b1]
===========================================================================
