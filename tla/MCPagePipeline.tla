-------------------------- MODULE MCPagePipeline --------------------------
(* Instances of PagePipeline for TLC.                                        *)
EXTENDS PipelineOwnership, TLC

CONSTANTS b1, p1, p2, j1, j2

OneBook == [p \in {p1, p2} |-> b1]
OnePage == [p \in {p1} |-> b1]

JobSymmetry == Permutations(JobId)
Symmetry == JobSymmetry \cup Permutations(Page)
===========================================================================
