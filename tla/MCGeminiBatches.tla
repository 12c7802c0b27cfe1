-------------------------- MODULE MCGeminiBatches --------------------------
(* Instances of GeminiBatches for TLC.                                       *)
EXTENDS GeminiBatches
CONSTANTS p1, k1, k2, s1, w1, w2
============================================================================
