---------------------------- MODULE MCDetailBatch ----------------------------
(***************************************************************************)
(* Instances of DetailBatch for TLC.                                       *)
(***************************************************************************)
EXTENDS DetailBatch, TLC

\* Cases are interchangeable: used only where no liveness is checked.
Symmetric == Permutations(Cases)
=============================================================================
