---------------------------- MODULE MCPresentacion ----------------------------
(***************************************************************************)
(* Instances of Presentacion for TLC.                                      *)
(***************************************************************************)
EXTENDS Presentacion, TLC

\* People and handlers are interchangeable: used only where no liveness is checked.
Symmetric == Permutations(Personas) \cup Permutations(Requests)
=============================================================================
