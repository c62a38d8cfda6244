------------------------------- MODULE MCHitos -------------------------------
(* Hitos with two rows, two months, one slow session and any others at once. *)
EXTENDS Hitos, TLC
Simetria == Permutations(Ids) \cup Permutations(Periodos) \cup Permutations(Evidencias)
=============================================================================
