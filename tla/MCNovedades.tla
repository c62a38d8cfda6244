---------------------------- MODULE MCNovedades ----------------------------
(* Two movements of one folio and day in different cuadernos, and a later one. *)
EXTENDS Novedades, TLC
MCMovs == {[folio |-> 1, dia |-> 1, cuaderno |-> 1], [folio |-> 1, dia |-> 1, cuaderno |-> 2],
           [folio |-> 2, dia |-> 2, cuaderno |-> 1]}
Simetria == Permutations(Ids)
=============================================================================
