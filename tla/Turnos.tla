-------------------------------- MODULE Turnos --------------------------------
(***************************************************************************)
(* A turn-taking order, as the queries that sort by a date see it: who     *)
(* waited most comes first, and a turn sets the date to now.  The cases of *)
(* the rotation take theirs by last_detail_checked_at, the lawyers of a    *)
(* cycle by their last completed run.                                      *)
(***************************************************************************)
EXTENDS Naturals, Sequences, SequencesExt

\* l has just had its turn: everybody else keeps its place.
ToBack(s, l) ==
    LET i == CHOOSE j \in DOMAIN s : s[j] = l
    IN  Append(RemoveAt(s, i), l)
=============================================================================
