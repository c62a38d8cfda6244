--------------------------- MODULE MCAlertasPlazo ---------------------------
(* A two-day term, for its runs to be short, and the scales of              *)
(* semaforo_config.py.  Calendars: every Sunday, on any day of the week,    *)
(* and up to three holidays in a row.                                       *)
EXTENDS AlertasPlazo
MCEscala == 2 :> [verde |-> 1, amarillo |-> 1] @@ 3 :> [verde |-> 1, amarillo |-> 2]
            @@ 4 :> [verde |-> 2, amarillo |-> 3] @@ 8 :> [verde |-> 5, amarillo |-> 7]
MCExtra == [verde |-> {}, amarillo |-> {}, rojo |-> {}]
MCCalendarios ==
    {{d \in 1..21 : d % 7 = domingo} \cup festivos :
       domingo \in 0..6, festivos \in {{}} \cup {d..d + n : d \in 1..14, n \in 0..2}}
=============================================================================
