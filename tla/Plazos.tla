------------------------------- MODULE Plazos -------------------------------
(***************************************************************************)
(* The procedural deadlines (plazos) of one civil case of the firm and its *)
(* semaforo: services/deadline_engine.py with the classifier and the       *)
(* verdicts it calls, the auditor's marks and manual plazos of             *)
(* api/v1/deadlines.py and the releases of api/v1/liberaciones.py.         *)
(*                                                                         *)
(* The recomputation derives every row from the evidence on file, which    *)
(* arrives late and in any order.  It runs inside the transaction of a     *)
(* sync: what it loaded and what it changes is a unit of work, committed   *)
(* later (Lee, Commit); meanwhile another sync, the auditor or a release   *)
(* may commit.  Days are business days: AlertasPlazo has the calendar.      *)
(***************************************************************************)
EXTENDS Naturals, FiniteSets, FiniteSetsExt

CONSTANTS
    Lados,        \* sides the firm may be on
    Clases,       \* kinds of movement PJUD publishes in this case
    MaxDia,       \* last day (bound)
    MaxMovs,      \* movements in the docket (bound)
    MaxEscritos,  \* escritos of the defence on file (bound)
    DiasSolape,   \* days on which a sync may be overlapped by others (bound)
    Destinos,     \* colours a release may ask for
    Actos,        \* manual requests of the auditor and releases allowed (bound)
    Termino,      \* [Tipos -> business days of the plazo]
    Margen,       \* days of tolerance for a late publication
    MaxRequerimiento, \* days after the notice in which a requerimiento counts
    RojoMax, AmarilloMax, \* days left up to which the colour is rojo, amarillo
    Null

VARIABLES
    lado,      \* the firm's side in the case
    hoy,       \* today
    movs,      \* the docket as stored: records [clase, dia]
    escritos,  \* days the defence filed "opone excepciones", as stored
    plazos,    \* [Claves -> a row or Null]
    caso,      \* columns of the case
    pedido,    \* colour of the pending release, or Null
    tx,        \* unit of work of the sync in progress, or Null
    despues,   \* what others changed since that sync read
    actos      \* manual requests so far

evidencia == <<lado, hoy, movs, escritos>>
vars == <<lado, hoy, movs, escritos, plazos, caso, pedido, tx, despues, actos>>

Dias == 0..MaxDia
Tipos == {"excepciones", "traslado"}
Claves == Tipos \X Dias
Colores == {"gris", "rojo", "amarillo", "verde"}

Veredictos == {"no_cumplido", "fuera_de_plazo", "registro_tardio", "cumplido"}
Row == [due : Nat, status : {"active", "superseded", "expired", "cumplido", "no_cumplido"},
        manual : BOOLEAN, marcada : BOOLEAN, verdict : Veredictos \cup {Null}]

Columnas == {"semaforo", "override", "override_at", "fatal_incumplido"}

ASSUME NullAssumption ==
    Null \notin Nat /\ Null \notin Row /\ Null \notin Colores /\ Null \notin Veredictos
ASSUME PlazosAssumption == Termino \in [Tipos -> Nat] /\ Margen \in Nat /\ RojoMax \in Nat
ASSUME RequerimientoAssumption == MaxRequerimiento \in Nat
ASSUME DestinosAssumption == Destinos \subseteq Colores

-----------------------------------------------------------------------------
(* Evidence *)

(* Both sides have the plazos of the prueba too, left out; these are the    *)
(* ones only one side must meet.                                            *)
Accionables == IF lado = "demandante" THEN {"traslado"} ELSE {"excepciones"}

DiasDe(clases) == {m.dia : m \in {n \in movs : n.clase \in clases}}

(* The classifier only goes forward, so the state is the furthest one any   *)
(* movement reaches, and its plazo starts with the first that reached it.   *)
Avances == [notificacion |-> 2, opone |-> 3, contestacion |-> 4, terminada |-> 9]
Alcance(clase) == IF clase \in DOMAIN Avances THEN Avances[clase] ELSE 0
Etapa == Max({Alcance(m.clase) : m \in movs} \cup {0})
Origen == [excepciones |-> "notificacion", traslado |-> "contestacion"]
Disparo(t) == IF Etapa = Avances[Origen[t]] THEN Min(DiasDe({Origen[t]})) ELSE Null

(* Excepciones run from the first requerimiento de pago after the notice,   *)
(* if it came soon enough.                                                  *)
Requerido(d) == LET r == DiasDe({"requerimiento"}) \cap (d .. d + MaxRequerimiento)
                IN IF r = {} THEN d ELSE Min(r)
Vence(k) == (IF k[1] = "excepciones" THEN Requerido(k[2]) ELSE k[2]) + Termino[k[1]]
VenceHoy(k, r) == IF r.manual THEN r.due ELSE Vence(k)

(* An opposition is shown by the party's filing or by a ruling on it; the   *)
(* verdict only takes the filing.                                           *)
Oposiciones == DiasDe({"opone", "resuelve_oposicion"})
HayDefensa == escritos # {} \/ Oposiciones # {}
Pruebas(k) == (IF escritos = {} THEN {} ELSE {Min(escritos)}) \cup {d \in Oposiciones : d >= k[2]}
ATiempo(k) == Pruebas(k) # {} /\ Min(Pruebas(k)) <= Vence(k)

Rango == [no_cumplido |-> 0, fuera_de_plazo |-> 2, registro_tardio |-> 3, cumplido |-> 4]
Mejor(v, w) == IF v = Null THEN w ELSE IF w = Null THEN v
               ELSE IF Rango[w] > Rango[v] THEN w ELSE v

PorMovimientos(due) ==
    LET d == Min(DiasDe({"opone"}))
    IN IF DiasDe({"opone"}) = {} THEN IF due < hoy THEN "no_cumplido" ELSE Null
       ELSE IF d <= due THEN "cumplido"
       ELSE IF d <= due + Margen THEN "registro_tardio" ELSE "fuera_de_plazo"

PorEscritos(k, due) ==
    LET d == {e \in escritos : e >= k[2]}
    IN IF d = {} THEN Null ELSE IF Min(d) <= due THEN "cumplido" ELSE "fuera_de_plazo"

(* Only excepciones has a detector here.                                    *)
Evalua(k, r) ==
    IF k[1] # "excepciones" THEN Null
    ELSE Mejor(PorMovimientos(VenceHoy(k, r)), PorEscritos(k, VenceHoy(k, r)))

-----------------------------------------------------------------------------
(* The steps of _recompute_safe, each from a row (or Null) to the row.       *)

Auditado == {"cumplido", "no_cumplido"}
Fallos == {"no_cumplido", "fuera_de_plazo", "registro_tardio"}

SinVeredicto(r) == [r EXCEPT !.verdict = Null]
ConVeredicto(k, r) ==
    IF r.manual \/ r.status \in Auditado THEN r ELSE [r EXCEPT !.verdict = Evalua(k, r)]
\* Mutant: a state that is none of the statuses.
ReemplazaMal(r) == [r EXCEPT !.status = "replaced"]

Reemplaza(r) == [r EXCEPT !.status = "superseded"]

\* Mutant: a plazo the auditor judged is live again too.
EnCursoSinAuditor(k, r) ==
    IF Disparo(k[1]) # k[2] THEN r
    ELSE IF r = Null THEN [due |-> Vence(k), status |-> "active", manual |-> FALSE,
                           marcada |-> FALSE, verdict |-> Null]
    ELSE IF r.manual THEN r
    ELSE [r EXCEPT !.due = Vence(k), !.status = "active", !.verdict = Null]

(* Step 4: the plazo of the current state is created, or live again.        *)
EnCurso(k, r) ==
    IF Disparo(k[1]) # k[2] THEN r
    ELSE IF r = Null THEN [due |-> Vence(k), status |-> "active", manual |-> FALSE,
                           marcada |-> FALSE, verdict |-> Null]
    ELSE IF r.manual \/ r.status \in Auditado THEN r
    ELSE [r EXCEPT !.due = Vence(k), !.status = "active", !.verdict = Null]

\* Mutant: a miss that was recorded is final.
CorregibleSinFallas(k, r) ==
    /\ k[1] = "excepciones" /\ ~r.manual /\ ~r.marcada
    /\ \/ r.status = "superseded" /\ r.verdict \in Fallos
       \/ r.status = "expired" /\ lado = "demandante"

\* Mutant: an expired row is not looked at again.
VivaSinVencidas(k, r) == ~r.manual /\ r.status = "active"

(* Step 5 loads the live rows, and the closed excepciones that evidence may *)
(* still correct; a rebeldia is final but for that.                         *)
Definitiva(k, r) == r.status = "expired" /\ k[1] = "excepciones" /\ lado = "demandante"
Corregible(k, r) ==
    /\ k[1] = "excepciones" /\ ~r.manual /\ ~r.marcada
    /\ \/ r.status \in {"superseded", "no_cumplido"} /\ r.verdict \in Fallos
       \/ Definitiva(k, r)
Viva(k, r) ==
    /\ ~r.manual
    /\ r.status = "active" \/ (r.status = "expired" /\ ~r.marcada /\ ~Definitiva(k, r))

\* Mutant: a late defence closes the plazo and leaves its verdict for later.
CierraSinVeredicto(k, r) ==
    IF ATiempo(k)
    THEN [r EXCEPT !.status = IF escritos # {} THEN "cumplido" ELSE "superseded",
                   !.verdict = "cumplido"]
    ELSE IF escritos # {} THEN [r EXCEPT !.status = "no_cumplido"]
    ELSE [r EXCEPT !.status = "superseded", !.verdict = Evalua(k, r)]

(* A defence on file fulfils the demandado's plazo, or shows it was late.   *)
CierraPorDefensa(k, r) ==
    IF ATiempo(k)
    THEN [r EXCEPT !.status = IF escritos # {} THEN "cumplido" ELSE "superseded",
                   !.verdict = "cumplido"]
    ELSE IF escritos # {}
    THEN [r EXCEPT !.status = "no_cumplido", !.verdict = "fuera_de_plazo"]
    ELSE [r EXCEPT !.status = "superseded", !.verdict = Evalua(k, r)]

\* Mutant: the row of a trigger that moved stays as it is.
AvanzaSinMovidas(k, r) ==
    IF r = Null \/ ~Viva(k, r) THEN r
    ELSE IF /\ lado = "demandado" /\ k[1] = "excepciones" /\ HayDefensa
            /\ Disparo(k[1]) \in {Null, k[2]} /\ r.status = "active"
         THEN CierraPorDefensa(k, r)
    ELSE IF Disparo(k[1]) = Null THEN Reemplaza(ConVeredicto(k, r))
    ELSE r

(* Step 5: rows whose trigger is gone or has moved leave the live set.      *)
Avanza(k, r) ==
    IF r = Null \/ ~Viva(k, r) THEN r
    ELSE IF /\ lado = "demandado" /\ k[1] = "excepciones" /\ HayDefensa
            /\ Disparo(k[1]) \in {Null, k[2]} /\ r.status = "active"
         THEN CierraPorDefensa(k, r)
    ELSE IF Disparo(k[1]) = Null THEN Reemplaza(ConVeredicto(k, r))
    ELSE IF Disparo(k[1]) # k[2] THEN Reemplaza(SinVeredicto(r))
    ELSE r

(* Step 5b: an overdue plazo the procedure has left behind.                 *)
Sobrepasa(k, r) ==
    IF /\ r # Null /\ k[1] \in Accionables
       /\ ~r.manual /\ r.status = "active" /\ r.due < hoy
       /\ \E m \in movs : m.dia > r.due
    THEN Reemplaza(ConVeredicto(k, r))
    ELSE r

(* Step 6, over all rows: without an opposition the debtor is in rebeldia;  *)
(* the query takes one active row of excepciones, whichever, manual or not. *)
Rebeldia(p) ==
    LET activas == {k \in Claves : /\ k[1] = "excepciones" /\ p[k] # Null
                                   /\ p[k].status = "active"}
    IN IF lado # "demandante" \/ Etapa # 2 \/ Oposiciones # {} \/ activas = {} THEN {p}
       ELSE {IF p[k].due < hoy
             THEN [p EXCEPT ![k] = [ConVeredicto(k, p[k]) EXCEPT !.status = "expired"]]
             ELSE p : k \in activas}

(* Step 6b: an overdue plazo is judged, and closed once its term is over.   *)
TerminoVencido(k, r) == VenceHoy(k, r) + (IF k[1] = "excepciones" THEN Margen ELSE 0) < hoy
\* Mutant: a plazo whose term is over is closed as any other.
VencidoReemplaza(k, r) ==
    IF r # Null /\ r.status = "active" /\ ~r.manual /\ r.due < hoy
    THEN [ConVeredicto(k, r) EXCEPT
            !.status = IF ~r.marcada /\ TerminoVencido(k, r) THEN "superseded" ELSE "active"]
    ELSE r

Vencido(k, r) ==
    IF r # Null /\ r.status = "active" /\ ~r.manual /\ r.due < hoy
    THEN [ConVeredicto(k, r) EXCEPT
            !.status = IF ~r.marcada /\ TerminoVencido(k, r) THEN "expired" ELSE "active"]
    ELSE r

(* Step 6c: what was closed on less evidence is judged again, only upwards. *)
Rejuzga(k, r) ==
    IF r.status # "no_cumplido"
    THEN [r EXCEPT !.verdict = Mejor(@, IF ATiempo(k) THEN "cumplido" ELSE Evalua(k, r))]
    ELSE IF r.verdict # "fuera_de_plazo" THEN r
    ELSE IF ATiempo(k)
    THEN [r EXCEPT !.due = Vence(k), !.status = "cumplido", !.verdict = "cumplido"]
    ELSE [r EXCEPT !.due = Vence(k)]

Pasos4y5(k, r) ==
    IF EnCurso(k, r) # Null /\ Corregible(k, EnCurso(k, r)) THEN EnCurso(k, r)
    ELSE Sobrepasa(k, Avanza(k, EnCurso(k, r)))
Pasos6(k, r, corregible) == IF corregible THEN Rejuzga(k, r) ELSE Vencido(k, r)

Recalculos(p) ==
    LET q == [k \in Claves |-> Pasos4y5(k, p[k])]
        corregibles == {k \in Claves : p[k] # Null /\ Corregible(k, EnCurso(k, p[k]))}
    IN {[k \in Claves |-> Pasos6(k, f[k], k \in corregibles)] : f \in Rebeldia(q)}

(* Step 7: the nearest pending plazo of the firm gives the colour, or else  *)
(* a mandatory one that lapsed.                                             *)
Color(p) ==
    LET deLaFirma(s) == {k \in Claves : k[1] \in Accionables /\ p[k] # Null /\ p[k].status = s}
        proximo == Min({p[k].due : k \in deLaFirma("active")})
    IN IF Etapa \in {0, 9} THEN "gris"
       ELSE IF deLaFirma("active") # {}
       THEN IF proximo <= hoy + RojoMax THEN "rojo"
            ELSE IF proximo <= hoy + AmarilloMax THEN "amarillo" ELSE "verde"
       ELSE IF deLaFirma("expired") # {} THEN "rojo" ELSE "verde"

(* Step 8: a release holds until the court acts on a later day.             *)
ActosDelTribunal == Clases \ {"opone"}
\* Mutant: an act of the day of the release undoes it.
LiberadaHastaElDia(c) ==
    c.override # Null /\ \A d \in DiasDe(ActosDelTribunal) : d < c.override_at

Liberada(c) ==
    c.override # Null /\ \A d \in DiasDe(ActosDelTribunal) : d <= c.override_at
Columna(p, c) ==
    [semaforo |-> IF Liberada(c) THEN c.override ELSE Color(p),
     override |-> IF Liberada(c) THEN c.override ELSE Null,
     override_at |-> IF Liberada(c) THEN c.override_at ELSE Null,
     fatal_incumplido |-> \E k \in Claves : /\ k[1] \in Accionables \cap {"excepciones"}
                                            /\ p[k] # Null /\ p[k].status = "no_cumplido"]

-----------------------------------------------------------------------------
(* Sessions *)

(* The columns an UPDATE sets: those whose value the session changed.       *)
Cambios(r, s) == [c \in {d \in DOMAIN s : s[d] # r[d]} |-> s[c]]
Sobre(cambios, r) == [c \in DOMAIN r |-> IF c \in DOMAIN cambios THEN cambios[c] ELSE r[c]]

Trabajo(p) ==
    [nuevas |-> [k \in {l \in Claves : plazos[l] = Null /\ p[l] # Null} |-> p[k]],
     cambia |-> [k \in {l \in Claves : plazos[l] # Null /\ p[l] # plazos[l]} |->
                   Cambios(plazos[k], p[k])],
     caso |-> Cambios(caso, Columna(p, caso))]

Escribe(t) ==
    /\ plazos' = [k \in Claves |-> IF k \in DOMAIN t.nuevas THEN t.nuevas[k]
                                  ELSE IF k \in DOMAIN t.cambia THEN Sobre(t.cambia[k], plazos[k])
                                  ELSE plazos[k]]
    /\ caso' = Sobre(t.caso, caso)

(* What a commit means for the sync in progress (for the properties only).  *)
Caso == <<"caso", 0>>
Anota ==
    despues' = IF tx = Null THEN {}
               ELSE despues \cup {k \in Claves : plazos'[k] # plazos[k]}
                            \cup (IF caso' # caso THEN {Caso} ELSE {})

(* A recomputation of a sync in progress.                                   *)
Lee ==
    /\ hoy \in DiasSolape /\ tx = Null
    /\ \E p \in Recalculos(plazos) : tx' = Trabajo(p)
    /\ despues' = {}
    /\ UNCHANGED <<evidencia, plazos, caso, pedido, actos>>

(* (case_id, deadline_type, triggered_at) is unique.                        *)
Choca == \E k \in DOMAIN tx.nuevas : plazos[k] # Null

Commit ==
    /\ tx # Null
    /\ ~Choca
    /\ Escribe(tx)
    /\ tx' = Null
    /\ despues' = {}
    /\ UNCHANGED <<evidencia, pedido, actos>>

(* The insert clashes: the flush fails, and so does everything the session  *)
(* tries after it.                                                          *)
Aborta ==
    /\ tx # Null
    /\ Choca
    /\ tx' = Null
    /\ despues' = {}
    /\ UNCHANGED <<evidencia, plazos, caso, pedido, actos>>

(* A recomputation of another sync that nobody interrupts.                  *)
Recalcula ==
    /\ \E p \in Recalculos(plazos) : Escribe(Trabajo(p))
    /\ UNCHANGED <<evidencia, pedido, tx, actos>>
    /\ Anota

-----------------------------------------------------------------------------
(* The auditor and the oversight roles *)

update_deadline_status(k, s) ==
    /\ actos < Actos
    /\ plazos[k] # Null
    /\ plazos' = [plazos EXCEPT ![k].status = s, ![k].marcada = TRUE]
    /\ actos' = actos + 1
    /\ UNCHANGED <<evidencia, caso, pedido, tx>>
    /\ Anota

create_manual_deadline(k) ==
    /\ actos < Actos
    /\ plazos[k] = Null
    /\ plazos' = [plazos EXCEPT ![k] =
                    [due |-> k[2] + Termino[k[1]], status |-> "active", manual |-> TRUE,
                     marcada |-> FALSE, verdict |-> Null]]
    /\ actos' = actos + 1
    /\ UNCHANGED <<evidencia, caso, pedido, tx>>
    /\ Anota

(* One pending release at a time.                                           *)
crear_liberacion(c) ==
    /\ actos < Actos
    /\ pedido = Null
    /\ pedido' = c
    /\ actos' = actos + 1
    /\ UNCHANGED <<evidencia, plazos, caso, tx, despues>>

(* One sign-off applies it.                                                 *)
aprobar_liberacion ==
    /\ pedido # Null
    /\ caso' = [caso EXCEPT !.semaforo = pedido, !.override = pedido, !.override_at = hoy]
    /\ pedido' = Null
    /\ UNCHANGED <<evidencia, plazos, tx, actos>>
    /\ Anota

rechazar_liberacion ==
    /\ pedido # Null
    /\ pedido' = Null
    /\ UNCHANGED <<evidencia, plazos, caso, tx, despues, actos>>

-----------------------------------------------------------------------------
(* The environment: PJUD publishes an act on its day or later, and a sync   *)
(* ends on the day it began.                                                *)

PasaDia ==
    /\ hoy < MaxDia
    /\ tx = Null
    /\ hoy' = hoy + 1
    /\ UNCHANGED <<lado, movs, escritos, plazos, caso, pedido, tx, despues, actos>>

Publica(m) ==
    /\ m.dia <= hoy /\ m \notin movs
    /\ Cardinality(movs) < MaxMovs
    /\ movs' = movs \cup {m}
    /\ UNCHANGED <<lado, hoy, escritos, plazos, caso, pedido, tx, despues, actos>>

RecibeEscrito(d) ==
    /\ d <= hoy /\ d \notin escritos
    /\ Cardinality(escritos) < MaxEscritos
    /\ escritos' = escritos \cup {d}
    /\ UNCHANGED <<lado, hoy, movs, plazos, caso, pedido, tx, despues, actos>>

-----------------------------------------------------------------------------
Init ==
    /\ lado \in Lados
    /\ hoy = 0
    /\ movs = {}
    /\ escritos = {}
    /\ plazos = [k \in Claves |-> Null]
    /\ caso = [semaforo |-> "gris", override |-> Null, override_at |-> Null,
               fatal_incumplido |-> FALSE]
    /\ pedido = Null
    /\ tx = Null
    /\ despues = {}
    /\ actos = 0

Next ==
    \/ Lee \/ Commit \/ Aborta \/ Recalcula
    \/ \E k \in Claves : \/ \E s \in Auditado \cup {"active"} : update_deadline_status(k, s)
                         \/ create_manual_deadline(k)
    \/ \E c \in Destinos : crear_liberacion(c)
    \/ aprobar_liberacion \/ rechazar_liberacion
    \/ PasaDia
    \/ \E m \in [clase : Clases, dia : Dias] : Publica(m)
    \/ \E d \in Dias : RecibeEscrito(d)

Spec == Init /\ [][Next]_vars

-----------------------------------------------------------------------------
(* Properties *)

(* Rows and columns keep their types, and a sync in progress holds a unit   *)
(* of work of theirs.                                                       *)
TypeOK ==
    /\ plazos \in [Claves -> Row \cup {Null}]
    /\ DOMAIN caso = Columnas /\ caso.semaforo \in Colores
    /\ caso.override \in Colores \cup {Null}
    /\ (caso.override = Null) = (caso.override_at = Null)
    /\ IF tx = Null THEN despues = {}
       ELSE \A k \in DOMAIN tx.nuevas : tx.nuevas[k] \in Row

(* What the next recomputation yields is stated where no sync is in progress *)
(* (one that is has changed nothing yet), and no release: neither alters it. *)
Quieto == tx = Null /\ pedido = Null

(* Recomputations settle: without new evidence the second one already says  *)
(* what all later ones say; the steps that revive, supersede, expire and    *)
(* judge again do not fight over a row.  (With a manual plazo of            *)
(* excepciones they do: rebeldia takes either.)                             *)
Estable ==
    Quieto /\ (\A k \in Claves : plazos[k] = Null \/ ~plazos[k].manual)
      => \A p \in Recalculos(plazos) : \A q \in Recalculos(p) : Recalculos(q) = {q}

(* A missed obligation is not silently turned green: when the demandado's   *)
(* excepciones lapsed with no defence on file and no later act, the next    *)
(* recomputation leaves the case red or flagged, unless a release, the      *)
(* auditor's judgement or a pending plazo with its own colour hides it.     *)
LapsedFatalIsRed ==
    LET k == <<"excepciones", Disparo("excepciones")>>
    IN /\ Quieto /\ lado = "demandado" /\ Etapa = 2 /\ ~HayDefensa
       /\ Vence(k) < hoy /\ \A m \in movs : m.dia <= Vence(k)
       /\ ~Liberada(caso)
       /\ \A l \in Claves : IF plazos[l] = Null THEN TRUE
                          ELSE plazos[l].status # IF l = k THEN "cumplido" ELSE "active"
       => \A p \in Recalculos(plazos) :
            Columna(p, caso).semaforo = "rojo" \/ Columna(p, caso).fatal_incumplido

(* The other way round, a case that moved on is not red for a plazo of a    *)
(* state it left: red has a plazo in force, or one the auditor touched.     *)
NoStaleRed ==
    /\ Quieto /\ ~Liberada(caso)
    /\ \A t \in Accionables : Disparo(t) = Null
    /\ \A k \in Claves : IF plazos[k] = Null THEN TRUE ELSE ~plazos[k].manual /\ ~plazos[k].marcada
    => \A p \in Recalculos(plazos) : Color(p) # "rojo"

(* The colour neither hides a lapse nor keeps one alive.                    *)
RedIsOwed == LapsedFatalIsRed /\ NoStaleRed

(* The close and the verdict of a row contradict each other: no step of the *)
(* engine leaves it so, and none looks at it again.                         *)
Discorde(r) ==
    /\ ~r.manual /\ ~r.marcada
    /\ \/ r.status = "no_cumplido" /\ r.verdict # "fuera_de_plazo"
       \/ r.status = "cumplido" /\ r.verdict # "cumplido"

(* Evidence that arrives late repairs the record: two recomputations later, *)
(* no plazo of the demandado still counts as missed, or late, when some     *)
(* proof on file shows the defence within it, whatever was concluded before.*)
(* (One does not do: what it closes with a verdict of the movements alone,  *)
(* the next one judges again.)                                              *)
OnTimeDefenseIsNeverAMiss ==
    Quieto /\ lado = "demandado" /\ HayDefensa =>
      \A p \in Recalculos(plazos) : \A q \in Recalculos(p) : \A k \in Claves :
        IF \/ k[1] # "excepciones" \/ q[k] = Null
           \/ plazos[k] # Null /\ Discorde(plazos[k]) THEN TRUE
        ELSE q[k].verdict \in Fallos /\ ~q[k].manual /\ ~q[k].marcada => ~ATiempo(k)

(* Which is why it matters that close and verdict agree: a row comes to     *)
(* contradict itself only when a sync that read it before others closed it  *)
(* writes its columns over theirs.                                          *)
VerdictFitsStatus ==
    [][\A k \in Claves : plazos'[k] # Null /\ k \notin despues =>
         (Discorde(plazos'[k]) => plazos[k] # Null /\ Discorde(plazos[k]))]_vars

(* A step of the engine: it leaves the requests and the evidence alone.     *)
Motor == /\ UNCHANGED <<evidencia, actos, pedido>>
         /\ tx' \in {tx, Null}

(* What the auditor decided stands: the engine touches a plazo marked       *)
(* cumplido or no_cumplido only in a sync that loaded it before the mark,   *)
(* and a manual plazo only to expire it when it finds the debtor in         *)
(* rebeldia (whose query does not leave the manual ones out).               *)
AuditorStands ==
    [][Motor => \A k \in Claves :
         IF plazos[k] = Null \/ k \in despues THEN TRUE
         ELSE /\ plazos[k].marcada /\ plazos[k].status \in Auditado => plazos'[k] = plazos[k]
              /\ plazos[k].manual => \/ plazos'[k] = plazos[k]
                                    \/ /\ lado = "demandante" /\ k[1] = "excepciones"
                                       /\ plazos'[k].status = "expired"]_vars

(* A release is undone by a court act of a later day, by another release, or*)
(* by a sync that read the case before it; and while it holds it is shown.  *)
ReleaseStands ==
    [][Motor /\ caso' # caso /\ Caso \notin despues =>
         /\ \/ caso'.override = caso.override
            \/ \E m \in movs : m.clase # "opone" /\ m.dia > caso.override_at
         /\ caso'.override # Null => caso'.semaforo = caso'.override]_vars
=============================================================================
