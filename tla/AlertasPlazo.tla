---------------------------- MODULE AlertasPlazo ----------------------------
(***************************************************************************)
(* The alerts of one plazo of excepciones: services/semaforo_alerts.py,    *)
(* with the scales of deadline_semaforo.py, the calendar of                *)
(* business_days.py and the mail of notification_service.py.               *)
(*                                                                         *)
(* A run raises the alert the plazo is due today, and the notice that it   *)
(* was missed, then sends what is still unsent.  The worker runs it before *)
(* every cycle and a cron job may too: two processes, that read, commit    *)
(* and send at their own pace, while the deadline engine and the auditor   *)
(* (external here, see Plazos) change the plazo.                           *)
(***************************************************************************)
EXTENDS Integers, FiniteSets, FiniteSetsExt, TLC

CONSTANTS
    Corridas,    \* processes that run it
    MaxDia,      \* last day (bound)
    Feriados,    \* Sundays and holidays
    Calendarios, \* other such sets, for LastDayIsRojo
    Lecturas,    \* terms the plazo may have: one when it is confirmed
    Escala,      \* [terms -> last business days of verde and of amarillo]
    Titular,     \* the lawyer of the case
    Extra,       \* [Niveles -> lawyers told besides]
    MaxEdad,     \* SEMAFORO_MAX_TRIGGER_AGE_DAYS
    Ventana,     \* SEMAFORO_EXPIRED_WINDOW_DAYS
    Worker,      \* the one that runs with every cycle
    DiasSolape,  \* days on which the others run too, while it does (bound)
    MaxCambios,  \* changes of the plazo by others (bound)
    MaxFallas,   \* commits that fail and crashes (bound)
    Null

(* Scale: rojo comes after amarillo, and its last day is the last of the    *)
(* term.                                                                    *)
ASSUME EscalaAssumption ==
    /\ Lecturas # {} /\ Lecturas \subseteq DOMAIN Escala
    /\ DOMAIN Escala \subseteq Nat \ {0} /\ IsFiniteSet(DOMAIN Escala)
    /\ \A t \in DOMAIN Escala :
         /\ {Escala[t].verde, Escala[t].amarillo} \subseteq Nat
         /\ Escala[t].verde <= Escala[t].amarillo /\ Escala[t].amarillo < t

VARIABLES
    hoy,         \* today
    plazo,       \* its row: due, status, verdict, firmado (marked_by set)
    alertas,     \* [keys of the alerts stored -> their state]
    corrida,     \* [Corridas -> the run of each]
    fallas,      \* failures so far
    cambios      \* changes of the plazo so far

vars == <<hoy, plazo, alertas, corrida, fallas, cambios>>

Niveles == {"verde", "amarillo", "rojo"}
Urgencia == [verde |-> 0, amarillo |-> 1, rojo |-> 2, vencido |-> 3]
ASSUME NullAssumption == Null \notin Niveles

-----------------------------------------------------------------------------
(* The calendar *)

(* Business days of (d, e], and the day that is n of them after d.          *)
Transcurridos(cal, d, e) == Cardinality((d + 1 .. e) \ cal)
SumaHabiles(cal, d, n) ==
    CHOOSE e \in d + n .. d + n + Cardinality(cal) :
      e \notin cal /\ Transcurridos(cal, d, e) = n

(* The cutoff "must stay above the longest live term": the business days of *)
(* the longest fit in it.                                                   *)
ASSUME CalendarioAssumption ==
    /\ \A cal \in Calendarios \cup {Feriados} : IsFiniteSet(cal)
    /\ MaxEdad \in Nat
    /\ \A cal \in Calendarios, t \in DOMAIN Escala : Transcurridos(cal, 0, MaxEdad) >= t

-----------------------------------------------------------------------------
(* The semaforo on day d.  The plazo was triggered on day 0. *)

Vigentes(cal, lecturas, d) == {t \in lecturas : d <= SumaHabiles(cal, 0, t)}
\* Mutant: rojo begins a day late.
NivelDeTarde(t, dia) == IF dia <= Escala[t].verde THEN "verde"
                        ELSE IF dia <= Escala[t].amarillo + 1 THEN "amarillo" ELSE "rojo"

NivelDe(t, dia) == IF dia <= Escala[t].verde THEN "verde"
                   ELSE IF dia <= Escala[t].amarillo THEN "amarillo" ELSE "rojo"

(* The worst of the readings that are not over, Null when all are.          *)
Nivel(cal, lecturas, d) ==
    LET dia == IF Transcurridos(cal, 0, d) = 0 THEN 1 ELSE Transcurridos(cal, 0, d)
        niveles == {NivelDe(t, dia) : t \in Vigentes(cal, lecturas, d)}
    IN IF niveles = {} THEN Null
       ELSE CHOOSE n \in niveles : \A m \in niveles : Urgencia[n] >= Urgencia[m]

Destinatarios(n) == {Titular} \cup Extra[n]

Reciente(d) == d <= MaxEdad
Candidato(d) == plazo.status = "active" /\ plazo.due >= d

(* Expired and unfiled: by the verdict (no_actuado stands for no_cumplido   *)
(* and fuera_de_plazo), unless an auditor signed cumplido.                *)
Perdido(d) ==
    /\ plazo.due < d /\ plazo.due >= d - Ventana
    /\ plazo.verdict = "no_actuado"
    /\ ~(plazo.status = "cumplido" /\ plazo.firmado)

-----------------------------------------------------------------------------
(* A run: today as it began, the plazo it loaded, the keys it found, the    *)
(* alerts it is sending and those queued for the verde mail.  solapada: the *)
(* other ran meanwhile (for the properties only).                           *)

Ociosa == [pc |-> "ociosa", hoy |-> 0, claves |-> {}, cola |-> {}, verdes |-> {},
           solapada |-> FALSE]

(* (entity_type with its slot, plazo, type, lawyer); nothing makes it       *)
(* unique, so a key may have a second row.                                  *)
Clave == [tipo : Niveles \cup {"vencido"}, slot : SUBSET Lecturas,
          para : {Titular} \cup UNION {Extra[n] : n \in Niveles}]
Filas == Clave \X {1, 2}

Claves == {f[1] : f \in DOMAIN alertas}
ClavesDe(n, slot) == {[tipo |-> n, slot |-> slot, para |-> l] :
                        l \in Destinatarios(IF n = "vencido" THEN "rojo" ELSE n)}
Debidas(d) ==
    LET n == Nivel(Feriados, Lecturas, d)
    IN IF n = Null THEN {} ELSE ClavesDe(n, Vigentes(Feriados, Lecturas, d))

(* The rows a run adds for the keys it did not find.                        *)
Inserta(claves) ==
    LET nuevas == {<<k, IF k \in Claves THEN 2 ELSE 1>> : k \in claves}
    IN alertas' = [f \in DOMAIN alertas \cup nuevas |->
                     IF f \in nuevas THEN [enviada |-> FALSE, correos |-> 0] ELSE alertas[f]]

Pone(c, r) == corrida' = [corrida EXCEPT ![c] = r]
(* A failure (bound: none in runs that overlap).                            *)
Falla(c) == fallas < MaxFallas /\ ~corrida[c].solapada /\ fallas' = fallas + 1

Empieza(c) ==
    /\ corrida[c].pc = "ociosa"
    /\ c = Worker \/ (hoy \in DiasSolape /\ corrida[Worker].pc # "ociosa")
    /\ corrida' = [d \in Corridas |->
                     IF d = c
                     THEN [Ociosa EXCEPT
                             !.pc = IF Candidato(hoy) /\ Reciente(hoy) THEN "crea" ELSE "mira",
                             !.hoy = hoy, !.claves = Claves,
                             !.solapada = \E e \in Corridas : corrida[e].pc # "ociosa"]
                     ELSE IF corrida[d].pc = "ociosa" THEN corrida[d]
                     ELSE [corrida[d] EXCEPT !.solapada = TRUE]]
    /\ UNCHANGED <<hoy, plazo, alertas, fallas, cambios>>

\* Mutant: the alerts there are already are not looked at.
CreaAlertasDeNuevo(c) ==
    /\ corrida[c].pc = "crea"
    /\ Inserta({k \in Debidas(corrida[c].hoy) : <<k, 2>> \notin DOMAIN alertas})
    /\ Pone(c, [corrida[c] EXCEPT !.pc = "mira", !.claves = {}])
    /\ UNCHANGED <<hoy, plazo, fallas, cambios>>

(* The alerts the plazo is due, and their commit.                           *)
CreaAlertas(c) ==
    /\ corrida[c].pc = "crea"
    /\ Inserta(Debidas(corrida[c].hoy) \ corrida[c].claves)
    /\ Pone(c, [corrida[c] EXCEPT !.pc = "mira", !.claves = {}])
    /\ UNCHANGED <<hoy, plazo, fallas, cambios>>

(* expired_unfiled_deadlines and the keys there are by then.                *)
MiraVencido(c) ==
    /\ corrida[c].pc = "mira"
    /\ IF Perdido(corrida[c].hoy)
       THEN Pone(c, [corrida[c] EXCEPT !.pc = "avisa", !.claves = Claves])
       ELSE Pone(c, [corrida[c] EXCEPT !.pc = "lista", !.claves = {}])
    /\ UNCHANGED <<hoy, plazo, alertas, fallas, cambios>>

CreaVencido(c) ==
    /\ corrida[c].pc = "avisa"
    /\ Inserta(ClavesDe("vencido", {}) \ corrida[c].claves)
    /\ Pone(c, [corrida[c] EXCEPT !.pc = "lista", !.claves = {}])
    /\ UNCHANGED <<hoy, plazo, fallas, cambios>>

(* Either commit fails: rolled back, and the run goes on.                   *)
NoCrea(c) ==
    /\ \/ /\ corrida[c].pc = "crea"
          /\ Pone(c, [corrida[c] EXCEPT !.pc = "mira", !.claves = {}])
       \/ /\ corrida[c].pc = "avisa"
          /\ Pone(c, [corrida[c] EXCEPT !.pc = "lista", !.claves = {}])
    /\ Falla(c)
    /\ UNCHANGED <<hoy, plazo, alertas, cambios>>

\* Mutant: the last day of the plazo does not count.
PendientesAntes(d) ==
    {f \in DOMAIN alertas : /\ ~alertas[f].enviada /\ f[1].tipo # "vencido"
                            /\ plazo.status = "active" /\ plazo.due > d}

(* _dispatch_pending and _dispatch_expired list what is unsent: of a plazo  *)
(* still running, or of one that is over and was missed.                    *)
Pendientes(d) ==
    {f \in DOMAIN alertas : ~alertas[f].enviada /\ f[1].tipo # "vencido" /\ Candidato(d)}
VencidosPendientes(d) ==
    {f \in DOMAIN alertas : /\ ~alertas[f].enviada /\ f[1].tipo = "vencido"
                            /\ plazo.verdict = "no_actuado"
                            /\ plazo.due < d /\ plazo.due >= d - Ventana}

Lista(c) ==
    /\ corrida[c].pc = "lista"
    /\ LET p == Pendientes(corrida[c].hoy)
           verdes == {f \in p : f[1].tipo = "verde"}
       IN Pone(c, [corrida[c] EXCEPT !.pc = "manda", !.cola = p \ verdes, !.verdes = verdes])
    /\ UNCHANGED <<hoy, plazo, alertas, fallas, cambios>>

ListaVencidos(c) ==
    /\ corrida[c].pc = "manda" /\ corrida[c].cola = {}
    /\ Pone(c, [corrida[c] EXCEPT !.pc = "cierra", !.cola = VencidosPendientes(corrida[c].hoy)])
    /\ UNCHANGED <<hoy, plazo, alertas, fallas, cambios>>

(* The most urgent first; among equals the order is immaterial.             *)
Turno(c) == CHOOSE f \in corrida[c].cola :
              \A g \in corrida[c].cola : Urgencia[f[1].tipo] >= Urgencia[g[1].tipo]
Espera(c) == corrida[c].cola # {}

(* The mails that leave in one step, and whether the marks are committed.   *)
Entrega(fs, marca) ==
    alertas' = [f \in DOMAIN alertas |->
                  IF f \in fs THEN [enviada |-> marca \/ alertas[f].enviada,
                                    correos |-> alertas[f].correos + 1]
                  ELSE alertas[f]]
SinTurno(c) == Pone(c, [corrida[c] EXCEPT !.cola = corrida[c].cola \ {Turno(c)}])

(* notify_plazo_alert: a mail of its own, marked and committed.             *)
Manda(c) ==
    /\ Espera(c)
    /\ Entrega({Turno(c)}, TRUE)
    /\ SinTurno(c)
    /\ UNCHANGED <<hoy, plazo, fallas, cambios>>
\* Mutant: the alert is marked whether or not its mail left.
NoMandaMarcada(c) ==
    /\ Espera(c)
    /\ alertas' = [alertas EXCEPT ![Turno(c)].enviada = TRUE]
    /\ SinTurno(c)
    /\ UNCHANGED <<hoy, plazo, fallas, cambios>>

NoManda(c) ==
    /\ Espera(c)
    /\ SinTurno(c)
    /\ UNCHANGED <<hoy, plazo, alertas, fallas, cambios>>
MandaSinMarca(c) ==
    /\ Espera(c) /\ Falla(c)
    /\ Entrega({Turno(c)}, FALSE)
    /\ SinTurno(c)
    /\ UNCHANGED <<hoy, plazo, cambios>>

(* close: the verdes leave in one mail for each lawyer; here the lawyer of  *)
(* the case is the only one they have.                                      *)
Cierra(c, sale, marca) ==
    /\ corrida[c].pc = "cierra" /\ corrida[c].cola = {}
    /\ IF sale THEN Entrega(corrida[c].verdes, marca) ELSE UNCHANGED alertas
    /\ IF marca THEN UNCHANGED fallas ELSE Falla(c)
    /\ Pone(c, Ociosa)
    /\ UNCHANGED <<hoy, plazo, cambios>>

\* Mutant: the next run finds what the one that died had in hand.
MuereAMedias(c) ==
    /\ corrida[c].pc # "ociosa" /\ Falla(c)
    /\ Pone(c, [corrida[c] EXCEPT !.pc = "ociosa"])
    /\ UNCHANGED <<hoy, plazo, alertas, cambios>>

Muere(c) ==
    /\ corrida[c].pc # "ociosa" /\ Falla(c)
    /\ Pone(c, Ociosa)
    /\ UNCHANGED <<hoy, plazo, alertas, cambios>>

-----------------------------------------------------------------------------
(* The plazo, as the deadline engine and the auditor leave it.              *)

(* Two runs that overlap end on the day the second began (bound).           *)
PasaDia ==
    /\ hoy < MaxDia
    /\ \A c \in Corridas : ~corrida[c].solapada
    /\ hoy' = hoy + 1
    /\ UNCHANGED <<plazo, alertas, corrida, fallas, cambios>>

(* A change of the plazo by others (bound: none while two runs overlap).    *)
Cambia(p) ==
    /\ cambios < MaxCambios /\ cambios' = cambios + 1
    /\ \A c \in Corridas : ~corrida[c].solapada
    /\ plazo' = p
    /\ UNCHANGED <<hoy, alertas, corrida, fallas>>

(* A requerimiento de pago of today: the term is counted from it.           *)
Requiere ==
    /\ plazo.status = "active" /\ plazo.due >= hoy
    /\ Cambia([plazo EXCEPT !.due = SumaHabiles(Feriados, hoy, Max(Lecturas))])

(* The defence is on file, perhaps of an earlier day; or the term is over.  *)
Juzga(v) ==
    /\ v = "no_actuado" => plazo.due < hoy /\ plazo.verdict = Null
    /\ plazo.status # "cumplido" /\ plazo.verdict # v
    /\ Cambia([plazo EXCEPT !.status = "superseded", !.verdict = v])

(* update_deadline_status: the verdict stays.                               *)
Firma ==
    /\ ~plazo.firmado
    /\ Cambia([plazo EXCEPT !.status = "cumplido", !.firmado = TRUE])

-----------------------------------------------------------------------------
Init ==
    /\ hoy = 0
    /\ plazo = [due |-> SumaHabiles(Feriados, 0, Max(Lecturas)), status |-> "active", verdict |-> Null,
                firmado |-> FALSE]
    /\ alertas = <<>>
    /\ corrida = [c \in Corridas |-> Ociosa]
    /\ fallas = 0
    /\ cambios = 0

Paso(c) ==
    \/ CreaAlertas(c) \/ MiraVencido(c) \/ CreaVencido(c) \/ NoCrea(c)
    \/ Lista(c) \/ ListaVencidos(c)
    \/ Manda(c) \/ NoManda(c) \/ MandaSinMarca(c)
    \/ \E marca \in BOOLEAN : Cierra(c, TRUE, marca)
    \/ Cierra(c, FALSE, TRUE)

Next ==
    \/ \E c \in Corridas : Empieza(c) \/ Paso(c) \/ Muere(c)
    \/ PasaDia \/ Requiere \/ Firma
    \/ \E v \in {"no_actuado", "cumplido"} : Juzga(v)

Spec == Init /\ [][Next]_vars

(* A run goes on while its process lives, and of the mails tried again and  *)
(* again one leaves.  No run must begin: the worker's begin with a cycle,   *)
(* which the egress guard may hold for ever (_wait_for_allowed_egress), and *)
(* the cron job only if it is scheduled.                                    *)
Justa(c) ==
    /\ WF_vars(Paso(c))
    /\ SF_vars(Manda(c))
FairSpec == Spec /\ \A c \in Corridas : Justa(c)

-----------------------------------------------------------------------------
(* Properties *)

(* Alerts keep their types, a run at rest has nothing in hand, and what it  *)
(* is sending is stored.                                                    *)
TypeOK ==
    /\ DOMAIN alertas \subseteq Filas
    /\ \A f \in DOMAIN alertas : alertas[f] \in [enviada : BOOLEAN, correos : Nat]
    /\ plazo.due \in Nat /\ plazo.status \in {"active", "superseded", "cumplido"}
    /\ \A c \in Corridas : /\ corrida[c].cola \cup corrida[c].verdes \subseteq DOMAIN alertas
                           /\ corrida[c].pc = "ociosa" => corrida[c] = Ociosa

(* However Sundays and holidays fall, a plazo counted from its trigger has  *)
(* a level on every day until it is over, rojo on the last day of every     *)
(* reading, and is within the cutoff: scales, calendar and cutoff agree.    *)
(* (A question about every plazo, asked before this one has an alert.)      *)
LastDayIsRojo ==
    hoy + cambios + fallas = 0 /\ alertas = <<>> =>
    \A cal \in Calendarios, lecturas \in (SUBSET DOMAIN Escala) \ {{}} :
      \A d \in 0..SumaHabiles(cal, 0, Max(lecturas)) :
        /\ Nivel(cal, lecturas, d) # Null /\ Reciente(d)
        /\ \A t \in lecturas : d = SumaHabiles(cal, 0, t) => Nivel(cal, lecturas, d) = "rojo"

(* An alert is stored twice, or mailed twice, only by runs that overlapped  *)
(* or after a failure ("an alert is created once per plazo, slot, level,    *)
(* recipient"; "each alert is sent at most once").                          *)
OnceUnlessOverlap ==
    [][(\A c \in Corridas : corrida[c].pc # "ociosa" => ~corrida[c].solapada) =>
         /\ \A f \in DOMAIN alertas' : f[2] = 2 => f \in DOMAIN alertas
         /\ \A f \in DOMAIN alertas : alertas'[f].correos > alertas[f].correos =>
              alertas[f].correos = 0 \/ fallas > 0]_vars

(* A marked alert was mailed, and one that was mailed and is not marked     *)
(* takes a failure, or it would be sent by every run from then on.          *)
MarkedIsMailed ==
    \A f \in DOMAIN alertas : /\ alertas[f].enviada => alertas[f].correos > 0
                              /\ alertas[f].correos > 0 /\ fallas = 0 => alertas[f].enviada

(* The egress lets every cycle go on: the next one begins.                  *)
CiclosSiguen == []<><<Empieza(Worker)>>_vars

(* As long as cycles begin, the alert of the last day leaves while it is of *)
(* use: unsent, it is tried again until it is sent, or the plazo is over or *)
(* closed.                                                                  *)
RojoIsTold == CiclosSiguen =>
    \A l \in Destinatarios("rojo") :
      LET f == <<[tipo |-> "rojo", slot |-> {Max(Lecturas)}, para |-> l], 1>>
      IN f \in DOMAIN alertas /\ Candidato(hoy)
           ~> IF f \in DOMAIN alertas THEN alertas[f].correos > 0 \/ ~Candidato(hoy)
              ELSE ~Candidato(hoy)
=============================================================================
