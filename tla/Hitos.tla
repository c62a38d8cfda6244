------------------------------- MODULE Hitos -------------------------------
(***************************************************************************)
(* The milestones (hitos) of one lawyer on one causa, which feed the       *)
(* monthly bonus, and the close of a month: app/api/v1/hitos.py,           *)
(* services/hito_detector.py, services/bono_cierre_service.py and the      *)
(* close of api/v1/bono.py.                                                *)
(*                                                                         *)
(* A request is a database session.  It reads and checks, and what it will *)
(* write is its unit of work; it commits later, and while it awaits an     *)
(* upload, or in another process of the API, others commit in between.     *)
(* A session of Lentas does so in two steps (Lee, Commit); Atiende is a    *)
(* request that nobody interrupts.                                         *)
(***************************************************************************)
EXTENDS Naturals, Functions

CONSTANTS
    Ids,         \* primary keys (bound on the rows stored at one time)
    Periodos,    \* months
    Movs,        \* movements of the docket that match a rule of the detector
    Evidencias,  \* documents
    Otros,       \* texts of a sheet for this causa that are not its key
    Lentas,      \* sessions that may be interrupted
    Null

VARIABLES
    hitos,       \* [Ids -> a row or Null]
    cerrado,     \* the closed months
    trabajo,     \* [Lentas -> the unit of work of its session]
    despues,     \* [Lentas -> of what its session judged, what others changed since]
    ajenos       \* rows the last transaction inserted from another text than the key

vars == <<hitos, cerrado, trabajo, despues, ajenos>>

Estados == {"sugerido", "pendiente", "aprobado", "rechazado"}

(* rut: the row names the client.                                           *)
Row == [rut : BOOLEAN, periodo : Periodos, estado : Estados,
        evidencia : Evidencias \cup {Null},
        origen : {"manual", "formulario", "detector"}, mov : Movs \cup {Null}]

(* A row to insert and the text it writes the causa with: "clave", or what a*)
(* sheet may have instead of its _causa_key (the ROL alone, in capitals).   *)
Textos == {"clave"} \cup Otros
Nuevo(r, x) == [hito |-> r, texto |-> x]

ASSUME NullAssumption == Null \notin Row /\ Null \notin Evidencias
ASSUME ClaveAssumption == "clave" \notin Otros

(* A unit of work: columns to update by row, rows to insert and to delete.  *)
(* mira: what the session judged to write it, rows, months and that no other*)
(* row names the client ("causa").                                          *)
NoTrabajo == [op |-> "ninguna", mira |-> {}, cambia |-> <<>>, nuevos |-> {}, borra |-> {}]

Existentes == {i \in Ids : hitos[i] # Null}
EnAbiertos(ids) == \A i \in ids : hitos[i].periodo \notin cerrado

(* Rows of one client's causa collide; without the RUT nothing does.        *)
Nombra(i) == hitos[i] # Null /\ hitos[i].rut
HitoExistente(ids) == \E i \in ids : Nombra(i)

FaltaEvidencia(r) == r.origen = "formulario" /\ r.evidencia = Null

-----------------------------------------------------------------------------
(* What each request would write now, one set of units of work for each.    *)

Inserta(op, mira, filas) == [NoTrabajo EXCEPT !.op = op, !.mira = mira, !.nuevos = filas]

(* Rows and the months they are in.                                         *)
ConMeses(ids) == ids \cup {hitos[i].periodo : i \in ids}

(* An UPDATE sets the columns whose value the session changed, and there is *)
(* none for a row it left alone.                                            *)
Distintas(ids, s) == {i \in ids : \E c \in DOMAIN s : hitos[i][c] # s[c]}
Cambios(r, s) == [c \in {d \in DOMAIN s : s[d] # r[d]} |-> s[c]]
Actualiza(op, mira, ids, s) ==
    [NoTrabajo EXCEPT !.op = op, !.mira = mira,
                      !.cambia = [i \in Distintas(ids, s) |-> Cambios(hitos[i], s)]]

Actualizada(r, cambia) ==
    [c \in DOMAIN r |-> IF c \in DOMAIN cambia THEN cambia[c] ELSE r[c]]

(* The public forms demand every field and the evidence.                    *)
FormularioCompleto(r) == r.rut /\ r.evidencia # Null

(* POST /hitos and the public forms. Requests name the client by RUT (bound)*)
(* and the causa in any words: it is compared by its key.                   *)
CrearTrabajos ==
    IF HitoExistente(Existentes) THEN {}
    ELSE {Inserta("crear", {"causa"}, {Nuevo(r, "clave")}) :
            r \in {s \in [rut : {TRUE}, periodo : Periodos \ cerrado,
                          estado : {"pendiente"}, evidencia : Evidencias \cup {Null},
                          origen : {"manual", "formulario"}, mov : {Null}] :
                     s.origen = "formulario" => FormularioCompleto(s)}}

Adjunta(i, e) == Actualiza("adjuntar", {i}, {i}, [evidencia |-> e])

\* Mutant: evidence may be replaced in any state.
AdjuntarTrabajosSiempre == {Adjunta(i, e) : i \in Existentes, e \in Evidencias}

(* PUT evidencia, the first or another: the state is judged before the      *)
(* upload is awaited.                                                       *)
AdjuntarTrabajos ==
    {Adjunta(i, e) :
       i \in {j \in Existentes : hitos[j].estado \in {"pendiente", "sugerido", "rechazado"}},
       e \in Evidencias}

(* POST aprobar and aprobar-lote: a closed month refuses the whole lot,     *)
(* form hitos without evidence are left as they are.                        *)
AprobarTrabajos ==
    {LET completos == {i \in ids : ~FaltaEvidencia(hitos[i])}
         pasan == Distintas(completos, [estado |-> "aprobado"]) IN
     Actualiza("aprobar", ConMeses(pasan), pasan, [estado |-> "aprobado"]) :
       ids \in {s \in SUBSET Existentes : EnAbiertos(s)}}

\* Mutant: a state that is none of the estados.
RechazarTrabajosMal ==
    {Actualiza("rechazar", {}, ids, [estado |-> "rechazada"]) : ids \in SUBSET Existentes}

(* POST rechazar and rechazar-lote: no month is looked at.                  *)
RechazarTrabajos ==
    {Actualiza("rechazar", {}, ids, [estado |-> "rechazado"]) : ids \in SUBSET Existentes}

(* DELETE and eliminar-lote.                                                *)
EliminarTrabajos ==
    {[NoTrabajo EXCEPT !.op = "eliminar", !.mira = ConMeses(ids), !.borra = ids] :
       ids \in {s \in SUBSET Existentes : EnAbiertos(s)}}

(* What an edit writes: the client by RUT or not at all, the causa, a month.*)
Edicion(i, rut, p) ==
    Actualiza("editar", ConMeses({i}) \cup {p} \cup IF rut THEN {"causa"} ELSE {}, {i},
              [rut |-> rut, periodo |-> p])

EnMesAbierto == {i \in Existentes : EnAbiertos({i})}

\* Mutant: the edited hito is not compared with the others.
EditarTrabajosSinChoque ==
    {Edicion(i, rut, p) : i \in EnMesAbierto, rut \in BOOLEAN, p \in Periodos \ cerrado}

(* Whether it may name the client: no other row of the causa does.          *)
PuedeNombrar(i) == {b \in BOOLEAN : b => ~HitoExistente(Existentes \ {i})}

\* Mutant: only the month it leaves is looked at.
EditarTrabajosSinDestino ==
    UNION {{Edicion(i, rut, p) : rut \in PuedeNombrar(i), p \in Periodos} : i \in EnMesAbierto}

(* PUT /hitos/{id}: the month it leaves and the one it goes to are open,    *)
(* and the result, when it names the client, collides with no other row.    *)
EditarTrabajos ==
    UNION {{Edicion(i, rut, p) : rut \in PuedeNombrar(i), p \in Periodos \ cerrado} :
             i \in EnMesAbierto}

(* The rows a sheet may have for this causa; they name the client too.      *)
Filas == [hito : [rut : {TRUE}, periodo : Periodos, estado : {"pendiente", "aprobado"},
                  evidencia : {Null}, origen : {"manual"}, mov : {Null}],
          texto : Textos]

(* _HitoDedupTracker.  The rows stored are known by _causa_key, and a row of*)
(* the sheet is looked up by its text.                                      *)
Conocibles == {f \in Filas : f.texto = "clave"}
FilasNuevas == Filas \ {f \in Conocibles : HitoExistente(Existentes)}

(* POST importar: approved when the sheet says so; no month is looked at.   *)
(* A sheet keeps one or two rows of the causa: both are new unless RUT and  *)
(* text are the same; here they say the rest alike (bound).                 *)
ImportarTrabajos ==
    {Inserta("importar", IF filas \cap Conocibles = {} THEN {} ELSE {"causa"}, filas) :
       filas \in {{f, [f EXCEPT !.texto = x]} : f \in FilasNuevas, x \in Textos}
                   \cap SUBSET FilasNuevas}

(* A suggestion: no RUT, and the stored document of its movement.           *)
Sugerida(m, p, e) == [rut |-> FALSE, periodo |-> p, estado |-> "sugerido", evidencia |-> e,
                      origen |-> "detector", mov |-> m]
Sugerencia(m, p, e) == Inserta("detectar", {}, {Nuevo(Sugerida(m, p, e), "clave")})

\* Mutant: rejected suggestions are forgotten, and detected again.
DetectarTrabajosRechazados ==
    IF \E h \in Lentas : trabajo[h].op = "detectar" THEN {}
    ELSE {Sugerencia(m, p, e) :
            m \in Movs \ {hitos[i].mov : i \in {j \in Existentes : hitos[j].estado # "rechazado"}},
            p \in Periodos \ cerrado, e \in Evidencias}

(* detectar: a movement of an open month that has no hito yet, with its     *)
(* document stored and a favourable text, becomes a suggestion.  The job    *)
(* runs alone (SingleDetector).                                             *)
DetectarTrabajos ==
    IF \E h \in Lentas : trabajo[h].op = "detectar" THEN {}
    ELSE {Sugerencia(m, p, e) :
            m \in Movs \ {hitos[i].mov : i \in Existentes}, p \in Periodos \ cerrado,
            e \in Evidencias}

Trabajos ==
    CrearTrabajos \cup AdjuntarTrabajos \cup AprobarTrabajos \cup RechazarTrabajos
      \cup EliminarTrabajos \cup EditarTrabajos \cup ImportarTrabajos \cup DetectarTrabajos

-----------------------------------------------------------------------------
(* Sessions *)

Ociosa(h) == trabajo[h] = NoTrabajo

(* A request that would write nothing is one that does nothing.             *)
Escribira(t) == t.nuevos # {} \/ t.borra # {} \/ DOMAIN t.cambia # {}

Lee(h) ==
    /\ Ociosa(h)
    /\ \E t \in {u \in Trabajos : Escribira(u)} : trabajo' = [trabajo EXCEPT ![h] = t]
    /\ despues' = [despues EXCEPT ![h] = {}]
    /\ ajenos' = {}
    /\ UNCHANGED <<hitos, cerrado>>

(* Of what h judged, what this step changes.                                *)
Pierde(h) ==
    LET otra == \E i \in Ids \ DOMAIN trabajo[h].cambia : Nombra(i)' /\ ~Nombra(i) IN
    trabajo[h].mira \cap ({i \in Ids : hitos'[i] # hitos[i]} \cup IF otra THEN {"causa"} ELSE {})

(* The transaction of t: every row it updates must still be there.  The     *)
(* other sessions learn, for the properties only, what changed under them.  *)
Escribe(t, otras) ==
    /\ DOMAIN t.cambia \subseteq Existentes
    /\ \E lugar \in Injection(t.nuevos, Ids \ Existentes) :
         /\ hitos' = [i \in Ids |->
              IF i \in Range(lugar) THEN (CHOOSE n \in t.nuevos : lugar[n] = i).hito
              ELSE IF i \in t.borra THEN Null
              ELSE IF i \in DOMAIN t.cambia THEN Actualizada(hitos[i], t.cambia[i])
              ELSE hitos[i]]
         /\ ajenos' = {lugar[n] : n \in {m \in t.nuevos : m.texto \in Otros}}
         /\ despues' = [h \in Lentas |->
                          IF h \in otras /\ ~Ociosa(h)
                          THEN despues[h] \cup Pierde(h) ELSE {}]
    /\ UNCHANGED cerrado

Commit(h) ==
    /\ ~Ociosa(h)
    /\ Escribe(trabajo[h], Lentas \ {h})
    /\ trabajo' = [trabajo EXCEPT ![h] = NoTrabajo]

(* The request fails, is abandoned, or finds a row of its own deleted.      *)
Rollback(h) ==
    /\ ~Ociosa(h)
    /\ trabajo' = [trabajo EXCEPT ![h] = NoTrabajo]
    /\ despues' = [despues EXCEPT ![h] = {}]
    /\ ajenos' = {}
    /\ UNCHANGED <<hitos, cerrado>>

Atiende ==
    /\ \E t \in Trabajos : Escribe(t, Lentas)
    /\ UNCHANGED trabajo

CerrarPeriodo(p) ==
    /\ cerrado' = cerrado \cup {p}
    /\ despues' = [h \in Lentas |-> IF p \in cerrado THEN despues[h]
                                    ELSE despues[h] \cup ({p} \cap trabajo[h].mira)]
    /\ ajenos' = {}
    /\ UNCHANGED <<hitos, trabajo>>

ReabrirPeriodo(p) ==
    /\ p \in cerrado
    /\ cerrado' = cerrado \ {p}
    /\ ajenos' = {}
    /\ UNCHANGED <<hitos, trabajo, despues>>

-----------------------------------------------------------------------------
Init ==
    /\ hitos = [i \in Ids |-> Null]
    /\ cerrado = {}
    /\ trabajo = [h \in Lentas |-> NoTrabajo]
    /\ despues = [h \in Lentas |-> {}]
    /\ ajenos = {}

Next ==
    \/ \E h \in Lentas : Lee(h) \/ Commit(h) \/ Rollback(h)
    \/ Atiende
    \/ \E p \in Periodos : CerrarPeriodo(p) \/ ReabrirPeriodo(p)

Spec == Init /\ [][Next]_vars

-----------------------------------------------------------------------------
(* Properties *)

(* Rows keep their types; a session misses changes of what it judged only.  *)
TypeOK ==
    /\ hitos \in [Ids -> Row \cup {Null}]
    /\ cerrado \subseteq Periodos
    /\ ajenos \subseteq Existentes
    /\ \A h \in Lentas : /\ trabajo[h].mira \subseteq Ids \cup Periodos \cup {"causa"}
                         /\ despues[h] \subseteq trabajo[h].mira

(* A movement is never paid twice: whatever is rejected, deleted, edited or *)
(* detected again, at most one hito stands for it (hito_detector.detectar). *)
OneHitoPerMovement ==
    \A i, j \in Existentes :
      hitos[i].mov # Null /\ hitos[i].mov = hitos[j].mov => i = j

(* A session commits in this step having missed a change of x it judged.    *)
Perdio(x) == \E h \in Lentas : ~Ociosa(h) /\ trabajo'[h] = NoTrabajo /\ despues[h] \cap x # {}

(* Two hitos of one causa come only from requests that overlapped, or from  *)
(* a sheet that writes the causa otherwise than by its key, which the import*)
(* does not recognize: otherwise create, edit, import and detect never let  *)
(* a second one in.                                                         *)
DuplicatesOnlyByKnownGaps ==
    [][\A i, j \in Ids :
         /\ i # j
         /\ Nombra(i)' /\ Nombra(j)' /\ ~(Nombra(i) /\ Nombra(j))
         => Perdio({"causa"}) \/ {i, j} \cap ajenos' # {}]_vars

(* "An approved hito was paid on the evidence it had, so it is frozen": its *)
(* evidence is attached or replaced only under a request that read it before*)
(* it was approved.                                                         *)
EvidenceFrozenUnlessOverlap ==
    [][\A i \in Ids :
         IF Null \in {hitos[i], hitos'[i]} THEN TRUE
         ELSE hitos[i].estado = "aprobado" /\ hitos[i].evidencia # hitos'[i].evidencia
                => Perdio({i})]_vars

Pagados(p) == {i \in Existentes : hitos[i].periodo = p /\ hitos[i].estado = "aprobado"}

(* A hito enters or leaves the approved ones of a closed month by an import *)
(* or a rejection, which do not look at the close, or under a request that  *)
(* read the month open or that hito otherwise: every other operation        *)
(* respects the close.                                                      *)
ClosedChangesOnlyByKnownGaps ==
    [][\A p \in cerrado : \A i \in Ids : (i \in Pagados(p)) # (i \in Pagados(p)') =>
         \/ Perdio({i, p})
         \/ i \in Pagados(p) /\ hitos'[i] = [hitos[i] EXCEPT !.estado = "rechazado"]
         \/ hitos[i] = Null /\ hitos'[i].origen = "manual"]_vars

(* What the close promises (models/bono_cierre.py): the hitos that feed a   *)
(* closed month are read-only, its approved total changes by reopening only.*)
ClosedIsFrozen == [][\A p \in cerrado : Pagados(p) = Pagados(p)']_vars
=============================================================================
