----------------------------- MODULE Presentacion -----------------------------
(***************************************************************************)
(* The presentación queue: rows of the table presentaciones, the HTTP      *)
(* handlers that create, review and confirm a filing                       *)
(* (api/presentacion/presentaciones.py) and the station workers that drain *)
(* the queue (workers/presentacion_worker.py).                             *)
(*                                                                         *)
(* Every handler and worker works on a copy of the row it read and writes  *)
(* it back in a later transaction, with no lock and no version check       *)
(* (PostgreSQL, READ COMMITTED), so a read and its commit are two actions. *)
(* SQLAlchemy writes back only the attributes that differ from the copy.   *)
(*                                                                         *)
(* presentar() is a stub in the repository; the outcomes a worker may get  *)
(* from the presentar_fn it is given are those of its documented contract. *)
(***************************************************************************)
EXTENDS Naturals, FiniteSets

CONSTANTS
    MaxRows,      \* bound: rows the table may hold
    Keys,         \* idempotency keys
    Personas,     \* people who review and send
    Nadie,        \* an anonymous reviewer or sender (None or "")
    Requests,     \* HTTP handlers that may run at the same time
    Workers,      \* presentación worker processes
    MaxIntentos,  \* PRESENTACION_MAX_INTENTOS
    MaxCrashes    \* bound: worker iterations that end without their commit

ASSUME MaxRowsAssumption == MaxRows \in Nat
ASSUME MaxIntentosAssumption == MaxIntentos \in Nat \ {0}
ASSUME NadieAssumption == Nadie \notin Personas

Ids == 1..MaxRows        \* serial primary keys: a lower id is an older row

VARIABLES
    row,      \* the table: [Ids -> Row]
    req,      \* each HTTP handler between its read and its commit
    worker,   \* each worker between two transactions of an iteration
    ojv,      \* per filing: calls of presentar_fn, loads they made in the OJV, loads lost
    crashes   \* worker iterations lost so far

vars == <<row, req, worker, ojv, crashes>>

Bandeja == {"cargada_pendiente_envio", "revisado", "envio_confirmado"}
Cerrada == {"presentada", "rechazada", "error"}
Estados == {"ausente", "en_cola", "presentando"} \cup Bandeja \cup Cerrada
Modos == {"semiauto", "auto"}
Quien == Personas \cup {Nadie}

\* A row as the code writes it; revisado_at and confirmado_at are only "set or not".
NoKey == "sin clave"
Fila(estado, key, modo) ==
    [estado |-> estado, key |-> key, modo |-> modo, intentos |-> 0,
     revisado_por |-> Nadie, revisado_at |-> FALSE,
     confirmado_por |-> Nadie, confirmado_at |-> FALSE]
Ausente == Fila("ausente", NoKey, "semiauto")

\* A handler or a worker that holds no copy of a row.
Libre == [op |-> "libre", id |-> 0, key |-> NoKey, modo |-> "semiauto",
          quien |-> Nadie, leido |-> Nadie]
Ocioso == [pc |-> "ocioso", id |-> 0, estado |-> "ausente", intentos |-> 0, res |-> "-"]

Init ==
    /\ row = [i \in Ids |-> Ausente]
    /\ req = [r \in Requests |-> Libre]
    /\ worker = [w \in Workers |-> Ocioso]
    /\ ojv = [i \in Ids |-> [llamadas |-> 0, cargas |-> 0, perdidas |-> 0]]
    /\ crashes = 0

\* The value a column holds after a flush: written only if it differs from the copy.
Flush(stored, read, written) == IF written = read THEN stored ELSE written
Escrito(r, stored) == Flush(stored, req[r].leido, req[r].quien)

KeyTaken(k) == \E i \in Ids : row[i].estado # "ausente" /\ row[i].key = k
IsNextId(i) ==
    /\ row[i].estado = "ausente"
    /\ \A j \in Ids : row[j].estado = "ausente" => i <= j

-----------------------------------------------------------------------------
(* POST /presentaciones *)

\* The key is looked up; an existing row is returned as it is (no step).
CreateRead(r, k, m) ==
    /\ req[r] = Libre
    /\ ~KeyTaken(k)
    /\ req' = [req EXCEPT ![r] = [Libre EXCEPT !.op = "create", !.key = k, !.modo = m]]
    /\ UNCHANGED <<row, worker, ojv, crashes>>

\* Mutant: no unique index on idempotency_key.
CreateCommitUnchecked(r) ==
    /\ req[r].op = "create"
    /\ \E i \in Ids :
        /\ IsNextId(i)
        /\ row' = [row EXCEPT ![i] = Fila("en_cola", req[r].key, req[r].modo)]
    /\ req' = [req EXCEPT ![r] = Libre]
    /\ UNCHANGED <<worker, ojv, crashes>>

\* The INSERT; the unique index on idempotency_key turns a lost race into a 500.
CreateCommit(r) ==
    /\ req[r].op = "create"
    /\ ~KeyTaken(req[r].key)
    /\ \E i \in Ids :
        /\ IsNextId(i)
        /\ row' = [row EXCEPT ![i] = Fila("en_cola", req[r].key, req[r].modo)]
    /\ req' = [req EXCEPT ![r] = Libre]
    /\ UNCHANGED <<worker, ojv, crashes>>

(* POST /presentaciones/{id}/revisar *)

\* Only a loaded filing goes on; a reviewed one is a no-op, any other a 409.
RevisarRead(r, i, p) ==
    /\ req[r] = Libre
    /\ row[i].estado = "cargada_pendiente_envio"
    /\ req' = [req EXCEPT ![r] = [Libre EXCEPT !.op = "revisar", !.id = i, !.quien = p,
                                               !.leido = row[i].revisado_por]]
    /\ UNCHANGED <<row, worker, ojv, crashes>>

RevisarCommit(r) ==
    /\ req[r].op = "revisar"
    /\ row' = [row EXCEPT ![req[r].id] =
                [@ EXCEPT !.estado = "revisado",
                          !.revisado_por = Escrito(r, row[req[r].id].revisado_por),
                          !.revisado_at = TRUE]]
    /\ req' = [req EXCEPT ![r] = Libre]
    /\ UNCHANGED <<worker, ojv, crashes>>

(* POST /presentaciones/{id}/enviar *)

SamePerson(p, q) == p # Nadie /\ q # Nadie /\ p = q

\* Mutant: a send is confirmed straight from the Bandeja, without the review.
EnviarReadUnreviewed(r, i, p) ==
    /\ req[r] = Libre
    /\ row[i].estado \in {"cargada_pendiente_envio", "revisado"}
    /\ ~SamePerson(p, row[i].revisado_por)
    /\ req' = [req EXCEPT ![r] = [Libre EXCEPT !.op = "enviar", !.id = i, !.quien = p,
                                               !.leido = row[i].confirmado_por]]
    /\ UNCHANGED <<row, worker, ojv, crashes>>

\* Four-eyes is judged on the row as read.
EnviarRead(r, i, p) ==
    /\ req[r] = Libre
    /\ row[i].estado = "revisado"
    /\ ~SamePerson(p, row[i].revisado_por)
    /\ req' = [req EXCEPT ![r] = [Libre EXCEPT !.op = "enviar", !.id = i, !.quien = p,
                                               !.leido = row[i].confirmado_por]]
    /\ UNCHANGED <<row, worker, ojv, crashes>>

EnviarCommit(r) ==
    /\ req[r].op = "enviar"
    /\ row' = [row EXCEPT ![req[r].id] =
                [@ EXCEPT !.estado = "envio_confirmado",
                          !.confirmado_por = Escrito(r, row[req[r].id].confirmado_por),
                          !.confirmado_at = TRUE]]
    /\ req' = [req EXCEPT ![r] = Libre]
    /\ UNCHANGED <<worker, ojv, crashes>>

\* The commit raises (a lost key race, a dead connection): a 500, nothing written.
RequestFails(r) ==
    /\ req[r] # Libre
    /\ req' = [req EXCEPT ![r] = Libre]
    /\ UNCHANGED <<row, worker, ojv, crashes>>

-----------------------------------------------------------------------------
(* The worker: run_once = claim_next, then process_one *)

\* Mutant: a filing left in "presentando" is picked up again, as a recovery of orphans.
IsOldestQueuedOrOrphan(i) ==
    /\ row[i].estado \in {"en_cola", "presentando"}
    /\ \A j \in Ids : row[j].estado \in {"en_cola", "presentando"} => i <= j

\* Mutant: the look-up takes only filings never tried, so a retried one waits for ever.
IsOldestUntried(i) ==
    /\ row[i].estado = "en_cola"
    /\ row[i].intentos = 0
    /\ \A j \in Ids : row[j].estado = "en_cola" /\ row[j].intentos = 0 => i <= j

IsOldestQueued(i) ==
    /\ row[i].estado = "en_cola"
    /\ \A j \in Ids : row[j].estado = "en_cola" => i <= j

ClaimSelect(w, i) ==
    /\ worker[w] = Ocioso
    /\ IsOldestQueued(i)
    /\ worker' = [worker EXCEPT ![w] = [Ocioso EXCEPT !.pc = "elegida", !.id = i,
                                                      !.estado = row[i].estado,
                                                      !.intentos = row[i].intentos]]
    /\ UNCHANGED <<row, req, ojv, crashes>>

ClaimCommit(w) ==
    /\ worker[w].pc = "elegida"
    /\ row' = [row EXCEPT ![worker[w].id] =
                [@ EXCEPT !.estado = "presentando", !.intentos = worker[w].intentos + 1]]
    /\ worker' = [worker EXCEPT ![w].pc = "tomada"]
    /\ UNCHANGED <<req, ojv, crashes>>

\* What presentar_fn may return for a filing (its docstring): a semiauto filing is left
\* loaded in the Bandeja, an auto one is sent and answered; or what it may raise.
Exitos == {"cargada_pendiente_envio", "presentada", "rechazada"}
Fallas == {"transitorio", "fallo"}
Resultados(modo) ==
    IF modo = "semiauto" THEN {"cargada_pendiente_envio"} ELSE {"presentada", "rechazada"}

\* process_one reloads the row, downloads the documents and calls presentar_fn.  The OJV
\* takes the filing (cargo) before the outcome is known: a call that fails on a timeout or
\* a broken page may have loaded it, and the load of one to be retried is lost.
Presentar(w, res, cargo) ==
    LET i == worker[w].id IN
    /\ worker[w].pc = "tomada"
    /\ res \in Resultados(row[i].modo) \cup Fallas
    /\ res \in Exitos => cargo
    /\ worker' = [worker EXCEPT ![w] = [@ EXCEPT !.pc = "respondida", !.res = res,
                                                 !.estado = row[i].estado,
                                                 !.intentos = row[i].intentos]]
    /\ ojv' = [ojv EXCEPT ![i] =
                [llamadas |-> @.llamadas + 1,
                 cargas |-> IF cargo THEN @.cargas + 1 ELSE @.cargas,
                 perdidas |-> IF cargo /\ res = "transitorio" THEN @.perdidas + 1
                              ELSE @.perdidas]]
    /\ UNCHANGED <<row, req, crashes>>

\* Mutant: one attempt more than PRESENTACION_MAX_INTENTOS.
EstadoFinalLate(res, intentos) ==
    CASE res \in Exitos -> res
      [] res = "transitorio" /\ intentos <= MaxIntentos -> "en_cola"
      [] OTHER -> "error"

\* Mutant: the outcome of the attempt is written as the estado.
EstadoFinalRaw(res, intentos) ==
    IF res = "transitorio" /\ intentos < MaxIntentos THEN "en_cola" ELSE res

\* Mutant: an attempt that runs out of retries is left as it was claimed.
EstadoFinalKept(res, intentos) ==
    CASE res \in Exitos -> res
      [] res = "transitorio" /\ intentos < MaxIntentos -> "en_cola"
      [] OTHER -> "presentando"

\* The estado process_one leaves for an outcome; a retry depends on the attempts used.
EstadoFinal(res, intentos) ==
    CASE res \in Exitos -> res
      [] res = "transitorio" /\ intentos < MaxIntentos -> "en_cola"
      [] OTHER -> "error"

Guardar(w, res) ==
    /\ worker[w].pc = "respondida"
    /\ row' = [row EXCEPT ![worker[w].id].estado =
                Flush(@, worker[w].estado, EstadoFinal(res, worker[w].intentos))]
    /\ worker' = [worker EXCEPT ![w] = Ocioso]

ProcessCommit(w) ==
    /\ Guardar(w, worker[w].res)
    /\ UNCHANGED <<req, ojv, crashes>>

\* The commit of a success raises inside the try: the handler records it as an error.
ProcessCommitFails(w) ==
    /\ crashes < MaxCrashes
    /\ worker[w].res \in Exitos
    /\ Guardar(w, "fallo")
    /\ crashes' = crashes + 1
    /\ UNCHANGED <<req, ojv>>

\* The process dies, or a commit raises out of run_once and run_loop logs it.
Abandon(w) ==
    /\ crashes < MaxCrashes
    /\ worker[w] # Ocioso
    /\ worker' = [worker EXCEPT ![w] = Ocioso]
    /\ crashes' = crashes + 1
    /\ UNCHANGED <<row, req, ojv>>

-----------------------------------------------------------------------------
HandlerStep(r) ==
    \/ \E k \in Keys, m \in Modos : CreateRead(r, k, m)
    \/ CreateCommit(r)
    \/ \E i \in Ids, p \in Quien : RevisarRead(r, i, p)
    \/ RevisarCommit(r)
    \/ \E i \in Ids, p \in Quien : EnviarRead(r, i, p)
    \/ EnviarCommit(r)
    \/ RequestFails(r)

\* One poll of run_loop carried through: the part of a worker that is scheduled fairly.
WorkerStep(w) ==
    \/ \E i \in Ids : ClaimSelect(w, i)
    \/ ClaimCommit(w)
    \/ \E res \in Exitos \cup Fallas, cargo \in BOOLEAN : Presentar(w, res, cargo)
    \/ ProcessCommit(w)

Next ==
    \/ \E r \in Requests : HandlerStep(r)
    \/ \E w \in Workers : WorkerStep(w) \/ ProcessCommitFails(w) \/ Abandon(w)

Spec == Init /\ [][Next]_vars

\* run_loop polls for ever and every call in it is bounded by a timeout.
FairSpec == Spec /\ \A w \in Workers : WF_vars(WorkerStep(w))
-----------------------------------------------------------------------------
(* What must hold *)

Row == [estado : Estados, key : Keys \cup {NoKey}, modo : Modos, intentos : Nat,
        revisado_por : Quien, revisado_at : BOOLEAN,
        confirmado_por : Quien, confirmado_at : BOOLEAN]
Handler == [op : {"libre", "create", "revisar", "enviar"}, id : Ids \cup {0},
            key : Keys \cup {NoKey}, modo : Modos, quien : Quien, leido : Quien]
Iteration == [pc : {"ocioso", "elegida", "tomada", "respondida"}, id : Ids \cup {0},
              estado : Estados, intentos : Nat,
              res : Exitos \cup Fallas \cup {"-"}]

\* The type invariant: the columns, the handlers' and the workers' copies keep their domains.
TypeOK ==
    /\ row \in [Ids -> Row]
    /\ req \in [Requests -> Handler]
    /\ worker \in [Workers -> Iteration]
    /\ ojv \in [Ids -> [llamadas : Nat, cargas : Nat, perdidas : Nat]]
    /\ crashes \in Nat

\* Two POSTs with one idempotency key, however they interleave, never leave two filings.
OneRowPerKey ==
    \A i, j \in Ids :
        row[i].estado # "ausente" /\ row[j].estado # "ausente" /\ row[i].key = row[j].key
            => i = j

\* A filing is loaded in the OJV again only if each load before was of a call that raised
\* TransientPresentacionError: no answer, hard failure, crash or lost commit makes a worker
\* present again what the OJV took.
LoadedAgainOnlyIfLost ==
    [][\A i \in Ids : ojv'[i].cargas > ojv[i].cargas => ojv[i].cargas = ojv[i].perdidas]_vars

\* PRESENTACION_MAX_INTENTOS bounds the calls really made to the OJV, not only the column.
CallsBounded == \A i \in Ids : ojv[i].llamadas <= MaxIntentos

Sostiene(w, i) == worker[w].id = i /\ worker[w].pc \in {"tomada", "respondida"}

\* A filing stays in "presentando" with no worker behind it only when a crash left it there.
OrphansOnlyByCrash ==
    Cardinality({i \in Ids : row[i].estado = "presentando"
                              /\ \A w \in Workers : ~Sostiene(w, i)}) <= crashes

\* Every queued filing leaves the queue for good: a filing that keeps failing cannot
\* hold back the ones behind it, and no filing waits for ever.
QueueDrains == \A i \in Ids : <>[](row[i].estado # "en_cola")

\* The revisar/enviar docstrings: who sends a filing is not who reviewed it.
FourEyes ==
    \A i \in Ids :
        row[i].estado = "envio_confirmado"
            => ~SamePerson(row[i].confirmado_por, row[i].revisado_por)

\* The refinement mapping to what the API promises.
Phase(estado) ==
    CASE estado = "ausente" -> "absent"
      [] estado = "en_cola" -> "queued"
      [] estado = "presentando" -> "working"
      [] estado \in Bandeja -> "bandeja"
      [] estado \in Cerrada -> "closed"

Promise == INSTANCE PresentacionPromise WITH
    phase <- [i \in Ids |-> Phase(row[i].estado)],
    attempts <- [i \in Ids |-> row[i].intentos],
    reviewed <- [i \in Ids |-> row[i].revisado_at],
    confirmed <- [i \in Ids |-> row[i].confirmado_at]

\* The queue keeps the promise with every interleaving of handlers and one worker.
KeepsPromise == Promise!Spec
=============================================================================
