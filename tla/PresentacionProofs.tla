-------------------------- MODULE PresentacionProofs --------------------------
(***************************************************************************)
(* What holds of Presentacion for every number of rows, keys, people,      *)
(* handlers, workers and attempts, and what holds when one worker drains   *)
(* the queue.                                                              *)
(***************************************************************************)
EXTENDS Presentacion, FiniteSetTheorems, TLAPS

\* A handler or a worker that holds a copy holds one of a row that exists, and rows are
\* never deleted: without it a commit could write a row the table does not have.
CopiasVivas ==
    /\ \A r \in Requests :
        req[r].op \in {"revisar", "enviar"}
            => req[r].id \in Ids /\ row[req[r].id].estado # "ausente"
    /\ \A w \in Workers :
        worker[w].pc # "ocioso"
            => worker[w].id \in Ids /\ row[worker[w].id].estado # "ausente"

Inv == TypeOK /\ CopiasVivas /\ OneRowPerKey

LEMMA InitInv == Init => Inv
<1> SUFFICES ASSUME Init PROVE Inv
  OBVIOUS
<1> USE DEF Init, Ids
<1>1. TypeOK
  BY NadieAssumption DEF TypeOK, Row, Handler, Iteration, Ausente, Fila, Libre, Ocioso, NoKey,
     Estados, Modos, Quien, Bandeja, Cerrada
<1>2. CopiasVivas
  BY DEF CopiasVivas, Libre, Ocioso
<1>3. OneRowPerKey
  BY DEF OneRowPerKey, Ausente, Fila
<1> QED
  BY <1>1, <1>2, <1>3 DEF Inv

-----------------------------------------------------------------------------
(* One lemma per action *)

LEMMA InvCreateRead ==
    ASSUME Inv, NEW r \in Requests, NEW k \in Keys, NEW m \in Modos, CreateRead(r, k, m)
    PROVE  Inv'
<1> USE DEF Inv, CreateRead
<1>1. TypeOK'
  BY DEF TypeOK, Handler, Libre, Quien, NoKey
<1>2. CopiasVivas'
  BY DEF CopiasVivas, TypeOK, Handler, Libre
<1>3. OneRowPerKey'
  BY DEF OneRowPerKey
<1> QED
  BY <1>1, <1>2, <1>3

LEMMA InvCreateCommit ==
    ASSUME Inv, NEW r \in Requests, CreateCommit(r)
    PROVE  Inv'
<1> USE DEF Inv
<1>. PICK i \in Ids :
        /\ IsNextId(i)
        /\ row' = [row EXCEPT ![i] = Fila("en_cola", req[r].key, req[r].modo)]
  BY DEF CreateCommit
<1> DEFINE nueva == Fila("en_cola", req[r].key, req[r].modo)
<1>1. /\ nueva \in Row
      /\ nueva.key = req[r].key
      /\ nueva.estado = "en_cola"
  BY DEF TypeOK, Row, Handler, Fila, Estados, Modos, Quien, NoKey
<1>2. TypeOK'
  BY <1>1 DEF TypeOK, CreateCommit, Handler, Libre, Quien, NoKey, Modos
<1>3. \A j \in Ids : row[j].estado # "ausente" => row'[j].estado # "ausente"
  BY <1>1 DEF TypeOK, Row
<1>4. CopiasVivas'
  BY <1>3 DEF CopiasVivas, TypeOK, CreateCommit, Handler, Libre
<1>5. OneRowPerKey'
  <2> SUFFICES ASSUME NEW a \in Ids, NEW b \in Ids, row'[a].estado # "ausente",
                      row'[b].estado # "ausente", row'[a].key = row'[b].key
               PROVE  a = b
    BY DEF OneRowPerKey
  <2>1. \A j \in Ids : row[j].estado # "ausente" => row[j].key # req[r].key
    BY DEF CreateCommit, KeyTaken
  <2>2. \A j \in Ids : j # i => row'[j] = row[j]
    BY DEF TypeOK
  <2>3. row'[i] = nueva
    BY DEF TypeOK
  <2>4. row[a].estado # "ausente" /\ row[b].estado # "ausente" /\ row[a].key = row[b].key
            => a = b
    BY DEF OneRowPerKey
  <2> QED
    BY <1>1, <2>1, <2>2, <2>3, <2>4
<1> QED
  BY <1>2, <1>4, <1>5

LEMMA InvRevisarRead ==
    ASSUME Inv, NEW r \in Requests, NEW i \in Ids, NEW p \in Quien, RevisarRead(r, i, p)
    PROVE  Inv'
<1> USE DEF Inv, RevisarRead
<1>1. TypeOK'
  BY DEF TypeOK, Handler, Libre, Quien, NoKey, Row
<1>2. CopiasVivas'
  BY DEF CopiasVivas, TypeOK, Handler, Libre
<1>3. OneRowPerKey'
  BY DEF OneRowPerKey
<1> QED
  BY <1>1, <1>2, <1>3

LEMMA InvEnviarRead ==
    ASSUME Inv, NEW r \in Requests, NEW i \in Ids, NEW p \in Quien, EnviarRead(r, i, p)
    PROVE  Inv'
<1> USE DEF Inv, EnviarRead
<1>1. TypeOK'
  BY DEF TypeOK, Handler, Libre, Quien, NoKey, Row
<1>2. CopiasVivas'
  BY DEF CopiasVivas, TypeOK, Handler, Libre
<1>3. OneRowPerKey'
  BY DEF OneRowPerKey
<1> QED
  BY <1>1, <1>2, <1>3

LEMMA InvRequestFails ==
    ASSUME Inv, NEW r \in Requests, RequestFails(r)
    PROVE  Inv'
<1> USE DEF Inv, RequestFails
<1>1. TypeOK'
  BY DEF TypeOK, Handler, Libre, Quien, NoKey, Modos
<1>2. CopiasVivas'
  BY DEF CopiasVivas, TypeOK, Handler, Libre
<1>3. OneRowPerKey'
  BY DEF OneRowPerKey
<1> QED
  BY <1>1, <1>2, <1>3

\* A step that writes one existing row, leaves it existing and keeps its key, keeps the
\* keys apart and every copy alive.
LEMMA WriteKeepsKeys ==
    ASSUME Inv, NEW i \in Ids, row[i].estado # "ausente", NEW x \in Row,
           x.estado # "ausente", x.key = row[i].key,
           row' = [row EXCEPT ![i] = x]
    PROVE  /\ OneRowPerKey'
           /\ row' \in [Ids -> Row]
           /\ \A j \in Ids : row[j].estado # "ausente" => row'[j].estado # "ausente"
<1>1. row \in [Ids -> Row]
  BY DEF Inv, TypeOK
<1>2. \A j \in Ids : /\ row'[j].key = row[j].key
                     /\ row'[j].estado # "ausente" <=> row[j].estado # "ausente"
  BY <1>1
<1> QED
  BY <1>1, <1>2 DEF Inv, OneRowPerKey

LEMMA InvRevisarCommit ==
    ASSUME Inv, NEW r \in Requests, RevisarCommit(r)
    PROVE  Inv'
<1> DEFINE i == req[r].id
           x == [row[i] EXCEPT !.estado = "revisado",
                               !.revisado_por = Escrito(r, row[i].revisado_por),
                               !.revisado_at = TRUE]
<1>1. i \in Ids /\ row[i].estado # "ausente"
  BY DEF Inv, CopiasVivas, RevisarCommit
<1>2. x \in Row /\ x.key = row[i].key /\ x.estado # "ausente"
  <2>1. row[i] \in Row /\ req[r] \in Handler
    BY <1>1 DEF Inv, TypeOK
  <2>2. Escrito(r, row[i].revisado_por) \in Quien
    BY <2>1 DEF Row, Handler, Escrito, Flush
  <2> QED
    BY <2>1, <2>2 DEF Row, Estados, Bandeja
<1>3. row' = [row EXCEPT ![i] = x]
  BY DEF RevisarCommit
<1>4. /\ OneRowPerKey'
      /\ row' \in [Ids -> Row]
      /\ \A j \in Ids : row[j].estado # "ausente" => row'[j].estado # "ausente"
  <2> HIDE DEF x, i
  <2> QED
    BY <1>1, <1>2, <1>3, WriteKeepsKeys
<1>5. TypeOK'
  BY <1>4 DEF Inv, TypeOK, RevisarCommit, Handler, Libre, Quien, NoKey, Modos
<1>6. CopiasVivas'
  BY <1>4 DEF Inv, CopiasVivas, TypeOK, RevisarCommit, Handler, Libre
<1> QED
  BY <1>4, <1>5, <1>6 DEF Inv

LEMMA InvEnviarCommit ==
    ASSUME Inv, NEW r \in Requests, EnviarCommit(r)
    PROVE  Inv'
<1> DEFINE i == req[r].id
           x == [row[i] EXCEPT !.estado = "envio_confirmado",
                               !.confirmado_por = Escrito(r, row[i].confirmado_por),
                               !.confirmado_at = TRUE]
<1>1. i \in Ids /\ row[i].estado # "ausente"
  BY DEF Inv, CopiasVivas, EnviarCommit
<1>2. x \in Row /\ x.key = row[i].key /\ x.estado # "ausente"
  <2>1. row[i] \in Row /\ req[r] \in Handler
    BY <1>1 DEF Inv, TypeOK
  <2>2. Escrito(r, row[i].confirmado_por) \in Quien
    BY <2>1 DEF Row, Handler, Escrito, Flush
  <2> QED
    BY <2>1, <2>2 DEF Row, Estados, Bandeja
<1>3. row' = [row EXCEPT ![i] = x]
  BY DEF EnviarCommit
<1>4. /\ OneRowPerKey'
      /\ row' \in [Ids -> Row]
      /\ \A j \in Ids : row[j].estado # "ausente" => row'[j].estado # "ausente"
  <2> HIDE DEF x, i
  <2> QED
    BY <1>1, <1>2, <1>3, WriteKeepsKeys
<1>5. TypeOK'
  BY <1>4 DEF Inv, TypeOK, EnviarCommit, Handler, Libre, Quien, NoKey, Modos
<1>6. CopiasVivas'
  BY <1>4 DEF Inv, CopiasVivas, TypeOK, EnviarCommit, Handler, Libre
<1> QED
  BY <1>4, <1>5, <1>6 DEF Inv

LEMMA InvClaimSelect ==
    ASSUME Inv, NEW w \in Workers, NEW i \in Ids, ClaimSelect(w, i)
    PROVE  Inv'
<1> USE DEF Inv, ClaimSelect
<1>1. TypeOK'
  BY DEF TypeOK, Iteration, Ocioso, Row, Estados, Exitos, Fallas
<1>2. CopiasVivas'
  BY DEF CopiasVivas, TypeOK, Iteration, Ocioso, IsOldestQueued
<1>3. OneRowPerKey'
  BY DEF OneRowPerKey
<1> QED
  BY <1>1, <1>2, <1>3

LEMMA InvClaimCommit ==
    ASSUME Inv, NEW w \in Workers, ClaimCommit(w)
    PROVE  Inv'
<1> DEFINE i == worker[w].id
           x == [row[i] EXCEPT !.estado = "presentando", !.intentos = worker[w].intentos + 1]
<1>1. i \in Ids /\ row[i].estado # "ausente"
  BY DEF Inv, CopiasVivas, ClaimCommit
<1>2. x \in Row /\ x.key = row[i].key /\ x.estado # "ausente"
  <2>1. row[i] \in Row /\ worker[w].intentos + 1 \in Nat
    BY <1>1 DEF Inv, TypeOK, Iteration
  <2> QED
    BY <2>1 DEF Row, Estados
<1>3. row' = [row EXCEPT ![i] = x]
  BY DEF ClaimCommit
<1>4. /\ OneRowPerKey'
      /\ row' \in [Ids -> Row]
      /\ \A j \in Ids : row[j].estado # "ausente" => row'[j].estado # "ausente"
  <2> HIDE DEF x, i
  <2> QED
    BY <1>1, <1>2, <1>3, WriteKeepsKeys
<1>5. TypeOK'
  BY <1>4 DEF Inv, TypeOK, ClaimCommit, Iteration
<1>6. CopiasVivas'
  BY <1>4 DEF Inv, CopiasVivas, TypeOK, ClaimCommit, Iteration
<1> QED
  BY <1>4, <1>5, <1>6 DEF Inv

LEMMA InvPresentar ==
    ASSUME Inv, NEW w \in Workers, NEW res \in Exitos \cup Fallas, NEW cargo \in BOOLEAN,
           Presentar(w, res, cargo)
    PROVE  Inv'
<1> USE DEF Inv, Presentar
<1>1. worker[w].id \in Ids
  BY DEF CopiasVivas
<1>2. TypeOK'
  <2> DEFINE i == worker[w].id
             y == [worker[w] EXCEPT !.pc = "respondida", !.res = res,
                                    !.estado = row[i].estado, !.intentos = row[i].intentos]
             z == [llamadas |-> ojv[i].llamadas + 1,
                   cargas |-> IF cargo THEN ojv[i].cargas + 1 ELSE ojv[i].cargas,
                   perdidas |-> IF cargo /\ res = "transitorio" THEN ojv[i].perdidas + 1
                                ELSE ojv[i].perdidas]
  <2>1. row[i] \in Row /\ worker[w] \in Iteration /\ ojv[i] \in [llamadas : Nat, cargas : Nat, perdidas : Nat]
    BY <1>1 DEF TypeOK
  <2>2. y \in Iteration
    BY <2>1 DEF Iteration, Row
  <2>3. z \in [llamadas : Nat, cargas : Nat, perdidas : Nat]
    BY <2>1
  <2>4. worker' = [worker EXCEPT ![w] = y] /\ ojv' = [ojv EXCEPT ![i] = z]
    OBVIOUS
  <2>5. worker' \in [Workers -> Iteration]
    BY <2>2, <2>4 DEF TypeOK
  <2>6. ojv' \in [Ids -> [llamadas : Nat, cargas : Nat, perdidas : Nat]]
    BY <2>3, <2>4 DEF TypeOK
  <2> QED
    BY <2>5, <2>6 DEF TypeOK
<1>3. CopiasVivas'
  BY <1>1 DEF CopiasVivas, TypeOK, Iteration
<1>4. OneRowPerKey'
  BY DEF OneRowPerKey
<1> QED
  BY <1>2, <1>3, <1>4

\* The commit that ends an iteration, for whatever outcome it records.
LEMMA InvGuardar ==
    ASSUME Inv, NEW w \in Workers, NEW res \in Exitos \cup Fallas \cup {"-"}, Guardar(w, res),
           UNCHANGED <<req, ojv>>, crashes' \in Nat
    PROVE  Inv'
<1> DEFINE i == worker[w].id
           x == [row[i] EXCEPT !.estado = Flush(@, worker[w].estado,
                                                EstadoFinal(res, worker[w].intentos))]
<1>1. i \in Ids /\ row[i].estado # "ausente"
  BY DEF Inv, CopiasVivas, Guardar
<1>2. EstadoFinal(res, worker[w].intentos) \in Estados \ {"ausente"}
  BY DEF EstadoFinal, Exitos, Estados, Bandeja, Cerrada
<1>3. x \in Row /\ x.key = row[i].key /\ x.estado # "ausente"
  BY <1>1, <1>2 DEF Inv, TypeOK, Row, Flush
<1>4. row' = [row EXCEPT ![i] = x]
  BY DEF Guardar, Inv, TypeOK, Row
<1>5. /\ OneRowPerKey'
      /\ row' \in [Ids -> Row]
      /\ \A j \in Ids : row[j].estado # "ausente" => row'[j].estado # "ausente"
  <2> HIDE DEF x, i
  <2> QED
    BY <1>1, <1>3, <1>4, WriteKeepsKeys
<1>6. TypeOK'
  BY <1>5 DEF Inv, TypeOK, Guardar, Iteration, Ocioso, Estados, Exitos, Fallas
<1>7. CopiasVivas'
  BY <1>5 DEF Inv, CopiasVivas, TypeOK, Guardar, Iteration, Ocioso
<1> QED
  BY <1>5, <1>6, <1>7 DEF Inv

LEMMA InvAbandon ==
    ASSUME Inv, NEW w \in Workers, Abandon(w)
    PROVE  Inv'
<1> USE DEF Inv, Abandon
<1>1. TypeOK'
  BY DEF TypeOK, Iteration, Ocioso, Estados, Exitos, Fallas
<1>2. CopiasVivas'
  BY DEF CopiasVivas, TypeOK, Iteration, Ocioso
<1>3. OneRowPerKey'
  BY DEF OneRowPerKey
<1> QED
  BY <1>1, <1>2, <1>3
-----------------------------------------------------------------------------
LEMMA NextInv == Inv /\ [Next]_vars => Inv'
<1> SUFFICES ASSUME Inv, [Next]_vars PROVE Inv'
  OBVIOUS
<1>1. ASSUME NEW r \in Requests, HandlerStep(r) PROVE Inv'
  BY <1>1, InvCreateRead, InvCreateCommit, InvRevisarRead, InvRevisarCommit, InvEnviarRead,
     InvEnviarCommit, InvRequestFails DEF HandlerStep
<1>2. ASSUME NEW w \in Workers, WorkerStep(w) PROVE Inv'
  <2>1. CASE ProcessCommit(w)
    <3>1. worker[w].res \in Exitos \cup Fallas \cup {"-"} /\ crashes' \in Nat
      BY <2>1 DEF Inv, TypeOK, Iteration, ProcessCommit
    <3> QED
      BY <2>1, <3>1, InvGuardar DEF ProcessCommit
  <2> QED
    BY <1>2, <2>1, InvClaimSelect, InvClaimCommit, InvPresentar DEF WorkerStep
<1>3. ASSUME NEW w \in Workers, ProcessCommitFails(w) PROVE Inv'
  <2>1. "fallo" \in Exitos \cup Fallas \cup {"-"} /\ crashes' \in Nat
    BY <1>3 DEF Inv, TypeOK, ProcessCommitFails, Fallas
  <2> QED
    BY <1>3, <2>1, InvGuardar DEF ProcessCommitFails
<1>4. ASSUME NEW w \in Workers, Abandon(w) PROVE Inv'
  BY <1>4, InvAbandon
<1>5. CASE UNCHANGED vars
  BY <1>5 DEF Inv, TypeOK, CopiasVivas, OneRowPerKey, vars
<1> QED
  BY <1>1, <1>2, <1>3, <1>4, <1>5 DEF Next

THEOREM Invariance == Spec => []Inv
<1> QED
  BY InitInv, NextInv, PTL DEF Spec

\* The rows and every copy of them keep their types, with any number of handlers and
\* workers (models/presentacion.py, presentaciones.py, presentacion_worker.py).
THEOREM TypeCorrect == Spec => []TypeOK
<1>1. Inv => TypeOK
  BY DEF Inv
<1> QED
  BY <1>1, Invariance, PTL

\* However many POSTs, reviews, confirmations and workers interleave, one idempotency key
\* never has two filings (the unique index behind create_presentacion's look-up).
THEOREM OneFilingPerKey == Spec => []OneRowPerKey
<1>1. Inv => OneRowPerKey
  BY DEF Inv
<1> QED
  BY <1>1, Invariance, PTL
-----------------------------------------------------------------------------
(* One worker *)

SingleWorker == \A v, w \in Workers : v = w

\* The worker's copy agrees with the row: nobody else writes a row the worker holds.
Tomas ==
    \A w \in Workers :
        /\ worker[w].pc = "elegida"
            => /\ row[worker[w].id].estado = "en_cola"
               /\ row[worker[w].id].intentos = worker[w].intentos
        /\ worker[w].pc = "tomada"
            => /\ row[worker[w].id].estado = "presentando"
               /\ ojv[worker[w].id].llamadas < row[worker[w].id].intentos
               /\ ojv[worker[w].id].cargas = ojv[worker[w].id].perdidas
        /\ worker[w].pc = "respondida"
            => /\ row[worker[w].id].estado = "presentando"
               /\ worker[w].estado = "presentando"
               /\ row[worker[w].id].intentos = worker[w].intentos
               /\ worker[w].res = "transitorio"
                    => ojv[worker[w].id].cargas = ojv[worker[w].id].perdidas

\* A reviewer's or a sender's row is still in the Bandeja when the handler commits.
Revisiones ==
    \A r \in Requests :
        /\ req[r].op \in {"revisar", "enviar"} => row[req[r].id].estado \in Bandeja
        /\ req[r].op = "enviar" => row[req[r].id].revisado_at

\* What a filing has cost so far, by where it stands.
Cuentas ==
    \A i \in Ids :
        /\ ojv[i].llamadas <= row[i].intentos
        /\ row[i].intentos <= MaxIntentos
        /\ row[i].estado \in {"ausente", "en_cola"} => ojv[i].cargas = ojv[i].perdidas
        /\ row[i].estado = "en_cola" => row[i].intentos < MaxIntentos
        /\ row[i].estado \in {"revisado", "envio_confirmado"} => row[i].revisado_at
        /\ row[i].estado = "ausente"
            => row[i].intentos = 0 /\ ~row[i].revisado_at /\ ~row[i].confirmado_at

Acuerdo == Tomas /\ Revisiones /\ Cuentas
IInv == Inv /\ Acuerdo

\* The types of one row, one copy and one count, stated once.
LEMMA Tipos ==
    ASSUME Inv
    PROVE  /\ row \in [Ids -> Row]
           /\ worker \in [Workers -> Iteration]
           /\ req \in [Requests -> Handler]
           /\ ojv \in [Ids -> [llamadas : Nat, cargas : Nat, perdidas : Nat]]
           /\ \A i \in Ids : row[i].intentos \in Nat /\ row[i].estado \in Estados
           /\ \A i \in Ids : ojv[i].llamadas \in Nat /\ ojv[i].cargas \in Nat /\ ojv[i].perdidas \in Nat
           /\ \A r \in Requests : req[r].op \in {"revisar", "enviar"} => req[r].id \in Ids
           /\ \A w \in Workers : /\ worker[w].pc # "ocioso" => worker[w].id \in Ids
                                 /\ worker[w].intentos \in Nat
<1>1. /\ row \in [Ids -> Row]
      /\ worker \in [Workers -> Iteration]
      /\ req \in [Requests -> Handler]
      /\ ojv \in [Ids -> [llamadas : Nat, cargas : Nat, perdidas : Nat]]
  BY DEF Inv, TypeOK
<1>2. \A i \in Ids : row[i].intentos \in Nat /\ row[i].estado \in Estados
  BY <1>1 DEF Row
<1>3. \A i \in Ids : ojv[i].llamadas \in Nat /\ ojv[i].cargas \in Nat /\ ojv[i].perdidas \in Nat
  BY <1>1
<1>4. \A w \in Workers : worker[w].intentos \in Nat
  BY <1>1 DEF Iteration
<1> QED
  BY <1>1, <1>2, <1>3, <1>4 DEF Inv, CopiasVivas

LEMMA InitAcuerdo == Init => Acuerdo
<1> SUFFICES ASSUME Init PROVE Acuerdo
  OBVIOUS
<1>1. Tomas /\ Revisiones
  BY DEF Init, Tomas, Revisiones, Ocioso, Libre
<1>2. Cuentas
  BY MaxIntentosAssumption DEF Init, Cuentas, Ausente, Fila
<1> QED
  BY <1>1, <1>2 DEF Acuerdo

LEMMA AcuerdoRead ==
    ASSUME IInv, NEW r \in Requests, UNCHANGED <<row, worker, ojv>>,
           NEW h, req' = [req EXCEPT ![r] = h],
           h.op \in {"revisar", "enviar"} => row[h.id].estado \in Bandeja,
           h.op = "enviar" => row[h.id].revisado_at
    PROVE  Acuerdo'
<1>1. Tomas' /\ Cuentas'
  BY DEF IInv, Acuerdo, Tomas, Cuentas
<1>2. Revisiones'
  BY Tipos DEF IInv, Acuerdo, Revisiones
<1> QED
  BY <1>1, <1>2 DEF Acuerdo

LEMMA AcuerdoCreateCommit ==
    ASSUME IInv, NEW r \in Requests, CreateCommit(r)
    PROVE  Acuerdo'
<1>. PICK i \in Ids : /\ row[i].estado = "ausente"
                      /\ row' = [row EXCEPT ![i] = Fila("en_cola", req[r].key, req[r].modo)]
  BY DEF CreateCommit, IsNextId
<1> USE Tipos DEF IInv, Acuerdo
<1>1. /\ row'[i].estado = "en_cola" /\ row'[i].intentos = 0
      /\ \A j \in Ids : j # i => row'[j] = row[j]
  BY DEF Fila
<1>2. Tomas'
  BY <1>1 DEF Tomas, CreateCommit, Inv, CopiasVivas
<1>3. Revisiones'
  BY <1>1 DEF Revisiones, CreateCommit, Libre, Inv, CopiasVivas, Bandeja
<1>4. Cuentas'
  BY <1>1, MaxIntentosAssumption DEF Cuentas, CreateCommit
<1> QED
  BY <1>2, <1>3, <1>4

\* A handler writes only rows of the Bandeja, and leaves them there.
LEMMA AcuerdoHandlerCommit ==
    ASSUME IInv, NEW r \in Requests, RevisarCommit(r) \/ EnviarCommit(r)
    PROVE  Acuerdo'
<1> USE Tipos DEF IInv, Acuerdo
<1> DEFINE i == req[r].id
<1>1. i \in Ids /\ row[i].estado \in Bandeja
  BY DEF RevisarCommit, EnviarCommit, Revisiones
<1>2. /\ row'[i].estado \in Bandeja
      /\ row'[i].intentos = row[i].intentos
      /\ row[i].revisado_at => row'[i].revisado_at
      /\ row'[i].revisado_at
      /\ \A j \in Ids : j # i => row'[j] = row[j]
  <2>1. row[i] \in Row
    BY <1>1
  <2>2. CASE RevisarCommit(r)
    BY <1>1, <2>1, <2>2 DEF RevisarCommit, Bandeja, Row
  <2>3. CASE EnviarCommit(r)
    BY <1>1, <2>1, <2>3 DEF EnviarCommit, Bandeja, Row, Revisiones
  <2> QED
    BY <2>2, <2>3
<1>3. UNCHANGED <<worker, ojv>> /\ req' = [req EXCEPT ![r] = Libre]
  BY DEF RevisarCommit, EnviarCommit
<1> HIDE DEF i
<1>4. Tomas'
  BY <1>1, <1>2, <1>3 DEF Tomas, Bandeja
<1>5. Revisiones'
  BY <1>1, <1>2, <1>3 DEF Revisiones, Libre
<1>6. Cuentas'
  BY <1>1, <1>2, <1>3 DEF Cuentas, Bandeja
<1> QED
  BY <1>4, <1>5, <1>6

LEMMA AcuerdoClaimSelect ==
    ASSUME IInv, NEW w \in Workers, NEW i \in Ids, ClaimSelect(w, i)
    PROVE  Acuerdo'
<1> USE Tipos DEF IInv, Acuerdo, ClaimSelect
<1>1. Tomas'
  BY DEF Tomas, Ocioso, IsOldestQueued
<1>2. Revisiones' /\ Cuentas'
  BY DEF Revisiones, Cuentas
<1> QED
  BY <1>1, <1>2

LEMMA AcuerdoClaimCommit ==
    ASSUME IInv, SingleWorker, NEW w \in Workers, ClaimCommit(w)
    PROVE  Acuerdo'
<1> USE Tipos DEF IInv, Acuerdo
<1> DEFINE i == worker[w].id
<1>1. /\ i \in Ids
      /\ row[i].estado = "en_cola"
      /\ row[i].intentos < MaxIntentos
      /\ ojv[i].cargas = ojv[i].perdidas
  BY DEF ClaimCommit, Tomas, Cuentas
<1>2. /\ row'[i].estado = "presentando"
      /\ row'[i].intentos = row[i].intentos + 1
      /\ \A j \in Ids : j # i => row'[j] = row[j]
  BY <1>1 DEF ClaimCommit, Tomas, Row
<1>3. /\ worker'[w].id = i /\ worker'[w].pc = "tomada"
      /\ UNCHANGED <<req, ojv>>
  BY DEF ClaimCommit, Iteration
<1> HIDE DEF i
<1>4. Tomas'
  BY <1>1, <1>2, <1>3 DEF Tomas, SingleWorker, Cuentas
<1>5. Revisiones'
  BY <1>1, <1>2, <1>3 DEF Revisiones, Bandeja
<1>6. Cuentas'
  BY <1>1, <1>2, <1>3, MaxIntentosAssumption DEF Cuentas
<1> QED
  BY <1>4, <1>5, <1>6

LEMMA AcuerdoPresentar ==
    ASSUME IInv, SingleWorker, NEW w \in Workers, NEW res \in Exitos \cup Fallas,
           NEW cargo \in BOOLEAN, Presentar(w, res, cargo)
    PROVE  Acuerdo'
<1> USE Tipos DEF IInv, Acuerdo
<1> DEFINE i == worker[w].id
<1>1. /\ i \in Ids
      /\ row[i].estado = "presentando"
      /\ ojv[i].llamadas < row[i].intentos
      /\ ojv[i].cargas = ojv[i].perdidas
  BY DEF Presentar, Tomas
<1>2. /\ worker'[w].id = i /\ worker'[w].pc = "respondida" /\ worker'[w].res = res
      /\ worker'[w].estado = row[i].estado /\ worker'[w].intentos = row[i].intentos
      /\ UNCHANGED <<row, req>>
  BY DEF Presentar, Iteration
<1>3. /\ ojv'[i].llamadas = ojv[i].llamadas + 1
      /\ res = "transitorio" => ojv'[i].cargas = ojv'[i].perdidas
      /\ \A j \in Ids : j # i => ojv'[j] = ojv[j]
  BY <1>1 DEF Presentar
<1> HIDE DEF i
<1>4. Tomas'
  BY <1>1, <1>2, <1>3 DEF Tomas, SingleWorker
<1>5. Revisiones'
  BY <1>2 DEF Revisiones
<1>6. Cuentas'
  BY <1>1, <1>2, <1>3 DEF Cuentas
<1> QED
  BY <1>4, <1>5, <1>6

LEMMA AcuerdoGuardar ==
    ASSUME IInv, SingleWorker, NEW w \in Workers, NEW res, Guardar(w, res),
           res = worker[w].res \/ res = "fallo", UNCHANGED <<req, ojv>>
    PROVE  Acuerdo'
<1> USE Tipos DEF IInv, Acuerdo
<1> DEFINE i == worker[w].id
<1>1. /\ i \in Ids
      /\ row[i].estado = "presentando"
      /\ worker[w].estado = "presentando"
      /\ row[i].intentos = worker[w].intentos
      /\ worker[w].res = "transitorio" => ojv[i].cargas = ojv[i].perdidas
  BY DEF Guardar, Tomas
<1>2. /\ row'[i].estado = EstadoFinal(res, row[i].intentos)
      /\ row'[i].intentos = row[i].intentos
      /\ \A j \in Ids : j # i => row'[j] = row[j]
  BY <1>1 DEF Guardar, Flush, Row
<1>3. \/ row'[i].estado = "en_cola" /\ res = "transitorio" /\ row[i].intentos < MaxIntentos
      \/ row'[i].estado \in Exitos \cup {"error"}
  BY <1>2, MaxIntentosAssumption DEF EstadoFinal
<1>4. worker' = [worker EXCEPT ![w] = Ocioso]
  BY DEF Guardar
<1> HIDE DEF i
<1>5. Tomas'
  BY <1>4 DEF Tomas, SingleWorker, Ocioso
<1>6. Revisiones'
  BY <1>1, <1>2 DEF Revisiones, Bandeja
<1>7. Cuentas'
  BY <1>1, <1>2, <1>3 DEF Cuentas, Exitos
<1> QED
  BY <1>5, <1>6, <1>7

LEMMA AcuerdoAbandon ==
    ASSUME IInv, SingleWorker, NEW w \in Workers, Abandon(w)
    PROVE  Acuerdo'
<1> USE Tipos DEF IInv, Acuerdo, Abandon
<1>1. Tomas'
  BY DEF Tomas, SingleWorker, Ocioso
<1>2. Revisiones' /\ Cuentas'
  BY DEF Revisiones, Cuentas
<1> QED
  BY <1>1, <1>2
-----------------------------------------------------------------------------
LEMMA NextAcuerdo == IInv /\ SingleWorker /\ [Next]_vars => Acuerdo'
<1> SUFFICES ASSUME IInv, SingleWorker, [Next]_vars PROVE Acuerdo'
  OBVIOUS
<1>1. ASSUME NEW r \in Requests, HandlerStep(r) PROVE Acuerdo'
  <2>1. ASSUME NEW k \in Keys, NEW m \in Modos, CreateRead(r, k, m) PROVE Acuerdo'
    BY <2>1, AcuerdoRead DEF CreateRead, Libre
  <2>2. ASSUME NEW i \in Ids, NEW p \in Quien, RevisarRead(r, i, p) PROVE Acuerdo'
    BY <2>2, AcuerdoRead DEF RevisarRead, Libre, Bandeja
  <2>3. ASSUME NEW i \in Ids, NEW p \in Quien, EnviarRead(r, i, p) PROVE Acuerdo'
    <3>1. row[i].estado = "revisado" => row[i].revisado_at
      BY DEF IInv, Acuerdo, Cuentas
    <3> QED
      BY <2>3, <3>1, AcuerdoRead DEF EnviarRead, Libre, Bandeja
  <2>4. CASE RequestFails(r)
    BY <2>4, AcuerdoRead DEF RequestFails, Libre
  <2> QED
    BY <1>1, <2>1, <2>2, <2>3, <2>4, AcuerdoCreateCommit, AcuerdoHandlerCommit DEF HandlerStep
<1>2. ASSUME NEW w \in Workers, WorkerStep(w) PROVE Acuerdo'
  BY <1>2, AcuerdoClaimSelect, AcuerdoClaimCommit, AcuerdoPresentar, AcuerdoGuardar
     DEF WorkerStep, ProcessCommit
<1>3. ASSUME NEW w \in Workers, ProcessCommitFails(w) PROVE Acuerdo'
  BY <1>3, AcuerdoGuardar DEF ProcessCommitFails
<1>4. ASSUME NEW w \in Workers, Abandon(w) PROVE Acuerdo'
  BY <1>4, AcuerdoAbandon
<1>5. CASE UNCHANGED vars
  BY <1>5 DEF IInv, Acuerdo, Tomas, Revisiones, Cuentas, vars
<1> QED
  BY <1>1, <1>2, <1>3, <1>4, <1>5 DEF Next

THEOREM OneWorkerInvariance == ASSUME SingleWorker PROVE Spec => []IInv
<1>1. Init => IInv
  BY InitInv, InitAcuerdo DEF IInv
<1>2. IInv /\ [Next]_vars => IInv'
  BY NextInv, NextAcuerdo DEF IInv
<1> QED
  BY <1>1, <1>2, PTL DEF Spec

\* One worker presents again only a filing each of whose loads was lost to a call that
\* raised TransientPresentacionError, whatever else is abandoned or lost at its commit:
\* claim_next takes only en_cola rows, and no other outcome puts a row back there.
THEOREM LoadedOnce == ASSUME SingleWorker PROVE Spec => LoadedAgainOnlyIfLost
<1> DEFINE Solo == \A i \in Ids : ojv'[i].cargas > ojv[i].cargas => ojv[i].cargas = ojv[i].perdidas
<1>1. IInv /\ [Next]_vars => [Solo]_vars
  <2> SUFFICES ASSUME IInv, Next, NEW i \in Ids, ojv'[i].cargas > ojv[i].cargas
               PROVE  ojv[i].cargas = ojv[i].perdidas
    OBVIOUS
  <2> USE Tipos DEF IInv
  <2>1. ASSUME UNCHANGED ojv PROVE FALSE
    BY <2>1
  <2>2. ASSUME NEW r \in Requests, HandlerStep(r) PROVE FALSE
    BY <2>1, <2>2 DEF HandlerStep, CreateRead, CreateCommit, RevisarRead, RevisarCommit,
                      EnviarRead, EnviarCommit, RequestFails
  <2>3. ASSUME NEW w \in Workers, NEW res, NEW cargo, Presentar(w, res, cargo)
        PROVE  ojv[i].cargas = ojv[i].perdidas
    <3>1. i = worker[w].id
      BY <2>3 DEF Presentar
    <3> QED
      BY <2>3, <3>1 DEF Presentar, Acuerdo, Tomas
  <2>4. ASSUME NEW w \in Workers, WorkerStep(w) PROVE ojv[i].cargas = ojv[i].perdidas
    BY <2>1, <2>3, <2>4 DEF WorkerStep, ClaimSelect, ClaimCommit, ProcessCommit
  <2>5. ASSUME NEW w \in Workers, ProcessCommitFails(w) \/ Abandon(w) PROVE FALSE
    BY <2>1, <2>5 DEF ProcessCommitFails, Abandon
  <2> QED
    BY <2>2, <2>4, <2>5 DEF Next
<1>2. Spec => [][Next]_vars
  BY PTL DEF Spec
<1>3. Spec => [][Solo]_vars
  BY <1>1, <1>2, OneWorkerInvariance, PTL
<1> QED
  BY <1>3 DEF LoadedAgainOnlyIfLost

\* The OJV is called at most PRESENTACION_MAX_INTENTOS times for one filing: the attempt
\* is counted and committed before the call, so a crash never gives one back.
THEOREM CallsAreBounded == ASSUME SingleWorker PROVE Spec => []CallsBounded
<1>1. IInv => CallsBounded
  <2> SUFFICES ASSUME IInv, NEW i \in Ids PROVE ojv[i].llamadas <= MaxIntentos
    BY DEF CallsBounded
  <2>1. ojv[i].llamadas \in Nat /\ row[i].intentos \in Nat
    BY Tipos DEF IInv
  <2> QED
    BY <2>1, MaxIntentosAssumption DEF IInv, Acuerdo, Cuentas
<1> QED
  BY <1>1, OneWorkerInvariance, PTL
-----------------------------------------------------------------------------
(* The queue implements its promise *)

Fases == [i \in Ids |-> Phase(row[i].estado)]
Intentos == [i \in Ids |-> row[i].intentos]
Revisados == [i \in Ids |-> row[i].revisado_at]
Confirmados == [i \in Ids |-> row[i].confirmado_at]

LEMMA Fase ==
    /\ Phase("ausente") = "absent"
    /\ Phase("en_cola") = "queued"
    /\ Phase("presentando") = "working"
    /\ \A e \in Bandeja : Phase(e) = "bandeja"
    /\ \A e \in Cerrada : Phase(e) = "closed"
BY DEF Phase, Bandeja, Cerrada

\* What a write of one row does to the abstract state.
LEMMA Escribir ==
    ASSUME Inv, NEW i \in Ids, NEW x, row' = [row EXCEPT ![i] = x]
    PROVE  /\ Fases' = [Fases EXCEPT ![i] = Phase(x.estado)]
           /\ Intentos' = [Intentos EXCEPT ![i] = x.intentos]
           /\ Revisados' = [Revisados EXCEPT ![i] = x.revisado_at]
           /\ Confirmados' = [Confirmados EXCEPT ![i] = x.confirmado_at]
<1>1. row \in [Ids -> Row] /\ Ids' = Ids
  BY Tipos DEF Ids
<1> QED
  BY <1>1 DEF Fases, Intentos, Revisados, Confirmados

\* A write that keeps a column leaves its abstract image alone.
LEMMA Conservar ==
    ASSUME Inv, NEW i \in Ids, NEW x, row' = [row EXCEPT ![i] = x]
    PROVE  /\ Phase(x.estado) = Phase(row[i].estado) => Fases' = Fases
           /\ x.intentos = row[i].intentos => Intentos' = Intentos
           /\ x.revisado_at = row[i].revisado_at => Revisados' = Revisados
           /\ x.confirmado_at = row[i].confirmado_at => Confirmados' = Confirmados
<1>1. /\ Fases' = [Fases EXCEPT ![i] = Phase(x.estado)]
      /\ Intentos' = [Intentos EXCEPT ![i] = x.intentos]
      /\ Revisados' = [Revisados EXCEPT ![i] = x.revisado_at]
      /\ Confirmados' = [Confirmados EXCEPT ![i] = x.confirmado_at]
  BY Escribir
<1> QED
  BY <1>1 DEF Fases, Intentos, Revisados, Confirmados

LEMMA AcceptStep ==
    ASSUME IInv, NEW r \in Requests, CreateCommit(r)
    PROVE  Promise!Next
<1>. PICK i \in Ids : /\ row[i].estado = "ausente"
                      /\ row' = [row EXCEPT ![i] = Fila("en_cola", req[r].key, req[r].modo)]
  BY DEF CreateCommit, IsNextId
<1>. PICK x : /\ row' = [row EXCEPT ![i] = x]
              /\ x.estado = "en_cola" /\ x.intentos = 0
              /\ x.revisado_at = FALSE /\ x.confirmado_at = FALSE
  <2> DEFINE y == Fila("en_cola", req[r].key, req[r].modo)
  <2>1. /\ y.estado = "en_cola" /\ y.intentos = 0
        /\ y.revisado_at = FALSE /\ y.confirmado_at = FALSE
    BY DEF Fila
  <2>2. row' = [row EXCEPT ![i] = y]
    OBVIOUS
  <2> HIDE DEF y
  <2> QED
    BY <2>1, <2>2
<1>1. row[i].intentos = 0 /\ row[i].revisado_at = FALSE /\ row[i].confirmado_at = FALSE
  <2>1. row[i] \in Row
    BY Tipos DEF IInv
  <2>2. row[i].intentos = 0 /\ ~row[i].revisado_at /\ ~row[i].confirmado_at
    BY DEF IInv, Acuerdo, Cuentas
  <2> QED
    BY <2>1, <2>2 DEF Row
<1>2. Fases' = [Fases EXCEPT ![i] = "queued"] /\ Fases[i] = "absent"
  <2>1. Fases' = [Fases EXCEPT ![i] = Phase(x.estado)]
    BY Escribir DEF IInv
  <2>2. Fases[i] = "absent"
    BY Fase DEF Fases
  <2> QED
    BY <2>1, <2>2, Fase
<1>3. UNCHANGED <<Intentos, Revisados, Confirmados>>
  BY <1>1, Conservar DEF IInv
<1>4. Promise!Accept(i)
  BY <1>2, <1>3 DEF Promise!Accept, Promise!Move, Fases, Intentos, Revisados, Confirmados
<1> QED
  BY <1>4 DEF Promise!Next

LEMMA ReviewStep ==
    ASSUME IInv, NEW r \in Requests, RevisarCommit(r)
    PROVE  Promise!Next
<1>1. req[r].id \in Ids /\ row[req[r].id].estado \in Bandeja
  BY DEF IInv, Inv, CopiasVivas, RevisarCommit, Acuerdo, Revisiones
<1>. PICK i \in Ids : i = req[r].id
  BY <1>1
<1>2. row[i] \in Row
  BY Tipos DEF IInv
<1>. PICK x : /\ row' = [row EXCEPT ![i] = x]
              /\ x.estado = "revisado" /\ x.intentos = row[i].intentos
              /\ x.revisado_at = TRUE /\ x.confirmado_at = row[i].confirmado_at
  <2> DEFINE y == [row[i] EXCEPT !.estado = "revisado",
                                 !.revisado_por = Escrito(r, row[i].revisado_por),
                                 !.revisado_at = TRUE]
  <2>1. row' = [row EXCEPT ![i] = y]
    BY DEF RevisarCommit
  <2>2. /\ y.estado = "revisado" /\ y.intentos = row[i].intentos
        /\ y.revisado_at = TRUE /\ y.confirmado_at = row[i].confirmado_at
    BY <1>2 DEF Row
  <2> HIDE DEF y
  <2> QED
    BY <2>1, <2>2
<1>3. Phase(x.estado) = "bandeja" /\ Phase(row[i].estado) = "bandeja"
  BY <1>1, Fase DEF Bandeja
<1>4. UNCHANGED <<Fases, Intentos, Confirmados>> /\ Fases[i] = "bandeja"
  BY <1>3, Conservar DEF IInv, Fases
<1>5. Revisados' = [Revisados EXCEPT ![i] = TRUE]
  BY Escribir DEF IInv
<1>6. Promise!Review(i)
  BY <1>4, <1>5 DEF Promise!Review, Fases, Intentos, Revisados, Confirmados
<1> QED
  BY <1>6 DEF Promise!Next

LEMMA ConfirmStep ==
    ASSUME IInv, NEW r \in Requests, EnviarCommit(r)
    PROVE  Promise!Next
<1>1. req[r].id \in Ids /\ row[req[r].id].estado \in Bandeja /\ row[req[r].id].revisado_at
  BY DEF IInv, Inv, CopiasVivas, EnviarCommit, Acuerdo, Revisiones
<1>. PICK i \in Ids : i = req[r].id
  BY <1>1
<1>2. row[i] \in Row
  BY Tipos DEF IInv
<1>. PICK x : /\ row' = [row EXCEPT ![i] = x]
              /\ x.estado = "envio_confirmado" /\ x.intentos = row[i].intentos
              /\ x.revisado_at = row[i].revisado_at /\ x.confirmado_at = TRUE
  <2> DEFINE y == [row[i] EXCEPT !.estado = "envio_confirmado",
                                 !.confirmado_por = Escrito(r, row[i].confirmado_por),
                                 !.confirmado_at = TRUE]
  <2>1. row' = [row EXCEPT ![i] = y]
    BY DEF EnviarCommit
  <2>2. /\ y.estado = "envio_confirmado" /\ y.intentos = row[i].intentos
        /\ y.revisado_at = row[i].revisado_at /\ y.confirmado_at = TRUE
    BY <1>2 DEF Row
  <2> HIDE DEF y
  <2> QED
    BY <2>1, <2>2
<1>3. Phase(x.estado) = "bandeja" /\ Phase(row[i].estado) = "bandeja"
  BY <1>1, Fase DEF Bandeja
<1>4. UNCHANGED <<Fases, Intentos, Revisados>> /\ Fases[i] = "bandeja" /\ Revisados[i]
  <2>1. UNCHANGED <<Fases, Intentos, Revisados>>
    BY <1>3, Conservar DEF IInv
  <2>2. Fases[i] = "bandeja" /\ Revisados[i]
    BY <1>1, <1>3 DEF Fases, Revisados
  <2> QED
    BY <2>1, <2>2
<1>5. Confirmados' = [Confirmados EXCEPT ![i] = TRUE]
  BY Escribir DEF IInv
<1>6. Promise!Confirm(i)
  BY <1>4, <1>5 DEF Promise!Confirm, Fases, Intentos, Revisados, Confirmados
<1> QED
  BY <1>6 DEF Promise!Next

LEMMA TakeStep ==
    ASSUME IInv, NEW w \in Workers, ClaimCommit(w)
    PROVE  Promise!Next
<1>1. /\ worker[w].id \in Ids /\ row[worker[w].id].estado = "en_cola"
      /\ worker[w].intentos = row[worker[w].id].intentos
      /\ row[worker[w].id].intentos < MaxIntentos
  BY DEF IInv, Inv, CopiasVivas, ClaimCommit, Acuerdo, Tomas, Cuentas
<1>. PICK i \in Ids : i = worker[w].id
  BY <1>1
<1>2. row[i] \in Row
  BY Tipos DEF IInv
<1>. PICK x : /\ row' = [row EXCEPT ![i] = x]
              /\ x.estado = "presentando" /\ x.intentos = row[i].intentos + 1
              /\ x.revisado_at = row[i].revisado_at
              /\ x.confirmado_at = row[i].confirmado_at
  <2> DEFINE y == [row[i] EXCEPT !.estado = "presentando",
                                 !.intentos = worker[w].intentos + 1]
  <2>1. row' = [row EXCEPT ![i] = y]
    BY DEF ClaimCommit
  <2>2. /\ y.estado = "presentando" /\ y.intentos = row[i].intentos + 1
        /\ y.revisado_at = row[i].revisado_at /\ y.confirmado_at = row[i].confirmado_at
    BY <1>1, <1>2 DEF Row
  <2> HIDE DEF y
  <2> QED
    BY <2>1, <2>2
<1>3. Fases[i] = "queued" /\ Fases' = [Fases EXCEPT ![i] = "working"]
  <2>1. Fases' = [Fases EXCEPT ![i] = Phase(x.estado)]
    BY Escribir DEF IInv
  <2>2. Fases[i] = "queued"
    BY <1>1, Fase DEF Fases
  <2> QED
    BY <2>1, <2>2, Fase
<1>4. Intentos[i] < MaxIntentos /\ Intentos' = [Intentos EXCEPT ![i] = Intentos[i] + 1]
  <2>1. Intentos' = [Intentos EXCEPT ![i] = row[i].intentos + 1]
    BY Escribir DEF IInv
  <2>2. Intentos[i] = row[i].intentos
    BY DEF Intentos
  <2> QED
    BY <1>1, <2>1, <2>2
<1>5. UNCHANGED <<Revisados, Confirmados>>
  BY Conservar DEF IInv
<1>6. Promise!Take(i)
  BY <1>3, <1>4, <1>5 DEF Promise!Take, Promise!Move, Fases, Intentos, Revisados, Confirmados
<1> QED
  BY <1>6 DEF Promise!Next

LEMMA GiveOrHandStep ==
    ASSUME IInv, NEW w \in Workers, NEW res, Guardar(w, res)
    PROVE  Promise!Next
<1>1. /\ worker[w].id \in Ids /\ row[worker[w].id].estado = "presentando"
      /\ worker[w].estado = "presentando"
      /\ worker[w].intentos = row[worker[w].id].intentos
      /\ res \in Exitos => res \in Bandeja \cup Cerrada
  BY DEF IInv, Inv, CopiasVivas, Guardar, Acuerdo, Tomas, Exitos, Bandeja, Cerrada
<1>. PICK i \in Ids : i = worker[w].id
  BY <1>1
<1>2. row[i] \in Row
  BY Tipos DEF IInv
<1>. PICK x : /\ row' = [row EXCEPT ![i] = x]
              /\ x.estado = EstadoFinal(res, row[i].intentos)
              /\ x.intentos = row[i].intentos
              /\ x.revisado_at = row[i].revisado_at
              /\ x.confirmado_at = row[i].confirmado_at
  <2> DEFINE e == EstadoFinal(res, row[i].intentos)
             y == [row[i] EXCEPT !.estado = e]
  <2>1. e # "presentando"
    BY <1>1 DEF EstadoFinal, Exitos
  <2>2. row' = [row EXCEPT ![i] = y]
    BY <1>1, <1>2, <2>1, Tipos DEF IInv, Guardar, Flush, Row
  <2> HIDE DEF e
  <2>3. /\ y.estado = e /\ y.intentos = row[i].intentos
        /\ y.revisado_at = row[i].revisado_at /\ y.confirmado_at = row[i].confirmado_at
    BY <1>2 DEF Row
  <2> HIDE DEF y
  <2> QED
    BY <2>2, <2>3 DEF e
<1>3. /\ Fases[i] = "working" /\ Fases' = [Fases EXCEPT ![i] = Phase(x.estado)]
      /\ UNCHANGED <<Intentos, Revisados, Confirmados>>
  BY <1>1, Escribir, Conservar, Fase DEF IInv, Fases
<1>4. \/ x.estado = "en_cola" /\ row[i].intentos < MaxIntentos
      \/ x.estado \in Bandeja \cup Cerrada
  BY <1>1 DEF EstadoFinal, Cerrada
<1>5. CASE x.estado = "en_cola" /\ row[i].intentos < MaxIntentos
  <2>1. Fases' = [Fases EXCEPT ![i] = "queued"] /\ Intentos[i] < MaxIntentos
    BY <1>3, <1>5, Fase DEF Intentos
  <2>2. Promise!GiveBack(i)
    BY <1>3, <2>1 DEF Promise!GiveBack, Promise!Move, Fases, Intentos, Revisados, Confirmados
  <2> QED
    BY <2>2 DEF Promise!Next
<1>6. CASE x.estado \in Bandeja \cup Cerrada
  <2>1. Phase(x.estado) \in {"bandeja", "closed"}
    BY <1>6, Fase
  <2>2. Promise!HandOver(i)
    BY <1>3, <2>1 DEF Promise!HandOver, Promise!Move, Fases, Intentos, Revisados, Confirmados
  <2> QED
    BY <2>2 DEF Promise!Next
<1> QED
  BY <1>4, <1>5, <1>6

LEMMA PromiseStep ==
    ASSUME IInv, [Next]_vars
    PROVE  Promise!Next \/ UNCHANGED Promise!vars
<1>1. CASE UNCHANGED row
  BY <1>1 DEF Promise!vars, Ids
<1>2. ASSUME NEW r \in Requests, HandlerStep(r) PROVE Promise!Next \/ UNCHANGED row
  BY <1>2, AcceptStep, ReviewStep, ConfirmStep
     DEF HandlerStep, CreateRead, RevisarRead, EnviarRead, RequestFails
<1>3. ASSUME NEW w \in Workers, WorkerStep(w) \/ ProcessCommitFails(w) \/ Abandon(w)
      PROVE  Promise!Next \/ UNCHANGED row
  BY <1>3, TakeStep, GiveOrHandStep DEF WorkerStep, ClaimSelect, Presentar, ProcessCommit,
     ProcessCommitFails, Abandon
<1> QED
  BY <1>1, <1>2, <1>3 DEF Next, vars

\* With one worker the queue keeps its promise to GEDOC: a filing is accepted once, taken
\* a bounded number of times, handed over once and confirmed only after its review, and
\* a closed one never changes again, whatever handlers and worker do in between.
THEOREM PromiseKept == ASSUME SingleWorker PROVE Spec => KeepsPromise
<1>1. Init => Promise!Init
  BY Fase DEF Init, Promise!Init, Ausente, Fila
<1>2. IInv /\ [Next]_vars => [Promise!Next]_(Promise!vars)
  BY PromiseStep
<1> QED
  BY <1>1, <1>2, OneWorkerInvariance, PTL DEF Spec, KeepsPromise, Promise!Spec

-----------------------------------------------------------------------------
(* Orphans, with any number of workers                                     *)
(*                                                                         *)
(* Two workers may hold one filing, and the one that ends last may find it *)
(* in an estado it need not write.  What keeps a filing in "presentando"   *)
(* from being forgotten is a worker that will write it: one that has not   *)
(* read it yet, or that read it so (Retiene).                              *)

Retiene(w, i) ==
    /\ worker[w].id = i
    /\ \/ worker[w].pc = "tomada"
       \/ worker[w].pc = "respondida" /\ worker[w].estado = "presentando"

Huerfanas == {i \in Ids : row[i].estado = "presentando" /\ \A w \in Workers : ~Retiene(w, i)}

HuerfanasPorCrash == Cardinality(Huerfanas) <= crashes

LEMMA Contables ==
    ASSUME NEW S \in SUBSET Ids, NEW T \in SUBSET Ids
    PROVE  /\ Cardinality(S) \in Nat /\ Cardinality(T) \in Nat
           /\ S \subseteq T => Cardinality(S) <= Cardinality(T)
           /\ \A i \in Ids : S \subseteq T \cup {i} => Cardinality(S) <= Cardinality(T) + 1
<1>1. IsFiniteSet(Ids)
  BY MaxRowsAssumption, FS_Interval DEF Ids
<1>2. IsFiniteSet(S) /\ IsFiniteSet(T)
  BY <1>1, FS_Subset
<1>3. Cardinality(S) \in Nat /\ Cardinality(T) \in Nat
  BY <1>2, FS_CardinalityType
<1>4. S \subseteq T => Cardinality(S) <= Cardinality(T)
  BY <1>2, FS_Subset
<1>5. ASSUME NEW i \in Ids, S \subseteq T \cup {i}
      PROVE  Cardinality(S) <= Cardinality(T) + 1
  <2>1. IsFiniteSet(T \cup {i}) /\ Cardinality(T \cup {i}) <= Cardinality(T) + 1
    <3>1. IsFiniteSet(T \cup {i})
          /\ Cardinality(T \cup {i}) = IF i \in T THEN Cardinality(T) ELSE Cardinality(T) + 1
      BY <1>2, FS_AddElement, Zenon
    <3> QED
      BY <1>3, <3>1
  <2>2. Cardinality(S) <= Cardinality(T \cup {i}) /\ Cardinality(T \cup {i}) \in Nat
    BY <1>5, <2>1, FS_Subset, FS_CardinalityType
  <2> QED
    BY <1>3, <2>1, <2>2
<1> QED
  BY <1>3, <1>4, <1>5

\* A step that leaves no filing behind.
LEMMA SinNuevas ==
    ASSUME HuerfanasPorCrash, Huerfanas' \subseteq Huerfanas, crashes \in Nat, crashes' \in Nat,
           crashes <= crashes'
    PROVE  HuerfanasPorCrash'
<1>1. Huerfanas \in SUBSET Ids /\ Huerfanas' \in SUBSET Ids
  BY DEF Huerfanas, Ids
<1>2. Cardinality(Huerfanas') <= Cardinality(Huerfanas) /\ Cardinality(Huerfanas) \in Nat
      /\ Cardinality(Huerfanas') \in Nat
  BY <1>1, Contables
<1> QED
  BY <1>2 DEF HuerfanasPorCrash

\* A handler writes no "presentando", and no worker's copy.
LEMMA HandlerHuerfanas ==
    ASSUME Inv, NEW r \in Requests, HandlerStep(r)
    PROVE  Huerfanas' \subseteq Huerfanas /\ crashes' = crashes
<1>1. /\ row \in [Ids -> Row] /\ worker' = worker /\ crashes' = crashes
  BY Tipos DEF HandlerStep, CreateRead, CreateCommit, RevisarRead, RevisarCommit, EnviarRead,
     EnviarCommit, RequestFails
<1>2. \A i \in Ids : row'[i].estado = "presentando" => row[i].estado = "presentando"
  <2>1. CASE UNCHANGED row
    BY <2>1
  <2>2. CASE CreateCommit(r)
    BY <1>1, <2>2 DEF CreateCommit, Fila
  <2>3. CASE RevisarCommit(r) \/ EnviarCommit(r)
    BY <1>1, <2>3 DEF RevisarCommit, EnviarCommit, Row
  <2> QED
    BY <2>1, <2>2, <2>3 DEF HandlerStep, CreateRead, RevisarRead, EnviarRead, RequestFails
<1> QED
  BY <1>1, <1>2 DEF Huerfanas, Retiene

\* The worker that takes a filing holds it; it held no other before.
LEMMA TomaHuerfanas ==
    ASSUME Inv, NEW w \in Workers,
           ClaimCommit(w) \/ \E i \in Ids : ClaimSelect(w, i)
    PROVE  Huerfanas' \subseteq Huerfanas /\ crashes' = crashes
<1>1. row \in [Ids -> Row] /\ worker \in [Workers -> Iteration]
  BY Tipos
<1>2. CASE ClaimCommit(w)
  <2>1. /\ worker'[w].id = worker[w].id /\ worker'[w].pc = "tomada" /\ worker[w].pc = "elegida"
        /\ \A v \in Workers \ {w} : worker'[v] = worker[v]
        /\ \A i \in Ids : i # worker[w].id => row'[i] = row[i]
    BY <1>1, <1>2 DEF ClaimCommit, Iteration
  <2> QED
    BY <1>2, <2>1 DEF Huerfanas, Retiene, ClaimCommit
<1>3. CASE \E i \in Ids : ClaimSelect(w, i)
  <2>1. /\ row' = row /\ worker[w].pc = "ocioso" /\ crashes' = crashes
        /\ \A v \in Workers \ {w} : worker'[v] = worker[v]
    <3>1. PICK i \in Ids : ClaimSelect(w, i)
      BY <1>3
    <3>2. worker[w] = Ocioso /\ row' = row /\ crashes' = crashes
      BY <3>1 DEF ClaimSelect
    <3>3. \A v \in Workers \ {w} : worker'[v] = worker[v]
      BY <1>1, <3>1 DEF ClaimSelect
    <3> QED
      BY <3>2, <3>3 DEF Ocioso
  <2> QED
    BY <2>1 DEF Huerfanas, Retiene
<1> QED
  BY <1>2, <1>3

\* It goes on holding it if it finds it in "presentando".
LEMMA PresentarHuerfanas ==
    ASSUME Inv, NEW w \in Workers, NEW res, NEW cargo, Presentar(w, res, cargo)
    PROVE  Huerfanas' \subseteq Huerfanas /\ crashes' = crashes
<1>1. worker \in [Workers -> Iteration]
  BY Tipos
<1>2. /\ worker'[w].id = worker[w].id /\ worker'[w].pc = "respondida"
      /\ worker'[w].estado = row[worker[w].id].estado
      /\ \A v \in Workers \ {w} : worker'[v] = worker[v]
      /\ row' = row /\ crashes' = crashes
  BY <1>1 DEF Presentar, Iteration
<1> QED
  BY <1>2 DEF Huerfanas, Retiene

\* The commit that ends an iteration never leaves a filing the worker held as it was.
LEMMA GuardarHuerfanas ==
    ASSUME Inv, NEW w \in Workers, NEW res, Guardar(w, res)
    PROVE  Huerfanas' \subseteq Huerfanas
<1>1. row \in [Ids -> Row] /\ worker \in [Workers -> Iteration]
  BY Tipos
<1> DEFINE i == worker[w].id
           final == EstadoFinal(res, worker[w].intentos)
<1>2. final # "presentando"
  BY DEF EstadoFinal, Exitos
<1>3. /\ worker[w].pc = "respondida"
      /\ \A v \in Workers \ {w} : worker'[v] = worker[v]
      /\ \A j \in Ids : j # i => row'[j] = row[j]
      /\ i \in Ids => row'[i].estado = Flush(row[i].estado, worker[w].estado, final)
  BY <1>1 DEF Guardar, Row
<1> HIDE DEF i, final
<1>4. \A j \in Ids : row'[j].estado = "presentando" =>
        row[j].estado = "presentando" /\ ~Retiene(w, j)
  <2> SUFFICES ASSUME NEW j \in Ids, row'[j].estado = "presentando"
               PROVE  row[j].estado = "presentando" /\ ~Retiene(w, j)
    OBVIOUS
  <2>1. CASE j # i
    BY <1>3, <2>1 DEF Retiene, i
  <2>2. CASE j = i
    BY <1>2, <1>3, <2>2 DEF Flush, Retiene, i
  <2> QED
    BY <2>1, <2>2
<1> QED
  BY <1>3, <1>4 DEF Huerfanas, Retiene

\* A crash leaves one filing at most, and is counted.
LEMMA AbandonHuerfanas ==
    ASSUME Inv, HuerfanasPorCrash, NEW w \in Workers, Abandon(w)
    PROVE  HuerfanasPorCrash'
<1>1. worker \in [Workers -> Iteration] /\ crashes \in Nat
  BY Tipos DEF Inv, TypeOK
<1>2. /\ row' = row /\ crashes' = crashes + 1
      /\ \A v \in Workers \ {w} : worker'[v] = worker[v]
  BY <1>1 DEF Abandon
<1>3. CASE worker[w].pc = "ocioso"
  <2>1. Huerfanas' \subseteq Huerfanas
    BY <1>2, <1>3 DEF Huerfanas, Retiene
  <2> QED
    BY <1>1, <1>2, <2>1, SinNuevas
<1>4. CASE worker[w].pc # "ocioso"
  <2>1. worker[w].id \in Ids
    BY <1>4 DEF Inv, CopiasVivas
  <2>2. Huerfanas' \subseteq Huerfanas \cup {worker[w].id}
    BY <1>2 DEF Huerfanas, Retiene
  <2>3. Huerfanas \in SUBSET Ids /\ Huerfanas' \in SUBSET Ids
    BY DEF Huerfanas, Ids
  <2>4. /\ Cardinality(Huerfanas') <= Cardinality(Huerfanas) + 1
        /\ Cardinality(Huerfanas) \in Nat /\ Cardinality(Huerfanas') \in Nat
    BY <2>1, <2>2, <2>3, Contables
  <2> QED
    BY <1>1, <1>2, <2>4 DEF HuerfanasPorCrash
<1> QED
  BY <1>3, <1>4

LEMMA NextHuerfanas == Inv /\ HuerfanasPorCrash /\ [Next]_vars => HuerfanasPorCrash'
<1> SUFFICES ASSUME Inv, HuerfanasPorCrash, [Next]_vars PROVE HuerfanasPorCrash'
  OBVIOUS
<1>1. crashes \in Nat
  BY DEF Inv, TypeOK
<1>2. CASE \E r \in Requests : HandlerStep(r)
  BY <1>1, <1>2, HandlerHuerfanas, SinNuevas
<1>3. CASE \E w \in Workers : WorkerStep(w) \/ ProcessCommitFails(w)
  <2>1. Huerfanas' \subseteq Huerfanas /\ crashes' \in {crashes, crashes + 1}
    BY <1>3, TomaHuerfanas, PresentarHuerfanas, GuardarHuerfanas
       DEF WorkerStep, ProcessCommit, ProcessCommitFails
  <2> QED
    BY <1>1, <2>1, SinNuevas
<1>4. CASE \E w \in Workers : Abandon(w)
  BY <1>4, AbandonHuerfanas
<1>5. CASE UNCHANGED vars
  BY <1>1, <1>5, SinNuevas DEF vars, Huerfanas, Retiene
<1> QED
  BY <1>2, <1>3, <1>4, <1>5 DEF Next

\* A filing stays in "presentando" with no worker behind it only as often as an iteration was
\* lost, however many workers drain the queue and race for one filing (run_once, run_loop).
THEOREM OrphansAlways == Spec => []OrphansOnlyByCrash
<1>1. Init => HuerfanasPorCrash
  <2> SUFFICES ASSUME Init PROVE HuerfanasPorCrash
    OBVIOUS
  <2>1. Huerfanas = {} /\ crashes = 0
    BY DEF Init, Huerfanas, Ausente, Fila
  <2> QED
    BY <2>1, FS_EmptySet DEF HuerfanasPorCrash
<1>2. Inv /\ HuerfanasPorCrash => OrphansOnlyByCrash
  <2> DEFINE S == {i \in Ids : row[i].estado = "presentando" /\ \A w \in Workers : ~Sostiene(w, i)}
  <2> SUFFICES ASSUME Inv, HuerfanasPorCrash PROVE Cardinality(S) <= crashes
    BY DEF OrphansOnlyByCrash
  <2>1. S \subseteq Huerfanas /\ Huerfanas \in SUBSET Ids /\ S \in SUBSET Ids
    BY DEF Huerfanas, Retiene, Sostiene
  <2>2. Cardinality(S) <= Cardinality(Huerfanas) /\ Cardinality(S) \in Nat
        /\ Cardinality(Huerfanas) \in Nat /\ crashes \in Nat
    BY <2>1, Contables DEF Inv, TypeOK
  <2> HIDE DEF S
  <2> QED
    BY <2>2 DEF HuerfanasPorCrash
<1> QED
  BY <1>1, <1>2, NextHuerfanas, Invariance, PTL DEF Spec
=============================================================================
