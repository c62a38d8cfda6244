----------------------------- MODULE Novedades -----------------------------
(***************************************************************************)
(* The new movements of one case: how a sync stores them                   *)
(* (SyncService.sync_movements), raises their alerts for the lawyer, and   *)
(* tells about them by webhooks at once and by a digest at its end         *)
(* (NotificationService).                                                  *)
(*                                                                         *)
(* Syncs of one case may overlap: the batch of the scheduler, that of POST *)
(* /sync and the ingest each hold a transaction of their own, and no key   *)
(* of the table tells two rows of a movement apart.  Webhooks and mail     *)
(* leave outside any transaction.                                          *)
(***************************************************************************)
EXTENDS Naturals, FiniteSets, FiniteSetsExt

CONSTANTS
    Movs,        \* movements: records [folio, dia, cuaderno]
    Ids,         \* primary keys (bound on the rows)
    Lotes,       \* batches: their notification service is shared and closed at the end
    Propios,     \* callers without one: sync_movements owns and closes its own
    MaxEntradas, \* MAX_DIGEST_ENTRIES
    Cupo,        \* NOTIFY_MAX_PER_SYNC
    MaxFallas,   \* failures (bound)
    Null

VARIABLES
    publicado,   \* movements PJUD shows
    filas,       \* [Ids -> a row or Null]
    ultimo,      \* last_movement_at of the case, 0 when NULL
    leido,       \* [Syncs -> the one in its session, Null when it is to be read again]
    sync,        \* [Syncs -> what each sync has in hand]
    correos,     \* [Movs -> digests that told of it]
    webhooks,    \* [Movs -> webhooks that told of it]
    fallas       \* failures so far

vars == <<publicado, filas, ultimo, leido, sync, correos, webhooks, fallas>>

Syncs == Lotes \cup Propios

(* es: the movement the row was made for; texto: the one its text names, or *)
(* "fecha" in a hand-repaired row.  alerta: of its alert, "omitida" when    *)
(* its digest only counts it; both are email_sent = false.                  *)
Row == [es : Movs, texto : Movs \cup {Null},
        alerta : {"ninguna", "pendiente", "omitida", "enviada"}]

ASSUME NullAssumption == Null \notin Row /\ Null \notin Ids /\ Null \notin Movs /\ Null \notin Nat
ASSUME FiniteAssumption == IsFiniteSet(Movs) /\ IsFiniteSet(Ids) /\ IsFiniteSet(Syncs)
ASSUME DiaAssumption == \A m \in Movs : m.dia \in Nat

(* pc: the transaction is open, the batch goes on, or only the date of the  *)
(* last movement is left to store.  perdio: others committed meanwhile.     *)
NoSync == [pc |-> "fuera", perdio |-> FALSE, cura |-> <<>>, nuevas |-> <<>>,
           ultimo |-> 0, boletin |-> {}]

MaxDia(movs) == Max({m.dia : m \in movs} \cup {0})
Existentes(f) == {i \in Ids : f[i] # Null}
Rows(f, m) == {i \in Existentes(f) : f[i].es = m}
Menor(x, y) == IF x < y THEN x ELSE y

-----------------------------------------------------------------------------
(* sync_movements *)

(* Known by folio and text.                                                 *)
Conocidos == {filas[i].texto : i \in Existentes(filas)}

\* Mutant: repaired rows are not looked for.
CandidatasNinguna(m) == {}

(* Repaired rows of the folio and date of m.                                *)
Candidatas(m) == {i \in Existentes(filas) : /\ filas[i].texto = Null
                                            /\ filas[i].es.folio = m.folio
                                            /\ filas[i].es.dia = m.dia}

(* The rows of the case are in a map by folio and text, where the repaired  *)
(* ones of one folio and date are one: whichever stayed is healed, with the *)
(* text of one of the movements it is a candidate for, the first in the     *)
(* list.                                                                    *)
Curas(movs) ==
    LET grupos == {Candidatas(m) : m \in movs} \ {{}}
        elegidas == {D \in SUBSET UNION grupos : \A g \in grupos : \E i \in g : D \cap g = {i}}
    IN UNION {{c \in [D -> movs] : \A i \in D : i \in Candidatas(c[i])} : D \in elegidas}

Libres == {i \in Ids : filas[i] = Null /\ \A s \in Syncs : i \notin DOMAIN sync[s].nuevas}
Lugares(movs) == {l \in [movs -> Libres] : \A m, n \in movs : l[m] = l[n] => m = n}

Fila(m, rendida) ==
    [es |-> m, texto |-> m, alerta |-> IF rendida THEN "pendiente" ELSE "omitida"]

\* Mutant: only the movements just seen count.
UltimoDeVisto(visto) == MaxDia(visto)

(* _recompute_last_movement_at: over what is stored, with the batch flushed.*)
UltimoDe(visto) == MaxDia({filas[i].es : i \in Existentes(filas)} \cup visto)

(* Neither known nor healed.                                                *)
Nuevas(visto, c) == visto \ (Conocidos \cup {c[i] : i \in DOMAIN c})

(* Rows for the new ones, and the entries of those that fit in the digest.  *)
Altas(nuevas, l, rendidas) ==
    [i \in {l[m] : m \in nuevas} |->
       LET m == CHOOSE o \in nuevas : l[o] = i IN Fila(m, m \in rendidas)]
Entradas(l, rendidas) == {[mov |-> m, fila |-> l[m]] : m \in rendidas}

Abierta(visto, c, nuevas, l, rendidas) ==
    [pc |-> "abierta", perdio |-> FALSE, cura |-> c, nuevas |-> Altas(nuevas, l, rendidas),
     ultimo |-> UltimoDe(visto), boletin |-> Entradas(l, rendidas)]

(* The case comes into the session: before PJUD is asked for its movements, *)
(* and again after a commit of the session, which leaves it to be read anew.*)
Carga(s) ==
    /\ leido[s] = Null /\ sync[s].pc \in {"fuera", "anotando"}
    /\ leido' = [leido EXCEPT ![s] = ultimo]
    /\ UNCHANGED <<publicado, filas, ultimo, sync, correos, webhooks, fallas>>

Expira(s) == leido' = [leido EXCEPT ![s] = Null]

(* The loop: rows are healed and inserted, every new one with its alert;    *)
(* the first ones go out by webhook while the budget lasts, and the first   *)
(* ones that fit are the entries of the digest.                             *)
sync_movements(s) ==
    /\ sync[s].pc = "fuera" /\ leido[s] # Null
    /\ \E visto \in SUBSET publicado : \E c \in Curas(visto \ Conocidos) :
         LET nuevas == Nuevas(visto, c)
             n == Cardinality(nuevas)
         IN \E l \in Lugares(nuevas), rendidas \in kSubset(Menor(MaxEntradas, n), nuevas),
               pregonadas \in kSubset(Menor(Cupo, n), nuevas) :
              /\ rendidas \subseteq pregonadas \/ pregonadas \subseteq rendidas
              /\ sync' = [sync EXCEPT ![s] = Abierta(visto, c, nuevas, l, rendidas)]
              /\ webhooks' = [m \in Movs |-> webhooks[m] + IF m \in pregonadas THEN 1 ELSE 0]
    /\ UNCHANGED <<publicado, filas, ultimo, leido, correos, fallas>>

(* The transaction of s, with the marks of the alerts it has sent.          *)
Escribe(s, enviadas) ==
    filas' = [i \in Ids |->
                LET f == IF i \in DOMAIN sync[s].nuevas THEN sync[s].nuevas[i]
                         ELSE IF i \in DOMAIN sync[s].cura
                         THEN [filas[i] EXCEPT !.texto = sync[s].cura[i]]
                         ELSE filas[i]
                IN IF i \in enviadas /\ f # Null THEN [f EXCEPT !.alerta = "enviada"] ELSE f]

(* What s has in hand next, and the others in a transaction miss its write. *)
Pasa(s, r) ==
    sync' = [t \in Syncs |-> IF t = s THEN r
                             ELSE IF sync[t].pc = "fuera" \/ filas' = filas THEN sync[t]
                             ELSE [sync[t] EXCEPT !.perdio = TRUE]]

(* Written only when it differs from the one in the session.                *)
AnotaUltimo(s) ==
    ultimo' = IF sync[s].ultimo \in {0, leido[s]} THEN ultimo ELSE sync[s].ultimo

\* Mutant: the batch forgets the entries of the cases it has committed.
CommitOlvida(s) ==
    /\ \/ sync[s].pc = "abierta" /\ (s \in Propios => sync[s].boletin = {})
       \/ sync[s].pc = "anotando" /\ leido[s] # Null
    /\ Escribe(s, {}) /\ AnotaUltimo(s) /\ Expira(s)
    /\ Pasa(s, NoSync)
    /\ UNCHANGED <<publicado, correos, webhooks, fallas>>

(* The commit at the end of sync_movements.  A service of its own was closed*)
(* before.                                                                  *)
Commit(s) ==
    /\ \/ sync[s].pc = "abierta" /\ (s \in Propios => sync[s].boletin = {})
       \/ sync[s].pc = "anotando" /\ leido[s] # Null
    /\ Escribe(s, {}) /\ AnotaUltimo(s) /\ Expira(s)
    /\ Pasa(s, IF sync[s].boletin = {} THEN NoSync
               ELSE [NoSync EXCEPT !.pc = "sigue", !.boletin = sync[s].boletin])
    /\ UNCHANGED <<publicado, correos, webhooks, fallas>>

-----------------------------------------------------------------------------
(* close: the digest leaves, then its alerts are marked and committed *)

Cierra(s) == sync[s].boletin # {} /\ sync[s].pc = IF s \in Lotes THEN "sigue" ELSE "abierta"
Entregado(s) ==
    correos' = [m \in Movs |->
                  correos[m] + Cardinality({e \in sync[s].boletin : e.mov = m})]
\* Mutant: the buckets are not emptied after the mail.
CerradoConEntradas(s) == sync[s]

\* Mutant: they are left to the next batch.
CerradoADeber(s) == [NoSync EXCEPT !.boletin = sync[s].boletin]

(* A batch has nothing left to do; a service of its own goes on to the date.*)
Cerrado(s) == IF s \in Lotes THEN NoSync
              ELSE [NoSync EXCEPT !.pc = "anotando", !.ultimo = sync[s].ultimo,
                                  !.perdio = sync[s].perdio]

(* The commit of the marks takes along whatever the session had open.       *)
flush_digests(s) ==
    /\ Cierra(s)
    /\ Entregado(s)
    /\ Escribe(s, {e.fila : e \in sync[s].boletin})
    /\ Pasa(s, Cerrado(s)) /\ Expira(s)
    /\ UNCHANGED <<publicado, ultimo, webhooks, fallas>>

Falla == fallas < MaxFallas /\ fallas' = fallas + 1

(* The mail does not leave: the digest is forgotten, its alerts unmarked.   *)
NoSale(s) ==
    /\ Cierra(s) /\ Falla
    /\ sync' = [sync EXCEPT ![s] = IF s \in Lotes THEN NoSync
                                  ELSE [sync[s] EXCEPT !.boletin = {}]]
    /\ UNCHANGED <<publicado, filas, ultimo, leido, correos, webhooks>>

(* It left, but the commit fails and rolls back whatever was open.          *)
SinMarca(s) ==
    /\ Cierra(s) /\ Falla
    /\ Entregado(s)
    /\ sync' = [sync EXCEPT ![s] = Cerrado(s)] /\ Expira(s)
    /\ UNCHANGED <<publicado, filas, ultimo, webhooks>>

(* Entries whose alert and movement were never stored.                      *)
Perdidas(s) == {[mov |-> e.mov, fila |-> Null] : e \in sync[s].boletin}

(* The loop or its commit raises.  The batch rolls back and goes on with    *)
(* the entries it had; a service of its own is never closed.                *)
Rollback(s) ==
    /\ sync[s].pc = "abierta" /\ Falla
    /\ sync' = [sync EXCEPT ![s] =
                  IF s \in Propios \/ sync[s].boletin = {} THEN NoSync
                  ELSE [NoSync EXCEPT !.pc = "sigue", !.boletin = Perdidas(s)]]
    /\ Expira(s)
    /\ UNCHANGED <<publicado, filas, ultimo, correos, webhooks>>

(* The process dies, or the rollback itself raises.                         *)
Muere(s) ==
    /\ sync[s].pc # "fuera" /\ Falla
    /\ sync' = [sync EXCEPT ![s] = NoSync] /\ Expira(s)
    /\ UNCHANGED <<publicado, filas, ultimo, correos, webhooks>>

-----------------------------------------------------------------------------
Publica(m) ==
    /\ m \notin publicado
    /\ publicado' = publicado \cup {m}
    /\ UNCHANGED <<filas, ultimo, leido, sync, correos, webhooks, fallas>>

(* Rows whose text was lost, of the movements r.                            *)
Reparadas(r, l) ==
    [i \in Ids |->
       IF \E m \in r : l[m] = i
       THEN [es |-> CHOOSE m \in r : l[m] = i, texto |-> Null, alerta |-> "ninguna"]
       ELSE Null]

(* Some movements are on file already, in such rows.                        *)
Init ==
    \E r \in SUBSET Movs : \E l \in {k \in [r -> Ids] : \A m, n \in r : k[m] = k[n] => m = n} :
      /\ publicado = r
      /\ filas = Reparadas(r, l)
      /\ ultimo = MaxDia(r)
      /\ leido = [s \in Syncs |-> Null]
      /\ sync = [s \in Syncs |-> NoSync]
      /\ correos = [m \in Movs |-> 0]
      /\ webhooks = [m \in Movs |-> 0]
      /\ fallas = 0

Next ==
    \/ \E s \in Syncs : \/ Carga(s) \/ sync_movements(s) \/ Commit(s) \/ flush_digests(s)
                        \/ NoSale(s) \/ SinMarca(s) \/ Rollback(s) \/ Muere(s)
    \/ \E m \in Movs : Publica(m)

Spec == Init /\ [][Next]_vars

-----------------------------------------------------------------------------
(* Properties *)

(* Rows keep their types, the entries of a digest are of rows of theirs or  *)
(* of none, and a sync at rest has nothing in hand.                         *)
TypeOK ==
    /\ filas \in [Ids -> Row \cup {Null}]
    /\ publicado \subseteq Movs /\ ultimo \in {0} \cup {m.dia : m \in Movs}
    /\ leido \in [Syncs -> {0, Null} \cup {m.dia : m \in Movs}]
    /\ \A s \in Syncs :
         /\ sync[s].pc \in {"fuera", "abierta", "sigue", "anotando"}
         /\ \A e \in sync[s].boletin : e \in [mov : Movs, fila : Ids \cup {Null}]
         /\ sync[s].pc = "fuera" => sync[s] = NoSync

Alertadas(m) == {i \in Rows(filas, m) : filas[i].alerta # "ninguna"}
Enviadas(m) == {i \in Rows(filas, m) : filas[i].alerta = "enviada"}

(* Rows of m that a sync has yet to commit.                                 *)
EnCamino(m) == {i \in Ids : \E s \in Syncs : IF i \in DOMAIN sync[s].nuevas
                                              THEN sync[s].nuevas[i].es = m ELSE FALSE}

(* A movement is told of once per row stored for it: whatever overlaps, is  *)
(* closed late or tried again, each further mail or webhook takes a failure *)
(* of its own (a movement rolled back after its entry was queued is told of *)
(* again).  And the marks are honest (_mark_sent_and_commit): a marked alert*)
(* was mailed, and without failures a mailed one is marked.                 *)
ToldOncePerRow ==
    \A m \in Movs :
      /\ Cardinality(Enviadas(m)) <= correos[m]
      /\ correos[m] <= Cardinality(Alertadas(m)) + fallas
      /\ webhooks[m] <= Cardinality(Alertadas(m) \cup EnCamino(m)) + fallas
      /\ fallas = 0 => correos[m] = Cardinality(Enviadas(m))

(* No news is lost but by a failure: an alert that fits in its digest is    *)
(* sent, or a sync that has not ended yet holds its entry.                  *)
NoNewsLost ==
    fallas = 0 =>
      \A i \in Existentes(filas) : filas[i].alerta = "pendiente" =>
        \E s \in Syncs : \E e \in sync[s].boletin : e.fila = i

Gemelos(m) == {n \in Movs : n.folio = m.folio /\ n.dia = m.dia}

(* What was stored is no news: a movement gets a second row, and a second   *)
(* alert, only from a sync that missed the first, or when another cuaderno  *)
(* has a movement of its folio and date, which took its repaired row.       *)
NewsIsNew ==
    [][\A i \in Ids : filas[i] = Null /\ filas'[i] # Null =>
         LET m == filas'[i].es
         IN \/ Rows(filas, m) = {}
            \/ Gemelos(m) # {m}
            \/ \E s \in Syncs : i \in DOMAIN sync[s].nuevas /\ sync[s].perdio]_vars

(* "The result equals max(movement_date) in the DB": true of a sync while   *)
(* which nobody stored rows, nor changed the date since it was read, and    *)
(* nothing failed.                                                          *)
LastMovementIsLast ==
    [][\A s \in Syncs :
         /\ sync[s].pc \in {"abierta", "anotando"} /\ ~sync[s].perdio /\ leido[s] = ultimo
         /\ sync'[s].pc \in {"fuera", "sigue"} /\ fallas' = 0
         => ultimo' = MaxDia({filas'[i].es : i \in Existentes(filas')})]_vars

=============================================================================
