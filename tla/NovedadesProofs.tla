--------------------------- MODULE NovedadesProofs ---------------------------
(***************************************************************************)
(* What the syncs, the table and the counters say of the movements, for    *)
(* any movements, syncs that overlap in any way, digest sizes and webhook  *)
(* budgets: no news is lost but by a failure, a movement is told of once   *)
(* per row, what was stored is no news, and the date of the last movement  *)
(* is that of the last one.                                                *)
(*                                                                         *)
(* NoNewsLost alone is not inductive: a commit stores rows, and it must be *)
(* known that the sync already holds an entry for each row it is to store  *)
(* with its alert pending (Anunciadas).                                    *)
(***************************************************************************)
EXTENDS Novedades, FiniteSetTheorems, TLAPS

Campos == {"pc", "perdio", "cura", "nuevas", "ultimo", "boletin"}

\* What a sync holds: rows to insert, and texts for rows that are there.
EnMano(r) ==
    /\ DOMAIN r = Campos
    /\ r.pc = "fuera" => r.boletin = {}
    /\ \A i \in DOMAIN r.nuevas : r.nuevas[i] \in Row
    /\ \A i \in DOMAIN r.cura : i \in Existentes(filas) /\ r.cura[i] \in Movs

Formas ==
    /\ filas \in [Ids -> Row \cup {Null}]
    /\ DOMAIN sync = Syncs /\ \A s \in Syncs : EnMano(sync[s])
    /\ publicado \subseteq Movs
    /\ fallas \in Nat

\* The entries of r name every row it will store with its alert pending.
Anuncia(r) ==
    \A i \in DOMAIN r.nuevas : r.nuevas[i].alerta = "pendiente" => \E e \in r.boletin : e.fila = i
Anunciadas == \A s \in Syncs : Anuncia(sync[s])

IInv == Formas /\ (fallas = 0 => Anunciadas /\ NoNewsLost)

-----------------------------------------------------------------------------
LEMMA NoSyncForma ==
    /\ DOMAIN NoSync = Campos /\ NoSync.boletin = {} /\ NoSync.ultimo = 0
    /\ DOMAIN NoSync.nuevas = {} /\ DOMAIN NoSync.cura = {}
<1>1. \A x, y : x \notin DOMAIN <<>>
  OBVIOUS
<1> QED
  BY <1>1 DEF NoSync, Campos

\* A sync that keeps, of what it held, its entries.
LEMMA SigueForma ==
    ASSUME NEW x, NEW y, x # "fuera"
    PROVE  /\ EnMano([NoSync EXCEPT !.pc = x, !.boletin = y])
           /\ Anuncia([NoSync EXCEPT !.pc = x, !.boletin = y])
           /\ [NoSync EXCEPT !.pc = x, !.boletin = y].boletin = y
<1> DEFINE r == [NoSync EXCEPT !.pc = x, !.boletin = y]
<1>1. DOMAIN r = Campos /\ r.boletin = y /\ r.pc = x /\ r.nuevas = NoSync.nuevas /\ r.cura = NoSync.cura
  BY NoSyncForma DEF Campos
<1> HIDE DEF r
<1> QED
  BY <1>1, NoSyncForma DEF EnMano, Anuncia, r

LEMMA InitHolds == Init => IInv
<1> SUFFICES ASSUME Init PROVE IInv
  OBVIOUS
<1>0. \E r \in SUBSET Movs : publicado = r /\ \E l : filas = Reparadas(r, l)
  BY Zenon DEF Init
<1>1. PICK r \in SUBSET Movs : publicado = r /\ \E l : filas = Reparadas(r, l)
  BY <1>0
<1>1a. PICK l : filas = Reparadas(r, l)
  BY <1>1
<1>2. ASSUME NEW i \in Ids
      PROVE  filas[i] = Null \/ (filas[i] \in Row /\ filas[i].alerta = "ninguna")
  <2>1. ASSUME \E m \in r : l[m] = i
        PROVE  filas[i] \in Row /\ filas[i].alerta = "ninguna"
    <3>1. PICK m \in Movs : filas[i] = [es |-> m, texto |-> Null, alerta |-> "ninguna"]
      BY <1>1a, <2>1 DEF Reparadas
    <3> QED
      BY <3>1 DEF Row
  <2> QED
    BY <1>1a, <2>1 DEF Reparadas
<1>3. sync = [s \in Syncs |-> NoSync] /\ fallas = 0
  BY DEF Init
<1>4. filas \in [Ids -> Row \cup {Null}]
  <2>1. filas = [i \in Ids |-> filas[i]]
    BY <1>1a DEF Reparadas
  <2> QED
    BY <1>2, <2>1
<1>5. Formas
  BY <1>1, <1>3, <1>4, NoSyncForma DEF Formas, EnMano
<1> QED
  BY <1>2, <1>3, <1>5, NoSyncForma DEF IInv, Anunciadas, Anuncia, NoNewsLost, Existentes

-----------------------------------------------------------------------------
(* What a commit of s leaves: what it stored pending it still holds, and    *)
(* the rows of others keep their alerts.                                    *)

LEMMA EscribeForma ==
    ASSUME Formas, NEW s \in Syncs, NEW enviadas, Escribe(s, enviadas)
    PROVE  /\ filas' \in [Ids -> Row \cup {Null}]
           /\ Existentes(filas) \subseteq Existentes(filas')
           /\ \A i \in Ids : filas'[i] # Null /\ filas'[i].alerta = "pendiente" =>
                /\ i \notin enviadas
                /\ \/ i \in DOMAIN sync[s].nuevas /\ sync[s].nuevas[i].alerta = "pendiente"
                   \/ i \in Existentes(filas) /\ filas[i].alerta = "pendiente"
<1> DEFINE F(i) == IF i \in DOMAIN sync[s].nuevas THEN sync[s].nuevas[i]
                   ELSE IF i \in DOMAIN sync[s].cura
                   THEN [filas[i] EXCEPT !.texto = sync[s].cura[i]]
                   ELSE filas[i]
           G(i) == IF i \in enviadas /\ F(i) # Null THEN [F(i) EXCEPT !.alerta = "enviada"] ELSE F(i)
<1>1. filas' = [i \in Ids |-> G(i)]
  BY DEF Escribe
<1>2. ASSUME NEW i \in Ids
      PROVE  /\ F(i) \in Row \cup {Null}
             /\ filas[i] # Null => F(i) # Null
             /\ F(i) # Null /\ F(i).alerta = "pendiente" =>
                  \/ i \in DOMAIN sync[s].nuevas /\ sync[s].nuevas[i].alerta = "pendiente"
                  \/ i \in Existentes(filas) /\ filas[i].alerta = "pendiente"
  <2>1. CASE i \in DOMAIN sync[s].nuevas
    BY <2>1, NullAssumption DEF Formas, EnMano
  <2>2. CASE i \notin DOMAIN sync[s].nuevas /\ i \in DOMAIN sync[s].cura
    <3>1. filas[i] \in Row /\ i \in Existentes(filas) /\ sync[s].cura[i] \in Movs
      BY <2>2 DEF Formas, EnMano, Existentes
    <3>2. F(i) = [filas[i] EXCEPT !.texto = sync[s].cura[i]]
      BY <2>2
    <3>3. F(i) \in Row /\ F(i).alerta = filas[i].alerta
      BY <3>1, <3>2 DEF Row
    <3> QED
      BY <3>1, <3>3, NullAssumption
  <2>3. CASE i \notin DOMAIN sync[s].nuevas /\ i \notin DOMAIN sync[s].cura
    BY <2>3 DEF Formas, Existentes
  <2> QED
    BY <2>1, <2>2, <2>3
<1> HIDE DEF F
<1>3. ASSUME NEW i \in Ids
      PROVE  /\ G(i) \in Row \cup {Null}
             /\ F(i) # Null => G(i) # Null
             /\ G(i) # Null /\ G(i).alerta = "pendiente" =>
                  i \notin enviadas /\ F(i) # Null /\ F(i).alerta = "pendiente"
  <2>1. CASE i \in enviadas /\ F(i) # Null
    <3>1. F(i) \in Row
      BY <1>2, <2>1
    <3>2. [F(i) EXCEPT !.alerta = "enviada"] \in Row
          /\ [F(i) EXCEPT !.alerta = "enviada"].alerta = "enviada"
      BY <3>1 DEF Row
    <3> QED
      BY <2>1, <3>2, NullAssumption
  <2>2. CASE ~(i \in enviadas /\ F(i) # Null)
    BY <1>2, <2>2
  <2> QED
    BY <2>1, <2>2
<1> HIDE DEF G
<1>4. \A i \in Ids : filas'[i] = G(i)
  BY <1>1
<1>5. filas' \in [Ids -> Row \cup {Null}]
  BY <1>1, <1>3
<1>6. Existentes(filas) \subseteq Existentes(filas')
  BY <1>2, <1>3, <1>4 DEF Existentes
<1> QED
  BY <1>2, <1>3, <1>4, <1>5, <1>6

-----------------------------------------------------------------------------
(* One lemma per kind of step *)

\* A service of its own, once its mail left, or nothing.
LEMMA CerradoForma ==
    ASSUME NEW s PROVE EnMano(Cerrado(s)) /\ Anuncia(Cerrado(s))
<1> DEFINE r == [NoSync EXCEPT !.pc = "anotando", !.ultimo = sync[s].ultimo,
                               !.perdio = sync[s].perdio]
<1>1. /\ DOMAIN r = Campos /\ r.boletin = NoSync.boletin /\ r.nuevas = NoSync.nuevas
      /\ r.cura = NoSync.cura
  BY NoSyncForma DEF Campos
<1>2. Cerrado(s) = NoSync \/ Cerrado(s) = r
  BY DEF Cerrado
<1> HIDE DEF r
<1> QED
  BY <1>1, <1>2, NoSyncForma DEF EnMano, Anuncia

\* A step after a failure, in which s is left with r.
LEMMA FallaKeeps ==
    ASSUME IInv, NEW s \in Syncs, Falla, UNCHANGED <<filas, publicado>>,
           NEW r, EnMano(r), sync' = [sync EXCEPT ![s] = r]
    PROVE  IInv'
<1>1. fallas' \in Nat /\ fallas' # 0
  BY DEF IInv, Formas, Falla
<1>2. DOMAIN sync' = Syncs /\ \A t \in Syncs : sync'[t] = r \/ sync'[t] = sync[t]
  BY DEF IInv, Formas
<1>3. \A t \in Syncs : EnMano(sync'[t])
  BY <1>2 DEF IInv, Formas
<1>4. Formas'
  BY <1>1, <1>2, <1>3 DEF IInv, Formas, EnMano, Existentes
<1> QED
  BY <1>1, <1>4 DEF IInv

LEMMA FallasKeep ==
    ASSUME IInv, NEW s \in Syncs, NoSale(s) \/ SinMarca(s) \/ Rollback(s) \/ Muere(s)
    PROVE  IInv'
<1>1. EnMano(NoSync)
  BY NoSyncForma DEF EnMano
<1>2. EnMano([sync[s] EXCEPT !.boletin = {}])
  BY DEF IInv, Formas, EnMano, Campos
<1>3. CASE NoSale(s)
  BY <1>1, <1>2, <1>3, FallaKeeps DEF NoSale
<1>4. CASE SinMarca(s)
  BY <1>4, CerradoForma, FallaKeeps DEF SinMarca
<1>5. CASE Rollback(s)
  <2>1. PICK r : EnMano(r) /\ sync' = [sync EXCEPT ![s] = r]
    BY <1>1, <1>5, SigueForma DEF Rollback
  <2> QED
    BY <1>5, <2>1, FallaKeeps DEF Rollback
<1>6. CASE Muere(s)
  BY <1>1, <1>6, FallaKeeps DEF Muere
<1> QED
  BY <1>3, <1>4, <1>5, <1>6

\* After a commit the others hold what they held.
LEMMA PasaForma ==
    ASSUME Formas, NEW s \in Syncs, NEW r, Pasa(s, r)
    PROVE  /\ DOMAIN sync' = Syncs /\ sync'[s] = r
           /\ \A t \in Syncs : t # s =>
                /\ DOMAIN sync'[t] = Campos /\ sync'[t].pc = sync[t].pc
                /\ sync'[t].boletin = sync[t].boletin /\ sync'[t].nuevas = sync[t].nuevas
                /\ sync'[t].cura = sync[t].cura
<1>1. DOMAIN sync' = Syncs /\ sync'[s] = r
  BY DEF Pasa
<1>2. ASSUME NEW t \in Syncs, t # s
      PROVE  sync'[t] = sync[t] \/ sync'[t] = [sync[t] EXCEPT !.perdio = TRUE]
  BY <1>2 DEF Pasa
<1>3. \A t \in Syncs : DOMAIN sync[t] = Campos
  BY DEF Formas, EnMano
<1> QED
  BY <1>1, <1>2, <1>3 DEF Campos

\* A commit of s that marks what it had sent, and leaves it with r.
LEMMA EscribeKeeps ==
    ASSUME IInv, NEW s \in Syncs, NEW enviadas, Escribe(s, enviadas), NEW r, Pasa(s, r),
           EnMano(r), Anuncia(r), UNCHANGED <<publicado, fallas>>,
           \A e \in sync[s].boletin : e \in r.boletin \/ e.fila \in enviadas
    PROVE  IInv'
<1>1. /\ filas' \in [Ids -> Row \cup {Null}]
      /\ Existentes(filas) \subseteq Existentes(filas')
      /\ \A i \in Ids : filas'[i] # Null /\ filas'[i].alerta = "pendiente" =>
           /\ i \notin enviadas
           /\ \/ i \in DOMAIN sync[s].nuevas /\ sync[s].nuevas[i].alerta = "pendiente"
              \/ i \in Existentes(filas) /\ filas[i].alerta = "pendiente"
  BY EscribeForma DEF IInv
<1>2. /\ DOMAIN sync' = Syncs /\ sync'[s] = r
      /\ \A t \in Syncs : t # s =>
           /\ DOMAIN sync'[t] = Campos /\ sync'[t].pc = sync[t].pc
           /\ sync'[t].boletin = sync[t].boletin /\ sync'[t].nuevas = sync[t].nuevas
           /\ sync'[t].cura = sync[t].cura
  BY PasaForma DEF IInv
<1>3. \A t \in Syncs : EnMano(sync[t])
  BY DEF IInv, Formas
<1>4. ASSUME NEW t \in Syncs
      PROVE  /\ DOMAIN sync'[t] = Campos
             /\ sync'[t].pc = "fuera" => sync'[t].boletin = {}
             /\ \A i \in DOMAIN sync'[t].nuevas : sync'[t].nuevas[i] \in Row
             /\ \A i \in DOMAIN sync'[t].cura :
                  i \in Existentes(filas') /\ sync'[t].cura[i] \in Movs
  BY <1>1, <1>2, <1>3 DEF EnMano
<1>5. Formas'
  BY <1>1, <1>2, <1>4 DEF IInv, Formas, EnMano
<1>6. ASSUME fallas = 0 PROVE Anunciadas'
  BY <1>2, <1>6 DEF IInv, Anunciadas, Anuncia
<1>7. ASSUME fallas = 0 PROVE NoNewsLost'
  <2> SUFFICES ASSUME NEW i \in Ids, filas'[i] # Null, filas'[i].alerta = "pendiente"
               PROVE  \E t \in Syncs : \E e \in sync'[t].boletin : e.fila = i
    BY DEF NoNewsLost, Existentes
  <2>1. PICK t \in Syncs : \E e \in sync[t].boletin : e.fila = i
    BY <1>1, <1>7 DEF IInv, Anunciadas, Anuncia, NoNewsLost
  <2>2. i \notin enviadas
    BY <1>1
  <2> QED
    BY <1>2, <2>1, <2>2
<1> QED
  BY <1>5, <1>6, <1>7 DEF IInv

LEMMA CommitKeeps == ASSUME IInv, NEW s \in Syncs, Commit(s) PROVE IInv'
<1> DEFINE q == [NoSync EXCEPT !.pc = "sigue", !.boletin = sync[s].boletin]
<1>1. EnMano(q) /\ Anuncia(q) /\ q.boletin = sync[s].boletin
  BY SigueForma
<1>2. EnMano(NoSync) /\ Anuncia(NoSync) /\ NoSync.boletin = {}
  BY NoSyncForma DEF EnMano, Anuncia
<1>3. /\ Escribe(s, {}) /\ UNCHANGED <<publicado, fallas>>
      /\ Pasa(s, IF sync[s].boletin = {} THEN NoSync ELSE q)
  BY Zenon DEF Commit
<1> HIDE DEF q
<1>4. CASE sync[s].boletin = {}
  BY <1>2, <1>3, <1>4, EscribeKeeps
<1>5. CASE sync[s].boletin # {}
  BY <1>1, <1>3, <1>5, EscribeKeeps
<1> QED
  BY <1>4, <1>5

LEMMA FlushKeeps == ASSUME IInv, NEW s \in Syncs, flush_digests(s) PROVE IInv'
<1>1. \A e \in sync[s].boletin : e.fila \in {x.fila : x \in sync[s].boletin}
  OBVIOUS
<1> QED
  BY <1>1, CerradoForma, EscribeKeeps DEF flush_digests

\* What a sync stores of the movements N, told of R, with the rows l.
LEMMA AltasForma ==
    ASSUME NEW N \in SUBSET Movs, NEW R, NEW l
    PROVE  /\ \A i \in DOMAIN Altas(N, l, R) : Altas(N, l, R)[i] \in Row
           /\ \A i \in DOMAIN Altas(N, l, R) : Altas(N, l, R)[i].alerta = "pendiente" =>
                \E e \in Entradas(l, R) : e.fila = i
<1> SUFFICES ASSUME NEW i \in DOMAIN Altas(N, l, R)
             PROVE  /\ Altas(N, l, R)[i] \in Row
                    /\ Altas(N, l, R)[i].alerta = "pendiente" =>
                         \E e \in Entradas(l, R) : e.fila = i
  OBVIOUS
<1> DEFINE m == CHOOSE o \in N : l[o] = i
<1>1. m \in N /\ l[m] = i
  BY DEF Altas
<1>2. Altas(N, l, R)[i] = Fila(m, m \in R)
  BY DEF Altas
<1> HIDE DEF m
<1>3. CASE m \in R
  <2>1. [mov |-> m, fila |-> l[m]] \in Entradas(l, R) /\ [mov |-> m, fila |-> l[m]].fila = i
    BY <1>1, <1>3 DEF Entradas
  <2>2. Altas(N, l, R)[i] = [es |-> m, texto |-> m, alerta |-> "pendiente"]
    BY <1>2, <1>3 DEF Fila
  <2>3. Altas(N, l, R)[i] \in Row
    BY <1>1, <2>2 DEF Row
  <2> QED
    BY <2>1, <2>3
<1>4. CASE m \notin R
  <2>1. Altas(N, l, R)[i] = [es |-> m, texto |-> m, alerta |-> "omitida"]
    BY <1>2, <1>4 DEF Fila
  <2> QED
    BY <1>1, <2>1 DEF Row
<1> QED
  BY <1>3, <1>4

\* Each healed row is a candidate for its movement, and each movement with candidates has one.
LEMMA CurasForma ==
    ASSUME NEW movs, NEW c \in Curas(movs)
    PROVE  /\ \A i \in DOMAIN c : c[i] \in movs /\ i \in Candidatas(c[i])
           /\ \A m \in movs : Candidatas(m) # {} => \E i \in DOMAIN c : i \in Candidatas(m)
<1> DEFINE grupos == {Candidatas(m) : m \in movs} \ {{}}
<1>1. PICK D \in {E \in SUBSET UNION grupos : \A g \in grupos : \E i \in g : E \cap g = {i}} :
        c \in {k \in [D -> movs] : \A i \in D : i \in Candidatas(k[i])}
  BY DEF Curas
<1>2. \A m \in movs : Candidatas(m) # {} => Candidatas(m) \in grupos
  OBVIOUS
<1> QED
  BY <1>1, <1>2

LEMMA SyncKeeps == ASSUME IInv, NEW s \in Syncs, sync_movements(s) PROVE IInv'
<1>1. \E visto \in SUBSET publicado : \E c \in Curas(visto \ Conocidos) : \E l, R :
        sync' = [sync EXCEPT ![s] = Abierta(visto, c, Nuevas(visto, c), l, R)]
  BY Zenon DEF sync_movements
<1>2. PICK visto \in SUBSET publicado : \E c \in Curas(visto \ Conocidos) : \E l, R :
        sync' = [sync EXCEPT ![s] = Abierta(visto, c, Nuevas(visto, c), l, R)]
  BY <1>1
<1>2a. PICK c \in Curas(visto \ Conocidos) : \E l, R :
        sync' = [sync EXCEPT ![s] = Abierta(visto, c, Nuevas(visto, c), l, R)]
  BY <1>2
<1> DEFINE N == Nuevas(visto, c)
<1>3. PICK l, R : sync' = [sync EXCEPT ![s] = Abierta(visto, c, N, l, R)]
  BY <1>2a
<1>4. N \in SUBSET Movs
  BY DEF IInv, Formas, Nuevas
<1> HIDE DEF N
<1> DEFINE nuevas == Altas(N, l, R)
           boletin == Entradas(l, R)
<1>5. /\ \A i \in DOMAIN nuevas : nuevas[i] \in Row
      /\ \A i \in DOMAIN nuevas : nuevas[i].alerta = "pendiente" =>
           \E e \in boletin : e.fila = i
  BY <1>4, AltasForma
<1> DEFINE r == Abierta(visto, c, N, l, R)
<1>6. \A i \in DOMAIN c : i \in Existentes(filas) /\ c[i] \in Movs
  BY CurasForma DEF Candidatas, IInv, Formas
<1>7. DOMAIN r = Campos /\ r.pc = "abierta" /\ r.cura = c /\ r.nuevas = nuevas
      /\ r.boletin = boletin
  BY DEF Campos, Abierta
<1>8. sync' = [sync EXCEPT ![s] = r] /\ UNCHANGED <<filas, publicado, fallas>>
  BY <1>3 DEF sync_movements
<1> HIDE DEF r, nuevas, boletin
<1>9. DOMAIN sync' = Syncs /\ sync'[s] = r /\ \A t \in Syncs : t # s => sync'[t] = sync[t]
  BY <1>8 DEF IInv, Formas
<1>10. EnMano(r) /\ Anuncia(r)
  BY <1>5, <1>6, <1>7 DEF EnMano, Anuncia
<1>11. \A t \in Syncs : EnMano(sync'[t])
  BY <1>9, <1>10 DEF IInv, Formas
<1>12. Formas'
  BY <1>8, <1>9, <1>11 DEF IInv, Formas, EnMano, Existentes
<1>13. ASSUME fallas = 0 PROVE Anunciadas'
  BY <1>9, <1>10, <1>13 DEF IInv, Anunciadas, Anuncia
<1>14. sync[s].boletin = {}
  BY DEF sync_movements, IInv, Formas, EnMano
<1>15. ASSUME fallas = 0 PROVE NoNewsLost'
  BY <1>8, <1>9, <1>14, <1>15 DEF IInv, NoNewsLost, Existentes
<1> QED
  BY <1>8, <1>12, <1>13, <1>15 DEF IInv

LEMMA NextKeeps == ASSUME IInv, [Next]_vars PROVE IInv'
<1>1. CASE (\E m \in Movs : Publica(m)) \/ UNCHANGED vars
  BY <1>1 DEF Publica, vars, IInv, Formas, EnMano, Existentes, Anunciadas, Anuncia, NoNewsLost
<1>2. CASE \E s \in Syncs : \/ sync_movements(s) \/ Commit(s) \/ flush_digests(s)
                           \/ NoSale(s) \/ SinMarca(s) \/ Rollback(s) \/ Muere(s)
  BY <1>2, SyncKeeps, CommitKeeps, FlushKeeps, FallasKeep
<1>3. CASE \E s \in Syncs : Carga(s)
  BY <1>3 DEF Carga, IInv, Formas, EnMano, Existentes, Anunciadas, Anuncia, NoNewsLost
<1> QED
  BY <1>1, <1>2, <1>3 DEF Next

-----------------------------------------------------------------------------
(* accumulate, close and flush_digests: unless something fails, every alert *)
(* that fits in its digest is sent or held by a sync that will send it.     *)
THEOREM NoNewsLostAlways == Spec => []NoNewsLost
<1>1. Init => IInv
  BY InitHolds
<1>2. IInv /\ [Next]_vars => IInv'
  BY NextKeeps
<1>3. IInv => NoNewsLost
  BY DEF IInv, NoNewsLost
<1> QED
  BY <1>1, <1>2, <1>3, PTL DEF Spec

-----------------------------------------------------------------------------
(* What syncs that overlap hold of the table                               *)
(*                                                                         *)
(* The other properties count rows, entries and mails, and need to know    *)
(* what each sync has in hand: its new rows are free and its own, it holds *)
(* one entry for a movement, of a row whose alert waits (Fiel, Aparte).    *)

\* Same folio and date: movements that the repair of a row cannot tell apart.
Gemelo(m, n) == m.folio = n.folio /\ m.dia = n.dia

\* The table f: a text names the movement of its row or a twin, and a movement has one
\* repaired row at most.
Tabla(f) ==
    /\ f \in [Ids -> Row \cup {Null}]
    /\ \A i \in Ids : f[i] # Null /\ f[i].texto # Null => Gemelo(f[i].texto, f[i].es)
    /\ \A i, j \in Ids : /\ f[i] # Null /\ f[j] # Null /\ f[i].es = f[j].es
                         /\ f[i].texto = Null /\ f[j].texto = Null
                         => i = j

\* Row i as the sync that holds r sees it.
Vista(f, r, i) == IF i \in DOMAIN r.nuevas THEN r.nuevas[i] ELSE f[i]

\* The entry e is of a row whose alert waits to be sent, or of none.
Vigente(f, r, e) ==
    /\ e \in [mov : Movs, fila : Ids \cup {Null}]
    /\ e.fila # Null =>
         /\ Vista(f, r, e.fila) # Null
         /\ Vista(f, r, e.fila).es = e.mov
         /\ Vista(f, r, e.fila).alerta = "pendiente"

\* What a sync holds is true of the table: one new row and one entry for a movement.
Fiel(f, r) ==
    /\ DOMAIN r = Campos
    /\ r.pc \in {"fuera", "abierta", "sigue", "anotando"}
    /\ r.pc = "fuera" => r = NoSync
    /\ \A i \in DOMAIN r.nuevas :
         /\ i \in Ids /\ f[i] = Null
         /\ r.nuevas[i] \in Row /\ r.nuevas[i].texto = r.nuevas[i].es
         /\ r.nuevas[i].alerta \in {"pendiente", "omitida"}
    /\ \A i, j \in DOMAIN r.nuevas : r.nuevas[i].es = r.nuevas[j].es => i = j
    /\ \A i \in DOMAIN r.cura :
         i \in Ids /\ f[i] # Null /\ r.cura[i] \in Movs /\ Gemelo(r.cura[i], f[i].es)
    /\ \A e \in r.boletin : Vigente(f, r, e)
    /\ \A e, g \in r.boletin : e.mov = g.mov => e = g

\* No two syncs hold one new row, nor an entry of one row.
Aparte(q, r) ==
    /\ DOMAIN q.nuevas \cap DOMAIN r.nuevas = {}
    /\ \A e \in q.boletin, g \in r.boletin : e.fila # Null => e.fila # g.fila

GInv ==
    /\ Tabla(filas) /\ publicado \subseteq Movs /\ fallas \in Nat /\ DOMAIN sync = Syncs
    /\ \A s \in Syncs : Fiel(filas, sync[s])
    /\ \A s, t \in Syncs : s # t => Aparte(sync[s], sync[t])


\* The transaction of r takes the table from x to y, with the alerts of E marked.
Escrita(x, y, r, E) ==
    /\ y \in [Ids -> Row \cup {Null}]
    /\ \A i \in Ids : y[i] # Null <=> Vista(x, r, i) # Null
    /\ \A i \in Ids : y[i] # Null =>
         /\ y[i].es = Vista(x, r, i).es
         /\ y[i].alerta = IF i \in E THEN "enviada" ELSE Vista(x, r, i).alerta
         /\ y[i].texto = IF i \notin DOMAIN r.nuevas /\ i \in DOMAIN r.cura
                         THEN r.cura[i] ELSE Vista(x, r, i).texto

LEMMA EscribeEscrita ==
    ASSUME Tabla(filas), NEW s \in Syncs, Fiel(filas, sync[s]), NEW E, Escribe(s, E)
    PROVE  Escrita(filas, filas', sync[s], E)
<1> DEFINE r == sync[s]
           F(i) == IF i \in DOMAIN r.nuevas THEN r.nuevas[i]
                   ELSE IF i \in DOMAIN r.cura
                   THEN [filas[i] EXCEPT !.texto = r.cura[i]]
                   ELSE filas[i]
           G(i) == IF i \in E /\ F(i) # Null THEN [F(i) EXCEPT !.alerta = "enviada"] ELSE F(i)
<1>1. filas' = [i \in Ids |-> G(i)]
  BY DEF Escribe
<1>2. ASSUME NEW i \in Ids
      PROVE  /\ F(i) \in Row \cup {Null}
             /\ F(i) # Null <=> Vista(filas, r, i) # Null
             /\ F(i) # Null =>
                  /\ F(i).es = Vista(filas, r, i).es /\ F(i).alerta = Vista(filas, r, i).alerta
                  /\ F(i).texto = IF i \notin DOMAIN r.nuevas /\ i \in DOMAIN r.cura
                                  THEN r.cura[i] ELSE Vista(filas, r, i).texto
  <2>1. CASE i \in DOMAIN r.nuevas
    BY <2>1 DEF Fiel, Vista
  <2>2. CASE i \notin DOMAIN r.nuevas /\ i \in DOMAIN r.cura
    <3>1. filas[i] \in Row /\ r.cura[i] \in Movs
      BY <2>2 DEF Fiel, Tabla
    <3>2. F(i) = [filas[i] EXCEPT !.texto = r.cura[i]]
      BY <2>2
    <3>3. /\ F(i) \in Row /\ F(i).alerta = filas[i].alerta /\ F(i).es = filas[i].es
          /\ F(i).texto = r.cura[i]
      BY <3>1, <3>2 DEF Row
    <3> QED
      BY <2>2, <3>1, <3>3, NullAssumption DEF Vista
  <2>3. CASE i \notin DOMAIN r.nuevas /\ i \notin DOMAIN r.cura
    BY <2>3 DEF Tabla, Vista
  <2> QED
    BY <2>1, <2>2, <2>3
<1> HIDE DEF F
<1>3. ASSUME NEW i \in Ids
      PROVE  /\ G(i) \in Row \cup {Null}
             /\ G(i) # Null <=> F(i) # Null
             /\ F(i) # Null =>
                  /\ G(i).es = F(i).es /\ G(i).texto = F(i).texto
                  /\ G(i).alerta = IF i \in E THEN "enviada" ELSE F(i).alerta
  <2>1. CASE i \in E /\ F(i) # Null
    <3>1. F(i) \in Row
      BY <1>2, <2>1
    <3>2. G(i) = [F(i) EXCEPT !.alerta = "enviada"]
      BY <2>1
    <3>3. /\ G(i) \in Row /\ G(i).alerta = "enviada" /\ G(i).es = F(i).es
          /\ G(i).texto = F(i).texto
      BY <3>1, <3>2 DEF Row
    <3> QED
      BY <2>1, <3>3, NullAssumption
  <2>2. CASE ~(i \in E /\ F(i) # Null)
    BY <1>2, <2>2
  <2> QED
    BY <2>1, <2>2
<1> HIDE DEF G
<1>4. \A i \in Ids : filas'[i] = G(i)
  BY <1>1
<1>5. filas' \in [Ids -> Row \cup {Null}]
  BY <1>1, <1>3
<1> QED
  BY <1>2, <1>3, <1>4, <1>5 DEF Escrita

LEMMA EscritaTabla ==
    ASSUME NEW x, NEW y, NEW r, NEW E, Tabla(x), Fiel(x, r), Escrita(x, y, r, E)
    PROVE  Tabla(y)
<1>1. ASSUME NEW i \in Ids, y[i] # Null
      PROVE  /\ y[i].texto # Null => Gemelo(y[i].texto, y[i].es)
             /\ y[i].texto = Null => x[i] # Null /\ x[i].texto = Null /\ x[i].es = y[i].es
  <2>1. CASE i \in DOMAIN r.nuevas
    <3>1. r.nuevas[i].texto = r.nuevas[i].es /\ r.nuevas[i].es \in Movs
      BY <2>1 DEF Fiel, Row
    <3>2. y[i].texto = r.nuevas[i].texto /\ y[i].es = r.nuevas[i].es
      BY <1>1, <2>1 DEF Escrita, Vista
    <3> QED
      BY <3>1, <3>2, NullAssumption DEF Gemelo
  <2>2. CASE i \notin DOMAIN r.nuevas /\ i \in DOMAIN r.cura
    <3>1. r.cura[i] \in Movs /\ Gemelo(r.cura[i], x[i].es)
      BY <2>2 DEF Fiel
    <3>2. y[i].texto = r.cura[i] /\ y[i].es = x[i].es
      BY <1>1, <2>2 DEF Escrita, Vista
    <3> QED
      BY <3>1, <3>2, NullAssumption
  <2>3. CASE i \notin DOMAIN r.nuevas /\ i \notin DOMAIN r.cura
    <3>1. x[i] # Null /\ y[i].texto = x[i].texto /\ y[i].es = x[i].es
      BY <1>1, <2>3 DEF Escrita, Vista
    <3> QED
      BY <3>1 DEF Tabla
  <2> QED
    BY <2>1, <2>2, <2>3
<1> QED
  BY <1>1 DEF Tabla, Escrita

\* Another sync still holds what it held: its rows are not those the transaction wrote.
LEMMA OtroFiel ==
    ASSUME NEW x, NEW y, NEW r, NEW E, Fiel(x, r), Escrita(x, y, r, E),
           NEW u, Fiel(x, u), DOMAIN u.nuevas \cap DOMAIN r.nuevas = {},
           \A e \in u.boletin : e.fila # Null => e.fila \notin E
    PROVE  Fiel(y, u)
<1>1. \A i \in Ids : x[i] # Null => y[i] # Null /\ y[i].es = x[i].es
  BY DEF Escrita, Vista, Fiel
<1>2. \A i \in DOMAIN u.nuevas : y[i] = Null
  BY DEF Escrita, Vista, Fiel
<1>3. ASSUME NEW e \in u.boletin PROVE Vigente(y, u, e)
  <2>1. Vigente(x, u, e)
    BY DEF Fiel
  <2>2. CASE e.fila = Null
    BY <2>1, <2>2 DEF Vigente
  <2>3. CASE e.fila # Null /\ e.fila \in DOMAIN u.nuevas
    BY <2>1, <2>3 DEF Vigente, Vista
  <2>4. CASE e.fila # Null /\ e.fila \notin DOMAIN u.nuevas
    <3>1. e.fila \in Ids /\ x[e.fila] # Null /\ e.fila \notin E
      BY <2>1, <2>4 DEF Vigente, Vista
    <3>2. e.fila \notin DOMAIN r.nuevas
      BY <3>1 DEF Fiel
    <3>3. y[e.fila].alerta = x[e.fila].alerta
      BY <1>1, <3>1, <3>2 DEF Escrita, Vista
    <3> QED
      BY <1>1, <2>1, <2>4, <3>1, <3>3 DEF Vigente, Vista
  <2> QED
    BY <2>2, <2>3, <2>4
<1>4. \A i \in DOMAIN u.nuevas : i \in Ids
  BY DEF Fiel
<1>5. \A i \in DOMAIN u.cura : i \in Ids /\ y[i] # Null /\ Gemelo(u.cura[i], y[i].es)
  BY <1>1 DEF Fiel
<1> QED
  BY <1>2, <1>3, <1>4, <1>5 DEF Fiel

\* Whether it missed a write changes nothing of what it holds.
LEMMA PerdioFiel ==
    ASSUME NEW f, NEW u, NEW v, Fiel(f, u), u.pc # "fuera", DOMAIN v = Campos,
           v.pc = u.pc, v.nuevas = u.nuevas, v.cura = u.cura, v.boletin = u.boletin
    PROVE  Fiel(f, v)
<1>1. \A e : Vigente(f, u, e) => Vigente(f, v, e)
  BY DEF Vigente, Vista
<1> QED
  BY <1>1 DEF Fiel

LEMMA NoSyncFiel == ASSUME NEW f PROVE Fiel(f, NoSync)
<1>1. NoSync.pc = "fuera"
  BY DEF NoSync
<1> QED
  BY <1>1, NoSyncForma DEF Fiel

\* What is left of the entries of a sync, when its rows are stored or lost.
LEMMA SigueFiel ==
    ASSUME NEW f, NEW b,
           \A e \in b : Vigente(f, NoSync, e), \A e, g \in b : e.mov = g.mov => e = g
    PROVE  Fiel(f, [NoSync EXCEPT !.pc = "sigue", !.boletin = b])
<1> DEFINE r == [NoSync EXCEPT !.pc = "sigue", !.boletin = b]
<1>1. DOMAIN r = Campos /\ r.boletin = b /\ r.pc = "sigue" /\ r.nuevas = NoSync.nuevas /\ r.cura = NoSync.cura
  BY NoSyncForma DEF Campos
<1> HIDE DEF r
<1>2. \A e \in b : Vigente(f, r, e)
  BY <1>1 DEF Vigente, Vista
<1>3. Fiel(f, r)
  BY <1>1, <1>2, NoSyncForma DEF Fiel
<1> QED
  BY <1>3 DEF r

LEMMA CerradoFiel ==
    ASSUME NEW f, NEW s
    PROVE  /\ Fiel(f, Cerrado(s)) /\ Cerrado(s).boletin = {}
           /\ DOMAIN Cerrado(s).nuevas = {} /\ DOMAIN Cerrado(s).cura = {}
           /\ Cerrado(s).ultimo \in {0, sync[s].ultimo}
<1> DEFINE r == [NoSync EXCEPT !.pc = "anotando", !.ultimo = sync[s].ultimo,
                               !.perdio = sync[s].perdio]
<1>1. /\ DOMAIN r = Campos /\ r.boletin = NoSync.boletin /\ r.nuevas = NoSync.nuevas
      /\ r.cura = NoSync.cura /\ r.pc = "anotando" /\ r.ultimo = sync[s].ultimo
  BY NoSyncForma DEF Campos
<1>2. Cerrado(s) = NoSync \/ Cerrado(s) = r
  BY DEF Cerrado
<1> HIDE DEF r
<1>3. Fiel(f, r)
  BY <1>1, NoSyncForma DEF Fiel
<1> QED
  BY <1>1, <1>2, <1>3, NoSyncForma, NoSyncFiel

LEMMA EscritaVigente ==
    ASSUME NEW x, NEW y, NEW r, NEW E, Escrita(x, y, r, E),
           NEW e, Vigente(x, r, e), e.fila = Null \/ e.fila \notin E
    PROVE  Vigente(y, NoSync, e)
<1>1. e.fila # Null =>
        /\ e.fila \in Ids /\ y[e.fila] # Null
        /\ y[e.fila].es = Vista(x, r, e.fila).es /\ y[e.fila].alerta = Vista(x, r, e.fila).alerta
  BY DEF Vigente, Escrita
<1> QED
  BY <1>1, NoSyncForma DEF Vigente, Vista

\* How s begins: it sees some movements, heals c, and has l to store, R to mail, P to tell.
Abre(s, visto, c, l, R, P) ==
    LET N == Nuevas(visto, c) IN
    /\ visto \subseteq publicado /\ c \in Curas(visto \ Conocidos) /\ l \in Lugares(N)
    /\ R \subseteq N /\ P \subseteq N
    /\ sync' = [sync EXCEPT ![s] = Abierta(visto, c, N, l, R)]
    /\ webhooks' = [m \in Movs |-> webhooks[m] + IF m \in P THEN 1 ELSE 0]

LEMMA SyncAbre ==
    ASSUME NEW s \in Syncs, sync_movements(s)
    PROVE  /\ \E visto, c, l, R, P : Abre(s, visto, c, l, R, P)
           /\ sync[s].pc = "fuera"
           /\ UNCHANGED <<publicado, filas, ultimo, correos, fallas>>
<1>1. \E visto \in SUBSET publicado : \E c \in Curas(visto \ Conocidos) :
        \E l \in Lugares(Nuevas(visto, c)),
           R \in kSubset(Menor(MaxEntradas, Cardinality(Nuevas(visto, c))), Nuevas(visto, c)),
           P \in kSubset(Menor(Cupo, Cardinality(Nuevas(visto, c))), Nuevas(visto, c)) :
          /\ R \subseteq P \/ P \subseteq R
          /\ sync' = [sync EXCEPT ![s] = Abierta(visto, c, Nuevas(visto, c), l, R)]
          /\ webhooks' = [m \in Movs |-> webhooks[m] + IF m \in P THEN 1 ELSE 0]
  BY Zenon DEF sync_movements
<1>2. PICK visto \in SUBSET publicado : \E c \in Curas(visto \ Conocidos) :
        \E l \in Lugares(Nuevas(visto, c)),
           R \in kSubset(Menor(MaxEntradas, Cardinality(Nuevas(visto, c))), Nuevas(visto, c)),
           P \in kSubset(Menor(Cupo, Cardinality(Nuevas(visto, c))), Nuevas(visto, c)) :
          /\ R \subseteq P \/ P \subseteq R
          /\ sync' = [sync EXCEPT ![s] = Abierta(visto, c, Nuevas(visto, c), l, R)]
          /\ webhooks' = [m \in Movs |-> webhooks[m] + IF m \in P THEN 1 ELSE 0]
  BY <1>1, Zenon
<1>3. PICK c \in Curas(visto \ Conocidos) :
        \E l \in Lugares(Nuevas(visto, c)),
           R \in kSubset(Menor(MaxEntradas, Cardinality(Nuevas(visto, c))), Nuevas(visto, c)),
           P \in kSubset(Menor(Cupo, Cardinality(Nuevas(visto, c))), Nuevas(visto, c)) :
          /\ R \subseteq P \/ P \subseteq R
          /\ sync' = [sync EXCEPT ![s] = Abierta(visto, c, Nuevas(visto, c), l, R)]
          /\ webhooks' = [m \in Movs |-> webhooks[m] + IF m \in P THEN 1 ELSE 0]
  BY <1>2, Zenon
<1>4. PICK l \in Lugares(Nuevas(visto, c)),
           R \in kSubset(Menor(MaxEntradas, Cardinality(Nuevas(visto, c))), Nuevas(visto, c)),
           P \in kSubset(Menor(Cupo, Cardinality(Nuevas(visto, c))), Nuevas(visto, c)) :
          /\ sync' = [sync EXCEPT ![s] = Abierta(visto, c, Nuevas(visto, c), l, R)]
          /\ webhooks' = [m \in Movs |-> webhooks[m] + IF m \in P THEN 1 ELSE 0]
  BY <1>3, Zenon
<1>5. \A k, S : \A T \in kSubset(k, S) : T \subseteq S
  BY DEF kSubset
<1>6. Abre(s, visto, c, l, R, P)
  BY <1>4, <1>5 DEF Abre
<1> QED
  BY <1>6 DEF sync_movements

\* The rows l it is to store for the movements N, those of R with their alert to send.
SonAltas(a, N, l, R) ==
    /\ DOMAIN a = {l[m] : m \in N}
    /\ \A m \in N :
         /\ a[l[m]] \in Row /\ a[l[m]].es = m /\ a[l[m]].texto = m
         /\ a[l[m]].alerta = IF m \in R THEN "pendiente" ELSE "omitida"

LEMMA AltasFila ==
    ASSUME NEW N \in SUBSET Movs, NEW R, NEW l \in [N -> Ids],
           \A m, n \in N : l[m] = l[n] => m = n
    PROVE  SonAltas(Altas(N, l, R), N, l, R)
<1>1. DOMAIN Altas(N, l, R) = {l[m] : m \in N}
  BY DEF Altas
<1>2. ASSUME NEW m \in N
      PROVE  /\ Altas(N, l, R)[l[m]] \in Row
             /\ Altas(N, l, R)[l[m]].es = m /\ Altas(N, l, R)[l[m]].texto = m
             /\ Altas(N, l, R)[l[m]].alerta = IF m \in R THEN "pendiente" ELSE "omitida"
  <2>1. (CHOOSE o \in N : l[o] = l[m]) = m
    <3>1. \A o \in N : l[o] = l[m] => o = m
      OBVIOUS
    <3> QED
      BY <3>1
  <2>2. Altas(N, l, R)[l[m]] = Fila(m, m \in R)
    BY <2>1 DEF Altas
  <2>3. CASE m \in R
    <3>1. Altas(N, l, R)[l[m]] = [es |-> m, texto |-> m, alerta |-> "pendiente"]
      BY <2>2, <2>3 DEF Fila
    <3> QED
      BY <2>3, <3>1 DEF Row
  <2>4. CASE m \notin R
    <3>1. Altas(N, l, R)[l[m]] = [es |-> m, texto |-> m, alerta |-> "omitida"]
      BY <2>2, <2>4 DEF Fila
    <3> QED
      BY <2>4, <3>1 DEF Row
  <2> QED
    BY <2>3, <2>4
<1> QED
  BY <1>1, <1>2 DEF SonAltas

\* What a sync has in hand as it begins, of the new movements N.
EnManoDe(r, N, visto, c, l, R) ==
    /\ N \in SUBSET Movs /\ visto \in SUBSET Movs /\ l \in [N -> Libres] /\ R \subseteq N
    /\ \A m, n \in N : l[m] = l[n] => m = n
    /\ DOMAIN r = Campos /\ r.pc = "abierta" /\ r.perdio = FALSE /\ r.cura = c
    /\ r.ultimo = UltimoDe(visto) /\ r.boletin = Entradas(l, R)
    /\ SonAltas(r.nuevas, N, l, R)

LEMMA AbreForma ==
    ASSUME GInv, NEW s \in Syncs, NEW visto, NEW c, NEW l, NEW R, NEW P, Abre(s, visto, c, l, R, P)
    PROVE  /\ DOMAIN sync' = Syncs /\ \A t \in Syncs : t # s => sync'[t] = sync[t]
           /\ EnManoDe(sync'[s], Nuevas(visto, c), visto, c, l, R)
<1> DEFINE N == Nuevas(visto, c)
           r == Abierta(visto, c, N, l, R)
<1>1. visto \in SUBSET Movs /\ N \in SUBSET Movs /\ R \subseteq N
  BY DEF Abre, GInv, Nuevas
<1>2. l \in [N -> Libres] /\ \A m, n \in N : l[m] = l[n] => m = n
  BY DEF Abre, Lugares
<1>3. DOMAIN sync' = Syncs /\ sync'[s] = r /\ \A t \in Syncs : t # s => sync'[t] = sync[t]
  BY DEF Abre, GInv
<1> HIDE DEF N
<1>4. l \in [N -> Ids]
  BY <1>2 DEF Libres
<1>5. /\ DOMAIN r = Campos /\ r.pc = "abierta" /\ r.perdio = FALSE /\ r.cura = c
      /\ r.ultimo = UltimoDe(visto) /\ r.boletin = Entradas(l, R) /\ r.nuevas = Altas(N, l, R)
  BY DEF Abierta, Campos
<1> HIDE DEF r
<1>6. SonAltas(Altas(N, l, R), N, l, R)
  BY <1>1, <1>2, <1>4, AltasFila
<1>7. EnManoDe(r, N, visto, c, l, R)
  BY <1>1, <1>2, <1>5, <1>6 DEF EnManoDe, SonAltas
<1> QED
  BY <1>3, <1>7 DEF N

LEMMA AbreFiel ==
    ASSUME GInv, NEW s \in Syncs, NEW visto, NEW c, NEW l, NEW R, NEW P, Abre(s, visto, c, l, R, P)
    PROVE  Fiel(filas, sync'[s])
<1> DEFINE N == Nuevas(visto, c)
           r == sync'[s]
<1>0. EnManoDe(r, N, visto, c, l, R)
  BY AbreForma
<1> HIDE DEF N, r
<1>1. /\ N \in SUBSET Movs /\ l \in [N -> Libres] /\ R \subseteq N
      /\ \A m, n \in N : l[m] = l[n] => m = n
      /\ DOMAIN r = Campos /\ r.pc = "abierta" /\ r.cura = c /\ r.boletin = Entradas(l, R)
      /\ DOMAIN r.nuevas = {l[m] : m \in N}
      /\ \A m \in N :
           /\ r.nuevas[l[m]] \in Row /\ r.nuevas[l[m]].es = m /\ r.nuevas[l[m]].texto = m
           /\ r.nuevas[l[m]].alerta = IF m \in R THEN "pendiente" ELSE "omitida"
  BY <1>0 DEF EnManoDe, SonAltas
<1>2. \A i \in DOMAIN c : i \in Ids /\ filas[i] # Null /\ c[i] \in Movs /\ Gemelo(c[i], filas[i].es)
  <2> SUFFICES ASSUME NEW i \in DOMAIN c
               PROVE  i \in Ids /\ filas[i] # Null /\ c[i] \in Movs /\ Gemelo(c[i], filas[i].es)
    OBVIOUS
  <2>1. visto \subseteq publicado /\ c \in Curas(visto \ Conocidos)
    BY DEF Abre
  <2>2. c[i] \in visto /\ i \in Candidatas(c[i])
    BY <2>1, CurasForma
  <2> QED
    BY <2>1, <2>2 DEF Candidatas, Existentes, Gemelo, GInv
<1>3. \A i \in Libres : i \in Ids /\ filas[i] = Null
  BY DEF Libres
<1>4. \A i \in DOMAIN r.nuevas : \E m \in N : i = l[m]
  BY <1>1
<1>5. \A i \in DOMAIN r.nuevas :
         /\ i \in Ids /\ filas[i] = Null
         /\ r.nuevas[i] \in Row /\ r.nuevas[i].texto = r.nuevas[i].es
         /\ r.nuevas[i].alerta \in {"pendiente", "omitida"}
  BY <1>1, <1>3, <1>4
<1>6. \A i, j \in DOMAIN r.nuevas : r.nuevas[i].es = r.nuevas[j].es => i = j
  BY <1>1, <1>4
<1>7. \A e \in r.boletin : \E m \in R : e = [mov |-> m, fila |-> l[m]]
  BY <1>1 DEF Entradas
<1>8. \A e \in r.boletin : Vigente(filas, r, e)
  <2> SUFFICES ASSUME NEW e \in r.boletin PROVE Vigente(filas, r, e)
    OBVIOUS
  <2>1. PICK m \in R : e = [mov |-> m, fila |-> l[m]]
    BY <1>7
  <2>2. m \in N /\ l[m] \in Ids /\ l[m] \in DOMAIN r.nuevas /\ l[m] # Null
    BY <1>1, <1>3, NullAssumption
  <2>3. r.nuevas[l[m]] # Null /\ r.nuevas[l[m]].es = m /\ r.nuevas[l[m]].alerta = "pendiente"
    BY <1>1, <2>2, NullAssumption
  <2>4. e.mov = m /\ e.fila = l[m] /\ e \in [mov : Movs, fila : Ids \cup {Null}]
    BY <1>1, <2>1, <2>2
  <2> QED
    BY <2>2, <2>3, <2>4 DEF Vigente, Vista
<1>9. \A e, g \in r.boletin : e.mov = g.mov => e = g
  <2> SUFFICES ASSUME NEW e \in r.boletin, NEW g \in r.boletin, e.mov = g.mov PROVE e = g
    OBVIOUS
  <2>1. PICK m \in R : e = [mov |-> m, fila |-> l[m]]
    BY <1>7
  <2>2. PICK n \in R : g = [mov |-> n, fila |-> l[n]]
    BY <1>7
  <2> QED
    BY <2>1, <2>2
<1>10. Fiel(filas, r)
  BY <1>1, <1>2, <1>5, <1>6, <1>8, <1>9 DEF Fiel
<1> QED
  BY <1>10 DEF r

LEMMA AbreAparte ==
    ASSUME GInv, NEW s \in Syncs, NEW visto, NEW c, NEW l, NEW R, NEW P, Abre(s, visto, c, l, R, P),
           NEW t \in Syncs, t # s
    PROVE  Aparte(sync[t], sync'[s]) /\ Aparte(sync'[s], sync[t])
<1> DEFINE N == Nuevas(visto, c)
           r == sync'[s]
<1>0. EnManoDe(r, N, visto, c, l, R)
  BY AbreForma
<1> HIDE DEF N, r
<1>1. /\ l \in [N -> Libres] /\ R \subseteq N
      /\ r.boletin = Entradas(l, R) /\ DOMAIN r.nuevas = {l[m] : m \in N}
  BY <1>0 DEF EnManoDe, SonAltas
<1>2. \A i \in Libres : i \in Ids /\ filas[i] = Null /\ i \notin DOMAIN sync[t].nuevas
  BY DEF Libres
<1>3. DOMAIN r.nuevas \cap DOMAIN sync[t].nuevas = {}
  BY <1>1, <1>2
<1>4. \A g \in r.boletin : g.fila \in Libres
  BY <1>1 DEF Entradas
<1>5. \A e \in sync[t].boletin : e.fila # Null => e.fila \notin Libres
  BY <1>2 DEF GInv, Fiel, Vigente, Vista
<1>6. Aparte(sync[t], r) /\ Aparte(r, sync[t])
  BY <1>3, <1>4, <1>5, <1>2, NullAssumption DEF Aparte
<1> QED
  BY <1>6 DEF r

LEMMA SyncGInv == ASSUME GInv, NEW s \in Syncs, sync_movements(s) PROVE GInv'
<1>1. PICK visto, c, l, R, P : Abre(s, visto, c, l, R, P)
  BY SyncAbre
<1>2. /\ DOMAIN sync' = Syncs /\ \A t \in Syncs : t # s => sync'[t] = sync[t]
      /\ UNCHANGED <<publicado, filas, fallas>>
  BY <1>1, AbreForma, SyncAbre
<1>3. Fiel(filas, sync'[s])
  BY <1>1, AbreFiel
<1>4. \A t \in Syncs : t # s => Aparte(sync[t], sync'[s]) /\ Aparte(sync'[s], sync[t])
  BY <1>1, AbreAparte
<1>5. \A t \in Syncs : Fiel(filas', sync'[t])
  BY <1>2, <1>3 DEF GInv
<1>6. \A t, u \in Syncs : t # u => Aparte(sync'[t], sync'[u])
  BY <1>2, <1>4 DEF GInv
<1> QED
  BY <1>2, <1>5, <1>6 DEF GInv

\* What the others hold after a commit.
LEMMA PasaOtros ==
    ASSUME GInv, NEW s \in Syncs, NEW r, Pasa(s, r)
    PROVE  /\ DOMAIN sync' = Syncs /\ sync'[s] = r
           /\ \A t \in Syncs : t # s =>
                \/ sync'[t] = sync[t] /\ (sync[t].pc = "fuera" \/ filas' = filas)
                \/ /\ sync[t].pc # "fuera" /\ DOMAIN sync'[t] = Campos /\ sync'[t].perdio = TRUE
                   /\ sync'[t].pc = sync[t].pc /\ sync'[t].boletin = sync[t].boletin
                   /\ sync'[t].nuevas = sync[t].nuevas /\ sync'[t].cura = sync[t].cura
                   /\ sync'[t].ultimo = sync[t].ultimo
<1>1. DOMAIN sync' = Syncs /\ sync'[s] = r
  BY DEF Pasa
<1>2. ASSUME NEW t \in Syncs, t # s
      PROVE  \/ sync'[t] = sync[t] /\ (sync[t].pc = "fuera" \/ filas' = filas)
             \/ sync[t].pc # "fuera" /\ sync'[t] = [sync[t] EXCEPT !.perdio = TRUE]
  BY <1>2 DEF Pasa
<1>3. \A t \in Syncs : DOMAIN sync[t] = Campos
  BY DEF GInv, Fiel
<1> QED
  BY <1>1, <1>2, <1>3 DEF Campos

\* A commit of s, which leaves it with r.
LEMMA EscribeGInv ==
    ASSUME GInv, NEW s \in Syncs, NEW E, Escribe(s, E), NEW r, Pasa(s, r),
           E \subseteq {e.fila : e \in sync[s].boletin},
           Fiel(filas', r), DOMAIN r.nuevas = {}, r.boletin \subseteq sync[s].boletin,
           UNCHANGED <<publicado, fallas>>
    PROVE  GInv'
<1>1. Escrita(filas, filas', sync[s], E) /\ Fiel(filas, sync[s]) /\ Tabla(filas)
  BY EscribeEscrita DEF GInv
<1>2. Tabla(filas')
  BY <1>1, EscritaTabla
<1>3. ASSUME NEW t \in Syncs, t # s
      PROVE  /\ Fiel(filas', sync'[t])
             /\ sync'[t].boletin = sync[t].boletin /\ sync'[t].nuevas = sync[t].nuevas
  <2>1. Fiel(filas', sync[t])
    <3>1. Fiel(filas, sync[t]) /\ Aparte(sync[t], sync[s])
      BY <1>3 DEF GInv
    <3>2. \A e \in sync[t].boletin : e.fila # Null => e.fila \notin E
      BY <3>1 DEF Aparte
    <3> QED
      BY <1>1, <3>1, <3>2, OtroFiel DEF Aparte
  <2>2. \/ sync'[t] = sync[t]
        \/ /\ sync[t].pc # "fuera" /\ DOMAIN sync'[t] = Campos
           /\ sync'[t].pc = sync[t].pc /\ sync'[t].boletin = sync[t].boletin
           /\ sync'[t].nuevas = sync[t].nuevas /\ sync'[t].cura = sync[t].cura
    BY <1>3, PasaOtros
  <2> QED
    BY <2>1, <2>2, PerdioFiel
<1>4. DOMAIN sync' = Syncs /\ sync'[s] = r
  BY PasaOtros
<1>5. \A t \in Syncs : Fiel(filas', sync'[t])
  BY <1>3, <1>4
<1>6. \A t, u \in Syncs : t # u => Aparte(sync'[t], sync'[u])
  BY <1>3, <1>4 DEF GInv, Aparte
<1> QED
  BY <1>2, <1>4, <1>5, <1>6 DEF GInv

LEMMA CommitGInv == ASSUME GInv, NEW s \in Syncs, Commit(s) PROVE GInv'
<1> DEFINE q == [NoSync EXCEPT !.pc = "sigue", !.boletin = sync[s].boletin]
<1>1. /\ Escribe(s, {}) /\ UNCHANGED <<publicado, fallas>>
      /\ Pasa(s, IF sync[s].boletin = {} THEN NoSync ELSE q)
  BY Zenon DEF Commit
<1>2. Escrita(filas, filas', sync[s], {}) /\ Fiel(filas, sync[s])
  BY <1>1, EscribeEscrita DEF GInv
<1>3. \A e \in sync[s].boletin : Vigente(filas', NoSync, e)
  BY <1>2, EscritaVigente DEF Fiel
<1>4. Fiel(filas', q)
  BY <1>2, <1>3, SigueFiel DEF Fiel
<1>5. q.boletin = sync[s].boletin /\ q.nuevas = NoSync.nuevas
  BY NoSyncForma DEF Campos
<1> HIDE DEF q
<1>6. CASE sync[s].boletin = {}
  BY <1>1, <1>6, EscribeGInv, NoSyncFiel, NoSyncForma
<1>7. CASE sync[s].boletin # {}
  BY <1>1, <1>4, <1>5, <1>7, EscribeGInv, NoSyncForma
<1> QED
  BY <1>6, <1>7

LEMMA FlushGInv == ASSUME GInv, NEW s \in Syncs, flush_digests(s) PROVE GInv'
BY CerradoFiel, EscribeGInv DEF flush_digests

\* A failure, after which s holds r: entries it had, or of no row.
LEMMA FallaGInv ==
    ASSUME GInv, NEW s \in Syncs, Falla, UNCHANGED <<filas, publicado>>,
           NEW r, Fiel(filas, r), sync' = [sync EXCEPT ![s] = r],
           DOMAIN r.nuevas \subseteq DOMAIN sync[s].nuevas,
           \A e \in r.boletin : e \in sync[s].boletin \/ e.fila = Null
    PROVE  GInv'
<1>1. DOMAIN sync' = Syncs /\ \A t \in Syncs : sync'[t] = IF t = s THEN r ELSE sync[t]
  BY DEF GInv
<1>2. \A t \in Syncs : Fiel(filas', sync'[t])
  BY <1>1 DEF GInv
<1>3. \A t, u \in Syncs : t # u => Aparte(sync'[t], sync'[u])
  BY <1>1 DEF GInv, Aparte
<1>4. fallas' \in Nat
  BY DEF GInv, Falla
<1> QED
  BY <1>1, <1>2, <1>3, <1>4 DEF GInv

\* What a failure leaves s with.
LEMMA FallaDeja ==
    ASSUME GInv, NEW s \in Syncs, NoSale(s) \/ SinMarca(s) \/ Rollback(s) \/ Muere(s)
    PROVE  \E r : /\ Fiel(filas, r) /\ sync' = [sync EXCEPT ![s] = r]
                  /\ DOMAIN r.nuevas \subseteq DOMAIN sync[s].nuevas
                  /\ \A e \in r.boletin : e.fila = Null /\ \E g \in sync[s].boletin : e.mov = g.mov
                  /\ r.ultimo \in {0, sync[s].ultimo}
                  /\ \/ DOMAIN r.nuevas = {}
                     \/ r.nuevas = sync[s].nuevas /\ r.perdio = sync[s].perdio
<1>0. Fiel(filas, sync[s])
  BY DEF GInv
<1>1. CASE sync' = [sync EXCEPT ![s] = NoSync]
  BY <1>1, NoSyncFiel, NoSyncForma
<1>2. CASE NoSale(s) /\ s \notin Lotes
  <2> DEFINE r == [sync[s] EXCEPT !.boletin = {}]
  <2>1. sync[s].pc = "abierta"
    BY <1>2 DEF NoSale, Cierra
  <2>2. /\ DOMAIN r = Campos /\ r.pc = sync[s].pc /\ r.nuevas = sync[s].nuevas
        /\ r.cura = sync[s].cura /\ r.boletin = {} /\ r.ultimo = sync[s].ultimo
        /\ r.perdio = sync[s].perdio
    BY <1>0 DEF Fiel, Campos
  <2>3. sync' = [sync EXCEPT ![s] = r]
    BY <1>2 DEF NoSale
  <2> HIDE DEF r
  <2>4. Fiel(filas, r)
    BY <1>0, <2>1, <2>2 DEF Fiel
  <2> QED
    BY <2>2, <2>3, <2>4
<1>3. CASE SinMarca(s)
  BY <1>3, CerradoFiel DEF SinMarca
<1>4. CASE Rollback(s) /\ sync' # [sync EXCEPT ![s] = NoSync]
  <2> DEFINE r == [NoSync EXCEPT !.pc = "sigue", !.boletin = Perdidas(s)]
  <2>1. sync' = [sync EXCEPT ![s] = r]
    BY <1>4 DEF Rollback
  <2>2. ASSUME NEW e \in Perdidas(s)
        PROVE  e.fila = Null /\ e \in [mov : Movs, fila : {Null}] /\ \E g \in sync[s].boletin : e.mov = g.mov
    <3>1. PICK g \in sync[s].boletin : e = [mov |-> g.mov, fila |-> Null]
      BY DEF Perdidas
    <3>2. g.mov \in Movs
      BY <1>0 DEF Fiel, Vigente
    <3> QED
      BY <3>1, <3>2
  <2>3. \A e \in Perdidas(s) : Vigente(filas, NoSync, e)
    BY <2>2 DEF Vigente
  <2>4. \A e, g \in Perdidas(s) : e.mov = g.mov => e = g
    BY DEF Perdidas
  <2>5. Fiel(filas, r)
    BY <2>3, <2>4, SigueFiel
  <2>6. r.pc = "sigue" /\ r.boletin = Perdidas(s) /\ r.nuevas = NoSync.nuevas /\ r.ultimo = 0
    BY NoSyncForma DEF Campos
  <2> HIDE DEF r
  <2> QED
    BY <2>1, <2>2, <2>5, <2>6, NoSyncForma
<1> QED
  BY <1>1, <1>2, <1>3, <1>4 DEF NoSale, Muere, Rollback

LEMMA FallasGInv ==
    ASSUME GInv, NEW s \in Syncs, NoSale(s) \/ SinMarca(s) \/ Rollback(s) \/ Muere(s)
    PROVE  GInv'
<1>1. Falla /\ UNCHANGED <<filas, publicado>>
  BY DEF NoSale, SinMarca, Rollback, Muere
<1>2. PICK r : /\ Fiel(filas, r) /\ sync' = [sync EXCEPT ![s] = r]
               /\ DOMAIN r.nuevas \subseteq DOMAIN sync[s].nuevas
               /\ \A e \in r.boletin : e.fila = Null
  BY FallaDeja
<1> QED
  BY <1>1, <1>2, FallaGInv

LEMMA NextGInv == GInv /\ [Next]_vars => GInv'
<1> SUFFICES ASSUME GInv, [Next]_vars PROVE GInv'
  OBVIOUS
<1>1. CASE \E m \in Movs : Publica(m)
  BY <1>1 DEF Publica, GInv
<1>2. CASE UNCHANGED vars \/ \E s \in Syncs : Carga(s)
  BY <1>2 DEF vars, Carga, GInv
<1>3. CASE \E s \in Syncs : \/ sync_movements(s) \/ Commit(s) \/ flush_digests(s)
                           \/ NoSale(s) \/ SinMarca(s) \/ Rollback(s) \/ Muere(s)
  BY <1>3, SyncGInv, CommitGInv, FlushGInv, FallasGInv
<1> QED
  BY <1>1, <1>2, <1>3 DEF Next

-----------------------------------------------------------------------------
(* The table and the counters.  Each of the other properties adds to GInv a *)
(* conjunct of its own.                                                     *)

LEMMA InitGInv == Init => GInv
<1> SUFFICES ASSUME Init PROVE GInv
  OBVIOUS
<1>1. \E r \in SUBSET Movs : \E l \in {k \in [r -> Ids] : \A m, n \in r : k[m] = k[n] => m = n} :
        publicado = r /\ filas = Reparadas(r, l)
  BY Zenon DEF Init
<1>2. PICK r \in SUBSET Movs : \E l \in {k \in [r -> Ids] : \A m, n \in r : k[m] = k[n] => m = n} :
        publicado = r /\ filas = Reparadas(r, l)
  BY <1>1, Zenon
<1>3. PICK l \in [r -> Ids] : publicado = r /\ filas = Reparadas(r, l)
  BY <1>2
<1>4. ASSUME NEW i \in Ids
      PROVE  \/ filas[i] = Null
             \/ /\ filas[i] \in Row /\ filas[i].texto = Null
                /\ filas[i].es \in r /\ l[filas[i].es] = i
  <2>1. CASE \E m \in r : l[m] = i
    <3> DEFINE m == CHOOSE m \in r : l[m] = i
    <3>1. m \in r /\ l[m] = i
      BY <2>1
    <3>2. filas[i] = [es |-> m, texto |-> Null, alerta |-> "ninguna"]
      BY <1>3, <2>1 DEF Reparadas
    <3> QED
      BY <3>1, <3>2 DEF Row
  <2>2. CASE ~\E m \in r : l[m] = i
    BY <1>3, <2>2 DEF Reparadas
  <2> QED
    BY <2>1, <2>2
<1>5. filas \in [Ids -> Row \cup {Null}]
  BY InitHolds DEF IInv, Formas
<1>6. Tabla(filas)
  BY <1>4, <1>5 DEF Tabla
<1>7. sync = [s \in Syncs |-> NoSync] /\ fallas = 0
  BY DEF Init
<1>8. \A s \in Syncs : Fiel(filas, sync[s])
  BY <1>7, NoSyncFiel
<1>9. \A s, t \in Syncs : s # t => Aparte(sync[s], sync[t])
  BY <1>7, NoSyncForma DEF Aparte
<1> QED
  BY <1>3, <1>6, <1>7, <1>8, <1>9 DEF GInv

-----------------------------------------------------------------------------
(* The steps, as the table and what each sync holds see them.              *)

\* A transaction of s stored what s held; r is what it holds next.
Guarda(s, r, E) ==
    /\ Escrita(filas, filas', sync[s], E) /\ Pasa(s, r)
    /\ Fiel(filas', r) /\ DOMAIN r.nuevas = {} /\ r.ultimo \in {0, sync[s].ultimo}
    /\ ultimo' \in {ultimo, sync[s].ultimo}
    /\ UNCHANGED <<publicado, webhooks, fallas>>

LEMMA CommitGuarda ==
    ASSUME GInv, NEW s \in Syncs, Commit(s)
    PROVE  \E r : /\ Guarda(s, r, {}) /\ r.boletin = sync[s].boletin
                  /\ r.pc \in {"fuera", "sigue"}
<1> DEFINE q == [NoSync EXCEPT !.pc = "sigue", !.boletin = sync[s].boletin]
<1>1. /\ Escribe(s, {}) /\ UNCHANGED <<publicado, webhooks, fallas>>
      /\ Pasa(s, IF sync[s].boletin = {} THEN NoSync ELSE q)
  BY Zenon DEF Commit
<1>2. Escrita(filas, filas', sync[s], {}) /\ Fiel(filas, sync[s])
  BY <1>1, EscribeEscrita DEF GInv
<1>3. \A e \in sync[s].boletin : Vigente(filas', NoSync, e)
  BY <1>2, EscritaVigente DEF Fiel
<1>4. Fiel(filas', q)
  BY <1>2, <1>3, SigueFiel DEF Fiel
<1>5. /\ q.boletin = sync[s].boletin /\ q.nuevas = NoSync.nuevas /\ q.ultimo = 0
      /\ q.pc = "sigue" /\ NoSync.pc = "fuera"
  BY NoSyncForma DEF Campos, NoSync
<1>6. ultimo' \in {ultimo, sync[s].ultimo}
  BY DEF Commit, AnotaUltimo
<1> HIDE DEF q
<1>7. CASE sync[s].boletin = {}
  BY <1>1, <1>2, <1>5, <1>6, <1>7, NoSyncFiel, NoSyncForma DEF Guarda
<1>8. CASE sync[s].boletin # {}
  BY <1>1, <1>2, <1>4, <1>5, <1>6, <1>8, NoSyncForma DEF Guarda
<1> QED
  BY <1>7, <1>8

LEMMA FlushGuarda ==
    ASSUME GInv, NEW s \in Syncs, flush_digests(s)
    PROVE  Guarda(s, Cerrado(s), {e.fila : e \in sync[s].boletin})
<1>1. /\ Escribe(s, {e.fila : e \in sync[s].boletin}) /\ Pasa(s, Cerrado(s))
      /\ UNCHANGED <<publicado, ultimo, webhooks, fallas>>
  BY DEF flush_digests
<1>2. Escrita(filas, filas', sync[s], {e.fila : e \in sync[s].boletin})
  BY <1>1, EscribeEscrita DEF GInv
<1> QED
  BY <1>1, <1>2, CerradoFiel DEF Guarda

\* Something fails for s, which holds r next.
Pierde(s, r) ==
    /\ Fiel(filas, r) /\ sync' = [sync EXCEPT ![s] = r]
    /\ DOMAIN r.nuevas \subseteq DOMAIN sync[s].nuevas
    /\ \A e \in r.boletin : e.fila = Null /\ \E g \in sync[s].boletin : e.mov = g.mov
    /\ r.ultimo \in {0, sync[s].ultimo}
    /\ \/ DOMAIN r.nuevas = {}
       \/ r.nuevas = sync[s].nuevas /\ r.perdio = sync[s].perdio
    /\ fallas' = fallas + 1
    /\ UNCHANGED <<publicado, filas, ultimo, webhooks>>

LEMMA FallaPierde ==
    ASSUME GInv, NEW s \in Syncs, NoSale(s) \/ SinMarca(s) \/ Rollback(s) \/ Muere(s)
    PROVE  \E r : Pierde(s, r)
<1>1. fallas' = fallas + 1 /\ UNCHANGED <<publicado, filas, ultimo, webhooks>>
  BY DEF NoSale, SinMarca, Rollback, Muere, Falla
<1> QED
  BY <1>1, FallaDeja DEF Pierde

\* Every step is quiet, begins a sync, stores what one held, or fails one.
LEMMA Pasos ==
    ASSUME GInv, [Next]_vars
    PROVE  \/ UNCHANGED <<filas, ultimo, sync, correos, webhooks, fallas>> /\ publicado' \subseteq Movs
           \/ \E s \in Syncs : sync_movements(s)
           \/ \E s \in Syncs : \E r, E : Guarda(s, r, E)
           \/ \E s \in Syncs : \E r : Pierde(s, r)
<1>1. CASE \E m \in Movs : Publica(m)
  BY <1>1 DEF Publica, GInv
<1>2. CASE UNCHANGED vars \/ \E s \in Syncs : Carga(s)
  BY <1>2 DEF vars, Carga, GInv
<1>3. ASSUME NEW s \in Syncs,
             \/ sync_movements(s) \/ Commit(s) \/ flush_digests(s)
             \/ NoSale(s) \/ SinMarca(s) \/ Rollback(s) \/ Muere(s)
      PROVE  \/ sync_movements(s)
             \/ \E r, E : Guarda(s, r, E)
             \/ \E r : Pierde(s, r)
  BY <1>3, CommitGuarda, FlushGuarda, FallaPierde
<1> QED
  BY <1>1, <1>2, <1>3 DEF Next

-----------------------------------------------------------------------------
\* A finite set of numbers has a greatest one (its finite subsets are well founded).
LEMMA FinitoMax ==
    ASSUME NEW S \in SUBSET Nat, IsFiniteSet(S), S # {}
    PROVE  \E x \in S : \A y \in S : x >= y
<1> DEFINE SinMax(T) == T # {} /\ \A x \in T : \E y \in T : ~(x >= y)
           Malos == {T \in FiniteSubsetsOf(Nat) : SinMax(T)}
<1> SUFFICES ASSUME Malos # {} PROVE FALSE
  <2>1. S \in FiniteSubsetsOf(Nat)
    BY DEF FiniteSubsetsOf
  <2> QED
    BY <2>1
<1>1. PICK T \in Malos : \A U \in Malos : <<U, T>> \notin StrictSubsetOrdering(Nat)
  BY FS_StrictSubsetOrderingWellFounded, WFMin
<1>2. T \in SUBSET Nat /\ IsFiniteSet(T) /\ SinMax(T)
  BY DEF FiniteSubsetsOf
<1>3. PICK x \in T : TRUE
  BY <1>2
<1> DEFINE U == T \ {x}
<1>4. U \in FiniteSubsetsOf(Nat) /\ <<U, T>> \in StrictSubsetOrdering(Nat)
  BY <1>2, <1>3, FS_RemoveElement DEF FiniteSubsetsOf, StrictSubsetOrdering
<1>5. ~SinMax(U)
  BY <1>1, <1>4
<1>6. CASE U = {}
  <2>1. \A y \in T : y = x
    BY <1>6
  <2> QED
    BY <1>2, <1>3, <2>1
<1>7. CASE U # {}
  <2>1. PICK z \in U : \A y \in U : z >= y
    BY <1>5, <1>7
  <2>2. CASE z >= x
    BY <1>2, <2>1, <2>2
  <2>3. CASE ~(z >= x)
    <3>1. x \in Nat /\ z \in Nat /\ \A y \in U : y \in Nat
      BY <1>2, <1>3
    <3>2. \A y \in T : x >= y
      BY <2>1, <2>3, <3>1
    <3> QED
      BY <1>2, <1>3, <3>2
  <2> QED
    BY <2>2, <2>3
<1> QED
  BY <1>6, <1>7

Dias(movs) == {m.dia : m \in movs} \cup {0}

\* MaxDia is a date of the set, or 0, and none is later.
LEMMA MaxDiaCota ==
    ASSUME NEW S \in SUBSET Movs
    PROVE  /\ MaxDia(S) \in Dias(S) /\ MaxDia(S) \in Nat
           /\ \A m \in S : m.dia <= MaxDia(S)
<1> DEFINE D == {m.dia : m \in S}
           f == [m \in S |-> m.dia]
<1>1. IsFiniteSet(S)
  BY FiniteAssumption, FS_Subset
<1>2. f \in Surjection(S, D)
  BY DEF Surjection
<1>3. IsFiniteSet(D)
  BY <1>1, <1>2, FS_Surjection
<1>4. IsFiniteSet(Dias(S)) /\ Dias(S) = D \cup {0}
  BY <1>3, FS_AddElement DEF Dias
<1>5. Dias(S) \in SUBSET Nat /\ Dias(S) # {}
  BY DiaAssumption DEF Dias
<1>6. \E x \in Dias(S) : \A y \in Dias(S) : x >= y
  BY <1>4, <1>5, FinitoMax
<1>7. MaxDia(S) \in Dias(S) /\ \A y \in Dias(S) : MaxDia(S) >= y
  BY <1>6 DEF MaxDia, Max, Dias
<1>8. \A m \in S : m.dia \in Dias(S)
  BY DEF Dias
<1> QED
  BY <1>5, <1>7, <1>8

-----------------------------------------------------------------------------
(* Types                                                                   *)

\* Every date kept is one of a movement.
TipoUltimo ==
    /\ ultimo \in Dias(Movs) /\ \A s \in Syncs : sync[s].ultimo \in Dias(Movs)
    /\ leido \in [Syncs -> Dias(Movs) \cup {Null}]

TInv == GInv /\ TipoUltimo

LEMMA UltimoDeTipo ==
    ASSUME GInv, NEW visto \in SUBSET Movs
    PROVE  UltimoDe(visto) \in Dias(Movs)
<1> DEFINE S == {filas[i].es : i \in Existentes(filas)} \cup visto
<1>1. \A i \in Existentes(filas) : filas[i].es \in Movs
  BY DEF GInv, Tabla, Existentes, Row
<1>2. S \in SUBSET Movs
  BY <1>1
<1>3. UltimoDe(visto) = MaxDia(S)
  BY DEF UltimoDe
<1> HIDE DEF S
<1> QED
  BY <1>2, <1>3, MaxDiaCota DEF Dias

LEMMA LeidoTipo ==
    ASSUME TInv, [Next]_vars
    PROVE  leido' \in [Syncs -> Dias(Movs) \cup {Null}]
<1>1. leido \in [Syncs -> Dias(Movs) \cup {Null}] /\ ultimo \in Dias(Movs)
  BY DEF TInv, TipoUltimo
<1>2. CASE UNCHANGED leido
  BY <1>1, <1>2
<1>3. ASSUME NEW s \in Syncs, Carga(s) \/ Expira(s) PROVE leido' \in [Syncs -> Dias(Movs) \cup {Null}]
  BY <1>1, <1>3 DEF Carga, Expira
<1>4. UNCHANGED leido \/ \E s \in Syncs : Carga(s) \/ Expira(s)
  BY DEF Next, vars, Publica, sync_movements, Commit, flush_digests, NoSale, SinMarca, Rollback, Muere
<1> QED
  BY <1>2, <1>3, <1>4

LEMMA NextTInv == TInv /\ [Next]_vars => TInv'
<1> SUFFICES ASSUME TInv, [Next]_vars PROVE TInv'
  OBVIOUS
<1>0. GInv /\ GInv'
  BY NextGInv DEF TInv
<1>1. 0 \in Dias(Movs) /\ leido' \in [Syncs -> Dias(Movs) \cup {Null}]
  BY LeidoTipo DEF Dias
<1>2. CASE UNCHANGED <<filas, ultimo, sync, correos, webhooks, fallas>>
  BY <1>0, <1>1, <1>2 DEF TInv, TipoUltimo
<1>3. ASSUME NEW s \in Syncs, sync_movements(s) PROVE TInv'
  <2>1. PICK visto, c, l, R, P : Abre(s, visto, c, l, R, P)
    BY <1>0, <1>3, SyncAbre
  <2>2. \A t \in Syncs : t # s => sync'[t] = sync[t]
    BY <1>0, <2>1, AbreForma
  <2>3. sync'[s].ultimo = UltimoDe(visto) /\ visto \in SUBSET Movs
    BY <1>0, <2>1, AbreForma DEF EnManoDe
  <2>4. UNCHANGED ultimo
    BY <1>0, <1>3, SyncAbre
  <2> QED
    BY <1>0, <1>1, <2>2, <2>3, <2>4, UltimoDeTipo DEF TInv, TipoUltimo
<1>4. ASSUME NEW s \in Syncs, NEW r, NEW E, Guarda(s, r, E) PROVE TInv'
  <2>1. sync'[s] = r /\ \A t \in Syncs : t # s => sync'[t].ultimo = sync[t].ultimo
    BY <1>0, <1>4, PasaOtros DEF Guarda
  <2> QED
    BY <1>0, <1>1, <1>4, <2>1 DEF TInv, TipoUltimo, Guarda
<1>5. ASSUME NEW s \in Syncs, NEW r, Pierde(s, r) PROVE TInv'
  <2>1. \A t \in Syncs : sync'[t] = IF t = s THEN r ELSE sync[t]
    BY <1>0, <1>5 DEF Pierde, GInv
  <2> QED
    BY <1>0, <1>1, <1>5, <2>1 DEF TInv, TipoUltimo, Pierde
<1> QED
  BY <1>0, <1>2, <1>3, <1>4, <1>5, Pasos

LEMMA InitTInv == Init => TInv
<1> SUFFICES ASSUME Init PROVE TInv
  OBVIOUS
<1>1. \E r \in SUBSET Movs : ultimo = MaxDia(r)
  BY Zenon DEF Init
<1>2. PICK r \in SUBSET Movs : ultimo = MaxDia(r)
  BY <1>1
<1>3. ultimo \in Dias(Movs)
  BY <1>2, MaxDiaCota DEF Dias
<1>4. \A s \in Syncs : sync[s].ultimo = 0
  BY NoSyncForma DEF Init
<1>5. leido \in [Syncs -> Dias(Movs) \cup {Null}]
  BY DEF Init
<1> QED
  BY <1>3, <1>4, <1>5, InitGInv DEF TInv, TipoUltimo, Dias

\* The rows and what the syncs hold keep their types: an entry of a digest is of a row or
\* of none, a date is of a movement, and a sync at rest has nothing in hand.
THEOREM TypesAlways == Spec => []TypeOK
<1>1. Init => TInv
  BY InitTInv
<1>2. TInv /\ [Next]_vars => TInv'
  BY NextTInv
<1>3. TInv => TypeOK
  BY DEF TInv, GInv, TipoUltimo, Dias, Tabla, Fiel, Vigente, TypeOK
<1> QED
  BY <1>1, <1>2, <1>3, PTL DEF Spec

-----------------------------------------------------------------------------
(* News                                                                    *)

\* The rows f has of a movement r is to store: none, or it has a twin, unless r missed a
\* write.
Nueva(f, r) ==
    ~r.perdio => \A i \in DOMAIN r.nuevas :
                   Rows(f, r.nuevas[i].es) = {} \/ Gemelos(r.nuevas[i].es) # {r.nuevas[i].es}

NInv == GInv /\ \A s \in Syncs : Nueva(filas, sync[s])

\* Of a movement without twins that has a row, a sync knows the text or heals the row.
LEMMA SinGemelosConocido ==
    ASSUME GInv, NEW visto \in SUBSET Movs, NEW m \in visto, Gemelos(m) = {m},
           NEW j \in Rows(filas, m), NEW c \in Curas(visto \ Conocidos)
    PROVE  m \notin Nuevas(visto, c)
<1>1. j \in Existentes(filas) /\ j \in Ids /\ filas[j] \in Row /\ filas[j].es = m
  BY DEF Rows, Existentes, GInv, Tabla
<1>2. \A n \in Movs : n.folio = m.folio /\ n.dia = m.dia => n = m
  BY DEF Gemelos
<1>3. CASE filas[j].texto # Null
  <2>1. filas[j].texto \in Movs
    BY <1>1, <1>3 DEF Row
  <2>2. Gemelo(filas[j].texto, m)
    BY <1>1, <1>3 DEF GInv, Tabla, Existentes
  <2>3. filas[j].texto = m
    BY <1>2, <2>1, <2>2 DEF Gemelo
  <2> QED
    BY <1>1, <2>3 DEF Conocidos, Nuevas
<1>4. CASE filas[j].texto = Null /\ m \notin Conocidos
  <2>1. j \in Candidatas(m)
    BY <1>1, <1>4 DEF Candidatas
  <2>2. PICK i \in DOMAIN c : i \in Candidatas(m)
    BY <1>4, <2>1, CurasForma
  <2>3. c[i] \in Movs /\ i \in Candidatas(c[i])
    BY CurasForma
  <2>4. c[i].folio = m.folio /\ c[i].dia = m.dia
    BY <2>2, <2>3 DEF Candidatas
  <2>5. c[i] = m
    BY <1>2, <2>3, <2>4
  <2> QED
    BY <2>2, <2>5 DEF Nuevas
<1> QED
  BY <1>3, <1>4 DEF Nuevas

LEMMA AbreNueva ==
    ASSUME GInv, NEW s \in Syncs, NEW visto, NEW c, NEW l, NEW R, NEW P, Abre(s, visto, c, l, R, P)
    PROVE  Nueva(filas, sync'[s])
<1> DEFINE N == Nuevas(visto, c)
           r == sync'[s]
<1>0. EnManoDe(r, N, visto, c, l, R)
  BY AbreForma
<1> HIDE DEF r
<1>1. /\ visto \in SUBSET Movs /\ c \in Curas(visto \ Conocidos)
      /\ DOMAIN r.nuevas = {l[m] : m \in N} /\ \A m \in N : r.nuevas[l[m]].es = m
  BY <1>0 DEF EnManoDe, SonAltas, Abre
<1>2. ASSUME NEW i \in DOMAIN r.nuevas
      PROVE  Rows(filas, r.nuevas[i].es) = {} \/ Gemelos(r.nuevas[i].es) # {r.nuevas[i].es}
  <2>1. r.nuevas[i].es \in N
    BY <1>1
  <2>2. r.nuevas[i].es \in visto
    BY <2>1 DEF Nuevas
  <2> QED
    BY <1>1, <2>1, <2>2, SinGemelosConocido
<1> QED
  BY <1>2 DEF Nueva, r

LEMMA NextNInv == NInv /\ [Next]_vars => NInv'
<1> SUFFICES ASSUME NInv, [Next]_vars PROVE NInv'
  OBVIOUS
<1>0. GInv /\ GInv'
  BY NextGInv DEF NInv
<1>1. CASE UNCHANGED <<filas, ultimo, sync, correos, webhooks, fallas>>
  BY <1>0, <1>1 DEF NInv
<1>2. ASSUME NEW s \in Syncs, sync_movements(s) PROVE NInv'
  <2>1. PICK visto, c, l, R, P : Abre(s, visto, c, l, R, P)
    BY <1>0, <1>2, SyncAbre
  <2>2. Nueva(filas, sync'[s]) /\ \A t \in Syncs : t # s => sync'[t] = sync[t]
    BY <1>0, <2>1, AbreForma, AbreNueva
  <2>3. filas' = filas
    BY <1>0, <1>2, SyncAbre
  <2> QED
    BY <1>0, <2>2, <2>3 DEF NInv
<1>3. ASSUME NEW s \in Syncs, NEW r, NEW E, Guarda(s, r, E) PROVE NInv'
  <2>1. sync'[s] = r /\ DOMAIN r.nuevas = {}
    BY <1>0, <1>3, PasaOtros DEF Guarda
  <2>2. ASSUME NEW t \in Syncs, t # s PROVE Nueva(filas', sync'[t])
    <3>1. CASE sync'[t] = sync[t] /\ filas' = filas
      BY <3>1 DEF NInv
    <3>2. CASE sync'[t] = sync[t] /\ sync[t].pc = "fuera"
      <4>1. DOMAIN sync[t].nuevas = {}
        BY <1>0, <3>2, NoSyncForma DEF GInv, Fiel
      <4> QED
        BY <3>2, <4>1 DEF Nueva
    <3>3. CASE sync'[t].perdio = TRUE
      BY <3>3 DEF Nueva
    <3> QED
      BY <1>0, <1>3, <2>2, <3>1, <3>2, <3>3, PasaOtros DEF Guarda
  <2> QED
    BY <1>0, <2>1, <2>2 DEF NInv, Nueva
<1>4. ASSUME NEW s \in Syncs, NEW r, Pierde(s, r) PROVE NInv'
  <2>1. \A t \in Syncs : sync'[t] = IF t = s THEN r ELSE sync[t]
    BY <1>0, <1>4 DEF Pierde, GInv
  <2>2. Nueva(filas, r)
    BY <1>4 DEF Pierde, NInv, Nueva
  <2> QED
    BY <1>0, <1>4, <2>1, <2>2 DEF NInv, Pierde
<1> QED
  BY <1>0, <1>1, <1>2, <1>3, <1>4, Pasos

\* A step that stores a row is that of a sync which held it.
LEMMA FilaNueva ==
    ASSUME GInv, [Next]_vars, NEW i \in Ids, filas[i] = Null, filas'[i] # Null
    PROVE  \E s \in Syncs : i \in DOMAIN sync[s].nuevas /\ filas'[i].es = sync[s].nuevas[i].es
<1>1. ASSUME NEW s \in Syncs, sync_movements(s) PROVE FALSE
  BY <1>1, SyncAbre
<1>2. PICK s \in Syncs : \E r, E : Guarda(s, r, E)
  BY <1>1, Pasos DEF Pierde
<1>3. PICK r, E : Guarda(s, r, E)
  BY <1>2
<1>4. Vista(filas, sync[s], i) # Null /\ filas'[i].es = Vista(filas, sync[s], i).es
  BY <1>3 DEF Guarda, Escrita
<1> QED
  BY <1>4 DEF Vista

\* sync_movements: what was stored is no news.  A movement gets a second row, and a second
\* alert, only from a sync that missed the first, or when another cuaderno has a movement of
\* its folio and date.
THEOREM NewsIsNewAlways == Spec => NewsIsNew
<1> DEFINE A == \A i \in Ids : filas[i] = Null /\ filas'[i] # Null =>
                  LET m == filas'[i].es
                  IN \/ Rows(filas, m) = {}
                     \/ Gemelos(m) # {m}
                     \/ \E s \in Syncs : i \in DOMAIN sync[s].nuevas /\ sync[s].perdio
<1>1. Init => NInv
  <2> SUFFICES ASSUME Init PROVE NInv
    OBVIOUS
  <2>1. \A s \in Syncs : DOMAIN sync[s].nuevas = {}
    BY NoSyncForma DEF Init
  <2> QED
    BY <2>1, InitGInv DEF NInv, Nueva
<1>2. NInv /\ [Next]_vars => NInv'
  BY NextNInv
<1>3. ASSUME NInv, [Next]_vars PROVE A
  <2> SUFFICES ASSUME NEW i \in Ids, filas[i] = Null, filas'[i] # Null
               PROVE  \/ Rows(filas, filas'[i].es) = {}
                      \/ Gemelos(filas'[i].es) # {filas'[i].es}
                      \/ \E s \in Syncs : i \in DOMAIN sync[s].nuevas /\ sync[s].perdio
    OBVIOUS
  <2>1. PICK s \in Syncs : i \in DOMAIN sync[s].nuevas /\ filas'[i].es = sync[s].nuevas[i].es
    BY <1>3, FilaNueva DEF NInv
  <2>2. Nueva(filas, sync[s])
    BY <1>3 DEF NInv
  <2> QED
    BY <2>1, <2>2 DEF Nueva
<1>4. NInv /\ [Next]_vars => [A]_vars
  BY <1>3
<1> QED
  BY <1>1, <1>2, <1>4, PTL DEF Spec, NewsIsNew

-----------------------------------------------------------------------------
(* The date of the last movement                                           *)

\* The movements with a row in f, and those r is to store.
Guardados(f) == {f[i].es : i \in Existentes(f)}
PorGuardar(r) == {r.nuevas[i].es : i \in DOMAIN r.nuevas}

\* The date r is to store is that of the last movement there will be, unless it missed a
\* write, and of one of them in any case.
Fechada(f, r) ==
    r.pc \in {"abierta", "anotando"} =>
      /\ r.ultimo \in Dias(Guardados(f) \cup PorGuardar(r))
      /\ ~r.perdio => r.ultimo = MaxDia(Guardados(f) \cup PorGuardar(r))

Fechas == ultimo \in Dias(Guardados(filas)) /\ \A s \in Syncs : Fechada(filas, sync[s])

FInv == GInv /\ (fallas = 0 => Fechas)

LEMMA MaxDiaDias ==
    ASSUME NEW S, NEW T, Dias(S) = Dias(T)
    PROVE  MaxDia(S) = MaxDia(T)
BY DEF MaxDia, Dias

LEMMA GuardadosTipo ==
    ASSUME GInv
    PROVE  Guardados(filas) \in SUBSET Movs /\ \A s \in Syncs : PorGuardar(sync[s]) \in SUBSET Movs
<1>1. \A i \in Existentes(filas) : filas[i].es \in Movs
  BY DEF GInv, Tabla, Existentes, Row
<1>2. \A s \in Syncs : \A i \in DOMAIN sync[s].nuevas : sync[s].nuevas[i].es \in Movs
  BY DEF GInv, Fiel, Row
<1> QED
  BY <1>1, <1>2 DEF Guardados, PorGuardar

\* A transaction of s stores what s was to store.
LEMMA GuardaGuardados ==
    ASSUME GInv, NEW s \in Syncs, NEW r, NEW E, Guarda(s, r, E)
    PROVE  Guardados(filas') = Guardados(filas) \cup PorGuardar(sync[s])
<1>1. Escrita(filas, filas', sync[s], E) /\ Fiel(filas, sync[s])
  BY DEF GInv, Guarda
<1>2. ASSUME NEW i \in Existentes(filas') PROVE filas'[i].es \in Guardados(filas) \cup PorGuardar(sync[s])
  <2>1. i \in Ids /\ Vista(filas, sync[s], i) # Null /\ filas'[i].es = Vista(filas, sync[s], i).es
    BY <1>1 DEF Escrita, Existentes
  <2>2. i \in DOMAIN sync[s].nuevas \/ i \in Existentes(filas)
    BY <2>1 DEF Vista, Existentes
  <2> QED
    BY <2>1, <2>2 DEF Vista, Guardados, PorGuardar, Existentes
<1>3. ASSUME NEW i \in Existentes(filas) PROVE filas[i].es \in Guardados(filas')
  <2>1. i \in Ids /\ filas[i] # Null /\ i \notin DOMAIN sync[s].nuevas
    BY <1>1 DEF Existentes, Fiel
  <2>2. filas'[i] # Null /\ filas'[i].es = filas[i].es
    BY <1>1, <2>1 DEF Escrita, Vista
  <2> QED
    BY <2>1, <2>2 DEF Guardados, Existentes
<1>4. ASSUME NEW i \in DOMAIN sync[s].nuevas PROVE sync[s].nuevas[i].es \in Guardados(filas')
  <2>1. i \in Ids /\ sync[s].nuevas[i] # Null
    BY <1>1, NullAssumption DEF Fiel
  <2>2. filas'[i] # Null /\ filas'[i].es = sync[s].nuevas[i].es
    BY <1>1, <2>1 DEF Escrita, Vista
  <2> QED
    BY <2>1, <2>2 DEF Guardados, Existentes
<1> QED
  BY <1>2, <1>3, <1>4 DEF Guardados, PorGuardar

LEMMA AbreFechada ==
    ASSUME GInv, NEW s \in Syncs, NEW visto, NEW c, NEW l, NEW R, NEW P, Abre(s, visto, c, l, R, P)
    PROVE  Fechada(filas, sync'[s])
<1> DEFINE N == Nuevas(visto, c)
           r == sync'[s]
<1>0. EnManoDe(r, N, visto, c, l, R) /\ Fiel(filas, r)
  BY AbreForma, AbreFiel
<1> HIDE DEF r
<1>1. /\ visto \in SUBSET Movs /\ N \in SUBSET Movs /\ r.cura = c /\ r.ultimo = UltimoDe(visto)
      /\ DOMAIN r.nuevas = {l[m] : m \in N} /\ \A m \in N : r.nuevas[l[m]].es = m
  BY <1>0 DEF EnManoDe, SonAltas
<1>2. PorGuardar(r) = N
  BY <1>1 DEF PorGuardar
<1>3. r.ultimo = MaxDia(Guardados(filas) \cup visto)
  BY <1>1 DEF UltimoDe, Guardados
<1>4. ASSUME NEW m \in visto, m \notin N PROVE m.dia \in Dias(Guardados(filas))
  <2>1. CASE m \in Conocidos
    <3>1. PICK i \in Existentes(filas) : filas[i].texto = m
      BY <2>1 DEF Conocidos
    <3>2. Gemelo(m, filas[i].es)
      BY <1>1, <3>1, NullAssumption DEF GInv, Tabla, Existentes
    <3> QED
      BY <3>2 DEF Gemelo, Dias, Guardados
  <2>2. CASE m \notin Conocidos
    <3>1. PICK i \in DOMAIN c : c[i] = m
      BY <1>4, <2>2 DEF Nuevas
    <3>2. i \in Existentes(filas) /\ Gemelo(m, filas[i].es)
      BY <1>0, <1>1, <3>1 DEF Fiel, Existentes
    <3> QED
      BY <3>2 DEF Gemelo, Dias, Guardados
  <2> QED
    BY <2>1, <2>2
<1>5. N \subseteq visto
  BY DEF Nuevas
<1>6. Dias(Guardados(filas) \cup visto) = Dias(Guardados(filas) \cup N)
  <2>1. Dias(Guardados(filas) \cup N) \subseteq Dias(Guardados(filas) \cup visto)
    BY <1>5 DEF Dias
  <2>2. ASSUME NEW m \in visto PROVE m.dia \in Dias(Guardados(filas) \cup N)
    BY <1>4 DEF Dias
  <2>3. \A m \in Guardados(filas) : m.dia \in Dias(Guardados(filas) \cup N)
    BY DEF Dias
  <2> QED
    BY <2>1, <2>2, <2>3 DEF Dias
<1>7. r.ultimo = MaxDia(Guardados(filas) \cup PorGuardar(r))
  BY <1>2, <1>3, <1>6, MaxDiaDias
<1>8. r.ultimo \in Dias(Guardados(filas) \cup PorGuardar(r))
  BY <1>1, <1>2, <1>7, GuardadosTipo, MaxDiaCota
<1> QED
  BY <1>7, <1>8 DEF Fechada, r

LEMMA InitFecha == Init => ultimo \in Dias(Guardados(filas))
<1> SUFFICES ASSUME Init PROVE ultimo \in Dias(Guardados(filas))
  OBVIOUS
<1>1. \E r \in SUBSET Movs : \E l \in {k \in [r -> Ids] : \A m, n \in r : k[m] = k[n] => m = n} :
        filas = Reparadas(r, l) /\ ultimo = MaxDia(r)
  BY Zenon DEF Init
<1>2. PICK r \in SUBSET Movs : \E l \in {k \in [r -> Ids] : \A m, n \in r : k[m] = k[n] => m = n} :
        filas = Reparadas(r, l) /\ ultimo = MaxDia(r)
  BY <1>1, Zenon
<1>3. PICK l \in [r -> Ids] : /\ filas = Reparadas(r, l) /\ ultimo = MaxDia(r)
                              /\ \A m, n \in r : l[m] = l[n] => m = n
  BY <1>2
<1>4. ASSUME NEW m \in r PROVE m \in Guardados(filas)
  <2>1. l[m] \in Ids /\ \E n \in r : l[n] = l[m]
    OBVIOUS
  <2>2. (CHOOSE n \in r : l[n] = l[m]) = m
    <3>1. \A n \in r : l[n] = l[m] => n = m
      BY <1>3
    <3> QED
      BY <3>1
  <2>3. filas[l[m]] = [es |-> m, texto |-> Null, alerta |-> "ninguna"]
    BY <1>3, <2>1, <2>2 DEF Reparadas
  <2>4. filas[l[m]] \in Row /\ filas[l[m]].es = m
    BY <2>3 DEF Row
  <2> QED
    BY <2>1, <2>4, NullAssumption DEF Guardados, Existentes
<1>5. Dias(r) \subseteq Dias(Guardados(filas))
  BY <1>4 DEF Dias
<1> QED
  BY <1>3, <1>5, MaxDiaCota

\* Any transaction of s leaves the dates right, if what s holds next is.
LEMMA GuardaFechas ==
    ASSUME FInv, fallas = 0, NEW s \in Syncs, NEW r, NEW E, Guarda(s, r, E),
           Fechada(filas', r), ultimo' \in Dias(Guardados(filas'))
    PROVE  Fechas'
<1>0. GInv /\ Fechas
  BY DEF FInv
<1>1. Guardados(filas) \subseteq Guardados(filas')
  BY <1>0, GuardaGuardados
<1>2. ASSUME NEW t \in Syncs, t # s PROVE Fechada(filas', sync'[t])
  <2>1. \/ sync'[t] = sync[t] /\ (sync[t].pc = "fuera" \/ filas' = filas)
        \/ /\ sync'[t].perdio = TRUE /\ sync'[t].pc = sync[t].pc
           /\ sync'[t].nuevas = sync[t].nuevas /\ sync'[t].ultimo = sync[t].ultimo
    BY <1>0, <1>2, PasaOtros DEF Guarda
  <2>2. CASE sync'[t] = sync[t] /\ filas' = filas
    BY <1>0, <2>2 DEF Fechas
  <2>3. CASE sync'[t] = sync[t] /\ sync[t].pc = "fuera"
    BY <2>3 DEF Fechada
  <2>4. CASE /\ sync'[t].perdio = TRUE /\ sync'[t].pc = sync[t].pc
             /\ sync'[t].nuevas = sync[t].nuevas /\ sync'[t].ultimo = sync[t].ultimo
    <3>1. PorGuardar(sync'[t]) = PorGuardar(sync[t])
      BY <2>4 DEF PorGuardar
    <3>2. Dias(Guardados(filas) \cup PorGuardar(sync[t]))
            \subseteq Dias(Guardados(filas') \cup PorGuardar(sync'[t]))
      BY <1>1, <3>1 DEF Dias
    <3>3. Fechada(filas, sync[t])
      BY <1>0 DEF Fechas
    <3> QED
      BY <2>4, <3>2, <3>3 DEF Fechada
  <2> QED
    BY <2>1, <2>2, <2>3, <2>4
<1>3. sync'[s] = r
  BY <1>0, PasaOtros DEF Guarda
<1> QED
  BY <1>2, <1>3 DEF Fechas

\* What a commit of s stores of the date.
LEMMA CommitFecha ==
    ASSUME FInv, fallas = 0, NEW s \in Syncs, Commit(s)
    PROVE  /\ Fechas' /\ sync'[s].pc \in {"fuera", "sigue"}
           /\ \A t \in Syncs : t # s => sync'[t].pc = sync[t].pc
           /\ ~sync[s].perdio /\ leido[s] = ultimo => ultimo' = MaxDia(Guardados(filas'))
<1>0. GInv /\ Fechas
  BY DEF FInv
<1>1. PICK r : Guarda(s, r, {}) /\ r.pc \in {"fuera", "sigue"}
  BY <1>0, CommitGuarda
<1>2. Guardados(filas') = Guardados(filas) \cup PorGuardar(sync[s])
  BY <1>0, <1>1, GuardaGuardados
<1>3. /\ sync[s].ultimo \in Dias(Guardados(filas'))
      /\ ~sync[s].perdio => sync[s].ultimo = MaxDia(Guardados(filas'))
  <2>1. sync[s].pc \in {"abierta", "anotando"} /\ Fechada(filas, sync[s])
    BY <1>0 DEF Commit, Fechas
  <2> QED
    BY <1>2, <2>1 DEF Fechada
<1>4. ultimo' = IF sync[s].ultimo \in {0, leido[s]} THEN ultimo ELSE sync[s].ultimo
  BY DEF Commit, AnotaUltimo
<1>5. ultimo \in Dias(Guardados(filas'))
  BY <1>0, <1>2 DEF Fechas, Dias
<1>6. ultimo' \in Dias(Guardados(filas'))
  BY <1>3, <1>4, <1>5
<1>7. Fechas'
  <2>1. Fechada(filas', r)
    BY <1>1 DEF Fechada
  <2> QED
    BY <1>1, <1>6, <2>1, GuardaFechas
<1>8. ASSUME ~sync[s].perdio, leido[s] = ultimo PROVE ultimo' = MaxDia(Guardados(filas'))
  <2>1. CASE sync[s].ultimo = 0
    <3>1. Guardados(filas') \in SUBSET Movs
      BY <1>0, <1>2, GuardadosTipo
    <3>2. MaxDia(Guardados(filas')) = 0
      BY <1>3, <1>8, <2>1
    <3>3. \A m \in Guardados(filas') : m.dia = 0
      BY <3>1, <3>2, MaxDiaCota, DiaAssumption
    <3>4. ultimo = 0
      BY <1>5, <3>3 DEF Dias
    <3> QED
      BY <1>4, <2>1, <3>2, <3>4
  <2>2. CASE sync[s].ultimo # 0
    BY <1>3, <1>4, <1>8, <2>2
  <2> QED
    BY <2>1, <2>2
<1>9. sync'[s] = r /\ \A t \in Syncs : t # s => sync'[t].pc = sync[t].pc
  BY <1>0, <1>1, PasaOtros DEF Guarda
<1> QED
  BY <1>1, <1>7, <1>8, <1>9

\* The end of a digest leaves the date to store, or none.
LEMMA FlushFecha ==
    ASSUME FInv, fallas = 0, NEW s \in Syncs, flush_digests(s)
    PROVE  /\ Fechas' /\ \A t \in Syncs : t # s => sync'[t].pc = sync[t].pc
           /\ sync[s].pc \in {"abierta", "anotando"} => sync'[s].pc = "anotando"
<1> DEFINE E == {e.fila : e \in sync[s].boletin}
<1>0. GInv /\ Fechas
  BY DEF FInv
<1>1. Guarda(s, Cerrado(s), E)
  BY <1>0, FlushGuarda
<1>2. Guardados(filas') = Guardados(filas) \cup PorGuardar(sync[s])
  BY <1>0, <1>1, GuardaGuardados
<1>3. Fechada(filas', Cerrado(s)) /\ (sync[s].pc \in {"abierta", "anotando"} => Cerrado(s).pc = "anotando")
  <2>1. CASE s \in Lotes
    <3>1. sync[s].pc = "sigue" /\ Cerrado(s).pc = "fuera"
      BY <2>1 DEF flush_digests, Cierra, Cerrado, NoSync
    <3> QED
      BY <3>1 DEF Fechada
  <2>2. CASE s \notin Lotes
    <3>1. /\ Cerrado(s).pc = "anotando" /\ Cerrado(s).ultimo = sync[s].ultimo
          /\ Cerrado(s).perdio = sync[s].perdio
      BY <2>2, NoSyncForma DEF Cerrado, Campos
    <3>2. PorGuardar(Cerrado(s)) = {}
      BY CerradoFiel DEF PorGuardar
    <3>3. sync[s].pc = "abierta" /\ Fechada(filas, sync[s])
      BY <1>0, <2>2 DEF Fechas, flush_digests, Cierra
    <3> QED
      BY <1>2, <3>1, <3>2, <3>3 DEF Fechada
  <2> QED
    BY <2>1, <2>2
<1>4. ultimo' \in Dias(Guardados(filas'))
  BY <1>0, <1>2 DEF Fechas, Dias, flush_digests
<1>5. Fechas'
  BY <1>1, <1>3, <1>4, GuardaFechas
<1>6. sync'[s] = Cerrado(s) /\ \A t \in Syncs : t # s => sync'[t].pc = sync[t].pc
  BY <1>0, <1>1, PasaOtros DEF Guarda
<1> QED
  BY <1>3, <1>5, <1>6

LEMMA SyncFecha ==
    ASSUME FInv, fallas = 0, NEW s \in Syncs, sync_movements(s)
    PROVE  /\ Fechas' /\ \A t \in Syncs : t # s => sync'[t] = sync[t]
           /\ sync[s].pc = "fuera"
<1>0. GInv /\ Fechas
  BY DEF FInv
<1>1. PICK visto, c, l, R, P : Abre(s, visto, c, l, R, P)
  BY <1>0, SyncAbre
<1>2. Fechada(filas, sync'[s]) /\ \A t \in Syncs : t # s => sync'[t] = sync[t]
  BY <1>0, <1>1, AbreForma, AbreFechada
<1>3. UNCHANGED <<filas, ultimo>> /\ sync[s].pc = "fuera"
  BY SyncAbre
<1> QED
  BY <1>0, <1>2, <1>3 DEF Fechas

\* The steps without failures, as the dates see them.
LEMMA PasosFecha ==
    ASSUME FInv, [Next]_vars, fallas' = 0
    PROVE  /\ fallas = 0
           /\ \/ UNCHANGED <<filas, ultimo, sync>>
              \/ \E s \in Syncs : sync_movements(s) \/ Commit(s) \/ flush_digests(s)
<1>1. fallas \in Nat
  BY DEF FInv, GInv
<1>2. ASSUME NEW s \in Syncs, NoSale(s) \/ SinMarca(s) \/ Rollback(s) \/ Muere(s) PROVE FALSE
  BY <1>1, <1>2 DEF NoSale, SinMarca, Rollback, Muere, Falla
<1>3. \/ UNCHANGED <<filas, ultimo, sync, fallas>>
      \/ \E s \in Syncs : sync_movements(s) \/ Commit(s) \/ flush_digests(s)
  BY <1>2 DEF Next, vars, Publica, Carga
<1>4. \A s \in Syncs : sync_movements(s) \/ Commit(s) \/ flush_digests(s) => fallas' = fallas
  BY DEF sync_movements, Commit, flush_digests
<1> QED
  BY <1>3, <1>4

\* "The result equals max(movement_date) in the DB" (_recompute_last_movement_at): what a
\* sync leaves while which nobody stored rows nor changed the date since it was read, when
\* nothing failed.
THEOREM LastMovementIsLastAlways == Spec => LastMovementIsLast
<1> DEFINE A == \A s \in Syncs :
                  /\ sync[s].pc \in {"abierta", "anotando"} /\ ~sync[s].perdio /\ leido[s] = ultimo
                  /\ sync'[s].pc \in {"fuera", "sigue"} /\ fallas' = 0
                  => ultimo' = MaxDia({filas'[i].es : i \in Existentes(filas')})
<1>1. Init => FInv
  <2> SUFFICES ASSUME Init PROVE FInv
    OBVIOUS
  <2>1. \A s \in Syncs : sync[s].pc = "fuera"
    BY DEF Init, NoSync
  <2>2. ultimo \in Dias(Guardados(filas))
    BY InitFecha
  <2> QED
    BY <2>1, <2>2, InitGInv DEF FInv, Fechas, Fechada
<1>2. ASSUME FInv, [Next]_vars PROVE FInv'
  <2>1. GInv'
    BY <1>2, NextGInv DEF FInv
  <2>2. CASE fallas' = 0
    <3>1. ASSUME UNCHANGED <<filas, ultimo, sync>> PROVE Fechas'
      BY <1>2, <2>2, <3>1, PasosFecha DEF FInv, Fechas
    <3>2. ASSUME \E s \in Syncs : sync_movements(s) \/ Commit(s) \/ flush_digests(s)
          PROVE  Fechas'
      BY <1>2, <2>2, <3>2, PasosFecha, SyncFecha, CommitFecha, FlushFecha
    <3>3. Fechas'
      BY <1>2, <2>2, <3>1, <3>2, PasosFecha DEF FInv
    <3> QED
      BY <2>1, <3>3 DEF FInv
  <2> QED
    BY <2>1, <2>2 DEF FInv
<1>3. ASSUME FInv, [Next]_vars PROVE A
  <2> SUFFICES ASSUME NEW s \in Syncs, sync[s].pc \in {"abierta", "anotando"}, ~sync[s].perdio,
                      leido[s] = ultimo, sync'[s].pc \in {"fuera", "sigue"}, fallas' = 0
               PROVE  ultimo' = MaxDia(Guardados(filas'))
    BY DEF Guardados
  <2>1. fallas = 0
    BY <1>3, PasosFecha
  <2>2. PICK t \in Syncs : sync_movements(t) \/ Commit(t) \/ flush_digests(t)
    BY <1>3, PasosFecha
  <2>3. ~sync_movements(t)
    BY <1>3, <2>1, SyncFecha
  <2>4. ~flush_digests(t)
    BY <1>3, <2>1, FlushFecha
  <2>5. Commit(t) /\ t = s
    BY <1>3, <2>1, <2>2, <2>3, <2>4, CommitFecha
  <2> QED
    BY <1>3, <2>1, <2>5, CommitFecha
<1>4. FInv /\ [Next]_vars => FInv'
  BY <1>2
<1>5. FInv /\ [Next]_vars => [A]_vars
  BY <1>3
<1> QED
  BY <1>1, <1>4, <1>5, PTL DEF Spec, LastMovementIsLast

-----------------------------------------------------------------------------
(* Counting                                                                *)

\* A subset of a finite set has no more elements, and one element counts one.
LEMMA Contar ==
    ASSUME NEW U, IsFiniteSet(U), NEW T \in SUBSET U, NEW S \in SUBSET U
    PROVE  /\ Cardinality(S) \in Nat /\ Cardinality(T) \in Nat
           /\ S \subseteq T => Cardinality(S) <= Cardinality(T)
           /\ \A x : S \subseteq T \cup {x} => Cardinality(S) <= Cardinality(T) + 1
           /\ \A x \in S : x \notin T /\ T \subseteq S => Cardinality(T) + 1 <= Cardinality(S)
<1>1. IsFiniteSet(S) /\ IsFiniteSet(T)
  BY FS_Subset
<1>2. Cardinality(S) \in Nat /\ Cardinality(T) \in Nat
  BY <1>1, FS_CardinalityType
<1>3. ASSUME S \subseteq T PROVE Cardinality(S) <= Cardinality(T)
  BY <1>1, <1>3, FS_Subset
<1>4. ASSUME NEW x
      PROVE  /\ IsFiniteSet(T \cup {x}) /\ Cardinality(T \cup {x}) <= Cardinality(T) + 1
             /\ x \notin T => Cardinality(T \cup {x}) = Cardinality(T) + 1
  <2>1. /\ IsFiniteSet(T \cup {x})
        /\ Cardinality(T \cup {x}) = IF x \in T THEN Cardinality(T) ELSE Cardinality(T) + 1
    BY <1>1, FS_AddElement
  <2> DEFINE n == Cardinality(T)
             k == Cardinality(T \cup {x})
  <2>2. n \in Nat /\ k = IF x \in T THEN n ELSE n + 1
    BY <1>2, <2>1
  <2> HIDE DEF n, k
  <2>3. k <= n + 1 /\ (x \notin T => k = n + 1)
    BY <2>2
  <2> QED
    BY <2>1, <2>3 DEF n, k
<1>5. ASSUME NEW x, S \subseteq T \cup {x} PROVE Cardinality(S) <= Cardinality(T) + 1
  <2>1. Cardinality(S) <= Cardinality(T \cup {x}) /\ Cardinality(T \cup {x}) \in Nat
    BY <1>4, <1>5, FS_Subset, FS_CardinalityType
  <2> QED
    BY <1>2, <1>4, <2>1
<1>6. ASSUME NEW x \in S, x \notin T, T \subseteq S PROVE Cardinality(T) + 1 <= Cardinality(S)
  <2>1. T \cup {x} \subseteq S
    BY <1>6
  <2>2. Cardinality(T \cup {x}) <= Cardinality(S)
    BY <1>1, <2>1, FS_Subset
  <2> QED
    BY <1>4, <1>6, <2>2
<1> QED
  BY <1>2, <1>3, <1>5, <1>6

\* Syncs that hold an entry of m whose row was lost: they owe a mail more than rows there are.
Debidas(m) == {s \in Syncs : \E e \in sync[s].boletin : e.mov = m /\ e.fila = Null}

\* The rows of m a webhook may have told of.
Pregonables(m) == Alertadas(m) \cup EnCamino(m)

Cuenta(m) ==
    /\ Cardinality(Enviadas(m)) <= correos[m]
    /\ correos[m] + Cardinality(Debidas(m)) <= Cardinality(Enviadas(m)) + fallas
    /\ webhooks[m] <= Cardinality(Pregonables(m)) + fallas

CInv ==
    /\ GInv
    /\ correos \in [Movs -> Nat] /\ webhooks \in [Movs -> Nat]
    /\ \A m \in Movs : Cuenta(m)

LEMMA Conjuntos ==
    /\ IsFiniteSet(Ids) /\ IsFiniteSet(Syncs)
    /\ \A m : /\ Enviadas(m) \in SUBSET Ids /\ Alertadas(m) \in SUBSET Ids
              /\ Pregonables(m) \in SUBSET Ids /\ Debidas(m) \in SUBSET Syncs
BY FiniteAssumption DEF Enviadas, Alertadas, Pregonables, EnCamino, Debidas, Rows, Existentes

LEMMA ConjuntosPrima ==
    \A m : /\ Enviadas(m)' \in SUBSET Ids /\ Pregonables(m)' \in SUBSET Ids
           /\ Debidas(m)' \in SUBSET Syncs
BY DEF Enviadas, Alertadas, Pregonables, EnCamino, Debidas, Rows, Existentes

\* A transaction of s marks the rows of E, of those s sees.
LEMMA GuardaEnviadas ==
    ASSUME GInv, NEW s \in Syncs, NEW r, NEW E, Guarda(s, r, E),
           E \subseteq {e.fila : e \in sync[s].boletin}, NEW m \in Movs
    PROVE  Enviadas(m)' = Enviadas(m) \cup {i \in Ids : i \in E /\ Vista(filas, sync[s], i).es = m}
<1>1. Escrita(filas, filas', sync[s], E) /\ Fiel(filas, sync[s])
  BY DEF GInv, Guarda
<1>2. ASSUME NEW i \in Ids
      PROVE  i \in Enviadas(m)' <=>
               \/ i \in Enviadas(m)
               \/ i \in E /\ Vista(filas, sync[s], i).es = m
  <2>1. i \in E => Vista(filas, sync[s], i) # Null
    BY <1>1, NullAssumption DEF Fiel, Vigente
  <2>2. i \in Enviadas(m)' <=>
          /\ Vista(filas, sync[s], i) # Null /\ Vista(filas, sync[s], i).es = m
          /\ i \in E \/ Vista(filas, sync[s], i).alerta = "enviada"
    BY <1>1 DEF Escrita, Enviadas, Rows, Existentes
  <2>3. i \in DOMAIN sync[s].nuevas =>
          i \notin Enviadas(m) /\ Vista(filas, sync[s], i).alerta # "enviada"
    BY <1>1 DEF Fiel, Vista, Enviadas, Rows, Existentes
  <2>4. i \notin DOMAIN sync[s].nuevas =>
          /\ Vista(filas, sync[s], i) = filas[i]
          /\ i \in Enviadas(m) <=> filas[i] # Null /\ filas[i].es = m /\ filas[i].alerta = "enviada"
    BY DEF Vista, Enviadas, Rows, Existentes
  <2> QED
    BY <2>1, <2>2, <2>3, <2>4
<1> QED
  BY <1>2, Conjuntos, ConjuntosPrima

\* Another sync holds the same rows and entries after it.
LEMMA GuardaOtros ==
    ASSUME GInv, NEW s \in Syncs, NEW r, NEW E, Guarda(s, r, E)
    PROVE  /\ sync'[s] = r
           /\ \A t \in Syncs : t # s =>
                sync'[t].nuevas = sync[t].nuevas /\ sync'[t].boletin = sync[t].boletin
BY PasaOtros DEF Guarda

LEMMA GuardaPregonables ==
    ASSUME GInv, NEW s \in Syncs, NEW r, NEW E, Guarda(s, r, E), NEW m \in Movs
    PROVE  Pregonables(m) \subseteq Pregonables(m)'
<1>1. Escrita(filas, filas', sync[s], E) /\ Fiel(filas, sync[s])
  BY DEF GInv, Guarda
<1>2. ASSUME NEW i \in Alertadas(m) PROVE i \in Alertadas(m)'
  <2>1. i \in Ids /\ filas[i] # Null /\ filas[i].es = m /\ filas[i].alerta # "ninguna"
    BY DEF Alertadas, Rows, Existentes
  <2>2. Vista(filas, sync[s], i) = filas[i]
    BY <1>1, <2>1 DEF Fiel, Vista
  <2>3. filas'[i] # Null /\ filas'[i].es = m /\ filas'[i].alerta # "ninguna"
    BY <1>1, <2>1, <2>2 DEF Escrita
  <2> QED
    BY <2>1, <2>3 DEF Alertadas, Rows, Existentes
<1>3. ASSUME NEW i \in EnCamino(m) PROVE i \in Pregonables(m)'
  <2>1. PICK t \in Syncs : i \in DOMAIN sync[t].nuevas /\ sync[t].nuevas[i].es = m
    BY DEF EnCamino
  <2>2. i \in Ids
    BY DEF EnCamino
  <2>3. CASE t = s
    <3>1. /\ Vista(filas, sync[s], i) = sync[s].nuevas[i] /\ sync[s].nuevas[i] # Null
          /\ sync[s].nuevas[i].alerta # "ninguna"
      BY <1>1, <2>1, <2>3, NullAssumption DEF Fiel, Vista
    <3>2. filas'[i] # Null /\ filas'[i].es = m /\ filas'[i].alerta # "ninguna"
      BY <1>1, <2>1, <2>2, <2>3, <3>1 DEF Escrita
    <3> QED
      BY <2>2, <3>2 DEF Pregonables, Alertadas, Rows, Existentes
  <2>4. CASE t # s
    <3>1. sync'[t].nuevas = sync[t].nuevas
      BY <2>4, GuardaOtros
    <3> QED
      BY <2>1, <2>2, <3>1 DEF Pregonables, EnCamino
  <2> QED
    BY <2>3, <2>4
<1> QED
  BY <1>2, <1>3 DEF Pregonables

LEMMA GuardaDebidas ==
    ASSUME GInv, NEW s \in Syncs, NEW r, NEW E, Guarda(s, r, E), NEW m \in Movs,
           r.boletin \subseteq sync[s].boletin
    PROVE  /\ Debidas(m)' \subseteq Debidas(m)
           /\ r.boletin = {} => s \notin Debidas(m)'
BY GuardaOtros DEF Debidas

\* The entries of m in the digest of s: one at most.
Suyas(s, m) == {e \in sync[s].boletin : e.mov = m}

LEMMA SuyasUna ==
    ASSUME GInv, NEW s \in Syncs, NEW m \in Movs
    PROVE  \/ Suyas(s, m) = {} /\ Cardinality(Suyas(s, m)) = 0
           \/ /\ Cardinality(Suyas(s, m)) = 1
              /\ \E e \in sync[s].boletin : Suyas(s, m) = {e} /\ e.mov = m
<1>1. Fiel(filas, sync[s])
  BY DEF GInv
<1>2. CASE Suyas(s, m) = {}
  BY <1>2, FS_EmptySet
<1>3. CASE Suyas(s, m) # {}
  <2>1. PICK e \in sync[s].boletin : e.mov = m
    BY <1>3 DEF Suyas
  <2>2. Suyas(s, m) = {e}
    BY <1>1, <2>1 DEF Suyas, Fiel
  <2> QED
    BY <2>1, <2>2, FS_Singleton
<1> QED
  BY <1>2, <1>3

LEMMA NaturalesHoy ==
    ASSUME CInv, NEW m \in Movs
    PROVE  /\ correos[m] \in Nat /\ webhooks[m] \in Nat /\ fallas \in Nat
           /\ Cardinality(Enviadas(m)) \in Nat /\ Cardinality(Debidas(m)) \in Nat
           /\ Cardinality(Pregonables(m)) \in Nat
<1>1. \A S \in SUBSET Ids : Cardinality(S) \in Nat
  BY Conjuntos, Contar
<1>2. \A S \in SUBSET Syncs : Cardinality(S) \in Nat
  BY Conjuntos, Contar
<1>3. correos[m] \in Nat /\ webhooks[m] \in Nat /\ fallas \in Nat
  BY DEF CInv, GInv
<1> QED
  BY <1>1, <1>2, <1>3, Conjuntos

LEMMA Naturales ==
    ASSUME CInv, NEW m \in Movs
    PROVE  /\ correos[m] \in Nat /\ webhooks[m] \in Nat /\ fallas \in Nat
           /\ Cardinality(Enviadas(m)) \in Nat /\ Cardinality(Debidas(m)) \in Nat
           /\ Cardinality(Pregonables(m)) \in Nat
           /\ Cardinality(Enviadas(m)') \in Nat /\ Cardinality(Debidas(m)') \in Nat
           /\ Cardinality(Pregonables(m)') \in Nat
<1>1. \A S \in SUBSET Ids : Cardinality(S) \in Nat
  BY Conjuntos, Contar
<1>2. \A S \in SUBSET Syncs : Cardinality(S) \in Nat
  BY Conjuntos, Contar
<1> QED
  BY <1>1, <1>2, NaturalesHoy, ConjuntosPrima

\* The order of the sets is that of their sizes.
LEMMA Medidas ==
    ASSUME NEW m \in Movs
    PROVE  /\ Debidas(m)' \subseteq Debidas(m) => Cardinality(Debidas(m)') <= Cardinality(Debidas(m))
           /\ Pregonables(m) \subseteq Pregonables(m)' =>
                Cardinality(Pregonables(m)) <= Cardinality(Pregonables(m)')
<1>1. \A S, T \in SUBSET Ids : S \subseteq T => Cardinality(S) <= Cardinality(T)
  BY Conjuntos, Contar
<1>2. \A S, T \in SUBSET Syncs : S \subseteq T => Cardinality(S) <= Cardinality(T)
  BY Conjuntos, Contar
<1> QED
  BY <1>1, <1>2, Conjuntos, ConjuntosPrima

LEMMA CommitCuenta ==
    ASSUME CInv, NEW s \in Syncs, Commit(s), NEW m \in Movs
    PROVE  Cuenta(m)'
<1>0. GInv /\ Cuenta(m)
  BY DEF CInv
<1>1. PICK r : Guarda(s, r, {}) /\ r.boletin = sync[s].boletin
  BY <1>0, CommitGuarda
<1>2. Enviadas(m)' = Enviadas(m)
  BY <1>0, <1>1, GuardaEnviadas
<1>3. Debidas(m)' \subseteq Debidas(m) /\ Pregonables(m) \subseteq Pregonables(m)'
  BY <1>0, <1>1, GuardaDebidas, GuardaPregonables
<1>4. /\ Cardinality(Debidas(m)') <= Cardinality(Debidas(m))
      /\ Cardinality(Pregonables(m)) <= Cardinality(Pregonables(m)')
  BY <1>3, Medidas
<1>5. UNCHANGED <<correos, webhooks, fallas>>
  BY DEF Commit
<1> QED
  BY <1>0, <1>2, <1>4, <1>5, Naturales DEF Cuenta

\* What a mail counts: a row more is marked, or a lost one is no longer owed.
LEMMA FlushCuenta ==
    ASSUME CInv, NEW s \in Syncs, flush_digests(s), NEW m \in Movs
    PROVE  Cuenta(m)'
<1> DEFINE E == {e.fila : e \in sync[s].boletin}
<1>0. GInv /\ Cuenta(m) /\ Fiel(filas, sync[s])
  BY DEF CInv, GInv
<1>1. Guarda(s, Cerrado(s), E)
  BY <1>0, FlushGuarda
<1>2. /\ correos'[m] = correos[m] + Cardinality(Suyas(s, m))
      /\ UNCHANGED <<webhooks, fallas>>
  BY DEF flush_digests, Entregado, Suyas
<1>3. Enviadas(m)' = Enviadas(m) \cup {i \in Ids : i \in E /\ Vista(filas, sync[s], i).es = m}
  BY <1>0, <1>1, GuardaEnviadas
<1>4. Cerrado(s).boletin = {}
  BY CerradoFiel
<1>5. /\ Debidas(m)' \subseteq Debidas(m) /\ s \notin Debidas(m)'
      /\ Pregonables(m) \subseteq Pregonables(m)'
  BY <1>0, <1>1, <1>4, GuardaDebidas, GuardaPregonables
<1>6. /\ Cardinality(Debidas(m)') <= Cardinality(Debidas(m))
      /\ Cardinality(Pregonables(m)) <= Cardinality(Pregonables(m)')
  BY <1>5, Medidas
<1>7. ASSUME NEW i \in Ids, i \in E, Vista(filas, sync[s], i).es = m
      PROVE  \E e \in Suyas(s, m) : e.fila = i
  BY <1>0, <1>7, NullAssumption DEF Fiel, Vigente, Suyas
<1>8. CASE Suyas(s, m) = {} /\ Cardinality(Suyas(s, m)) = 0
  <2>1. Enviadas(m)' = Enviadas(m)
    BY <1>3, <1>7, <1>8
  <2> QED
    BY <1>0, <1>2, <1>6, <1>8, <2>1, Naturales DEF Cuenta
<1>9. CASE Cardinality(Suyas(s, m)) = 1 /\ \E e \in sync[s].boletin : Suyas(s, m) = {e} /\ e.mov = m
  <2>1. PICK e \in sync[s].boletin : Suyas(s, m) = {e} /\ e.mov = m
    BY <1>9
  <2>2. Vigente(filas, sync[s], e)
    BY <1>0 DEF Fiel
  <2>3. correos'[m] = correos[m] + 1
    BY <1>2, <1>9
  <2>4. CASE e.fila = Null
    <3>1. Enviadas(m)' = Enviadas(m)
      BY <1>3, <1>7, <2>1, <2>4, NullAssumption
    <3>2. s \in Debidas(m)
      BY <2>1, <2>4 DEF Debidas
    <3>3. Cardinality(Debidas(m)') + 1 <= Cardinality(Debidas(m))
      BY <1>5, <3>2, Conjuntos, ConjuntosPrima, Contar
    <3> QED
      BY <1>0, <1>2, <1>6, <2>3, <3>1, <3>3, Naturales DEF Cuenta
  <2>5. CASE e.fila # Null
    <3>1. e.fila \in Ids /\ e.fila \in Enviadas(m)'
      BY <1>3, <2>1, <2>2, <2>5 DEF Vigente
    <3>2. e.fila \notin Enviadas(m)
      BY <1>0, <2>2, <2>5 DEF Vigente, Vista, Enviadas, Rows, Existentes, Fiel
    <3>3. Enviadas(m) \subseteq Enviadas(m)' /\ Enviadas(m)' \subseteq Enviadas(m) \cup {e.fila}
      BY <1>3, <1>7, <2>1
    <3>4. Cardinality(Enviadas(m)') = Cardinality(Enviadas(m)) + 1
      <4>1. Cardinality(Enviadas(m)') <= Cardinality(Enviadas(m)) + 1
        BY <3>3, Conjuntos, ConjuntosPrima, Contar
      <4>2. Cardinality(Enviadas(m)) + 1 <= Cardinality(Enviadas(m)')
        BY <3>1, <3>2, <3>3, Conjuntos, ConjuntosPrima, Contar
      <4> QED
        BY <4>1, <4>2, Naturales
    <3> QED
      BY <1>0, <1>2, <1>6, <2>3, <3>4, Naturales DEF Cuenta
  <2> QED
    BY <2>4, <2>5
<1> QED
  BY <1>0, <1>8, <1>9, SuyasUna

LEMMA SyncTipo ==
    ASSUME CInv, NEW s \in Syncs, sync_movements(s)
    PROVE  webhooks' \in [Movs -> Nat]
<1>1. PICK visto, c, l, R, P : Abre(s, visto, c, l, R, P)
  BY SyncAbre DEF CInv
<1>2. webhooks' = [n \in Movs |-> webhooks[n] + IF n \in P THEN 1 ELSE 0]
  BY <1>1 DEF Abre
<1> QED
  BY <1>2 DEF CInv

LEMMA SyncCuenta ==
    ASSUME CInv, NEW s \in Syncs, sync_movements(s), NEW m \in Movs
    PROVE  Cuenta(m)'
<1>0. GInv /\ Cuenta(m)
  BY DEF CInv
<1>1. PICK visto, c, l, R, P : Abre(s, visto, c, l, R, P)
  BY <1>0, SyncAbre
<1> DEFINE N == Nuevas(visto, c)
           r == sync'[s]
<1>2. /\ EnManoDe(r, N, visto, c, l, R)
      /\ \A t \in Syncs : t # s => sync'[t] = sync[t]
  BY <1>0, <1>1, AbreForma
<1>3. /\ sync[s].boletin = {} /\ DOMAIN sync[s].nuevas = {}
      /\ UNCHANGED <<filas, correos, fallas>>
  BY <1>0, SyncAbre, NoSyncForma DEF GInv, Fiel
<1> HIDE DEF r
<1>4. /\ l \in [N -> Libres] /\ R \subseteq N /\ r.boletin = Entradas(l, R)
      /\ DOMAIN r.nuevas = {l[n] : n \in N} /\ \A n \in N : r.nuevas[l[n]].es = n
  BY <1>2 DEF EnManoDe, SonAltas
<1>5. Enviadas(m)' = Enviadas(m)
  BY <1>3 DEF Enviadas, Rows, Existentes
<1>6. Debidas(m)' \subseteq Debidas(m)
  <2>1. \A i \in Libres : i \in Ids
    BY DEF Libres
  <2>2. \A e \in r.boletin : e.fila # Null
    BY <1>4, <2>1, NullAssumption DEF Entradas
  <2> QED
    BY <1>2, <2>2 DEF Debidas, r
<1>7. Pregonables(m) \subseteq Pregonables(m)'
  <2>1. Alertadas(m)' = Alertadas(m)
    BY <1>3 DEF Alertadas, Rows, Existentes
  <2>2. EnCamino(m) \subseteq EnCamino(m)'
    BY <1>2, <1>3 DEF EnCamino
  <2> QED
    BY <2>1, <2>2 DEF Pregonables
<1>8. /\ Cardinality(Debidas(m)') <= Cardinality(Debidas(m))
      /\ Cardinality(Pregonables(m)) <= Cardinality(Pregonables(m)')
  BY <1>6, <1>7, Medidas
<1>9. webhooks' = [n \in Movs |-> webhooks[n] + IF n \in P THEN 1 ELSE 0] /\ P \subseteq N
  BY <1>1 DEF Abre
<1>10. ASSUME m \in P PROVE Cardinality(Pregonables(m)) + 1 <= Cardinality(Pregonables(m)')
  <2>1. m \in N /\ l[m] \in Libres
    BY <1>4, <1>9, <1>10
  <2>2. l[m] \in Ids /\ l[m] \notin Pregonables(m)
    BY <2>1 DEF Libres, Pregonables, Alertadas, EnCamino, Rows, Existentes
  <2>3. l[m] \in Pregonables(m)'
    <3>1. l[m] \in DOMAIN sync'[s].nuevas /\ sync'[s].nuevas[l[m]].es = m
      BY <1>4, <2>1 DEF r
    <3> QED
      BY <2>2, <3>1 DEF Pregonables, EnCamino
  <2> QED
    BY <1>7, <2>2, <2>3, Conjuntos, ConjuntosPrima, Contar
<1>11. webhooks'[m] + Cardinality(Pregonables(m)) <= webhooks[m] + Cardinality(Pregonables(m)')
  <2>1. webhooks'[m] = webhooks[m] + IF m \in P THEN 1 ELSE 0
    BY <1>9
  <2>2. CASE m \in P
    BY <1>10, <2>1, <2>2, Naturales
  <2>3. CASE m \notin P
    BY <1>8, <2>1, <2>3, Naturales
  <2> QED
    BY <2>2, <2>3
<1>12. webhooks'[m] \in Nat
  BY SyncTipo
<1> QED
  BY <1>0, <1>3, <1>5, <1>8, <1>11, <1>12, Naturales DEF Cuenta

\* A failure of s loses one row of m at most, and owes it one mail at most.
LEMMA PierdeCuenta ==
    ASSUME CInv, NEW s \in Syncs, NEW r, Pierde(s, r), NEW m \in Movs
    PROVE  /\ Enviadas(m)' = Enviadas(m)
           /\ Cardinality(Debidas(m)') <= Cardinality(Debidas(m)) + 1
           /\ r.boletin = {} => Cardinality(Debidas(m)') <= Cardinality(Debidas(m))
           /\ Cardinality(Pregonables(m)) <= Cardinality(Pregonables(m)') + 1
<1>0. GInv /\ Fiel(filas, sync[s])
  BY DEF CInv, GInv
<1>1. filas' = filas /\ \A t \in Syncs : sync'[t] = IF t = s THEN r ELSE sync[t]
  BY <1>0 DEF Pierde, GInv
<1>2. Enviadas(m)' = Enviadas(m) /\ Alertadas(m)' = Alertadas(m)
  BY <1>1 DEF Enviadas, Alertadas, Rows, Existentes
<1>3. Debidas(m)' \subseteq Debidas(m) \cup {s}
  BY <1>1 DEF Debidas
<1>4. r.boletin = {} => Debidas(m)' \subseteq Debidas(m)
  BY <1>1 DEF Debidas
<1>5. \E x : Pregonables(m) \subseteq Pregonables(m)' \cup {x}
  <2>1. ASSUME NEW i \in EnCamino(m), i \notin EnCamino(m)'
        PROVE  i \in DOMAIN sync[s].nuevas /\ sync[s].nuevas[i].es = m
    BY <1>1, <2>1 DEF EnCamino
  <2>2. \A i, j \in EnCamino(m) : i \notin EnCamino(m)' /\ j \notin EnCamino(m)' => i = j
    BY <1>0, <2>1 DEF Fiel
  <2>3. \E x : EnCamino(m) \subseteq EnCamino(m)' \cup {x}
    <3>1. CASE \E x \in EnCamino(m) : x \notin EnCamino(m)'
      BY <2>2, <3>1
    <3>2. CASE ~\E x \in EnCamino(m) : x \notin EnCamino(m)'
      BY <3>2
    <3> QED
      BY <3>1, <3>2
  <2> QED
    BY <1>2, <2>3 DEF Pregonables
<1>6. Cardinality(Debidas(m)') <= Cardinality(Debidas(m)) + 1
  BY <1>3, Conjuntos, ConjuntosPrima, Contar
<1>7. r.boletin = {} => Cardinality(Debidas(m)') <= Cardinality(Debidas(m))
  BY <1>4, Medidas
<1>8. Cardinality(Pregonables(m)) <= Cardinality(Pregonables(m)') + 1
  BY <1>5, Conjuntos, ConjuntosPrima, Contar
<1> QED
  BY <1>2, <1>6, <1>7, <1>8

LEMMA SinMarcaPierde ==
    ASSUME GInv, NEW s \in Syncs, SinMarca(s)
    PROVE  Pierde(s, Cerrado(s)) /\ Cerrado(s).boletin = {}
<1>1. /\ sync' = [sync EXCEPT ![s] = Cerrado(s)] /\ fallas' = fallas + 1
      /\ UNCHANGED <<publicado, filas, ultimo, webhooks>>
  BY DEF SinMarca, Falla
<1> QED
  BY <1>1, CerradoFiel DEF Pierde

LEMMA FallasCuenta ==
    ASSUME CInv, NEW s \in Syncs, NoSale(s) \/ SinMarca(s) \/ Rollback(s) \/ Muere(s), NEW m \in Movs
    PROVE  Cuenta(m)' /\ webhooks' = webhooks
<1>0. GInv /\ Cuenta(m)
  BY DEF CInv
<1>1. CASE SinMarca(s)
  <2>1. Pierde(s, Cerrado(s)) /\ Cerrado(s).boletin = {}
    BY <1>0, <1>1, SinMarcaPierde
  <2>2. /\ Enviadas(m)' = Enviadas(m) /\ Cardinality(Debidas(m)') <= Cardinality(Debidas(m))
        /\ Cardinality(Pregonables(m)) <= Cardinality(Pregonables(m)') + 1
    BY <2>1, PierdeCuenta
  <2>3. correos'[m] = correos[m] + Cardinality(Suyas(s, m))
    BY <1>1 DEF SinMarca, Entregado, Suyas
  <2>4. correos'[m] = correos[m] \/ correos'[m] = correos[m] + 1
    BY <1>0, <2>3, SuyasUna, Naturales
  <2>5. fallas' = fallas + 1 /\ webhooks' = webhooks
    BY <2>1 DEF Pierde
  <2> QED
    BY <1>0, <2>2, <2>4, <2>5, Naturales DEF Cuenta
<1>2. CASE NoSale(s) \/ Rollback(s) \/ Muere(s)
  <2>1. PICK r : Pierde(s, r)
    BY <1>0, <1>2, FallaPierde
  <2>2. /\ Enviadas(m)' = Enviadas(m) /\ Cardinality(Debidas(m)') <= Cardinality(Debidas(m)) + 1
        /\ Cardinality(Pregonables(m)) <= Cardinality(Pregonables(m)') + 1
    BY <2>1, PierdeCuenta
  <2>3. correos' = correos
    BY <1>2 DEF NoSale, Rollback, Muere
  <2>4. fallas' = fallas + 1 /\ webhooks' = webhooks
    BY <2>1 DEF Pierde
  <2> QED
    BY <1>0, <2>2, <2>3, <2>4, Naturales DEF Cuenta
<1> QED
  BY <1>1, <1>2

LEMMA CorreosTipo ==
    ASSUME CInv, [Next]_vars
    PROVE  correos' \in [Movs -> Nat]
<1>1. ASSUME NEW s \in Syncs, Entregado(s) PROVE correos' \in [Movs -> Nat]
  <2>1. correos' = [m \in Movs |-> correos[m] + Cardinality(Suyas(s, m))]
    BY <1>1 DEF Entregado, Suyas
  <2>2. \A m \in Movs : Cardinality(Suyas(s, m)) \in {0, 1}
    BY SuyasUna DEF CInv
  <2>3. \A m \in Movs : correos[m] + Cardinality(Suyas(s, m)) \in Nat
    BY <2>2, Naturales
  <2> QED
    BY <2>1, <2>3
<1>2. correos' = correos \/ \E s \in Syncs : Entregado(s)
  BY DEF Next, vars, Carga, Publica, sync_movements, Commit, flush_digests, NoSale, SinMarca, Rollback, Muere
<1> QED
  BY <1>1, <1>2 DEF CInv

LEMMA NextCInv == CInv /\ [Next]_vars => CInv'
<1> SUFFICES ASSUME CInv, [Next]_vars PROVE CInv'
  OBVIOUS
<1>1. GInv' /\ correos' \in [Movs -> Nat]
  BY NextGInv, CorreosTipo DEF CInv
<1>2. CASE UNCHANGED <<filas, sync, correos, webhooks, fallas>>
  <2>1. \A m \in Movs : Cuenta(m)'
    BY <1>2 DEF CInv, Cuenta, Enviadas, Debidas, Pregonables, Alertadas, EnCamino, Rows, Existentes
  <2> QED
    BY <1>1, <1>2, <2>1 DEF CInv
<1>3. ASSUME NEW s \in Syncs, sync_movements(s) PROVE CInv'
  <2>1. \A m \in Movs : Cuenta(m)'
    BY <1>3, SyncCuenta
  <2>2. webhooks' \in [Movs -> Nat]
    BY <1>3, SyncTipo
  <2> QED
    BY <1>1, <2>1, <2>2 DEF CInv
<1>4. ASSUME NEW s \in Syncs, Commit(s) \/ flush_digests(s) PROVE CInv'
  <2>1. \A m \in Movs : Cuenta(m)'
    BY <1>4, CommitCuenta, FlushCuenta
  <2>2. webhooks' = webhooks
    BY <1>4 DEF Commit, flush_digests
  <2> QED
    BY <1>1, <2>1, <2>2 DEF CInv
<1>5. ASSUME NEW s \in Syncs, NoSale(s) \/ SinMarca(s) \/ Rollback(s) \/ Muere(s) PROVE CInv'
  <2>1. \A m \in Movs : Cuenta(m)'
    BY <1>5, FallasCuenta
  <2>2. webhooks' = webhooks
    BY <1>5 DEF NoSale, SinMarca, Rollback, Muere
  <2> QED
    BY <1>1, <2>1, <2>2 DEF CInv
<1> QED
  BY <1>2, <1>3, <1>4, <1>5 DEF Next, vars, Publica, Carga

LEMMA InitAlertas == Init => \A i \in Existentes(filas) : filas[i].alerta = "ninguna"
<1> SUFFICES ASSUME Init, NEW i \in Existentes(filas) PROVE filas[i].alerta = "ninguna"
  OBVIOUS
<1>1. \E r \in SUBSET Movs : \E l : filas = Reparadas(r, l)
  BY Zenon DEF Init
<1>2. PICK r \in SUBSET Movs : \E l : filas = Reparadas(r, l)
  BY <1>1, Zenon
<1>3. PICK l : filas = Reparadas(r, l)
  BY <1>2
<1>4. i \in Ids /\ filas[i] # Null
  BY DEF Existentes
<1>5. filas[i] = [es |-> CHOOSE m \in r : l[m] = i, texto |-> Null, alerta |-> "ninguna"]
  BY <1>3, <1>4 DEF Reparadas
<1> QED
  BY <1>5

LEMMA InitCInv == Init => CInv
<1> SUFFICES ASSUME Init PROVE CInv
  OBVIOUS
<1>1. /\ correos = [m \in Movs |-> 0] /\ webhooks = [m \in Movs |-> 0] /\ fallas = 0
      /\ sync = [s \in Syncs |-> NoSync]
  BY DEF Init
<1>2. \A i \in Existentes(filas) : filas[i].alerta = "ninguna"
  BY InitAlertas
<1>3. ASSUME NEW m \in Movs
      PROVE  Enviadas(m) = {} /\ Debidas(m) = {} /\ Cardinality(Pregonables(m)) \in Nat
  <2>1. Enviadas(m) = {}
    BY <1>2 DEF Enviadas, Rows
  <2>2. Debidas(m) = {}
    BY <1>1, NoSyncForma DEF Debidas
  <2>3. Cardinality(Pregonables(m)) \in Nat
    BY Conjuntos, Contar
  <2> QED
    BY <2>1, <2>2, <2>3
<1>4. Cardinality({}) = 0
  BY FS_EmptySet
<1>5. \A m \in Movs : Cuenta(m)
  BY <1>1, <1>3, <1>4 DEF Cuenta
<1> QED
  BY <1>1, <1>5, InitGInv DEF CInv

\* A movement is told of once per row stored for it: each further mail or webhook takes a
\* failure of its own.  A marked alert was mailed (_mark_sent_and_commit), and without
\* failures a mailed one is marked.
THEOREM ToldOncePerRowAlways == Spec => []ToldOncePerRow
<1>1. Init => CInv
  BY InitCInv
<1>2. CInv /\ [Next]_vars => CInv'
  BY NextCInv
<1>3. CInv => ToldOncePerRow
  <2> SUFFICES ASSUME CInv, NEW m \in Movs
               PROVE  /\ Cardinality(Enviadas(m)) <= correos[m]
                      /\ correos[m] <= Cardinality(Alertadas(m)) + fallas
                      /\ webhooks[m] <= Cardinality(Pregonables(m)) + fallas
                      /\ fallas = 0 => correos[m] = Cardinality(Enviadas(m))
    BY DEF ToldOncePerRow, Pregonables
  <2>1. Enviadas(m) \subseteq Alertadas(m)
    BY DEF Enviadas, Alertadas
  <2>2. /\ Cardinality(Enviadas(m)) <= Cardinality(Alertadas(m))
        /\ Cardinality(Alertadas(m)) \in Nat
    BY <2>1, Conjuntos, Contar
  <2>3. Cuenta(m)
    BY DEF CInv
  <2> QED
    BY <2>2, <2>3, NaturalesHoy DEF Cuenta
<1> QED
  BY <1>1, <1>2, <1>3, PTL DEF Spec
=============================================================================
