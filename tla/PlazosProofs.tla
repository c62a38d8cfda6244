---------------------------- MODULE PlazosProofs ----------------------------
(***************************************************************************)
(* What Plazos promises, for any plazos, terms and evidence, any number of *)
(* requests and syncs that overlap in any way.                             *)
(*                                                                         *)
(* A commit writes what was computed from the rows as they were loaded, so *)
(* no property of steps is inductive: it must be known, of a sync in       *)
(* progress, that its unit of work respects the rows nobody has changed    *)
(* since (FilasDe, CasoDe), that both have their types (Filas, TxTipo),    *)
(* and that a row that is closed has a verdict that fits (Acuerdo).        *)
(*                                                                         *)
(* The properties that speak of the next recomputation are about one row   *)
(* at a time once FilasDelRecalculo says that a recomputation treats each  *)
(* row by itself but for Rebeldia's choice: DosPasos and RecalculoUnico    *)
(* follow a row through it, Repara through a miss whose evidence came      *)
(* late, FilaVencida through a lapse.                                      *)
(***************************************************************************)
EXTENDS Plazos, WellFoundedInduction, TLAPS

Columns == {"due", "status", "manual", "marcada", "verdict"}

\* A row has its columns.
EsFila(r) == r # Null => DOMAIN r = Columns

\* Plazos and case have their columns, days are numbers.
Formas ==
    /\ DOMAIN plazos = Claves /\ \A k \in Claves : EsFila(plazos[k])
    /\ DOMAIN caso = Columnas
    /\ IF caso.override = Null THEN caso.override_at = Null ELSE caso.override_at \in Nat
    /\ hoy \in Nat /\ actos \in Nat
    /\ \A m \in movs : m.dia \in Nat

Marcada(r) == r.marcada /\ r.status \in Auditado

\* What the auditor decided in row r of key k stands in s.
Respeta(k, r, s) ==
    /\ Marcada(r) => s = r
    /\ r.manual => s = r \/ (lado = "demandante" /\ k[1] = "excepciones" /\ s.status = "expired")

\* What a unit of work will do to the rows, but for those of d, changed since.
FilasDe(t, d) ==
    /\ \A k \in DOMAIN t.nuevas : DOMAIN t.nuevas[k] = Columns
    /\ \A k \in Claves : k \in DOMAIN t.cambia => DOMAIN plazos[k] = Columns
    /\ \A k \in Claves : plazos[k] # Null /\ k \notin d =>
         /\ k \notin DOMAIN t.nuevas
         /\ k \in DOMAIN t.cambia => Respeta(k, plazos[k], Sobre(t.cambia[k], plazos[k]))

\* The release is undone by a later act of the court, or shown.
Sigue(c) ==
    /\ \/ c.override = caso.override
       \/ \E m \in movs : m.clase # "opone" /\ m.dia > caso.override_at
    /\ c.override # Null => c.semaforo = c.override

\* A unit of work clears both columns of the release, or neither.
CasoDe(t, d) ==
    /\ \/ "override" \notin DOMAIN t.caso /\ "override_at" \notin DOMAIN t.caso
       \/ /\ "override" \in DOMAIN t.caso /\ t.caso["override"] = Null
          /\ "override_at" \in DOMAIN t.caso /\ t.caso["override_at"] = Null
    /\ Caso \notin d => Sigue(Sobre(t.caso, caso))

IInv == Formas /\ (tx # Null => FilasDe(tx, despues) /\ CasoDe(tx, despues))

-----------------------------------------------------------------------------
(* Units of work *)

LEMMA SobreCambios ==
    ASSUME NEW r, NEW s, DOMAIN s = DOMAIN r, s = [c \in DOMAIN s |-> s[c]]
    PROVE  Sobre(Cambios(r, s), r) = s
BY DEF Sobre, Cambios

LEMMA SobreDominio == ASSUME NEW x, NEW r PROVE DOMAIN Sobre(x, r) = DOMAIN r
BY DEF Sobre

-----------------------------------------------------------------------------
(* The steps of a recomputation, on one row *)

\* A row keeps its columns through every step.
LEMMA EnCursoForma ==
    ASSUME NEW k, NEW r, EsFila(r)
    PROVE  EsFila(EnCurso(k, r)) /\ (r # Null => DOMAIN EnCurso(k, r) = Columns)
<1>1. DOMAIN [due |-> Vence(k), status |-> "active", manual |-> FALSE, marcada |-> FALSE,
              verdict |-> Null] = Columns
  BY DEF Columns
<1>2. \A x : r # Null => DOMAIN [r EXCEPT !.due = x, !.status = "active", !.verdict = Null] = Columns
  BY DEF EsFila
<1> QED
  BY <1>1, <1>2 DEF EsFila, EnCurso

LEMMA ConVeredictoForma ==
    ASSUME NEW k, NEW r, r # Null, EsFila(r)
    PROVE  /\ DOMAIN ConVeredicto(k, r) = Columns
           /\ r.manual => ConVeredicto(k, r) = r
BY DEF EsFila, ConVeredicto

LEMMA AvanzaForma == ASSUME NEW k, NEW r, EsFila(r) PROVE EsFila(Avanza(k, r))
<1> SUFFICES ASSUME r # Null PROVE DOMAIN Avanza(k, r) = Columns
  BY DEF EsFila, Avanza
<1>1. DOMAIN r = Columns
  BY DEF EsFila
<1>2. \A q : DOMAIN q = Columns => DOMAIN Reemplaza(q) = Columns
  BY DEF Reemplaza
<1>3. DOMAIN SinVeredicto(r) = Columns
  BY <1>1 DEF SinVeredicto
<1>4. DOMAIN CierraPorDefensa(k, r) = Columns
  <2>1. \A x, y : DOMAIN [r EXCEPT !.status = x, !.verdict = y] = Columns
    BY <1>1
  <2> QED
    BY <2>1 DEF CierraPorDefensa
<1> QED
  BY <1>1, <1>2, <1>3, <1>4, ConVeredictoForma DEF Avanza

LEMMA SobrepasaForma == ASSUME NEW k, NEW r, EsFila(r) PROVE EsFila(Sobrepasa(k, r))
<1>1. r # Null => DOMAIN Reemplaza(ConVeredicto(k, r)) = Columns
  BY ConVeredictoForma DEF Reemplaza
<1> QED
  BY <1>1 DEF EsFila, Sobrepasa

LEMMA VencidoForma == ASSUME NEW k, NEW r, EsFila(r) PROVE EsFila(Vencido(k, r))
<1>1. \A x : r # Null => DOMAIN [ConVeredicto(k, r) EXCEPT !.status = x] = Columns
  BY ConVeredictoForma
<1> QED
  BY <1>1 DEF EsFila, Vencido

LEMMA RejuzgaForma ==
    ASSUME NEW k, NEW r, DOMAIN r = Columns
    PROVE  DOMAIN Rejuzga(k, r) = Columns
<1>2. \A x, y, z : /\ DOMAIN [r EXCEPT !.verdict = x] = Columns
                   /\ DOMAIN [r EXCEPT !.due = x, !.status = y, !.verdict = z] = Columns
                   /\ DOMAIN [r EXCEPT !.due = x] = Columns
  OBVIOUS
<1> QED
  BY <1>2 DEF Rejuzga

\* What the auditor decided passes through steps 4 and 5, and is not judged again.
LEMMA Pasos4y5Respetan ==
    ASSUME NEW k, NEW r, r # Null, Marcada(r) \/ r.manual
    PROVE  EnCurso(k, r) = r /\ Pasos4y5(k, r) = r /\ ~Corregible(k, r)
<1>1. EnCurso(k, r) = r
  BY DEF EnCurso, Marcada
<1>2. ~Corregible(k, r)
  BY DEF Corregible, Marcada
<1>3. Avanza(k, r) = r
  BY DEF Avanza, Viva, Marcada, Auditado
<1>4. Sobrepasa(k, r) = r
  BY DEF Sobrepasa, Marcada, Auditado
<1> QED
  BY <1>1, <1>2, <1>3, <1>4 DEF Pasos4y5

\* Rebeldia leaves a row, or expires an active one of excepciones.
LEMMA RebeldiaForma ==
    ASSUME NEW q, DOMAIN q = Claves, NEW f \in Rebeldia(q), NEW k \in Claves
    PROVE  \/ f[k] = q[k]
           \/ /\ lado = "demandante" /\ k[1] = "excepciones"
              /\ q[k] # Null /\ q[k].status = "active"
              /\ f[k] = [ConVeredicto(k, q[k]) EXCEPT !.status = "expired"]
<1> DEFINE activas == {l \in Claves : /\ l[1] = "excepciones" /\ q[l] # Null
                                      /\ q[l].status = "active"}
<1>1. CASE f = q
  BY <1>1
<1>2. CASE f # q
  <2>1. PICK l \in activas :
          f = [q EXCEPT ![l] = [ConVeredicto(l, q[l]) EXCEPT !.status = "expired"]]
    BY <1>2 DEF Rebeldia
  <2>2. lado = "demandante"
    BY <1>2 DEF Rebeldia
  <2> QED
    BY <2>1, <2>2
<1> QED
  BY <1>1, <1>2

LEMMA RecalculoForma ==
    ASSUME Formas, NEW p \in Recalculos(plazos)
    PROVE  /\ DOMAIN p = Claves
           /\ \A k \in Claves :
                /\ EsFila(p[k])
                /\ plazos[k] # Null => Respeta(k, plazos[k], p[k])
                /\ plazos[k] # Null /\ plazos[k].manual => DOMAIN p[k] = Columns
<1> DEFINE q == [k \in Claves |-> Pasos4y5(k, plazos[k])]
           corregibles == {k \in Claves : plazos[k] # Null /\ Corregible(k, EnCurso(k, plazos[k]))}
<1>1. PICK f \in Rebeldia(q) : p = [k \in Claves |-> Pasos6(k, f[k], k \in corregibles)]
  BY DEF Recalculos
<1>2. ASSUME NEW k \in Claves
      PROVE  /\ EsFila(p[k])
             /\ plazos[k] # Null => Respeta(k, plazos[k], p[k])
             /\ plazos[k] # Null /\ plazos[k].manual => DOMAIN p[k] = Columns
  <2> DEFINE r == plazos[k]
  <2>1. EsFila(r)
    BY DEF Formas
  <2>2. EsFila(q[k])
    BY <2>1, EnCursoForma, AvanzaForma, SobrepasaForma DEF Pasos4y5
  <2>3. \/ f[k] = q[k]
        \/ /\ lado = "demandante" /\ k[1] = "excepciones"
           /\ q[k] # Null /\ q[k].status = "active"
           /\ f[k] = [ConVeredicto(k, q[k]) EXCEPT !.status = "expired"]
    BY <1>1, RebeldiaForma
  <2>4. EsFila(f[k])
    BY <2>2, <2>3, ConVeredictoForma DEF EsFila
  <2>5. p[k] = IF k \in corregibles THEN Rejuzga(k, f[k]) ELSE Vencido(k, f[k])
    BY <1>1 DEF Pasos6
  <2>6. EsFila(p[k])
    <3>1. CASE k \in corregibles
      <4>1. q[k] = EnCurso(k, r)
        BY <3>1 DEF Pasos4y5, Avanza, Sobrepasa
      <4>2. DOMAIN q[k] = Columns
        BY <2>1, <3>1, <4>1, EnCursoForma
      <4>3. DOMAIN f[k] = Columns
        BY <2>2, <2>3, <4>2, ConVeredictoForma
      <4> QED
        BY <2>5, <3>1, <4>3, RejuzgaForma DEF EsFila
    <3>2. CASE k \notin corregibles
      BY <2>4, <2>5, <3>2, VencidoForma
    <3> QED
      BY <3>1, <3>2
  <2>7. ASSUME r # Null PROVE Respeta(k, r, p[k]) /\ (r.manual => DOMAIN p[k] = Columns)
    <3>1. ASSUME Marcada(r) \/ r.manual
          PROVE  q[k] = r /\ k \notin corregibles
      BY <2>7, <3>1, Pasos4y5Respetan
    <3>2. ASSUME Marcada(r) PROVE p[k] = r
      <4>1. f[k] = r
        BY <2>3, <3>1, <3>2 DEF Marcada, Auditado
      <4> QED
        BY <2>5, <3>1, <3>2, <4>1 DEF Vencido, Marcada, Auditado
    <3>3. ASSUME r.manual
          PROVE  /\ p[k] = r \/ (lado = "demandante" /\ k[1] = "excepciones" /\ p[k].status = "expired")
                 /\ DOMAIN p[k] = Columns
      <4>1. CASE f[k] = q[k]
        BY <2>1, <2>5, <2>7, <3>1, <3>3, <4>1 DEF Vencido, EsFila
      <4>2. CASE f[k] # q[k]
        <5>1. f[k] = [r EXCEPT !.status = "expired"] /\ lado = "demandante" /\ k[1] = "excepciones"
          BY <2>1, <2>3, <2>7, <3>1, <3>3, <4>2, ConVeredictoForma
        <5>2. f[k].status = "expired" /\ DOMAIN f[k] = Columns
          BY <2>1, <2>7, <5>1 DEF EsFila, Columns
        <5> QED
          BY <2>5, <3>1, <3>3, <5>1, <5>2 DEF Vencido
      <4> QED
        BY <4>1, <4>2
    <3> QED
      BY <3>2, <3>3 DEF Respeta
  <2> QED
    BY <2>6, <2>7
<1> QED
  BY <1>1, <1>2

-----------------------------------------------------------------------------
(* What a sync computes, and what its commit leaves *)

LEMMA ColumnaSigue == ASSUME Formas, NEW p PROVE Sigue(Columna(p, caso))
<1>1. /\ Columna(p, caso).override = IF Liberada(caso) THEN caso.override ELSE Null
      /\ Columna(p, caso).semaforo = IF Liberada(caso) THEN caso.override ELSE Color(p)
  BY DEF Columna
<1>2. ASSUME ~Liberada(caso), caso.override # Null
      PROVE  \E m \in movs : m.clase # "opone" /\ m.dia > caso.override_at
  <2>1. PICK d \in DiasDe(ActosDelTribunal) : ~(d <= caso.override_at)
    BY <1>2 DEF Liberada
  <2>2. PICK m \in movs : m.clase # "opone" /\ m.dia = d
    BY DEF DiasDe, ActosDelTribunal
  <2> QED
    BY <1>2, <2>1, <2>2 DEF Formas
<1> QED
  BY <1>1, <1>2 DEF Sigue

LEMMA TrabajoBien ==
    ASSUME Formas, NEW p \in Recalculos(plazos), NEW d
    PROVE  FilasDe(Trabajo(p), d) /\ CasoDe(Trabajo(p), d)
<1> DEFINE t == Trabajo(p)
           c == Columna(p, caso)
<1>1. /\ t.nuevas = [k \in {l \in Claves : plazos[l] = Null /\ p[l] # Null} |-> p[k]]
      /\ t.cambia = [k \in {l \in Claves : plazos[l] # Null /\ p[l] # plazos[l]} |->
                       Cambios(plazos[k], p[k])]
      /\ t.caso = Cambios(caso, c)
  BY DEF Trabajo
<1>2. FilasDe(t, d)
  <2>1. \A k \in DOMAIN t.nuevas : DOMAIN t.nuevas[k] = Columns
    BY <1>1, RecalculoForma DEF EsFila
  <2>2. ASSUME NEW k \in Claves, plazos[k] # Null, k \in DOMAIN t.cambia
        PROVE  Respeta(k, plazos[k], Sobre(t.cambia[k], plazos[k]))
    <3> DEFINE r == plazos[k]
               s == Sobre(Cambios(r, p[k]), r)
    <3>1. t.cambia[k] = Cambios(r, p[k]) /\ p[k] # r
      BY <1>1, <2>2
    <3>2. /\ Respeta(k, r, p[k]) /\ DOMAIN r = Columns
          /\ r.manual => DOMAIN p[k] = Columns
      BY <2>2, RecalculoForma DEF Formas, EsFila
    <3>3. ~Marcada(r)
      BY <3>1, <3>2 DEF Respeta
    <3>4. ASSUME r.manual PROVE s.status = "expired"
      <4>1. p[k].status = "expired"
        BY <3>1, <3>2, <3>4 DEF Respeta
      <4>2. s["status"] = IF "status" \in DOMAIN Cambios(r, p[k]) THEN Cambios(r, p[k])["status"]
                          ELSE r["status"]
        BY <3>2 DEF Sobre, Columns
      <4>3. /\ "status" \in DOMAIN Cambios(r, p[k]) <=> p[k]["status"] # r["status"]
            /\ "status" \in DOMAIN Cambios(r, p[k]) =>
                 Cambios(r, p[k])["status"] = p[k]["status"]
        BY <3>2, <3>4 DEF Cambios, Columns
      <4>4. s["status"] = p[k]["status"]
        BY <4>2, <4>3
      <4> QED
        BY <4>1, <4>4
    <3> QED
      BY <3>1, <3>2, <3>3, <3>4 DEF Respeta
  <2>3. \A k \in DOMAIN t.cambia : DOMAIN plazos[k] = Columns
    BY <1>1 DEF Formas, EsFila
  <2> QED
    BY <1>1, <2>1, <2>2, <2>3 DEF FilasDe
<1>3. CasoDe(t, d)
  <2>1. DOMAIN c = Columnas /\ c = [x \in DOMAIN c |-> c[x]]
    BY DEF Columna, Columnas
  <2>2. Sobre(t.caso, caso) = c
    BY <1>1, <2>1, SobreCambios DEF Formas
  <2>3. Sigue(c)
    BY ColumnaSigue
  <2>4. \/ c.override = caso.override /\ c.override_at = caso.override_at
        \/ /\ c.override = Null /\ c.override_at = Null
           /\ caso.override # Null /\ caso.override_at # Null
    BY NullAssumption DEF Columna, Formas
  <2>5. /\ DOMAIN t.caso = {x \in Columnas : c[x] # caso[x]}
        /\ \A x \in DOMAIN t.caso : t.caso[x] = c[x]
    BY <1>1, <2>1 DEF Cambios
  <2> QED
    BY <2>2, <2>3, <2>4, <2>5 DEF CasoDe, Columnas
<1> QED
  BY <1>2, <1>3

LEMMA EscribeBien ==
    ASSUME Formas, NEW t, NEW d, FilasDe(t, d), CasoDe(t, d), Escribe(t),
           UNCHANGED <<hoy, actos, movs>>
    PROVE  /\ Formas'
           /\ \A k \in Claves : plazos[k] # Null /\ k \notin d =>
                Respeta(k, plazos[k], plazos'[k])
           /\ Caso \notin d => Sigue(caso')
           /\ \A k \in Claves : DOMAIN plazos[k] = Columns => DOMAIN plazos'[k] = Columns
<1>1. /\ DOMAIN plazos' = Claves
      /\ \A k \in Claves :
           plazos'[k] = IF k \in DOMAIN t.nuevas THEN t.nuevas[k]
                        ELSE IF k \in DOMAIN t.cambia THEN Sobre(t.cambia[k], plazos[k])
                        ELSE plazos[k]
      /\ caso' = Sobre(t.caso, caso)
  BY DEF Escribe
<1>2. \A k \in Claves : /\ EsFila(plazos'[k])
                        /\ DOMAIN plazos[k] = Columns => DOMAIN plazos'[k] = Columns
  BY <1>1, SobreDominio DEF Formas, FilasDe, EsFila
<1>3. DOMAIN caso' = Columnas
  BY <1>1, SobreDominio DEF Formas
<1>4. IF caso'.override = Null THEN caso'.override_at = Null ELSE caso'.override_at \in Nat
  <2>1. \A x \in {"override", "override_at"} :
          caso'[x] = IF x \in DOMAIN t.caso THEN t.caso[x] ELSE caso[x]
    BY <1>1 DEF Sobre, Formas, Columnas
  <2> QED
    BY <2>1 DEF CasoDe, Formas
<1>5. Formas'
  <2>1. hoy' = hoy /\ actos' = actos /\ movs' = movs
    OBVIOUS
  <2>2. hoy' \in Nat /\ actos' \in Nat /\ \A m \in movs' : m.dia \in Nat
    BY <2>1 DEF Formas
  <2> QED
    BY <1>1, <1>2, <1>3, <1>4, <2>2 DEF Formas
<1>6. \A k \in Claves : plazos[k] # Null /\ k \notin d => Respeta(k, plazos[k], plazos'[k])
  BY <1>1 DEF FilasDe, Respeta
<1>7. Caso \notin d => Sigue(caso')
  BY <1>1 DEF CasoDe, Sigue
<1> QED
  BY <1>2, <1>5, <1>6, <1>7

\* A sync in progress is as it was, for what others left alone.
LEMMA TxSigue ==
    ASSUME IInv, tx # Null, tx' = tx, lado' = lado, movs \subseteq movs',
           \A k \in Claves : DOMAIN plazos[k] = Columns => DOMAIN plazos'[k] = Columns,
           \A k \in Claves : k \notin despues' => k \notin despues /\ plazos'[k] = plazos[k],
           Caso \notin despues' => Caso \notin despues /\ caso' = caso
    PROVE  FilasDe(tx, despues)' /\ CasoDe(tx, despues)'
<1>1. FilasDe(tx, despues)'
  BY DEF IInv, FilasDe, Respeta, Marcada, Sobre
<1>2. CasoDe(tx, despues)'
  BY DEF IInv, CasoDe, Sigue, Sobre
<1> QED
  BY <1>1, <1>2

LEMMA AnotaSigue ==
    ASSUME Anota, tx # Null
    PROVE  /\ \A k \in Claves : k \notin despues' => k \notin despues /\ plazos'[k] = plazos[k]
           /\ Caso \notin despues' => Caso \notin despues /\ caso' = caso
BY DEF Anota

-----------------------------------------------------------------------------
(* One lemma per kind of step *)

\* What the engine may do to the rows, and to the release, when it commits.
Auditoria == \A k \in Claves : plazos[k] # Null /\ k \notin despues =>
               Respeta(k, plazos[k], plazos'[k])
Liberacion == caso' # caso /\ Caso \notin despues => Sigue(caso')

LEMMA InitHolds == Init => IInv
<1>1. DOMAIN [semaforo |-> "gris", override |-> Null, override_at |-> Null,
              fatal_incumplido |-> FALSE] = Columnas
  BY DEF Columnas
<1> QED
  BY <1>1 DEF Init, IInv, Formas, EsFila

LEMMA LeeKeeps == ASSUME IInv, Lee PROVE IInv'
<1>1. PICK p \in Recalculos(plazos) : tx' = Trabajo(p)
  BY DEF Lee
<1>2. UNCHANGED <<lado, hoy, movs, plazos, caso, actos>> /\ despues' = {}
  BY DEF Lee, evidencia
<1>3. FilasDe(Trabajo(p), {}) /\ CasoDe(Trabajo(p), {})
  BY TrabajoBien DEF IInv
<1>4. FilasDe(tx, despues)'
  BY <1>1, <1>2, <1>3 DEF FilasDe, Respeta, Marcada, Sobre
<1>5. CasoDe(tx, despues)'
  BY <1>1, <1>2, <1>3 DEF CasoDe, Sigue, Sobre
<1>6. Formas'
  BY <1>2 DEF IInv, Formas
<1> QED
  BY <1>4, <1>5, <1>6 DEF IInv

LEMMA CommitKeeps == ASSUME IInv, Commit PROVE IInv' /\ Auditoria /\ Liberacion
<1>1. Escribe(tx) /\ tx # Null /\ tx' = Null /\ UNCHANGED <<hoy, actos, movs>>
  BY DEF Commit, evidencia
<1>2. /\ Formas'
      /\ \A k \in Claves : plazos[k] # Null /\ k \notin despues =>
           Respeta(k, plazos[k], plazos'[k])
      /\ Caso \notin despues => Sigue(caso')
  BY <1>1, EscribeBien DEF IInv
<1> QED
  BY <1>1, <1>2 DEF IInv, Auditoria, Liberacion

LEMMA RecalculaKeeps == ASSUME IInv, Recalcula PROVE IInv' /\ Auditoria /\ Liberacion
<1>1. PICK p \in Recalculos(plazos) : Escribe(Trabajo(p))
  BY DEF Recalcula
<1>2. UNCHANGED <<lado, hoy, movs, tx, actos>> /\ Anota
  BY DEF Recalcula, evidencia
<1>3. FilasDe(Trabajo(p), {}) /\ CasoDe(Trabajo(p), {})
  BY TrabajoBien DEF IInv
<1>4. UNCHANGED <<hoy, actos, movs>>
  BY <1>2
<1>5. /\ Formas'
      /\ \A k \in Claves : plazos[k] # Null /\ k \notin {} => Respeta(k, plazos[k], plazos'[k])
      /\ Caso \notin {} => Sigue(caso')
      /\ \A k \in Claves : DOMAIN plazos[k] = Columns => DOMAIN plazos'[k] = Columns
  BY <1>1, <1>3, <1>4, EscribeBien DEF IInv
<1>6. tx' # Null => FilasDe(tx, despues)' /\ CasoDe(tx, despues)'
  BY <1>2, <1>5, TxSigue, AnotaSigue
<1> QED
  BY <1>5, <1>6 DEF IInv, Auditoria, Liberacion

\* The steps of others: a row changes in its status, or is new.
LEMMA OtrosKeep ==
    ASSUME IInv, Formas', UNCHANGED <<lado, tx>>, movs \subseteq movs',
           \A k \in Claves : DOMAIN plazos[k] = Columns => DOMAIN plazos'[k] = Columns,
           Anota \/ UNCHANGED <<plazos, caso, despues>>
    PROVE  IInv'
<1>1. ASSUME tx # Null
      PROVE  /\ \A k \in Claves : k \notin despues' => k \notin despues /\ plazos'[k] = plazos[k]
             /\ Caso \notin despues' => Caso \notin despues /\ caso' = caso
  BY <1>1, AnotaSigue
<1>2. tx' # Null => FilasDe(tx, despues)' /\ CasoDe(tx, despues)'
  BY <1>1, TxSigue
<1> QED
  BY <1>2 DEF IInv

LEMMA EstadoKeeps ==
    ASSUME IInv, NEW k \in Claves, NEW e, update_deadline_status(k, e)
    PROVE  IInv' /\ actos' # actos
<1>1. /\ plazos' = [plazos EXCEPT ![k].status = e, ![k].marcada = TRUE]
      /\ plazos[k] # Null /\ actos' = actos + 1 /\ Anota
      /\ UNCHANGED <<lado, hoy, movs, caso, tx>>
  BY DEF update_deadline_status, evidencia
<1>2. /\ DOMAIN plazos' = Claves
      /\ \A l \in Claves : DOMAIN plazos'[l] = DOMAIN plazos[l] /\ (l # k => plazos'[l] = plazos[l])
  BY <1>1 DEF IInv, Formas
<1>3. Formas' /\ actos' # actos
  BY <1>1, <1>2 DEF IInv, Formas, EsFila
<1> QED
  BY <1>1, <1>2, <1>3, OtrosKeep

LEMMA ManualKeeps ==
    ASSUME IInv, NEW k \in Claves, create_manual_deadline(k)
    PROVE  IInv' /\ actos' # actos
<1> DEFINE r == [due |-> k[2] + Termino[k[1]], status |-> "active", manual |-> TRUE,
                 marcada |-> FALSE, verdict |-> Null]
<1>1. /\ plazos' = [plazos EXCEPT ![k] = r]
      /\ actos' = actos + 1 /\ Anota
      /\ UNCHANGED <<lado, hoy, movs, caso, tx>>
  BY DEF create_manual_deadline, evidencia
<1>2. DOMAIN r = Columns
  BY DEF Columns
<1> HIDE DEF r
<1>3. /\ DOMAIN plazos' = Claves /\ DOMAIN plazos'[k] = Columns
      /\ \A l \in Claves : l # k => plazos'[l] = plazos[l]
  BY <1>1, <1>2 DEF IInv, Formas
<1>4. Formas' /\ actos' # actos
  BY <1>1, <1>3 DEF IInv, Formas, EsFila
<1> QED
  BY <1>1, <1>3, <1>4, OtrosKeep

LEMMA AprobarKeeps == ASSUME IInv, aprobar_liberacion PROVE IInv' /\ pedido' # pedido
<1>1. /\ caso' = [caso EXCEPT !.semaforo = pedido, !.override = pedido, !.override_at = hoy]
      /\ pedido # Null /\ pedido' = Null /\ Anota
      /\ UNCHANGED <<lado, hoy, movs, plazos, tx, actos>>
  BY DEF aprobar_liberacion, evidencia
<1>2. DOMAIN caso' = Columnas /\ caso'.override = pedido /\ caso'.override_at = hoy
  BY <1>1 DEF IInv, Formas, Columnas
<1>3. Formas'
  BY <1>1, <1>2 DEF IInv, Formas
<1> QED
  BY <1>1, <1>3, OtrosKeep

LEMMA QuietosKeep ==
    ASSUME IInv,
           \/ \E c \in Destinos : crear_liberacion(c)
           \/ rechazar_liberacion \/ PasaDia
           \/ \E m \in [clase : Clases, dia : Dias] : Publica(m)
           \/ \E d \in Dias : RecibeEscrito(d)
           \/ UNCHANGED vars
    PROVE  IInv' /\ UNCHANGED <<plazos, caso>>
<1>1. UNCHANGED <<lado, plazos, caso, tx, despues>> /\ movs \subseteq movs'
  BY DEF crear_liberacion, rechazar_liberacion, PasaDia, Publica, RecibeEscrito, vars, evidencia
<1>2. hoy' \in Nat /\ actos' \in Nat
  BY DEF IInv, Formas, crear_liberacion, rechazar_liberacion, PasaDia, Publica, RecibeEscrito,
         vars, evidencia
<1>3. \A m \in movs' : m.dia \in Nat
  BY DEF IInv, Formas, crear_liberacion, rechazar_liberacion, PasaDia, Publica, RecibeEscrito,
         vars, evidencia, Dias
<1>4. Formas'
  BY <1>1, <1>2, <1>3 DEF IInv, Formas
<1> QED
  BY <1>1, <1>4, OtrosKeep

LEMMA AbortaKeeps == ASSUME IInv, Aborta PROVE IInv' /\ UNCHANGED <<plazos, caso>>
BY DEF IInv, Formas, Aborta, evidencia

LEMMA NextKeeps == ASSUME IInv, [Next]_vars PROVE IInv' /\ (Motor => Auditoria /\ Liberacion)
<1>1. ASSUME UNCHANGED <<plazos, caso>> PROVE Auditoria /\ Liberacion
  BY <1>1 DEF Auditoria, Liberacion, Respeta
<1>2. CASE Lee
  BY <1>1, <1>2, LeeKeeps DEF Lee
<1>3. CASE Commit \/ Recalcula
  BY <1>3, CommitKeeps, RecalculaKeeps
<1>4. CASE Aborta
  BY <1>1, <1>4, AbortaKeeps
<1>5. CASE \E k \in Claves : \/ \E s \in Auditado \cup {"active"} : update_deadline_status(k, s)
                            \/ create_manual_deadline(k)
  BY <1>5, EstadoKeeps, ManualKeeps DEF Motor
<1>6. CASE aprobar_liberacion
  BY <1>6, AprobarKeeps DEF Motor
<1>7. CASE \/ \E c \in Destinos : crear_liberacion(c)
           \/ rechazar_liberacion \/ PasaDia
           \/ \E m \in [clase : Clases, dia : Dias] : Publica(m)
           \/ \E d \in Dias : RecibeEscrito(d)
           \/ UNCHANGED vars
  BY <1>1, <1>7, QuietosKeep
<1> QED
  BY <1>2, <1>3, <1>4, <1>5, <1>6, <1>7 DEF Next

-----------------------------------------------------------------------------
(* A recomputation, row by row *)

\* What it makes of a row, but for rebeldia.
Fila(k, r) ==
    IF r # Null /\ Corregible(k, EnCurso(k, r)) THEN Rejuzga(k, EnCurso(k, r))
    ELSE Vencido(k, Pasos4y5(k, r))
\* What rebeldia makes of it.
Vencida(k, r) == Vencido(k, [ConVeredicto(k, r) EXCEPT !.status = "expired"])

LEMMA FilasDelRecalculo ==
    ASSUME NEW x, NEW p \in Recalculos(x), NEW k \in Claves
    PROVE  \/ p[k] = Fila(k, x[k])
           \/ /\ lado = "demandante" /\ k[1] = "excepciones"
              /\ Pasos4y5(k, x[k]) # Null /\ Pasos4y5(k, x[k]).status = "active"
              /\ p[k] = Vencida(k, Pasos4y5(k, x[k]))
<1> DEFINE q == [l \in Claves |-> Pasos4y5(l, x[l])]
           corregibles == {l \in Claves : x[l] # Null /\ Corregible(l, EnCurso(l, x[l]))}
           e == EnCurso(k, x[k])
<1>1. PICK f \in Rebeldia(q) : p = [l \in Claves |-> Pasos6(l, f[l], l \in corregibles)]
  BY DEF Recalculos
<1>2. \/ f[k] = q[k]
      \/ /\ lado = "demandante" /\ k[1] = "excepciones"
         /\ q[k] # Null /\ q[k].status = "active"
         /\ f[k] = [ConVeredicto(k, q[k]) EXCEPT !.status = "expired"]
  BY <1>1, RebeldiaForma
<1>3. p[k] = IF k \in corregibles THEN Rejuzga(k, f[k]) ELSE Vencido(k, f[k])
  BY <1>1 DEF Pasos6
<1>4. q[k] = Pasos4y5(k, x[k])
  OBVIOUS
<1>5. ASSUME x[k] # Null, Corregible(k, e) PROVE q[k] = e /\ e.status # "active"
  <2>1. e.status # "active"
    BY <1>5 DEF Corregible, Definitiva
  <2>2. Sobrepasa(k, Avanza(k, e)) = e
    BY <1>5, <2>1 DEF Avanza, Sobrepasa, Viva, Corregible, Definitiva
  <2> QED
    BY <2>1, <2>2 DEF Pasos4y5
<1> QED
  BY <1>2, <1>3, <1>4, <1>5 DEF Fila, Vencida

-----------------------------------------------------------------------------
(* A state that was left behind has no colour *)

\* Live, as the colour sees it.
Cuenta(r) == r # Null /\ r.status \in {"active", "expired"}

LEMMA SinCuenta ==
    ASSUME NEW p, \A k \in Claves : k[1] \in Accionables => ~Cuenta(p[k])
    PROVE  Color(p) # "rojo"
<1>1. \A s \in {"active", "expired"} :
        {k \in Claves : k[1] \in Accionables /\ p[k] # Null /\ p[k].status = s} = {}
  BY DEF Cuenta
<1> QED
  BY <1>1 DEF Color

LEMMA FilaDejada ==
    ASSUME NEW k \in Claves, k[1] \in Accionables, Disparo(k[1]) = Null, NEW r,
           r # Null => DOMAIN r = Columns /\ ~r.manual /\ ~r.marcada
    PROVE  ~Cuenta(Fila(k, r)) /\ ~Cuenta(Pasos4y5(k, r))
<1>1. EnCurso(k, r) = r
  <2>1. k[2] \in Nat
    BY DEF Claves, Dias
  <2> QED
    BY <2>1, NullAssumption DEF EnCurso
<1>2. CASE r = Null
  <2>1. Pasos4y5(k, r) = Null
    BY <1>1, <1>2 DEF Pasos4y5, Avanza, Sobrepasa
  <2> QED
    BY <1>2, <2>1 DEF Fila, Vencido, Cuenta
<1>3. CASE r # Null
  <2>1. ~Definitiva(k, r)
    BY DEF Definitiva, Accionables
  <2>2. CASE Cuenta(r)
    <3>1. Viva(k, r) /\ ~Corregible(k, r)
      BY <1>3, <2>1, <2>2 DEF Viva, Corregible, Cuenta
    <3>2. Avanza(k, r).status \in {"superseded", "cumplido", "no_cumplido"}
      <4>1. \A s, v : [r EXCEPT !.status = s, !.verdict = v].status = s
        BY <1>3 DEF Columns
      <4>2. CierraPorDefensa(k, r).status \in {"superseded", "cumplido", "no_cumplido"}
        BY <4>1 DEF CierraPorDefensa
      <4>3. Reemplaza(ConVeredicto(k, r)).status = "superseded"
        BY <1>3, ConVeredictoForma DEF Reemplaza, EsFila, Columns
      <4> QED
        BY <1>3, <3>1, <4>2, <4>3 DEF Avanza
    <3>3. Sobrepasa(k, Avanza(k, r)) = Avanza(k, r)
      BY <3>2 DEF Sobrepasa
    <3>4. Pasos4y5(k, r) = Avanza(k, r)
      BY <1>1, <3>1, <3>3 DEF Pasos4y5
    <3>5. Fila(k, r) = Avanza(k, r)
      BY <1>1, <3>1, <3>2, <3>4 DEF Fila, Vencido
    <3> QED
      BY <3>2, <3>4, <3>5 DEF Cuenta
  <2>3. CASE ~Cuenta(r)
    <3>1. Pasos4y5(k, r) = r
      BY <1>1, <1>3, <2>3 DEF Pasos4y5, Avanza, Sobrepasa, Viva, Cuenta
    <3>2. Rejuzga(k, r).status \in {r.status, "cumplido"}
      <4>1. \A a, b, c : /\ [r EXCEPT !.verdict = c].status = r.status
                         /\ [r EXCEPT !.due = a].status = r.status
                         /\ [r EXCEPT !.due = a, !.status = b, !.verdict = c].status = b
        BY <1>3 DEF Columns
      <4> QED
        BY <4>1 DEF Rejuzga
    <3>3. Vencido(k, r) = r
      BY <1>3, <2>3 DEF Vencido, Cuenta
    <3> QED
      BY <1>1, <1>3, <2>3, <3>1, <3>2, <3>3 DEF Fila, Cuenta
  <2> QED
    BY <2>2, <2>3
<1> QED
  BY <1>2, <1>3

LEMMA FormasNoStale == Formas => NoStaleRed
<1> SUFFICES ASSUME Formas,
                    \A t \in Accionables : Disparo(t) = Null,
                    \A k \in Claves : IF plazos[k] = Null THEN TRUE
                                      ELSE ~plazos[k].manual /\ ~plazos[k].marcada,
                    NEW p \in Recalculos(plazos)
             PROVE  Color(p) # "rojo"
  BY DEF NoStaleRed
<1>1. ASSUME NEW k \in Claves, k[1] \in Accionables PROVE ~Cuenta(p[k])
  <2>1. ~Cuenta(Fila(k, plazos[k])) /\ ~Cuenta(Pasos4y5(k, plazos[k]))
    BY <1>1, FilaDejada DEF Formas, EsFila
  <2> QED
    BY <2>1, FilasDelRecalculo DEF Cuenta
<1> QED
  BY <1>1, SinCuenta

-----------------------------------------------------------------------------
(* Types *)

\* The same row, but for what the engine writes.
Mismo(r, s) == s \in Row /\ s.manual = r.manual /\ s.marcada = r.marcada
Fuera(r) == ~r.manual /\ ~r.marcada

LEMMA MenorEs ==
    ASSUME NEW x \in Nat, NEW y \in Nat, x < y
    PROVE  <<x, y>> \in OpToRel(<, Nat)
BY DEF OpToRel

LEMMA MinimoDeDias ==
    ASSUME NEW S, S # {}, S \subseteq Nat
    PROVE  Min(S) \in S /\ \A x \in S : Min(S) <= x
<1>1. PICK y \in S : \A x \in S : ~(<<x, y>> \in OpToRel(<, Nat))
  BY NatLessThanWellFounded, WFMin
<1>2. \A x \in S : ~(x < y)
  BY <1>1, MenorEs, Zenon
<1>3. \A x \in S : y <= x
  BY <1>2
<1> QED
  BY <1>3 DEF Min

\* The requerimientos that count for a notice.
Posteriores(d) == DiasDe({"requerimiento"}) \cap (d .. d + MaxRequerimiento)

LEMMA RequeridoEs ==
    ASSUME NEW d
    PROVE  Requerido(d) = IF Posteriores(d) = {} THEN d ELSE Min(Posteriores(d))
BY DEF Requerido, Posteriores

LEMMA VenceTipo ==
    ASSUME NEW k \in Claves, \A m \in movs : m.dia \in Nat
    PROVE  Vence(k) \in Nat /\ Vence(k) >= k[2] + Termino[k[1]] /\ k[2] + Termino[k[1]] \in Nat
<1>1. k[2] \in Nat /\ Termino[k[1]] \in Nat
  BY PlazosAssumption DEF Claves, Dias
<1>2. Posteriores(k[2]) \subseteq Nat /\ \A d \in Posteriores(k[2]) : d >= k[2]
  BY <1>1, RequerimientoAssumption DEF Posteriores
<1>3. Posteriores(k[2]) # {} => Min(Posteriores(k[2])) \in Posteriores(k[2])
  BY <1>2, MinimoDeDias
<1>4. Requerido(k[2]) \in Nat /\ Requerido(k[2]) >= k[2]
  BY <1>1, <1>2, <1>3, RequeridoEs
<1> QED
  BY <1>1, <1>4 DEF Vence

LEMMA EvaluaTipo == ASSUME NEW k, NEW r PROVE Evalua(k, r) \in Veredictos \cup {Null}
<1> DEFINE V == Veredictos \cup {Null}
<1>1. \A due : PorMovimientos(due) \in V
  BY DEF PorMovimientos, Veredictos
<1>2. \A due : PorEscritos(k, due) \in V
  BY DEF PorEscritos, Veredictos
<1>3. \A v, w : v \in V /\ w \in V => Mejor(v, w) \in V
  BY DEF Mejor
<1> QED
  BY <1>1, <1>2, <1>3 DEF Evalua

LEMMA EnCursoTipo ==
    ASSUME NEW k, NEW r \in Row \cup {Null}, Vence(k) \in Nat
    PROVE  /\ r # Null => Mismo(r, EnCurso(k, r))
           /\ r = Null => EnCurso(k, r) = Null \/ (EnCurso(k, r) \in Row /\ Fuera(EnCurso(k, r)))
BY DEF EnCurso, Mismo, Fuera, Row

LEMMA ConVeredictoTipo ==
    ASSUME NEW k, NEW r \in Row
    PROVE  Mismo(r, ConVeredicto(k, r)) /\ ConVeredicto(k, r).status = r.status
BY EvaluaTipo DEF ConVeredicto, Mismo, Row

LEMMA ReemplazaTipo ==
    ASSUME NEW r \in Row
    PROVE  Mismo(r, Reemplaza(r)) /\ Reemplaza(r).status = "superseded"
BY DEF Reemplaza, Mismo, Row

LEMMA AvanzaTipo ==
    ASSUME NEW k, NEW r \in Row
    PROVE  Mismo(r, Avanza(k, r))
<1>1. Mismo(r, SinVeredicto(r))
  BY DEF SinVeredicto, Mismo, Row
<1>2. Mismo(r, CierraPorDefensa(k, r))
  <2>1. \A s, v : /\ s \in {"cumplido", "superseded", "no_cumplido"}
                  /\ v \in Veredictos \cup {Null}
                  => Mismo(r, [r EXCEPT !.status = s, !.verdict = v])
    BY DEF Mismo, Row
  <2> QED
    BY <2>1, EvaluaTipo DEF CierraPorDefensa, Veredictos
<1>3. \A s : Mismo(r, s) => Mismo(r, Reemplaza(s))
  BY ReemplazaTipo DEF Mismo
<1> QED
  BY <1>1, <1>2, <1>3, ConVeredictoTipo DEF Avanza, Mismo

LEMMA SobrepasaTipo ==
    ASSUME NEW k, NEW r \in Row
    PROVE  Mismo(r, Sobrepasa(k, r))
<1>1. Mismo(r, Reemplaza(ConVeredicto(k, r)))
  BY ConVeredictoTipo, ReemplazaTipo DEF Mismo
<1> QED
  BY <1>1 DEF Sobrepasa, Mismo

LEMMA VencidoTipo ==
    ASSUME NEW k, NEW r \in Row
    PROVE  Mismo(r, Vencido(k, r))
<1>1. \A s : s \in {"expired", "active"} =>
        Mismo(r, [ConVeredicto(k, r) EXCEPT !.status = s])
  BY ConVeredictoTipo DEF Mismo, Row
<1> QED
  BY <1>1 DEF Vencido, Mismo

LEMMA RejuzgaTipo ==
    ASSUME NEW k, NEW r \in Row, Vence(k) \in Nat
    PROVE  Mismo(r, Rejuzga(k, r))
<1>1. \A v, w : v \in Veredictos \cup {Null} /\ w \in Veredictos \cup {Null}
        => Mejor(v, w) \in Veredictos \cup {Null}
  BY DEF Mejor
<1>2. \A v : v \in Veredictos \cup {Null} => Mismo(r, [r EXCEPT !.verdict = v])
  BY DEF Mismo, Row
<1>3. Mismo(r, [r EXCEPT !.verdict = Mejor(@, IF ATiempo(k) THEN "cumplido" ELSE Evalua(k, r))])
  <2>1. (IF ATiempo(k) THEN "cumplido" ELSE Evalua(k, r)) \in Veredictos \cup {Null}
    BY EvaluaTipo DEF Veredictos
  <2>2. r.verdict \in Veredictos \cup {Null}
    BY DEF Row
  <2> QED
    BY <1>1, <1>2, <2>1, <2>2
<1>4. Mismo(r, [r EXCEPT !.due = Vence(k), !.status = "cumplido", !.verdict = "cumplido"])
  BY DEF Mismo, Row, Veredictos
<1>5. Mismo(r, [r EXCEPT !.due = Vence(k)])
  BY DEF Mismo, Row
<1> QED
  BY <1>3, <1>4, <1>5 DEF Rejuzga, Mismo

\* A recomputation keeps the type of a row, and what people wrote in it.
LEMMA Pasos4y5Tipo ==
    ASSUME NEW k, NEW r \in Row \cup {Null}, Vence(k) \in Nat
    PROVE  /\ r # Null => Mismo(r, Pasos4y5(k, r))
           /\ r = Null => Pasos4y5(k, r) = Null \/ (Pasos4y5(k, r) \in Row /\ Fuera(Pasos4y5(k, r)))
<1> DEFINE e == EnCurso(k, r)
<1>1. ASSUME e \in Row PROVE Mismo(e, Pasos4y5(k, r))
  <2>1. Mismo(e, Avanza(k, e))
    BY <1>1, AvanzaTipo
  <2>2. Mismo(Avanza(k, e), Sobrepasa(k, Avanza(k, e)))
    BY <2>1, SobrepasaTipo DEF Mismo
  <2> QED
    BY <1>1, <2>1, <2>2 DEF Pasos4y5, Mismo
<1>2. ASSUME e = Null PROVE Pasos4y5(k, r) = Null
  BY <1>2 DEF Pasos4y5, Avanza, Sobrepasa
<1> QED
  BY <1>1, <1>2, EnCursoTipo DEF Mismo, Fuera

LEMMA FilaTipo ==
    ASSUME NEW k, NEW r \in Row \cup {Null}, Vence(k) \in Nat
    PROVE  /\ r # Null => Mismo(r, Fila(k, r))
           /\ r = Null => Fila(k, r) = Null \/ (Fila(k, r) \in Row /\ Fuera(Fila(k, r)))
<1> DEFINE q == Pasos4y5(k, r)
<1>1. r # Null => Mismo(r, Rejuzga(k, EnCurso(k, r)))
  BY EnCursoTipo, RejuzgaTipo DEF Mismo
<1>2. q \in Row => Mismo(q, Vencido(k, q))
  BY VencidoTipo
<1>3. q = Null => Vencido(k, q) = Null
  BY DEF Vencido
<1> QED
  BY <1>1, <1>2, <1>3, Pasos4y5Tipo DEF Fila, Mismo, Fuera

LEMMA VencidaTipo ==
    ASSUME NEW k, NEW r \in Row
    PROVE  Mismo(r, Vencida(k, r)) /\ Vencida(k, r).status = "expired"
<1> DEFINE s == [ConVeredicto(k, r) EXCEPT !.status = "expired"]
<1>1. Mismo(r, s) /\ s.status = "expired"
  BY ConVeredictoTipo DEF Mismo, Row
<1> QED
  BY <1>1 DEF Vencida, Vencido

\* A manual plazo is left alone, or expires.
LEMMA ManualQueda ==
    ASSUME NEW k, NEW r \in Row, r.manual
    PROVE  /\ Fila(k, r) = r /\ Pasos4y5(k, r) = r
           /\ Vencida(k, r) = [r EXCEPT !.status = "expired"]
<1>1. r # Null
  BY NullAssumption
<1>2. EnCurso(k, r) = r /\ Pasos4y5(k, r) = r /\ ~Corregible(k, r)
  BY <1>1, Pasos4y5Respetan
<1>3. Vencido(k, r) = r
  BY DEF Vencido
<1>4. ConVeredicto(k, r) = r
  BY DEF ConVeredicto
<1>5. Vencida(k, r) = [r EXCEPT !.status = "expired"]
  <2>1. [r EXCEPT !.status = "expired"].status # "active"
    BY DEF Row
  <2> QED
    BY <1>4, <2>1 DEF Vencida, Vencido
<1> QED
  BY <1>2, <1>3, <1>5 DEF Fila

\* The columns the engine writes, and what it writes in them.
Estados == {"active", "superseded", "expired", "cumplido", "no_cumplido"}
CambiosBien(x) ==
    /\ DOMAIN x \subseteq {"due", "status", "verdict"}
    /\ "due" \in DOMAIN x => x["due"] \in Nat
    /\ "status" \in DOMAIN x => x["status"] \in Estados
    /\ "verdict" \in DOMAIN x => x["verdict"] \in Veredictos \cup {Null}
\* A manual plazo only expires.
CambioManual(r, x) ==
    r.manual => DOMAIN x \subseteq {"status"} /\ ("status" \in DOMAIN x => x["status"] = "expired")

\* A manual plazo is dated by its request, and is not superseded.
ManualBien(k, r) == r.manual => r.due = k[2] + Termino[k[1]] /\ r.status # "superseded"

\* Every row has its type.
Filas ==
    /\ plazos \in [Claves -> Row \cup {Null}]
    /\ \A k \in Claves : plazos[k] # Null => ManualBien(k, plazos[k])
CasoTipo ==
    /\ caso.semaforo \in Colores /\ caso.override \in Colores \cup {Null}
    /\ pedido \in Colores \cup {Null}
\* What a unit of work writes has the type of what it writes over.
TxTipo(t) ==
    /\ DOMAIN t.nuevas \subseteq Claves
    /\ \A k \in DOMAIN t.nuevas : t.nuevas[k] \in Row /\ Fuera(t.nuevas[k])
    /\ \A k \in Claves : k \in DOMAIN t.cambia =>
         plazos[k] # Null /\ CambiosBien(t.cambia[k]) /\ CambioManual(plazos[k], t.cambia[k])
    /\ "semaforo" \in DOMAIN t.caso => t.caso["semaforo"] \in Colores

TInv == Filas /\ CasoTipo /\ IF tx = Null THEN despues = {} ELSE TxTipo(tx)

LEMMA SobreTipo ==
    ASSUME NEW r \in Row, NEW x, CambiosBien(x)
    PROVE  /\ Mismo(r, Sobre(x, r))
           /\ \A k : ManualBien(k, r) /\ CambioManual(r, x) => ManualBien(k, Sobre(x, r))
<1> DEFINE s == Sobre(x, r)
<1>1. s = [c \in Columns |-> IF c \in DOMAIN x THEN x[c] ELSE r[c]]
  BY DEF Sobre, Row, Columns
<1>2. /\ s.due = IF "due" \in DOMAIN x THEN x["due"] ELSE r.due
      /\ s.status = IF "status" \in DOMAIN x THEN x["status"] ELSE r.status
      /\ s.verdict = IF "verdict" \in DOMAIN x THEN x["verdict"] ELSE r.verdict
      /\ s.manual = r.manual /\ s.marcada = r.marcada
  BY <1>1 DEF CambiosBien, Columns
<1>3. s = [due |-> s.due, status |-> s.status, manual |-> s.manual,
           marcada |-> s.marcada, verdict |-> s.verdict]
  BY <1>1 DEF Columns
<1> HIDE DEF s
<1>4. s.due \in Nat /\ s.status \in Estados /\ s.verdict \in Veredictos \cup {Null}
      /\ s.manual \in BOOLEAN /\ s.marcada \in BOOLEAN
  BY <1>2 DEF Row, CambiosBien, Estados
<1>5. Mismo(r, s)
  BY <1>2, <1>3, <1>4 DEF Mismo, Row, Estados
<1>6. \A k : ManualBien(k, r) /\ CambioManual(r, x) => ManualBien(k, s)
  BY <1>2 DEF ManualBien, CambioManual
<1> QED
  BY <1>5, <1>6 DEF s

LEMMA CambiosTipo ==
    ASSUME NEW r \in Row, NEW s, Mismo(r, s),
           r.manual => s = r \/ s = [r EXCEPT !.status = "expired"]
    PROVE  CambiosBien(Cambios(r, s)) /\ CambioManual(r, Cambios(r, s))
<1> DEFINE x == Cambios(r, s)
<1>1. DOMAIN x = {c \in Columns : s[c] # r[c]} /\ \A c \in DOMAIN x : x[c] = s[c]
  BY DEF Cambios, Mismo, Row, Columns
<1>2. s["manual"] = r["manual"] /\ s["marcada"] = r["marcada"]
  BY DEF Mismo
<1>3. s["due"] \in Nat /\ s["status"] \in Estados /\ s["verdict"] \in Veredictos \cup {Null}
  BY DEF Mismo, Row, Estados
<1> HIDE DEF x
<1>4. CambiosBien(x)
  BY <1>1, <1>2, <1>3 DEF CambiosBien, Columns
<1>5. ASSUME r.manual
      PROVE  DOMAIN x \subseteq {"status"} /\ ("status" \in DOMAIN x => x["status"] = "expired")
  <2>1. \A c \in Columns : c # "status" => s[c] = r[c]
    BY <1>5 DEF Columns, Row
  <2>2. s["status"] = r["status"] \/ s["status"] = "expired"
    BY <1>5 DEF Columns, Row
  <2> QED
    BY <1>1, <2>1, <2>2
<1> QED
  BY <1>4, <1>5 DEF x, CambioManual

LEMMA RecalculoTipo ==
    ASSUME NEW x, NEW p \in Recalculos(x), NEW k \in Claves, x[k] \in Row \cup {Null},
           \A m \in movs : m.dia \in Nat
    PROVE  /\ x[k] = Null => p[k] = Null \/ (p[k] \in Row /\ Fuera(p[k]))
           /\ x[k] # Null => /\ Mismo(x[k], p[k])
                             /\ x[k].manual => \/ p[k] = x[k]
                                               \/ p[k] = [x[k] EXCEPT !.status = "expired"]
<1> DEFINE r == x[k]
           q == Pasos4y5(k, r)
<1>1. Vence(k) \in Nat
  BY VenceTipo
<1>2. /\ r # Null => Mismo(r, q)
      /\ r = Null => q = Null \/ (q \in Row /\ Fuera(q))
  BY <1>1, Pasos4y5Tipo
<1>3. CASE p[k] = Fila(k, r)
  BY <1>1, <1>3, FilaTipo, ManualQueda
<1>4. CASE q # Null /\ p[k] = Vencida(k, q)
  <2>1. q \in Row
    BY <1>2, <1>4 DEF Mismo
  <2>2. Mismo(q, p[k])
    BY <1>4, <2>1, VencidaTipo
  <2>3. r # Null => Mismo(r, p[k])
    BY <1>2, <2>2 DEF Mismo
  <2>4. r = Null => p[k] \in Row /\ Fuera(p[k])
    BY <1>2, <1>4, <2>2 DEF Mismo, Fuera
  <2>5. r # Null /\ r.manual => p[k] = [r EXCEPT !.status = "expired"]
    BY <1>4, ManualQueda
  <2> QED
    BY <2>3, <2>4, <2>5
<1> QED
  BY <1>3, <1>4, FilasDelRecalculo

LEMMA ColorTipo == ASSUME NEW p PROVE Color(p) \in Colores
BY DEF Color, Colores

LEMMA TrabajoTipo ==
    ASSUME Formas, Filas, CasoTipo, NEW p \in Recalculos(plazos)
    PROVE  TxTipo(Trabajo(p))
<1> DEFINE t == Trabajo(p)
<1>1. /\ t.nuevas = [k \in {l \in Claves : plazos[l] = Null /\ p[l] # Null} |-> p[k]]
      /\ t.cambia = [k \in {l \in Claves : plazos[l] # Null /\ p[l] # plazos[l]} |->
                       Cambios(plazos[k], p[k])]
      /\ t.caso = Cambios(caso, Columna(p, caso))
  BY DEF Trabajo
<1> HIDE DEF t
<1>2. \A m \in movs : m.dia \in Nat
  BY DEF Formas
<1>3. ASSUME NEW k \in Claves
      PROVE  /\ plazos[k] = Null => p[k] = Null \/ (p[k] \in Row /\ Fuera(p[k]))
             /\ plazos[k] # Null => CambiosBien(Cambios(plazos[k], p[k]))
                                    /\ CambioManual(plazos[k], Cambios(plazos[k], p[k]))
  <2>1. plazos[k] \in Row \cup {Null}
    BY DEF Filas
  <2>2. /\ plazos[k] = Null => p[k] = Null \/ (p[k] \in Row /\ Fuera(p[k]))
        /\ plazos[k] # Null => /\ Mismo(plazos[k], p[k])
                               /\ plazos[k].manual =>
                                    \/ p[k] = plazos[k]
                                    \/ p[k] = [plazos[k] EXCEPT !.status = "expired"]
    BY <1>2, <2>1, RecalculoTipo
  <2> QED
    BY <2>1, <2>2, CambiosTipo
<1>4. "semaforo" \in DOMAIN t.caso => t.caso["semaforo"] \in Colores
  <2>1. DOMAIN Columna(p, caso) = Columnas
        /\ Columna(p, caso)["semaforo"] = IF Liberada(caso) THEN caso.override ELSE Color(p)
    BY DEF Columna, Columnas
  <2>2. \A c \in DOMAIN t.caso : t.caso[c] = Columna(p, caso)[c]
    BY <1>1, <2>1 DEF Cambios
  <2>3. Liberada(caso) => caso.override \in Colores
    BY DEF Liberada, CasoTipo
  <2> QED
    BY <2>1, <2>2, <2>3, ColorTipo
<1>5. DOMAIN t.nuevas \subseteq Claves /\ \A k \in DOMAIN t.nuevas : t.nuevas[k] \in Row /\ Fuera(t.nuevas[k])
  BY <1>1, <1>3
<1>6. \A k \in Claves : k \in DOMAIN t.cambia =>
        plazos[k] # Null /\ CambiosBien(t.cambia[k]) /\ CambioManual(plazos[k], t.cambia[k])
  BY <1>1, <1>3
<1> QED
  BY <1>4, <1>5, <1>6 DEF TxTipo, t

LEMMA EscribeTipo ==
    ASSUME Formas, Filas, CasoTipo, NEW t, NEW d, TxTipo(t), CasoDe(t, d), Escribe(t),
           pedido' = pedido
    PROVE  /\ Filas' /\ CasoTipo'
           /\ \A k \in Claves : plazos[k] # Null /\ k \notin DOMAIN t.nuevas => Mismo(plazos[k], plazos'[k])
<1>1. /\ plazos' = [k \in Claves |-> IF k \in DOMAIN t.nuevas THEN t.nuevas[k]
                                    ELSE IF k \in DOMAIN t.cambia THEN Sobre(t.cambia[k], plazos[k])
                                    ELSE plazos[k]]
      /\ caso' = Sobre(t.caso, caso)
  BY DEF Escribe
<1>2. ASSUME NEW k \in Claves
      PROVE  /\ plazos'[k] \in Row \cup {Null}
             /\ plazos'[k] # Null => ManualBien(k, plazos'[k])
             /\ plazos[k] # Null /\ k \notin DOMAIN t.nuevas => Mismo(plazos[k], plazos'[k])
  <2>1. CASE k \in DOMAIN t.nuevas
    BY <1>1, <2>1 DEF TxTipo, Fuera, ManualBien
  <2>2. CASE k \notin DOMAIN t.nuevas /\ k \in DOMAIN t.cambia
    <3>1. /\ plazos[k] \in Row /\ ManualBien(k, plazos[k])
          /\ CambiosBien(t.cambia[k]) /\ CambioManual(plazos[k], t.cambia[k])
      BY <2>2 DEF TxTipo, Filas
    <3>2. plazos'[k] = Sobre(t.cambia[k], plazos[k])
      BY <1>1, <2>2
    <3>3. Mismo(plazos[k], plazos'[k]) /\ ManualBien(k, plazos'[k])
      BY <3>1, <3>2, SobreTipo
    <3> QED
      BY <3>3 DEF Mismo
  <2>3. CASE k \notin DOMAIN t.nuevas /\ k \notin DOMAIN t.cambia
    BY <1>1, <2>3 DEF Filas, Mismo
  <2> QED
    BY <2>1, <2>2, <2>3
<1>3. Filas'
  BY <1>1, <1>2 DEF Filas, ManualBien
<1>4. CasoTipo'
  <2>1. \A c \in {"semaforo", "override"} :
          caso'[c] = IF c \in DOMAIN t.caso THEN t.caso[c] ELSE caso[c]
    BY <1>1 DEF Sobre, Formas, Columnas
  <2> QED
    BY <2>1 DEF CasoTipo, TxTipo, CasoDe
<1> QED
  BY <1>2, <1>3, <1>4

\* The unit of work of a sync in progress fits the rows as others leave them.
LEMMA TxTipoSigue ==
    ASSUME TxTipo(tx), tx' = tx,
           \A k \in Claves : plazos[k] # Null => plazos'[k] # Null /\ plazos'[k].manual = plazos[k].manual
    PROVE  TxTipo(tx)'
BY DEF TxTipo, CambioManual

-----------------------------------------------------------------------------
(* Close and verdict *)

\* What a unit of work writes does not contradict itself, but over the rows of
\* d, changed since.
Acuerdo(t, d) ==
    \A k \in Claves :
      /\ k \in DOMAIN t.nuevas => ~Discorde(t.nuevas[k])
      /\ k \in DOMAIN t.cambia /\ k \notin d =>
           (Discorde(Sobre(t.cambia[k], plazos[k])) => Discorde(plazos[k]))

\* No row comes to contradict itself, but those of d.
Encaja(d) ==
    \A k \in Claves : plazos'[k] # Null /\ k \notin d =>
      (Discorde(plazos'[k]) => plazos[k] # Null /\ Discorde(plazos[k]))

LEMMA EnCursoAcorde ==
    ASSUME NEW k, NEW r \in Row \cup {Null}, EnCurso(k, r) # Null, Discorde(EnCurso(k, r))
    PROVE  r # Null /\ Discorde(r)
BY DEF EnCurso, Discorde, Row

LEMMA AvanzaAcorde ==
    ASSUME NEW k, NEW r \in Row, Discorde(Avanza(k, r))
    PROVE  Discorde(r)
<1>1. ~Discorde(CierraPorDefensa(k, r))
  <2>1. \A v : ~Discorde([r EXCEPT !.status = "superseded", !.verdict = v])
    BY DEF Discorde, Row
  <2>2. ~Discorde([r EXCEPT !.status = "cumplido", !.verdict = "cumplido"])
    BY DEF Discorde, Row
  <2>3. ~Discorde([r EXCEPT !.status = "no_cumplido", !.verdict = "fuera_de_plazo"])
    BY DEF Discorde, Row
  <2> QED
    BY <2>1, <2>2, <2>3 DEF CierraPorDefensa
<1>2. \A s \in Row : ~Discorde(Reemplaza(s))
  BY ReemplazaTipo DEF Discorde
<1>3. SinVeredicto(r) \in Row /\ ConVeredicto(k, r) \in Row
  BY ConVeredictoTipo DEF SinVeredicto, Mismo, Row
<1> QED
  BY <1>1, <1>2, <1>3 DEF Avanza

LEMMA SobrepasaAcorde ==
    ASSUME NEW k, NEW r \in Row, Discorde(Sobrepasa(k, r))
    PROVE  Discorde(r)
<1>1. ~Discorde(Reemplaza(ConVeredicto(k, r)))
  BY ConVeredictoTipo, ReemplazaTipo DEF Discorde, Mismo
<1> QED
  BY <1>1 DEF Sobrepasa

LEMMA VencidoAcorde ==
    ASSUME NEW k, NEW r \in Row, Discorde(Vencido(k, r))
    PROVE  Discorde(r)
<1>1. \A s \in {"expired", "active"} : ~Discorde([ConVeredicto(k, r) EXCEPT !.status = s])
  BY ConVeredictoTipo DEF Discorde, Mismo, Row
<1> QED
  BY <1>1 DEF Vencido

LEMMA RejuzgaAcorde ==
    ASSUME NEW k, NEW r \in Row, Corregible(k, r), Discorde(Rejuzga(k, r))
    PROVE  Discorde(r)
<1>1. r.status \in {"superseded", "no_cumplido", "expired"}
  BY DEF Corregible, Definitiva
<1>2. \A v : r.status # "no_cumplido" => ~Discorde([r EXCEPT !.verdict = v])
  BY <1>1 DEF Discorde, Row
<1>3. ~Discorde([r EXCEPT !.due = Vence(k), !.status = "cumplido", !.verdict = "cumplido"])
  BY DEF Discorde, Row
<1>4. Discorde([r EXCEPT !.due = Vence(k)]) => Discorde(r)
  BY DEF Discorde, Row
<1> QED
  BY <1>2, <1>3, <1>4 DEF Rejuzga

LEMMA RecalculoAcorde ==
    ASSUME NEW x, NEW p \in Recalculos(x), NEW k \in Claves, x[k] \in Row \cup {Null},
           \A m \in movs : m.dia \in Nat, p[k] # Null, Discorde(p[k])
    PROVE  x[k] # Null /\ Discorde(x[k])
<1> DEFINE r == x[k]
           e == EnCurso(k, r)
           q == Pasos4y5(k, r)
<1>1. Vence(k) \in Nat
  BY VenceTipo
<1>2. e \in Row \/ (r = Null /\ e = Null)
  BY <1>1, EnCursoTipo DEF Mismo
<1>3. q \in Row \/ q = Null
  BY <1>1, Pasos4y5Tipo DEF Mismo
<1>4. ASSUME q \in Row, Discorde(q) PROVE r # Null /\ Discorde(r)
  <2>1. CASE e \in Row
    <3>1. Avanza(k, e) \in Row
      BY <2>1, AvanzaTipo DEF Mismo
    <3>2. Discorde(e)
      BY <1>4, <2>1, <3>1, AvanzaAcorde, SobrepasaAcorde DEF Pasos4y5
    <3> QED
      BY <2>1, <3>2, EnCursoAcorde, NullAssumption
  <2>2. CASE e = Null
    BY <1>4, <2>2, NullAssumption DEF Pasos4y5, Avanza, Sobrepasa
  <2> QED
    BY <1>2, <2>1, <2>2
<1>5. CASE p[k] = Fila(k, r)
  <2>1. CASE r # Null /\ Corregible(k, e)
    <3>1. e \in Row /\ Discorde(e)
      BY <1>2, <1>5, <2>1, RejuzgaAcorde DEF Fila
    <3> QED
      BY <2>1, <3>1, EnCursoAcorde, NullAssumption
  <2>2. CASE ~(r # Null /\ Corregible(k, e))
    <3>1. p[k] = Vencido(k, q)
      BY <1>5, <2>2 DEF Fila
    <3>2. q \in Row
      BY <1>3, <3>1 DEF Vencido
    <3>3. Discorde(q)
      BY <3>1, <3>2, VencidoAcorde
    <3> QED
      BY <1>4, <3>2, <3>3
  <2> QED
    BY <2>1, <2>2
<1>6. CASE q # Null /\ p[k] = Vencida(k, q)
  BY <1>3, <1>6, VencidaTipo DEF Discorde
<1> QED
  BY <1>5, <1>6, FilasDelRecalculo

LEMMA TrabajoAcuerdo ==
    ASSUME Formas, Filas, NEW p \in Recalculos(plazos), NEW d
    PROVE  Acuerdo(Trabajo(p), d)
<1> DEFINE t == Trabajo(p)
<1>1. /\ t.nuevas = [k \in {l \in Claves : plazos[l] = Null /\ p[l] # Null} |-> p[k]]
      /\ t.cambia = [k \in {l \in Claves : plazos[l] # Null /\ p[l] # plazos[l]} |->
                       Cambios(plazos[k], p[k])]
  BY DEF Trabajo
<1> HIDE DEF t
<1>2. \A m \in movs : m.dia \in Nat
  BY DEF Formas
<1>3. ASSUME NEW k \in Claves, k \in DOMAIN t.nuevas PROVE ~Discorde(t.nuevas[k])
  <2>1. plazos[k] = Null /\ p[k] # Null /\ t.nuevas[k] = p[k]
    BY <1>1, <1>3
  <2> QED
    BY <1>2, <2>1, RecalculoAcorde
<1>4. ASSUME NEW k \in Claves, k \in DOMAIN t.cambia, Discorde(Sobre(t.cambia[k], plazos[k]))
      PROVE  Discorde(plazos[k])
  <2>1. plazos[k] # Null /\ t.cambia[k] = Cambios(plazos[k], p[k])
    BY <1>1, <1>4
  <2>2. plazos[k] \in Row
    BY <2>1 DEF Filas
  <2>3. p[k] \in Row
    BY <1>2, <2>1, <2>2, RecalculoTipo DEF Mismo
  <2>4. DOMAIN p[k] = DOMAIN plazos[k] /\ p[k] = [c \in DOMAIN p[k] |-> p[k][c]]
    BY <2>2, <2>3 DEF Row
  <2>5. Sobre(t.cambia[k], plazos[k]) = p[k]
    BY <2>1, <2>4, SobreCambios
  <2>6. Discorde(p[k]) /\ p[k] # Null
    BY <1>4, <2>3, <2>5, NullAssumption
  <2> QED
    BY <1>2, <2>2, <2>6, RecalculoAcorde
<1> QED
  BY <1>3, <1>4 DEF Acuerdo, t

LEMMA EscribeEncaja ==
    ASSUME NEW t, NEW d, Acuerdo(t, d), Escribe(t), TxTipo(t)
    PROVE  Encaja(d)
<1>1. \A k \in Claves :
        plazos'[k] = IF k \in DOMAIN t.nuevas THEN t.nuevas[k]
                     ELSE IF k \in DOMAIN t.cambia THEN Sobre(t.cambia[k], plazos[k])
                     ELSE plazos[k]
  BY DEF Escribe
<1> QED
  BY <1>1 DEF Encaja, Acuerdo, TxTipo

LEMMA AcuerdoSigue ==
    ASSUME TxTipo(tx), Acuerdo(tx, despues), tx' = tx,
           \A k \in Claves : k \notin despues' => k \notin despues /\ plazos'[k] = plazos[k]
    PROVE  Acuerdo(tx, despues)'
BY DEF Acuerdo, Sobre, Discorde

-----------------------------------------------------------------------------
(* Types, closes and verdicts through every kind of step *)

VInv == IInv /\ TInv /\ (tx # Null => Acuerdo(tx, despues))

LEMMA InitTipos == Init => TInv /\ (tx # Null => Acuerdo(tx, despues))
<1> SUFFICES ASSUME Init PROVE TInv /\ tx = Null
  OBVIOUS
<1>1. /\ plazos = [k \in Claves |-> Null] /\ pedido = Null /\ tx = Null /\ despues = {}
      /\ caso.semaforo = "gris" /\ caso.override = Null
  BY DEF Init
<1> QED
  BY <1>1 DEF TInv, Filas, CasoTipo, Colores

LEMMA LeeTipos == ASSUME VInv, Lee PROVE VInv' /\ UNCHANGED plazos
<1>1. PICK p \in Recalculos(plazos) : tx' = Trabajo(p)
  BY DEF Lee
<1>2. UNCHANGED <<plazos, caso, pedido>> /\ despues' = {}
  BY DEF Lee
<1>3. TxTipo(Trabajo(p)) /\ Acuerdo(Trabajo(p), {})
  BY TrabajoTipo, TrabajoAcuerdo DEF VInv, IInv, TInv
<1>4. Acuerdo(tx, despues)' /\ TxTipo(tx)'
  BY <1>1, <1>2, <1>3 DEF Acuerdo, TxTipo
<1>5. Filas' /\ CasoTipo'
  BY <1>2 DEF VInv, TInv, Filas, CasoTipo
<1>6. (IF tx = Null THEN despues = {} ELSE TxTipo(tx))'
  BY <1>2, <1>4
<1> QED
  BY <1>2, <1>4, <1>5, <1>6, LeeKeeps DEF VInv, TInv

LEMMA CommitTipos == ASSUME VInv, Commit PROVE VInv' /\ Encaja(despues)
<1>1. Escribe(tx) /\ tx # Null /\ tx' = Null /\ despues' = {} /\ pedido' = pedido
  BY DEF Commit
<1>2. TxTipo(tx) /\ CasoDe(tx, despues) /\ Acuerdo(tx, despues) /\ Formas /\ Filas /\ CasoTipo
  BY <1>1 DEF VInv, IInv, TInv
<1>3. Filas' /\ CasoTipo'
  BY <1>1, <1>2, EscribeTipo
<1>4. Encaja(despues)
  BY <1>1, <1>2, EscribeEncaja
<1>5. IInv'
  BY CommitKeeps DEF VInv
<1> QED
  BY <1>1, <1>3, <1>4, <1>5 DEF VInv, TInv

\* The steps that leave the sync in progress as it was.
LEMMA OtrosTipos ==
    ASSUME VInv, IInv', Filas', CasoTipo', tx' = tx,
           \A k \in Claves : plazos[k] # Null => plazos'[k] # Null /\ plazos'[k].manual = plazos[k].manual,
           Anota \/ UNCHANGED <<plazos, caso, despues>>
    PROVE  VInv'
<1>1. CASE tx = Null
  BY <1>1 DEF VInv, TInv, Anota
<1>2. CASE tx # Null
  <2>1. TxTipo(tx)'
    BY <1>2, TxTipoSigue DEF VInv, TInv
  <2>2. \A k \in Claves : k \notin despues' => k \notin despues /\ plazos'[k] = plazos[k]
    BY <1>2, AnotaSigue
  <2>3. Acuerdo(tx, despues)'
    BY <1>2, <2>2, AcuerdoSigue DEF VInv, TInv
  <2>4. tx' # Null
    BY <1>2
  <2> QED
    BY <2>1, <2>3, <2>4 DEF VInv, TInv
<1> QED
  BY <1>1, <1>2

LEMMA RecalculaTipos == ASSUME VInv, Recalcula PROVE VInv' /\ Encaja(despues)
<1>1. PICK p \in Recalculos(plazos) : Escribe(Trabajo(p))
  BY DEF Recalcula
<1>2. UNCHANGED <<pedido, tx>> /\ Anota
  BY DEF Recalcula
<1>3. Formas /\ Filas /\ CasoTipo
  BY DEF VInv, IInv, TInv
<1>4. TxTipo(Trabajo(p)) /\ CasoDe(Trabajo(p), {}) /\ Acuerdo(Trabajo(p), {})
  BY <1>3, TrabajoTipo, TrabajoBien, TrabajoAcuerdo
<1>5. /\ Filas' /\ CasoTipo'
      /\ \A k \in Claves : plazos[k] # Null /\ k \notin DOMAIN Trabajo(p).nuevas
           => Mismo(plazos[k], plazos'[k])
  BY <1>1, <1>2, <1>3, <1>4, EscribeTipo
<1>6. \A k \in Claves : plazos[k] # Null => k \notin DOMAIN Trabajo(p).nuevas
  BY DEF Trabajo
<1>7. \A k \in Claves : plazos[k] # Null => plazos'[k] # Null /\ plazos'[k].manual = plazos[k].manual
  BY <1>5, <1>6, NullAssumption DEF Mismo
<1>8. Encaja({})
  BY <1>1, <1>4, EscribeEncaja
<1>9. IInv'
  BY RecalculaKeeps DEF VInv
<1>10. VInv'
  BY <1>2, <1>5, <1>7, <1>9, OtrosTipos
<1> QED
  BY <1>8, <1>10 DEF Encaja

LEMMA EstadoTipos ==
    ASSUME VInv, NEW k \in Claves, NEW e \in Auditado \cup {"active"}, update_deadline_status(k, e)
    PROVE  VInv' /\ Encaja({})
<1>1. /\ plazos' = [plazos EXCEPT ![k].status = e, ![k].marcada = TRUE]
      /\ plazos[k] # Null /\ Anota /\ UNCHANGED <<caso, pedido, tx>>
  BY DEF update_deadline_status
<1>2. /\ plazos'[k] = [plazos[k] EXCEPT !.status = e, !.marcada = TRUE]
      /\ \A l \in Claves : l # k => plazos'[l] = plazos[l]
      /\ plazos' = [l \in Claves |-> plazos'[l]]
  BY <1>1 DEF VInv, TInv, Filas
<1>3. plazos[k] \in Row
  BY <1>1 DEF VInv, TInv, Filas
<1>4. /\ plazos'[k] \in Row /\ plazos'[k].manual = plazos[k].manual /\ plazos'[k].marcada
      /\ plazos'[k].due = plazos[k].due /\ plazos'[k].status # "superseded"
  BY <1>2, <1>3 DEF Row, Auditado
<1>5. Filas'
  BY <1>1, <1>2, <1>4 DEF VInv, TInv, Filas, ManualBien
<1>6. CasoTipo'
  BY <1>1 DEF VInv, TInv, CasoTipo
<1>7. \A l \in Claves : plazos[l] # Null => plazos'[l] # Null /\ plazos'[l].manual = plazos[l].manual
  BY <1>2, <1>4, NullAssumption
<1>8. IInv'
  BY EstadoKeeps DEF VInv
<1>9. Encaja({})
  BY <1>2, <1>4 DEF Encaja, Discorde
<1> QED
  BY <1>1, <1>5, <1>6, <1>7, <1>8, <1>9, OtrosTipos

LEMMA ManualTipos ==
    ASSUME VInv, NEW k \in Claves, create_manual_deadline(k)
    PROVE  VInv' /\ Encaja({})
<1> DEFINE r == [due |-> k[2] + Termino[k[1]], status |-> "active", manual |-> TRUE,
                 marcada |-> FALSE, verdict |-> Null]
<1>1. /\ plazos' = [plazos EXCEPT ![k] = r] /\ plazos[k] = Null
      /\ Anota /\ UNCHANGED <<caso, pedido, tx>>
  BY DEF create_manual_deadline
<1>2. k[2] + Termino[k[1]] \in Nat
  BY VenceTipo DEF VInv, IInv, Formas
<1>3. r \in Row /\ r.manual /\ ManualBien(k, r)
  BY <1>2 DEF Row, ManualBien
<1> HIDE DEF r
<1>4. /\ plazos'[k] = r /\ \A l \in Claves : l # k => plazos'[l] = plazos[l]
      /\ plazos' = [l \in Claves |-> plazos'[l]]
  BY <1>1 DEF VInv, TInv, Filas
<1>5. Filas'
  BY <1>3, <1>4 DEF VInv, TInv, Filas, ManualBien
<1>6. CasoTipo'
  BY <1>1 DEF VInv, TInv, CasoTipo
<1>7. \A l \in Claves : plazos[l] # Null => plazos'[l] # Null /\ plazos'[l].manual = plazos[l].manual
  BY <1>1, <1>4
<1>8. IInv'
  BY ManualKeeps DEF VInv
<1>9. Encaja({})
  BY <1>3, <1>4 DEF Encaja, Discorde
<1> QED
  BY <1>1, <1>5, <1>6, <1>7, <1>8, <1>9, OtrosTipos

LEMMA AprobarTipos == ASSUME VInv, aprobar_liberacion PROVE VInv' /\ UNCHANGED plazos
<1>1. /\ caso' = [caso EXCEPT !.semaforo = pedido, !.override = pedido, !.override_at = hoy]
      /\ pedido # Null /\ pedido' = Null /\ Anota /\ UNCHANGED <<plazos, tx>>
  BY DEF aprobar_liberacion
<1>2. caso'.semaforo = pedido /\ caso'.override = pedido
  BY <1>1 DEF VInv, IInv, Formas, Columnas
<1>3. CasoTipo' /\ Filas'
  BY <1>1, <1>2 DEF VInv, TInv, CasoTipo, Filas
<1>4. IInv'
  BY AprobarKeeps DEF VInv
<1> QED
  BY <1>1, <1>3, <1>4, OtrosTipos

LEMMA QuietosTipos ==
    ASSUME VInv,
           \/ \E c \in Destinos : crear_liberacion(c)
           \/ rechazar_liberacion \/ PasaDia
           \/ \E m \in [clase : Clases, dia : Dias] : Publica(m)
           \/ \E d \in Dias : RecibeEscrito(d)
           \/ UNCHANGED vars
    PROVE  VInv' /\ UNCHANGED plazos
<1>1. UNCHANGED <<plazos, caso, tx, despues>> /\ pedido' \in Colores \cup {Null}
  BY DestinosAssumption DEF VInv, TInv, CasoTipo, crear_liberacion, rechazar_liberacion, PasaDia,
     Publica, RecibeEscrito, vars, evidencia
<1>2. CasoTipo' /\ Filas'
  BY <1>1 DEF VInv, TInv, CasoTipo, Filas
<1>3. IInv'
  BY QuietosKeep DEF VInv
<1> QED
  BY <1>1, <1>2, <1>3, OtrosTipos

LEMMA NextTipos == ASSUME VInv, [Next]_vars PROVE VInv' /\ Encaja(despues)
<1>1. UNCHANGED plazos \/ Encaja({}) => Encaja(despues)
  BY DEF Encaja
<1>2. CASE Lee
  BY <1>1, <1>2, LeeTipos
<1>3. CASE Commit
  BY <1>3, CommitTipos
<1>4. CASE Aborta
  <2>1. tx' = Null /\ despues' = {} /\ UNCHANGED <<plazos, caso, pedido>>
    BY <1>4 DEF Aborta
  <2>2. Filas' /\ CasoTipo'
    BY <2>1 DEF VInv, TInv, Filas, CasoTipo
  <2> QED
    BY <1>1, <1>4, <2>1, <2>2, AbortaKeeps DEF VInv, TInv
<1>5. CASE Recalcula
  BY <1>5, RecalculaTipos
<1>6. CASE \E k \in Claves : \/ \E s \in Auditado \cup {"active"} : update_deadline_status(k, s)
                            \/ create_manual_deadline(k)
  BY <1>1, <1>6, EstadoTipos, ManualTipos
<1>7. CASE aprobar_liberacion
  BY <1>1, <1>7, AprobarTipos
<1>8. CASE \/ \E c \in Destinos : crear_liberacion(c)
           \/ rechazar_liberacion \/ PasaDia
           \/ \E m \in [clase : Clases, dia : Dias] : Publica(m)
           \/ \E d \in Dias : RecibeEscrito(d)
           \/ UNCHANGED vars
  BY <1>1, <1>8, QuietosTipos
<1> QED
  BY <1>2, <1>3, <1>4, <1>5, <1>6, <1>7, <1>8 DEF Next

-----------------------------------------------------------------------------
(* Late evidence *)

\* A row of the engine that agrees with its close.
Propia(r) == r \in Row /\ Fuera(r) /\ ~Discorde(r)

\* What one recomputation does with a row whose defence is shown in time: a miss
\* remains only where it closed an expired one, and nothing is left expired.
LEMMA Repara ==
    ASSUME NEW k \in Claves, k[1] = "excepciones", lado = "demandado", HayDefensa, ATiempo(k),
           Vence(k) \in Nat, NEW r, r = Null \/ Propia(r), Fila(k, r) # Null
    PROVE  /\ Fila(k, r).status # "expired"
           /\ r = Null \/ r.status # "expired" => Fila(k, r).verdict \notin Fallos
<1> DEFINE e == EnCurso(k, r)
           x == Fila(k, r)
           a == Avanza(k, e)
<1>1. CASE e = Null
  <2>1. r = Null
    BY <1>1, EnCursoTipo, NullAssumption DEF Propia, Mismo
  <2> QED
    BY <1>1, <2>1 DEF Fila, Pasos4y5, Avanza, Sobrepasa, Vencido
<1>2. ASSUME e # Null PROVE e \in Row /\ ~e.manual /\ (Disparo(k[1]) # k[2] => e = r /\ r # Null)
  BY <1>2, EnCursoTipo, NullAssumption DEF Propia, Mismo, Fuera, EnCurso
<1>3. "cumplido" \notin Fallos /\ Null \notin Fallos
  BY NullAssumption DEF Fallos, Veredictos
<1>4. ASSUME e # Null, e.status = "active"
      PROVE  x.status # "expired" /\ x.verdict \notin Fallos
  <2>1. Viva(k, e) /\ ~Corregible(k, e)
    BY <1>2, <1>4 DEF Viva, Corregible, Definitiva
  <2>2. CASE Disparo(k[1]) \in {Null, k[2]}
    <3>1. a = CierraPorDefensa(k, e)
      BY <1>4, <2>1, <2>2 DEF Avanza
    <3>2. a.status \in {"cumplido", "superseded"} /\ a.verdict = "cumplido"
      BY <1>2, <1>4, <3>1 DEF CierraPorDefensa, Row
    <3>3. x = a
      BY <2>1, <3>2 DEF Fila, Pasos4y5, Sobrepasa, Vencido
    <3> QED
      BY <1>3, <3>2, <3>3
  <2>3. CASE Disparo(k[1]) \notin {Null, k[2]}
    <3>1. a = Reemplaza(SinVeredicto(e))
      BY <1>4, <2>1, <2>3 DEF Avanza
    <3>2. a.status = "superseded" /\ a.verdict = Null
      BY <1>2, <1>4, <3>1 DEF Reemplaza, SinVeredicto, Row
    <3>3. x = a
      BY <2>1, <3>2 DEF Fila, Pasos4y5, Sobrepasa, Vencido
    <3> QED
      BY <1>3, <3>2, <3>3
  <2> QED
    BY <2>2, <2>3
<1>5. ASSUME e # Null, e.status # "active"
      PROVE  /\ r # Null /\ e = r
             /\ Disparo(k[1]) = k[2] => r.status \in Auditado
  BY <1>2, <1>5 DEF EnCurso, Row, Propia, Fuera
<1>6. ASSUME e # Null, r # Null, e = r, r.status = "expired"
      PROVE  x.status # "expired"
  <2>1. Viva(k, r) /\ ~Corregible(k, r) /\ r \in Row /\ Disparo(k[1]) # k[2]
    BY <1>5, <1>6 DEF Viva, Corregible, Definitiva, Propia, Fuera, Auditado
  <2>2. a.status = "superseded"
    <3>1. \A s \in Row : Reemplaza(s).status = "superseded"
      BY ReemplazaTipo
    <3>2. ConVeredicto(k, r) \in Row /\ SinVeredicto(r) \in Row
      BY <2>1, ConVeredictoTipo DEF Mismo, SinVeredicto, Row
    <3> QED
      BY <1>6, <2>1, <3>1, <3>2 DEF Avanza
  <2>3. x = a
    BY <1>6, <2>1, <2>2 DEF Fila, Pasos4y5, Sobrepasa, Vencido
  <2> QED
    BY <2>2, <2>3
<1>7. ASSUME e # Null, r # Null, e = r, r.status \in {"superseded", "cumplido", "no_cumplido"}
      PROVE  x.status # "expired" /\ x.verdict \notin Fallos
  <2>1. r \in Row /\ Fuera(r) /\ ~Discorde(r)
    BY <1>7 DEF Propia
  <2>2. CASE Corregible(k, r)
    <3>1. x = Rejuzga(k, r) /\ r.verdict \in Fallos
      BY <1>7, <2>2 DEF Fila, Corregible, Definitiva
    <3>2. CASE r.status = "no_cumplido"
      <4>1. r.verdict = "fuera_de_plazo"
        BY <2>1, <3>2 DEF Discorde, Fuera
      <4>2. x = [r EXCEPT !.due = Vence(k), !.status = "cumplido", !.verdict = "cumplido"]
        BY <3>1, <3>2, <4>1 DEF Rejuzga
      <4> QED
        BY <1>3, <2>1, <4>2 DEF Row
    <3>3. CASE r.status # "no_cumplido"
      <4>1. Mejor(r.verdict, "cumplido") = "cumplido"
        <5>1. \A v \in Fallos : Rango["cumplido"] > Rango[v]
          BY DEF Rango, Fallos
        <5>2. "cumplido" # Null
          BY NullAssumption DEF Veredictos
        <5> QED
          BY <3>1, <5>1, <5>2 DEF Mejor
      <4>2. x = [r EXCEPT !.verdict = "cumplido"]
        BY <3>1, <3>3, <4>1 DEF Rejuzga
      <4> QED
        BY <1>3, <1>7, <2>1, <4>2 DEF Row
    <3> QED
      BY <3>2, <3>3
  <2>3. CASE ~Corregible(k, r)
    <3>1. x = r
      BY <1>7, <2>3 DEF Fila, Pasos4y5, Avanza, Viva, Sobrepasa, Vencido
    <3>2. r.status = "cumplido" => r.verdict = "cumplido"
      BY <2>1 DEF Discorde, Fuera
    <3>3. r.status \in {"superseded", "no_cumplido"} => r.verdict \notin Fallos
      BY <2>1, <2>3 DEF Corregible, Fuera
    <3> QED
      BY <1>3, <1>7, <3>1, <3>2, <3>3
  <2> QED
    BY <2>2, <2>3
<1>8. CASE e # Null
  <2>1. e.status \in Estados
    BY <1>2, <1>8 DEF Row, Estados
  <2> QED
    BY <1>4, <1>5, <1>6, <1>7, <1>8, <2>1 DEF Estados
<1> QED
  BY <1>1, <1>8

LEMMA FilasOnTime == Formas /\ Filas => OnTimeDefenseIsNeverAMiss
<1> SUFFICES ASSUME Formas, Filas, lado = "demandado", HayDefensa,
                    NEW p \in Recalculos(plazos), NEW q \in Recalculos(p), NEW k \in Claves,
                    k[1] = "excepciones", q[k] # Null,
                    ~(plazos[k] # Null /\ Discorde(plazos[k])),
                    q[k].verdict \in Fallos, ~q[k].manual, ~q[k].marcada, ATiempo(k)
             PROVE  FALSE
  BY DEF OnTimeDefenseIsNeverAMiss
<1>1. Vence(k) \in Nat /\ \A m \in movs : m.dia \in Nat
  BY VenceTipo DEF Formas
<1>2. p[k] = Fila(k, plazos[k]) /\ q[k] = Fila(k, p[k])
  BY FilasDelRecalculo
<1>3. plazos[k] \in Row \cup {Null}
  BY DEF Filas
<1>4. /\ plazos[k] = Null => p[k] = Null \/ (p[k] \in Row /\ Fuera(p[k]))
      /\ plazos[k] # Null => Mismo(plazos[k], p[k])
  BY <1>1, <1>3, RecalculoTipo
<1>5. p[k] \in Row \cup {Null}
  BY <1>4 DEF Mismo
<1>6. p[k] # Null => Mismo(p[k], q[k])
  BY <1>1, <1>5, RecalculoTipo
<1>7. p[k] # Null => Fuera(p[k])
  BY <1>6 DEF Mismo, Fuera
<1>8. plazos[k] = Null \/ Propia(plazos[k])
  BY <1>3, <1>4, <1>7, NullAssumption DEF Mismo, Fuera, Propia
<1>9. p[k] = Null \/ Propia(p[k])
  BY <1>1, <1>3, <1>5, <1>7, RecalculoAcorde DEF Propia
<1>10. p[k] # Null => p[k].status # "expired"
  BY <1>1, <1>2, <1>8, Repara
<1> QED
  BY <1>1, <1>2, <1>9, <1>10, Repara

-----------------------------------------------------------------------------
(* A lapsed plazo shows *)

Docket == movs \subseteq [clase : Clases, dia : Dias]

LEMMA NextDocket == ASSUME Docket, [Next]_vars PROVE Docket'
BY DEF Docket, Next, vars, evidencia, Lee, Commit, Aborta, Recalcula, update_deadline_status,
       create_manual_deadline, crear_liberacion, aprobar_liberacion, rechazar_liberacion,
       PasaDia, Publica, RecibeEscrito

\* The state is one some movement reaches.
LEMMA EtapaEs == Etapa \in {Alcance(m.clase) : m \in movs} \cup {0}
<1> DEFINE S == {Alcance(m.clase) : m \in movs} \cup {0}
<1>1. \A c : Alcance(c) \in {0, 2, 3, 4, 9}
  BY DEF Alcance, Avances
<1>2. S \subseteq {0, 2, 3, 4, 9} /\ 0 \in S
  BY <1>1
<1>3. Etapa = Max(S)
  BY DEF Etapa
<1> HIDE DEF S
<1>4. \E x \in S : \A y \in S : x >= y
  <2>1. \A y \in S : y = 0 \/ y = 2 \/ y = 3 \/ y = 4 \/ y = 9
    BY <1>2
  <2>2. CASE 9 \in S
    BY <2>1, <2>2
  <2>3. CASE 9 \notin S /\ 4 \in S
    BY <2>1, <2>3
  <2>4. CASE 9 \notin S /\ 4 \notin S /\ 3 \in S
    BY <2>1, <2>4
  <2>5. CASE 9 \notin S /\ 4 \notin S /\ 3 \notin S /\ 2 \in S
    BY <2>1, <2>5
  <2>6. CASE 9 \notin S /\ 4 \notin S /\ 3 \notin S /\ 2 \notin S
    BY <1>2, <2>1, <2>6
  <2> QED
    BY <2>2, <2>3, <2>4, <2>5, <2>6
<1> QED
  BY <1>3, <1>4 DEF Max, S

LEMMA NotificacionDispara ==
    ASSUME Docket, Etapa = 2
    PROVE  Disparo("excepciones") \in Dias
<1>1. PICK m \in movs : Alcance(m.clase) = 2
  BY EtapaEs
<1>2. m.clase = "notificacion"
  BY <1>1 DEF Alcance, Avances
<1>3. m.dia \in DiasDe({"notificacion"})
  BY <1>2 DEF DiasDe
<1>4. DiasDe({"notificacion"}) \subseteq Dias /\ Dias \subseteq Nat
  BY DEF DiasDe, Docket, Dias
<1>5. Min(DiasDe({"notificacion"})) \in DiasDe({"notificacion"})
  BY <1>3, <1>4, MinimoDeDias
<1>6. Disparo("excepciones") = Min(DiasDe({"notificacion"}))
  BY DEF Disparo, Origen, Avances
<1> QED
  BY <1>4, <1>5, <1>6

\* The row of the plazo in force, lapsed without a defence.
LEMMA FilaVencida ==
    ASSUME NEW k \in Claves, k[1] = "excepciones", Disparo(k[1]) = k[2], ~HayDefensa,
           hoy \in Nat, Vence(k) \in Nat, Vence(k) < hoy, lado = "demandado",
           \A m \in movs : m.dia \in Nat /\ m.dia <= Vence(k),
           NEW r \in Row \cup {Null},
           r # Null => r.status # "cumplido" /\ ManualBien(k, r)
    PROVE  /\ Fila(k, r) # Null
           /\ \/ Fila(k, r).status = "active" /\ Fila(k, r).due < hoy
              \/ Fila(k, r).status \in {"expired", "no_cumplido"}
<1> DEFINE e == EnCurso(k, r)
<1>1. k[2] \in Nat
  BY DEF Claves, Dias
<1>2. ~ATiempo(k)
  BY DEF ATiempo, Pruebas, HayDefensa
<1>3. CASE r # Null /\ r.manual
  <2>1. r \in Row /\ Fila(k, r) = r
    BY <1>3, ManualQueda
  <2>2. r.due = k[2] + Termino[k[1]] /\ r.status \in {"active", "expired", "no_cumplido"}
    BY <1>3, <2>1 DEF ManualBien, Row
  <2>3. r.due <= Vence(k)
    BY <2>2, VenceTipo
  <2>4. r.due < hoy
    <3>1. r.due \in Nat
      BY <2>1 DEF Row
    <3> QED
      BY <2>3, <3>1
  <2> QED
    BY <1>3, <2>1, <2>2, <2>4
<1>4. CASE r = Null \/ (~r.manual /\ r.status \notin Auditado)
  <2>1. e \in Row /\ e.due = Vence(k) /\ e.status = "active" /\ ~e.manual
    BY <1>4 DEF EnCurso, Row
  <2>2. ~Corregible(k, e)
    BY <2>1 DEF Corregible, Definitiva
  <2>3. Avanza(k, e) = e
    BY <1>1, NullAssumption DEF Avanza
  <2>4. Sobrepasa(k, e) = e
    BY <2>1 DEF Sobrepasa
  <2>5. Fila(k, r) = Vencido(k, e)
    BY <2>2, <2>3, <2>4 DEF Fila, Pasos4y5
  <2>6. \A s : [ConVeredicto(k, e) EXCEPT !.status = s].due = e.due
               /\ [ConVeredicto(k, e) EXCEPT !.status = s].status = s
    BY <2>1 DEF ConVeredicto, Row
  <2>7. e # Null /\ e.due < hoy
    BY <2>1, NullAssumption
  <2>8. Vencido(k, e).due = e.due /\ Vencido(k, e).status \in {"expired", "active"}
    BY <2>1, <2>6, <2>7 DEF Vencido
  <2>9. Vencido(k, e) # Null
    BY <2>1, VencidoTipo, NullAssumption DEF Mismo
  <2> QED
    BY <2>5, <2>7, <2>8, <2>9
<1>5. CASE r # Null /\ ~r.manual /\ r.status \in Auditado
  <2>1. r \in Row /\ r.status = "no_cumplido" /\ e = r
    BY <1>5 DEF Auditado, EnCurso
  <2>2. Rejuzga(k, r) \in {r, [r EXCEPT !.due = Vence(k)]}
    BY <1>2, <2>1 DEF Rejuzga
  <2>3. Rejuzga(k, r) # Null /\ Rejuzga(k, r).status = "no_cumplido"
    <3> DEFINE s == [r EXCEPT !.due = Vence(k)]
    <3>1. s \in Row /\ s.status = "no_cumplido"
      BY <2>1 DEF Row
    <3> HIDE DEF s
    <3>2. Rejuzga(k, r) = r \/ Rejuzga(k, r) = s
      BY <2>2 DEF s
    <3> QED
      BY <2>1, <3>1, <3>2, NullAssumption
  <2>4. ~Corregible(k, r) => Fila(k, r) = r
    BY <2>1 DEF Fila, Pasos4y5, Avanza, Viva, Sobrepasa, Vencido
  <2> QED
    BY <1>5, <2>1, <2>3, <2>4 DEF Fila
<1> QED
  BY <1>3, <1>4, <1>5

\* No other row is live.
LEMMA FilaAjena ==
    ASSUME NEW k \in Claves, Disparo(k[1]) \notin {Null, k[2]}, ~HayDefensa,
           lado = "demandado", NEW r \in Row \cup {Null}, r # Null => r.status # "active"
    PROVE  Fila(k, r) = Null \/ Fila(k, r).status # "active"
<1>1. EnCurso(k, r) = r
  BY DEF EnCurso
<1>2. CASE r = Null
  BY <1>1, <1>2 DEF Fila, Pasos4y5, Avanza, Sobrepasa, Vencido
<1>3. CASE r # Null /\ Corregible(k, r)
  <2>1. \A a, v : /\ [r EXCEPT !.verdict = v].status = r.status
                  /\ [r EXCEPT !.due = a].status = r.status
                  /\ [r EXCEPT !.due = a, !.status = "cumplido", !.verdict = v].status = "cumplido"
    BY <1>3 DEF Row
  <2>2. Rejuzga(k, r).status \in {r.status, "cumplido"}
    BY <2>1 DEF Rejuzga
  <2> QED
    BY <1>1, <1>3, <2>2 DEF Fila
<1>4. CASE r # Null /\ ~Corregible(k, r)
  <2>1. Avanza(k, r) \in {r, Reemplaza(SinVeredicto(r))}
    BY <1>4 DEF Avanza
  <2>2. Reemplaza(SinVeredicto(r)).status = "superseded"
    BY <1>4 DEF Reemplaza, SinVeredicto, Row
  <2>3. Fila(k, r) = Avanza(k, r) /\ Avanza(k, r).status # "active"
    BY <1>1, <1>4, <2>1, <2>2 DEF Fila, Pasos4y5, Sobrepasa, Vencido
  <2> QED
    BY <2>3
<1> QED
  BY <1>2, <1>3, <1>4

LEMMA VencidaEsRoja ==
    ASSUME NEW p, NEW k \in Claves, k[1] \in Accionables, Etapa = 2, hoy \in Nat,
           \A l \in Claves : p[l] \in Row \cup {Null}, p[k] # Null,
           \/ p[k].status = "active" /\ p[k].due < hoy
           \/ /\ p[k].status = "expired"
              /\ \A l \in Claves : l[1] \in Accionables => p[l] = Null \/ p[l].status # "active"
    PROVE  Color(p) = "rojo"
<1> DEFINE activas == {l \in Claves : l[1] \in Accionables /\ p[l] # Null /\ p[l].status = "active"}
           vencidas == {l \in Claves : l[1] \in Accionables /\ p[l] # Null /\ p[l].status = "expired"}
           plazo == {p[l].due : l \in activas}
<1>1. CASE p[k].status = "active" /\ p[k].due < hoy
  <2>1. k \in activas /\ p[k].due \in plazo
    BY <1>1
  <2>2. plazo \subseteq Nat
    BY DEF Row
  <2>3. Min(plazo) \in Nat /\ Min(plazo) <= p[k].due /\ p[k].due \in Nat
    BY <2>1, <2>2, MinimoDeDias
  <2>4. Min(plazo) <= hoy + RojoMax
    BY <1>1, <2>3, PlazosAssumption
  <2>5. activas # {}
    BY <2>1
  <2> QED
    BY <2>4, <2>5 DEF Color
<1>2. CASE /\ p[k].status = "expired"
           /\ \A l \in Claves : l[1] \in Accionables => p[l] = Null \/ p[l].status # "active"
  <2>1. activas = {} /\ k \in vencidas
    BY <1>2
  <2>2. vencidas # {}
    BY <2>1
  <2> QED
    BY <2>1, <2>2 DEF Color
<1> QED
  BY <1>1, <1>2

LEMMA FilasLapsed == Formas /\ Filas /\ Docket => LapsedFatalIsRed
<1> DEFINE k == <<"excepciones", Disparo("excepciones")>>
<1> SUFFICES ASSUME Formas, Filas, Docket, lado = "demandado", Etapa = 2, ~HayDefensa,
                    Vence(k) < hoy, \A m \in movs : m.dia <= Vence(k), ~Liberada(caso),
                    \A l \in Claves : IF plazos[l] = Null THEN TRUE
                                      ELSE plazos[l].status # IF l = k THEN "cumplido" ELSE "active",
                    NEW p \in Recalculos(plazos)
             PROVE  Columna(p, caso).semaforo = "rojo" \/ Columna(p, caso).fatal_incumplido
  BY DEF LapsedFatalIsRed
<1>1. Disparo("excepciones") \in Dias /\ Disparo("excepciones") # Null
  <2>1. Disparo("excepciones") \in Dias
    BY NotificacionDispara
  <2> QED
    BY <2>1, NullAssumption DEF Dias
<1>2. k \in Claves /\ k[1] = "excepciones" /\ k[2] = Disparo("excepciones")
  BY <1>1 DEF Claves, Tipos
<1> HIDE DEF k
<1>3. \A m \in movs : m.dia \in Nat
  BY DEF Formas
<1>4. \A l \in Claves : /\ plazos[l] \in Row \cup {Null}
                        /\ plazos[l] # Null => ManualBien(l, plazos[l])
                        /\ p[l] = Fila(l, plazos[l])
  BY FilasDelRecalculo DEF Filas
<1>5. \A l \in Claves : p[l] \in Row \cup {Null}
  BY <1>3, <1>4, RecalculoTipo DEF Mismo
<1>6. /\ p[k] # Null
      /\ \/ p[k].status = "active" /\ p[k].due < hoy
         \/ p[k].status \in {"expired", "no_cumplido"}
  <2>1. Vence(k) \in Nat
    BY <1>2, <1>3, VenceTipo
  <2>2. plazos[k] # Null => plazos[k].status # "cumplido"
    BY <1>2
  <2> QED
    BY <1>2, <1>3, <1>4, <2>1, <2>2, FilaVencida DEF Formas
<1>7. Accionables = {"excepciones"}
  BY DEF Accionables
<1>8. ASSUME NEW l \in Claves, l[1] \in Accionables, l # k
      PROVE  p[l] = Null \/ p[l].status # "active"
  <2>1. l[1] = "excepciones" /\ l[2] # k[2]
    BY <1>2, <1>7, <1>8 DEF Claves
  <2>2. Disparo(l[1]) \notin {Null, l[2]}
    BY <1>1, <1>2, <2>1
  <2>3. plazos[l] # Null => plazos[l].status # "active"
    BY <1>8
  <2> QED
    BY <1>4, <2>2, <2>3, FilaAjena
<1>9. Columna(p, caso).semaforo = Color(p)
  BY DEF Columna
<1>10. CASE p[k].status = "no_cumplido"
  <2>1. Columna(p, caso).fatal_incumplido
        = (\E l \in Claves : /\ l[1] \in Accionables \cap {"excepciones"}
                             /\ p[l] # Null /\ p[l].status = "no_cumplido")
    BY DEF Columna
  <2> QED
    BY <1>2, <1>6, <1>7, <1>10, <2>1
<1>11. CASE p[k].status = "active" /\ p[k].due < hoy
  BY <1>2, <1>5, <1>6, <1>7, <1>9, <1>11, VencidaEsRoja DEF Formas
<1>12. CASE p[k].status = "expired"
  <2>1. \A l \in Claves : l[1] \in Accionables => p[l] = Null \/ p[l].status # "active"
    BY <1>8, <1>12
  <2> QED
    BY <1>2, <1>5, <1>6, <1>7, <1>9, <1>12, <2>1, VencidaEsRoja DEF Formas
<1> QED
  BY <1>6, <1>10, <1>11, <1>12

-----------------------------------------------------------------------------
(* Recomputations settle *)

\* What a recomputation makes of a row, where no plazo is manual.
Paso(k, r) ==
    IF /\ lado = "demandante" /\ Etapa = 2 /\ Oposiciones = {} /\ k[1] = "excepciones"
       /\ Pasos4y5(k, r) # Null /\ Pasos4y5(k, r).status = "active" /\ Pasos4y5(k, r).due < hoy
    THEN Vencida(k, Pasos4y5(k, r))
    ELSE Fila(k, r)
Pasos(x) == [k \in Claves |-> Paso(k, x[k])]

\* A row of the engine, or none.
Automatica(r) == r = Null \/ (r \in Row /\ ~r.manual)

\* It only keeps a plazo active whose trigger is the current one.
LEMMA ActivaEsActual ==
    ASSUME NEW k, NEW r, Automatica(r), Vence(k) \in Nat,
           Pasos4y5(k, r) # Null, Pasos4y5(k, r).status = "active"
    PROVE  Disparo(k[1]) = k[2]
<1> SUFFICES ASSUME Disparo(k[1]) # k[2] PROVE FALSE
  OBVIOUS
<1>1. EnCurso(k, r) = r
  BY DEF EnCurso
<1>2. r \in Row /\ ~r.manual
  BY <1>1 DEF Automatica, Pasos4y5, Avanza, Sobrepasa
<1>3. \A s \in Row : Reemplaza(s).status = "superseded"
  BY ReemplazaTipo
<1>4. ConVeredicto(k, r) \in Row /\ SinVeredicto(r) \in Row
  BY <1>2, ConVeredictoTipo DEF Mismo, SinVeredicto, Row
<1>5. CASE Corregible(k, r)
  BY <1>1, <1>2, <1>5, NullAssumption DEF Pasos4y5, Corregible, Definitiva
<1>6. CASE ~Corregible(k, r) /\ r.status = "active"
  <2>1. Viva(k, r)
    BY <1>2, <1>6 DEF Viva
  <2>2. CierraPorDefensa(k, r).status \in {"superseded", "cumplido", "no_cumplido"}
    BY <1>2 DEF CierraPorDefensa, Row
  <2>3. Avanza(k, r).status # "active"
    BY <1>2, <1>3, <1>4, <2>1, <2>2, NullAssumption DEF Avanza
  <2>4. Pasos4y5(k, r) = Avanza(k, r)
    BY <1>1, <1>6, <2>3 DEF Pasos4y5, Sobrepasa
  <2> QED
    BY <2>3, <2>4
<1>7. CASE ~Corregible(k, r) /\ r.status # "active"
  <2>1. Avanza(k, r).status # "active"
    BY <1>2, <1>3, <1>4, <1>7 DEF Avanza
  <2>2. Pasos4y5(k, r) = Avanza(k, r)
    BY <1>1, <1>7, <2>1 DEF Pasos4y5, Sobrepasa
  <2> QED
    BY <2>1, <2>2
<1> QED
  BY <1>5, <1>6, <1>7

\* So that rebeldia has no choice.
LEMMA RecalculoUnico ==
    ASSUME NEW x, \A k \in Claves : Automatica(x[k]), \A m \in movs : m.dia \in Nat
    PROVE  Recalculos(x) = {Pasos(x)}
<1> DEFINE q == [k \in Claves |-> Pasos4y5(k, x[k])]
           corregibles == {k \in Claves : x[k] # Null /\ Corregible(k, EnCurso(k, x[k]))}
           activas == {k \in Claves : k[1] = "excepciones" /\ q[k] # Null /\ q[k].status = "active"}
           Final(f) == [k \in Claves |-> Pasos6(k, f[k], k \in corregibles)]
           Rebelde(k) == [q EXCEPT ![k] = [ConVeredicto(k, q[k]) EXCEPT !.status = "expired"]]
           sigue == lado # "demandante" \/ Etapa # 2 \/ Oposiciones # {}
<1>1. Recalculos(x) = {Final(f) : f \in Rebeldia(q)}
  BY DEF Recalculos
<1>2. Rebeldia(q) = IF sigue \/ activas = {} THEN {q}
                    ELSE {IF q[k].due < hoy THEN Rebelde(k) ELSE q : k \in activas}
  BY DEF Rebeldia
<1>3. \A k \in Claves : k \in corregibles => q[k] = EnCurso(k, x[k]) /\ q[k].status # "active"
  <2> SUFFICES ASSUME NEW k \in Claves, k \in corregibles
               PROVE  q[k] = EnCurso(k, x[k]) /\ q[k].status # "active"
    OBVIOUS
  <2>1. EnCurso(k, x[k]).status # "active"
    BY DEF Corregible, Definitiva
  <2>2. Sobrepasa(k, Avanza(k, EnCurso(k, x[k]))) = EnCurso(k, x[k])
    BY <2>1 DEF Avanza, Sobrepasa, Viva, Corregible, Definitiva
  <2> QED
    BY <2>1, <2>2 DEF Pasos4y5
<1>4. \A k \in Claves : Final(q)[k] = Fila(k, x[k])
  BY <1>3 DEF Pasos6, Fila
<1>5. \A k \in activas : q[k].due < hoy => Final(Rebelde(k))[k] = Vencida(k, q[k])
  BY <1>3 DEF Pasos6, Vencida
<1>6. \A k \in activas, l \in Claves : l # k => Final(Rebelde(k))[l] = Final(q)[l]
  OBVIOUS
<1>7. \A k, l \in activas : k = l
  <2> SUFFICES ASSUME NEW k \in activas, NEW l \in activas PROVE k = l
    OBVIOUS
  <2>1. Vence(k) \in Nat /\ Vence(l) \in Nat
    BY VenceTipo
  <2>2. Disparo(k[1]) = k[2] /\ Disparo(l[1]) = l[2]
    BY <2>1, ActivaEsActual
  <2> QED
    BY <2>2 DEF Claves
<1>8. \A f : Final(f) = [k \in Claves |-> Final(f)[k]]
  OBVIOUS
<1>9. \A k \in Claves : sigue \/ k \notin activas => Paso(k, x[k]) = Fila(k, x[k])
  BY DEF Paso
<1>10. \A k \in activas : ~sigue => Paso(k, x[k]) = IF q[k].due < hoy THEN Vencida(k, q[k])
                                                    ELSE Fila(k, x[k])
  BY DEF Paso
<1> HIDE DEF Final, q, corregibles, activas, Rebelde, sigue
<1>11. CASE sigue \/ activas = {}
  <2>1. Rebeldia(q) = {q}
    BY <1>2, <1>11
  <2>2. Recalculos(x) = {Final(q)}
    BY <1>1, <2>1
  <2>3. \A k \in Claves : Final(q)[k] = Paso(k, x[k])
    BY <1>4, <1>9, <1>11
  <2>4. Final(q) = Pasos(x)
    BY <1>8, <2>3 DEF Pasos
  <2> QED
    BY <2>2, <2>4
<1>12. CASE ~sigue /\ activas # {}
  <2>1. PICK k \in activas : activas = {k}
    BY <1>7, <1>12
  <2> DEFINE f == IF q[k].due < hoy THEN Rebelde(k) ELSE q
  <2>2. Rebeldia(q) = {f}
    BY <1>2, <1>12, <2>1
  <2>3. ASSUME NEW l \in Claves PROVE Final(f)[l] = Paso(l, x[l])
    <3>1. CASE l = k
      BY <1>4, <1>5, <1>10, <1>12, <2>1, <3>1
    <3>2. CASE l # k
      BY <1>4, <1>6, <1>9, <2>1, <3>2
    <3> QED
      BY <3>1, <3>2
  <2> HIDE DEF f
  <2>4. Recalculos(x) = {Final(f)}
    BY <1>1, <2>2
  <2>5. Final(f) = Pasos(x)
    BY <1>8, <2>3 DEF Pasos
  <2> QED
    BY <2>4, <2>5
<1> QED
  BY <1>11, <1>12

LEMMA PasoTipo ==
    ASSUME NEW k, NEW r, Automatica(r), Vence(k) \in Nat
    PROVE  /\ Automatica(Paso(k, r))
           /\ r # Null => Paso(k, r) # Null /\ Paso(k, r).marcada = r.marcada
<1>1. Pasos4y5(k, r) # Null => Pasos4y5(k, r) \in Row /\ ~Pasos4y5(k, r).manual
                              /\ (r # Null => Pasos4y5(k, r).marcada = r.marcada)
  BY Pasos4y5Tipo DEF Automatica, Mismo, Fuera
<1>2. /\ Automatica(Fila(k, r))
      /\ r # Null => Fila(k, r) # Null /\ Fila(k, r).marcada = r.marcada
  BY FilaTipo, NullAssumption DEF Automatica, Mismo, Fuera
<1>3. Pasos4y5(k, r) # Null =>
        /\ Vencida(k, Pasos4y5(k, r)) \in Row /\ ~Vencida(k, Pasos4y5(k, r)).manual
        /\ r # Null => Vencida(k, Pasos4y5(k, r)).marcada = r.marcada
  BY <1>1, VencidaTipo DEF Mismo
<1> QED
  BY <1>1, <1>2, <1>3, NullAssumption DEF Paso, Automatica

LEMMA MejorIdempotente ==
    ASSUME NEW v \in Veredictos \cup {Null}, NEW w \in Veredictos \cup {Null}
    PROVE  Mejor(Mejor(v, w), w) = Mejor(v, w)
<1>1. \A u \in Veredictos : Rango[u] \in Nat
  BY DEF Rango, Veredictos
<1> QED
  BY <1>1 DEF Mejor

\* A row that is closed: neither live again nor to be advanced.
Cerrada(k, r) ==
    /\ r \in Row /\ ~r.manual /\ ~Viva(k, r)
    /\ r.status \in Auditado \/ (r.status \in {"superseded", "expired"} /\ Disparo(k[1]) # k[2])

LEMMA PasoDeCerrada ==
    ASSUME NEW k, NEW r, Cerrada(k, r)
    PROVE  Paso(k, r) = IF Corregible(k, r) THEN Rejuzga(k, r) ELSE r
<1>1. r \in Row /\ r # Null /\ r.status # "active"
  BY NullAssumption DEF Cerrada, Auditado
<1>2. EnCurso(k, r) = r
  BY <1>1 DEF Cerrada, EnCurso
<1>3. Pasos4y5(k, r) = r
  BY <1>1, <1>2 DEF Pasos4y5, Avanza, Sobrepasa, Cerrada
<1> QED
  BY <1>1, <1>2, <1>3 DEF Paso, Fila, Vencido

LEMMA CerradaFija ==
    ASSUME NEW k, NEW r, Cerrada(k, r), Vence(k) \in Nat
    PROVE  Paso(k, Paso(k, r)) = Paso(k, r)
<1> DEFINE w == IF ATiempo(k) THEN "cumplido" ELSE Evalua(k, r)
<1>1. r \in Row /\ ~r.manual
  BY DEF Cerrada
<1>2. CASE ~Corregible(k, r)
  BY <1>2, PasoDeCerrada
<1>3. CASE Corregible(k, r) /\ r.status = "no_cumplido"
  <2>1. Paso(k, r) = Rejuzga(k, r)
    BY <1>3, PasoDeCerrada
  <2>2. CASE r.verdict # "fuera_de_plazo"
    BY <1>3, <2>1, <2>2 DEF Rejuzga
  <2>3. CASE r.verdict = "fuera_de_plazo" /\ ATiempo(k)
    <3> DEFINE s == [r EXCEPT !.due = Vence(k), !.status = "cumplido", !.verdict = "cumplido"]
    <3>1. Paso(k, r) = s
      BY <1>3, <2>1, <2>3 DEF Rejuzga
    <3>2. s \in Row /\ ~s.manual /\ s.status = "cumplido"
      BY <1>1 DEF Row, Veredictos
    <3> HIDE DEF s
    <3>3. Cerrada(k, s) /\ ~Corregible(k, s)
      BY <3>2 DEF Cerrada, Viva, Auditado, Corregible, Definitiva
    <3> QED
      BY <3>1, <3>3, PasoDeCerrada
  <2>4. CASE r.verdict = "fuera_de_plazo" /\ ~ATiempo(k)
    <3> DEFINE s == [r EXCEPT !.due = Vence(k)]
    <3>1. Paso(k, r) = s
      BY <1>3, <2>1, <2>4 DEF Rejuzga
    <3>2. /\ s \in Row /\ s.manual = r.manual /\ s.status = r.status
          /\ s.verdict = r.verdict /\ s.marcada = r.marcada
      BY <1>1 DEF Row
    <3>3. [s EXCEPT !.due = Vence(k)] = s
      BY <1>1 DEF Row
    <3> HIDE DEF s
    <3>4. Cerrada(k, s) /\ Corregible(k, s)
      BY <1>3, <3>2 DEF Cerrada, Viva, Corregible, Definitiva, Auditado
    <3>5. Rejuzga(k, s) = s
      BY <1>3, <2>4, <3>2, <3>3 DEF Rejuzga
    <3> QED
      BY <3>1, <3>4, <3>5, PasoDeCerrada
  <2> QED
    BY <2>2, <2>3, <2>4
<1>4. CASE Corregible(k, r) /\ r.status # "no_cumplido"
  <2> DEFINE s == [r EXCEPT !.verdict = Mejor(r.verdict, w)]
  <2>1. w \in Veredictos \cup {Null} /\ r.verdict \in Veredictos \cup {Null}
    BY <1>1, EvaluaTipo DEF Veredictos, Row
  <2>2. Mejor(r.verdict, w) \in Veredictos \cup {Null}
    BY <2>1 DEF Mejor
  <2>3. Mejor(Mejor(r.verdict, w), w) = Mejor(r.verdict, w)
    BY <2>1, MejorIdempotente
  <2>4. Rejuzga(k, r) = s
    BY <1>4 DEF Rejuzga
  <2>5. /\ s \in Row /\ s.manual = r.manual /\ s.status = r.status /\ s.marcada = r.marcada
        /\ s.verdict = Mejor(r.verdict, w)
    BY <1>1, <2>2 DEF Row
  <2>6. Evalua(k, s) = Evalua(k, r)
    BY <1>1, <2>5 DEF Evalua, VenceHoy
  <2>7. [s EXCEPT !.verdict = s.verdict] = s
    BY <2>5 DEF Row
  <2> HIDE DEF s
  <2>8. Rejuzga(k, s) = s
    BY <1>4, <2>3, <2>5, <2>6, <2>7 DEF Rejuzga
  <2>9. Cerrada(k, s)
    BY <2>5 DEF Cerrada, Viva, Definitiva
  <2> QED
    BY <1>4, <2>4, <2>8, <2>9, PasoDeCerrada
<1> QED
  BY <1>2, <1>3, <1>4

\* A live row of a trigger that is not the current one is closed.
LEMMA VivaSeCierra ==
    ASSUME NEW k, NEW r \in Row, Viva(k, r), Disparo(k[1]) # k[2]
    PROVE  Cerrada(k, Paso(k, r))
<1> DEFINE a == Avanza(k, r)
<1>1. ~r.manual /\ r # Null /\ EnCurso(k, r) = r /\ ~Corregible(k, r)
  BY NullAssumption DEF Viva, EnCurso, Corregible, Definitiva
<1>2. a \in Row /\ ~a.manual
  BY <1>1, AvanzaTipo DEF Mismo
<1>3. a.status \in {"superseded", "cumplido", "no_cumplido"}
  <2>1. \A s \in Row : Reemplaza(s).status = "superseded"
    BY ReemplazaTipo
  <2>2. ConVeredicto(k, r) \in Row /\ SinVeredicto(r) \in Row
    BY ConVeredictoTipo DEF Mismo, SinVeredicto, Row
  <2>3. CierraPorDefensa(k, r).status \in {"superseded", "cumplido", "no_cumplido"}
    BY DEF CierraPorDefensa, Row
  <2> QED
    BY <1>1, <2>1, <2>2, <2>3 DEF Avanza
<1> HIDE DEF a
<1>4. Pasos4y5(k, r) = a
  BY <1>1, <1>3 DEF Pasos4y5, Sobrepasa, a
<1>5. Paso(k, r) = a
  BY <1>1, <1>3, <1>4 DEF Paso, Fila, Vencido
<1> QED
  BY <1>2, <1>3, <1>5 DEF Cerrada, Viva, Auditado

\* The row of the current trigger starts afresh, whatever it was.
LEMMA ActualFija ==
    ASSUME NEW k, NEW r, Automatica(r), Vence(k) \in Nat, Disparo(k[1]) = k[2],
           r = Null \/ r.status \notin Auditado
    PROVE  \/ Paso(k, Paso(k, r)) = Paso(k, r)
           \/ Cerrada(k, Paso(k, r))
<1> DEFINE Nueva(m) == [due |-> Vence(k), status |-> "active", manual |-> FALSE,
                        marcada |-> m, verdict |-> Null]
           x == Paso(k, r)
<1>1. \A s, m : /\ Automatica(s)
                /\ \/ s = Null /\ m = FALSE
                   \/ s # Null /\ s.status \notin Auditado /\ m = s.marcada
                => EnCurso(k, s) = Nueva(m)
  BY DEF Automatica, EnCurso, Row
<1>2. \A m : ~Corregible(k, Nueva(m))
  BY DEF Corregible, Definitiva
<1>3. \A s, t, m : EnCurso(k, s) = Nueva(m) /\ EnCurso(k, t) = Nueva(m) => Paso(k, s) = Paso(k, t)
  BY <1>2 DEF Paso, Fila, Pasos4y5
<1>4. PICK m : /\ EnCurso(k, r) = Nueva(m)
               /\ IF r = Null THEN m = FALSE ELSE m = r.marcada
  <2>1. CASE r = Null
    <3>1. EnCurso(k, r) = Nueva(FALSE)
      BY <1>1, <2>1
    <3> QED
      BY <2>1, <3>1
  <2>2. CASE r # Null
    <3>1. EnCurso(k, r) = Nueva(r.marcada)
      BY <1>1, <2>2
    <3> QED
      BY <2>2, <3>1
  <2> QED
    BY <2>1, <2>2
<1>5. Automatica(x) /\ (r # Null => x # Null /\ x.marcada = r.marcada)
  BY PasoTipo
<1>6. x # Null => x.marcada = m
  <2>1. r = Null => Fila(k, r) = Null \/ ~Fila(k, r).marcada
    BY FilaTipo DEF Fuera
  <2>2. r = Null => Pasos4y5(k, r) = Null \/ (Pasos4y5(k, r) \in Row /\ ~Pasos4y5(k, r).marcada)
    BY Pasos4y5Tipo DEF Fuera
  <2>3. r = Null => x = Null \/ ~x.marcada
    BY <2>1, <2>2, VencidaTipo DEF Paso, Mismo
  <2>4. x # Null => x.marcada \in BOOLEAN
    BY <1>5 DEF Automatica, Row
  <2> QED
    BY <1>4, <1>5, <2>3, <2>4
<1> HIDE DEF x, Nueva
<1>7. CASE x = Null
  BY <1>5, <1>7 DEF x
<1>8. CASE x # Null /\ x.status \notin Auditado
  <2>1. EnCurso(k, x) = Nueva(m)
    BY <1>1, <1>5, <1>6, <1>8
  <2> QED
    BY <1>3, <1>4, <2>1 DEF x
<1>9. CASE x # Null /\ x.status \in Auditado
  BY <1>5, <1>9 DEF x, Cerrada, Automatica, Viva, Auditado
<1> QED
  BY <1>7, <1>8, <1>9

LEMMA DosPasos ==
    ASSUME NEW k, NEW r, Automatica(r), Vence(k) \in Nat
    PROVE  Paso(k, Paso(k, Paso(k, r))) = Paso(k, Paso(k, r))
<1>1. CASE r # Null /\ r.status \in Auditado
  <2>1. Cerrada(k, r)
    BY <1>1 DEF Cerrada, Automatica, Viva, Auditado
  <2> QED
    BY <2>1, CerradaFija
<1>2. CASE Disparo(k[1]) = k[2] /\ (r = Null \/ r.status \notin Auditado)
  <2> DEFINE x == Paso(k, r)
  <2>1. Paso(k, x) = x \/ Cerrada(k, x)
    BY <1>2, ActualFija
  <2> HIDE DEF x
  <2>2. Paso(k, Paso(k, x)) = Paso(k, x)
    BY <2>1, CerradaFija
  <2> QED
    BY <2>2 DEF x
<1>3. CASE Disparo(k[1]) # k[2] /\ r = Null
  <2>1. EnCurso(k, Null) = Null
    BY <1>3 DEF EnCurso
  <2>2. Avanza(k, Null) = Null /\ Sobrepasa(k, Null) = Null /\ Vencido(k, Null) = Null
    BY DEF Avanza, Sobrepasa, Vencido
  <2>3. Pasos4y5(k, Null) = Null
    BY <2>1, <2>2 DEF Pasos4y5
  <2>4. Paso(k, Null) = Null
    BY <2>2, <2>3 DEF Paso, Fila
  <2> QED
    BY <1>3, <2>4
<1>4. CASE Disparo(k[1]) # k[2] /\ r # Null /\ r.status \notin Auditado
  <2>1. r \in Row /\ ~r.manual
    BY <1>4 DEF Automatica
  <2>2. CASE Viva(k, r)
    <3> DEFINE x == Paso(k, r)
    <3>1. Cerrada(k, x)
      BY <1>4, <2>1, <2>2, VivaSeCierra
    <3> HIDE DEF x
    <3>2. Paso(k, Paso(k, x)) = Paso(k, x)
      BY <3>1, CerradaFija
    <3> QED
      BY <3>2 DEF x
  <2>3. CASE ~Viva(k, r)
    <3>1. Cerrada(k, r)
      BY <1>4, <2>1, <2>3 DEF Cerrada, Viva, Row, Auditado
    <3> QED
      BY <3>1, CerradaFija
  <2> QED
    BY <2>2, <2>3
<1> QED
  BY <1>1, <1>2, <1>3, <1>4

LEMMA FilasEstable == Formas /\ Filas => Estable
<1> SUFFICES ASSUME Formas, Filas, \A k \in Claves : plazos[k] = Null \/ ~plazos[k].manual,
                    NEW p \in Recalculos(plazos), NEW q \in Recalculos(p)
             PROVE  Recalculos(q) = {q}
  BY DEF Estable
<1>1. \A m \in movs : m.dia \in Nat
  BY DEF Formas
<1>2. \A k \in Claves : Vence(k) \in Nat
  BY <1>1, VenceTipo
<1>3. \A k \in Claves : Automatica(plazos[k])
  BY DEF Filas, Automatica
<1>4. p = Pasos(plazos)
  BY <1>1, <1>3, RecalculoUnico
<1>5. \A k \in Claves : p[k] = Paso(k, plazos[k]) /\ Automatica(p[k])
  BY <1>2, <1>3, <1>4, PasoTipo DEF Pasos
<1>6. q = Pasos(p)
  BY <1>1, <1>5, RecalculoUnico
<1>7. \A k \in Claves : q[k] = Paso(k, p[k]) /\ Automatica(q[k])
  BY <1>2, <1>5, <1>6, PasoTipo DEF Pasos
<1>8. Recalculos(q) = {Pasos(q)}
  BY <1>1, <1>7, RecalculoUnico
<1>9. \A k \in Claves : Paso(k, q[k]) = q[k]
  BY <1>2, <1>3, <1>5, <1>7, DosPasos
<1>10. Pasos(q) = q
  BY <1>6, <1>9 DEF Pasos
<1> QED
  BY <1>8, <1>10

-----------------------------------------------------------------------------
(* The theorems *)

(* update_deadline_status and create_manual_deadline against the engine:    *)
(* no recomputation, however it overlaps with others, touches what the      *)
(* auditor decided before it loaded the plazo, but for rebeldia.            *)
THEOREM AuditorStandsAlways == Spec => AuditorStands
<1>1. Init => IInv
  BY InitHolds
<1>2. IInv /\ [Next]_vars => IInv'
  BY NextKeeps
<1>3. IInv /\ [Next]_vars =>
        [Motor => \A k \in Claves :
           IF plazos[k] = Null \/ k \in despues THEN TRUE
           ELSE /\ plazos[k].marcada /\ plazos[k].status \in Auditado => plazos'[k] = plazos[k]
                /\ plazos[k].manual => \/ plazos'[k] = plazos[k]
                                      \/ /\ lado = "demandante" /\ k[1] = "excepciones"
                                         /\ plazos'[k].status = "expired"]_vars
  BY NextKeeps DEF Auditoria, Respeta, Marcada
<1> QED
  BY <1>1, <1>2, <1>3, PTL DEF Spec, AuditorStands

(* aprobar_liberacion against the engine: what it released stays released   *)
(* until an act of the court of a later day, and is what the case shows.    *)
THEOREM ReleaseStandsAlways == Spec => ReleaseStands
<1>1. Init => IInv
  BY InitHolds
<1>2. IInv /\ [Next]_vars => IInv'
  BY NextKeeps
<1>3. IInv /\ [Next]_vars =>
        [Motor /\ caso' # caso /\ Caso \notin despues =>
           /\ \/ caso'.override = caso.override
              \/ \E m \in movs : m.clase # "opone" /\ m.dia > caso.override_at
           /\ caso'.override # Null => caso'.semaforo = caso'.override]_vars
  BY NextKeeps DEF Liberacion, Sigue
<1> QED
  BY <1>1, <1>2, <1>3, PTL DEF Spec, ReleaseStands

(* Step 7 against the other steps: a case that left the state of a plazo is *)
(* never red for it, unless a person put a hand on one of its rows.         *)
LEMMA NoStaleRedAlways == Spec => []NoStaleRed
<1>1. Init => IInv
  BY InitHolds
<1>2. IInv /\ [Next]_vars => IInv'
  BY NextKeeps
<1>3. IInv => NoStaleRed
  BY FormasNoStale DEF IInv
<1> QED
  BY <1>1, <1>2, <1>3, PTL DEF Spec

(* The columns of case_deadlines and of the case keep their types through   *)
(* every recomputation, and so do those a sync in progress will write.      *)
THEOREM TypesAlways == Spec => []TypeOK
<1>1. Init => VInv
  BY InitHolds, InitTipos DEF VInv
<1>2. VInv /\ [Next]_vars => VInv'
  BY NextTipos
<1>3. VInv => TypeOK
  <2> SUFFICES ASSUME VInv PROVE TypeOK
    OBVIOUS
  <2>1. (caso.override = Null) <=> (caso.override_at = Null)
    BY NullAssumption DEF VInv, IInv, Formas
  <2>2. (caso.override = Null) = (caso.override_at = Null)
    BY <2>1, Zenon
  <2> QED
    BY <2>2 DEF VInv, IInv, TInv, Formas, Filas, CasoTipo, TxTipo, TypeOK
<1> QED
  BY <1>1, <1>2, <1>3, PTL DEF Spec

(* The steps of the engine against each other and against the auditor: a    *)
(* plazo is closed with the verdict that goes with its close, whatever      *)
(* syncs overlap, but for a sync that writes over what it had not read.     *)
THEOREM VerdictFitsStatusAlways == Spec => VerdictFitsStatus
<1>1. Init => VInv
  BY InitHolds, InitTipos DEF VInv
<1>2. VInv /\ [Next]_vars => VInv'
  BY NextTipos
<1>3. VInv /\ [Next]_vars =>
        [\A k \in Claves : plazos'[k] # Null /\ k \notin despues =>
           (Discorde(plazos'[k]) => plazos[k] # Null /\ Discorde(plazos[k]))]_vars
  BY NextTipos DEF Encaja
<1> QED
  BY <1>1, <1>2, <1>3, PTL DEF Spec, VerdictFitsStatus

(* _close_excepciones_on_defense, _rejudge_closed_excepciones and           *)
(* _correct_late_miss together: in whatever order movements and escritos    *)
(* were stored, and whatever was concluded before, two recomputations with  *)
(* the proof on file leave no miss for a defence that was in time.          *)
THEOREM OnTimeDefenseAlways == Spec => []OnTimeDefenseIsNeverAMiss
<1>1. Init => VInv
  BY InitHolds, InitTipos DEF VInv
<1>2. VInv /\ [Next]_vars => VInv'
  BY NextTipos
<1>3. VInv => OnTimeDefenseIsNeverAMiss
  BY FilasOnTime DEF VInv, IInv, TInv
<1> QED
  BY <1>1, <1>2, <1>3, PTL DEF Spec

(* Steps 4 to 8 for the plazo that matters most: when the excepciones of a  *)
(* demandado lapse with nothing filed, the next recomputation shows it, but *)
(* for what a person decided or another pending plazo of the firm hides.    *)
LEMMA LapsedFatalAlways == Spec => []LapsedFatalIsRed
<1>1. Init => VInv /\ Docket
  BY InitHolds, InitTipos DEF VInv, Init, Docket
<1>2. (VInv /\ Docket) /\ [Next]_vars => (VInv /\ Docket)'
  BY NextTipos, NextDocket
<1>3. VInv /\ Docket => LapsedFatalIsRed
  BY FilasLapsed DEF VInv, IInv, TInv
<1> QED
  BY <1>1, <1>2, <1>3, PTL DEF Spec

(* The colour of step 7 is red for what lapsed unanswered, and for nothing  *)
(* of a state the case has left.                                            *)
THEOREM RedIsOwedAlways == Spec => []RedIsOwed
<1>1. LapsedFatalIsRed /\ NoStaleRed => RedIsOwed
  BY DEF RedIsOwed
<1> QED
  BY LapsedFatalAlways, NoStaleRedAlways, <1>1, PTL

(* The steps of _recompute_safe do not fight over a row: what two           *)
(* recomputations leave, any more leave as it is, until the evidence, the   *)
(* day or a person changes something.                                       *)
THEOREM EstableAlways == Spec => []Estable
<1>1. Init => VInv
  BY InitHolds, InitTipos DEF VInv
<1>2. VInv /\ [Next]_vars => VInv'
  BY NextTipos
<1>3. VInv => Estable
  BY FilasEstable DEF VInv, IInv, TInv
<1> QED
  BY <1>1, <1>2, <1>3, PTL DEF Spec
=============================================================================
