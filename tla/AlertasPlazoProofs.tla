------------------------- MODULE AlertasPlazoProofs -------------------------
(***************************************************************************)
(* What holds of the alerts of a plazo for any number of processes, any    *)
(* calendar, scales, terms and recipients.  That an alert is not stored or *)
(* mailed twice needs to know how runs overlap (SoloUna), that the keys a  *)
(* run found are still those there are when it stores (Frescas), and that  *)
(* what it is sending is unsent and held once (EnMano, Frescas).           *)
(***************************************************************************)
EXTENDS AlertasPlazo, FiniteSetTheorems, WellFoundedInduction, TLAPS

Tipos == Niveles \cup {"vencido"}

\* r has the fields of a run.
EsCorrida(r) ==
    /\ r = [pc |-> r.pc, hoy |-> r.hoy, claves |-> r.claves, cola |-> r.cola,
            verdes |-> r.verdes, solapada |-> r.solapada]
    /\ r.solapada \in BOOLEAN

\* Alerts have a mark and a count.
AlertasBien ==
    /\ fallas \in Nat
    /\ \A f \in DOMAIN alertas : /\ alertas[f].enviada \in BOOLEAN
                                 /\ alertas[f].correos \in Nat
                                 /\ f[1].tipo \in Tipos

\* What a run is sending is stored, and what it queued for the verde mail is apart.
EnMano(c) ==
    /\ corrida[c].pc = "ociosa" => corrida[c] = Ociosa
    /\ corrida[c].cola \subseteq DOMAIN alertas /\ corrida[c].verdes \subseteq DOMAIN alertas
    /\ \A f \in corrida[c].cola : f[1].tipo # "verde"
    /\ \A f \in corrida[c].verdes : f[1].tipo = "verde"

\* What a run has read is still so while nobody overlaps it.
Frescas(c) ==
    ~corrida[c].solapada =>
      /\ corrida[c].pc \in {"crea", "avisa"} => corrida[c].claves = Claves
      /\ \A f \in corrida[c].cola \cup corrida[c].verdes : ~alertas[f].enviada

\* Two runs under way have overlapped.
SoloUna ==
    \A c, d \in Corridas :
      c # d /\ corrida[c].pc # "ociosa" /\ corrida[d].pc # "ociosa" => corrida[c].solapada

Corren ==
    /\ corrida = [c \in Corridas |-> corrida[c]]
    /\ \A c \in Corridas : EsCorrida(corrida[c]) /\ EnMano(c) /\ Frescas(c)

IInv == AlertasBien /\ Corren /\ SoloUna /\ MarkedIsMailed

-----------------------------------------------------------------------------
(* The levels *)

LEMMA NivelDeTipo == ASSUME NEW t, NEW d PROVE NivelDe(t, d) \in Niveles
BY DEF NivelDe, Niveles

LEMMA HayMayor ==
    ASSUME NEW U \in SUBSET (0..3), U # {}
    PROVE  \E u \in U : \A v \in U : u >= v
<1>1. CASE 3 \in U
  BY <1>1
<1>2. CASE 3 \notin U /\ 2 \in U
  BY <1>2
<1>3. CASE 3 \notin U /\ 2 \notin U /\ 1 \in U
  BY <1>3
<1>4. CASE 3 \notin U /\ 2 \notin U /\ 1 \notin U
  <2>1. PICK u \in U : TRUE
    OBVIOUS
  <2>2. u = 0 /\ \A v \in U : v = 0
    BY <1>4
  <2> QED
    BY <2>2
<1> QED
  BY <1>1, <1>2, <1>3, <1>4

LEMMA UrgenciaTipo == \A u \in Tipos : Urgencia[u] \in 0..3
BY DEF Tipos, Niveles, Urgencia

\* Among levels there is a worst one.
LEMMA HayPeor ==
    ASSUME NEW S \in SUBSET Niveles, S # {}
    PROVE  \E n \in S : \A m \in S : Urgencia[n] >= Urgencia[m]
<1> DEFINE U == {Urgencia[n] : n \in S}
<1>1. U \in SUBSET (0..3) /\ U # {}
  BY UrgenciaTipo DEF Tipos
<1>2. \E u \in U : \A v \in U : u >= v
  BY <1>1, HayMayor
<1> QED
  BY <1>2

LEMMA NivelTipo == ASSUME NEW cal, NEW l, NEW d PROVE Nivel(cal, l, d) \in Niveles \cup {Null}
<1> DEFINE dia == IF Transcurridos(cal, 0, d) = 0 THEN 1 ELSE Transcurridos(cal, 0, d)
           niveles == {NivelDe(t, dia) : t \in Vigentes(cal, l, d)}
<1>1. niveles \in SUBSET Niveles
  BY NivelDeTipo
<1>2. Nivel(cal, l, d) = IF niveles = {} THEN Null
        ELSE CHOOSE n \in niveles : \A m \in niveles : Urgencia[n] >= Urgencia[m]
  BY DEF Nivel
<1> HIDE DEF niveles
<1>3. niveles # {} => \E n \in niveles : \A m \in niveles : Urgencia[n] >= Urgencia[m]
  BY <1>1, HayPeor
<1> QED
  BY <1>1, <1>2, <1>3

\* The keys of a level or of the notice carry its type.
LEMMA ClavesTipo ==
    ASSUME NEW c, NEW k \in Debidas(corrida[c].hoy) \cup ClavesDe("vencido", {})
    PROVE  k.tipo \in Tipos
<1>1. \A n, slot : \A q \in ClavesDe(n, slot) : q.tipo = n
  BY DEF ClavesDe
<1>2. ASSUME k \in Debidas(corrida[c].hoy) PROVE k.tipo \in Niveles
  <2> DEFINE n == Nivel(Feriados, Lecturas, corrida[c].hoy)
  <2>1. n # Null /\ k \in ClavesDe(n, Vigentes(Feriados, Lecturas, corrida[c].hoy))
    BY <1>2 DEF Debidas
  <2> QED
    BY <2>1, <1>1, NivelTipo
<1> QED
  BY <1>1, <1>2 DEF Tipos

\* The alert whose turn it is, is one of those to send.
LEMMA TurnoEsta ==
    ASSUME IInv, NEW c \in Corridas, Espera(c)
    PROVE  Turno(c) \in corrida[c].cola
<1> DEFINE U == {Urgencia[f[1].tipo] : f \in corrida[c].cola}
<1>1. U \in SUBSET (0..3) /\ U # {}
  BY UrgenciaTipo DEF IInv, AlertasBien, Corren, EnMano, Espera
<1>2. \E u \in U : \A v \in U : u >= v
  BY <1>1, HayMayor
<1>3. \E f \in corrida[c].cola :
         \A g \in corrida[c].cola : Urgencia[f[1].tipo] >= Urgencia[g[1].tipo]
  BY <1>2
<1> QED
  BY <1>3 DEF Turno
-----------------------------------------------------------------------------
(* What an assignment to fields of a run leaves of it *)

LEMMA FormaLista ==
    ASSUME NEW x, EsCorrida(x), NEW pc, NEW cola, NEW verdes
    PROVE  [x EXCEPT !.pc = pc, !.cola = cola, !.verdes = verdes] =
             [pc |-> pc, hoy |-> x.hoy, claves |-> x.claves, cola |-> cola,
              verdes |-> verdes, solapada |-> x.solapada]
<1> DEFINE Es(a, b, k, q, v, s) ==
             x = [pc |-> a, hoy |-> b, claves |-> k, cola |-> q, verdes |-> v, solapada |-> s]
<1>1. PICK a, b, k, q, v, s : Es(a, b, k, q, v, s)
  BY DEF EsCorrida
<1> HIDE DEF Es
<1>2. x.pc = a /\ x.hoy = b /\ x.claves = k /\ x.cola = q /\ x.verdes = v /\ x.solapada = s
  BY <1>1 DEF Es
<1>3. ASSUME NEW y, y = [x EXCEPT !.pc = pc, !.cola = cola, !.verdes = verdes]
      PROVE  y = [pc |-> pc, hoy |-> b, claves |-> k, cola |-> cola,
                  verdes |-> verdes, solapada |-> s]
  BY <1>1, <1>3 DEF Es
<1> QED
  BY <1>2, <1>3

LEMMA FormaVencidos ==
    ASSUME NEW x, EsCorrida(x), NEW pc, NEW cola
    PROVE  [x EXCEPT !.pc = pc, !.cola = cola] =
             [pc |-> pc, hoy |-> x.hoy, claves |-> x.claves, cola |-> cola,
              verdes |-> x.verdes, solapada |-> x.solapada]
<1> DEFINE Es(a, b, k, q, v, s) ==
             x = [pc |-> a, hoy |-> b, claves |-> k, cola |-> q, verdes |-> v, solapada |-> s]
<1>1. PICK a, b, k, q, v, s : Es(a, b, k, q, v, s)
  BY DEF EsCorrida
<1> HIDE DEF Es
<1>2. x.pc = a /\ x.hoy = b /\ x.claves = k /\ x.cola = q /\ x.verdes = v /\ x.solapada = s
  BY <1>1 DEF Es
<1>3. ASSUME NEW y, y = [x EXCEPT !.pc = pc, !.cola = cola]
      PROVE  y = [pc |-> pc, hoy |-> b, claves |-> k, cola |-> cola,
                  verdes |-> v, solapada |-> s]
  BY <1>1, <1>3 DEF Es
<1> QED
  BY <1>2, <1>3

LEMMA FormaTurno ==
    ASSUME NEW x, EsCorrida(x), NEW cola
    PROVE  [x EXCEPT !.cola = cola] =
             [pc |-> x.pc, hoy |-> x.hoy, claves |-> x.claves, cola |-> cola,
              verdes |-> x.verdes, solapada |-> x.solapada]
<1> DEFINE Es(a, b, k, q, v, s) ==
             x = [pc |-> a, hoy |-> b, claves |-> k, cola |-> q, verdes |-> v, solapada |-> s]
<1>1. PICK a, b, k, q, v, s : Es(a, b, k, q, v, s)
  BY DEF EsCorrida
<1> HIDE DEF Es
<1>2. x.pc = a /\ x.hoy = b /\ x.claves = k /\ x.cola = q /\ x.verdes = v /\ x.solapada = s
  BY <1>1 DEF Es
<1>3. ASSUME NEW y, y = [x EXCEPT !.cola = cola]
      PROVE  y = [pc |-> a, hoy |-> b, claves |-> k, cola |-> cola,
                  verdes |-> v, solapada |-> s]
  BY <1>1, <1>3 DEF Es
<1> QED
  BY <1>2, <1>3

LEMMA FormaGuarda ==
    ASSUME NEW x, EsCorrida(x), NEW pc, NEW claves
    PROVE  [x EXCEPT !.pc = pc, !.claves = claves] =
             [pc |-> pc, hoy |-> x.hoy, claves |-> claves, cola |-> x.cola,
              verdes |-> x.verdes, solapada |-> x.solapada]
<1> DEFINE Es(a, b, k, q, v, s) ==
             x = [pc |-> a, hoy |-> b, claves |-> k, cola |-> q, verdes |-> v, solapada |-> s]
<1>1. PICK a, b, k, q, v, s : Es(a, b, k, q, v, s)
  BY DEF EsCorrida
<1> HIDE DEF Es
<1>2. x.pc = a /\ x.hoy = b /\ x.claves = k /\ x.cola = q /\ x.verdes = v /\ x.solapada = s
  BY <1>1 DEF Es
<1>3. ASSUME NEW y, y = [x EXCEPT !.pc = pc, !.claves = claves]
      PROVE  y = [pc |-> pc, hoy |-> b, claves |-> claves, cola |-> q,
                  verdes |-> v, solapada |-> s]
  BY <1>1, <1>3 DEF Es
<1> QED
  BY <1>2, <1>3

-----------------------------------------------------------------------------
(* What a step of the run c keeps, if it keeps it of c.                     *)

LEMMA Keeps ==
    ASSUME IInv, NEW c \in Corridas, corrida[c].pc # "ociosa",
           NEW r, EsCorrida(r), r.solapada = corrida[c].solapada \/ r.pc = "ociosa",
           Pone(c, r), DOMAIN alertas \subseteq DOMAIN alertas',
           AlertasBien', EnMano(c)', Frescas(c)', MarkedIsMailed'
    PROVE  IInv'
<1>1. corrida' = [d \in Corridas |-> corrida'[d]] /\ corrida'[c] = r
      /\ \A d \in Corridas : d # c => corrida'[d] = corrida[d]
  BY DEF IInv, Corren, Pone
<1>2. ASSUME NEW d \in Corridas, d # c PROVE EnMano(d)' /\ Frescas(d)'
  <2>1. corrida[d].pc # "ociosa" => corrida[d].solapada
    BY <1>2 DEF IInv, SoloUna
  <2>2. EnMano(d)'
    BY <1>1, <1>2 DEF IInv, Corren, EnMano
  <2>3. corrida[d].pc = "ociosa" => corrida[d] = Ociosa
    BY DEF IInv, Corren, EnMano
  <2>4. Frescas(d)'
    BY <1>1, <1>2, <2>1, <2>3 DEF Frescas, Ociosa
  <2> QED
    BY <2>2, <2>4
<1>3. Corren'
  BY <1>1, <1>2 DEF IInv, Corren
<1>4. SoloUna'
  <2> SUFFICES ASSUME NEW d \in Corridas, NEW e \in Corridas, d # e,
                      corrida'[d].pc # "ociosa", corrida'[e].pc # "ociosa"
               PROVE  corrida'[d].solapada
    BY DEF SoloUna
  <2>1. corrida[d].pc # "ociosa" /\ corrida[e].pc # "ociosa"
    BY <1>1
  <2>2. corrida[d].solapada
    BY <2>1 DEF IInv, SoloUna
  <2> QED
    BY <1>1, <2>2
<1> QED
  BY <1>3, <1>4 DEF IInv
-----------------------------------------------------------------------------
(* One lemma per action, or per kind of action *)

LEMMA InitHolds == Init => IInv
<1> SUFFICES ASSUME Init PROVE IInv
  OBVIOUS
<1>1. DOMAIN alertas = {}
  BY DEF Init
<1>2. AlertasBien /\ MarkedIsMailed
  BY <1>1 DEF Init, AlertasBien, MarkedIsMailed
<1>3. Corren
  BY DEF Init, Corren, EsCorrida, EnMano, Frescas, Ociosa
<1>4. SoloUna
  BY DEF Init, SoloUna, Ociosa
<1> QED
  BY <1>2, <1>3, <1>4 DEF IInv

LEMMA EmpiezaKeeps == ASSUME IInv, NEW c \in Corridas, Empieza(c) PROVE IInv'
<1> DEFINE r == [pc |-> IF Candidato(hoy) /\ Reciente(hoy) THEN "crea" ELSE "mira",
                 hoy |-> hoy, claves |-> Claves, cola |-> {}, verdes |-> {},
                 solapada |-> \E e \in Corridas : corrida[e].pc # "ociosa"]
<1>1. /\ corrida' = [d \in Corridas |-> corrida'[d]]
      /\ corrida'[c] = r
      /\ \A d \in Corridas : d # c /\ corrida[d].pc = "ociosa" => corrida'[d] = corrida[d]
      /\ \A d \in Corridas : d # c /\ corrida[d].pc # "ociosa" =>
           corrida'[d] = [corrida[d] EXCEPT !.solapada = TRUE]
  BY DEF Empieza, Ociosa
<1>2. UNCHANGED <<alertas, fallas>>
  BY DEF Empieza
<1>3. AlertasBien' /\ MarkedIsMailed'
  BY <1>2 DEF IInv, AlertasBien, MarkedIsMailed
<1>4. ASSUME NEW d \in Corridas, d # c
      PROVE  EsCorrida(corrida'[d]) /\ EnMano(d)' /\ Frescas(d)'
  <2>1. CASE corrida[d].pc = "ociosa"
    <3>1. corrida'[d] = corrida[d]
      BY <1>1, <1>4, <2>1
    <3> QED
      BY <1>2, <3>1 DEF IInv, Corren, EnMano, Frescas, Claves
  <2>2. CASE corrida[d].pc # "ociosa"
    <3>1. corrida'[d] = [pc |-> corrida[d].pc, hoy |-> corrida[d].hoy,
                         claves |-> corrida[d].claves, cola |-> corrida[d].cola,
                         verdes |-> corrida[d].verdes, solapada |-> TRUE]
      BY <1>1, <1>4, <2>2 DEF IInv, Corren, EsCorrida
    <3>2. EsCorrida(corrida'[d])
      BY <3>1 DEF EsCorrida
    <3> QED
      BY <1>2, <2>2, <3>1, <3>2 DEF IInv, Corren, EnMano, Frescas
  <2> QED
    BY <2>1, <2>2
<1>5. EsCorrida(corrida'[c]) /\ EnMano(c)' /\ Frescas(c)'
  BY <1>1, <1>2 DEF EsCorrida, EnMano, Frescas, Claves
<1>6. Corren'
  BY <1>1, <1>4, <1>5 DEF Corren
<1>7. SoloUna'
  <2> SUFFICES ASSUME NEW d \in Corridas, NEW e \in Corridas, d # e,
                      corrida'[d].pc # "ociosa", corrida'[e].pc # "ociosa"
               PROVE  corrida'[d].solapada
    BY DEF SoloUna
  <2>1. CASE d = c
    <3>1. corrida[e].pc # "ociosa"
      BY <1>1, <2>1
    <3> QED
      BY <1>1, <2>1, <3>1
  <2>2. CASE d # c
    <3>1. corrida[d].pc # "ociosa"
      BY <1>1, <2>2
    <3>2. EsCorrida(corrida[d])
      BY DEF IInv, Corren
    <3> QED
      BY <1>1, <2>2, <3>1, <3>2 DEF EsCorrida
  <2> QED
    BY <2>1, <2>2
<1> QED
  BY <1>3, <1>6, <1>7 DEF IInv

\* The steps that leave the alerts alone.
LEMMA SoloCorrida ==
    ASSUME IInv, NEW c \in Corridas, corrida[c].pc # "ociosa", UNCHANGED alertas,
           UNCHANGED fallas \/ Falla(c),
           NEW r, EsCorrida(r), r.solapada = corrida[c].solapada \/ r.pc = "ociosa", Pone(c, r),
           r.pc = "ociosa" => r = Ociosa,
           r.cola \subseteq DOMAIN alertas, r.verdes \subseteq DOMAIN alertas,
           \A f \in r.cola : f[1].tipo # "verde", \A f \in r.verdes : f[1].tipo = "verde",
           r.pc \in {"crea", "avisa"} => r.claves = Claves,
           ~corrida[c].solapada => \A f \in r.cola \cup r.verdes : ~alertas[f].enviada
    PROVE  IInv'
<1>1. corrida'[c] = r
  BY DEF IInv, Corren, Pone
<1>2. fallas' \in Nat /\ (fallas' = 0 => fallas = 0)
  BY DEF IInv, AlertasBien, Falla
<1>3. AlertasBien' /\ MarkedIsMailed'
  BY <1>2 DEF IInv, AlertasBien, MarkedIsMailed
<1>4. EnMano(c)'
  BY <1>1 DEF EnMano
<1>5. r = Ociosa => r.cola = {} /\ r.verdes = {} /\ r.pc = "ociosa"
  BY DEF Ociosa
<1>6. Frescas(c)'
  BY <1>1, <1>5 DEF Frescas, Claves
<1> QED
  BY <1>3, <1>4, <1>6, Keeps

LEMMA MiraKeeps == ASSUME IInv, NEW c \in Corridas, MiraVencido(c) PROVE IInv'
<1> DEFINE r == [pc |-> corrida'[c].pc, hoy |-> corrida[c].hoy, claves |-> corrida'[c].claves,
                 cola |-> corrida[c].cola, verdes |-> corrida[c].verdes,
                 solapada |-> corrida[c].solapada]
<1>1. /\ Pone(c, r) /\ EsCorrida(r)
      /\ \/ r.pc = "avisa" /\ r.claves = Claves
         \/ r.pc = "lista"
  BY DEF IInv, Corren, EsCorrida, MiraVencido, Pone
<1>2. corrida[c].pc # "ociosa" /\ UNCHANGED alertas /\ UNCHANGED fallas
  BY DEF MiraVencido
<1>3. EnMano(c) /\ Frescas(c)
  BY DEF IInv, Corren
<1> HIDE DEF r
<1>4. r.cola = corrida[c].cola /\ r.verdes = corrida[c].verdes
      /\ r.solapada = corrida[c].solapada
  BY DEF r
<1> QED
  BY <1>1, <1>2, <1>3, <1>4, SoloCorrida DEF EnMano, Frescas

LEMMA NoCreaKeeps == ASSUME IInv, NEW c \in Corridas, NoCrea(c) PROVE IInv'
<1> DEFINE r == [pc |-> corrida'[c].pc, hoy |-> corrida[c].hoy, claves |-> {},
                 cola |-> corrida[c].cola, verdes |-> corrida[c].verdes,
                 solapada |-> corrida[c].solapada]
<1>1. Pone(c, r) /\ EsCorrida(r) /\ r.pc \in {"mira", "lista"}
  BY DEF IInv, Corren, EsCorrida, NoCrea, Pone
<1>2. corrida[c].pc # "ociosa" /\ UNCHANGED alertas /\ Falla(c)
  BY DEF NoCrea
<1>3. EnMano(c) /\ Frescas(c)
  BY DEF IInv, Corren
<1>4. r.cola = corrida[c].cola /\ r.verdes = corrida[c].verdes
      /\ r.solapada = corrida[c].solapada
  OBVIOUS
<1> HIDE DEF r
<1> QED
  BY <1>1, <1>2, <1>3, <1>4, SoloCorrida DEF EnMano, Frescas

LEMMA ListaKeeps == ASSUME IInv, NEW c \in Corridas, Lista(c) PROVE IInv'
<1> DEFINE p == Pendientes(corrida[c].hoy)
           v == {f \in p : f[1].tipo = "verde"}
           r == [pc |-> "manda", hoy |-> corrida[c].hoy, claves |-> corrida[c].claves,
                 cola |-> p \ v, verdes |-> v, solapada |-> corrida[c].solapada]
<1>0. EsCorrida(corrida[c])
  BY DEF IInv, Corren
<1>8. \A q, w : [corrida[c] EXCEPT !.pc = "manda", !.cola = q, !.verdes = w] =
        [pc |-> "manda", hoy |-> corrida[c].hoy, claves |-> corrida[c].claves,
         cola |-> q, verdes |-> w, solapada |-> corrida[c].solapada]
  BY <1>0, FormaLista, Zenon
<1>1. Pone(c, r)
  BY <1>8, Zenon DEF Lista
<1>9. EsCorrida(r)
  BY <1>0 DEF EsCorrida
<1>2. corrida[c].pc # "ociosa" /\ UNCHANGED alertas /\ UNCHANGED fallas
  BY DEF Lista
<1>3. \A f \in p : f \in DOMAIN alertas /\ ~alertas[f].enviada
  BY DEF Pendientes
<1>4. r.cola = p \ v /\ r.verdes = v /\ r.solapada = corrida[c].solapada /\ r.pc = "manda"
  OBVIOUS
<1> HIDE DEF r, p
<1> QED
  BY <1>1, <1>2, <1>3, <1>4, <1>9, SoloCorrida

LEMMA ListaVencidosKeeps == ASSUME IInv, NEW c \in Corridas, ListaVencidos(c) PROVE IInv'
<1> DEFINE p == VencidosPendientes(corrida[c].hoy)
           r == [pc |-> "cierra", hoy |-> corrida[c].hoy, claves |-> corrida[c].claves,
                 cola |-> p, verdes |-> corrida[c].verdes, solapada |-> corrida[c].solapada]
<1>0. EsCorrida(corrida[c])
  BY DEF IInv, Corren
<1>8. [corrida[c] EXCEPT !.pc = "cierra", !.cola = p] = r
  BY <1>0, FormaVencidos, Zenon
<1>1. Pone(c, r)
  BY <1>8, Zenon DEF ListaVencidos
<1>9. EsCorrida(r)
  BY <1>0 DEF EsCorrida
<1>2. corrida[c].pc # "ociosa" /\ UNCHANGED alertas /\ UNCHANGED fallas
  BY DEF ListaVencidos
<1>3. \A f \in p : f \in DOMAIN alertas /\ ~alertas[f].enviada /\ f[1].tipo # "verde"
  BY DEF VencidosPendientes
<1>4. EnMano(c) /\ Frescas(c)
  BY DEF IInv, Corren
<1>5. r.cola = p /\ r.verdes = corrida[c].verdes /\ r.solapada = corrida[c].solapada
      /\ r.pc = "cierra"
  OBVIOUS
<1> HIDE DEF r, p
<1> QED
  BY <1>1, <1>2, <1>3, <1>4, <1>5, <1>9, SoloCorrida DEF EnMano, Frescas

\* A mail that was tried leaves the queue, whatever became of it.
LEMMA SinTurnoForma ==
    ASSUME IInv, NEW c \in Corridas, Espera(c), SinTurno(c)
    PROVE  \E r : /\ Pone(c, r) /\ EsCorrida(r)
                  /\ r.pc = corrida[c].pc /\ r.solapada = corrida[c].solapada
                  /\ r.claves = corrida[c].claves /\ r.verdes = corrida[c].verdes
                  /\ r.cola = corrida[c].cola \ {Turno(c)}
                  /\ corrida[c].pc # "ociosa"
<1> DEFINE r == [pc |-> corrida[c].pc, hoy |-> corrida[c].hoy, claves |-> corrida[c].claves,
                 cola |-> corrida[c].cola \ {Turno(c)}, verdes |-> corrida[c].verdes,
                 solapada |-> corrida[c].solapada]
<1>0. EsCorrida(corrida[c])
  BY DEF IInv, Corren
<1>8. [corrida[c] EXCEPT !.cola = corrida[c].cola \ {Turno(c)}] = r
  BY <1>0, FormaTurno, Zenon
<1>1. Pone(c, r)
  BY <1>8, Zenon DEF SinTurno
<1>9. EsCorrida(r)
  BY <1>0 DEF EsCorrida
<1>2. corrida[c].pc # "ociosa"
  BY DEF IInv, Corren, EnMano, Espera, Ociosa
<1> QED
  BY <1>1, <1>2, <1>9

LEMMA NoMandaKeeps == ASSUME IInv, NEW c \in Corridas, NoManda(c) PROVE IInv'
<1>1. PICK r : /\ Pone(c, r) /\ EsCorrida(r)
               /\ r.pc = corrida[c].pc /\ r.solapada = corrida[c].solapada
               /\ r.claves = corrida[c].claves /\ r.verdes = corrida[c].verdes
               /\ r.cola = corrida[c].cola \ {Turno(c)}
               /\ corrida[c].pc # "ociosa"
  BY SinTurnoForma DEF NoManda
<1>2. UNCHANGED alertas /\ UNCHANGED fallas
  BY DEF NoManda
<1>3. EnMano(c) /\ Frescas(c)
  BY DEF IInv, Corren
<1>4. r.pc # "ociosa"
  BY <1>1
<1>5. corrida'[c] = r
  BY <1>1 DEF IInv, Corren, Pone
<1>6. AlertasBien' /\ MarkedIsMailed'
  BY <1>2 DEF IInv, AlertasBien, MarkedIsMailed
<1>7. EnMano(c)'
  BY <1>1, <1>2, <1>3, <1>4, <1>5 DEF EnMano
<1>8. Frescas(c)'
  BY <1>1, <1>2, <1>3, <1>5 DEF Frescas, Claves
<1> QED
  BY <1>1, <1>2, <1>6, <1>7, <1>8, Keeps

LEMMA MuereKeeps == ASSUME IInv, NEW c \in Corridas, Muere(c) PROVE IInv'
<1>1. EsCorrida(Ociosa) /\ Ociosa.pc = "ociosa" /\ Ociosa.cola = {} /\ Ociosa.verdes = {}
  BY DEF Ociosa, EsCorrida
<1> QED
  BY <1>1, SoloCorrida DEF Muere

-----------------------------------------------------------------------------
(* The steps that store alerts *)

LEMMA InsertaForma ==
    ASSUME NEW K, Inserta(K)
    PROVE  \E N : /\ N = {<<k, IF k \in Claves THEN 2 ELSE 1>> : k \in K}
                  /\ DOMAIN alertas' = DOMAIN alertas \cup N
                  /\ \A f \in N : /\ ~alertas'[f].enviada /\ alertas'[f].enviada \in BOOLEAN
                                  /\ alertas'[f].correos = 0 /\ f[1] \in K
                                  /\ f[1] \notin Claves => f \notin DOMAIN alertas /\ f[2] = 1
                  /\ \A f \in DOMAIN alertas \ N : alertas'[f] = alertas[f]
<1> DEFINE N == {<<k, IF k \in Claves THEN 2 ELSE 1>> : k \in K}
<1>1. alertas' = [f \in DOMAIN alertas \cup N |->
                    IF f \in N THEN [enviada |-> FALSE, correos |-> 0] ELSE alertas[f]]
  BY DEF Inserta
<1>2. \A f \in N : f[1] \in K /\ (f[1] \notin Claves => f[2] = 1)
  OBVIOUS
<1>3. \A f \in DOMAIN alertas : f[1] \in Claves
  BY DEF Claves
<1> HIDE DEF N
<1>4. /\ DOMAIN alertas' = DOMAIN alertas \cup N
      /\ \A f \in N : alertas'[f] = [enviada |-> FALSE, correos |-> 0]
      /\ \A f \in DOMAIN alertas \ N : alertas'[f] = alertas[f]
  BY <1>1
<1>6. [enviada |-> FALSE, correos |-> 0].enviada = FALSE
      /\ [enviada |-> FALSE, correos |-> 0].correos = 0
  OBVIOUS
<1>5. \A f \in N : /\ ~alertas'[f].enviada /\ alertas'[f].enviada \in BOOLEAN
                   /\ alertas'[f].correos = 0
  BY <1>4, <1>6, Zenon
<1> QED
  BY <1>2, <1>3, <1>4, <1>5 DEF N

\* The keys a run adds are none of those it found; alone, none of those there are.
LEMMA Guarda ==
    ASSUME IInv, NEW c \in Corridas, corrida[c].pc \in {"crea", "avisa"},
           NEW K, \A k \in K : k.tipo \in Tipos, Inserta(K \ corrida[c].claves),
           UNCHANGED fallas,
           NEW p \in {"mira", "lista"}, Pone(c, [corrida[c] EXCEPT !.pc = p, !.claves = {}])
    PROVE  /\ IInv'
           /\ ~corrida[c].solapada =>
                /\ \A f \in DOMAIN alertas' : f \in DOMAIN alertas \/ f[2] = 1
                /\ \A f \in DOMAIN alertas : alertas'[f] = alertas[f]
<1> DEFINE r == [pc |-> p, hoy |-> corrida[c].hoy, claves |-> {}, cola |-> corrida[c].cola,
                 verdes |-> corrida[c].verdes, solapada |-> corrida[c].solapada]
<1>0. EsCorrida(corrida[c])
  BY DEF IInv, Corren
<1>12. [corrida[c] EXCEPT !.pc = p, !.claves = {}] = r
  BY <1>0, FormaGuarda, Zenon
<1>10. Pone(c, r)
  BY <1>12, Zenon
<1>11. EsCorrida(r)
  BY <1>0 DEF EsCorrida
<1>1. Pone(c, r) /\ EsCorrida(r) /\ corrida'[c] = r
  BY <1>10, <1>11 DEF IInv, Corren, Pone
<1>2. EnMano(c) /\ Frescas(c)
  BY DEF IInv, Corren
<1>3. r.pc = p /\ r.cola = corrida[c].cola /\ r.verdes = corrida[c].verdes
      /\ r.solapada = corrida[c].solapada
  OBVIOUS
<1> HIDE DEF r
<1>4. PICK N : /\ N = {<<k, IF k \in Claves THEN 2 ELSE 1>> : k \in K \ corrida[c].claves}
               /\ DOMAIN alertas' = DOMAIN alertas \cup N
               /\ \A f \in N : /\ ~alertas'[f].enviada /\ alertas'[f].enviada \in BOOLEAN
                               /\ alertas'[f].correos = 0 /\ f[1] \in K \ corrida[c].claves
                               /\ f[1] \notin Claves => f \notin DOMAIN alertas /\ f[2] = 1
               /\ \A f \in DOMAIN alertas \ N : alertas'[f] = alertas[f]
  BY InsertaForma
<1>5. AlertasBien' /\ MarkedIsMailed'
  BY <1>4 DEF IInv, AlertasBien, MarkedIsMailed
<1>6. ~corrida[c].solapada =>
        \A f \in N : f \notin DOMAIN alertas /\ f[2] = 1
  BY <1>2, <1>4 DEF Frescas
<1>7. EnMano(c)'
  BY <1>1, <1>2, <1>3, <1>4 DEF EnMano
<1>8. Frescas(c)'
  BY <1>1, <1>2, <1>3, <1>4, <1>6 DEF EnMano, Frescas
<1>9. IInv'
  BY <1>1, <1>3, <1>4, <1>5, <1>7, <1>8, Keeps
<1> QED
  BY <1>4, <1>6, <1>9

LEMMA CreaKeeps ==
    ASSUME IInv, NEW c \in Corridas, CreaAlertas(c) \/ CreaVencido(c)
    PROVE  /\ IInv'
           /\ ~corrida[c].solapada =>
                /\ \A f \in DOMAIN alertas' : f \in DOMAIN alertas \/ f[2] = 1
                /\ \A f \in DOMAIN alertas : alertas'[f] = alertas[f]
<1>1. CASE CreaAlertas(c)
  <2>1. \A k \in Debidas(corrida[c].hoy) : k.tipo \in Tipos
    BY ClavesTipo
  <2> QED
    BY <1>1, <2>1, Guarda DEF CreaAlertas
<1>2. CASE CreaVencido(c)
  <2>1. \A k \in ClavesDe("vencido", {}) : k.tipo \in Tipos
    BY ClavesTipo
  <2> QED
    BY <1>2, <2>1, Guarda DEF CreaVencido
<1> QED
  BY <1>1, <1>2

-----------------------------------------------------------------------------
(* The steps that mail them *)

\* A step of c that mails fs, which c held and no longer holds.
LEMMA EntregaKeeps ==
    ASSUME IInv, NEW c \in Corridas, corrida[c].pc # "ociosa",
           NEW fs, fs \subseteq corrida[c].cola \cup corrida[c].verdes,
           NEW marca \in BOOLEAN, Entrega(fs, marca),
           IF marca THEN UNCHANGED fallas ELSE Falla(c),
           NEW r, EsCorrida(r), r.solapada = corrida[c].solapada \/ r.pc = "ociosa", Pone(c, r),
           IF r.pc = "ociosa" THEN r = Ociosa
           ELSE /\ r.claves = corrida[c].claves /\ r.pc = corrida[c].pc
                /\ r.cola \subseteq corrida[c].cola \ fs
                /\ r.verdes \subseteq corrida[c].verdes \ fs
    PROVE  /\ IInv' /\ DOMAIN alertas' = DOMAIN alertas
           /\ ~corrida[c].solapada =>
                \A f \in DOMAIN alertas : alertas'[f].correos > alertas[f].correos =>
                  alertas[f].correos = 0 \/ fallas > 0
<1>1. /\ DOMAIN alertas' = DOMAIN alertas
      /\ \A f \in DOMAIN alertas : f \notin fs => alertas'[f] = alertas[f]
      /\ \A f \in DOMAIN alertas : f \in fs =>
           alertas'[f] = [enviada |-> marca \/ alertas[f].enviada,
                          correos |-> alertas[f].correos + 1]
  BY DEF Entrega
<1>2. EnMano(c) /\ Frescas(c) /\ AlertasBien
  BY DEF IInv, Corren
<1>3. fallas' \in Nat /\ (fallas' = 0 => fallas = 0 /\ marca = TRUE)
  BY <1>2 DEF AlertasBien, Falla
<1>4. \A f \in DOMAIN alertas :
        f \in fs => /\ alertas'[f].enviada = (marca \/ alertas[f].enviada)
                    /\ alertas'[f].correos = alertas[f].correos + 1
  BY <1>1
<1>5. AlertasBien'
  BY <1>1, <1>2, <1>3, <1>4 DEF AlertasBien
<1>6. MarkedIsMailed'
  <2> SUFFICES ASSUME NEW f \in DOMAIN alertas
               PROVE  /\ alertas'[f].enviada => alertas'[f].correos > 0
                      /\ alertas'[f].correos > 0 /\ fallas' = 0 => alertas'[f].enviada
    BY <1>1 DEF MarkedIsMailed
  <2>1. CASE f \in fs
    BY <1>2, <1>3, <1>4, <2>1 DEF AlertasBien
  <2>2. CASE f \notin fs
    BY <1>1, <1>3, <2>2 DEF IInv, MarkedIsMailed
  <2> QED
    BY <2>1, <2>2
<1>7. corrida'[c] = r
  BY DEF IInv, Corren, Pone
<1>8. r = Ociosa => r.cola = {} /\ r.verdes = {} /\ r.pc = "ociosa"
  BY DEF Ociosa
<1>9. EnMano(c)'
  BY <1>1, <1>2, <1>7, <1>8 DEF EnMano
<1>10. Frescas(c)'
  <2>1. CASE r.pc = "ociosa"
    BY <1>7, <1>8, <2>1 DEF Frescas
  <2>2. CASE r.pc # "ociosa"
    BY <1>1, <1>2, <1>7, <2>2 DEF EnMano, Frescas, Claves
  <2> QED
    BY <2>1, <2>2
<1>11. IInv'
  BY <1>1, <1>5, <1>6, <1>9, <1>10, Keeps
<1>12. ASSUME ~corrida[c].solapada, NEW f \in DOMAIN alertas,
              alertas'[f].correos > alertas[f].correos
       PROVE  alertas[f].correos = 0 \/ fallas > 0
  <2>1. f \in fs
    BY <1>1, <1>2, <1>12 DEF AlertasBien
  <2>2. ~alertas[f].enviada
    BY <1>2, <1>12, <2>1 DEF Frescas
  <2> QED
    BY <1>2, <2>2 DEF IInv, MarkedIsMailed, AlertasBien
<1> QED
  BY <1>1, <1>11, <1>12

\* What a step may do to the alerts while no run under way is overlapped.
UnaVez ==
    /\ \A f \in DOMAIN alertas' : f[2] = 2 => f \in DOMAIN alertas
    /\ \A f \in DOMAIN alertas : alertas'[f].correos > alertas[f].correos =>
         alertas[f].correos = 0 \/ fallas > 0
Solas == \A c \in Corridas : corrida[c].pc # "ociosa" => ~corrida[c].solapada

\* A step that leaves the alerts alone mails none.
LEMMA Quietas == ASSUME IInv, UNCHANGED alertas PROVE UnaVez
BY DEF IInv, AlertasBien, UnaVez

LEMMA MandaKeeps ==
    ASSUME IInv, NEW c \in Corridas, Manda(c) \/ MandaSinMarca(c)
    PROVE  IInv' /\ (Solas => UnaVez)
<1>1. PICK marca \in BOOLEAN : /\ Entrega({Turno(c)}, marca) /\ Espera(c) /\ SinTurno(c)
                               /\ IF marca THEN UNCHANGED fallas ELSE Falla(c)
  <2>1. CASE Manda(c)
    BY <2>1 DEF Manda
  <2>2. CASE MandaSinMarca(c)
    BY <2>2 DEF MandaSinMarca
  <2> QED
    BY <2>1, <2>2
<1>2. PICK r : /\ Pone(c, r) /\ EsCorrida(r)
               /\ r.pc = corrida[c].pc /\ r.solapada = corrida[c].solapada
               /\ r.claves = corrida[c].claves /\ r.verdes = corrida[c].verdes
               /\ r.cola = corrida[c].cola \ {Turno(c)}
               /\ corrida[c].pc # "ociosa"
  BY <1>1, SinTurnoForma
<1>3. Turno(c) \in corrida[c].cola
  BY <1>1, TurnoEsta
<1>4. Turno(c) \notin corrida[c].verdes
  BY <1>3 DEF IInv, Corren, EnMano
<1>5. {Turno(c)} \subseteq corrida[c].cola \cup corrida[c].verdes
  BY <1>3
<1>6. /\ r.cola \subseteq corrida[c].cola \ {Turno(c)}
      /\ r.verdes \subseteq corrida[c].verdes \ {Turno(c)}
  BY <1>2, <1>4
<1>7. /\ IInv' /\ DOMAIN alertas' = DOMAIN alertas
      /\ ~corrida[c].solapada =>
           \A f \in DOMAIN alertas : alertas'[f].correos > alertas[f].correos =>
             alertas[f].correos = 0 \/ fallas > 0
  BY <1>1, <1>2, <1>5, <1>6, EntregaKeeps
<1> QED
  BY <1>2, <1>7 DEF Solas, UnaVez

LEMMA CierraKeeps ==
    ASSUME IInv, NEW c \in Corridas, NEW sale \in BOOLEAN, NEW marca \in BOOLEAN,
           Cierra(c, sale, marca), sale \/ marca
    PROVE  IInv' /\ (Solas => UnaVez)
<1>1. EsCorrida(Ociosa) /\ Ociosa.pc = "ociosa" /\ Ociosa.cola = {} /\ Ociosa.verdes = {}
  BY DEF Ociosa, EsCorrida
<1>2. Pone(c, Ociosa) /\ corrida[c].pc # "ociosa"
      /\ IF marca THEN UNCHANGED fallas ELSE Falla(c)
  BY DEF Cierra
<1>3. CASE sale
  <2>1. Entrega(corrida[c].verdes, marca)
    BY <1>3 DEF Cierra
  <2>2. /\ IInv' /\ DOMAIN alertas' = DOMAIN alertas
        /\ ~corrida[c].solapada =>
             \A f \in DOMAIN alertas : alertas'[f].correos > alertas[f].correos =>
               alertas[f].correos = 0 \/ fallas > 0
    BY <1>1, <1>2, <2>1, EntregaKeeps
  <2> QED
    BY <1>2, <2>2 DEF Solas, UnaVez
<1>4. CASE ~sale
  <2>1. UNCHANGED alertas
    BY <1>4 DEF Cierra
  <2>2. IInv'
    BY <1>1, <1>2, <2>1, SoloCorrida
  <2> QED
    BY <2>1, <2>2, Quietas
<1> QED
  BY <1>3, <1>4

LEMMA NextKeeps ==
    ASSUME IInv, [Next]_vars
    PROVE  IInv' /\ (Solas => UnaVez)
<1>1. CASE UNCHANGED <<alertas, corrida, fallas>>
  <2>1. IInv'
    BY <1>1 DEF IInv, AlertasBien, Corren, EnMano, Frescas, Claves, SoloUna, MarkedIsMailed
  <2> QED
    BY <1>1, <2>1, Quietas
<1>2. ASSUME NEW c \in Corridas, Empieza(c) PROVE IInv' /\ UNCHANGED alertas
  BY <1>2, EmpiezaKeeps DEF Empieza
<1>3. ASSUME NEW c \in Corridas, CreaAlertas(c) \/ CreaVencido(c)
      PROVE  IInv' /\ (Solas => UnaVez)
  <2>1. corrida[c].pc # "ociosa"
    BY <1>3 DEF CreaAlertas, CreaVencido
  <2>2. /\ IInv'
        /\ ~corrida[c].solapada =>
             /\ \A f \in DOMAIN alertas' : f \in DOMAIN alertas \/ f[2] = 1
             /\ \A f \in DOMAIN alertas : alertas'[f] = alertas[f]
    BY <1>3, CreaKeeps
  <2>3. AlertasBien
    BY DEF IInv
  <2> QED
    BY <2>1, <2>2, <2>3 DEF Solas, UnaVez, AlertasBien
<1>4. ASSUME NEW c \in Corridas,
             MiraVencido(c) \/ NoCrea(c) \/ Lista(c) \/ ListaVencidos(c) \/ NoManda(c) \/ Muere(c)
      PROVE  IInv' /\ UNCHANGED alertas
  <2>1. IInv'
    BY <1>4, MiraKeeps, NoCreaKeeps, ListaKeeps, ListaVencidosKeeps, NoMandaKeeps, MuereKeeps
  <2> QED
    BY <1>4, <2>1 DEF MiraVencido, NoCrea, Lista, ListaVencidos, NoManda, Muere
<1>5. CASE UNCHANGED vars
  BY <1>1, <1>5 DEF vars
<1>6. CASE PasaDia \/ Requiere \/ Firma \/ \E v \in {"no_actuado", "cumplido"} : Juzga(v)
  BY <1>1, <1>6 DEF PasaDia, Requiere, Firma, Juzga, Cambia
<1>7. CASE \E c \in Corridas : Empieza(c) \/ Paso(c) \/ Muere(c)
  BY <1>2, <1>3, <1>4, <1>7, MandaKeeps, CierraKeeps, Quietas DEF Paso
<1> QED
  BY <1>5, <1>6, <1>7 DEF Next

-----------------------------------------------------------------------------
(* Numbers *)

\* A set of numbers has a first one.
LEMMA Primero == ASSUME NEW S \in SUBSET Nat, S # {} PROVE \E m \in S : \A n \in S : m <= n
<1> DEFINE R == {ss \in Nat \X Nat : ss[1] < ss[2]}
<1>1. IsWellFoundedOn(R, Nat)
  BY NatLessThanWellFounded DEF OpToRel
<1> HIDE DEF R
<1>2. PICK m \in S : \A n \in S : ~ (<<n, m>> \in R)
  BY <1>1, WFMin
<1>3. \A n \in S : ~ (n < m)
  BY <1>2 DEF R
<1> QED
  BY <1>3

\* A finite set of numbers has a bound: its enumeration has one as far as it goes.
Acotada(f, k) == \E b \in Nat : \A i \in 1..k : f[i] <= b

LEMMA Acota ==
    ASSUME NEW f, NEW k \in Nat, Acotada(f, k), f[k + 1] \in Nat, \A i \in 1..k : f[i] \in Nat
    PROVE  Acotada(f, k + 1)
<1>1. PICK b \in Nat : \A i \in 1..k : f[i] <= b
  BY DEF Acotada
<1>2. PICK c \in Nat : b <= c /\ f[k + 1] <= c
  <2>1. CASE b <= f[k + 1]
    BY <2>1
  <2>2. CASE ~(b <= f[k + 1])
    BY <2>2
  <2> QED
    BY <2>1, <2>2
<1>3. ASSUME NEW i \in 1..k+1 PROVE f[i] <= c
  <2>1. CASE i = k + 1
    BY <1>2, <2>1
  <2>2. CASE i # k + 1
    <3>1. i \in 1..k
      BY <2>2
    <3>2. f[i] <= b /\ f[i] \in Nat
      BY <1>1, <3>1
    <3> QED
      BY <1>2, <3>2
  <2> QED
    BY <2>1, <2>2
<1> QED
  BY <1>3 DEF Acotada

LEMMA Acotadas ==
    ASSUME NEW n \in Nat, NEW f \in [1..n -> Nat]
    PROVE  Acotada(f, n)
<1> DEFINE Malos == {k \in 0..n : ~Acotada(f, k)}
<1>1. Malos \in SUBSET Nat
  OBVIOUS
<1>2. \A k : k \in Malos <=> k \in 0..n /\ ~Acotada(f, k)
  OBVIOUS
<1> HIDE DEF Malos
<1>3. SUFFICES ASSUME Malos # {} PROVE FALSE
  <2>1. n \in 0..n
    OBVIOUS
  <2> QED
    BY <1>2, <1>3, <2>1
<1>4. PICK k \in Malos : \A j \in Malos : k <= j
  BY <1>1, <1>3, Primero
<1>5. k \in Nat /\ k <= n /\ ~Acotada(f, k)
  BY <1>2, <1>4
<1>6. k # 0
  <2>1. Acotada(f, 0)
    BY DEF Acotada
  <2> QED
    BY <1>5, <2>1
<1>7. PICK j \in Nat : k = j + 1
  BY <1>5, <1>6
<1>8. j \in 0..n /\ j \notin Malos
  BY <1>4, <1>5, <1>7
<1>9. Acotada(f, j)
  BY <1>2, <1>8
<1>10. f[j + 1] \in Nat /\ \A i \in 1..j : f[i] \in Nat
  BY <1>5, <1>7
<1>11. Acotada(f, j + 1)
  BY <1>9, <1>10, Acota
<1> QED
  BY <1>5, <1>7, <1>11

\* It has a last member, then.
LEMMA Mayor ==
    ASSUME NEW S \in SUBSET Nat, IsFiniteSet(S), S # {}
    PROVE  Max(S) \in S /\ \A x \in S : Max(S) >= x
<1>1. PICK n \in Nat : ExistsBijection(1..n, S)
  BY FS_NatBijection
<1>2. PICK f \in [1..n -> S] : \A x \in S : \E i \in 1..n : f[i] = x
  BY <1>1 DEF ExistsBijection, Bijection, Surjection
<1>3. f \in [1..n -> Nat]
  BY <1>2
<1>4. PICK b \in Nat : \A x \in S : x <= b
  BY <1>2, <1>3, Acotadas DEF Acotada
<1> DEFINE C == {c \in Nat : \A x \in S : x <= c}
<1>5. \A c : c \in C <=> c \in Nat /\ \A x \in S : x <= c
  OBVIOUS
<1> HIDE DEF C
<1>6. C # {} /\ C \in SUBSET Nat
  BY <1>4, <1>5
<1>7. PICK c \in C : \A a \in C : c <= a
  BY <1>6, Primero
<1>8. c \in Nat /\ \A x \in S : x <= c
  BY <1>5, <1>7
<1>9. c \in S
  <2> SUFFICES ASSUME c \notin S PROVE FALSE
    OBVIOUS
  <2>1. \A x \in S : x < c
    BY <1>8
  <2>2. PICK y \in S : TRUE
    OBVIOUS
  <2>3. PICK a \in Nat : c = a + 1
    BY <1>8, <2>1, <2>2
  <2>4. \A x \in S : x <= a
    BY <2>1, <2>3
  <2>5. a \in C
    BY <1>5, <2>3, <2>4
  <2> QED
    BY <1>7, <2>3, <2>5
<1> QED
  BY <1>8, <1>9 DEF Max

-----------------------------------------------------------------------------
(* The calendar *)

\* The business days that have gone by, a day later.
LEMMA Cuenta ==
    ASSUME NEW cal, NEW d \in Nat, NEW e \in Nat
    PROVE  /\ Transcurridos(cal, d, e) \in Nat
           /\ e <= d => Transcurridos(cal, d, e) = 0
           /\ e >= d => Transcurridos(cal, d, e) <= e - d
           /\ e >= d => Transcurridos(cal, d, e + 1) =
                          Transcurridos(cal, d, e) + IF e + 1 \in cal THEN 0 ELSE 1
<1> DEFINE A == (d + 1 .. e) \ cal
           B == (d + 1 .. e + 1) \ cal
<1>1. IsFiniteSet(d + 1 .. e) /\ Cardinality(d + 1 .. e) = IF d + 1 > e THEN 0 ELSE e - (d + 1) + 1
  BY FS_Interval
<1>2. IsFiniteSet(A) /\ Cardinality(A) \in Nat /\ Cardinality(A) <= Cardinality(d + 1 .. e)
  BY <1>1, FS_Subset, FS_CardinalityType
<1>3. e <= d => A = {}
  OBVIOUS
<1>4. e >= d => B = IF e + 1 \in cal THEN A ELSE A \cup {e + 1}
  OBVIOUS
<1>5. e + 1 \notin A
  OBVIOUS
<1> HIDE DEF A, B
<1>6. e >= d => Cardinality(B) = Cardinality(A) + IF e + 1 \in cal THEN 0 ELSE 1
  BY <1>2, <1>4, <1>5, FS_AddElement
<1> QED
  BY <1>1, <1>2, <1>3, <1>6, FS_EmptySet DEF Transcurridos, A, B

\* The count only grows, and by each business day.
LEMMA Crece ==
    ASSUME NEW cal, NEW d \in Nat, NEW x \in Nat, NEW y \in Nat, x <= y
    PROVE  /\ Transcurridos(cal, d, x) <= Transcurridos(cal, d, y)
           /\ x < y /\ d < y /\ y \notin cal => Transcurridos(cal, d, x) < Transcurridos(cal, d, y)
<1> DEFINE A == (d + 1 .. x) \ cal
           B == (d + 1 .. y) \ cal
<1>1. IsFiniteSet(B) /\ Cardinality(B) \in Nat
  <2>1. IsFiniteSet(d + 1 .. y)
    BY FS_Interval
  <2> QED
    BY <2>1, FS_Difference, FS_CardinalityType
<1>2. A \in SUBSET B
  OBVIOUS
<1>3. Cardinality(A) <= Cardinality(B) /\ (Cardinality(B) = Cardinality(A) => A = B)
  BY <1>1, <1>2, FS_Subset
<1>4. IsFiniteSet(A) /\ Cardinality(A) \in Nat
  BY <1>1, <1>2, FS_Subset, FS_CardinalityType
<1>5. x < y /\ d < y /\ y \notin cal => y \in B /\ y \notin A
  OBVIOUS
<1> QED
  BY <1>1, <1>3, <1>4, <1>5 DEF Transcurridos

\* add_business_days: there is a day that is n business days after d, and it is one.
LEMMA SumaBien ==
    ASSUME NEW cal, IsFiniteSet(cal), NEW d \in Nat, NEW n \in Nat \ {0}
    PROVE  /\ SumaHabiles(cal, d, n) \in Nat /\ SumaHabiles(cal, d, n) > d
           /\ SumaHabiles(cal, d, n) \notin cal
           /\ Transcurridos(cal, d, SumaHabiles(cal, d, n)) = n
<1> DEFINE N == Cardinality(cal)
           f == d + n + N
           T(e) == Transcurridos(cal, d, e)
<1>1. N \in Nat
  BY FS_CardinalityType
<1>2. f \in Nat /\ T(f) >= n
  <2> DEFINE I == d + 1 .. f
  <2>1. f \in Nat /\ IsFiniteSet(I) /\ Cardinality(I) = n + N
    <3> HIDE DEF N
    <3>1. f \in Nat /\ d + 1 \in Int /\ f \in Int /\ f - (d + 1) + 1 = n + N /\ ~(d + 1 > f)
      BY <1>1
    <3> HIDE DEF f
    <3> QED
      BY <3>1, FS_Interval
  <2>2. IsFiniteSet(I \cap cal) /\ Cardinality(I \cap cal) <= N /\ Cardinality(I \cap cal) \in Nat
    BY <1>1, <2>1, FS_Intersection, FS_CardinalityType
  <2>3. IsFiniteSet(I \ cal) /\ Cardinality(I \ cal) \in Nat
    BY <2>1, FS_Subset, FS_CardinalityType
  <2>4. (I \ cal) \cup (I \cap cal) = I /\ (I \ cal) \cap (I \cap cal) = {}
    OBVIOUS
  <2> HIDE DEF I, N
  <2>5. Cardinality(I) = Cardinality(I \ cal) + Cardinality(I \cap cal) - 0
    BY <2>2, <2>3, <2>4, FS_Union, FS_EmptySet
  <2>6. Cardinality(I \ cal) >= n
    BY <1>1, <2>1, <2>2, <2>3, <2>5
  <2> QED
    BY <2>1, <2>6 DEF Transcurridos, I
<1> HIDE DEF f, T
<1> DEFINE S == {e \in Nat : T(e) >= n}
<1>3. PICK e \in S : \A g \in S : e <= g
  BY <1>2, Primero
<1>4. e <= f
  BY <1>2, <1>3
<1>5. e > d
  BY <1>3, Cuenta DEF T
<1>6. e - 1 \in Nat /\ e - 1 >= d /\ ~(T(e - 1) >= n) /\ T(e - 1) \in Nat
  BY <1>3, <1>5, Cuenta DEF T
<1>7. T(e) = T(e - 1) + IF e \in cal THEN 0 ELSE 1
  <2>1. ASSUME NEW g \in Nat, g = e - 1 PROVE T(g + 1) = T(g) + IF g + 1 \in cal THEN 0 ELSE 1
    BY <1>6, <2>1, Cuenta DEF T
  <2> QED
    BY <1>6, <2>1
<1>8. e \notin cal /\ T(e) = n
  BY <1>3, <1>6, <1>7
<1>9. e >= d + n
  <2>1. T(e) <= e - d
    BY <1>3, <1>5, Cuenta DEF T
  <2> QED
    BY <1>3, <1>8, <2>1
<1>10. e \in d + n .. d + n + N
  BY <1>1, <1>3, <1>4, <1>9 DEF f
<1>11. \E g \in d + n .. d + n + Cardinality(cal) : g \notin cal /\ Transcurridos(cal, d, g) = n
  BY <1>8, <1>10 DEF T
<1>12. /\ SumaHabiles(cal, d, n) \in d + n .. d + n + Cardinality(cal)
       /\ SumaHabiles(cal, d, n) \notin cal
       /\ Transcurridos(cal, d, SumaHabiles(cal, d, n)) = n
  BY <1>11, Zenon DEF SumaHabiles
<1> QED
  BY <1>1, <1>12

\* Before that day fewer have gone by, and from it on not.
LEMMA Vence ==
    ASSUME NEW cal, IsFiniteSet(cal), NEW d \in Nat, NEW n \in Nat \ {0}, NEW x \in Nat
    PROVE  x < SumaHabiles(cal, d, n) <=> Transcurridos(cal, d, x) < n
<1>1. /\ SumaHabiles(cal, d, n) \in Nat /\ SumaHabiles(cal, d, n) > d
      /\ SumaHabiles(cal, d, n) \notin cal
      /\ Transcurridos(cal, d, SumaHabiles(cal, d, n)) = n
  BY SumaBien
<1>2. Transcurridos(cal, d, x) \in Nat
  BY Cuenta
<1> QED
  BY <1>1, <1>2, Crece

\* The last day of a term is rojo, and rojo is the worst.
LEMMA UltimoRojo ==
    ASSUME NEW cal \in Calendarios, NEW lecturas \in SUBSET DOMAIN Escala, lecturas # {},
           NEW d \in 0..SumaHabiles(cal, 0, Max(lecturas))
    PROVE  /\ Nivel(cal, lecturas, d) # Null /\ Reciente(d)
           /\ \A t \in lecturas : d = SumaHabiles(cal, 0, t) => Nivel(cal, lecturas, d) = "rojo"
<1> DEFINE dia == IF Transcurridos(cal, 0, d) = 0 THEN 1 ELSE Transcurridos(cal, 0, d)
           niveles == {NivelDe(t, dia) : t \in Vigentes(cal, lecturas, d)}
           n == Nivel(cal, lecturas, d)
           u == Max(lecturas)
<1>1. IsFiniteSet(cal) /\ MaxEdad \in Nat
  BY CalendarioAssumption
<1>2. u \in lecturas /\ u \in DOMAIN Escala
  <2>1. IsFiniteSet(lecturas) /\ lecturas \in SUBSET Nat
    BY EscalaAssumption, FS_Subset
  <2> QED
    BY <2>1, Mayor
<1>3. u \in Nat \ {0} /\ d \in Nat /\ d <= SumaHabiles(cal, 0, u)
  <2>1. u \in Nat \ {0}
    BY <1>2, EscalaAssumption
  <2>2. SumaHabiles(cal, 0, u) \in Nat
    BY <1>1, <2>1, SumaBien
  <2> QED
    BY <2>1, <2>2
<1> HIDE DEF u
<1>4. NivelDe(u, dia) \in niveles /\ niveles \in SUBSET Niveles
  <2>1. u \in Vigentes(cal, lecturas, d)
    BY <1>2, <1>3 DEF Vigentes
  <2> HIDE DEF dia
  <2> QED
    BY <2>1, NivelDeTipo
<1>5. n = IF niveles = {} THEN Null
          ELSE CHOOSE m \in niveles : \A k \in niveles : Urgencia[m] >= Urgencia[k]
  BY DEF Nivel
<1>6. n \in niveles /\ \A k \in niveles : Urgencia[n] >= Urgencia[k]
  <2> HIDE DEF niveles, n
  <2>1. \E m \in niveles : \A k \in niveles : Urgencia[m] >= Urgencia[k]
    BY <1>4, HayPeor
  <2> QED
    BY <1>4, <1>5, <2>1
<1>7. n # Null
  BY <1>4, <1>6, NullAssumption
<1>8. Reciente(d)
  <2>1. Transcurridos(cal, 0, MaxEdad) >= u /\ Transcurridos(cal, 0, MaxEdad) \in Nat
    BY <1>1, <1>2, CalendarioAssumption, Cuenta
  <2>2. ~(MaxEdad < SumaHabiles(cal, 0, u)) /\ SumaHabiles(cal, 0, u) \in Nat
    BY <1>1, <1>3, <2>1, Vence, SumaBien
  <2> QED
    BY <1>1, <1>3, <2>2 DEF Reciente
<1>9. ASSUME NEW t \in lecturas, d = SumaHabiles(cal, 0, t) PROVE n = "rojo"
  <2>1. /\ t \in Nat \ {0} /\ Escala[t].verde \in Nat /\ Escala[t].amarillo \in Nat
        /\ Escala[t].verde <= Escala[t].amarillo /\ Escala[t].amarillo < t
    BY EscalaAssumption
  <2>2. Transcurridos(cal, 0, d) = t
    BY <1>1, <1>9, <2>1, SumaBien
  <2>3. dia = t
    BY <2>1, <2>2
  <2>4. NivelDe(t, dia) = "rojo"
    BY <2>1, <2>3 DEF NivelDe
  <2>5. t \in Vigentes(cal, lecturas, d)
    BY <1>3, <1>9 DEF Vigentes
  <2>6. "rojo" \in niveles
    BY <2>4, <2>5
  <2> HIDE DEF niveles, n
  <2>7. n \in Niveles /\ Urgencia[n] >= Urgencia["rojo"]
    BY <1>4, <1>6, <2>6
  <2> QED
    BY <2>7 DEF Niveles, Urgencia
<1> QED
  BY <1>7, <1>8, <1>9

-----------------------------------------------------------------------------
(* The types *)

\* The plazo, whose due date is a day, and the table.
PlazoBien ==
    /\ hoy \in Nat
    /\ plazo = [due |-> plazo.due, status |-> plazo.status, verdict |-> plazo.verdict,
                firmado |-> plazo.firmado]
    /\ plazo.due \in Nat /\ plazo.status \in {"active", "superseded", "cumplido"}

Tabla ==
    /\ DOMAIN alertas \subseteq Filas
    /\ \A f \in DOMAIN alertas : alertas[f] \in [enviada : BOOLEAN, correos : Nat]

\* The due date of a plazo counted from any day.
LEMMA Plazo == ASSUME NEW d \in Nat PROVE SumaHabiles(Feriados, d, Max(Lecturas)) \in Nat
<1>1. IsFiniteSet(Feriados)
  BY CalendarioAssumption
<1>2. IsFiniteSet(Lecturas) /\ Lecturas \in SUBSET Nat /\ Lecturas # {}
  BY EscalaAssumption, FS_Subset
<1>3. Max(Lecturas) \in Lecturas
  BY <1>2, Mayor
<1>4. Max(Lecturas) \in Nat \ {0}
  BY <1>3, EscalaAssumption
<1> QED
  BY <1>1, <1>4, SumaBien

LEMMA PlazoKeeps ==
    ASSUME PlazoBien, [Next]_vars
    PROVE  PlazoBien'
<1> USE DEF PlazoBien
<1>1. CASE UNCHANGED <<hoy, plazo>>
  BY <1>1
<1>2. CASE PasaDia
  BY <1>2 DEF PasaDia
<1>3. CASE Requiere
  <2>1. /\ hoy' = hoy
        /\ plazo' = [plazo EXCEPT !.due = SumaHabiles(Feriados, hoy, Max(Lecturas))]
    BY <1>3 DEF Requiere, Cambia
  <2>2. SumaHabiles(Feriados, hoy, Max(Lecturas)) \in Nat
    BY Plazo
  <2> QED
    BY <2>1, <2>2
<1>4. CASE Firma
  BY <1>4 DEF Firma, Cambia
<1>5. CASE \E v \in {"no_actuado", "cumplido"} : Juzga(v)
  BY <1>5 DEF Juzga, Cambia
<1>6. CASE \E c \in Corridas : Empieza(c) \/ Paso(c) \/ Muere(c)
  BY <1>1, <1>6 DEF Empieza, Muere, Paso, CreaAlertas, MiraVencido, CreaVencido, NoCrea, Lista,
                    ListaVencidos, Manda, NoManda, MandaSinMarca, Cierra
<1>7. CASE UNCHANGED vars
  BY <1>1, <1>7 DEF vars
<1> QED
  BY <1>2, <1>3, <1>4, <1>5, <1>6, <1>7 DEF Next

\* The keys a run looks for are keys.
LEMMA SonClaves ==
    /\ \A d : Debidas(d) \subseteq Clave
    /\ ClavesDe("vencido", {}) \subseteq Clave
<1>1. ASSUME NEW n \in Niveles, NEW slot \in SUBSET Lecturas PROVE ClavesDe(n, slot) \subseteq Clave
  <2>1. n # "vencido" /\ n \in Niveles \cup {"vencido"}
    BY DEF Niveles
  <2>2. Destinatarios(n) \subseteq {Titular} \cup UNION {Extra[m] : m \in Niveles}
    BY DEF Destinatarios
  <2> QED
    BY <2>1, <2>2 DEF ClavesDe, Clave
<1>2. ClavesDe("vencido", {}) \subseteq Clave
  <2>1. "rojo" \in Niveles
    BY DEF Niveles
  <2>2. Destinatarios("rojo") \subseteq {Titular} \cup UNION {Extra[m] : m \in Niveles}
    BY <2>1 DEF Destinatarios
  <2> QED
    BY <2>2 DEF ClavesDe, Clave
<1>3. ASSUME NEW d PROVE Debidas(d) \subseteq Clave
  <2> DEFINE n == Nivel(Feriados, Lecturas, d)
             slot == Vigentes(Feriados, Lecturas, d)
  <2>1. slot \in SUBSET Lecturas
    BY DEF Vigentes
  <2>2. n \in Niveles \cup {Null}
    BY NivelTipo
  <2>3. Debidas(d) = IF n = Null THEN {} ELSE ClavesDe(n, slot)
    BY DEF Debidas
  <2> HIDE DEF n, slot
  <2> QED
    BY <1>1, <2>1, <2>2, <2>3
<1> QED
  BY <1>2, <1>3

LEMMA InsertaTabla ==
    ASSUME Tabla, NEW claves, claves \subseteq Clave, Inserta(claves)
    PROVE  Tabla'
<1> DEFINE nuevas == {<<k, IF k \in Claves THEN 2 ELSE 1>> : k \in claves}
<1>1. nuevas \subseteq Filas
  BY DEF Filas
<1>2. alertas' = [f \in DOMAIN alertas \cup nuevas |->
                     IF f \in nuevas THEN [enviada |-> FALSE, correos |-> 0] ELSE alertas[f]]
  BY DEF Inserta
<1> HIDE DEF nuevas
<1>3. /\ DOMAIN alertas' = DOMAIN alertas \cup nuevas
      /\ \A f \in DOMAIN alertas' :
            alertas'[f] = IF f \in nuevas THEN [enviada |-> FALSE, correos |-> 0] ELSE alertas[f]
  BY <1>2
<1>4. DOMAIN alertas' \subseteq Filas
  BY <1>1, <1>3 DEF Tabla
<1>5. ASSUME NEW f \in DOMAIN alertas' PROVE alertas'[f] \in [enviada : BOOLEAN, correos : Nat]
  <2>1. CASE f \in nuevas
    <3>1. alertas'[f] = [enviada |-> FALSE, correos |-> 0]
      BY <1>3, <2>1
    <3> QED
      BY <3>1
  <2>2. CASE f \notin nuevas
    <3>1. f \in DOMAIN alertas /\ alertas'[f] = alertas[f]
      BY <1>3, <2>2
    <3> QED
      BY <3>1 DEF Tabla
  <2> QED
    BY <2>1, <2>2
<1> QED
  BY <1>4, <1>5 DEF Tabla, Filas, Clave

LEMMA EntregaTabla ==
    ASSUME Tabla, NEW fs, NEW marca \in BOOLEAN, Entrega(fs, marca)
    PROVE  Tabla'
<1>1. /\ DOMAIN alertas' = DOMAIN alertas
      /\ \A f \in DOMAIN alertas :
            alertas'[f] = IF f \in fs THEN [enviada |-> marca \/ alertas[f].enviada,
                                            correos |-> alertas[f].correos + 1]
                          ELSE alertas[f]
  BY DEF Entrega
<1>2. ASSUME NEW f \in DOMAIN alertas PROVE alertas'[f] \in [enviada : BOOLEAN, correos : Nat]
  <2>1. alertas[f] \in [enviada : BOOLEAN, correos : Nat]
    BY DEF Tabla
  <2>2. (marca \/ alertas[f].enviada) \in BOOLEAN /\ alertas[f].correos + 1 \in Nat
    BY <2>1
  <2> QED
    BY <1>1, <2>1, <2>2
<1> QED
  BY <1>1, <1>2 DEF Tabla, Filas, Clave

LEMMA TablaKeeps ==
    ASSUME Tabla, [Next]_vars
    PROVE  Tabla'
<1>1. CASE UNCHANGED alertas
  BY <1>1 DEF Tabla, Filas, Clave
<1>2. ASSUME NEW c \in Corridas, CreaAlertas(c) \/ CreaVencido(c) PROVE Tabla'
  <2>1. \E claves : claves \subseteq Clave /\ Inserta(claves)
    <3>1. CASE CreaAlertas(c)
      <4>1. /\ Inserta(Debidas(corrida[c].hoy) \ corrida[c].claves)
            /\ Debidas(corrida[c].hoy) \ corrida[c].claves \subseteq Clave
        BY <3>1, SonClaves DEF CreaAlertas
      <4> QED
        BY <4>1
    <3>2. CASE CreaVencido(c)
      <4>1. /\ Inserta(ClavesDe("vencido", {}) \ corrida[c].claves)
            /\ ClavesDe("vencido", {}) \ corrida[c].claves \subseteq Clave
        BY <3>2, SonClaves DEF CreaVencido
      <4> QED
        BY <4>1
    <3> QED
      BY <1>2, <3>1, <3>2
  <2> QED
    BY <2>1, InsertaTabla
<1>3. ASSUME NEW c \in Corridas, Manda(c) \/ MandaSinMarca(c) PROVE Tabla'
  BY <1>3, EntregaTabla DEF Manda, MandaSinMarca
<1>4. ASSUME NEW c \in Corridas, NEW marca \in BOOLEAN, NEW sale \in BOOLEAN, Cierra(c, sale, marca)
      PROVE  Tabla'
  BY <1>1, <1>4, EntregaTabla DEF Cierra
<1>5. ASSUME NEW c \in Corridas,
             \/ Empieza(c) \/ MiraVencido(c) \/ NoCrea(c) \/ Lista(c) \/ ListaVencidos(c)
             \/ NoManda(c) \/ Muere(c)
      PROVE  Tabla'
  BY <1>1, <1>5 DEF Empieza, MiraVencido, NoCrea, Lista, ListaVencidos, NoManda, Muere
<1>6. CASE PasaDia \/ Requiere \/ Firma \/ \E v \in {"no_actuado", "cumplido"} : Juzga(v)
  BY <1>1, <1>6 DEF PasaDia, Requiere, Firma, Juzga, Cambia
<1>7. CASE UNCHANGED vars
  BY <1>1, <1>7 DEF vars
<1>8. ASSUME NEW c \in Corridas, Paso(c) PROVE Tabla'
  <2>1. CASE \E marca \in BOOLEAN : Cierra(c, TRUE, marca)
    BY <1>4, <2>1
  <2>2. CASE Cierra(c, FALSE, TRUE)
    BY <1>4, <2>2
  <2> QED
    BY <1>2, <1>3, <1>5, <1>8, <2>1, <2>2 DEF Paso
<1> QED
  BY <1>5, <1>6, <1>7, <1>8 DEF Next

-----------------------------------------------------------------------------
(* The theorems *)

(* _dispatch_pending marks an alert once its mail left: the mark says so,   *)
(* and one that was mailed is marked unless something failed.               *)
THEOREM MarkedIsMailedAlways == Spec => []MarkedIsMailed
<1>1. Init => IInv
  BY InitHolds
<1>2. IInv /\ [Next]_vars => IInv'
  BY NextKeeps
<1>3. IInv => MarkedIsMailed
  BY DEF IInv
<1> QED
  BY <1>1, <1>2, <1>3, PTL DEF Spec

(* However many processes run it, an alert is stored or mailed twice only   *)
(* by runs that overlapped, or (mailed) after a failure.                    *)
THEOREM OnceUnlessOverlapAlways == Spec => OnceUnlessOverlap
<1>1. Init => IInv
  BY InitHolds
<1>2. IInv /\ [Next]_vars => IInv'
  BY NextKeeps
<1>3. IInv /\ [Next]_vars => [Solas => UnaVez]_vars
  BY NextKeeps
<1>4. Spec => [][Solas => UnaVez]_vars
  BY <1>1, <1>2, <1>3, PTL DEF Spec
<1> QED
  BY <1>4 DEF OnceUnlessOverlap, Solas, UnaVez

(* However holidays fall and whatever the scales, a plazo has a level on    *)
(* every day until it is over, is within the cutoff, and is rojo on the     *)
(* last day of every reading, provided the business days of a term fit in   *)
(* the cutoff.                                                              *)
THEOREM LastDayIsRojoAlways == Spec => []LastDayIsRojo
<1>1. \A cal \in Calendarios, lecturas \in (SUBSET DOMAIN Escala) \ {{}} :
        \A d \in 0..SumaHabiles(cal, 0, Max(lecturas)) :
          /\ Nivel(cal, lecturas, d) # Null /\ Reciente(d)
          /\ \A t \in lecturas : d = SumaHabiles(cal, 0, t) => Nivel(cal, lecturas, d) = "rojo"
  <2> TAKE cal \in Calendarios, lecturas \in (SUBSET DOMAIN Escala) \ {{}}
  <2> TAKE d \in 0..SumaHabiles(cal, 0, Max(lecturas))
  <2>1. lecturas \in SUBSET DOMAIN Escala /\ lecturas # {}
    OBVIOUS
  <2> QED
    BY <2>1, UltimoRojo
<1>2. LastDayIsRojo
  BY <1>1 DEF LastDayIsRojo
<1> QED
  BY <1>2, PTL

(* The types: whatever is stored is an alert of the plazo, what a run sends *)
(* is stored, and the due date is a day however it is counted.              *)
THEOREM TypesAlways == Spec => []TypeOK
<1>1. Init => IInv /\ PlazoBien /\ Tabla
  <2> SUFFICES ASSUME Init PROVE PlazoBien /\ Tabla
    BY InitHolds
  <2>1. PlazoBien
    BY Plazo DEF Init, PlazoBien
  <2>2. DOMAIN alertas = {}
    BY DEF Init
  <2> QED
    BY <2>1, <2>2 DEF Tabla
<1>2. IInv /\ PlazoBien /\ Tabla /\ [Next]_vars => IInv' /\ PlazoBien' /\ Tabla'
  BY NextKeeps, PlazoKeeps, TablaKeeps
<1>3. IInv /\ PlazoBien /\ Tabla => TypeOK
  BY DEF IInv, Corren, EnMano, PlazoBien, Tabla, TypeOK
<1> QED
  BY <1>1, <1>2, <1>3, PTL DEF Spec
=============================================================================
