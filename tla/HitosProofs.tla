----------------------------- MODULE HitosProofs -----------------------------
(***************************************************************************)
(* What requests that overlap cannot do to the hitos, for any rows, months,*)
(* movements, documents and texts and any number of sessions.  The argument*)
(* is that of optimistic concurrency without its check: what a session     *)
(* judged is still true at its commit, but for what is in its despues      *)
(* (Coherente for the rows, Respeta for the months).                       *)
(***************************************************************************)
EXTENDS Hitos, TLAPS

Campos == {"rut", "periodo", "estado", "evidencia", "origen", "mov"}

\* A column of row i that the unit of work t sets.
Fija(t, i, columna) == i \in DOMAIN t.cambia /\ columna \in DOMAIN t.cambia[i]

\* It makes a row name the client, in the words the others are compared by.
Reclama(t) ==
    \/ \E n \in t.nuevos : n.hito.rut /\ n.texto = "clave"
    \/ \E i : Fija(t, i, "rut") /\ t.cambia[i].rut

\* The shape of a unit of work: only the detector names a movement, and inserts one row; of the
\* rows that name the client it makes one only by the key; it judged the rows it attaches to.
Simple(t) ==
    /\ \A n \in t.nuevos : DOMAIN n.hito = Campos /\ n.texto \in Textos
    /\ \A n \in t.nuevos : n.hito.mov # Null => t.op = "detectar"
    /\ t.op = "detectar" => \A n, m \in t.nuevos : n = m
    /\ t.nuevos # {} => DOMAIN t.cambia = {}
    /\ \A i : ~Fija(t, i, "mov")
    /\ \A i, j : Fija(t, i, "rut") /\ j \in DOMAIN t.cambia => i = j
    /\ \A n, m \in t.nuevos : n.texto = "clave" /\ m.texto = "clave" => n = m
    /\ Reclama(t) => "causa" \in t.mira
    /\ \A i : Fija(t, i, "evidencia") => i \in t.mira

\* x is the table as somebody sees it: hitos, or what a step makes of it.
Forma(x) == DOMAIN x = Ids /\ \A i \in Ids : x[i] # Null => DOMAIN x[i] = Campos

Unicos(x) ==
    \A i, j \in Ids : x[i] # Null /\ x[j] # Null /\ x[i].mov # Null /\ x[i].mov = x[j].mov => i = j

\* No row outside S names the client.
SinCliente(x, S) == \A j \in Ids \ S : x[j] # Null => ~x[j].rut

\* The movement the detector found has no hito, whatever others did meanwhile.
Detectado(x, t) ==
    \A n \in t.nuevos : n.hito.mov # Null => \A j \in Ids : x[j] # Null => x[j].mov # n.hito.mov

\* What the session of t judged is true, but for what is in D.
Comprobado(x, t, D) ==
    /\ Reclama(t) /\ "causa" \notin D => SinCliente(x, DOMAIN t.cambia)
    /\ \A i \in Ids \ D : Fija(t, i, "evidencia") /\ x[i] # Null => x[i].estado # "aprobado"

Coherente(x, t, D) == Simple(t) /\ Detectado(x, t) /\ Comprobado(x, t, D)

SoloUno == \A g, h \in Lentas : trabajo[g].op = "detectar" /\ trabajo[h].op = "detectar" => g = h

IInv ==
    /\ Forma(hitos) /\ DOMAIN trabajo = Lentas /\ DOMAIN despues = Lentas
    /\ Unicos(hitos)
    /\ SoloUno
    /\ \A h \in Lentas : Coherente(hitos, trabajo[h], despues[h])

-----------------------------------------------------------------------------
(* The units of work *)

LEMMA FormaNo ==
    /\ DOMAIN NoTrabajo = {"op", "mira", "cambia", "nuevos", "borra"}
    /\ NoTrabajo.op = "ninguna" /\ NoTrabajo.mira = {}
    /\ DOMAIN NoTrabajo.cambia = {} /\ NoTrabajo.nuevos = {} /\ NoTrabajo.borra = {}
BY DEF NoTrabajo

LEMMA NoCoherente == ASSUME NEW x, NEW D PROVE Coherente(x, NoTrabajo, D)
BY FormaNo DEF Coherente, Simple, Detectado, Comprobado, Fija, Reclama

LEMMA FormaInserta ==
    ASSUME NEW op, NEW mira, NEW filas
    PROVE  LET t == Inserta(op, mira, filas) IN
           /\ t.op = op /\ t.mira = mira /\ DOMAIN t.cambia = {} /\ t.nuevos = filas /\ t.borra = {}
BY FormaNo DEF Inserta

\* What an update writes: of the rows given, the columns whose value is another.
LEMMA FormaActualiza ==
    ASSUME NEW op, NEW mira, NEW ids, NEW s
    PROVE  LET t == Actualiza(op, mira, ids, s) IN
           /\ t.op = op /\ t.mira = mira /\ t.nuevos = {} /\ t.borra = {}
           /\ DOMAIN t.cambia = Distintas(ids, s) /\ DOMAIN t.cambia \subseteq ids
           /\ \A i, c : Fija(t, i, c) =>
                i \in ids /\ c \in DOMAIN s /\ hitos[i][c] # s[c] /\ t.cambia[i][c] = s[c]
           /\ \A i \in DOMAIN t.cambia : DOMAIN t.cambia[i] \subseteq DOMAIN s
<1> DEFINE t == Actualiza(op, mira, ids, s)
<1>1. /\ t.op = op /\ t.mira = mira /\ t.nuevos = {} /\ t.borra = {}
      /\ t.cambia = [i \in Distintas(ids, s) |-> Cambios(hitos[i], s)]
  BY FormaNo DEF Actualiza
<1> HIDE DEF t
<1>2. \A i : /\ DOMAIN Cambios(hitos[i], s) = {c \in DOMAIN s : s[c] # hitos[i][c]}
             /\ \A c \in DOMAIN Cambios(hitos[i], s) : Cambios(hitos[i], s)[c] = s[c]
  BY DEF Cambios
<1>3. DOMAIN t.cambia = Distintas(ids, s) /\ DOMAIN t.cambia \subseteq ids
  BY <1>1 DEF Distintas
<1>4. \A i \in DOMAIN t.cambia : t.cambia[i] = Cambios(hitos[i], s)
  BY <1>1
<1>5. \A i, c : Fija(t, i, c) =>
         i \in ids /\ c \in DOMAIN s /\ hitos[i][c] # s[c] /\ t.cambia[i][c] = s[c]
  <2> SUFFICES ASSUME NEW i, NEW c, Fija(t, i, c)
               PROVE  i \in ids /\ c \in DOMAIN s /\ hitos[i][c] # s[c] /\ t.cambia[i][c] = s[c]
    OBVIOUS
  <2>1. i \in DOMAIN t.cambia /\ c \in DOMAIN t.cambia[i]
    BY DEF Fija
  <2>2. t.cambia[i] = Cambios(hitos[i], s) /\ i \in ids
    BY <1>3, <1>4, <2>1
  <2>3. c \in DOMAIN Cambios(hitos[i], s)
    BY <2>1, <2>2
  <2>4. c \in DOMAIN s /\ s[c] # hitos[i][c] /\ Cambios(hitos[i], s)[c] = s[c]
    BY <1>2, <2>3
  <2> QED
    BY <2>2, <2>4
<1>6. \A i \in DOMAIN t.cambia : DOMAIN t.cambia[i] \subseteq DOMAIN s
  BY <1>2, <1>4
<1> QED
  BY <1>1, <1>3, <1>5, <1>6 DEF t

\* Rows to insert name the client by the key only if no row does, and a movement only if it is new.
LEMMA InsertaCoherente ==
    ASSUME NEW t, DOMAIN t.cambia = {},
           \A n \in t.nuevos : DOMAIN n.hito = Campos /\ n.texto \in Textos,
           \A n \in t.nuevos : n.hito.mov # Null => t.op = "detectar",
           t.op = "detectar" => \A n, m \in t.nuevos : n = m,
           t.op = "detectar" => \A n \in t.nuevos : \A j \in Existentes : hitos[j].mov # n.hito.mov,
           \A n, m \in t.nuevos : n.texto = "clave" /\ m.texto = "clave" => n = m,
           \A n \in t.nuevos : n.hito.rut /\ n.texto = "clave" =>
                                 "causa" \in t.mira /\ ~HitoExistente(Existentes)
    PROVE  Coherente(hitos, t, {})
<1>1. Reclama(t) => "causa" \in t.mira /\ ~HitoExistente(Existentes)
  BY DEF Reclama, Fija
<1>2. Simple(t) /\ Detectado(hitos, t)
  BY <1>1 DEF Simple, Detectado, Fija, Existentes
<1>3. Comprobado(hitos, t, {})
  BY <1>1 DEF Comprobado, Fija, SinCliente, HitoExistente, Existentes, Nombra
<1> QED
  BY <1>2, <1>3 DEF Coherente

LEMMA ActualizaCoherente ==
    ASSUME NEW op, NEW mira, NEW ids, NEW s, op # "detectar", "mov" \notin DOMAIN s,
           "rut" \in DOMAIN s => \E i : ids = {i} /\
                (s.rut => "causa" \in mira /\ ~HitoExistente(Existentes \ {i})),
           "evidencia" \in DOMAIN s => ids \subseteq mira /\ \A i \in ids : hitos[i].estado # "aprobado"
    PROVE  Coherente(hitos, Actualiza(op, mira, ids, s), {})
<1> DEFINE t == Actualiza(op, mira, ids, s)
<1>1. /\ t.op = op /\ t.mira = mira /\ t.nuevos = {} /\ DOMAIN t.cambia \subseteq ids
      /\ \A i, c : Fija(t, i, c) =>
            i \in ids /\ c \in DOMAIN s /\ hitos[i][c] # s[c] /\ t.cambia[i][c] = s[c]
  BY FormaActualiza
<1> HIDE DEF t
<1>2. \A i : Fija(t, i, "rut") => "rut" \in DOMAIN s /\ ids = {i} /\ t.cambia[i].rut = s.rut
  BY <1>1
<1>3. ASSUME Reclama(t) PROVE "causa" \in mira /\ SinCliente(hitos, DOMAIN t.cambia)
  <2>1. PICK i : Fija(t, i, "rut") /\ t.cambia[i].rut
    BY <1>1, <1>3 DEF Reclama
  <2>2. ids = {i} /\ i \in DOMAIN t.cambia /\ s.rut
    BY <1>2, <2>1 DEF Fija
  <2>3. "rut" \in DOMAIN s
    BY <1>2, <2>1
  <2>4. "causa" \in mira /\ ~HitoExistente(Existentes \ {i})
    BY <2>2, <2>3
  <2> QED
    BY <2>2, <2>4 DEF SinCliente, HitoExistente, Existentes, Nombra
<1>4. \A i : Fija(t, i, "evidencia") => i \in mira /\ hitos[i].estado # "aprobado"
  BY <1>1
<1>5. Simple(t) /\ Detectado(hitos, t)
  <2>1. \A i, j : Fija(t, i, "rut") /\ j \in DOMAIN t.cambia => i = j
    BY <1>1, <1>2
  <2> QED
    BY <1>1, <1>3, <1>4, <2>1 DEF Simple, Detectado
<1>6. Comprobado(hitos, t, {})
  BY <1>3, <1>4 DEF Comprobado
<1> QED
  BY <1>5, <1>6 DEF Coherente, t

\* The rows of a sheet that the import keeps.
LEMMA FormaImportar ==
    ASSUME NEW t \in ImportarTrabajos
    PROVE  \E filas, mira :
             /\ t = Inserta("importar", mira, filas) /\ filas \subseteq FilasNuevas
             /\ \A n \in filas : n.texto = "clave" => "causa" \in mira
             /\ \A n, m \in filas : n.hito = m.hito
             /\ mira \subseteq {"causa"}
<1>1. PICK filas \in {{f, [f EXCEPT !.texto = x]} : f \in FilasNuevas, x \in Textos}
                       \cap SUBSET FilasNuevas :
        t = Inserta("importar", IF filas \cap Conocibles = {} THEN {} ELSE {"causa"}, filas)
  BY DEF ImportarTrabajos
<1> DEFINE mira == IF filas \cap Conocibles = {} THEN {} ELSE {"causa"}
<1>2. filas \subseteq FilasNuevas /\ filas \subseteq Filas
  BY <1>1 DEF FilasNuevas
<1>3. \A n \in filas : n.texto = "clave" => "causa" \in mira
  BY <1>2 DEF Conocibles
<1>4. \A n, m \in filas : n.hito = m.hito
  <2>1. PICK f \in FilasNuevas, x \in Textos : filas = {f, [f EXCEPT !.texto = x]}
    BY <1>1
  <2> DEFINE g == [f EXCEPT !.texto = x]
  <2>2. f = [hito |-> f.hito, texto |-> f.texto]
    BY <2>1 DEF FilasNuevas, Filas
  <2>3. g.hito = f.hito /\ filas = {f, g}
    BY <2>1, <2>2
  <2> HIDE DEF g
  <2> QED
    BY <2>3
<1> QED
  BY <1>1, <1>2, <1>3, <1>4

LEMMA FormaFilas ==
    ASSUME NEW n \in Filas
    PROVE  /\ n = [hito |-> n.hito, texto |-> n.texto] /\ n.texto \in Textos
           /\ n.hito \in Row /\ DOMAIN n.hito = Campos
           /\ n.hito.mov = Null /\ n.hito.rut = TRUE /\ n.hito.origen = "manual"
BY DEF Filas, Row, Campos, Estados

LEMMA FormaNuevo == ASSUME NEW r, NEW x PROVE Nuevo(r, x).hito = r /\ Nuevo(r, x).texto = x
BY DEF Nuevo

LEMMA FormaEdicion ==
    ASSUME NEW t \in EditarTrabajos
    PROVE  \E i \in Existentes, rut \in BOOLEAN, p \in Periodos \ cerrado :
             /\ EnAbiertos({i}) /\ (rut => ~HitoExistente(Existentes \ {i}))
             /\ t = Edicion(i, rut, p)
<1>0. PICK i \in EnMesAbierto :
        t \in {Edicion(i, rut, p) : rut \in PuedeNombrar(i), p \in Periodos \ cerrado}
  BY DEF EditarTrabajos
<1>1. PICK rut \in PuedeNombrar(i), p \in Periodos \ cerrado : t = Edicion(i, rut, p)
  BY <1>0
<1>2. /\ i \in Existentes /\ EnAbiertos({i})
      /\ rut \in BOOLEAN /\ (rut => ~HitoExistente(Existentes \ {i}))
  BY <1>0, <1>1 DEF EnMesAbierto, PuedeNombrar
<1> QED
  BY <1>1, <1>2

LEMMA FormaDetectar ==
    ASSUME NEW t \in DetectarTrabajos
    PROVE  /\ \A h \in Lentas : trabajo[h].op # "detectar"
           /\ \E m \in Movs, p \in Periodos, e \in Evidencias :
                (\A j \in Existentes : hitos[j].mov # m) /\ t = Sugerencia(m, p, e)
<1>1. /\ \A h \in Lentas : trabajo[h].op # "detectar"
      /\ t \in {Sugerencia(m, p, e) :
              m \in Movs \ {hitos[i].mov : i \in Existentes}, p \in Periodos \ cerrado,
              e \in Evidencias}
  BY DEF DetectarTrabajos
<1>2. PICK m \in Movs \ {hitos[i].mov : i \in Existentes}, p \in Periodos \ cerrado, e \in Evidencias :
         t = Sugerencia(m, p, e)
  BY <1>1
<1>3. m \in Movs /\ \A j \in Existentes : hitos[j].mov # m
  BY <1>2
<1> QED
  BY <1>1, <1>2, <1>3

\* The one row that a suggestion inserts.
LEMMA FormaSugerida ==
    ASSUME NEW m \in Movs, NEW p \in Periodos, NEW e \in Evidencias
    PROVE  LET r == Sugerida(m, p, e) IN
           r \in Row /\ DOMAIN r = Campos /\ r.mov = m /\ r.rut = FALSE /\ r.estado = "sugerido"
BY DEF Sugerida, Row, Campos, Estados

LEMMA FormaSugerencia ==
    ASSUME NEW m, NEW p, NEW e
    PROVE  LET t == Sugerencia(m, p, e) IN
           /\ t.op = "detectar" /\ t.mira = {} /\ DOMAIN t.cambia = {} /\ t.borra = {}
           /\ t.nuevos = {Nuevo(Sugerida(m, p, e), "clave")}
BY FormaInserta DEF Sugerencia

\* What a request that begins now would write.
LEMMA TrabajosCoherentes ==
    ASSUME NEW t \in Trabajos
    PROVE  /\ Coherente(hitos, t, {}) /\ t.op # "ninguna"
           /\ t.op = "detectar" => \A h \in Lentas : trabajo[h].op # "detectar"
<1>0. "clave" \in Textos
  BY DEF Textos
<1>1. CASE t \in CrearTrabajos
  <2>1. PICK r : /\ t = Inserta("crear", {"causa"}, {Nuevo(r, "clave")})
                 /\ DOMAIN r = Campos /\ r.mov = Null /\ ~HitoExistente(Existentes)
    BY <1>1 DEF CrearTrabajos, Campos
  <2>2. /\ t.op = "crear" /\ t.mira = {"causa"} /\ DOMAIN t.cambia = {}
        /\ t.nuevos = {Nuevo(r, "clave")}
    BY <2>1, FormaInserta
  <2>3. \A n \in t.nuevos : n = Nuevo(r, "clave") /\ n.hito = r /\ n.texto = "clave"
    BY <2>2, FormaNuevo
  <2> QED
    BY <1>0, <2>1, <2>2, <2>3, InsertaCoherente
<1>2. CASE t \in ImportarTrabajos
  <2>1. PICK filas, mira :
             /\ t = Inserta("importar", mira, filas) /\ filas \subseteq FilasNuevas
             /\ \A n \in filas : n.texto = "clave" => "causa" \in mira
             /\ \A n, m \in filas : n.hito = m.hito
    BY <1>2, FormaImportar
  <2>2. t.op = "importar" /\ t.mira = mira /\ DOMAIN t.cambia = {} /\ t.nuevos = filas
    BY <2>1, FormaInserta
  <2>3. \A n \in filas : n \in Filas /\ (n.texto = "clave" => ~HitoExistente(Existentes))
    BY <2>1 DEF FilasNuevas, Conocibles
  <2>4. \A n \in filas : /\ n = [hito |-> n.hito, texto |-> n.texto] /\ n.texto \in Textos
                         /\ DOMAIN n.hito = Campos /\ n.hito.mov = Null
    BY <2>3, FormaFilas
  <2>5. \A n, m \in filas : n.texto = "clave" /\ m.texto = "clave" => n = m
    BY <2>1, <2>4
  <2> QED
    BY <2>1, <2>2, <2>3, <2>4, <2>5, InsertaCoherente
<1>3. CASE t \in DetectarTrabajos
  <2>1. PICK m \in Movs, p \in Periodos, e \in Evidencias :
          /\ \A h \in Lentas : trabajo[h].op # "detectar"
          /\ \A j \in Existentes : hitos[j].mov # m
          /\ t = Sugerencia(m, p, e)
    BY <1>3, FormaDetectar
  <2> DEFINE r == Sugerida(m, p, e)
  <2>2. DOMAIN r = Campos /\ r.mov = m /\ r.rut = FALSE
    BY <2>1, FormaSugerida
  <2> HIDE DEF r
  <2>3. t.op = "detectar" /\ DOMAIN t.cambia = {} /\ t.nuevos = {Nuevo(r, "clave")}
    BY <2>1, FormaSugerencia DEF r
  <2>4. \A n \in t.nuevos : n = Nuevo(r, "clave") /\ n.hito = r /\ n.texto = "clave"
    BY <2>3, FormaNuevo
  <2> QED
    BY <1>0, <2>1, <2>2, <2>3, <2>4, InsertaCoherente
<1>4. CASE t \in AdjuntarTrabajos
  <2>1. PICK i \in Existentes, e \in Evidencias : t = Adjunta(i, e) /\ hitos[i].estado # "aprobado"
    BY <1>4 DEF AdjuntarTrabajos
  <2> DEFINE s == [evidencia |-> e]
  <2>2. t = Actualiza("adjuntar", {i}, {i}, s) /\ DOMAIN s = {"evidencia"}
    BY <2>1 DEF Adjunta
  <2> HIDE DEF s
  <2>3. t.op = "adjuntar"
    BY <2>2, FormaActualiza
  <2>4. Coherente(hitos, Actualiza("adjuntar", {i}, {i}, s), {})
    BY <2>1, <2>2, ActualizaCoherente
  <2> QED
    BY <2>2, <2>3, <2>4
<1>5. CASE t \in AprobarTrabajos
  <2>1. PICK mira, ids : t = Actualiza("aprobar", mira, ids, [estado |-> "aprobado"])
    BY <1>5 DEF AprobarTrabajos
  <2> QED
    BY <2>1, FormaActualiza, ActualizaCoherente
<1>6. CASE t \in RechazarTrabajos
  <2>1. PICK ids : t = Actualiza("rechazar", {}, ids, [estado |-> "rechazado"])
    BY <1>6 DEF RechazarTrabajos
  <2> QED
    BY <2>1, FormaActualiza, ActualizaCoherente
<1>7. CASE t \in EliminarTrabajos
  <2>1. PICK ids : t = [NoTrabajo EXCEPT !.op = "eliminar", !.mira = ConMeses(ids), !.borra = ids]
    BY <1>7 DEF EliminarTrabajos
  <2>2. t.op = "eliminar" /\ DOMAIN t.cambia = {} /\ t.nuevos = {}
    BY <2>1, FormaNo
  <2> QED
    BY <2>2 DEF Coherente, Simple, Detectado, Comprobado, Fija, Reclama
<1>8. CASE t \in EditarTrabajos
  <2>1. PICK i \in Existentes, rut \in BOOLEAN, p \in Periodos \ cerrado :
          (rut => ~HitoExistente(Existentes \ {i})) /\ t = Edicion(i, rut, p)
    BY <1>8, FormaEdicion
  <2> DEFINE mira == ConMeses({i}) \cup {p} \cup IF rut THEN {"causa"} ELSE {}
             s == [rut |-> rut, periodo |-> p]
  <2>2. t = Actualiza("editar", mira, {i}, s)
    BY <2>1 DEF Edicion
  <2>3. DOMAIN s = {"rut", "periodo"} /\ s.rut = rut /\ (rut => "causa" \in mira)
    OBVIOUS
  <2> HIDE DEF mira, s
  <2>4. t.op = "editar"
    BY <2>2, FormaActualiza
  <2>5. s.rut => "causa" \in mira /\ ~HitoExistente(Existentes \ {i})
    BY <2>1, <2>3
  <2>6. Coherente(hitos, Actualiza("editar", mira, {i}, s), {})
    BY <2>3, <2>5, ActualizaCoherente
  <2> QED
    BY <2>2, <2>4, <2>6
<1> QED
  BY <1>1, <1>2, <1>3, <1>4, <1>5, <1>6, <1>7, <1>8 DEF Trabajos

-----------------------------------------------------------------------------
(* What a transaction does to the table *)

Nueva(x, y, i) == x[i] = Null /\ y[i] # Null

\* The transaction of t takes the table from x to y, its new rows where lugar says.
Efecto(x, y, t, lugar) ==
    /\ DOMAIN y = Ids
    /\ \A i \in Ids :
         \/ y[i] = x[i]
         \/ y[i] = Null /\ i \in t.borra
         \/ x[i] = Null /\ \E n \in t.nuevos : lugar[n] = i /\ y[i] = n.hito
         \/ x[i] # Null /\ i \in DOMAIN t.cambia /\ y[i] = Actualizada(x[i], t.cambia[i])

LEMMA EscribeEfecto ==
    ASSUME NEW t, NEW otras, Escribe(t, otras)
    PROVE  \E lugar : /\ Efecto(hitos, hitos', t, lugar)
                      /\ ajenos' = {lugar[n] : n \in {m \in t.nuevos : m.texto \in Otros}}
                      /\ \A n \in t.nuevos : lugar[n] \in Ids /\ \E m \in t.nuevos : hitos'[lugar[n]] = m.hito
<1>1. DOMAIN t.cambia \subseteq Existentes
  BY DEF Escribe
<1>2. PICK lugar \in Injection(t.nuevos, Ids \ Existentes) :
         /\ hitos' = [i \in Ids |->
              IF i \in Range(lugar) THEN (CHOOSE n \in t.nuevos : lugar[n] = i).hito
              ELSE IF i \in t.borra THEN Null
              ELSE IF i \in DOMAIN t.cambia THEN Actualizada(hitos[i], t.cambia[i])
              ELSE hitos[i]]
         /\ ajenos' = {lugar[n] : n \in {m \in t.nuevos : m.texto \in Otros}}
  BY DEF Escribe
<1>3. lugar \in [t.nuevos -> Ids \ Existentes]
  BY DEF Injection
<1>4. \A i \in Range(lugar) : /\ i \in Ids /\ hitos[i] = Null
                              /\ \E n \in t.nuevos : lugar[n] = i /\ hitos'[i] = n.hito
  <2> SUFFICES ASSUME NEW i \in Range(lugar)
               PROVE  /\ i \in Ids /\ hitos[i] = Null
                      /\ \E n \in t.nuevos : lugar[n] = i /\ hitos'[i] = n.hito
    OBVIOUS
  <2>1. \E n \in t.nuevos : lugar[n] = i
    BY <1>3 DEF Range
  <2>2. i \in Ids /\ hitos[i] = Null
    BY <1>3, <2>1 DEF Existentes
  <2> DEFINE n == CHOOSE m \in t.nuevos : lugar[m] = i
  <2>3. hitos'[i] = n.hito
    BY <1>2, <2>2
  <2>4. n \in t.nuevos /\ lugar[n] = i
    BY <2>1
  <2> HIDE DEF n
  <2> QED
    BY <2>2, <2>3, <2>4
<1>5. \A i \in Ids \ Range(lugar) :
        \/ hitos'[i] = hitos[i]
        \/ hitos'[i] = Null /\ i \in t.borra
        \/ hitos[i] # Null /\ i \in DOMAIN t.cambia /\ hitos'[i] = Actualizada(hitos[i], t.cambia[i])
  BY <1>1, <1>2 DEF Existentes
<1>6. Efecto(hitos, hitos', t, lugar)
  BY <1>2, <1>4, <1>5 DEF Efecto
<1>7. \A n \in t.nuevos : lugar[n] \in Range(lugar)
  BY <1>3 DEF Range
<1> QED
  BY <1>2, <1>4, <1>6, <1>7

\* A row that stays keeps the columns the unit of work does not set, and is given those it sets.
LEMMA Columnas ==
    ASSUME NEW x, NEW y, NEW t, NEW lugar, Forma(x), Simple(t), Efecto(x, y, t, lugar),
           NEW i \in Ids, x[i] # Null, y[i] # Null
    PROVE  /\ DOMAIN y[i] = Campos /\ y[i].mov = x[i].mov
           /\ y[i].rut = x[i].rut \/ (Fija(t, i, "rut") /\ y[i].rut = t.cambia[i].rut)
           /\ y[i].evidencia = x[i].evidencia \/ Fija(t, i, "evidencia")
<1>1. DOMAIN x[i] = Campos
  BY DEF Forma
<1>2. CASE y[i] = x[i]
  BY <1>1, <1>2
<1>3. CASE i \in DOMAIN t.cambia /\ y[i] = Actualizada(x[i], t.cambia[i])
  <2>1. "mov" \notin DOMAIN t.cambia[i]
    BY <1>3 DEF Simple, Fija
  <2> QED
    BY <1>1, <1>3, <2>1 DEF Actualizada, Campos, Fija
<1> QED
  BY <1>2, <1>3 DEF Efecto

\* A row that appears is one the unit of work inserts.
LEMMA Insercion ==
    ASSUME NEW x, NEW y, NEW t, NEW lugar, Efecto(x, y, t, lugar), NEW i \in Ids, Nueva(x, y, i)
    PROVE  \E n \in t.nuevos : lugar[n] = i /\ y[i] = n.hito
BY DEF Efecto, Nueva

LEMMA EfectoForma ==
    ASSUME NEW x, NEW y, NEW t, NEW lugar, Forma(x), Simple(t), Efecto(x, y, t, lugar)
    PROVE  Forma(y)
<1> SUFFICES ASSUME NEW i \in Ids, y[i] # Null PROVE DOMAIN y[i] = Campos
  BY DEF Forma, Efecto
<1>1. CASE x[i] = Null
  BY <1>1, Insercion DEF Simple, Nueva
<1>2. CASE x[i] # Null
  BY <1>2, Columnas
<1> QED
  BY <1>1, <1>2

LEMMA EfectoUnicos ==
    ASSUME NEW x, NEW y, NEW t, NEW lugar, Forma(x), Simple(t), Efecto(x, y, t, lugar),
           Unicos(x), Detectado(x, t)
    PROVE  Unicos(y)
<1> SUFFICES ASSUME NEW i \in Ids, NEW j \in Ids, y[i] # Null, y[j] # Null,
                    y[i].mov # Null, y[i].mov = y[j].mov
             PROVE  i = j
  BY DEF Unicos
<1>1. \A k \in Ids : y[k] # Null => x[k] = Null \/ x[k].mov = y[k].mov
  BY Columnas
<1>2. \A k \in Ids : Nueva(x, y, k) => \E n \in t.nuevos : lugar[n] = k /\ y[k].mov = n.hito.mov
  BY Insercion
<1>3. \A k, l \in Ids : Nueva(x, y, k) /\ y[l] # Null /\ x[l] # Null /\ y[k].mov # Null
                         => y[k].mov # y[l].mov
  BY <1>1, <1>2 DEF Detectado
<1>4. CASE x[i] # Null /\ x[j] # Null
  BY <1>1, <1>4 DEF Unicos
<1>5. CASE x[i] = Null /\ x[j] = Null
  BY <1>2, <1>5 DEF Nueva, Simple
<1>6. CASE x[i] = Null /\ x[j] # Null
  BY <1>3, <1>6 DEF Nueva
<1>7. CASE x[i] # Null /\ x[j] = Null
  BY <1>3, <1>7 DEF Nueva
<1> QED
  BY <1>4, <1>5, <1>6, <1>7

\* What a session of u misses when others take the table from x to y.
Avisa(x, y, u, E) ==
    /\ \A i \in Ids \cap u.mira : y[i] # x[i] => i \in E
    /\ "causa" \in u.mira \ E =>
         \A i \in Ids \ DOMAIN u.cambia : y[i] # Null /\ y[i].rut => x[i] # Null /\ x[i].rut

\* What another session has judged stays true but for what it misses.
LEMMA OtroCoherente ==
    ASSUME NEW x, NEW y, NEW t, NEW lugar, Forma(x), Simple(t), Efecto(x, y, t, lugar),
           NEW u, NEW D, NEW E, Coherente(x, u, D), D \subseteq E, Avisa(x, y, u, E),
           t.op = "detectar" => u.op # "detectar"
    PROVE  Coherente(y, u, E)
<1>1. Detectado(y, u)
  <2> SUFFICES ASSUME NEW n \in u.nuevos, n.hito.mov # Null, NEW j \in Ids, y[j] # Null
               PROVE  y[j].mov # n.hito.mov
    BY DEF Detectado
  <2>1. CASE x[j] # Null
    BY <2>1, Columnas DEF Coherente, Detectado
  <2>2. CASE x[j] = Null
    <3>1. y[j].mov # Null => t.op = "detectar"
      BY <2>2, Insercion DEF Nueva, Simple
    <3>2. u.op = "detectar"
      BY DEF Coherente, Simple
    <3> QED
      BY <3>1, <3>2
  <2> QED
    BY <2>1, <2>2
<1>2. Reclama(u) /\ "causa" \notin E => SinCliente(y, DOMAIN u.cambia)
  <2> SUFFICES ASSUME Reclama(u), "causa" \notin E PROVE SinCliente(y, DOMAIN u.cambia)
    OBVIOUS
  <2>1. "causa" \in u.mira \ E /\ SinCliente(x, DOMAIN u.cambia)
    BY DEF Coherente, Simple, Comprobado
  <2> QED
    BY <2>1 DEF Avisa, SinCliente
<1>3. \A i \in Ids \ E : Fija(u, i, "evidencia") /\ y[i] # Null => y[i].estado # "aprobado"
  BY DEF Coherente, Simple, Comprobado, Avisa
<1> QED
  BY <1>1, <1>2, <1>3 DEF Coherente, Comprobado

LEMMA MismaCoherente ==
    ASSUME NEW x, NEW u, NEW D, NEW E, Coherente(x, u, D), D \subseteq E
    PROVE  Coherente(x, u, E)
BY DEF Coherente, Comprobado

\* A second row of the client, by the key, needs a change that was missed.
LEMMA SegundaFila ==
    ASSUME NEW x, NEW y, NEW t, NEW lugar, NEW D, Forma(x), Coherente(x, t, D),
           Efecto(x, y, t, lugar),
           NEW i \in Ids, NEW j \in Ids, i # j, y[i] # Null, y[j] # Null,
           y[i].rut, y[j].rut, x[i] = Null \/ ~x[i].rut,
           \A n \in t.nuevos : lugar[n] \in {i, j} => n.texto = "clave"
    PROVE  "causa" \in D
<1> SUFFICES ASSUME "causa" \notin D PROVE FALSE
  OBVIOUS
<1>1. Simple(t) /\ (Reclama(t) => SinCliente(x, DOMAIN t.cambia))
  BY DEF Coherente, Comprobado
<1>2. CASE x[i] = Null
  <2>1. PICK n \in t.nuevos : lugar[n] = i /\ y[i] = n.hito
    BY <1>2, Insercion DEF Nueva
  <2>2. Reclama(t) /\ DOMAIN t.cambia = {}
    BY <1>1, <2>1 DEF Reclama, Simple
  <2>3. SinCliente(x, {})
    BY <1>1, <2>2
  <2>4. CASE x[j] = Null
    <3>1. PICK m \in t.nuevos : lugar[m] = j /\ y[j] = m.hito
      BY <2>4, Insercion DEF Nueva
    <3>2. n = m
      BY <1>1, <2>1, <3>1 DEF Simple
    <3> QED
      BY <2>1, <3>1, <3>2
  <2>5. CASE x[j] # Null
    <3>1. ~Fija(t, j, "rut") /\ ~x[j].rut
      BY <2>2, <2>3, <2>5 DEF Fija, SinCliente
    <3> QED
      BY <1>1, <2>5, <3>1, Columnas
  <2> QED
    BY <2>4, <2>5
<1>3. CASE x[i] # Null
  <2>1. Fija(t, i, "rut") /\ t.cambia[i].rut
    BY <1>1, <1>3, Columnas
  <2>2. Reclama(t) /\ i \in DOMAIN t.cambia
    BY <2>1 DEF Reclama, Fija
  <2>3. SinCliente(x, DOMAIN t.cambia) /\ j \notin DOMAIN t.cambia /\ t.nuevos = {}
    BY <1>1, <2>1, <2>2 DEF Simple
  <2>4. x[j] # Null
    BY <2>3, Insercion DEF Nueva
  <2>5. ~Fija(t, j, "rut") /\ ~x[j].rut
    BY <2>3, <2>4 DEF Fija, SinCliente
  <2> QED
    BY <1>1, <2>4, <2>5, Columnas
<1> QED
  BY <1>2, <1>3

LEMMA OtraEvidencia ==
    ASSUME NEW x, NEW y, NEW t, NEW lugar, NEW D, Forma(x), Coherente(x, t, D),
           Efecto(x, y, t, lugar), NEW i \in Ids, x[i] # Null, y[i] # Null,
           x[i].estado = "aprobado", x[i].evidencia # y[i].evidencia
    PROVE  i \in D
<1>1. Simple(t) /\ Comprobado(x, t, D)
  BY DEF Coherente
<1>2. Fija(t, i, "evidencia")
  BY <1>1, Columnas
<1> QED
  BY <1>1, <1>2 DEF Comprobado

-----------------------------------------------------------------------------
(* The steps *)

LEMMA InitKeeps == Init => IInv
BY FormaNo, NoCoherente DEF Init, IInv, Forma, Unicos, SoloUno

LEMMA LeeKeeps == ASSUME IInv, NEW h \in Lentas, Lee(h) PROVE IInv'
<1>1. PICK t \in Trabajos : trabajo' = [trabajo EXCEPT ![h] = t]
  BY DEF Lee
<1>2. /\ DOMAIN trabajo' = Lentas /\ \A g \in Lentas : trabajo'[g] = IF g = h THEN t ELSE trabajo[g]
      /\ DOMAIN despues' = Lentas /\ \A g \in Lentas : despues'[g] = IF g = h THEN {} ELSE despues[g]
      /\ hitos' = hitos
  BY <1>1 DEF Lee, IInv
<1>3. /\ Coherente(hitos, t, {})
      /\ t.op = "detectar" => \A g \in Lentas : trabajo[g].op # "detectar"
  BY TrabajosCoherentes
<1>4. SoloUno'
  BY <1>2, <1>3 DEF IInv, SoloUno
<1>5. \A g \in Lentas : Coherente(hitos', trabajo'[g], despues'[g])
  BY <1>2, <1>3 DEF IInv
<1> QED
  BY <1>2, <1>4, <1>5 DEF IInv

\* A session that ends, and the passing of a close, leave the table alone.
LEMMA SinTablaKeeps ==
    ASSUME IInv, hitos' = hitos, DOMAIN trabajo' = Lentas, DOMAIN despues' = Lentas,
           \A h \in Lentas : \/ trabajo'[h] = NoTrabajo
                             \/ trabajo'[h] = trabajo[h] /\ despues[h] \subseteq despues'[h]
    PROVE  IInv'
<1>1. SoloUno'
  BY FormaNo DEF IInv, SoloUno
<1>2. \A h \in Lentas : Coherente(hitos', trabajo'[h], despues'[h])
  BY NoCoherente, MismaCoherente DEF IInv
<1> QED
  BY <1>1, <1>2 DEF IInv

\* What a transaction tells the other sessions is all that it changes of what they judged.
LEMMA EscribeAvisa ==
    ASSUME NEW t, NEW otras, Escribe(t, otras), NEW h \in otras \cap Lentas, ~Ociosa(h)
    PROVE  /\ Avisa(hitos, hitos', trabajo[h], despues'[h])
           /\ despues'[h] = despues[h] \cup Pierde(h)
<1>1. despues'[h] = despues[h] \cup Pierde(h)
  BY DEF Escribe
<1>2. \A i \in Ids \cap trabajo[h].mira : hitos'[i] # hitos[i] => i \in Pierde(h)
  BY DEF Pierde
<1>3. ASSUME "causa" \in trabajo[h].mira \ Pierde(h), NEW i \in Ids \ DOMAIN trabajo[h].cambia,
             hitos'[i] # Null /\ hitos'[i].rut
      PROVE  hitos[i] # Null /\ hitos[i].rut
  BY <1>3 DEF Pierde, Nombra
<1> QED
  BY <1>1, <1>2, <1>3 DEF Avisa

\* A transaction: of the session g, or of a request nobody interrupts.
LEMMA EscribeKeeps ==
    ASSUME IInv, NEW t, NEW D, Coherente(hitos, t, D), NEW otras, Escribe(t, otras),
           DOMAIN trabajo' = Lentas,
           \A h \in Lentas : \/ trabajo'[h] = NoTrabajo
                             \/ /\ h \in otras /\ trabajo'[h] = trabajo[h]
                                /\ t.op = "detectar" => trabajo[h].op # "detectar"
    PROVE  IInv'
<1>1. PICK lugar : Efecto(hitos, hitos', t, lugar)
  BY EscribeEfecto
<1>2. Simple(t) /\ Detectado(hitos, t)
  BY DEF Coherente
<1>3. Forma(hitos') /\ Unicos(hitos')
  BY <1>1, <1>2, EfectoForma, EfectoUnicos DEF IInv
<1>4. ASSUME NEW h \in Lentas, trabajo'[h] # NoTrabajo
      PROVE  Coherente(hitos', trabajo'[h], despues'[h])
  <2>1. /\ h \in otras /\ trabajo'[h] = trabajo[h] /\ ~Ociosa(h)
        /\ t.op = "detectar" => trabajo[h].op # "detectar"
    BY <1>4 DEF Ociosa
  <2>2. Avisa(hitos, hitos', trabajo[h], despues'[h]) /\ despues[h] \subseteq despues'[h]
    BY <2>1, EscribeAvisa
  <2>3. Forma(hitos) /\ Coherente(hitos, trabajo[h], despues[h])
    BY DEF IInv
  <2> QED
    BY <1>1, <1>2, <2>1, <2>2, <2>3, OtroCoherente
<1>5. SoloUno'
  BY FormaNo DEF IInv, SoloUno
<1>6. DOMAIN despues' = Lentas
  BY DEF Escribe
<1> QED
  BY <1>3, <1>4, <1>5, <1>6, NoCoherente DEF IInv

LEMMA CommitKeeps == ASSUME IInv, NEW g \in Lentas, Commit(g) PROVE IInv'
<1>1. Coherente(hitos, trabajo[g], despues[g]) /\ Escribe(trabajo[g], Lentas \ {g})
  BY DEF Commit, IInv
<1>2. /\ DOMAIN trabajo' = Lentas
      /\ \A h \in Lentas : trabajo'[h] = IF h = g THEN NoTrabajo ELSE trabajo[h]
  BY DEF Commit, IInv
<1>3. \A h \in Lentas : h # g /\ trabajo[g].op = "detectar" => trabajo[h].op # "detectar"
  BY DEF IInv, SoloUno
<1> QED
  BY <1>1, <1>2, <1>3, EscribeKeeps

LEMMA AtiendeKeeps == ASSUME IInv, Atiende PROVE IInv'
<1>1. PICK t \in Trabajos : Escribe(t, Lentas)
  BY DEF Atiende
<1>2. /\ Coherente(hitos, t, {})
      /\ t.op = "detectar" => \A h \in Lentas : trabajo[h].op # "detectar"
  BY TrabajosCoherentes
<1>3. trabajo' = trabajo /\ DOMAIN trabajo' = Lentas
  BY DEF Atiende, IInv
<1> QED
  BY <1>1, <1>2, <1>3, EscribeKeeps

LEMMA NextKeeps == IInv /\ [Next]_vars => IInv'
<1> SUFFICES ASSUME IInv, [Next]_vars PROVE IInv'
  OBVIOUS
<1>1. CASE \E h \in Lentas : Lee(h)
  BY <1>1, LeeKeeps
<1>2. CASE \E h \in Lentas : Commit(h)
  BY <1>2, CommitKeeps
<1>3. CASE \E h \in Lentas : Rollback(h)
  BY <1>3, SinTablaKeeps DEF Rollback, IInv
<1>4. CASE Atiende
  BY <1>4, AtiendeKeeps
<1>5. CASE \E p \in Periodos : CerrarPeriodo(p)
  BY <1>5, SinTablaKeeps DEF CerrarPeriodo, IInv
<1>6. CASE (\E p \in Periodos : ReabrirPeriodo(p)) \/ UNCHANGED vars
  BY <1>6, SinTablaKeeps DEF ReabrirPeriodo, vars, IInv
<1> QED
  BY <1>1, <1>2, <1>3, <1>4, <1>5, <1>6 DEF Next

\* Every step that changes the table is a transaction whose session judged right, but for what
\* it missed.
LEMMA Escrituras ==
    ASSUME IInv, [Next]_vars, hitos' # hitos
    PROVE  \E t, D, lugar :
             /\ Coherente(hitos, t, D) /\ Efecto(hitos, hitos', t, lugar)
             /\ ajenos' = {lugar[n] : n \in {m \in t.nuevos : m.texto \in Otros}}
             /\ \A x : D \cap x # {} => Perdio(x)
<1>1. CASE \E h \in Lentas : Commit(h)
  <2>1. PICK h \in Lentas : Commit(h)
    BY <1>1
  <2>2. Coherente(hitos, trabajo[h], despues[h])
    BY DEF IInv
  <2>3. PICK lugar : /\ Efecto(hitos, hitos', trabajo[h], lugar)
                     /\ ajenos' = {lugar[n] : n \in {m \in trabajo[h].nuevos : m.texto \in Otros}}
    BY <2>1, EscribeEfecto DEF Commit
  <2>4. ~Ociosa(h) /\ trabajo'[h] = NoTrabajo
    BY <2>1 DEF Commit, IInv
  <2>5. \A x : despues[h] \cap x # {} => Perdio(x)
    BY <2>4 DEF Perdio
  <2> QED
    BY <2>2, <2>3, <2>5
<1>2. CASE Atiende
  <2>1. PICK t \in Trabajos : Escribe(t, Lentas)
    BY <1>2 DEF Atiende
  <2>2. Coherente(hitos, t, {})
    BY <2>1, TrabajosCoherentes
  <2>3. PICK lugar : /\ Efecto(hitos, hitos', t, lugar)
                     /\ ajenos' = {lugar[n] : n \in {m \in t.nuevos : m.texto \in Otros}}
    BY <2>1, EscribeEfecto
  <2>4. \A x : {} \cap x # {} => Perdio(x)
    OBVIOUS
  <2> QED
    BY <2>2, <2>3, <2>4
<1> QED
  BY <1>1, <1>2 DEF Next, vars, Lee, Rollback, CerrarPeriodo, ReabrirPeriodo

-----------------------------------------------------------------------------
(* The theorems *)

LEMMA Inductive == Spec => []IInv
BY InitKeeps, NextKeeps, PTL DEF Spec

\* At most one hito stands for a movement of the docket, whatever is rejected, deleted, edited
\* or detected again, as long as the detector runs alone (hito_detector.detectar).
THEOREM OneHitoAlways == Spec => []OneHitoPerMovement
<1>1. IInv => OneHitoPerMovement
  BY DEF IInv, Unicos, OneHitoPerMovement, Existentes
<1> QED
  BY Inductive, <1>1, PTL

\* A second hito of a causa comes only from a request that missed a row that came to name the
\* client, or from a sheet that writes the causa otherwise than by its key (_hito_existente in
\* create and edit, _HitoDedupTracker in the import).
THEOREM DuplicatesOnlyByKnownGapsAlways == Spec => DuplicatesOnlyByKnownGaps
<1> DEFINE A == \A i, j \in Ids :
         /\ i # j
         /\ Nombra(i)' /\ Nombra(j)' /\ ~(Nombra(i) /\ Nombra(j))
         => Perdio({"causa"}) \/ {i, j} \cap ajenos' # {}
<1>1. ASSUME IInv, [Next]_vars PROVE A
  <2> SUFFICES ASSUME NEW i \in Ids, NEW j \in Ids, i # j, hitos'[i] # Null, hitos'[j] # Null,
                      hitos'[i].rut, hitos'[j].rut,
                      \/ hitos[i] = Null \/ ~hitos[i].rut
                      \/ hitos[j] = Null \/ ~hitos[j].rut,
                      {i, j} \cap ajenos' = {}
               PROVE  Perdio({"causa"})
    BY DEF Nombra
  <2>1. hitos' # hitos
    OBVIOUS
  <2>2. PICK t, D, lugar :
             /\ Coherente(hitos, t, D) /\ Efecto(hitos, hitos', t, lugar)
             /\ ajenos' = {lugar[n] : n \in {m \in t.nuevos : m.texto \in Otros}}
             /\ \A x : D \cap x # {} => Perdio(x)
    BY <1>1, <2>1, Escrituras
  <2>3. \A n \in t.nuevos : lugar[n] \in {i, j} => n.texto = "clave"
    <3> SUFFICES ASSUME NEW n \in t.nuevos, lugar[n] \in {i, j} PROVE n.texto = "clave"
      OBVIOUS
    <3>1. n.texto \in Textos
      BY <2>2 DEF Coherente, Simple
    <3>2. n.texto \notin Otros
      BY <2>2
    <3> QED
      BY <3>1, <3>2 DEF Textos
  <2>4. Forma(hitos) /\ Coherente(hitos, t, D) /\ Efecto(hitos, hitos', t, lugar)
    BY <1>1, <2>2 DEF IInv
  <2>5. CASE hitos[i] = Null \/ ~hitos[i].rut
    BY <2>2, <2>3, <2>4, <2>5, SegundaFila
  <2>6. CASE hitos[j] = Null \/ ~hitos[j].rut
    BY <2>2, <2>3, <2>4, <2>6, SegundaFila
  <2> QED
    BY <2>5, <2>6
<1>2. IInv /\ [Next]_vars => [A]_vars
  BY <1>1
<1> QED
  BY Inductive, <1>2, PTL DEF Spec, DuplicatesOnlyByKnownGaps

\* The evidence of an approved hito is attached or replaced only under a request that missed a
\* change of that hito (the state check of the evidence upload, before it is awaited).
THEOREM EvidenceFrozenAlways == Spec => EvidenceFrozenUnlessOverlap
<1> DEFINE A == \A i \in Ids :
         IF Null \in {hitos[i], hitos'[i]} THEN TRUE
         ELSE hitos[i].estado = "aprobado" /\ hitos[i].evidencia # hitos'[i].evidencia
                => Perdio({i})
<1>1. ASSUME IInv, [Next]_vars PROVE A
  <2> SUFFICES ASSUME NEW i \in Ids, hitos[i] # Null, hitos'[i] # Null,
                      hitos[i].estado = "aprobado", hitos[i].evidencia # hitos'[i].evidencia
               PROVE  Perdio({i})
    OBVIOUS
  <2>1. hitos' # hitos
    OBVIOUS
  <2>2. PICK t, D, lugar : /\ Coherente(hitos, t, D) /\ Efecto(hitos, hitos', t, lugar)
                           /\ \A x : D \cap x # {} => Perdio(x)
    BY <1>1, <2>1, Escrituras
  <2>3. i \in D
    BY <1>1, <2>2, OtraEvidencia DEF IInv
  <2> QED
    BY <2>2, <2>3
<1>2. IInv /\ [Next]_vars => [A]_vars
  BY <1>1
<1> QED
  BY Inductive, <1>2, PTL DEF Spec, EvidenceFrozenUnlessOverlap

-----------------------------------------------------------------------------
(* The types, and the close                                                *)

Juzgable == Ids \cup Periodos \cup {"causa"}

\* The rows it inserts are rows; it sets no origen and no movement, and values of their type.
Tipado(t) ==
    /\ t.mira \subseteq Juzgable
    /\ \A n \in t.nuevos : n.hito \in Row
    /\ \A i \in Ids :
         /\ Fija(t, i, "rut") => t.cambia[i].rut \in BOOLEAN
         /\ Fija(t, i, "evidencia") => t.cambia[i].evidencia \in Evidencias
         /\ Fija(t, i, "periodo") => t.cambia[i].periodo \in Periodos
         /\ Fija(t, i, "estado") => t.cambia[i].estado \in Estados
         /\ ~Fija(t, i, "origen") /\ ~Fija(t, i, "mov")

\* Its only change of row i, if any, is to reject it.
SoloRechaza(t, i) ==
    /\ i \notin t.borra /\ ~Fija(t, i, "periodo")
    /\ Fija(t, i, "estado") => DOMAIN t.cambia[i] = {"estado"} /\ t.cambia[i].estado = "rechazado"

\* What t would write in the closed months c, but for what is in D: it moves no hito into them,
\* a hito of them it does not know to have been in an open month it can only reject, and an
\* approved row it inserts is one a person imports.
Respeta(x, c, t, D) ==
    /\ \A n \in t.nuevos : n.hito.estado = "aprobado" => n.hito.origen = "manual"
    /\ \A i \in Ids : Fija(t, i, "periodo") =>
         t.cambia[i].periodo \in t.mira /\ t.cambia[i].periodo \notin c \ D
    /\ \A i \in Ids : SoloRechaza(t, i) \/
         /\ i \in t.mira
         /\ i \notin D /\ x[i] # Null => x[i].periodo \in t.mira /\ x[i].periodo \notin c \ D

TInv == TypeOK /\ \A h \in Lentas : Tipado(trabajo[h])

CInv == \A h \in Lentas : Respeta(hitos, cerrado, trabajo[h], despues[h])

LEMMA NoRespeta == ASSUME NEW x, NEW c, NEW D PROVE Tipado(NoTrabajo) /\ Respeta(x, c, NoTrabajo, D)
BY FormaNo DEF Tipado, Respeta, SoloRechaza, Fija

LEMMA InsertaRespeta ==
    ASSUME NEW t, DOMAIN t.cambia = {}, t.borra = {}, t.mira \subseteq Juzgable,
           \A n \in t.nuevos : n.hito \in Row /\ (n.hito.estado = "aprobado" => n.hito.origen = "manual")
    PROVE  Tipado(t) /\ Respeta(hitos, cerrado, t, {})
BY DEF Tipado, Respeta, SoloRechaza, Fija

\* An update of the columns of s, which are of their types, in rows that it may update.
LEMMA ActualizaRespeta ==
    ASSUME NEW op, NEW mira, mira \subseteq Juzgable, NEW ids, NEW s,
           DOMAIN s \subseteq {"rut", "evidencia", "periodo", "estado"},
           "rut" \in DOMAIN s => s.rut \in BOOLEAN,
           "evidencia" \in DOMAIN s => s.evidencia \in Evidencias,
           "periodo" \in DOMAIN s => s.periodo \in Periodos \ cerrado /\ s.periodo \in mira,
           "estado" \in DOMAIN s => s.estado \in Estados,
           \A i \in ids :
             \/ s = [estado |-> "rechazado"]
             \/ DOMAIN s = {"evidencia"}
             \/ i \in mira /\ hitos[i].periodo \in mira \ cerrado
    PROVE  LET t == Actualiza(op, mira, ids, s) IN Tipado(t) /\ Respeta(hitos, cerrado, t, {})
<1> DEFINE t == Actualiza(op, mira, ids, s)
<1>1. /\ t.mira = mira /\ t.nuevos = {} /\ t.borra = {} /\ DOMAIN t.cambia \subseteq ids
      /\ \A i, c : Fija(t, i, c) =>
            i \in ids /\ c \in DOMAIN s /\ hitos[i][c] # s[c] /\ t.cambia[i][c] = s[c]
      /\ \A i \in DOMAIN t.cambia : DOMAIN t.cambia[i] \subseteq DOMAIN s
  BY FormaActualiza
<1> HIDE DEF t
<1>2. Tipado(t)
  <2>1. \A i : /\ Fija(t, i, "rut") => "rut" \in DOMAIN s /\ t.cambia[i].rut = s.rut
               /\ Fija(t, i, "evidencia") => "evidencia" \in DOMAIN s /\ t.cambia[i].evidencia = s.evidencia
               /\ Fija(t, i, "periodo") => "periodo" \in DOMAIN s /\ t.cambia[i].periodo = s.periodo
               /\ Fija(t, i, "estado") => "estado" \in DOMAIN s /\ t.cambia[i].estado = s.estado
               /\ ~Fija(t, i, "origen") /\ ~Fija(t, i, "mov")
    BY <1>1
  <2> QED
    BY <1>1, <2>1 DEF Tipado
<1>3. \A i \in Ids : SoloRechaza(t, i) \/ i \in ids
  BY <1>1 DEF SoloRechaza, Fija
<1>4. ASSUME NEW i \in Ids, s = [estado |-> "rechazado"] PROVE SoloRechaza(t, i)
  <2>1. DOMAIN s = {"estado"} /\ s.estado = "rechazado"
    BY <1>4
  <2>2. ASSUME Fija(t, i, "estado")
        PROVE  DOMAIN t.cambia[i] = {"estado"} /\ t.cambia[i].estado = "rechazado"
    <3>1. t.cambia[i].estado = "rechazado" /\ i \in DOMAIN t.cambia /\ "estado" \in DOMAIN t.cambia[i]
      BY <1>1, <2>1, <2>2 DEF Fija
    <3> QED
      BY <1>1, <2>1, <3>1
  <2> QED
    BY <1>1, <2>1, <2>2 DEF SoloRechaza
<1>5. ASSUME NEW i \in Ids, DOMAIN s = {"evidencia"} PROVE SoloRechaza(t, i)
  BY <1>1, <1>5 DEF SoloRechaza
<1>6. \A i \in Ids : SoloRechaza(t, i) \/ (i \in mira /\ hitos[i].periodo \in mira \ cerrado)
  BY <1>3, <1>4, <1>5
<1>7. \A i \in Ids : Fija(t, i, "periodo") =>
         t.cambia[i].periodo \in t.mira /\ t.cambia[i].periodo \notin cerrado
  BY <1>1
<1> QED
  BY <1>1, <1>2, <1>6, <1>7 DEF t, Respeta

LEMMA FilasTipadas ==
    ASSUME TInv, NEW ids, ids \subseteq Existentes
    PROVE  /\ \A i \in ids : hitos[i] \in Row /\ hitos[i].periodo \in Periodos
           /\ ConMeses(ids) \subseteq Juzgable
           /\ \A i \in ids : i \in ConMeses(ids) /\ hitos[i].periodo \in ConMeses(ids)
<1>1. \A i \in ids : hitos[i] \in Row /\ i \in Ids
  BY DEF TInv, TypeOK, Existentes
<1>2. \A i \in ids : hitos[i].periodo \in Periodos
  BY <1>1 DEF Row
<1> QED
  BY <1>1, <1>2 DEF ConMeses, Juzgable

\* What a request that begins now would write respects the types and the months closed now.
LEMMA TrabajosRespetan ==
    ASSUME TInv, NEW t \in Trabajos
    PROVE  Tipado(t) /\ Respeta(hitos, cerrado, t, {})
<1>1. CASE t \in CrearTrabajos
  <2>1. PICK r : t = Inserta("crear", {"causa"}, {Nuevo(r, "clave")}) /\ r \in Row /\ r.estado = "pendiente"
    BY <1>1 DEF CrearTrabajos, Row, Estados
  <2>2. /\ t.mira = {"causa"} /\ DOMAIN t.cambia = {} /\ t.borra = {}
        /\ t.nuevos = {Nuevo(r, "clave")}
    BY <2>1, FormaInserta
  <2>3. \A n \in t.nuevos : n.hito = r
    BY <2>2, FormaNuevo
  <2> QED
    BY <2>1, <2>2, <2>3, InsertaRespeta DEF Juzgable
<1>2. CASE t \in ImportarTrabajos
  <2>1. PICK filas, mira :
             /\ t = Inserta("importar", mira, filas) /\ filas \subseteq FilasNuevas
             /\ mira \subseteq {"causa"}
    BY <1>2, FormaImportar
  <2>2. t.mira = mira /\ DOMAIN t.cambia = {} /\ t.borra = {} /\ t.nuevos = filas
    BY <2>1, FormaInserta
  <2>3. \A n \in filas : n.hito \in Row /\ n.hito.origen = "manual"
    BY <2>1, FormaFilas DEF FilasNuevas
  <2> QED
    BY <2>1, <2>2, <2>3, InsertaRespeta DEF Juzgable
<1>3. CASE t \in DetectarTrabajos
  <2>1. PICK m \in Movs, p \in Periodos, e \in Evidencias : t = Sugerencia(m, p, e)
    BY <1>3, FormaDetectar
  <2> DEFINE r == Sugerida(m, p, e)
  <2>2. r \in Row /\ r.estado = "sugerido"
    BY <2>1, FormaSugerida
  <2> HIDE DEF r
  <2>3. t.mira = {} /\ DOMAIN t.cambia = {} /\ t.borra = {} /\ t.nuevos = {Nuevo(r, "clave")}
    BY <2>1, FormaSugerencia DEF r
  <2>4. \A n \in t.nuevos : n.hito = r
    BY <2>3, FormaNuevo
  <2> QED
    BY <2>2, <2>3, <2>4, InsertaRespeta DEF Juzgable
<1>4. CASE t \in AdjuntarTrabajos
  <2>1. PICK i \in Existentes, e \in Evidencias : t = Adjunta(i, e)
    BY <1>4 DEF AdjuntarTrabajos
  <2> DEFINE s == [evidencia |-> e]
  <2>2. t = Actualiza("adjuntar", {i}, {i}, s) /\ DOMAIN s = {"evidencia"} /\ s.evidencia \in Evidencias
    BY <2>1 DEF Adjunta
  <2>3. {i} \subseteq Juzgable
    BY DEF Existentes, Juzgable
  <2> HIDE DEF s
  <2>4. LET u == Actualiza("adjuntar", {i}, {i}, s) IN Tipado(u) /\ Respeta(hitos, cerrado, u, {})
    BY <2>2, <2>3, ActualizaRespeta
  <2> QED
    BY <2>2, <2>4
<1>5. CASE t \in AprobarTrabajos
  <2>1. PICK ids \in {s \in SUBSET Existentes : EnAbiertos(s)} :
          t = LET completos == {i \in ids : ~FaltaEvidencia(hitos[i])}
                  pasan == Distintas(completos, [estado |-> "aprobado"]) IN
              Actualiza("aprobar", ConMeses(pasan), pasan, [estado |-> "aprobado"])
    BY <1>5 DEF AprobarTrabajos
  <2> DEFINE pasan == Distintas({i \in ids : ~FaltaEvidencia(hitos[i])}, [estado |-> "aprobado"])
             s == [estado |-> "aprobado"]
  <2>2. pasan \subseteq ids /\ ids \subseteq Existentes /\ \A i \in ids : hitos[i].periodo \notin cerrado
    BY <2>1 DEF Distintas, EnAbiertos
  <2>3. t = Actualiza("aprobar", ConMeses(pasan), pasan, s)
    BY <2>1
  <2>4. DOMAIN s = {"estado"} /\ s.estado \in Estados
    BY DEF Estados
  <2> HIDE DEF pasan, s
  <2>5. /\ ConMeses(pasan) \subseteq Juzgable
        /\ \A i \in pasan : i \in ConMeses(pasan) /\ hitos[i].periodo \in ConMeses(pasan) \ cerrado
    BY <2>2, FilasTipadas
  <2>6. LET u == Actualiza("aprobar", ConMeses(pasan), pasan, s) IN Tipado(u) /\ Respeta(hitos, cerrado, u, {})
    BY <2>4, <2>5, ActualizaRespeta
  <2> QED
    BY <2>3, <2>6
<1>6. CASE t \in RechazarTrabajos
  <2>1. PICK ids : t = Actualiza("rechazar", {}, ids, [estado |-> "rechazado"])
    BY <1>6 DEF RechazarTrabajos
  <2> DEFINE s == [estado |-> "rechazado"]
  <2>2. DOMAIN s = {"estado"} /\ s.estado \in Estados /\ {} \subseteq Juzgable
    BY DEF Estados
  <2>3. LET u == Actualiza("rechazar", {}, ids, s) IN Tipado(u) /\ Respeta(hitos, cerrado, u, {})
    BY <2>2, ActualizaRespeta
  <2> QED
    BY <2>1, <2>3
<1>7. CASE t \in EliminarTrabajos
  <2>1. PICK ids \in {s \in SUBSET Existentes : EnAbiertos(s)} :
          t = [NoTrabajo EXCEPT !.op = "eliminar", !.mira = ConMeses(ids), !.borra = ids]
    BY <1>7 DEF EliminarTrabajos
  <2>2. t.borra = ids /\ t.mira = ConMeses(ids) /\ DOMAIN t.cambia = {} /\ t.nuevos = {}
    BY <2>1, FormaNo
  <2>3. /\ ConMeses(ids) \subseteq Juzgable
        /\ \A i \in ids : i \in ConMeses(ids) /\ hitos[i].periodo \in ConMeses(ids) \ cerrado
    BY <2>1, FilasTipadas DEF EnAbiertos
  <2> QED
    BY <2>2, <2>3 DEF Tipado, Respeta, SoloRechaza, Fija
<1>8. CASE t \in EditarTrabajos
  <2>1. PICK i \in Existentes, rut \in BOOLEAN, p \in Periodos \ cerrado :
          EnAbiertos({i}) /\ t = Edicion(i, rut, p)
    BY <1>8, FormaEdicion
  <2> DEFINE mira == ConMeses({i}) \cup {p} \cup IF rut THEN {"causa"} ELSE {}
             s == [rut |-> rut, periodo |-> p]
  <2>2. t = Actualiza("editar", mira, {i}, s)
    BY <2>1 DEF Edicion
  <2>3. DOMAIN s = {"rut", "periodo"} /\ s.rut \in BOOLEAN /\ s.periodo = p
    OBVIOUS
  <2>4. mira \subseteq Juzgable /\ p \in mira /\ i \in mira /\ hitos[i].periodo \in mira
    BY FilasTipadas DEF Juzgable
  <2>5. hitos[i].periodo \notin cerrado
    BY <2>1 DEF EnAbiertos
  <2> HIDE DEF mira, s
  <2>6. LET u == Actualiza("editar", mira, {i}, s) IN Tipado(u) /\ Respeta(hitos, cerrado, u, {})
    BY <2>3, <2>4, <2>5, ActualizaRespeta
  <2> QED
    BY <2>2, <2>6
<1> QED
  BY <1>1, <1>2, <1>3, <1>4, <1>5, <1>6, <1>7, <1>8 DEF Trabajos

\* An update of typed columns leaves a row, which is never Null.
LEMMA ActualizadaFila ==
    ASSUME NEW r \in Row, NEW t, Tipado(t), NEW i \in Ids, i \in DOMAIN t.cambia
    PROVE  Actualizada(r, t.cambia[i]) \in Row /\ Actualizada(r, t.cambia[i]) # Null
<1> DEFINE s == t.cambia[i]
           y == Actualizada(r, s)
<1>1. /\ DOMAIN r = Campos /\ r.rut \in BOOLEAN /\ r.periodo \in Periodos /\ r.estado \in Estados
      /\ r.evidencia \in Evidencias \cup {Null} /\ r.origen \in {"manual", "formulario", "detector"}
      /\ r.mov \in Movs \cup {Null}
  BY DEF Row, Campos
<1>2. /\ "rut" \in DOMAIN s => s.rut \in BOOLEAN
      /\ "evidencia" \in DOMAIN s => s.evidencia \in Evidencias
      /\ "periodo" \in DOMAIN s => s.periodo \in Periodos
      /\ "estado" \in DOMAIN s => s.estado \in Estados
      /\ "origen" \notin DOMAIN s /\ "mov" \notin DOMAIN s
  BY DEF Tipado, Fija
<1> HIDE DEF s
<1>3. y = [c \in Campos |-> IF c \in DOMAIN s THEN s[c] ELSE r[c]]
  BY <1>1 DEF Actualizada
<1>4. y.rut \in BOOLEAN
  BY <1>1, <1>2, <1>3 DEF Campos
<1>5. /\ y.periodo \in Periodos /\ y.estado \in Estados /\ y.mov \in Movs \cup {Null}
      /\ y.evidencia \in Evidencias \cup {Null} /\ y.origen \in {"manual", "formulario", "detector"}
  BY <1>1, <1>2, <1>3 DEF Campos
<1>6. y = [rut |-> y.rut, periodo |-> y.periodo, estado |-> y.estado, evidencia |-> y.evidencia,
           origen |-> y.origen, mov |-> y.mov]
  BY <1>3 DEF Campos
<1> HIDE DEF y
<1>7. y \in Row
  BY <1>4, <1>5, <1>6 DEF Row
<1> QED
  BY <1>7, NullAssumption DEF y, s

\* A transaction leaves typed rows, and forgets what idle sessions missed.
LEMMA EscribeTipos ==
    ASSUME TInv, NEW t, Tipado(t), NEW otras, Escribe(t, otras),
           \A h \in Lentas : \/ trabajo'[h] = NoTrabajo /\ (h \notin otras \/ Ociosa(h))
                             \/ h \in otras /\ trabajo'[h] = trabajo[h]
    PROVE  TInv'
<1>1. PICK lugar :
        /\ Efecto(hitos, hitos', t, lugar)
        /\ ajenos' = {lugar[n] : n \in {m \in t.nuevos : m.texto \in Otros}}
        /\ \A n \in t.nuevos : lugar[n] \in Ids /\ \E m \in t.nuevos : hitos'[lugar[n]] = m.hito
  BY EscribeEfecto
<1>2. hitos' = [i \in Ids |-> hitos'[i]]
  BY DEF Escribe
<1>3. \A i \in Ids : hitos'[i] \in Row \cup {Null}
  <2> SUFFICES ASSUME NEW i \in Ids PROVE hitos'[i] \in Row \cup {Null}
    OBVIOUS
  <2>1. hitos[i] \in Row \cup {Null}
    BY DEF TInv, TypeOK
  <2>2. CASE hitos'[i] = hitos[i] \/ hitos'[i] = Null
    BY <2>1, <2>2
  <2>3. CASE \E n \in t.nuevos : hitos'[i] = n.hito
    BY <2>3 DEF Tipado
  <2>4. CASE hitos[i] # Null /\ i \in DOMAIN t.cambia /\ hitos'[i] = Actualizada(hitos[i], t.cambia[i])
    <3>1. hitos[i] \in Row
      BY <2>1, <2>4
    <3> QED
      BY <2>4, <3>1, ActualizadaFila
  <2> QED
    BY <1>1, <2>2, <2>3, <2>4 DEF Efecto
<1>4. hitos' \in [Ids -> Row \cup {Null}]
  BY <1>2, <1>3
<1>5. ajenos' \subseteq Existentes'
  BY <1>1, NullAssumption DEF Tipado, Existentes
<1>6. cerrado' = cerrado /\ cerrado' \subseteq Periodos
  BY DEF Escribe, TInv, TypeOK
<1>7. \A h \in Lentas : Tipado(trabajo'[h])
  BY NoRespeta DEF TInv
<1>8. \A h \in Lentas : despues'[h] \subseteq trabajo'[h].mira
  <2> SUFFICES ASSUME NEW h \in Lentas PROVE despues'[h] \subseteq trabajo'[h].mira
    OBVIOUS
  <2>1. despues'[h] = IF h \in otras /\ ~Ociosa(h) THEN despues[h] \cup Pierde(h) ELSE {}
    BY DEF Escribe
  <2>2. despues[h] \subseteq trabajo[h].mira /\ Pierde(h) \subseteq trabajo[h].mira
    BY DEF TInv, TypeOK, Pierde
  <2>3. h \in otras /\ ~Ociosa(h) => trabajo'[h] = trabajo[h]
    OBVIOUS
  <2> QED
    BY <2>1, <2>2, <2>3
<1>9. \A h \in Lentas : trabajo'[h].mira \subseteq Juzgable
  BY <1>7 DEF Tipado
<1>10. TypeOK'
  BY <1>4, <1>5, <1>6, <1>8, <1>9 DEF TypeOK, Juzgable
<1> QED
  BY <1>7, <1>10 DEF TInv

LEMMA NextTipos == IInv /\ TInv /\ [Next]_vars => TInv'
<1> SUFFICES ASSUME IInv, TInv, [Next]_vars PROVE TInv'
  OBVIOUS
<1> USE DEF IInv
<1>1. ASSUME NEW h \in Lentas, Lee(h) PROVE TInv'
  <2>1. PICK t \in Trabajos : trabajo' = [trabajo EXCEPT ![h] = t]
    BY <1>1 DEF Lee
  <2>2. /\ \A g \in Lentas : trabajo'[g] = IF g = h THEN t ELSE trabajo[g]
        /\ \A g \in Lentas : despues'[g] = IF g = h THEN {} ELSE despues[g]
        /\ hitos' = hitos /\ cerrado' = cerrado /\ ajenos' = {}
    BY <1>1, <2>1 DEF Lee
  <2>3. Tipado(t)
    BY TrabajosRespetan
  <2> QED
    BY <2>2, <2>3 DEF TInv, TypeOK, Tipado, Juzgable
<1>2. ASSUME NEW h \in Lentas, Commit(h) PROVE TInv'
  <2>1. Tipado(trabajo[h]) /\ Escribe(trabajo[h], Lentas \ {h})
    BY <1>2 DEF Commit, TInv
  <2>2. \A g \in Lentas : trabajo'[g] = IF g = h THEN NoTrabajo ELSE trabajo[g]
    BY <1>2 DEF Commit
  <2> QED
    BY <2>1, <2>2, EscribeTipos
<1>3. ASSUME NEW h \in Lentas, Rollback(h) PROVE TInv'
  <2>1. /\ \A g \in Lentas : trabajo'[g] = IF g = h THEN NoTrabajo ELSE trabajo[g]
        /\ \A g \in Lentas : despues'[g] = IF g = h THEN {} ELSE despues[g]
        /\ hitos' = hitos /\ cerrado' = cerrado /\ ajenos' = {}
    BY <1>3 DEF Rollback
  <2>2. Tipado(NoTrabajo)
    BY NoRespeta
  <2> QED
    BY <2>1, <2>2 DEF TInv, TypeOK, Tipado, Juzgable
<1>4. ASSUME Atiende PROVE TInv'
  <2>1. PICK t \in Trabajos : Escribe(t, Lentas)
    BY <1>4 DEF Atiende
  <2>2. Tipado(t) /\ trabajo' = trabajo
    BY <1>4, TrabajosRespetan DEF Atiende
  <2> QED
    BY <2>1, <2>2, EscribeTipos
<1>5. ASSUME NEW p \in Periodos, CerrarPeriodo(p) PROVE TInv'
  <2>1. /\ hitos' = hitos /\ trabajo' = trabajo /\ cerrado' = cerrado \cup {p} /\ ajenos' = {}
        /\ \A h \in Lentas : despues'[h] \subseteq despues[h] \cup trabajo[h].mira
    BY <1>5 DEF CerrarPeriodo
  <2> QED
    BY <2>1 DEF TInv, TypeOK
<1>6. CASE \E p \in Periodos : ReabrirPeriodo(p)
  BY <1>6 DEF ReabrirPeriodo, TInv, TypeOK
<1>7. CASE UNCHANGED vars
  BY <1>7 DEF vars, TInv, TypeOK, Existentes
<1> QED
  BY <1>1, <1>2, <1>3, <1>4, <1>5, <1>6, <1>7 DEF Next

LEMMA TypesInductive == Spec => []TInv
<1>1. Init => TInv
  <2>1. Tipado(NoTrabajo)
    BY NoRespeta
  <2> QED
    BY <2>1, FormaNo DEF Init, TInv, TypeOK
<1> QED
  BY <1>1, NextTipos, Inductive, PTL DEF Spec

\* Rows, months and what sessions judged keep their types, and a session misses changes only of
\* what it judged.
THEOREM TypesAlways == Spec => []TypeOK
<1>1. TInv => TypeOK
  BY DEF TInv
<1> QED
  BY <1>1, TypesInductive, PTL

-----------------------------------------------------------------------------
(* The close                                                               *)

\* A session still respects the close but for what it misses.
LEMMA OtroRespeta ==
    ASSUME NEW x, NEW y, NEW c, NEW d, NEW u, NEW D, NEW E, Respeta(x, c, u, D), D \subseteq E,
           \A i \in Ids \cap u.mira : y[i] # x[i] => i \in E,
           \A p \in d \ E : p \in u.mira => p \in c \ D
    PROVE  Respeta(y, d, u, E)
<1>1. \A i \in Ids : Fija(u, i, "periodo") =>
         u.cambia[i].periodo \in u.mira /\ u.cambia[i].periodo \notin d \ E
  BY DEF Respeta
<1>2. ASSUME NEW i \in Ids, ~SoloRechaza(u, i)
      PROVE  /\ i \in u.mira
             /\ i \notin E /\ y[i] # Null => y[i].periodo \in u.mira /\ y[i].periodo \notin d \ E
  BY <1>2 DEF Respeta
<1> QED
  BY <1>1, <1>2 DEF Respeta

LEMMA NextCierre == IInv /\ TInv /\ CInv /\ [Next]_vars => CInv'
<1> SUFFICES ASSUME IInv, TInv, CInv, [Next]_vars PROVE CInv'
  OBVIOUS
<1> USE DEF IInv
<1> SUFFICES ASSUME NEW g \in Lentas PROVE Respeta(hitos', cerrado', trabajo'[g], despues'[g])
  BY DEF CInv
<1>1. Respeta(hitos, cerrado, trabajo[g], despues[g])
  BY DEF CInv
<1>2. CASE trabajo'[g] = NoTrabajo
  BY <1>2, NoRespeta
<1>3. ASSUME NEW h \in Lentas, Lee(h) PROVE Respeta(hitos', cerrado', trabajo'[g], despues'[g])
  <2>1. PICK t \in Trabajos : trabajo' = [trabajo EXCEPT ![h] = t]
    BY <1>3 DEF Lee
  <2>2. /\ trabajo'[g] = IF g = h THEN t ELSE trabajo[g]
        /\ despues'[g] = IF g = h THEN {} ELSE despues[g]
        /\ hitos' = hitos /\ cerrado' = cerrado
    BY <1>3, <2>1 DEF Lee
  <2> QED
    BY <1>1, <2>2, TrabajosRespetan
<1>4. ASSUME NEW t, NEW otras, Escribe(t, otras), g \in otras, trabajo'[g] = trabajo[g],
             trabajo[g] # NoTrabajo
      PROVE  Respeta(hitos', cerrado', trabajo'[g], despues'[g])
  <2>1. Avisa(hitos, hitos', trabajo[g], despues'[g]) /\ despues[g] \subseteq despues'[g]
    BY <1>4, EscribeAvisa DEF Ociosa
  <2>2. cerrado' = cerrado
    BY <1>4 DEF Escribe
  <2>3. /\ \A i \in Ids \cap trabajo[g].mira : hitos'[i] # hitos[i] => i \in despues'[g]
        /\ cerrado' \ despues'[g] \subseteq cerrado \ despues[g]
    BY <2>1, <2>2 DEF Avisa
  <2> QED
    BY <1>1, <1>4, <2>1, <2>3, OtroRespeta
<1>5. ASSUME NEW h \in Lentas, Commit(h), trabajo'[g] # NoTrabajo
      PROVE  Respeta(hitos', cerrado', trabajo'[g], despues'[g])
  <2>1. g \in Lentas \ {h} /\ trabajo'[g] = trabajo[g] /\ Escribe(trabajo[h], Lentas \ {h})
    BY <1>5 DEF Commit
  <2> QED
    BY <1>4, <1>5, <2>1
<1>6. ASSUME NEW h \in Lentas, Rollback(h), trabajo'[g] # NoTrabajo
      PROVE  Respeta(hitos', cerrado', trabajo'[g], despues'[g])
  BY <1>1, <1>6 DEF Rollback
<1>7. ASSUME Atiende, trabajo'[g] # NoTrabajo
      PROVE  Respeta(hitos', cerrado', trabajo'[g], despues'[g])
  BY <1>4, <1>7 DEF Atiende
<1>8. ASSUME NEW p \in Periodos, CerrarPeriodo(p), trabajo'[g] # NoTrabajo
      PROVE  Respeta(hitos', cerrado', trabajo'[g], despues'[g])
  <2>1. /\ cerrado' = cerrado \cup {p} /\ hitos' = hitos /\ trabajo'[g] = trabajo[g]
        /\ despues'[g] = IF p \in cerrado THEN despues[g]
                         ELSE despues[g] \cup ({p} \cap trabajo[g].mira)
    BY <1>8 DEF CerrarPeriodo
  <2>2. /\ despues[g] \subseteq despues'[g]
        /\ \A q \in cerrado' \ despues'[g] : q \in trabajo[g].mira => q \in cerrado \ despues[g]
    BY <2>1
  <2> QED
    BY <1>1, <2>1, <2>2, OtroRespeta
<1>9. CASE (\E p \in Periodos : ReabrirPeriodo(p)) \/ UNCHANGED vars
  <2>1. /\ cerrado' \subseteq cerrado /\ hitos' = hitos /\ trabajo'[g] = trabajo[g]
        /\ despues'[g] = despues[g]
    BY <1>9 DEF ReabrirPeriodo, vars
  <2>2. \A q \in cerrado' \ despues'[g] : q \in cerrado \ despues[g]
    BY <2>1
  <2> QED
    BY <1>1, <2>1, <2>2, OtroRespeta
<1> QED
  BY <1>2, <1>3, <1>5, <1>6, <1>7, <1>8, <1>9 DEF Next

LEMMA CloseInductive == Spec => []CInv
<1>1. Init => CInv
  BY NoRespeta DEF Init, CInv
<1> QED
  BY <1>1, NextCierre, Inductive, TypesInductive, PTL DEF Spec

\* What a step writes respects the months that were closed for its request.
LEMMA EscriturasRespetan ==
    ASSUME IInv, TInv, CInv, [Next]_vars, hitos' # hitos
    PROVE  \E t, D, lugar :
             /\ Tipado(t) /\ Respeta(hitos, cerrado, t, D) /\ Efecto(hitos, hitos', t, lugar)
             /\ \A x : D \cap x # {} => Perdio(x)
<1>1. CASE \E h \in Lentas : Commit(h)
  <2>1. PICK h \in Lentas : Commit(h)
    BY <1>1
  <2>2. Tipado(trabajo[h]) /\ Respeta(hitos, cerrado, trabajo[h], despues[h])
    BY DEF TInv, CInv
  <2>3. PICK lugar : Efecto(hitos, hitos', trabajo[h], lugar)
    BY <2>1, EscribeEfecto DEF Commit
  <2>4. ~Ociosa(h) /\ trabajo'[h] = NoTrabajo
    BY <2>1 DEF Commit, IInv
  <2>5. \A x : despues[h] \cap x # {} => Perdio(x)
    BY <2>4 DEF Perdio
  <2> QED
    BY <2>2, <2>3, <2>5
<1>2. CASE Atiende
  <2>1. PICK t \in Trabajos : Escribe(t, Lentas)
    BY <1>2 DEF Atiende
  <2>2. Tipado(t) /\ Respeta(hitos, cerrado, t, {})
    BY <2>1, TrabajosRespetan
  <2>3. PICK lugar : Efecto(hitos, hitos', t, lugar)
    BY <2>1, EscribeEfecto
  <2>4. \A x : {} \cap x # {} => Perdio(x)
    OBVIOUS
  <2> QED
    BY <2>2, <2>3, <2>4
<1> QED
  BY <1>1, <1>2 DEF Next, vars, Lee, Rollback, CerrarPeriodo, ReabrirPeriodo

\* An approved hito of a closed month that leaves it, or is no longer approved, was rejected.
LEMMA SaleDelCierre ==
    ASSUME NEW x \in [Ids -> Row \cup {Null}], NEW y, NEW c, NEW t, NEW D, NEW lugar,
           Tipado(t), Respeta(x, c, t, D), Efecto(x, y, t, lugar),
           NEW p \in c \ D, NEW i \in Ids \ D, x[i] # Null, x[i].periodo = p, x[i].estado = "aprobado",
           y[i] = Null \/ y[i].periodo # p \/ y[i].estado # "aprobado"
    PROVE  y[i] = [x[i] EXCEPT !.estado = "rechazado"]
<1>1. /\ i \notin t.borra /\ ~Fija(t, i, "periodo")
      /\ Fija(t, i, "estado") => DOMAIN t.cambia[i] = {"estado"} /\ t.cambia[i].estado = "rechazado"
  BY DEF Respeta, SoloRechaza
<1>2. x[i] \in Row /\ DOMAIN x[i] = Campos
  BY DEF Row, Campos
<1>3. i \in DOMAIN t.cambia /\ y[i] = Actualizada(x[i], t.cambia[i])
  BY <1>1 DEF Efecto
<1>4. y[i] # Null
  BY <1>2, <1>3, ActualizadaFila
<1>5. Fija(t, i, "estado")
  BY <1>1, <1>2, <1>3, <1>4 DEF Actualizada, Fija, Campos
<1>6. y[i] = [k \in Campos |-> IF k = "estado" THEN "rechazado" ELSE x[i][k]]
  BY <1>1, <1>2, <1>3, <1>5 DEF Actualizada
<1>7. [x[i] EXCEPT !.estado = "rechazado"] = [k \in Campos |-> IF k = "estado" THEN "rechazado" ELSE x[i][k]]
  BY <1>2
<1> QED
  BY <1>6, <1>7

\* A hito that comes into a closed month approved is one a person imports.
LEMMA EntraAlCierre ==
    ASSUME NEW x \in [Ids -> Row \cup {Null}], NEW y, NEW c, NEW t, NEW D, NEW lugar,
           Tipado(t), Respeta(x, c, t, D), Efecto(x, y, t, lugar),
           NEW p \in c \ D, NEW i \in Ids \ D, y[i] # Null, y[i].periodo = p, y[i].estado = "aprobado",
           x[i] = Null \/ x[i].periodo # p \/ x[i].estado # "aprobado"
    PROVE  x[i] = Null /\ y[i].origen = "manual"
<1>1. CASE x[i] = Null
  BY <1>1 DEF Efecto, Respeta
<1>2. CASE x[i] # Null
  <2>1. x[i] \in Row /\ DOMAIN x[i] = Campos
    BY <1>2 DEF Row, Campos
  <2>2. i \in DOMAIN t.cambia /\ y[i] = Actualizada(x[i], t.cambia[i])
    BY <1>2 DEF Efecto
  <2>3. /\ y[i].periodo = IF Fija(t, i, "periodo") THEN t.cambia[i].periodo ELSE x[i].periodo
        /\ y[i].estado = IF Fija(t, i, "estado") THEN t.cambia[i].estado ELSE x[i].estado
    BY <2>1, <2>2 DEF Actualizada, Fija, Campos
  <2>4. ~Fija(t, i, "periodo") /\ x[i].periodo = p
    BY <2>3 DEF Respeta
  <2>5. Fija(t, i, "estado") => t.cambia[i].estado = "rechazado"
    BY <1>2, <2>4 DEF Respeta, SoloRechaza
  <2> QED
    BY <1>2, <2>3, <2>4, <2>5
<1> QED
  BY <1>1, <1>2

\* A hito enters or leaves the approved ones of a closed month only by a rejection, by an import,
\* or under a request that missed a change of that hito or of the month: every other operation of
\* hitos.py respects the close.
THEOREM ClosedChangesOnlyByKnownGapsAlways == Spec => ClosedChangesOnlyByKnownGaps
<1> DEFINE A == \A p \in cerrado : \A i \in Ids : (i \in Pagados(p)) # (i \in Pagados(p)') =>
         \/ Perdio({i, p})
         \/ i \in Pagados(p) /\ hitos'[i] = [hitos[i] EXCEPT !.estado = "rechazado"]
         \/ hitos[i] = Null /\ hitos'[i].origen = "manual"
<1>1. ASSUME IInv, TInv, CInv, [Next]_vars PROVE A
  <2> SUFFICES ASSUME NEW p \in cerrado, NEW i \in Ids, (i \in Pagados(p)) # (i \in Pagados(p)'),
                      ~Perdio({i, p})
               PROVE  \/ i \in Pagados(p) /\ hitos'[i] = [hitos[i] EXCEPT !.estado = "rechazado"]
                      \/ hitos[i] = Null /\ hitos'[i].origen = "manual"
    OBVIOUS
  <2>1. hitos' # hitos
    BY DEF Pagados, Existentes
  <2>2. PICK t, D, lugar :
             /\ Tipado(t) /\ Respeta(hitos, cerrado, t, D) /\ Efecto(hitos, hitos', t, lugar)
             /\ \A x : D \cap x # {} => Perdio(x)
    BY <1>1, <2>1, EscriturasRespetan
  <2>3. D \cap {i, p} = {}
    BY <2>2
  <2>4. i \in Ids \ D /\ p \in cerrado \ D /\ hitos \in [Ids -> Row \cup {Null}]
    BY <1>1, <2>3 DEF TInv, TypeOK
  <2>5. i \in Pagados(p) <=> hitos[i] # Null /\ hitos[i].periodo = p /\ hitos[i].estado = "aprobado"
    BY DEF Pagados, Existentes
  <2>6. i \in Pagados(p)' <=> hitos'[i] # Null /\ hitos'[i].periodo = p /\ hitos'[i].estado = "aprobado"
    BY DEF Pagados, Existentes
  <2>7. CASE i \in Pagados(p) /\ i \notin Pagados(p)'
    BY <2>2, <2>4, <2>5, <2>6, <2>7, SaleDelCierre
  <2>8. CASE i \notin Pagados(p) /\ i \in Pagados(p)'
    BY <2>2, <2>4, <2>5, <2>6, <2>8, EntraAlCierre
  <2> QED
    BY <2>7, <2>8
<1>2. IInv /\ TInv /\ CInv /\ [Next]_vars => [A]_vars
  BY <1>1
<1> QED
  BY Inductive, TypesInductive, CloseInductive, <1>2, PTL DEF Spec, ClosedChangesOnlyByKnownGaps
=============================================================================
