SPECIFICATION FairSpec
CONSTANTS
  Corridas = {"worker", "job"}
  MaxDia = 3
  Feriados = {}
  Calendarios <- MCCalendarios
  Lecturas = {2}
  Escala <- MCEscala
  Titular = "titular"
  Extra <- MCExtra
  MaxEdad = 14
  Ventana = 2
  Worker = "worker"
  DiasSolape = {2}
  MaxCambios = 2
  MaxFallas = 1
  Null = Null
INVARIANTS
  TypeOK
  LastDayIsRojo
  MarkedIsMailed
PROPERTIES
  OnceUnlessOverlap
  RojoIsTold
CHECK_DEADLOCK FALSE
