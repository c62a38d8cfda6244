SPECIFICATION Spec
CONSTANTS
  Lados = {"demandado", "demandante"}
  Clases = {"notificacion", "requerimiento", "opone", "contestacion"}
  MaxDia = 3
  MaxMovs = 2
  MaxEscritos = 1
  DiasSolape = {2}
  Destinos = {"verde"}
  Actos = 1
  Termino <- MCTermino
  Margen = 1
  MaxRequerimiento = 2
  RojoMax = 0
  AmarilloMax = 1
  Null = Null
INVARIANTS
  TypeOK
  Estable
  RedIsOwed
  OnTimeDefenseIsNeverAMiss
PROPERTIES
  VerdictFitsStatus
  AuditorStands
  ReleaseStands
CHECK_DEADLOCK FALSE
