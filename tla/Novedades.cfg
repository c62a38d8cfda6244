SPECIFICATION Spec
CONSTANTS
  Movs <- MCMovs
  Ids = {i1, i2, i3, i4}
  Lotes = {"lote"}
  Propios = {"ingesta"}
  MaxEntradas = 1
  Cupo = 1
  MaxFallas = 1
  Null = Null
SYMMETRY Simetria
INVARIANTS
  TypeOK
  ToldOncePerRow
  NoNewsLost
PROPERTIES
  NewsIsNew
  LastMovementIsLast
CHECK_DEADLOCK FALSE
