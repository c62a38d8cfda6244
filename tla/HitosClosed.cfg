SPECIFICATION Spec
CONSTANTS
  Ids = {i1, i2}
  Periodos = {p1, p2}
  Movs = {m1}
  Evidencias = {e1, e2}
  Otros = {"otro"}
  Lentas = {h1}
  Null = Null
SYMMETRY Simetria
PROPERTIES
  ClosedIsFrozen
