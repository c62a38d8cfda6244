\* One filing, two people and three overlapping handlers: the review race.
SPECIFICATION Spec
CONSTANTS
    MaxRows = 1
    Keys = {k1}
    Personas = {ana, beto}
    Nadie = Nadie
    Requests = {r1, r2}
    Workers = {w1}
    MaxIntentos = 1
    MaxCrashes = 0
SYMMETRY Symmetric
CHECK_DEADLOCK FALSE
INVARIANTS
    FourEyes
