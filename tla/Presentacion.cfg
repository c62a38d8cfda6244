\* One station worker, two HTTP handlers at a time, two filings, two attempts each.
SPECIFICATION FairSpec
CONSTANTS
    MaxRows = 2
    Keys = {k1, k2}
    Personas = {ana}
    Nadie = Nadie
    Requests = {r1, r2}
    Workers = {w1}
    MaxIntentos = 2
    MaxCrashes = 2
CHECK_DEADLOCK FALSE
INVARIANTS
    TypeOK
    OneRowPerKey
    CallsBounded
    OrphansOnlyByCrash
PROPERTIES
    LoadedAgainOnlyIfLost
    QueueDrains
    KeepsPromise
