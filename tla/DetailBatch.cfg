\* The scheduler's batch over two cases, and one of POST /sync.
SPECIFICATION FairSpec
CONSTANTS
    Batches = {scheduler, api}
    Reauth = {scheduler}
    Cases = {c1, c2}
    BatchSize = 2
    Attempts = 2
    MaxTimeouts = 2
    MaxTransient = 2
    FailureThreshold = 2
    RecoveryTimeout = 1
    HalfOpenMax = 2
    SuccessThreshold = 2
    BaseSeconds = 1
    MaxSeconds = 2
    MaxHits = 1
CHECK_DEADLOCK FALSE
INVARIANTS
    TypeOK
    VisitBounded
    NoHammering
    TransientStopIsConsecutive
PROPERTIES
    OpensOnlyOnOutage
    BatchEnds
