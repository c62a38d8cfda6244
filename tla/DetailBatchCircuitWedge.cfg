\* One batch: half-open slots taken by requests that never report back.
SPECIFICATION Spec
CONSTANTS
    Batches = {scheduler}
    Reauth = {scheduler}
    Cases = {c1, c2}
    BatchSize = 2
    Attempts = 2
    MaxTimeouts = 2
    MaxTransient = 2
    FailureThreshold = 2
    RecoveryTimeout = 1
    HalfOpenMax = 3
    SuccessThreshold = 2
    BaseSeconds = 1
    MaxSeconds = 2
    MaxHits = 1
CHECK_DEADLOCK FALSE
SYMMETRY Symmetric
INVARIANTS
    HalfOpenIsProbed
