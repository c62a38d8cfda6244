\* One batch over two cases: what the retry after a re-login does to a case's position.
SPECIFICATION FairSpec
CONSTANTS
    Batches = {scheduler}
    Reauth = {scheduler}
    Cases = {c1, c2}
    BatchSize = 2
    Attempts = 2
    MaxTimeouts = 2
    MaxTransient = 2
    FailureThreshold = 2
    RecoveryTimeout = 1
    HalfOpenMax = 2
    SuccessThreshold = 2
    BaseSeconds = 1
    MaxSeconds = 2
    MaxHits = 1
CHECK_DEADLOCK FALSE
PROPERTIES
    BlamelessKeepsPosition
