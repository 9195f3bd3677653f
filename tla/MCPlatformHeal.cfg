\* A worker that may fail and crash and a healing engine over one request,
\* whose copies may be received together.
SPECIFICATION FairSpec
CONSTANTS
    Threads = {t1}
    Requests = {r1}
    Workers = {w1}
    AdmissionEnabled = TRUE
    MaxQueueDepth = 9
    MaxPending = 2
    MaxProcessing = 2
    BatchSize = 2
    GpuScheduling = TRUE
    TtlAge = 1
    PendingStaleAge = 0
    ProcessingStaleAge = 1
    MaxAge = 2
    MaxReceives = 2
    HealEnabled = TRUE
    HasPublisher = TRUE
    MaxResubmits = 1
    MayFail = TRUE
    FailureThreshold = 1
    RecoveryTimeout = 0
    HalfOpenMaxProbes = 1
INVARIANTS
    TypeOK
    DeletionIsJustified
    ProcessingKeepsItsMessage
PROPERTIES
    RecoveryWaitsForTimeout
    
