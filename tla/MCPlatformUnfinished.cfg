\* One request, no failures: the worker is faster than the gateway.
SPECIFICATION Spec
CONSTANTS
    Threads = {t1}
    Requests = {r1}
    Workers = {w1}
    AdmissionEnabled = TRUE
    MaxQueueDepth = 9
    MaxPending = 2
    MaxProcessing = 2
    BatchSize = 1
    GpuScheduling = FALSE
    TtlAge = 1
    PendingStaleAge = 1
    ProcessingStaleAge = 1
    MaxAge = 1
    MaxReceives = 2
    HealEnabled = FALSE
    HasPublisher = TRUE
    MaxResubmits = 0
    MayFail = FALSE
    FailureThreshold = 1
    RecoveryTimeout = 0
    HalfOpenMaxProbes = 1
SYMMETRY Symmetry
INVARIANTS
    UnfinishedHasMessage
