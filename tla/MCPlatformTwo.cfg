\* Two workers that may fail and crash, batches of up to two, redelivery to the
\* other worker, receipts that have gone stale; no healing.
SPECIFICATION Spec
CONSTANTS
    Threads = {t1}
    Requests = {r1, r2}
    Workers = {w1, w2}
    AdmissionEnabled = TRUE
    MaxQueueDepth = 9
    MaxPending = 1
    MaxProcessing = 2
    BatchSize = 2
    GpuScheduling = FALSE
    TtlAge = 0
    PendingStaleAge = 1
    ProcessingStaleAge = 1
    MaxAge = 0
    MaxReceives = 2
    HealEnabled = FALSE
    HasPublisher = TRUE
    MaxResubmits = 0
    MayFail = TRUE
    FailureThreshold = 1
    RecoveryTimeout = 0
    HalfOpenMaxProbes = 1
SYMMETRY Symmetry
INVARIANTS
    DeletionIsJustified
    ProcessingKeepsItsMessage
PROPERTIES
    AcceptedCompletionIsFinal
