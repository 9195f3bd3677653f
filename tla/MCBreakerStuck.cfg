\* An admitted batch may end without outcomes.
SPECIFICATION FairSpec
CONSTANTS
    FailureThreshold = 3
    RecoveryTimeout = 3
    HalfOpenMaxProbes = 1
    MaxBatch = 3
    MayAbandon = TRUE
    ManualReset = FALSE
PROPERTIES
    TrialIsDecided
