\* Three requests at a time, received together; no device holds the large model.
SPECIFICATION FairSpec
CONSTANTS
    Tasks = {1, 2, 3}
    Kinds <- MCKinds
    ReceiveSize = 3
    MaxReceives = 2
    MayRefuse = TRUE
    VllmModel = "default"
    VllmSmallModel = ""
    VllmLargeModel = "large"
    SmallContextTokens = 2
    LargeContextTokens = 4
    SmallModelMemory = 8
    LargeModelMemory = 24
    SmallModelBatch = 2
    LargeModelBatch = 2
    DeviceMemory = 18
    DeviceUsed = 2
    DeviceUtilization = 0
    Models <- ConfiguredModels
    MaxContextTokens <- ContextTokens
    ProfilePriority <- Priorities
    SupportsBatching <- ConfiguredModels
    RequiredMemory <- ModelMemory
    ExpectedUtilization <- ModelUtilization
    MaxProfileBatch <- ModelBatch
    Devices <- Snapshots
    ComplexEventTypes = {"analysis"}
    MaxBatchSize = 2
    MaxBatchTokens = 3
    HighPriorityThreshold = 2
    AllowSingleItemBatches = TRUE
    MemoryReserve = 1
    MaxGpuUtilization = 92
    AllowCpuFallback = FALSE
    WindowSize = 2
    MinSamples = 2
INVARIANTS
    TypeOK
    BatchesAreSound
    UrgentFirst
    ModelHoldsRequest
    NoDeliveryIsWasted
PROPERTIES
    DegradedIsAvoided
    EveryTaskIsDecided
