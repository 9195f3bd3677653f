----------------------------- MODULE WorkerConfig -----------------------------
(***************************************************************************)
(* What RAGWorker.__init__ makes of its configuration: the profiles of the *)
(* router, the limits of the batcher, the resource profiles of the GPU     *)
(* scheduler and the one device of its snapshot.  A model is its position  *)
(* in the list of profiles: 1 is the small model, 2 the large one, which   *)
(* exists only if it has another name.                                     *)
(***************************************************************************)
EXTENDS Naturals

CONSTANTS
    VllmModel,                        \* vllm_model
    VllmSmallModel, VllmLargeModel,   \* the two overrides, "" when not set
    SmallContextTokens, LargeContextTokens,
    SmallModelMemory, LargeModelMemory,
    SmallModelBatch, LargeModelBatch, \* gpu_..._max_batch_size
    DeviceMemory, DeviceUsed, DeviceUtilization

\* config_str: a name that is empty or not set falls back to the default.
ModelName(name) == IF name = "" THEN VllmModel ELSE name

ConfiguredModels ==
    IF ModelName(VllmLargeModel) = ModelName(VllmSmallModel) THEN {1} ELSE {1, 2}

\* A value for the small model and one for the large model, if it exists.
Each(small, large) == [m \in ConfiguredModels |-> IF m = 1 THEN small ELSE large]

\* _initialize_model_router; both profiles support batching.
ContextTokens == Each(SmallContextTokens, LargeContextTokens)
Priorities    == Each(10, 20)

\* _initialize_gpu_scheduler.
ModelMemory      == Each(SmallModelMemory, LargeModelMemory)
ModelUtilization == Each(25, 55)
ModelBatch       == Each(SmallModelBatch, LargeModelBatch)

\* get_gpu_snapshots.
Snapshots == {[id |-> 0, total |-> DeviceMemory, used |-> DeviceUsed,
               utilization |-> DeviceUtilization, unhealthy |-> FALSE]}
=============================================================================
