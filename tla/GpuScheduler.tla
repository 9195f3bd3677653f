----------------------------- MODULE GpuScheduler -----------------------------
(***************************************************************************)
(* inference/gpu_scheduler.py: GPUScheduler.schedule as an operator on a   *)
(* snapshot, a set of devices [id, total, used, utilization, unhealthy].   *)
(***************************************************************************)
EXTENDS Integers

CONSTANTS RequiredMemory,        \* profile.required_memory_mb, by model
          ExpectedUtilization,   \* profile.expected_utilization_percent
          MaxProfileBatch,       \* profile.max_batch_size
          MemoryReserve,         \* policy.memory_reserve_mb
          MaxGpuUtilization,     \* policy.max_gpu_utilization_percent
          AllowCpuFallback       \* policy.allow_cpu_fallback

\* GPUDeviceSnapshot.__post_init__: what a snapshot may show, in megabytes and
\* percent.  A device of unknown total may have any amount used.
SoundSnapshot(d) ==
    /\ d.total \in Nat /\ d.used \in Nat
    /\ d.total > 0 => d.used <= d.total
    /\ d.utilization \in 0..100

\* ModelResourceProfile.__post_init__.
SoundProfile(model) ==
    /\ RequiredMemory[model] \in Nat \ {0}
    /\ ExpectedUtilization[model] \in 0..100
    /\ MaxProfileBatch[model] \in Nat \ {0}

\* SchedulingPolicy.__post_init__.
SoundPolicy == MemoryReserve \in Nat /\ MaxGpuUtilization \in 1..100

ASSUME GpuAssumption ==
    /\ \A model \in DOMAIN RequiredMemory : SoundProfile(model)
    /\ SoundPolicy
    /\ AllowCpuFallback \in BOOLEAN

\* free_memory_mb.
Free(d) == IF d.used < d.total THEN d.total - d.used ELSE 0

\* The devices that can take the model on top of what they run.
Eligible(model, devices) ==
    {d \in devices :
        /\ ~d.unhealthy
        /\ Free(d) >= RequiredMemory[model] + MemoryReserve
        /\ d.utilization + ExpectedUtilization[model] <= MaxGpuUtilization}

\* The sort key (free memory, utilization, device id): the tightest fit.
Tighter(d, e) ==
    \/ Free(d) < Free(e)
    \/ /\ Free(d) = Free(e)
       /\ \/ d.utilization < e.utilization
          \/ d.utilization = e.utilization /\ d.id <= e.id

\* A mutant: a batch of exactly the profile's size is deferred.
ScheduleBelowLimit(model, devices, size) ==
    IF model \notin DOMAIN RequiredMemory THEN [status |-> "rejected"]
    ELSE IF size >= MaxProfileBatch[model] \/ Eligible(model, devices) = {}
    THEN [status |-> "deferred"]
    ELSE [status |-> "scheduled"]

Schedule(model, devices, size) ==
    IF model \notin DOMAIN RequiredMemory
    THEN [status |-> "rejected", device |-> "none"]
    ELSE IF size > MaxProfileBatch[model]
    THEN [status |-> "deferred", device |-> "none"]
    ELSE IF devices = {}
    THEN [status |-> "deferred", device |-> IF AllowCpuFallback THEN "cpu" ELSE "none"]
    ELSE IF Eligible(model, devices) = {}
    THEN [status |-> "deferred", device |-> "none"]
    ELSE [status |-> "scheduled",
          device |-> (CHOOSE d \in Eligible(model, devices) :
                        \A e \in Eligible(model, devices) : Tighter(d, e)).id]
=============================================================================
