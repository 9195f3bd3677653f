-------------------------------- MODULE Tenant --------------------------------
(***************************************************************************)
(* gateway/tenant.py TenantPolicyEngine, called without a lock by the      *)
(* gateway's threads (check) and, in the demo, by the worker thread        *)
(* (release).  Python 3.12 switches threads after calls, at the start of   *)
(* Python functions and on backward jumps, so the statements below are     *)
(* steps of their own: the constructor of a tenant's first state and the   *)
(* pruning loop may be interrupted, "active_count += 1" may not, and       *)
(* "max(0, ...)" may be interrupted before its result is stored.           *)
(*                                                                         *)
(* Time is kept as ages.  A list of timestamps is used for nothing but how *)
(* many of them are within a window, so it is modelled as the numbers of   *)
(* those younger than every age.  The tenant charged is the one the        *)
(* request's metadata names: no API key names another one.                 *)
(***************************************************************************)
EXTENDS Naturals, FiniteSets

CONSTANTS
    Threads,          \* threads of the gateway's pool
    Tenants,          \* tenant ids
    MaxPerMinute,     \* TenantPolicy.max_requests_per_minute
    MaxConcurrent,    \* TenantPolicy.max_concurrent
    Window,           \* the 60 seconds, in units of time
    MaxCallAge,       \* bound: a call of check does not last longer than this
    MaxRequests,      \* bound: admitted requests of a tenant unfinished or unpublished at a time
    MaxLost,          \* bound: timestamps of a tenant lost within one window
    WorkerReleases,   \* has the worker a tenant_engine (demo: yes, deployed: no)
    MayFail           \* may the publish after an admitted check, or the worker, raise

ASSUME TenantAssumption ==
    /\ IsFiniteSet(Threads) /\ Threads # {}
    /\ {MaxPerMinute, MaxConcurrent, Window} \subseteq Nat \ {0}
    /\ {MaxCallAge, MaxRequests, MaxLost} \subseteq Nat
    /\ {WorkerReleases, MayFail} \subseteq BOOLEAN

VARIABLES
    state,       \* _state: the _TenantState of every tenant
    timestamps,  \* timestamps of every _TenantState
    active,      \* active_count of every _TenantState
    call,        \* the submit_inference call of every thread
    queued,      \* published requests of every tenant the worker has not come to release
    unpublished, \* admitted requests of every tenant whose publish raised
    worker,      \* the release the worker is in
    admissions,  \* history: the admitted calls of every tenant
    lost         \* history: those of them no later check can find in the tenant's list

vars == <<state, timestamps, active, call, queued, unpublished, worker, admissions, lost>>

-----------------------------------------------------------------------------
\* Moments in the past, as the number of those younger than every age up to
\* the oldest that a check can tell apart.
Horizon == Window + MaxCallAge
Moments == {m \in [0..Horizon -> Nat] :
               m[0] = 0 /\ \A a, b \in 0..Horizon : a <= b => m[a] <= m[b]}

NoMoments == [a \in 0..Horizon |-> 0]
Added(m, age) == [a \in 0..Horizon |-> IF age < a THEN m[a] + 1 ELSE m[a]]
Younger(m, age) == [a \in 0..Horizon |-> IF a < age THEN m[a] ELSE m[age]]
Together(m, n) == [a \in 0..Horizon |-> m[a] + n[a]]
Older(m) == [a \in 0..Horizon |-> IF a = 0 THEN 0 ELSE m[a - 1]]
Count(m) == m[Horizon]

\* A tenant's first check makes its _TenantState, so a state is known by the
\* thread that made it.
States == Tenants \X Threads
NoState == <<>>

NoCall == [pc |-> "idle", tenant |-> "none", state |-> NoState, age |-> 0,
           pruned |-> NoMoments, live |-> FALSE, missed |-> NoMoments]
NoRelease == [pc |-> "idle", tenant |-> "none", state |-> NoState, count |-> 0]

Init ==
    /\ state = [x \in Tenants |-> NoState]
    /\ timestamps = [s \in States |-> NoMoments]
    /\ active = [s \in States |-> 0]
    /\ call = [t \in Threads |-> NoCall]
    /\ queued = [x \in Tenants |-> 0]
    /\ unpublished = [x \in Tenants |-> 0]
    /\ worker = NoRelease
    /\ admissions = [x \in Tenants |-> NoMoments]
    /\ lost = [x \in Tenants |-> NoMoments]

Leave(t) == call' = [call EXCEPT ![t] = NoCall]

\* The requests that hold a slot of a tenant: counted and not yet published,
\* published and unfinished, finished and not yet released, or failed to publish.
Counted(x) == {t \in Threads : call[t].pc = "counted" /\ call[t].tenant = x}
Released(x) == IF worker.pc \in {"finished", "read"} /\ worker.tenant = x THEN 1 ELSE 0
Held(x) == Cardinality(Counted(x)) + queued[x] + unpublished[x] + Released(x)

\* The bounds: a call starts only if there is a request left for it, and as long
\* as few timestamps are lost.
WithinBounds(x) ==
    /\ Held(x) + Cardinality({t \in Threads : call[t].pc # "idle" /\ call[t].tenant = x}
                                \ Counted(x)) < MaxRequests
    /\ Count(lost[x]) < MaxLost

\* check starts: the tenant's state is looked up, and now is read.  If there is
\* none, defaultdict calls the constructor of _TenantState first.
BeginCheck(t) ==
    /\ call[t].pc = "idle"
    /\ \E x \in Tenants :
          /\ WithinBounds(x)
          /\ call' = [call EXCEPT ![t] =
                [NoCall EXCEPT !.pc = IF state[x] = NoState THEN "creating" ELSE "started",
                               !.tenant = x, !.state = state[x]]]
    /\ UNCHANGED <<state, timestamps, active, queued, unpublished, worker, admissions, lost>>

\* The constructor returns; defaultdict enters the new state without looking
\* whether there is one by now, and this call goes on with the new one.
CreateState(t) ==
    LET x == call[t].tenant
        s == <<x, t>>
    IN  /\ call[t].pc = "creating"
        /\ state' = [state EXCEPT ![x] = s]
        /\ timestamps' = [timestamps EXCEPT ![s] = NoMoments]
        /\ active' = [active EXCEPT ![s] = 0]
        /\ call' = [call EXCEPT ![t].pc = "started", ![t].state = s]
        /\ lost' = IF state[x] = NoState THEN lost
                   ELSE [lost EXCEPT ![x] = Together(@, timestamps[state[x]])]
        /\ UNCHANGED <<queued, unpublished, worker, admissions>>

\* The list comprehension takes hold of the state's list.
BeginLoop(t) ==
    /\ call[t].pc = "started"
    /\ call' = [call EXCEPT ![t].pc = "pruning", ![t].live = TRUE,
                            ![t].pruned = timestamps[call[t].state]]
    /\ UNCHANGED <<state, timestamps, active, queued, unpublished, worker, admissions, lost>>

\* A mutant: the window is one unit of time short.
WithinWindowShort(m, now) == Younger(m, now + Window - 1)

\* Timestamps within the window, seen from a now of this age.
WithinWindow(m, now) == Younger(m, now + Window)

\* The loop ends and its list replaces the state's; len decides the rate.
\* The other threads in the loop are from now on over a list nobody else has,
\* and what was appended to the state's list behind this one's back is lost.
StorePruned(t) ==
    LET s == call[t].state
        x == call[t].tenant
        kept == WithinWindow(call[t].pruned, call[t].age)
    IN  /\ call[t].pc = "pruning"
        /\ timestamps' = [timestamps EXCEPT ![s] = kept]
        /\ call' = [u \in Threads |->
              IF u = t
              THEN IF Count(kept) >= MaxPerMinute THEN NoCall
                   ELSE [call[t] EXCEPT !.pc = "rated", !.pruned = NoMoments,
                                        !.live = FALSE, !.missed = NoMoments]
              ELSE [call[u] EXCEPT !.live = @ /\ call[u].state # s]]
        /\ lost' = IF state[x] = s THEN [lost EXCEPT ![x] = Together(@, call[t].missed)]
                   ELSE lost
        /\ UNCHANGED <<state, active, queued, unpublished, worker, admissions>>

\* The concurrency check refuses the call.
RefuseConcurrency(t) ==
    /\ call[t].pc = "rated"
    /\ active[call[t].state] >= MaxConcurrent
    /\ Leave(t)
    /\ UNCHANGED <<state, timestamps, active, queued, unpublished, worker, admissions, lost>>

\* now is appended to the state's list, which the threads in the loop over the
\* same list come to see; a state that is not the tenant's any more keeps it in
\* vain.
AppendNow(t) ==
    LET s == call[t].state
        x == call[t].tenant
        now == call[t].age
    IN  /\ timestamps' = [timestamps EXCEPT ![s] = Added(@, now)]
        /\ call' = [u \in Threads |->
              IF u = t THEN [call[t] EXCEPT !.pc = "stamped", !.age = 0]
              ELSE IF call[u].pc # "pruning" \/ call[u].state # s THEN call[u]
              ELSE IF call[u].live THEN [call[u] EXCEPT !.pruned = Added(@, now)]
              ELSE [call[u] EXCEPT !.missed = Added(@, now)]]
        /\ admissions' = [admissions EXCEPT ![x] = Added(@, now)]
        /\ lost' = IF state[x] = s THEN lost ELSE [lost EXCEPT ![x] = Added(@, now)]
        /\ UNCHANGED <<state, active, queued, unpublished, worker>>

\* A mutant: the concurrency check compares with the wrong operator.
StampUpToLimit(t) ==
    /\ call[t].pc = "rated"
    /\ active[call[t].state] <= MaxConcurrent
    /\ AppendNow(t)

\* The concurrency check lets the call through.
Stamp(t) ==
    /\ call[t].pc = "rated"
    /\ active[call[t].state] < MaxConcurrent
    /\ AppendNow(t)

\* active_count += 1 ends the check; the tenant holds a slot.
Increment(t) ==
    /\ call[t].pc = "stamped"
    /\ active' = [active EXCEPT ![call[t].state] = @ + 1]
    /\ call' = [call EXCEPT ![t].pc = "counted"]
    /\ UNCHANGED <<state, timestamps, queued, unpublished, worker, admissions, lost>>

\* The request is published; its metadata names the tenant to release.
PublishCounted(t) ==
    /\ call[t].pc = "counted"
    /\ queued' = [queued EXCEPT ![call[t].tenant] = @ + 1]
    /\ Leave(t)
    /\ UNCHANGED <<state, timestamps, active, unpublished, worker, admissions, lost>>

\* publish raises: 503, and the slot is not given back (api.py:362-367).
PublishFails(t) ==
    /\ MayFail
    /\ call[t].pc = "counted"
    /\ unpublished' = [unpublished EXCEPT ![call[t].tenant] = @ + 1]
    /\ Leave(t)
    /\ UNCHANGED <<state, timestamps, active, queued, worker, admissions, lost>>

\* The worker is through with a request of a tenant.
Finish(x) ==
    /\ worker.pc = "idle"
    /\ queued[x] > 0
    /\ queued' = [queued EXCEPT ![x] = @ - 1]
    /\ worker' = IF WorkerReleases
                 THEN [NoRelease EXCEPT !.pc = "finished", !.tenant = x]
                 ELSE NoRelease
    /\ UNCHANGED <<state, timestamps, active, call, unpublished, admissions, lost>>

\* A metric raises in the worker's loop, which nothing catches: its thread is
\* gone, and nobody releases what it had in hand or would have had (demo.py:237-243).
Die ==
    /\ MayFail
    /\ worker.pc = "idle"
    /\ worker' = [worker EXCEPT !.pc = "dead"]
    /\ UNCHANGED <<state, timestamps, active, call, queued, unpublished, admissions, lost>>

\* release looks the tenant's state up, which the check of the request has made,
\* and is about to store this count.
Read(count) ==
    /\ worker.pc = "finished"
    /\ worker' = [worker EXCEPT !.pc = "read", !.count = count,
                                !.state = state[worker.tenant]]
    /\ UNCHANGED <<state, timestamps, active, call, queued, unpublished, admissions, lost>>

\* A mutant: release without the max.
ReadWithoutMax == Read(active[state[worker.tenant]] - 1)

\* release computes max(0, active_count - 1) for the tenant the metadata names.
ReadCount ==
    LET count == active[state[worker.tenant]]
    IN  Read(IF count = 0 THEN 0 ELSE count - 1)

\* A mutant: the result of the subtraction is not stored.
StoreNothing ==
    /\ worker.pc = "read"
    /\ worker' = NoRelease
    /\ UNCHANGED <<state, timestamps, active, call, queued, unpublished, admissions, lost>>

\* release stores what it computed, over whatever check counted meanwhile.
StoreCount ==
    /\ worker.pc = "read"
    /\ active' = [active EXCEPT ![worker.state] = worker.count]
    /\ worker' = NoRelease
    /\ UNCHANGED <<state, timestamps, call, queued, unpublished, admissions, lost>>

\* The calls that have read now and still need it.
HasNow(t) == call[t].pc \in {"started", "pruning", "rated"}

\* Time passes; what has left every window is forgotten.
Tick ==
    /\ \A t \in Threads : HasNow(t) => call[t].age < MaxCallAge
    /\ timestamps' = [s \in States |-> Older(timestamps[s])]
    /\ admissions' = [x \in Tenants |-> WithinWindow(Older(admissions[x]), 0)]
    /\ lost' = [x \in Tenants |-> WithinWindow(Older(lost[x]), 0)]
    /\ call' = [t \in Threads |->
          IF HasNow(t)
          THEN [call[t] EXCEPT !.age = @ + 1, !.pruned = Older(@), !.missed = Older(@)]
          ELSE call[t]]
    /\ UNCHANGED <<state, active, queued, unpublished, worker>>

ThreadStep(t) ==
    \/ BeginCheck(t) \/ CreateState(t) \/ BeginLoop(t) \/ StorePruned(t)
    \/ RefuseConcurrency(t) \/ Stamp(t) \/ Increment(t)
    \/ PublishCounted(t) \/ PublishFails(t)

WorkerStep == (\E x \in Tenants : Finish(x)) \/ Die \/ ReadCount \/ StoreCount

Next == (\E t \in Threads : ThreadStep(t)) \/ WorkerStep \/ Tick

Spec == Init /\ [][Next]_vars

\* A call under way and a release under way are carried on.  Nothing says that
\* the worker takes any request: its thread may be gone, and stricter lanes of
\* the queue may come first for ever (module PriorityQueue).
Fairness ==
    /\ WF_vars(ReadCount \/ StoreCount)
    /\ \A t \in Threads : WF_vars(Increment(t) \/ PublishCounted(t))

FairSpec == Spec /\ Fairness

-----------------------------------------------------------------------------
\* What the next check of a tenant finds: the count of its state.
Active(x) == IF state[x] = NoState THEN 0 ELSE active[state[x]]

CallState == [pc : {"idle", "creating", "started", "pruning", "rated", "stamped", "counted"},
              tenant : Tenants \cup {"none"}, state : States \cup {NoState},
              age : 0..MaxCallAge, pruned : Moments, live : BOOLEAN, missed : Moments]
ReleaseState == [pc : {"idle", "finished", "read", "dead"}, tenant : Tenants \cup {"none"},
                 state : States \cup {NoState}, count : Nat]

\* Every part of the state has its type; the counters are never negative.
TypeOK ==
    /\ state \in [Tenants -> States \cup {NoState}]
    /\ timestamps \in [States -> Moments]
    /\ active \in [States -> Nat]
    /\ call \in [Threads -> CallState]
    /\ queued \in [Tenants -> Nat] /\ unpublished \in [Tenants -> Nat]
    /\ worker \in ReleaseState
    /\ admissions \in [Tenants -> Moments]
    /\ lost \in [Tenants -> Moments]

\* Threads that pass the concurrency check together overshoot the cap, but the
\* counter of a state stays below the cap plus the number of threads, also when
\* release overwrites what they counted (tenant.py:126-157).
CounterOvershootIsBounded ==
    \A s \in States : active[s] <= MaxConcurrent + Cardinality(Threads) - 1

\* No tenant is charged for more requests than it has under way and had fail
\* to publish, so a tenant without either has all its slots, whatever a release
\* overwrites and whichever of two first checks made the state that the release
\* finds.  It needs that the worker releases (tenant.py:100,143-157, demo.py:109-112).
NoSlotIsLost ==
    \A x \in Tenants : Active(x) <= Held(x)

\* A tenant at its cap gets below it again, unless it has a request that failed
\* to publish, or one the worker does not come to: a release needs nothing else,
\* whatever it overwrites or is overwritten by (tenant.py:126,154-157, demo.py:235).
NobodyIsLockedOut ==
    \A x \in Tenants :
        []<>(Active(x) < MaxConcurrent \/ queued[x] > 0 \/ unpublished[x] > 0)

\* Within one window a tenant gets no more requests through than its rate, but
\* for the threads that passed the check together and the requests whose
\* timestamp got lost, each of which is good for one more request and no other:
\* appended behind the back of a thread that then stored its own list, or kept by
\* a state that another thread's first check replaced (tenant.py:100-142).
RateIsKept ==
    \A x \in Tenants :
        admissions[x][Window]
            <= MaxPerMinute + Cardinality(Threads) - 1 + lost[x][Window]

=============================================================================
