------------------------------ MODULE DemoProofs ------------------------------
(***************************************************************************)
(* The demo process for any number of threads, requests, loops and any     *)
(* limits: the safety properties the runs check, and the refinement of     *)
(* Lifecycle, from one inductive invariant, DemoInv.  Its parts:           *)
(*                                                                         *)
(*   StoreInv      the dict holds every written record once                *)
(*   CallInv       a call has a request from its admission on, and its     *)
(*                 scan stays inside the dict                              *)
(*   OwnerInv      a request is in one call, published and announced once  *)
(*   HandInv       what the worker holds is in the state its step expects  *)
(*   LoopInv       only the thread the scheduler knows is alive            *)
(*   TrailInv      the audit trail agrees with the outcomes                *)
(*   CountInv      so do the metrics                                       *)
(*   AdmissionInv  calls that may still enter and pending records together *)
(*                 stay below every limit from MaxPending up, plus one for *)
(*                 each thread but one                                     *)
(*                                                                         *)
(* AdmissionInv is stated for all limits at once because one is not enough *)
(* to carry it over the worker's write to a pending record: that write     *)
(* takes one from what every scan under way will find, so a call that was  *)
(* out at the limit m + 1 may be in at m, and the bound at m + 1 pays.     *)
(***************************************************************************)
EXTENDS Demo, FiniteSetTheorems, TLAPS

\* The requests that have a record.
Present == {r \in Requests : db.status[r] # "absent"}

Store == [keys : Seq(Requests), status : [Requests -> Statuses]]

\* keys lists every request that has a record, and no more entries than records.
StoreInv ==
    /\ db \in Store
    /\ \A r \in Requests : r \in Present <=> \E i \in 1..Len(db.keys) : db.keys[i] = r
    /\ Len(db.keys) = Cardinality(Present)

\* There are no more records than requests.
LEMMA PresentIsFinite ==
    IsFiniteSet(Present) /\ Cardinality(Present) \in 0..Cardinality(Requests)
<1>1. Present \in SUBSET Requests /\ IsFiniteSet(Requests)
  BY DemoAssumption DEF Present
<1>2. IsFiniteSet(Present) /\ Cardinality(Present) <= Cardinality(Requests)
  BY <1>1, FS_Subset
<1> QED
  BY <1>1, <1>2, FS_CardinalityType

\* A put writes one status; an insertion makes the dict longer by one.
LEMMA PutKeepsStore ==
    ASSUME StoreInv, NEW r \in Requests, NEW s \in Statuses \ {"absent"}, Put(r, s)
    PROVE  /\ StoreInv'
           /\ db'.status = [db.status EXCEPT ![r] = s]
           /\ Len(db.keys) <= Len(db'.keys)
           /\ db.status[r] = "absent" => Len(db'.keys) = Len(db.keys) + 1
           /\ db.status[r] # "absent" => db'.keys = db.keys
<1> USE DEF StoreInv, Store
<1>1. /\ db'.keys = IF db.status[r] = "absent" THEN Append(db.keys, r) ELSE db.keys
      /\ db'.status = [db.status EXCEPT ![r] = s]
      /\ db' = [keys |-> db'.keys, status |-> db'.status]
  BY DEF Put, Stored
<1>2. db' \in Store
  <2>1. db'.keys \in Seq(Requests)
    BY <1>1
  <2>2. db'.status \in [Requests -> Statuses]
    BY <1>1
  <2> QED
    BY <1>1, <2>1, <2>2
<1>3. Present' = Present \cup {r}
  BY <1>1 DEF Present
<1>4. Cardinality(Present') = Cardinality(Present) + (IF db.status[r] = "absent" THEN 1 ELSE 0)
  <2>1. r \in Present <=> db.status[r] # "absent"
    BY DEF Present
  <2>2. Cardinality(Present \cup {r}) = IF r \in Present THEN Cardinality(Present)
                                        ELSE Cardinality(Present) + 1
    BY PresentIsFinite, FS_AddElement
  <2>3. Cardinality(Present) \in Nat
    BY PresentIsFinite, FS_CardinalityType
  <2> QED
    BY <1>3, <2>1, <2>2, <2>3
<1>5. Len(db'.keys) = Len(db.keys) + (IF db.status[r] = "absent" THEN 1 ELSE 0)
  BY <1>1
<1>6. ASSUME NEW q \in Requests
      PROVE  q \in Present' <=> \E i \in 1..Len(db'.keys) : db'.keys[i] = q
  <2>1. CASE db.status[r] # "absent"
    BY <1>1, <1>3, <2>1 DEF Present
  <2>2. CASE db.status[r] = "absent"
    <3>1. /\ db'.keys = Append(db.keys, r) /\ Len(db'.keys) = Len(db.keys) + 1
          /\ \A i \in 1..Len(db.keys) : db'.keys[i] = db.keys[i]
          /\ db'.keys[Len(db.keys) + 1] = r
      BY <1>1, <2>2
    <3>2. \A i : i \in 1..Len(db'.keys) <=> i \in 1..Len(db.keys) \/ i = Len(db.keys) + 1
      BY <3>1
    <3> QED
      BY <1>3, <3>1, <3>2
  <2> QED
    BY <2>1, <2>2
<1>7. StoreInv'
  BY <1>2, <1>4, <1>5, <1>6
<1>8. /\ db.status[r] = "absent" => Len(db'.keys) = Len(db.keys) + 1
      /\ db.status[r] # "absent" => db'.keys = db.keys
  BY <1>1
<1>9. Len(db.keys) <= Len(db'.keys)
  BY <1>1, <1>8
<1> QED
  BY <1>1, <1>7, <1>8, <1>9
-----------------------------------------------------------------------------
CallPc == {"idle", "pending", "scanned", "processing", "admitted", "published", "stored"}

Call == [pc : CallPc, scan : [size : Nat, visited : Nat, found : Nat], pending : Nat,
         request : Requests \cup {"none"}]

InFlight(t) == call[t].pc \in {"admitted", "published", "stored"}

\* A call has a request from its admission on, and its scan does not run out of
\* the n keys there are.
SoundCall(c, n) ==
    /\ c \in Call
    /\ c.pc \in {"admitted", "published", "stored"} <=> c.request # "none"
    /\ c.scan.found <= c.scan.visited
    /\ c.scan.visited <= c.scan.size
    /\ c.scan.size <= n
    /\ c.pending <= Cardinality(Requests)

CallInv ==
    /\ call \in [Threads -> Call]
    /\ \A t \in Threads : SoundCall(call[t], Len(db.keys))

\* Every request is in one call at a time, which publishes and announces it once.
OwnerInv ==
    /\ outcome \in [Requests -> Outcomes]
    /\ announced \subseteq {r \in Requests : outcome[r] # "none"}
    /\ \A t, u \in Threads : InFlight(t) /\ InFlight(u) /\ t # u
                                => call[t].request # call[u].request
    /\ \A t \in Threads :
          /\ call[t].pc = "admitted" => outcome[call[t].request] = "none"
          /\ call[t].pc \in {"published", "stored"} => outcome[call[t].request] # "none"
          /\ call[t].pc \in {"admitted", "published"} => call[t].request \notin announced

WorkerPc == {"idle", "batching", "deferring", "refusing", "marking", "outputs", "auditing", "dead"}

Hand == [pc : WorkerPc, todo : SUBSET Requests, batch : SUBSET Requests,
         rest : SUBSET Requests, current : SUBSET Requests]

\* The hand belongs to where the worker is, and nothing in it is in the queue.
HandShape ==
    /\ queue \cap worker.todo = {}
    /\ worker.batch \cap (queue \cup worker.todo) = {}
    /\ worker.pc \in {"idle", "dead"} => worker.todo = {}
    /\ worker.pc \in {"idle", "batching", "dead"} <=> worker.batch = {}
    /\ worker.pc # "marking" => worker.rest = {}
    /\ worker.pc # "auditing" => worker.current = {}

\* What the worker has in hand is in the state its step expects.
HandState ==
    /\ \A r \in queue \cup worker.todo : outcome[r] = "queued"
    /\ worker.pc \in {"deferring", "refusing", "marking"}
          => \A r \in worker.batch : outcome[r] = "queued"
    /\ worker.pc \in {"outputs", "auditing"}
          => \A r \in worker.batch \ worker.current : outcome[r] = "started"
    /\ \A r \in worker.rest : outcome[r] = "started"
    /\ worker.pc = "auditing"
          => \E r \in worker.batch : worker.current = {r} /\ outcome[r] \in {"completed", "failed"}

HandInv ==
    /\ worker \in Hand /\ queue \subseteq Requests /\ outcome \in [Requests -> Outcomes]
    /\ HandShape
    /\ HandState

LoopPc == {"unborn", "ready", "pending", "between", "processing", "ended"}

\* Of the reconciliation threads at most the scheduler's own is alive.
LoopInv ==
    /\ scheduler \in [stop : BOOLEAN, thread : Loops]
    /\ loop \in [Loops -> [pc : LoopPc, size : Nat]]
    /\ Alive \subseteq {scheduler.thread}

\* A terminal event is there once and names the outcome; it is missing for the
\* output the worker is about to audit and for no other.
TrailInv ==
    /\ trail \in [Requests -> Seq({"accepted", "completed", "failed"})]
    /\ \A r \in Requests : \A i \in Terminal(r) : trail[r][i] = outcome[r] /\ Terminal(r) = {i}
    /\ \A r \in With({"completed", "failed"}) : Terminal(r) # {} <=> r \notin worker.current

\* The outcomes are counted; of the last one either the metric or the record
\* may be missing, and then the worker is dead.
OutcomeCounts ==
    /\ \/ counters["completed"] = Cardinality(With({"completed"}))
       \/ /\ worker.pc = "dead"
          /\ counters["completed"] = Cardinality(With({"completed"})) + 1
    /\ \/ counters["failed"] = Cardinality(With({"failed", "refused"}))
       \/ /\ worker.pc = "dead"
          /\ counters["failed"] + 1 = Cardinality(With({"failed", "refused"}))

\* What the histogram was told about: the requests settled and those in hand.
Worked == Settled \cup worker.batch \cup worker.rest

\* Every batch is counted once by its verdict and once by the histogram.
BatchCounts ==
    /\ Cardinality(worker.todo) <= BatchSize
    /\ worker.pc # "dead" =>
          /\ counters["scheduled"] + counters["deferred"] = batchSizes.count
          /\ batchSizes.total = Cardinality(Worked)

\* The buckets are cumulative, and the ones from the batch limit up hold all.
BucketCounts ==
    /\ \A a, b \in Buckets : a <= b => batchSizes.counts[a] <= batchSizes.counts[b]
    /\ \A b \in Buckets : b >= BatchSize => batchSizes.counts[b] = batchSizes.count

Histogram == [counts : [Buckets -> Nat], count : Nat, total : Nat]

\* The metrics agree with what happened.
CountInv ==
    /\ counters \in [Series -> Nat]
    /\ batchSizes \in Histogram
    /\ OutcomeCounts
    /\ BatchCounts
    /\ BucketCounts

Pending == {r \in Requests : db.status[r] = "pending"}

\* Pending records a scan has still to meet, and so what it will find.
Unseen(t) == Pending \ {db.keys[i] : i \in 1..call[t].scan.visited}

\* What the first scan of call t will have found at its end, as things stand.
Expected(t) == call[t].scan.found + Cardinality(Unseen(t))

\* May call t still end in a PENDING record when the limit is m?
Enters(t, m) ==
    \/ call[t].pc = "pending" /\ ~Raises(call[t].scan, db) /\ Expected(t) < m
    \/ call[t].pc \in {"scanned", "processing"} /\ call[t].pending < m
    \/ call[t].pc \in {"admitted", "published"}

Entering(m) == {t \in Threads : Enters(t, m)}

\* The bound on the overshoot if the limit were m.
OvershootAt(m) ==
    Cardinality(Pending) + Cardinality(Entering(m)) <= m - 1 + Cardinality(Threads)

AdmissionInv == \A m \in Nat : m >= MaxPending => OvershootAt(m)
-----------------------------------------------------------------------------
\* The empty dict.
LEMMA InitStore == Init => StoreInv
<1> SUFFICES ASSUME Init PROVE StoreInv
  OBVIOUS
<1>1. db = [keys |-> <<>>, status |-> [r \in Requests |-> "absent"]]
  BY DEF Init, EmptyStore
<1>2. Present = {}
  BY <1>1 DEF Present
<1>3. db \in Store /\ Len(db.keys) = 0
  BY <1>1 DEF Store, Statuses
<1>4. Cardinality(Present) = 0
  BY <1>2, FS_EmptySet
<1> QED
  BY <1>2, <1>3, <1>4 DEF StoreInv

\* The worker writes anything but PENDING.
LEMMA WorkerWrites ==
    ASSUME HandInv, WorkerStep
    PROVE  UNCHANGED db \/ \E r \in Requests, s \in {"processing", "completed", "failed"} : Put(r, s)
<1>1. worker.batch \subseteq Requests
  BY DEF HandInv, Hand
<1>2. CASE DeferOne \/ RefuseOne \/ OutputFailed
  BY <1>1, <1>2 DEF DeferOne, RefuseOne, OutputFailed
<1>3. CASE MarkOne
  BY <1>1, <1>3 DEF MarkOne
<1>4. CASE OutputCompleted
  BY <1>1, <1>4 DEF OutputCompleted
<1>5. CASE MetricAfterPutRaises
  BY <1>1, <1>5 DEF MetricAfterPutRaises
<1>6. CASE TakeBatch \/ PlaceBatch \/ AuditOutput \/ MetricRaises
  BY <1>6 DEF TakeBatch, PlaceBatch, AuditOutput, MetricRaises
<1> QED
  BY <1>2, <1>3, <1>4, <1>5, <1>6 DEF WorkerStep, WorkerGoesOn

\* Only a put changes the store.
LEMMA StoreWrites ==
    ASSUME CallInv, HandInv, [Next]_vars
    PROVE  UNCHANGED db \/ \E r \in Requests, s \in Statuses \ {"absent"} : Put(r, s)
<1>1. ASSUME NEW t \in Threads, CallStep(t)
      PROVE  UNCHANGED db \/ \E r \in Requests, s \in Statuses \ {"absent"} : Put(r, s)
  <2>1. CASE PutPendingRecord(t)
    <3>1. call[t].request \in Requests
      BY <2>1 DEF PutPendingRecord, CallInv, SoundCall, Call
    <3>2. Put(call[t].request, "pending") /\ "pending" \in Statuses \ {"absent"}
      BY <2>1 DEF PutPendingRecord, Statuses
    <3> QED
      BY <3>1, <3>2
  <2>2. CASE ~PutPendingRecord(t)
    BY <1>1, <2>2 DEF CallStep, CallGoesOn, BeginSubmit, VisitRecord, ScanRaises, CountPending,
       BeginSecondScan, RejectCall, AdmitCall, PublishCall, AnswerAccepted, AnswerFails
  <2> QED
    BY <2>1, <2>2
<1>2. CASE WorkerStep
  BY <1>2, WorkerWrites DEF Statuses
<1>3. CASE SchedulerStep
  BY <1>3 DEF SchedulerStep, StartLoop, StopLoop, LoopStep, TopOfLoop, EndScan, BeginSecondPass,
     PassRaises, LoopRest
<1>4. CASE UNCHANGED vars
  BY <1>4 DEF vars
<1> QED
  BY <1>1, <1>2, <1>3, <1>4 DEF Next

\* Every step keeps the store one, and never shortens it.
LEMMA StoreStep ==
    ASSUME StoreInv, CallInv, HandInv, [Next]_vars
    PROVE  StoreInv' /\ Len(db.keys) <= Len(db'.keys)
<1>0. Len(db.keys) \in Nat
  BY DEF StoreInv, Store
<1>1. CASE UNCHANGED db
  <2>1. db' = db
    BY <1>1
  <2>2. Present' = Present
    BY <2>1 DEF Present
  <2> QED
    BY <1>0, <2>1, <2>2 DEF StoreInv
<1>2. ASSUME NEW r \in Requests, NEW s \in Statuses \ {"absent"}, Put(r, s)
      PROVE  StoreInv' /\ Len(db.keys) <= Len(db'.keys)
  BY <1>2, PutKeepsStore
<1> QED
  BY <1>1, <1>2, StoreWrites

-----------------------------------------------------------------------------
\* A loop visits the next key, and counts it or not.
LEMMA VisitedMoves ==
    ASSUME NEW scan \in [size : Nat, visited : Nat, found : Nat], NEW store, NEW s,
           NEW v, v = Visited(scan, store, s)
    PROVE  /\ v \in [size : Nat, visited : Nat, found : Nat]
           /\ v.size = scan.size /\ v.visited = scan.visited + 1
           /\ v.found \in {scan.found, scan.found + 1}
           /\ v.found = scan.found + 1 <=> store.status[store.keys[scan.visited + 1]] = s
<1> DEFINE new == store.status[store.keys[scan.visited + 1]] = s
           n == IF new THEN scan.found + 1 ELSE scan.found
<1>1. /\ n \in Nat /\ n \in {scan.found, scan.found + 1}
      /\ n = scan.found + 1 <=> new
  OBVIOUS
<1>2. ASSUME NEW k \in Nat, NEW f \in Nat
      PROVE  /\ [scan EXCEPT !.visited = k, !.found = f]
                    \in [size : Nat, visited : Nat, found : Nat]
             /\ [scan EXCEPT !.visited = k, !.found = f].size = scan.size
             /\ [scan EXCEPT !.visited = k, !.found = f].visited = k
             /\ [scan EXCEPT !.visited = k, !.found = f].found = f
  OBVIOUS
<1>3. v = [scan EXCEPT !.visited = scan.visited + 1, !.found = n] /\ scan.visited + 1 \in Nat
  BY DEF Visited
<1> HIDE DEF n
<1>4. /\ v \in [size : Nat, visited : Nat, found : Nat]
      /\ v.size = scan.size /\ v.visited = scan.visited + 1 /\ v.found = n
  BY <1>1, <1>2, <1>3
<1> QED
  BY <1>1, <1>4

\* Keys are never removed, so a sound call stays one.
LEMMA SoundCallStays ==
    ASSUME NEW c, NEW m \in Nat, NEW n \in Nat, SoundCall(c, m), m <= n
    PROVE  SoundCall(c, n)
<1>1. c.scan.size \in Nat
  BY DEF SoundCall, Call
<1> QED
  BY <1>1 DEF SoundCall

\* One call moves to c.
LEMMA CallMoves ==
    ASSUME CallInv, NEW t \in Threads, NEW c, SoundCall(c, Len(db'.keys)),
           call' = [call EXCEPT ![t] = c],
           Len(db.keys) \in Nat, Len(db'.keys) \in Nat, Len(db.keys) <= Len(db'.keys)
    PROVE  CallInv'
<1>1. call' \in [Threads -> Call]
  BY DEF CallInv, SoundCall
<1>2. ASSUME NEW u \in Threads
      PROVE  SoundCall(call'[u], Len(db'.keys))
  <2>1. CASE u = t
    <3>1. call'[u] = c
      BY <2>1 DEF CallInv
    <3> QED
      BY <3>1
  <2>2. CASE u # t
    <3>1. call'[u] = call[u] /\ SoundCall(call[u], Len(db.keys))
      BY <2>2 DEF CallInv
    <3> QED
      BY <3>1, SoundCallStays
  <2> QED
    BY <2>1, <2>2
<1> QED
  BY <1>1, <1>2 DEF CallInv

\* An idle call is a sound one.
LEMMA NoCallIsSound ==
    ASSUME NEW n \in Nat
    PROVE  SoundCall(NoCall, n)
<1>1. Cardinality(Requests) \in Nat
  BY DemoAssumption, FS_CardinalityType
<1> QED
  BY <1>1 DEF NoCall, SoundCall, Call, CallPc

\* Every step keeps calls sound.
LEMMA CallsStep ==
    ASSUME StoreInv, CallInv, HandInv, [Next]_vars
    PROVE  CallInv'
<1> DEFINE N == Cardinality(Requests)
<1>0. /\ Len(db.keys) \in Nat /\ Len(db'.keys) \in Nat /\ Len(db.keys) <= Len(db'.keys)
      /\ N \in Nat /\ Len(db.keys) <= N
  <2>1. StoreInv' /\ Len(db.keys) <= Len(db'.keys)
    BY StoreStep
  <2>2. Len(db.keys) \in Nat /\ Len(db'.keys) \in Nat
    BY <2>1 DEF StoreInv, Store
  <2>3. N \in Nat
    BY DemoAssumption, FS_CardinalityType
  <2>4. Len(db.keys) <= N
    BY <2>3, PresentIsFinite DEF StoreInv
  <2> QED
    BY <2>1, <2>2, <2>3, <2>4
<1>1. CASE UNCHANGED call
  <2>1. call' = call
    BY <1>1
  <2>2. ASSUME NEW t \in Threads
        PROVE  SoundCall(call[t], Len(db'.keys))
    BY <1>0, SoundCallStays DEF CallInv
  <2> QED
    BY <2>1, <2>2 DEF CallInv
<1>2. ASSUME NEW t \in Threads, CallStep(t)
      PROVE  CallInv'
  <2>0. /\ call[t] \in Call
        /\ InFlight(t) <=> call[t].request # "none"
        /\ call[t].scan.found <= call[t].scan.visited
        /\ call[t].scan.visited <= call[t].scan.size
        /\ call[t].scan.size <= Len(db.keys)
        /\ call[t].pending <= N
    BY DEF CallInv, SoundCall, InFlight
  <2>1. CASE BeginSubmit(t)
    <3> DEFINE c == [NoCall EXCEPT !.pc = "pending", !.scan = BeginScan(db)]
    <3>1. call' = [call EXCEPT ![t] = c]
      BY <2>1 DEF BeginSubmit
    <3>2. /\ c \in Call /\ c.pc = "pending" /\ c.request = "none" /\ c.pending = 0
          /\ c.scan.found = 0 /\ c.scan.visited = 0 /\ c.scan.size = Len(db.keys)
      BY <1>0 DEF NoCall, BeginScan, Call, CallPc
    <3> HIDE DEF c
    <3>3. SoundCall(c, Len(db'.keys))
      BY <1>0, <3>2 DEF SoundCall
    <3> QED
      BY <1>0, <3>1, <3>3, CallMoves
  <2>2. CASE VisitRecord(t)
    <3> DEFINE s == Visited(call[t].scan, db, call[t].pc)
               c == [call[t] EXCEPT !.scan = s]
    <3>1. call' = [call EXCEPT ![t] = c] /\ call[t].pc \in {"pending", "processing"}
      BY <2>2 DEF VisitRecord
    <3>2. call[t].scan.visited # call[t].scan.size
      BY <2>2 DEF VisitRecord, Ends
    <3>3. /\ s.size = call[t].scan.size /\ s.visited = call[t].scan.visited + 1
          /\ s.found \in {call[t].scan.found, call[t].scan.found + 1}
          /\ s \in [size : Nat, visited : Nat, found : Nat]
      <4>1. call[t].scan \in [size : Nat, visited : Nat, found : Nat]
        BY <2>0 DEF Call
      <4> QED
        BY <4>1, VisitedMoves
    <3> HIDE DEF s
    <3>4. /\ c \in Call /\ c.pc = call[t].pc /\ c.request = call[t].request
          /\ c.pending = call[t].pending /\ c.scan = s
      BY <2>0, <3>3 DEF Call
    <3> HIDE DEF c
    <3>5. /\ c.scan.found <= c.scan.visited /\ c.scan.visited <= c.scan.size
          /\ c.scan.size <= Len(db'.keys) /\ c.request = "none"
      <4>1. /\ call[t].scan.size \in Nat /\ call[t].scan.visited \in Nat
            /\ call[t].scan.found \in Nat
        BY <2>0 DEF Call
      <4>2. c.scan.found <= c.scan.visited /\ c.scan.visited <= c.scan.size
        <5>1. /\ call[t].scan.found <= call[t].scan.visited
              /\ call[t].scan.visited <= call[t].scan.size
          BY <2>0, <3>1
        <5> QED
          BY ONLY <3>2, <3>3, <3>4, <4>1, <5>1
      <4>3. c.scan.size <= Len(db'.keys)
        <5>1. call[t].scan.size <= Len(db'.keys)
          BY <1>0, <2>0, <3>1, <4>1
        <5> QED
          BY <3>3, <3>4, <5>1
      <4>4. c.request = "none"
        BY <2>0, <3>1, <3>4 DEF InFlight
      <4> QED
        BY <4>2, <4>3, <4>4
    <3>6. SoundCall(c, Len(db'.keys))
      BY <2>0, <3>1, <3>4, <3>5 DEF SoundCall
    <3> QED
      BY <1>0, <3>1, <3>6, CallMoves
  <2>3. CASE ScanRaises(t) \/ RejectCall(t) \/ AnswerAccepted(t) \/ AnswerFails(t)
    <3>1. call' = [call EXCEPT ![t] = NoCall]
      BY <2>3 DEF ScanRaises, RejectCall, AnswerAccepted, AnswerFails
    <3> QED
      BY <1>0, <3>1, NoCallIsSound, CallMoves
  <2>4. CASE CountPending(t)
    <3> DEFINE c == [NoCall EXCEPT !.pc = "scanned", !.pending = call[t].scan.found]
    <3>1. call' = [call EXCEPT ![t] = c]
      BY <2>4 DEF CountPending
    <3>2. call[t].scan.found \in Nat /\ call[t].scan.found <= N
      BY <1>0, <2>0 DEF Call
    <3>3. /\ c \in Call /\ c.pc = "scanned" /\ c.request = "none"
          /\ c.pending = call[t].scan.found
          /\ c.scan.found = 0 /\ c.scan.visited = 0 /\ c.scan.size = 0
      BY <3>2 DEF NoCall, Call, CallPc
    <3> HIDE DEF c
    <3>4. SoundCall(c, Len(db'.keys))
      BY <1>0, <3>2, <3>3 DEF SoundCall
    <3> QED
      BY <1>0, <3>1, <3>4, CallMoves
  <2>5. CASE BeginSecondScan(t)
    <3> DEFINE c == [call[t] EXCEPT !.pc = "processing", !.scan = BeginScan(db)]
    <3>1. call' = [call EXCEPT ![t] = c] /\ call[t].pc = "scanned"
      BY <2>5 DEF BeginSecondScan
    <3>2. /\ c \in Call /\ c.pc = "processing" /\ c.request = call[t].request
          /\ c.pending = call[t].pending
          /\ c.scan.found = 0 /\ c.scan.visited = 0 /\ c.scan.size = Len(db.keys)
      BY <1>0, <2>0 DEF BeginScan, Call, CallPc
    <3>3. c.request = "none"
      BY <2>0, <3>1, <3>2 DEF InFlight
    <3> HIDE DEF c
    <3>4. SoundCall(c, Len(db'.keys))
      BY <1>0, <2>0, <3>2, <3>3 DEF SoundCall
    <3> QED
      BY <1>0, <3>1, <3>4, CallMoves
  <2>6. CASE AdmitCall(t)
    <3> DEFINE r == CHOOSE q \in Requests : Fresh(q)
               c == [NoCall EXCEPT !.pc = "admitted", !.request = r]
    <3>1. call' = [call EXCEPT ![t] = c]
      BY <2>6 DEF AdmitCall
    <3>2. r \in Requests
      BY <2>6 DEF AdmitCall
    <3> HIDE DEF r
    <3>3. /\ c \in Call /\ c.pc = "admitted" /\ c.request = r /\ c.pending = 0
          /\ c.scan.found = 0 /\ c.scan.visited = 0 /\ c.scan.size = 0
      BY <3>2 DEF NoCall, Call, CallPc
    <3>4. c.request # "none"
      BY <3>2, <3>3, DemoAssumption
    <3> HIDE DEF c
    <3>5. SoundCall(c, Len(db'.keys))
      BY <1>0, <3>3, <3>4 DEF SoundCall
    <3> QED
      BY <1>0, <3>1, <3>5, CallMoves
  <2>7. CASE PublishCall(t) \/ PutPendingRecord(t)
    <3>1. PICK p \in {"published", "stored"} : call' = [call EXCEPT ![t].pc = p]
      BY <2>7 DEF PublishCall, PutPendingRecord
    <3> DEFINE c == [call[t] EXCEPT !.pc = p]
    <3>2. call' = [call EXCEPT ![t] = c] /\ InFlight(t)
      BY <2>7, <3>1 DEF PublishCall, PutPendingRecord, InFlight
    <3>3. /\ c \in Call /\ c.pc = p /\ c.request = call[t].request
          /\ c.pending = call[t].pending /\ c.scan = call[t].scan
      BY <2>0 DEF Call, CallPc
    <3>4. call[t].scan.size \in Nat
      BY <2>0 DEF Call
    <3> HIDE DEF c
    <3>5. SoundCall(c, Len(db'.keys))
      BY <1>0, <2>0, <3>2, <3>3, <3>4 DEF SoundCall
    <3> QED
      BY <1>0, <3>2, <3>5, CallMoves
  <2> QED
    BY <1>2, <2>1, <2>2, <2>3, <2>4, <2>5, <2>6, <2>7 DEF CallStep, CallGoesOn
<1>3. CASE WorkerStep \/ SchedulerStep \/ UNCHANGED vars
  <2>1. UNCHANGED call
    BY <1>3 DEF WorkerStep, WorkerGoesOn, TakeBatch, PlaceBatch, DeferOne, RefuseOne, MarkOne,
       OutputCompleted, OutputFailed, AuditOutput, MetricRaises, MetricAfterPutRaises, WorkerRest,
       SchedulerStep, StartLoop, StopLoop, LoopStep, TopOfLoop, EndScan, BeginSecondPass,
       PassRaises, LoopRest, vars
  <2> QED
    BY <1>1, <2>1
<1> QED
  BY <1>2, <1>3 DEF Next
-----------------------------------------------------------------------------
\* What the worker may have its hands on was published.
LEMMA HandIsPublished ==
    ASSUME HandInv, NEW r \in queue \cup worker.todo \cup worker.batch \cup worker.rest
    PROVE  r \in Requests /\ outcome[r] # "none"
<1>1. r \in Requests
  BY DEF HandInv, HandShape, HandState, Hand
<1>2. CASE r \in queue \cup worker.todo \cup worker.rest
  BY <1>1, <1>2 DEF HandInv, HandShape, HandState, Hand
<1>3. CASE r \in worker.batch
  <2>1. CASE worker.pc \in {"deferring", "refusing", "marking"}
    BY <1>3, <2>1 DEF HandInv, HandShape, HandState, Hand
  <2>2. CASE worker.pc \in {"outputs", "auditing"}
    <3>1. CASE r \in worker.current
      BY <1>3, <2>2, <3>1 DEF HandInv, HandShape, HandState, Hand
    <3>2. CASE r \notin worker.current
      BY <1>3, <2>2, <3>2 DEF HandInv, HandShape, HandState, Hand
    <3> QED
      BY <3>1, <3>2
  <2>3. worker.pc \notin {"idle", "batching", "dead"} /\ worker.pc \in WorkerPc
    BY <1>3 DEF HandInv, HandShape, HandState, Hand
  <2> QED
    BY <2>1, <2>2, <2>3 DEF WorkerPc
<1> QED
  BY <1>1, <1>2, <1>3

\* The worker changes the outcome of a request of its batch, if any.
LEMMA WorkerSettles ==
    ASSUME WorkerStep
    PROVE  \/ outcome' = outcome
           \/ \E r \in worker.batch, w \in Outcomes \ {"none"} :
                 outcome' = [outcome EXCEPT ![r] = w]
<1> USE DEF Becomes, Outcomes
<1>1. CASE DeferOne
  BY <1>1 DEF DeferOne
<1>2. CASE RefuseOne
  BY <1>2 DEF RefuseOne
<1>3. CASE MarkOne
  BY <1>3 DEF MarkOne
<1>4. CASE OutputCompleted
  BY <1>4 DEF OutputCompleted
<1>5. CASE OutputFailed
  BY <1>5 DEF OutputFailed
<1>6. CASE MetricAfterPutRaises
  BY <1>6 DEF MetricAfterPutRaises
<1>7. CASE TakeBatch \/ PlaceBatch \/ AuditOutput \/ MetricRaises
  BY <1>7 DEF TakeBatch, PlaceBatch, AuditOutput, MetricRaises
<1> QED
  BY <1>1, <1>2, <1>3, <1>4, <1>5, <1>6, <1>7 DEF WorkerStep, WorkerGoesOn

\* A request id is drawn by one call, and published and announced by it alone.
LEMMA OwnersStep ==
    ASSUME CallInv, HandInv, OwnerInv, [Next]_vars
    PROVE  OwnerInv'
<1> USE DEF InFlight
<1>0. \A t \in Threads :
         /\ InFlight(t) <=> call[t].request # "none"
         /\ call[t].request \in Requests \cup {"none"}
         /\ call[t].pc \in CallPc
  BY DEF CallInv, SoundCall, Call
<1>1. ASSUME NEW t \in Threads, CallStep(t)
      PROVE  OwnerInv'
  <2>1. CASE /\ call[t].pc \in {"idle", "pending", "scanned", "processing"}
             /\ call'[t].pc \in {"idle", "pending", "scanned", "processing"}
             /\ \A u \in Threads \ {t} : call'[u] = call[u]
             /\ UNCHANGED <<outcome, announced>>
    BY <2>1 DEF OwnerInv
  <2>2. CASE BeginSubmit(t) \/ VisitRecord(t) \/ ScanRaises(t) \/ CountPending(t)
                \/ BeginSecondScan(t) \/ RejectCall(t)
    <3>1. /\ call[t].pc \in {"idle", "pending", "scanned", "processing"}
          /\ call'[t].pc \in {"idle", "pending", "scanned", "processing"}
          /\ \A u \in Threads \ {t} : call'[u] = call[u]
          /\ UNCHANGED <<outcome, announced>>
      <4>1. CASE BeginSubmit(t)
        BY <4>1 DEF BeginSubmit, NoCall, CallInv
      <4>2. CASE VisitRecord(t)
        BY <4>2 DEF VisitRecord, CallInv, Call
      <4>3. CASE ScanRaises(t) \/ RejectCall(t)
        BY <4>3 DEF ScanRaises, RejectCall, NoCall, CallInv
      <4>4. CASE CountPending(t)
        BY <4>4 DEF CountPending, NoCall, CallInv
      <4>5. CASE BeginSecondScan(t)
        BY <4>5 DEF BeginSecondScan, CallInv, Call
      <4> QED
        BY <2>2, <4>1, <4>2, <4>3, <4>4, <4>5
    <3> QED
      BY <2>1, <3>1
  <2>3. CASE AdmitCall(t)
    <3>1. PICK r \in Requests :
             /\ Fresh(r)
             /\ call' = [call EXCEPT ![t] = [NoCall EXCEPT !.pc = "admitted", !.request = r]]
      BY <2>3 DEF AdmitCall
    <3>2. /\ call'[t].pc = "admitted" /\ call'[t].request = r
          /\ \A u \in Threads \ {t} : call'[u] = call[u]
          /\ UNCHANGED <<outcome, announced>>
      BY <2>3, <3>1 DEF AdmitCall, NoCall, CallInv, Call
    <3>3. outcome[r] = "none" /\ \A u \in Threads : call[u].request # r
      BY <3>1 DEF Fresh
    <3> QED
      BY <3>2, <3>3 DEF OwnerInv
  <2>4. CASE PublishCall(t)
    <3> DEFINE r == call[t].request
    <3>1. /\ call[t].pc = "admitted" /\ r \in Requests
          /\ call'[t].pc = "published" /\ call'[t].request = r
          /\ \A u \in Threads \ {t} : call'[u] = call[u]
          /\ outcome' = [outcome EXCEPT ![r] = "queued"] /\ announced' = announced
      BY <1>0, <2>4 DEF PublishCall, Becomes, CallInv, Call
    <3> HIDE DEF r
    <3>2. r = call[t].request
      BY DEF r
    <3>3. outcome \in [Requests -> Outcomes]
      BY DEF OwnerInv
    <3>4. /\ outcome' \in [Requests -> Outcomes] /\ outcome'[r] = "queued"
          /\ \A q \in Requests \ {r} : outcome'[q] = outcome[q]
      BY <3>1, <3>3 DEF Outcomes
    <3>5. ASSUME NEW u \in Threads \ {t}
          PROVE  /\ call'[u].pc = "admitted" => outcome'[call'[u].request] = "none"
                 /\ call'[u].pc \in {"published", "stored"} => outcome'[call'[u].request] # "none"
      <4>1. InFlight(u) => call[u].request # r /\ call[u].request \in Requests
        BY <1>0, <3>1, <3>2 DEF OwnerInv
      <4> QED
        BY <3>1, <3>4, <4>1 DEF OwnerInv
    <3>6. announced' \subseteq {q \in Requests : outcome'[q] # "none"}
      BY <3>1, <3>4 DEF OwnerInv
    <3>7. \A u, w \in Threads : InFlight(u)' /\ InFlight(w)' /\ u # w
                                 => call'[u].request # call'[w].request
      BY <3>1, <3>2 DEF OwnerInv
    <3>8. \A u \in Threads : call'[u].pc \in {"admitted", "published"}
                               => call'[u].request \notin announced'
      BY <3>1, <3>2 DEF OwnerInv
    <3>9. \A u \in Threads :
             /\ call'[u].pc = "admitted" => outcome'[call'[u].request] = "none"
             /\ call'[u].pc \in {"published", "stored"} => outcome'[call'[u].request] # "none"
      BY <3>1, <3>4, <3>5
    <3> QED
      BY <3>4, <3>6, <3>7, <3>8, <3>9 DEF OwnerInv
  <2>5. CASE PutPendingRecord(t)
    <3> DEFINE r == call[t].request
    <3>1. /\ call[t].pc = "published" /\ r \in Requests
          /\ call'[t].pc = "stored" /\ call'[t].request = r
          /\ \A u \in Threads \ {t} : call'[u] = call[u]
          /\ outcome' = outcome /\ announced' = announced \cup {r}
      BY <1>0, <2>5 DEF PutPendingRecord, CallInv, Call
    <3> HIDE DEF r
    <3>2. r = call[t].request /\ outcome[r] # "none"
      BY <3>1 DEF r, OwnerInv
    <3>3. \A u \in Threads \ {t} : InFlight(u) => call[u].request # r
      BY <3>1, <3>2 DEF OwnerInv
    <3> QED
      BY <3>1, <3>2, <3>3 DEF OwnerInv
  <2>6. CASE AnswerAccepted(t) \/ AnswerFails(t)
    <3>1. /\ call'[t].pc = "idle"
          /\ \A u \in Threads \ {t} : call'[u] = call[u]
          /\ UNCHANGED <<outcome, announced>>
      BY <2>6 DEF AnswerAccepted, AnswerFails, NoCall, CallInv
    <3> QED
      BY <3>1 DEF OwnerInv
  <2> QED
    BY <1>1, <2>2, <2>3, <2>4, <2>5, <2>6 DEF CallStep, CallGoesOn
<1>2. CASE WorkerStep
  <2>1. UNCHANGED <<call, announced>>
    BY <1>2 DEF WorkerStep, WorkerGoesOn, TakeBatch, PlaceBatch, DeferOne, RefuseOne, MarkOne,
       OutputCompleted, OutputFailed, AuditOutput, MetricRaises, MetricAfterPutRaises, WorkerRest
  <2>2. CASE outcome' = outcome
    BY <2>1, <2>2 DEF OwnerInv
  <2>3. ASSUME NEW r \in worker.batch, NEW w \in Outcomes \ {"none"},
               outcome' = [outcome EXCEPT ![r] = w]
        PROVE  OwnerInv'
    <3>1. r \in Requests /\ outcome[r] # "none" /\ outcome \in [Requests -> Outcomes]
      BY HandIsPublished DEF HandInv, HandShape, HandState, Hand
    <3>2. /\ outcome' \in [Requests -> Outcomes]
          /\ \A q \in Requests : outcome'[q] = "none" <=> outcome[q] = "none"
      BY <2>3, <3>1
    <3>3. \A t \in Threads : call'[t] = call[t] /\ (InFlight(t) => call[t].request \in Requests)
      BY <1>0, <2>1
    <3>4. announced' = announced
      BY <2>1
    <3> QED
      BY <3>2, <3>3, <3>4 DEF OwnerInv
  <2> QED
    BY <1>2, <2>2, <2>3, WorkerSettles
<1>3. CASE SchedulerStep \/ UNCHANGED vars
  <2>1. UNCHANGED <<call, outcome, announced>>
    BY <1>3 DEF SchedulerStep, StartLoop, StopLoop, LoopStep, TopOfLoop, EndScan, BeginSecondPass,
       PassRaises, LoopRest, vars
  <2> QED
    BY <2>1 DEF OwnerInv
<1> QED
  BY <1>1, <1>2, <1>3 DEF Next
-----------------------------------------------------------------------------
(* The worker's hand.                                                      *)

\* The empty hand, with or without requests to do.
LEMMA IdleWorkerIsAHand ==
    ASSUME NEW p \in WorkerPc, NEW S \in SUBSET Requests
    PROVE  /\ [IdleWorker EXCEPT !.pc = p, !.todo = S] \in Hand
           /\ [IdleWorker EXCEPT !.pc = p] \in Hand
           /\ IdleWorker \in Hand
BY DEF IdleWorker, Hand, WorkerPc

\* What is left of the hand after a candidate.
LEMMA WithoutOne ==
    ASSUME NEW me \in Hand, NEW r \in me.batch, me.rest = {}, me.current = {},
           NEW new, new = Without(me, r)
    PROVE  /\ new \in Hand /\ new.todo = me.todo /\ new.batch = me.batch \ {r}
           /\ new.rest = {} /\ new.current = {}
           /\ \/ new.pc = me.pc /\ new.batch # {}
              \/ new.pc = "batching" /\ new.batch = {}
              \/ new.pc = "idle" /\ new.batch = {} /\ new.todo = {}
<1>1. CASE me.batch # {r}
  <2>1. new = [me EXCEPT !.batch = @ \ {r}]
    BY <1>1 DEF Without
  <2> QED
    BY <1>1, <2>1 DEF Hand
<1>2. CASE me.batch = {r} /\ me.todo # {}
  <2>1. new = [IdleWorker EXCEPT !.pc = "batching", !.todo = me.todo]
    BY <1>2 DEF Without
  <2>2. me.todo \in SUBSET Requests /\ "batching" \in WorkerPc
    BY DEF Hand, WorkerPc
  <2>3. new \in Hand
    BY <2>1, <2>2, IdleWorkerIsAHand
  <2> QED
    BY <1>2, <2>1, <2>3 DEF IdleWorker
<1>3. CASE me.batch = {r} /\ me.todo = {}
  <2>1. new = IdleWorker
    BY <1>3 DEF Without
  <2>2. /\ new.todo = {} /\ new.batch = {} /\ new.rest = {} /\ new.current = {}
        /\ new.pc = "idle"
    BY <2>1 DEF IdleWorker
  <2>3. new \in Hand
    BY <2>1 DEF IdleWorker, Hand, WorkerPc
  <2> QED
    BY <1>3, <2>2, <2>3
<1> QED
  BY <1>1, <1>2, <1>3

\* The hand after a candidate of the batch was settled.
LEMMA HandMovesOn ==
    ASSUME HandInv, NEW r \in worker.batch, worker.pc \in {"deferring", "refusing"},
           worker' = Without(worker, r), queue' = queue,
           NEW w \in Outcomes, outcome' = [outcome EXCEPT ![r] = w]
    PROVE  HandInv'
<1>1. worker \in Hand /\ worker.rest = {} /\ worker.current = {}
  BY DEF HandInv, HandShape, HandState, Hand
<1>2. /\ worker' \in Hand /\ worker'.todo = worker.todo /\ worker'.batch = worker.batch \ {r}
      /\ worker'.rest = {} /\ worker'.current = {}
      /\ \/ worker'.pc = worker.pc /\ worker'.batch # {}
         \/ worker'.pc = "batching" /\ worker'.batch = {}
         \/ worker'.pc = "idle" /\ worker'.batch = {} /\ worker'.todo = {}
  BY <1>1, WithoutOne
<1>3. /\ outcome' \in [Requests -> Outcomes]
      /\ \A q \in Requests \ {r} : outcome'[q] = outcome[q]
  BY DEF HandInv, HandShape, HandState, Hand
<1>4. r \notin queue /\ r \notin worker.todo
  BY DEF HandInv, HandShape, HandState, Hand
<1> QED
  BY <1>2, <1>3, <1>4 DEF HandInv, HandShape, HandState, Hand

\* The publication of a request nobody has published.
LEMMA HandMeetsQueue ==
    ASSUME HandInv, NEW r \in Requests, outcome[r] = "none",
           worker' = worker, queue' = queue \cup {r}, outcome' = [outcome EXCEPT ![r] = "queued"]
    PROVE  HandInv'
<1>1. r \notin queue \cup worker.todo \cup worker.batch \cup worker.rest
  BY HandIsPublished
<1>2. /\ outcome' \in [Requests -> Outcomes] /\ outcome'[r] = "queued"
      /\ \A q \in Requests \ {r} : outcome'[q] = outcome[q]
  BY DEF HandInv, HandShape, HandState, Hand, Outcomes
<1>3. /\ worker'.pc = "auditing"
           => \E q \in worker'.batch : /\ worker'.current = {q}
                                       /\ outcome'[q] \in {"completed", "failed"}
      /\ worker.batch \subseteq Requests /\ worker.rest \subseteq Requests
      /\ worker.todo \subseteq Requests
  BY <1>1, <1>2 DEF HandInv, HandShape, HandState, Hand
<1> QED
  BY <1>1, <1>2, <1>3 DEF HandInv, HandShape, HandState, Hand

\* Every step keeps the worker's hand in the state the next one expects.
LEMMA HandStep ==
    ASSUME CallInv, HandInv, OwnerInv, [Next]_vars
    PROVE  HandInv'
<1>0. worker \in Hand /\ outcome \in [Requests -> Outcomes] /\ queue \subseteq Requests
  BY DEF HandInv, HandShape, HandState, Hand
<1>1. CASE UNCHANGED <<queue, worker, outcome>>
  BY <1>1 DEF HandInv, HandShape, HandState, Hand
<1>2. ASSUME NEW t \in Threads, CallStep(t)
      PROVE  HandInv'
  <2>1. CASE PublishCall(t)
    <3>1. /\ call[t].request \in Requests /\ outcome[call[t].request] = "none"
      BY <2>1 DEF PublishCall, CallInv, SoundCall, Call, OwnerInv
    <3>2. /\ worker' = worker /\ queue' = queue \cup {call[t].request}
          /\ outcome' = [outcome EXCEPT ![call[t].request] = "queued"]
      BY <2>1 DEF PublishCall, CallRest, Becomes
    <3> QED
      BY <3>1, <3>2, HandMeetsQueue
  <2>2. CASE ~PublishCall(t)
    <3>1. UNCHANGED <<queue, worker, outcome>>
      BY <1>2, <2>2 DEF CallStep, CallGoesOn, BeginSubmit, VisitRecord, ScanRaises, CountPending,
         BeginSecondScan, RejectCall, AdmitCall, PutPendingRecord, AnswerAccepted, AnswerFails,
         CallRest
    <3> QED
      BY <1>1, <3>1
  <2> QED
    BY <2>1, <2>2
<1>3. CASE TakeBatch
  <2>1. PICK S \in SUBSET queue :
           /\ queue' = queue \ S /\ Cardinality(S) \in 1..BatchSize
           /\ worker' = [IdleWorker EXCEPT !.pc = "batching", !.todo = S]
           /\ outcome' = outcome
    BY <1>3 DEF TakeBatch
  <2>2. worker' \in Hand
    BY <1>0, <2>1, IdleWorkerIsAHand DEF WorkerPc
  <2>3. /\ worker'.pc = "batching" /\ worker'.todo = S /\ worker'.batch = {}
        /\ worker'.rest = {} /\ worker'.current = {}
    BY <2>1 DEF IdleWorker
  <2> QED
    BY <1>0, <2>1, <2>2, <2>3 DEF HandInv, HandShape, HandState, Hand
<1>4. CASE PlaceBatch
  <2>1. PICK B \in (SUBSET worker.todo) \ {{}}, next \in {"deferring", "refusing", "marking"} :
           worker' = [worker EXCEPT !.pc = next, !.todo = worker.todo \ B, !.batch = B]
    BY <1>4 DEF PlaceBatch
  <2>2. /\ worker'.pc = next /\ worker'.todo = worker.todo \ B /\ worker'.batch = B
        /\ worker'.rest = worker.rest /\ worker'.current = worker.current /\ worker' \in Hand
    BY <1>0, <2>1 DEF Hand, WorkerPc
  <2>3. queue' = queue /\ outcome' = outcome /\ worker.pc = "batching"
    BY <1>4 DEF PlaceBatch
  <2>4. /\ worker.rest = {} /\ worker.current = {} /\ B # {} /\ B \subseteq worker.todo
        /\ B \cap queue = {} /\ (worker.todo \ B) \cap queue = {} /\ next # "batching"
    BY <2>3 DEF HandInv, HandShape
  <2>8. HandShape'
    <3>1. queue' \cap worker'.todo = {} /\ worker'.batch \cap (queue' \cup worker'.todo) = {}
      BY <2>2, <2>3, <2>4
    <3>2. worker'.pc \notin {"idle", "batching", "dead", "auditing"} /\ worker'.batch # {}
      BY <2>2, <2>4
    <3>3. worker'.rest = {} /\ worker'.current = {}
      BY <2>2, <2>4
    <3> QED
      BY <3>1, <3>2, <3>3 DEF HandShape
  <2>9. HandState'
    BY <1>0, <2>2, <2>3, <2>4 DEF HandInv, HandShape, HandState, Hand
  <2> QED
    BY <1>0, <2>2, <2>3, <2>8, <2>9 DEF HandInv
<1>5. CASE DeferOne
  <2>1. PICK r \in worker.batch :
           worker' = Without(worker, r) /\ outcome' = [outcome EXCEPT ![r] = "deferred"]
    BY <1>5 DEF DeferOne, Becomes
  <2>2. queue' = queue /\ worker.pc = "deferring" /\ "deferred" \in Outcomes
    BY <1>5 DEF DeferOne, Outcomes
  <2> QED
    BY <2>1, <2>2, HandMovesOn
<1>6. CASE RefuseOne
  <2>1. PICK r \in worker.batch :
           worker' = Without(worker, r) /\ outcome' = [outcome EXCEPT ![r] = "refused"]
    BY <1>6 DEF RefuseOne, Becomes
  <2>2. queue' = queue /\ worker.pc = "refusing" /\ "refused" \in Outcomes
    BY <1>6 DEF RefuseOne, Outcomes
  <2> QED
    BY <2>1, <2>2, HandMovesOn
<1>7. CASE MarkOne
  <2>1. PICK r \in worker.batch :
           /\ outcome' = [outcome EXCEPT ![r] = "started"]
           /\ worker' = IF worker.batch = {r}
                        THEN [worker EXCEPT !.pc = "outputs", !.batch = worker.rest \cup {r},
                                            !.rest = {}]
                        ELSE [worker EXCEPT !.batch = worker.batch \ {r},
                                            !.rest = worker.rest \cup {r}]
    BY <1>7 DEF MarkOne, Becomes
  <2>2. queue' = queue /\ worker.pc = "marking" /\ worker.current = {}
    BY <1>7 DEF MarkOne, HandInv, HandShape, HandState, Hand
  <2>3. /\ outcome' \in [Requests -> Outcomes] /\ r \in Requests /\ outcome'[r] = "started"
        /\ \A q \in Requests \ {r} : outcome'[q] = outcome[q]
        /\ r \notin queue /\ r \notin worker.todo
    BY <1>0, <2>1 DEF HandInv, HandShape, HandState, Hand, Outcomes
  <2>4. CASE worker.batch = {r}
    <3>1. /\ worker'.pc = "outputs" /\ worker'.todo = worker.todo
          /\ worker'.batch = worker.rest \cup {r}
          /\ worker'.rest = {} /\ worker'.current = worker.current /\ worker' \in Hand
      BY <1>0, <2>1, <2>3, <2>4 DEF Hand, WorkerPc
    <3>2. worker.rest \cap (queue \cup worker.todo) = {}
      BY DEF HandInv, HandShape, HandState, Hand
    <3>8. HandShape'
      BY <1>0, <2>2, <2>3, <3>1, <3>2 DEF HandInv, HandShape, Hand
    <3>9. HandState'
      BY <1>0, <2>2, <2>3, <3>1, <3>2 DEF HandInv, HandShape, HandState, Hand
    <3> QED
      BY <1>0, <2>2, <2>3, <3>1, <3>2, <3>8, <3>9 DEF HandInv
  <2>5. CASE worker.batch # {r}
    <3>1. /\ worker'.pc = worker.pc /\ worker'.todo = worker.todo
          /\ worker'.batch = worker.batch \ {r} /\ worker'.batch # {}
          /\ worker'.rest = worker.rest \cup {r}
          /\ worker'.current = worker.current /\ worker' \in Hand
      BY <1>0, <2>1, <2>3, <2>5 DEF Hand, WorkerPc
    <3>8. HandShape'
      BY <1>0, <2>2, <2>3, <3>1 DEF HandInv, HandShape, Hand
    <3>9. HandState'
      BY <1>0, <2>2, <2>3, <3>1 DEF HandInv, HandShape, HandState, Hand
    <3> QED
      BY <1>0, <2>2, <2>3, <3>1, <3>8, <3>9 DEF HandInv
  <2> QED
    BY <2>4, <2>5
<1>8. CASE OutputCompleted \/ OutputFailed
  <2>1. PICK r \in worker.batch, w \in {"completed", "failed"} :
           /\ outcome' = [outcome EXCEPT ![r] = w]
           /\ worker' = [worker EXCEPT !.pc = "auditing", !.current = {r}]
    BY <1>8 DEF OutputCompleted, OutputFailed, Becomes
  <2>2. queue' = queue /\ worker.pc = "outputs" /\ worker.current = {} /\ worker.rest = {}
    BY <1>8 DEF OutputCompleted, OutputFailed, HandInv, HandShape, HandState, Hand
  <2>3. /\ outcome' \in [Requests -> Outcomes] /\ r \in Requests /\ outcome'[r] = w
        /\ \A q \in Requests \ {r} : outcome'[q] = outcome[q]
        /\ r \notin queue /\ r \notin worker.todo
    BY <1>0, <2>1 DEF HandInv, HandShape, HandState, Hand, Outcomes
  <2>4. /\ worker'.pc = "auditing" /\ worker'.todo = worker.todo
        /\ worker'.batch = worker.batch /\ worker'.rest = worker.rest
        /\ worker'.current = {r} /\ worker' \in Hand
    BY <1>0, <2>1, <2>3 DEF Hand, WorkerPc
  <2>8. HandShape'
    BY <1>0, <2>2, <2>3, <2>4 DEF HandInv, HandShape, Hand
  <2>9. HandState'
    BY <1>0, <2>2, <2>3, <2>4 DEF HandInv, HandShape, HandState, Hand
  <2> QED
    BY <1>0, <2>2, <2>3, <2>4, <2>8, <2>9 DEF HandInv
<1>9. CASE AuditOutput
  <2> DEFINE me == [worker EXCEPT !.pc = "outputs", !.current = {}]
  <2>1. PICK r \in worker.current : worker' = Without(me, r)
    BY <1>9 DEF AuditOutput
  <2>2. /\ queue' = queue /\ outcome' = outcome /\ worker.pc = "auditing" /\ worker.rest = {}
        /\ r \in worker.batch /\ worker.current = {r}
    BY <1>9 DEF AuditOutput, HandInv, HandShape, HandState, Hand
  <2>3. /\ me \in Hand /\ me.pc = "outputs" /\ me.current = {} /\ me.batch = worker.batch
        /\ me.todo = worker.todo /\ me.rest = {}
    BY <1>0, <2>2 DEF Hand, WorkerPc
  <2> HIDE DEF me
  <2>4. /\ worker' \in Hand /\ worker'.todo = worker.todo /\ worker'.batch = worker.batch \ {r}
        /\ worker'.rest = {} /\ worker'.current = {}
        /\ \/ worker'.pc = "outputs" /\ worker'.batch # {}
           \/ worker'.pc = "batching" /\ worker'.batch = {}
           \/ worker'.pc = "idle" /\ worker'.batch = {} /\ worker'.todo = {}
    BY <2>1, <2>2, <2>3, WithoutOne
  <2> QED
    BY <1>0, <2>2, <2>4 DEF HandInv, HandShape, HandState, Hand
<1>10. CASE MetricRaises \/ MetricAfterPutRaises
  <2>1. worker' = [IdleWorker EXCEPT !.pc = "dead"] /\ queue' = queue
    BY <1>10 DEF MetricRaises, MetricAfterPutRaises
  <2>2. /\ worker' \in Hand /\ worker'.pc = "dead" /\ worker'.todo = {} /\ worker'.batch = {}
        /\ worker'.rest = {} /\ worker'.current = {}
    BY <2>1, IdleWorkerIsAHand DEF IdleWorker, WorkerPc
  <2>3. /\ outcome' \in [Requests -> Outcomes]
        /\ \A q \in queue : outcome'[q] = outcome[q]
    <3>1. outcome' = outcome \/ \E r \in worker.batch, w \in Outcomes \ {"none"} :
                                   outcome' = [outcome EXCEPT ![r] = w]
      BY <1>10, WorkerSettles DEF WorkerStep
    <3>2. worker.batch \cap queue = {}
      BY DEF HandInv, HandShape, HandState, Hand
    <3> QED
      BY <1>0, <3>1, <3>2
  <2> QED
    BY <1>0, <2>1, <2>2, <2>3 DEF HandInv, HandShape, HandState, Hand
<1>11. CASE SchedulerStep \/ UNCHANGED vars
  <2>1. UNCHANGED <<queue, worker, outcome>>
    BY <1>11 DEF SchedulerStep, StartLoop, StopLoop, LoopStep, TopOfLoop, EndScan,
       BeginSecondPass, PassRaises, LoopRest, vars
  <2> QED
    BY <1>1, <2>1
<1> QED
  BY <1>2, <1>3, <1>4, <1>5, <1>6, <1>7, <1>8, <1>9, <1>10, <1>11 DEF Next, WorkerStep, WorkerGoesOn
-----------------------------------------------------------------------------
(* The reconciliation threads.                                             *)

\* A loop starts only when none is alive, and a step of one brings none to life.
LEMMA LoopsStep ==
    ASSUME StoreInv, LoopInv, [Next]_vars
    PROVE  LoopInv'
<1> USE DEF LoopInv
<1>1. CASE UNCHANGED <<scheduler, loop>>
  BY <1>1 DEF Alive
<1>2. CASE StartLoop
  <2>1. Alive = {}
    BY <1>2 DEF StartLoop, Running
  <2>2. PICK l \in Loops : /\ loop[l] = Unborn
                           /\ scheduler' = [stop |-> FALSE, thread |-> l]
                           /\ loop' = [loop EXCEPT ![l].pc = "ready"]
    BY <1>2 DEF StartLoop
  <2>3. /\ scheduler' \in [stop : BOOLEAN, thread : Loops] /\ scheduler'.thread = l
        /\ loop' \in [Loops -> [pc : LoopPc, size : Nat]]
        /\ \A k \in Loops \ {l} : loop'[k] = loop[k]
    BY <2>2 DEF LoopPc
  <2>4. Alive' \subseteq {l}
    BY <2>1, <2>3 DEF Alive
  <2> QED
    BY <2>3, <2>4
<1>3. CASE StopLoop
  <2>1. loop' = loop /\ scheduler' = [scheduler EXCEPT !.stop = TRUE]
    BY <1>3 DEF StopLoop
  <2>2. scheduler' \in [stop : BOOLEAN, thread : Loops] /\ scheduler'.thread = scheduler.thread
    BY <2>1
  <2> QED
    BY <2>1, <2>2 DEF Alive
<1>4. ASSUME NEW l \in Loops, LoopStep(l)
      PROVE  LoopInv'
  <2>1. Len(db.keys) \in Nat
    BY DEF StoreInv, Store
  <2>2. PICK c \in [pc : LoopPc, size : Nat] : loop' = [loop EXCEPT ![l] = c]
    <3>1. CASE TopOfLoop(l)
      BY <2>1, <3>1 DEF TopOfLoop, Unborn, LoopPc
    <3>2. CASE EndScan(l)
      BY <3>2 DEF EndScan, LoopPc
    <3>3. CASE BeginSecondPass(l)
      BY <2>1, <3>3 DEF BeginSecondPass, LoopPc
    <3>4. CASE PassRaises(l)
      BY <3>4 DEF PassRaises, Unborn, LoopPc
    <3> QED
      BY <1>4, <3>1, <3>2, <3>3, <3>4 DEF LoopStep
  <2>3. l \in Alive /\ scheduler' = scheduler
    BY <1>4 DEF LoopStep, TopOfLoop, EndScan, BeginSecondPass, PassRaises, Alive
  <2>4. Alive' \subseteq Alive
    BY <2>2, <2>3 DEF Alive
  <2> QED
    BY <2>2, <2>3, <2>4
<1>5. CASE (\E t \in Threads : CallStep(t)) \/ WorkerStep \/ UNCHANGED vars
  <2>1. UNCHANGED <<scheduler, loop>>
    BY <1>5 DEF CallStep, CallGoesOn, BeginSubmit, VisitRecord, ScanRaises, CountPending,
       BeginSecondScan, RejectCall, AdmitCall, PublishCall, PutPendingRecord, AnswerAccepted,
       AnswerFails, CallRest, WorkerStep, WorkerGoesOn, TakeBatch, PlaceBatch, DeferOne,
       RefuseOne, MarkOne, OutputCompleted, OutputFailed, AuditOutput, MetricRaises,
       MetricAfterPutRaises, WorkerRest, vars
  <2> QED
    BY <1>1, <2>1
<1> QED
  BY <1>2, <1>3, <1>4, <1>5 DEF Next, SchedulerStep
-----------------------------------------------------------------------------
(* The audit trail.                                                        *)

Events == {"accepted", "completed", "failed"}

\* An event more at the end of r's trail.
LEMMA AuditAppends ==
    ASSUME trail \in [Requests -> Seq(Events)], NEW r \in Requests, NEW e \in Events, Audit(r, e)
    PROVE  /\ trail' \in [Requests -> Seq(Events)]
           /\ \A q \in Requests \ {r} : trail'[q] = trail[q]
           /\ DOMAIN trail[r] = 1..Len(trail[r]) /\ Len(trail[r]) \in Nat
           /\ DOMAIN trail'[r] = 1..(Len(trail[r]) + 1)
           /\ trail'[r][Len(trail[r]) + 1] = e
           /\ \A i \in 1..Len(trail[r]) : trail'[r][i] = trail[r][i]
<1>1. trail' = [trail EXCEPT ![r] = Append(trail[r], e)] /\ trail[r] \in Seq(Events)
  BY DEF Audit
<1>2. trail'[r] = Append(trail[r], e)
  BY <1>1
<1> QED
  BY <1>1, <1>2

\* The worker gets to a request's audit event next when it is due one.
AwaitsEvent(r, w) ==
    /\ worker.current = {}
    /\ worker'.current = IF w \in {"completed", "failed"} THEN {r} ELSE {}

\* A request gets an outcome while nothing waits for its audit event.
LEMMA TrailSettles ==
    ASSUME TrailInv, outcome \in [Requests -> Outcomes], NEW r \in Requests,
           NEW w \in Outcomes,
           outcome[r] \in {"none", "queued", "started"}, Becomes(r, w), trail' = trail,
           AwaitsEvent(r, w)
    PROVE  TrailInv'
<1> USE DEF Becomes, AwaitsEvent
<1>1. \A q \in Requests : Terminal(q)' = Terminal(q)
  BY DEF Terminal
<1>2. /\ outcome'[r] = w /\ \A q \in Requests \ {r} : outcome'[q] = outcome[q]
  OBVIOUS
<1>3. Terminal(r) = {}
  <2>1. SUFFICES ASSUME NEW i \in Terminal(r) PROVE FALSE
    OBVIOUS
  <2>2. trail[r][i] = outcome[r] /\ trail[r][i] # "accepted" /\ i \in DOMAIN trail[r]
    BY DEF TrailInv, Terminal
  <2>3. trail[r] \in Seq({"accepted", "completed", "failed"})
    BY DEF TrailInv
  <2>4. trail[r][i] \in {"accepted", "completed", "failed"}
    BY <2>2, <2>3
  <2> QED
    BY <2>2, <2>4
<1>4. ASSUME NEW q \in Requests
      PROVE  /\ \A i \in Terminal(q)' : trail'[q][i] = outcome'[q] /\ Terminal(q)' = {i}
             /\ outcome'[q] \in {"completed", "failed"}
                  => (Terminal(q)' # {} <=> q \notin worker'.current)
  <2>1. CASE q = r
    BY <1>1, <1>2, <1>3, <2>1
  <2>2. CASE q # r
    BY <1>1, <1>2, <2>2 DEF TrailInv, With
  <2> QED
    BY <2>1, <2>2
<1> QED
  BY <1>4 DEF TrailInv, With

\* Every step keeps the trail true.
LEMMA TrailStep ==
    ASSUME TrailInv, HandInv, CallInv, OwnerInv, [Next]_vars
    PROVE  TrailInv'
<1>0. outcome \in [Requests -> Outcomes] /\ worker \in Hand /\ trail \in [Requests -> Seq(Events)]
  BY DEF HandInv, TrailInv, Events
<1>1. CASE trail' = trail /\ outcome' = outcome /\ worker'.current = worker.current
  BY <1>1 DEF TrailInv, Terminal, With
<1>2. ASSUME NEW t \in Threads, CallStep(t)
      PROVE  TrailInv'
  <2>1. CASE PublishCall(t)
    <3> DEFINE r == call[t].request
    <3>1. /\ r \in Requests /\ outcome[r] = "none"
      BY <2>1 DEF PublishCall, CallInv, SoundCall, Call, OwnerInv
    <3>2. /\ worker' = worker /\ trail' = trail
          /\ outcome' = [outcome EXCEPT ![r] = "queued"]
      BY <2>1 DEF PublishCall, CallRest, Becomes
    <3>3. \A q \in Requests : Terminal(q)' = Terminal(q)
      BY <3>2 DEF Terminal
    <3>4. \A q \in Requests \ {r} : outcome'[q] = outcome[q]
      BY <3>2, <1>0
    <3>5. outcome'[r] = "queued"
      BY <3>1, <3>2, <1>0
    <3>6. Terminal(r) = {}
      BY <3>1, <1>0 DEF TrailInv, Terminal, Events
    <3> QED
      BY <3>1, <3>2, <3>3, <3>4, <3>5, <3>6 DEF TrailInv, With
  <2>2. CASE AnswerAccepted(t)
    <3> DEFINE r == call[t].request
    <3>1. /\ r \in Requests /\ Audit(r, "accepted") /\ outcome' = outcome /\ worker' = worker
      BY <2>2 DEF AnswerAccepted, CallInv, SoundCall, Call, CallRest
    <3> HIDE DEF r
    <3>2. trail' \in [Requests -> Seq(Events)]
      BY <1>0, <3>1, AuditAppends DEF Events
    <3>3. ASSUME NEW q \in Requests
          PROVE  /\ Terminal(q)' = Terminal(q)
                 /\ \A i \in Terminal(q) : trail'[q][i] = trail[q][i]
      <4>1. CASE q = r
        <5>1. /\ DOMAIN trail[r] = 1..Len(trail[r]) /\ Len(trail[r]) \in Nat
              /\ DOMAIN trail'[r] = 1..(Len(trail[r]) + 1)
              /\ trail'[r][Len(trail[r]) + 1] = "accepted"
              /\ \A i \in 1..Len(trail[r]) : trail'[r][i] = trail[r][i]
          BY <1>0, <3>1, AuditAppends DEF Events
        <5>2. \A i : i \in DOMAIN trail'[r] <=> i \in DOMAIN trail[r] \/ i = Len(trail[r]) + 1
          BY <5>1
        <5> QED
          BY <4>1, <5>1, <5>2 DEF Terminal
      <4>2. CASE q # r
        <5>1. trail'[q] = trail[q]
          BY <1>0, <3>1, <4>2, AuditAppends DEF Events
        <5> QED
          BY <5>1 DEF Terminal
      <4> QED
        BY <4>1, <4>2
    <3> QED
      BY <3>1, <3>2, <3>3 DEF TrailInv, With, Events
  <2>3. CASE ~PublishCall(t) /\ ~AnswerAccepted(t)
    <3>1. UNCHANGED <<trail, worker, outcome>>
      BY <1>2, <2>3 DEF CallStep, CallGoesOn, BeginSubmit, VisitRecord, ScanRaises, CountPending,
         BeginSecondScan, RejectCall, AdmitCall, PutPendingRecord, AnswerFails, CallRest
    <3> QED
      BY <1>1, <3>1
  <2> QED
    BY <2>1, <2>2, <2>3
<1>3. ASSUME DeferOne \/ RefuseOne \/ MarkOne \/ OutputCompleted \/ OutputFailed
                \/ MetricAfterPutRaises
      PROVE  TrailInv'
  <2>1. HandInv'
    BY <1>3, HandStep DEF Next, WorkerStep, WorkerGoesOn
  <2>2. PICK r \in worker.batch, w \in Outcomes :
           /\ outcome' = [outcome EXCEPT ![r] = w]
           /\ \/ w \notin {"completed", "failed"} /\ worker'.pc # "auditing"
              \/ w \in {"completed", "failed"} /\ worker'.current = {r}
    <3> USE DEF Becomes, Outcomes
    <3>1. CASE DeferOne \/ RefuseOne
      <4>1. PICK r \in worker.batch, w \in {"deferred", "refused"} :
               worker' = Without(worker, r) /\ outcome' = [outcome EXCEPT ![r] = w]
        BY <3>1 DEF DeferOne, RefuseOne
      <4>2. worker.rest = {} /\ worker.current = {} /\ worker.pc \in {"deferring", "refusing"}
        BY <3>1 DEF DeferOne, RefuseOne, HandInv, HandShape
      <4>3. worker'.pc # "auditing"
        BY <1>0, <4>1, <4>2, WithoutOne
      <4> QED
        BY <4>1, <4>3
    <3>2. CASE MarkOne
      BY <1>0, <3>2 DEF MarkOne, Hand
    <3>3. CASE OutputCompleted
      BY <1>0, <3>3 DEF OutputCompleted, Hand
    <3>4. CASE OutputFailed
      BY <1>0, <3>4 DEF OutputFailed, Hand
    <3>5. CASE MetricAfterPutRaises
      BY <3>5 DEF MetricAfterPutRaises, IdleWorker
    <3> QED
      BY <1>3, <3>1, <3>2, <3>3, <3>4, <3>5
  <2>3. trail' = trail /\ worker.current = {} /\ worker.pc \notin {"idle", "batching", "auditing", "dead"}
    BY <1>3 DEF DeferOne, RefuseOne, MarkOne, OutputCompleted, OutputFailed, MetricAfterPutRaises,
       HandInv, HandShape
  <2>4. w \notin {"completed", "failed"} => worker'.current = {}
    BY <2>1, <2>2 DEF HandInv, HandShape
  <2>5. outcome[r] \in {"queued", "started"} /\ r \in Requests
    BY <1>0, <2>3 DEF HandInv, HandState, Hand, WorkerPc
  <2>6. /\ outcome[r] \in {"none", "queued", "started"}
        /\ AwaitsEvent(r, w) /\ Becomes(r, w)
    BY <2>2, <2>3, <2>4, <2>5 DEF AwaitsEvent, Becomes
  <2> QED
    BY <1>0, <2>3, <2>5, <2>6, TrailSettles
<1>4. CASE AuditOutput
  <2>1. PICK r \in worker.current :
           /\ Audit(r, outcome[r])
           /\ worker' = Without([worker EXCEPT !.pc = "outputs", !.current = {}], r)
    BY <1>4 DEF AuditOutput
  <2>2. /\ worker.current = {r} /\ outcome[r] \in {"completed", "failed"} /\ outcome' = outcome
        /\ r \in Requests
    BY <1>0, <1>4 DEF AuditOutput, HandInv, HandState, Hand
  <2>3. worker'.current = {}
    <3>1. HandInv'
      BY <1>4, HandStep DEF Next, WorkerStep, WorkerGoesOn
    <3> DEFINE me == [worker EXCEPT !.pc = "outputs", !.current = {}]
    <3>2. me \in Hand /\ me.rest = {} /\ me.current = {} /\ r \in me.batch
      BY <1>0, <1>4, <2>2 DEF AuditOutput, HandInv, HandShape, HandState, Hand, WorkerPc
    <3> HIDE DEF me
    <3> QED
      BY <2>1, <3>2, WithoutOne DEF me
  <2>4. Terminal(r) = {}
    BY <2>2 DEF TrailInv, With
  <2>5. /\ DOMAIN trail[r] = 1..Len(trail[r]) /\ Len(trail[r]) \in Nat
        /\ DOMAIN trail'[r] = 1..(Len(trail[r]) + 1)
        /\ trail'[r][Len(trail[r]) + 1] = outcome[r]
        /\ \A i \in 1..Len(trail[r]) : trail'[r][i] = trail[r][i]
        /\ trail' \in [Requests -> Seq(Events)]
        /\ \A q \in Requests \ {r} : trail'[q] = trail[q]
    BY <1>0, <2>1, <2>2, AuditAppends DEF Events
  <2>6. \A i : i \in DOMAIN trail'[r] <=> i \in DOMAIN trail[r] \/ i = Len(trail[r]) + 1
    BY <2>5
  <2>7. Terminal(r)' = {Len(trail[r]) + 1}
    BY <2>2, <2>4, <2>5, <2>6 DEF Terminal
  <2>8. \A q \in Requests \ {r} : Terminal(q)' = Terminal(q)
    BY <2>5 DEF Terminal
  <2>9. ASSUME NEW q \in Requests
        PROVE  /\ \A i \in Terminal(q)' : trail'[q][i] = outcome'[q] /\ Terminal(q)' = {i}
               /\ outcome'[q] \in {"completed", "failed"}
                    => (Terminal(q)' # {} <=> q \notin worker'.current)
    <3>1. CASE q = r
      BY <2>2, <2>3, <2>5, <2>7, <3>1
    <3>2. CASE q # r
      BY <2>2, <2>3, <2>5, <2>8, <3>2 DEF TrailInv, With
    <3> QED
      BY <3>1, <3>2
  <2> QED
    BY <2>5, <2>9 DEF TrailInv, With, Events
<1>5. CASE TakeBatch \/ PlaceBatch \/ MetricRaises
  <2>1. trail' = trail /\ outcome' = outcome /\ worker.current = {}
    BY <1>5 DEF TakeBatch, PlaceBatch, MetricRaises, HandInv, HandShape
  <2>2. worker'.current = {}
    <3>1. CASE TakeBatch
      BY <3>1 DEF TakeBatch, IdleWorker
    <3>2. CASE PlaceBatch
      BY <1>0, <2>1, <3>2 DEF PlaceBatch, Hand
    <3>3. CASE MetricRaises
      BY <3>3 DEF MetricRaises, IdleWorker
    <3> QED
      BY <1>5, <3>1, <3>2, <3>3
  <2> QED
    BY <1>1, <2>1, <2>2
<1>6. CASE SchedulerStep \/ UNCHANGED vars
  <2>1. UNCHANGED <<trail, worker, outcome>>
    BY <1>6 DEF SchedulerStep, StartLoop, StopLoop, LoopStep, TopOfLoop, EndScan,
       BeginSecondPass, PassRaises, LoopRest, vars
  <2> QED
    BY <1>1, <2>1
<1> QED
  BY <1>2, <1>3, <1>4, <1>5, <1>6 DEF Next, WorkerStep, WorkerGoesOn
-----------------------------------------------------------------------------
(* The metrics.                                                            *)

\* What an event does to the counters the trail is compared with.
LEMMA EmittedCounts ==
    ASSUME counters \in [Series -> Nat]
    PROVE  /\ \A e \in DOMAIN Increments : Emitted(counters, e) \in [Series -> Nat]
           /\ \A e \in DOMAIN Increments, s \in Series :
                 Emitted(counters, e)[s] = IF s \in Increments[e] THEN counters[s] + 1
                                           ELSE counters[s]
<1>1. ASSUME NEW e \in DOMAIN Increments, NEW s \in Series
      PROVE  /\ Emitted(counters, e)[s] = IF s \in Increments[e] THEN counters[s] + 1
                                          ELSE counters[s]
             /\ Emitted(counters, e)[s] \in Nat
  BY DEF Emitted
<1>2. \A e \in DOMAIN Increments : Emitted(counters, e) = [s \in Series |-> Emitted(counters, e)[s]]
  BY DEF Emitted
<1> QED
  BY <1>1, <1>2

\* What the events increment, spelled out.
LEMMA IncrementsAre ==
    /\ DOMAIN Increments = {"request_accepted", "inference_started", "inference_completed",
                            "inference_failed", "placed", "deferred"}
    /\ Increments["request_accepted"] = {"accepted"} /\ Increments["inference_started"] = {}
    /\ Increments["inference_completed"] = {"completed"}
    /\ Increments["inference_failed"] = {"failed"}
    /\ Increments["placed"] = {"scheduled"} /\ Increments["deferred"] = {"deferred"}
    /\ Series = {"accepted", "completed", "failed", "scheduled", "deferred"}
BY DEF Increments, Series

\* A request joins or leaves those with one of the outcomes.
LEMMA WithMoves ==
    ASSUME outcome \in [Requests -> Outcomes], NEW r \in Requests, NEW w, NEW S, outcome[r] \notin S,
           outcome' = [outcome EXCEPT ![r] = w]
    PROVE  /\ Cardinality(With(S)) \in Nat
           /\ w \in S => Cardinality(With(S)') = Cardinality(With(S)) + 1
           /\ w \notin S => With(S)' = With(S)
<1>1. IsFiniteSet(With(S)) /\ Cardinality(With(S)) \in Nat
  <2>1. With(S) \in SUBSET Requests /\ IsFiniteSet(Requests)
    BY DemoAssumption DEF With
  <2>2. IsFiniteSet(With(S))
    BY <2>1, FS_Subset
  <2> QED
    BY <2>2, FS_CardinalityType
<1>2. r \notin With(S)
  BY DEF With
<1>3. w \in S => With(S)' = With(S) \cup {r}
  BY DEF With
<1>4. w \notin S => With(S)' = With(S)
  BY DEF With
<1>5. Cardinality(With(S) \cup {r}) = Cardinality(With(S)) + 1
  BY <1>1, <1>2, FS_AddElement
<1> QED
  BY <1>1, <1>3, <1>4, <1>5

\* Requests with some outcome can be counted.
LEMMA WithIsCounted ==
    ASSUME NEW S
    PROVE  Cardinality(With(S)) \in Nat
<1>1. With(S) \in SUBSET Requests /\ IsFiniteSet(Requests)
  BY DemoAssumption DEF With
<1>2. IsFiniteSet(With(S))
  BY <1>1, FS_Subset
<1> QED
  BY <1>2, FS_CardinalityType

\* What the worker is about to write an outcome for has none of the final ones.
LEMMA HandIsUnsettled ==
    ASSUME HandInv, NEW r \in worker.batch,
           worker.pc \in {"deferring", "refusing", "marking", "outputs"}
    PROVE  r \in Requests /\ outcome[r] \in {"none", "queued", "started"}
BY DEF HandInv, HandShape, HandState, Hand

\* What an outcome adds to the sets that are counted.
LEMMA OutcomeMovesCounts ==
    ASSUME outcome \in [Requests -> Outcomes], NEW r \in Requests, NEW w \in Outcomes,
           outcome[r] \in {"none", "queued", "started"}, Becomes(r, w)
    PROVE  /\ w = "completed" =>
                 Cardinality(With({"completed"})') = Cardinality(With({"completed"})) + 1
           /\ w # "completed" => With({"completed"})' = With({"completed"})
           /\ w \in {"failed", "refused"} =>
                 Cardinality(With({"failed", "refused"})') = Cardinality(With({"failed", "refused"})) + 1
           /\ w \notin {"failed", "refused"} =>
                 With({"failed", "refused"})' = With({"failed", "refused"})
           /\ w \in {"completed", "failed", "refused", "deferred"} => Settled' = Settled \cup {r}
           /\ w \notin {"completed", "failed", "refused", "deferred"} => Settled' = Settled
<1>1. outcome' = [outcome EXCEPT ![r] = w]
  BY DEF Becomes
<1>2. /\ w = "completed" =>
            Cardinality(With({"completed"})') = Cardinality(With({"completed"})) + 1
      /\ w # "completed" => With({"completed"})' = With({"completed"})
  <2>1. outcome[r] \notin {"completed"}
    OBVIOUS
  <2> QED
    BY <1>1, <2>1, WithMoves
<1>3. /\ w \in {"failed", "refused"} =>
            Cardinality(With({"failed", "refused"})') = Cardinality(With({"failed", "refused"})) + 1
      /\ w \notin {"failed", "refused"} =>
            With({"failed", "refused"})' = With({"failed", "refused"})
  <2>1. outcome[r] \notin {"failed", "refused"}
    OBVIOUS
  <2> QED
    BY <1>1, <2>1, WithMoves
<1>4. /\ w \in {"completed", "failed", "refused", "deferred"} => Settled' = Settled \cup {r}
      /\ w \notin {"completed", "failed", "refused", "deferred"} => Settled' = Settled
  BY <1>1 DEF Settled
<1> QED
  BY <1>2, <1>3, <1>4

\* Every step keeps the outcome counters in step with the outcomes.
LEMMA OutcomeCountsStep ==
    ASSUME CountInv, HandInv, CallInv, OwnerInv, [Next]_vars
    PROVE  counters' \in [Series -> Nat] /\ OutcomeCounts'
<1> DEFINE C == With({"completed"})
           F == With({"failed", "refused"})
<1>0. /\ outcome \in [Requests -> Outcomes] /\ worker \in Hand /\ counters \in [Series -> Nat]
      /\ Cardinality(C) \in Nat /\ Cardinality(F) \in Nat
      /\ counters["completed"] \in Nat /\ counters["failed"] \in Nat
      /\ worker.pc # "dead" => /\ counters["completed"] = Cardinality(C)
                              /\ counters["failed"] = Cardinality(F)
  BY WithIsCounted DEF HandInv, CountInv, OutcomeCounts, Series
<1>1. ASSUME counters' \in [Series -> Nat], counters'["completed"] = counters["completed"],
             counters'["failed"] = counters["failed"], C' = C, F' = F,
             worker.pc # "dead" \/ worker' = worker
      PROVE  OutcomeCounts'
  BY <1>0, <1>1 DEF CountInv, OutcomeCounts
<1>2. CASE UNCHANGED <<counters, outcome>> /\ (worker.pc # "dead" \/ worker' = worker)
  <2>1. counters' = counters /\ C' = C /\ F' = F
    BY <1>2 DEF With
  <2> QED
    BY <1>0, <1>1, <1>2, <2>1
<1>3. ASSUME NEW t \in Threads, CallStep(t)
      PROVE  counters' \in [Series -> Nat] /\ OutcomeCounts'
  <2>1. CASE PublishCall(t)
    <3>1. /\ call[t].request \in Requests /\ outcome[call[t].request] = "none"
      BY <2>1 DEF PublishCall, CallInv, SoundCall, Call, OwnerInv
    <3>2. /\ worker' = worker /\ counters' = counters /\ Becomes(call[t].request, "queued")
      BY <2>1 DEF PublishCall, CallRest
    <3>3. "queued" \in Outcomes \ {"completed", "failed", "refused"}
      BY DEF Outcomes
    <3>4. C' = C /\ F' = F
      BY <1>0, <3>1, <3>2, <3>3, OutcomeMovesCounts
    <3> QED
      BY <1>0, <1>1, <3>2, <3>4
  <2>2. CASE AnswerAccepted(t)
    <3>1. outcome' = outcome /\ worker' = worker /\ counters' = Emitted(counters, "request_accepted")
      BY <2>2 DEF AnswerAccepted, CallRest
    <3>2. /\ counters' \in [Series -> Nat] /\ counters'["completed"] = counters["completed"]
          /\ counters'["failed"] = counters["failed"]
      BY <1>0, <3>1, EmittedCounts, IncrementsAre
    <3>3. C' = C /\ F' = F
      BY <3>1 DEF With
    <3> QED
      BY <1>1, <3>1, <3>2, <3>3
  <2>3. CASE ~PublishCall(t) /\ ~AnswerAccepted(t)
    <3>1. UNCHANGED <<counters, worker, outcome>>
      BY <1>3, <2>3 DEF CallStep, CallGoesOn, BeginSubmit, VisitRecord, ScanRaises, CountPending,
         BeginSecondScan, RejectCall, AdmitCall, PutPendingRecord, AnswerFails, CallRest
    <3> QED
      BY <1>2, <3>1
  <2> QED
    BY <2>1, <2>2, <2>3
<1>4. CASE TakeBatch \/ AuditOutput
  BY <1>2, <1>4 DEF TakeBatch, AuditOutput
<1>5. CASE PlaceBatch
  <2>1. PICK e \in {"placed", "deferred"} : counters' = Emitted(counters, e)
    BY <1>5 DEF PlaceBatch
  <2>2. /\ counters' \in [Series -> Nat] /\ counters'["completed"] = counters["completed"]
        /\ counters'["failed"] = counters["failed"]
    BY <1>0, <2>1, EmittedCounts, IncrementsAre
  <2>3. outcome' = outcome /\ worker.pc # "dead"
    BY <1>5 DEF PlaceBatch
  <2>4. C' = C /\ F' = F
    BY <2>3 DEF With
  <2> QED
    BY <1>1, <2>2, <2>3, <2>4
<1>6. CASE DeferOne \/ MarkOne
  <2>1. PICK r \in worker.batch, w \in {"deferred", "started"} : Becomes(r, w)
    BY <1>6 DEF DeferOne, MarkOne
  <2>2. /\ worker.pc \in {"deferring", "refusing", "marking", "outputs"}
        /\ counters' = counters \/ counters' = Emitted(counters, "inference_started")
    BY <1>6 DEF DeferOne, MarkOne
  <2>3. r \in Requests /\ outcome[r] \in {"none", "queued", "started"}
    BY <2>2, HandIsUnsettled
  <2>4. w \in Outcomes \ {"completed", "failed", "refused"}
    BY DEF Outcomes
  <2>5. C' = C /\ F' = F
    BY <1>0, <2>1, <2>3, <2>4, OutcomeMovesCounts
  <2>6. /\ counters' \in [Series -> Nat] /\ counters'["completed"] = counters["completed"]
        /\ counters'["failed"] = counters["failed"]
    BY <1>0, <2>2, EmittedCounts, IncrementsAre
  <2> QED
    BY <1>1, <2>2, <2>5, <2>6
<1>7. CASE RefuseOne \/ OutputFailed
  <2>1. PICK r \in worker.batch, w \in {"failed", "refused"} : Becomes(r, w)
    BY <1>7 DEF RefuseOne, OutputFailed
  <2>2. /\ worker.pc \in {"deferring", "refusing", "marking", "outputs"}
        /\ counters' = Emitted(counters, "inference_failed")
    BY <1>7 DEF RefuseOne, OutputFailed
  <2>3. r \in Requests /\ outcome[r] \in {"none", "queued", "started"}
    BY <2>2, HandIsUnsettled
  <2>4. w \in Outcomes /\ w # "completed"
    BY DEF Outcomes
  <2>5. C' = C /\ Cardinality(F') = Cardinality(F) + 1
    BY <1>0, <2>1, <2>3, <2>4, OutcomeMovesCounts
  <2>6. /\ counters' \in [Series -> Nat] /\ counters'["completed"] = counters["completed"]
        /\ counters'["failed"] = counters["failed"] + 1
    BY <1>0, <2>2, EmittedCounts, IncrementsAre
  <2> QED
    BY <1>0, <2>2, <2>5, <2>6 DEF OutcomeCounts
<1>8. CASE OutputCompleted
  <2>1. PICK r \in worker.batch : Becomes(r, "completed")
    BY <1>8 DEF OutputCompleted
  <2>2. /\ worker.pc \in {"deferring", "refusing", "marking", "outputs"}
        /\ counters' = Emitted(counters, "inference_completed")
    BY <1>8 DEF OutputCompleted
  <2>3. r \in Requests /\ outcome[r] \in {"none", "queued", "started"}
    BY <2>2, HandIsUnsettled
  <2>4. "completed" \in Outcomes
    BY DEF Outcomes
  <2>5. F' = F /\ Cardinality(C') = Cardinality(C) + 1
    BY <1>0, <2>1, <2>3, <2>4, OutcomeMovesCounts
  <2>6. /\ counters' \in [Series -> Nat] /\ counters'["completed"] = counters["completed"] + 1
        /\ counters'["failed"] = counters["failed"]
    BY <1>0, <2>2, EmittedCounts, IncrementsAre
  <2> QED
    BY <1>0, <2>2, <2>5, <2>6 DEF OutcomeCounts
<1>9. CASE MetricRaises
  <2>1. /\ outcome' = outcome /\ worker.pc # "dead" /\ worker'.pc = "dead"
        /\ \/ counters' = counters \/ counters' = Emitted(counters, "placed")
           \/ counters' = Emitted(counters, "inference_completed")
    BY <1>9 DEF MetricRaises, IdleWorker
  <2>2. /\ counters' \in [Series -> Nat] /\ counters'["failed"] = counters["failed"]
        /\ counters'["completed"] \in {counters["completed"], counters["completed"] + 1}
    BY <1>0, <2>1, EmittedCounts, IncrementsAre
  <2>3. C' = C /\ F' = F
    BY <2>1 DEF With
  <2> QED
    BY <1>0, <2>1, <2>2, <2>3 DEF OutcomeCounts
<1>10. CASE MetricAfterPutRaises
  <2>1. PICK r \in worker.batch, w \in {"started", "refused"} : Becomes(r, w)
    BY <1>10 DEF MetricAfterPutRaises
  <2>2. /\ worker.pc \in {"deferring", "refusing", "marking", "outputs"}
        /\ counters' = counters /\ worker'.pc = "dead"
    BY <1>10 DEF MetricAfterPutRaises, IdleWorker
  <2>3. r \in Requests /\ outcome[r] \in {"none", "queued", "started"}
    BY <2>2, HandIsUnsettled
  <2>4. w \in Outcomes /\ w # "completed"
    BY DEF Outcomes
  <2>5. C' = C /\ (F' = F \/ Cardinality(F') = Cardinality(F) + 1)
    BY <1>0, <2>1, <2>3, <2>4, OutcomeMovesCounts
  <2> QED
    BY <1>0, <2>2, <2>5 DEF OutcomeCounts
<1>11. CASE SchedulerStep \/ UNCHANGED vars
  <2>1. UNCHANGED <<counters, worker, outcome>>
    BY <1>11 DEF SchedulerStep, StartLoop, StopLoop, LoopStep, TopOfLoop, EndScan,
       BeginSecondPass, PassRaises, LoopRest, vars
  <2> QED
    BY <1>2, <2>1
<1> QED
  BY <1>3, <1>4, <1>5, <1>6, <1>7, <1>8, <1>9, <1>10, <1>11 DEF Next, WorkerStep, WorkerGoesOn

\* A batch no longer than the limit goes into the histogram.
LEMMA BatchIsObserved ==
    ASSUME batchSizes \in Histogram, BucketCounts, NEW n \in Nat, n <= BatchSize,
           batchSizes' = Observed(batchSizes, n)
    PROVE  /\ batchSizes' \in Histogram /\ BucketCounts'
           /\ batchSizes'.count = batchSizes.count + 1 /\ batchSizes'.total = batchSizes.total + n
<1> DEFINE new == [b \in Buckets |-> IF n <= b THEN batchSizes.counts[b] + 1
                                     ELSE batchSizes.counts[b]]
<1>0. /\ batchSizes.counts \in [Buckets -> Nat] /\ batchSizes.count \in Nat
      /\ batchSizes.total \in Nat /\ BatchSize \in Nat /\ Buckets \subseteq Nat
  BY DemoAssumption DEF Histogram
<1>1. batchSizes' = [counts |-> new, count |-> batchSizes.count + 1, total |-> batchSizes.total + n]
  BY <1>0 DEF Observed
<1>2. new \in [Buckets -> Nat]
  BY <1>0
<1>3. \A a, b \in Buckets : a <= b => new[a] <= new[b]
  <2>1. SUFFICES ASSUME NEW a \in Buckets, NEW b \in Buckets, a <= b PROVE new[a] <= new[b]
    OBVIOUS
  <2>2. /\ batchSizes.counts[a] <= batchSizes.counts[b] /\ a \in Nat /\ b \in Nat
        /\ batchSizes.counts[a] \in Nat /\ batchSizes.counts[b] \in Nat
    BY <1>0, <2>1 DEF BucketCounts
  <2>3. CASE n <= a
    BY <2>1, <2>2, <2>3
  <2>4. CASE ~(n <= a)
    BY <2>1, <2>2, <2>4
  <2> QED
    BY <2>3, <2>4
<1>4. \A b \in Buckets : b >= BatchSize => new[b] = batchSizes.count + 1
  BY <1>0 DEF BucketCounts
<1> HIDE DEF new
<1>5. /\ batchSizes'.counts = new /\ batchSizes'.count = batchSizes.count + 1
      /\ batchSizes'.total = batchSizes.total + n
  BY <1>1
<1>6. batchSizes' \in Histogram
  BY <1>0, <1>1, <1>2 DEF Histogram
<1>7. BucketCounts'
  BY <1>3, <1>4, <1>5 DEF BucketCounts
<1> QED
  BY <1>5, <1>6, <1>7

\* Every step keeps the histogram and the verdict counters in step with the batches.
LEMMA BatchesStep ==
    ASSUME CountInv, HandInv, CallInv, OwnerInv, [Next]_vars
    PROVE  batchSizes' \in Histogram /\ BatchCounts' /\ BucketCounts'
<1> DEFINE K == counters["scheduled"] + counters["deferred"]
<1>0. /\ outcome \in [Requests -> Outcomes] /\ worker \in Hand /\ counters \in [Series -> Nat]
      /\ batchSizes \in Histogram /\ BucketCounts /\ IsFiniteSet(worker.todo)
      /\ Cardinality(worker.todo) \in Nat /\ Cardinality(worker.todo) <= BatchSize
      /\ BatchSize \in Nat \ {0} /\ Worked \in SUBSET Requests /\ IsFiniteSet(Worked)
      /\ Cardinality(Worked) \in Nat
      /\ counters["scheduled"] \in Nat /\ counters["deferred"] \in Nat
      /\ worker.pc # "dead" => batchSizes.total = Cardinality(Worked) /\ K = batchSizes.count
  <2>1. worker.todo \in SUBSET Requests /\ Worked \in SUBSET Requests
    BY DEF HandInv, Hand, Worked, Settled
  <2>2. IsFiniteSet(worker.todo) /\ IsFiniteSet(Worked)
    BY <2>1, DemoAssumption, FS_Subset
  <2>3. Cardinality(worker.todo) \in Nat /\ Cardinality(Worked) \in Nat
    BY <2>2, FS_CardinalityType
  <2> QED
    BY <2>1, <2>2, <2>3, DemoAssumption DEF HandInv, CountInv, BatchCounts, Series
<1>1. ASSUME batchSizes' = batchSizes, K' = K, worker'.todo = worker.todo, Worked' = Worked,
             worker.pc # "dead" \/ worker' = worker
      PROVE  batchSizes' \in Histogram /\ BatchCounts' /\ BucketCounts'
  BY <1>0, <1>1 DEF BatchCounts, BucketCounts
<1>2. CASE UNCHANGED <<batchSizes, counters, worker, outcome>>
  <2>1. Worked' = Worked /\ K' = K
    BY <1>2 DEF Worked, Settled
  <2> QED
    BY <1>1, <1>2, <2>1
<1>3. ASSUME NEW t \in Threads, CallStep(t)
      PROVE  batchSizes' \in Histogram /\ BatchCounts' /\ BucketCounts'
  <2>1. CASE PublishCall(t)
    <3>1. /\ call[t].request \in Requests /\ outcome[call[t].request] = "none"
      BY <2>1 DEF PublishCall, CallInv, SoundCall, Call, OwnerInv
    <3>2. /\ worker' = worker /\ counters' = counters /\ batchSizes' = batchSizes
          /\ Becomes(call[t].request, "queued")
      BY <2>1 DEF PublishCall, CallRest
    <3>3. Settled' = Settled
      BY <1>0, <3>1, <3>2, OutcomeMovesCounts DEF Outcomes
    <3>4. Worked' = Worked /\ K' = K
      BY <3>2, <3>3 DEF Worked
    <3> QED
      BY <1>1, <3>2, <3>4
  <2>2. CASE AnswerAccepted(t)
    <3>1. /\ outcome' = outcome /\ worker' = worker /\ batchSizes' = batchSizes
          /\ counters' = Emitted(counters, "request_accepted")
      BY <2>2 DEF AnswerAccepted, CallRest
    <3>2. /\ counters'["scheduled"] = counters["scheduled"]
          /\ counters'["deferred"] = counters["deferred"]
      BY <1>0, <3>1, EmittedCounts, IncrementsAre
    <3>3. Worked' = Worked /\ K' = K
      BY <3>1, <3>2 DEF Worked, Settled
    <3> QED
      BY <1>1, <3>1, <3>3
  <2>3. CASE ~PublishCall(t) /\ ~AnswerAccepted(t)
    <3>1. UNCHANGED <<batchSizes, counters, worker, outcome>>
      BY <1>3, <2>3 DEF CallStep, CallGoesOn, BeginSubmit, VisitRecord, ScanRaises, CountPending,
         BeginSecondScan, RejectCall, AdmitCall, PutPendingRecord, AnswerFails, CallRest
    <3> QED
      BY <1>2, <3>1
  <2> QED
    BY <2>1, <2>2, <2>3
<1>4. CASE TakeBatch
  <2>1. PICK S \in SUBSET queue : /\ Cardinality(S) \in 1..BatchSize
                                 /\ worker' = [IdleWorker EXCEPT !.pc = "batching", !.todo = S]
    BY <1>4 DEF TakeBatch
  <2>2. UNCHANGED <<batchSizes, counters, outcome>> /\ worker.pc = "idle"
    BY <1>4 DEF TakeBatch
  <2>3. worker.batch = {} /\ worker.rest = {}
    BY <2>2 DEF HandInv, HandShape
  <2>4. worker'.todo = S /\ worker'.batch = {} /\ worker'.rest = {}
    BY <2>1 DEF IdleWorker
  <2>5. Worked' = Worked /\ K' = K
    BY <2>2, <2>3, <2>4 DEF Worked, Settled
  <2>6. Cardinality(S) <= BatchSize
    BY <1>0, <2>1
  <2> QED
    BY <1>0, <2>2, <2>4, <2>5, <2>6 DEF BatchCounts, BucketCounts
<1>5. CASE PlaceBatch
  <2>1. PICK B \in (SUBSET worker.todo) \ {{}}, e \in {"placed", "deferred"}, p \in WorkerPc \ {"dead"} :
           /\ worker' = [worker EXCEPT !.pc = p, !.todo = worker.todo \ B, !.batch = B]
           /\ batchSizes' = Observed(batchSizes, Cardinality(B))
           /\ counters' = Emitted(counters, e)
    BY <1>5 DEF PlaceBatch, WorkerPc
  <2>2. outcome' = outcome /\ worker.pc = "batching"
    BY <1>5 DEF PlaceBatch
  <2>3. worker.batch = {} /\ worker.rest = {} /\ \A r \in worker.todo : outcome[r] = "queued"
    BY <2>2 DEF HandInv, HandShape, HandState
  <2>4. worker'.todo = worker.todo \ B /\ worker'.batch = B /\ worker'.rest = {}
    BY <1>0, <2>1, <2>3 DEF Hand
  <2>5. /\ IsFiniteSet(B) /\ Cardinality(B) \in Nat /\ Cardinality(B) <= BatchSize
        /\ Cardinality(worker.todo \ B) <= BatchSize
    <3>1. IsFiniteSet(B) /\ Cardinality(B) <= Cardinality(worker.todo)
      BY <1>0, <2>1, FS_Subset
    <3>2. Cardinality(B) \in Nat
      BY <3>1, FS_CardinalityType
    <3>3. worker.todo \ B \in SUBSET worker.todo
      OBVIOUS
    <3>4. IsFiniteSet(worker.todo \ B) /\ Cardinality(worker.todo \ B) <= Cardinality(worker.todo)
      BY <1>0, <3>3, FS_Subset
    <3>5. Cardinality(worker.todo \ B) \in Nat
      BY <3>4, FS_CardinalityType
    <3> QED
      BY <1>0, <3>1, <3>2, <3>4, <3>5
  <2>6. Worked' = Worked \cup B /\ Worked \cap B = {}
    BY <2>1, <2>2, <2>3, <2>4 DEF Worked, Settled
  <2>7. Cardinality(Worked') = Cardinality(Worked) + Cardinality(B)
    <3>1. Cardinality(Worked \cup B) = Cardinality(Worked) + Cardinality(B) - Cardinality(Worked \cap B)
      BY <1>0, <2>5, FS_Union
    <3>2. Cardinality(Worked \cap B) = 0
      BY <2>6, FS_EmptySet
    <3> QED
      BY <1>0, <2>5, <2>6, <3>1, <3>2
  <2>8. K' = K + 1
    <3>1. CASE e = "placed"
      <4>1. /\ counters'["scheduled"] = counters["scheduled"] + 1
            /\ counters'["deferred"] = counters["deferred"]
        BY <1>0, <2>1, <3>1, EmittedCounts, IncrementsAre
      <4> QED
        BY <1>0, <4>1
    <3>2. CASE e = "deferred"
      <4>1. /\ counters'["scheduled"] = counters["scheduled"]
            /\ counters'["deferred"] = counters["deferred"] + 1
        BY <1>0, <2>1, <3>2, EmittedCounts, IncrementsAre
      <4> QED
        BY <1>0, <4>1
    <3> QED
      BY <3>1, <3>2
  <2>9. /\ batchSizes' \in Histogram /\ BucketCounts'
        /\ batchSizes'.count = batchSizes.count + 1
        /\ batchSizes'.total = batchSizes.total + Cardinality(B)
    BY <1>0, <2>1, <2>5, BatchIsObserved
  <2> QED
    BY <1>0, <2>2, <2>4, <2>5, <2>7, <2>8, <2>9 DEF BatchCounts
<1>6. CASE DeferOne \/ RefuseOne
  <2>1. PICK r \in worker.batch, w \in {"deferred", "refused"} :
           Becomes(r, w) /\ worker' = Without(worker, r)
    BY <1>6 DEF DeferOne, RefuseOne
  <2>2. /\ worker.pc \in {"deferring", "refusing"} /\ batchSizes' = batchSizes
        /\ counters' = counters \/ counters' = Emitted(counters, "inference_failed")
    BY <1>6 DEF DeferOne, RefuseOne
  <2>3. r \in Requests /\ outcome[r] \in {"none", "queued", "started"}
    BY <2>2, HandIsUnsettled
  <2>4. worker.rest = {} /\ worker.current = {}
    BY <2>2 DEF HandInv, HandShape
  <2>5. worker'.todo = worker.todo /\ worker'.batch = worker.batch \ {r} /\ worker'.rest = {}
    BY <1>0, <2>1, <2>4, WithoutOne
  <2>6. Settled' = Settled \cup {r}
    BY <1>0, <2>1, <2>3, OutcomeMovesCounts DEF Outcomes
  <2>7. Worked' = Worked
    BY <2>4, <2>5, <2>6 DEF Worked
  <2>8. K' = K
    <3>1. /\ counters'["scheduled"] = counters["scheduled"]
          /\ counters'["deferred"] = counters["deferred"]
      BY <1>0, <2>2, EmittedCounts, IncrementsAre
    <3> QED
      BY <3>1
  <2> QED
    BY <1>1, <2>2, <2>5, <2>7, <2>8
<1>7. CASE MarkOne
  <2>1. PICK r \in worker.batch :
           /\ Becomes(r, "started")
           /\ worker' = IF worker.batch = {r}
                        THEN [worker EXCEPT !.pc = "outputs", !.batch = worker.rest \cup {r},
                                            !.rest = {}]
                        ELSE [worker EXCEPT !.batch = worker.batch \ {r},
                                            !.rest = worker.rest \cup {r}]
    BY <1>7 DEF MarkOne
  <2>2. /\ worker.pc = "marking" /\ batchSizes' = batchSizes
        /\ counters' = Emitted(counters, "inference_started")
    BY <1>7 DEF MarkOne
  <2>3. r \in Requests /\ outcome[r] \in {"none", "queued", "started"}
    BY <2>2, HandIsUnsettled
  <2>4. /\ worker'.todo = worker.todo
        /\ worker'.batch \cup worker'.rest = worker.batch \cup worker.rest
    BY <1>0, <2>1 DEF Hand
  <2>5. Settled' = Settled
    BY <1>0, <2>1, <2>3, OutcomeMovesCounts DEF Outcomes
  <2>6. Worked' = Worked
    BY <2>4, <2>5 DEF Worked
  <2>7. K' = K
    <3>1. /\ counters'["scheduled"] = counters["scheduled"]
          /\ counters'["deferred"] = counters["deferred"]
      BY <1>0, <2>2, EmittedCounts, IncrementsAre
    <3> QED
      BY <3>1
  <2> QED
    BY <1>1, <2>2, <2>4, <2>6, <2>7
<1>8. CASE OutputCompleted \/ OutputFailed
  <2>1. PICK r \in worker.batch, w \in {"completed", "failed"},
             e \in {"inference_completed", "inference_failed"} :
           /\ Becomes(r, w) /\ counters' = Emitted(counters, e)
           /\ worker' = [worker EXCEPT !.pc = "auditing", !.current = {r}]
    BY <1>8 DEF OutputCompleted, OutputFailed
  <2>2. worker.pc = "outputs" /\ batchSizes' = batchSizes
    BY <1>8 DEF OutputCompleted, OutputFailed
  <2>3. r \in Requests /\ outcome[r] \in {"none", "queued", "started"}
    BY <2>2, HandIsUnsettled
  <2>4. /\ worker'.todo = worker.todo /\ worker'.batch = worker.batch /\ worker'.rest = worker.rest
    BY <1>0, <2>1 DEF Hand
  <2>5. Settled' = Settled \cup {r}
    BY <1>0, <2>1, <2>3, OutcomeMovesCounts DEF Outcomes
  <2>6. Worked' = Worked
    BY <2>4, <2>5 DEF Worked
  <2>7. K' = K
    <3>1. /\ counters'["scheduled"] = counters["scheduled"]
          /\ counters'["deferred"] = counters["deferred"]
      BY <1>0, <2>1, EmittedCounts, IncrementsAre
    <3> QED
      BY <3>1
  <2> QED
    BY <1>1, <2>2, <2>4, <2>6, <2>7
<1>9. CASE AuditOutput
  <2> DEFINE me == [worker EXCEPT !.pc = "outputs", !.current = {}]
  <2>1. PICK r \in worker.current : worker' = Without(me, r)
    BY <1>9 DEF AuditOutput
  <2>2. /\ UNCHANGED <<batchSizes, counters, outcome>> /\ worker.pc = "auditing" /\ worker.rest = {}
        /\ r \in worker.batch /\ outcome[r] \in {"completed", "failed"} /\ r \in Requests
    BY <1>0, <1>9 DEF AuditOutput, HandInv, HandShape, HandState, Hand
  <2>3. /\ me \in Hand /\ me.current = {} /\ me.batch = worker.batch
        /\ me.todo = worker.todo /\ me.rest = {}
    BY <1>0, <2>2 DEF Hand, WorkerPc
  <2> HIDE DEF me
  <2>4. /\ worker'.todo = worker.todo /\ worker'.batch = worker.batch \ {r} /\ worker'.rest = {}
    BY <2>1, <2>2, <2>3, WithoutOne
  <2>5. Worked' = Worked /\ K' = K
    BY <2>2, <2>4 DEF Worked, Settled
  <2> QED
    BY <1>1, <2>2, <2>4, <2>5
<1>10. CASE MetricRaises \/ MetricAfterPutRaises
  <2>1. worker' = [IdleWorker EXCEPT !.pc = "dead"]
    BY <1>10 DEF MetricRaises, MetricAfterPutRaises
  <2>2. worker'.pc = "dead" /\ worker'.todo = {}
    BY <2>1 DEF IdleWorker
  <2>3. BatchCounts'
    <3>1. Cardinality(worker'.todo) <= BatchSize
      BY <1>0, <2>2, FS_EmptySet
    <3> QED
      BY <2>2, <3>1 DEF BatchCounts
  <2>4. CASE batchSizes' = batchSizes
    BY <1>0, <2>3, <2>4 DEF BucketCounts
  <2>5. ASSUME NEW B \in SUBSET worker.todo, batchSizes' = Observed(batchSizes, Cardinality(B))
        PROVE  batchSizes' \in Histogram /\ BucketCounts'
    <3>1. IsFiniteSet(B) /\ Cardinality(B) <= Cardinality(worker.todo)
      BY <1>0, FS_Subset
    <3>2. Cardinality(B) \in Nat
      BY <3>1, FS_CardinalityType
    <3>3. Cardinality(B) <= BatchSize
      BY <1>0, <3>1, <3>2
    <3> QED
      BY <1>0, <2>5, <3>2, <3>3, BatchIsObserved
  <2>6. \/ batchSizes' = batchSizes
        \/ \E B \in SUBSET worker.todo : batchSizes' = Observed(batchSizes, Cardinality(B))
    BY <1>10 DEF MetricRaises, MetricAfterPutRaises
  <2> QED
    BY <2>3, <2>4, <2>5, <2>6
<1>11. CASE SchedulerStep \/ UNCHANGED vars
  <2>1. UNCHANGED <<batchSizes, counters, worker, outcome>>
    BY <1>11 DEF SchedulerStep, StartLoop, StopLoop, LoopStep, TopOfLoop, EndScan,
       BeginSecondPass, PassRaises, LoopRest, vars
  <2> QED
    BY <1>2, <2>1
<1> QED
  BY <1>3, <1>4, <1>5, <1>6, <1>7, <1>8, <1>9, <1>10, <1>11 DEF Next, WorkerStep, WorkerGoesOn
-----------------------------------------------------------------------------
(* The overshoot of the admission check.                                   *)

\* Sets of requests and of threads can be counted.
LEMMA BoundedSets ==
    ASSUME NEW P \in SUBSET Requests, NEW E \in SUBSET Threads
    PROVE  /\ IsFiniteSet(P) /\ Cardinality(P) \in Nat
           /\ IsFiniteSet(E) /\ Cardinality(E) \in Nat
           /\ Cardinality(Threads) \in Nat /\ Cardinality(E) <= Cardinality(Threads)
<1>1. IsFiniteSet(P)
  BY DemoAssumption, FS_Subset
<1>2. IsFiniteSet(E) /\ Cardinality(E) <= Cardinality(Threads)
  BY DemoAssumption, FS_Subset
<1> QED
  BY <1>1, <1>2, DemoAssumption, FS_CardinalityType

\* Fewer enter, and no more are pending.
LEMMA OvershootShrinks ==
    ASSUME NEW P \in SUBSET Requests, NEW Q \in SUBSET Requests, Q \subseteq P,
           NEW E \in SUBSET Threads, NEW F \in SUBSET Threads, F \subseteq E, NEW m \in Nat,
           Cardinality(P) + Cardinality(E) <= m - 1 + Cardinality(Threads)
    PROVE  Cardinality(Q) + Cardinality(F) <= m - 1 + Cardinality(Threads)
<1>1. IsFiniteSet(P) /\ IsFiniteSet(E)
  BY BoundedSets
<1>2. Cardinality(Q) <= Cardinality(P)
  BY <1>1, FS_Subset
<1>3. Cardinality(F) <= Cardinality(E)
  BY <1>1, FS_Subset
<1>4. /\ Cardinality(P) \in Nat /\ Cardinality(Q) \in Nat /\ Cardinality(Threads) \in Nat
      /\ Cardinality(E) \in Nat /\ Cardinality(F) \in Nat
  BY BoundedSets
<1> QED
  BY <1>2, <1>3, <1>4

\* Below the limit nothing can be wrong: no more enter than there are threads.
LEMMA NoOvershootBelow ==
    ASSUME NEW P \in SUBSET Requests, NEW E \in SUBSET Threads, NEW m \in Nat, Cardinality(P) < m
    PROVE  Cardinality(P) + Cardinality(E) <= m - 1 + Cardinality(Threads)
<1>1. /\ Cardinality(P) \in Nat /\ Cardinality(E) \in Nat /\ Cardinality(Threads) \in Nat
      /\ Cardinality(E) <= Cardinality(Threads)
  BY BoundedSets
<1> QED
  BY <1>1

\* So can the records a scan has not met.
LEMMA UnseenIsFinite ==
    ASSUME NEW t \in Threads
    PROVE  IsFiniteSet(Unseen(t)) /\ Cardinality(Unseen(t)) \in Nat
<1>1. Unseen(t) \in SUBSET Requests
  BY DEF Unseen, Pending
<1>2. {} \in SUBSET Threads
  OBVIOUS
<1> QED
  BY <1>1, <1>2, BoundedSets

\* What another call's put does to a call that has not moved: an insertion makes
\* its scan raise, PENDING over another status is at most one more to find, and
\* another status over PENDING is one less.
LEMMA PutAndOthers ==
    ASSUME StoreInv, CallInv, NEW u \in Threads, call'[u] = call[u], NEW m \in Nat,
           NEW r \in Requests, NEW s \in Statuses \ {"absent"}, Put(r, s), Enters(u, m)'
    PROVE  /\ s = "pending" \/ db.status[r] # "pending" => Enters(u, m)
           /\ Enters(u, m + 1)
<1>0. /\ db'.status = [db.status EXCEPT ![r] = s] /\ db.status \in [Requests -> Statuses]
      /\ Len(db.keys) \in Nat /\ Len(db'.keys) \in Nat
      /\ db.status[r] = "absent" => Len(db'.keys) = Len(db.keys) + 1
      /\ db.status[r] # "absent" => db'.keys = db.keys
  BY PutKeepsStore DEF StoreInv, Store
<1>1. /\ call[u] \in Call /\ call[u].scan.size <= Len(db.keys) /\ call[u].scan.size \in Nat
      /\ call[u].scan.found \in Nat /\ call[u].pending \in Nat
  BY DEF CallInv, SoundCall, Call
<1>2. CASE call[u].pc # "pending"
  BY <1>1, <1>2 DEF Enters
<1>3. CASE call[u].pc = "pending"
  <2>1. call[u].scan.size = Len(db'.keys) /\ Expected(u)' < m
    BY <1>3 DEF Enters, Raises
  <2>2. db'.keys = db.keys /\ ~Raises(call[u].scan, db)
    BY <1>0, <1>1, <2>1 DEF Raises
  <2> DEFINE Seen == {db.keys[i] : i \in 1..call[u].scan.visited}
  <2>3. Unseen(u) = Pending \ Seen /\ Unseen(u)' = Pending' \ Seen
    BY <2>2 DEF Unseen
  <2>4. IsFiniteSet(Unseen(u)) /\ Cardinality(Unseen(u)) \in Nat
    BY UnseenIsFinite
  <2>5. Unseen(u)' \in SUBSET Requests
    BY <2>3 DEF Pending
  <2>6. IsFiniteSet(Unseen(u)') /\ Cardinality(Unseen(u)') \in Nat
    <3>1. {} \in SUBSET Threads
      OBVIOUS
    <3> QED
      BY <2>5, <3>1, BoundedSets
  <2>7. ASSUME s = "pending" \/ db.status[r] # "pending"
        PROVE  Cardinality(Unseen(u)) <= Cardinality(Unseen(u)')
    <3>1. Pending \subseteq Pending'
      BY <1>0, <2>7 DEF Pending
    <3>2. Unseen(u) \in SUBSET (Unseen(u)')
      BY <2>3, <3>1
    <3> QED
      BY <2>6, <3>2, FS_Subset
  <2>8. Cardinality(Unseen(u)) <= Cardinality(Unseen(u)') + 1
    <3>1. Pending \ {r} \subseteq Pending'
      BY <1>0 DEF Pending
    <3>2. Unseen(u) \ {r} \in SUBSET (Unseen(u)')
      BY <2>3, <3>1
    <3>3. Cardinality(Unseen(u) \ {r}) <= Cardinality(Unseen(u)')
      BY <2>6, <3>2, FS_Subset
    <3>4. Cardinality(Unseen(u) \ {r}) = IF r \in Unseen(u) THEN Cardinality(Unseen(u)) - 1
                                         ELSE Cardinality(Unseen(u))
      BY <2>4, FS_RemoveElement
    <3> QED
      BY <2>4, <2>6, <3>3, <3>4
  <2>9. Expected(u)' = call[u].scan.found + Cardinality(Unseen(u)')
    BY DEF Expected
  <2>10. Expected(u) < m + 1 /\ (s = "pending" \/ db.status[r] # "pending" => Expected(u) < m)
    BY <1>1, <2>1, <2>4, <2>6, <2>7, <2>8, <2>9 DEF Expected
  <2> QED
    BY <1>3, <2>2, <2>10 DEF Enters
<1> QED
  BY <1>2, <1>3

\* A scan at its end has met every pending record.
LEMMA NothingUnseenAtEnd ==
    ASSUME StoreInv, NEW t \in Threads, ~Raises(call[t].scan, db), Ends(call[t].scan)
    PROVE  Cardinality(Unseen(t)) = 0
<1>1. call[t].scan.visited = Len(db.keys)
  BY DEF Raises, Ends
<1>2. Pending \subseteq Present
  BY DEF Pending, Present
<1>3. Unseen(t) = {}
  BY <1>1, <1>2 DEF Unseen, StoreInv, Present
<1> QED
  BY <1>3, FS_EmptySet

\* Visiting a key never lowers what a scan will find.
LEMMA VisitingKeepsExpected ==
    ASSUME StoreInv, CallInv, NEW t \in Threads, VisitRecord(t), call[t].pc = "pending"
    PROVE  /\ call'[t].pc = "pending" /\ call'[t].scan.size = call[t].scan.size
           /\ Expected(t) \in Nat /\ Expected(t)' \in Nat /\ Expected(t) <= Expected(t)'
<1> DEFINE v == call'[t].scan
           k == db.keys[call[t].scan.visited + 1]
<1>1. /\ call' = [call EXCEPT ![t].scan = Visited(@, db, "pending")] /\ db' = db
      /\ call[t].scan \in [size : Nat, visited : Nat, found : Nat]
      /\ call[t] \in Call /\ call \in [Threads -> Call]
  BY DEF VisitRecord, CallInv, SoundCall, Call
<1>2. v = Visited(call[t].scan, db, "pending") /\ call'[t].pc = "pending"
  BY <1>1 DEF Call
<1>3. /\ v \in [size : Nat, visited : Nat, found : Nat]
      /\ v.size = call[t].scan.size /\ v.visited = call[t].scan.visited + 1
      /\ v.found \in {call[t].scan.found, call[t].scan.found + 1}
      /\ v.found = call[t].scan.found + 1 <=> db.status[k] = "pending"
  BY <1>1, <1>2, VisitedMoves
<1>4. /\ call[t].scan.visited \in Nat /\ call[t].scan.found \in Nat /\ v.found \in Nat
  BY <1>1, <1>3
<1>5. \A i : i \in 1..v.visited <=> i \in 1..call[t].scan.visited \/ i = call[t].scan.visited + 1
  BY <1>3, <1>4
<1> HIDE DEF v
<1>6. Unseen(t)' = Unseen(t) \ {k}
  <2>1. Pending' = Pending /\ db'.keys = db.keys
    BY <1>1 DEF Pending
  <2>2. {db.keys[i] : i \in 1..v.visited} = {db.keys[i] : i \in 1..call[t].scan.visited} \cup {k}
    BY <1>5
  <2>3. Unseen(t)' = Pending \ {db.keys[i] : i \in 1..v.visited}
    BY <2>1 DEF Unseen, v
  <2> HIDE DEF k
  <2> QED
    BY <2>2, <2>3 DEF Unseen
<1>7. k \in Unseen(t) => v.found = call[t].scan.found + 1
  BY <1>3 DEF Unseen, Pending
<1>8. /\ IsFiniteSet(Unseen(t)) /\ Cardinality(Unseen(t)) \in Nat
      /\ Cardinality(Unseen(t) \ {k}) = IF k \in Unseen(t) THEN Cardinality(Unseen(t)) - 1
                                        ELSE Cardinality(Unseen(t))
  BY UnseenIsFinite, FS_RemoveElement
<1>9. Expected(t)' = v.found + Cardinality(Unseen(t) \ {k})
  BY <1>6 DEF Expected, v
<1> HIDE DEF k
<1>10. Expected(t) \in Nat /\ Expected(t)' \in Nat /\ Expected(t) <= Expected(t)'
  BY <1>3, <1>4, <1>7, <1>8, <1>9 DEF Expected
<1> QED
  BY <1>2, <1>3, <1>10 DEF v

\* A step of a call that is not its put lets in only itself, and only below the limit.
LEMMA CallEnters ==
    ASSUME StoreInv, CallInv, NEW t \in Threads, CallStep(t), ~PutPendingRecord(t), NEW m \in Nat,
           m >= MaxPending, Enters(t, m)'
    PROVE  Enters(t, m) \/ Cardinality(Pending) < m
<1>0. /\ call \in [Threads -> Call] /\ call[t] \in Call
      /\ call[t].pending \in Nat /\ call[t].scan.found \in Nat /\ MaxPending \in Nat
  BY DemoAssumption DEF CallInv, SoundCall, Call
<1>1. CASE BeginSubmit(t)
  <2>1. /\ call'[t].pc = "pending" /\ call'[t].scan.visited = 0 /\ call'[t].scan.found = 0
        /\ db' = db
    BY <1>0, <1>1 DEF BeginSubmit, BeginScan, NoCall
  <2>2. Unseen(t)' = Pending
    BY <2>1 DEF Unseen, Pending
  <2>3. Expected(t)' = Cardinality(Pending)
    <3>1. Pending \in SUBSET Requests /\ {} \in SUBSET Threads
      BY DEF Pending
    <3>2. Cardinality(Pending) \in Nat
      BY <3>1, BoundedSets
    <3> QED
      BY <2>1, <2>2, <3>2 DEF Expected
  <2> QED
    BY <2>1, <2>3 DEF Enters
<1>2. CASE VisitRecord(t)
  <2>1. CASE call[t].pc = "pending"
    <3>1. /\ call'[t].pc = "pending" /\ call'[t].scan.size = call[t].scan.size
          /\ Expected(t) \in Nat /\ Expected(t)' \in Nat /\ Expected(t) <= Expected(t)'
          /\ db' = db
      BY <1>2, <2>1, VisitingKeepsExpected DEF VisitRecord
    <3>2. Expected(t)' < m /\ ~Raises(call[t].scan, db)
      BY <3>1 DEF Enters, Raises
    <3> QED
      BY <1>0, <2>1, <3>1, <3>2 DEF Enters
  <2>2. CASE call[t].pc = "processing"
    <3>1. call'[t].pc = "processing" /\ call'[t].pending = call[t].pending
      BY <1>0, <1>2, <2>2 DEF VisitRecord, Call
    <3> QED
      BY <2>2, <3>1 DEF Enters
  <2> QED
    BY <1>2, <2>1, <2>2 DEF VisitRecord
<1>3. CASE ScanRaises(t) \/ RejectCall(t) \/ AnswerAccepted(t) \/ AnswerFails(t)
  <2>1. call'[t].pc = "idle"
    BY <1>0, <1>3 DEF ScanRaises, RejectCall, AnswerAccepted, AnswerFails, NoCall
  <2> QED
    BY <2>1 DEF Enters
<1>4. CASE CountPending(t)
  <2>1. /\ call'[t].pc = "scanned" /\ call'[t].pending = call[t].scan.found
        /\ call[t].pc = "pending" /\ ~Raises(call[t].scan, db) /\ Ends(call[t].scan)
    BY <1>0, <1>4 DEF CountPending, NoCall
  <2>2. Expected(t) = call[t].scan.found
    BY <1>0, <2>1, NothingUnseenAtEnd DEF Expected
  <2> QED
    BY <2>1, <2>2 DEF Enters
<1>5. CASE BeginSecondScan(t)
  <2>1. /\ call'[t].pc = "processing" /\ call'[t].pending = call[t].pending
        /\ call[t].pc = "scanned"
    BY <1>0, <1>5 DEF BeginSecondScan, Call
  <2> QED
    BY <2>1 DEF Enters
<1>6. CASE AdmitCall(t)
  <2>1. call[t].pc = "processing" /\ call[t].pending < MaxPending
    BY <1>6 DEF AdmitCall, DemoAdmits
  <2> QED
    BY <1>0, <2>1 DEF Enters
<1>7. CASE PublishCall(t)
  BY <1>7 DEF PublishCall, Enters
<1> QED
  BY <1>1, <1>2, <1>3, <1>4, <1>5, <1>6, <1>7 DEF CallStep, CallGoesOn

\* No step carries the overshoot past any limit from MaxPending up.
LEMMA AdmissionStep ==
    ASSUME StoreInv, CallInv, HandInv, AdmissionInv, [Next]_vars
    PROVE  AdmissionInv'
<1> SUFFICES ASSUME NEW m \in Nat, m >= MaxPending
             PROVE  OvershootAt(m)'
  BY DEF AdmissionInv
<1>0. MaxPending \in Nat /\ m + 1 \in Nat /\ m + 1 >= MaxPending
  BY DemoAssumption
<1>1. OvershootAt(m) /\ OvershootAt(m + 1)
  BY <1>0 DEF AdmissionInv
<1>2. /\ Pending \in SUBSET Requests /\ Pending' \in SUBSET Requests
      /\ Entering(m) \in SUBSET Threads /\ Entering(m)' \in SUBSET Threads
      /\ Entering(m + 1) \in SUBSET Threads
  BY DEF Pending, Entering
<1>3. /\ IsFiniteSet(Pending) /\ IsFiniteSet(Entering(m)) /\ IsFiniteSet(Entering(m + 1))
      /\ Cardinality(Pending) \in Nat /\ Cardinality(Pending') \in Nat
      /\ Cardinality(Entering(m)) \in Nat /\ Cardinality(Entering(m)') \in Nat
      /\ Cardinality(Entering(m + 1)) \in Nat /\ Cardinality(Threads) \in Nat
  BY <1>2, BoundedSets
<1>4. ASSUME Pending' \subseteq Pending, Entering(m)' \subseteq Entering(m)
      PROVE  OvershootAt(m)'
  BY <1>1, <1>2, <1>4, OvershootShrinks DEF OvershootAt
<1>5. CASE UNCHANGED <<db, call>>
  <2>1. Pending' = Pending /\ Entering(m)' = Entering(m)
    BY <1>5 DEF Pending, Entering, Enters, Expected, Unseen, Raises
  <2> QED
    BY <1>4, <2>1
<1>6. ASSUME NEW t \in Threads, CallStep(t), ~PutPendingRecord(t)
      PROVE  OvershootAt(m)'
  <2>1. db' = db /\ \A u \in Threads \ {t} : call'[u] = call[u]
    <3>1. db' = db /\ \E c : call' = [call EXCEPT ![t] = c]
      BY <1>6 DEF CallStep, CallGoesOn, BeginSubmit, VisitRecord, ScanRaises, CountPending,
         BeginSecondScan, RejectCall, AdmitCall, PublishCall, AnswerAccepted, AnswerFails
    <3> QED
      BY <3>1 DEF CallInv
  <2>2. Pending' = Pending
    BY <2>1 DEF Pending
  <2>3. CASE Cardinality(Pending) < m
    BY <1>2, <2>2, <2>3, NoOvershootBelow DEF OvershootAt
  <2>4. CASE ~(Cardinality(Pending) < m)
    <3>1. ASSUME NEW u \in Threads, Enters(u, m)'
          PROVE  Enters(u, m)
      <4>1. CASE u = t
        BY <1>6, <2>4, <3>1, <4>1, CallEnters
      <4>2. CASE u # t
        <5>1. call'[u] = call[u]
          BY <2>1, <4>2
        <5> QED
          BY <2>1, <2>2, <3>1, <5>1 DEF Enters, Expected, Unseen
      <4> QED
        BY <4>1, <4>2
    <3>2. Entering(m)' \subseteq Entering(m)
      BY <3>1 DEF Entering
    <3> QED
      BY <1>4, <2>2, <3>2
  <2> QED
    BY <2>3, <2>4
<1>7. ASSUME NEW t \in Threads, PutPendingRecord(t)
      PROVE  OvershootAt(m)'
  <2> DEFINE r == call[t].request
  <2>1. /\ r \in Requests /\ Put(r, "pending") /\ call[t].pc = "published"
        /\ call'[t].pc = "stored" /\ \A u \in Threads \ {t} : call'[u] = call[u]
        /\ "pending" \in Statuses \ {"absent"}
    BY <1>7 DEF PutPendingRecord, CallInv, SoundCall, Call, Statuses
  <2> HIDE DEF r
  <2>2. db'.status = [db.status EXCEPT ![r] = "pending"] /\ db.status \in [Requests -> Statuses]
    BY <2>1, PutKeepsStore DEF StoreInv, Store
  <2>3. Pending' = Pending \cup {r}
    BY <2>1, <2>2 DEF Pending
  <2>4. Entering(m)' \subseteq Entering(m) \ {t}
    <3>1. ASSUME NEW u \in Threads, Enters(u, m)'
          PROVE  Enters(u, m) /\ u # t
      <4>1. u # t
        BY <2>1, <3>1 DEF Enters
      <4>2. call'[u] = call[u]
        BY <2>1, <4>1
      <4>3. Enters(u, m)
        BY <2>1, <3>1, <4>2, PutAndOthers
      <4> QED
        BY <4>1, <4>3
    <3> QED
      BY <3>1 DEF Entering
  <2>5. t \in Entering(m)
    BY <2>1 DEF Entering, Enters
  <2>6. Cardinality(Pending') <= Cardinality(Pending) + 1
    <3>1. Cardinality(Pending \cup {r}) = IF r \in Pending THEN Cardinality(Pending)
                                         ELSE Cardinality(Pending) + 1
      BY <1>3, FS_AddElement
    <3> QED
      BY <1>3, <2>3, <3>1
  <2>7. Cardinality(Entering(m)') <= Cardinality(Entering(m)) - 1
    <3>1. /\ IsFiniteSet(Entering(m) \ {t})
          /\ Cardinality(Entering(m) \ {t}) = Cardinality(Entering(m)) - 1
      BY <1>3, <2>5, FS_RemoveElement
    <3>2. Cardinality(Entering(m)') <= Cardinality(Entering(m) \ {t})
      BY <2>4, <3>1, FS_Subset
    <3> QED
      BY <3>1, <3>2
  <2>8. Cardinality(Pending') + Cardinality(Entering(m)') <= m - 1 + Cardinality(Threads)
    BY <1>1, <1>3, <2>6, <2>7 DEF OvershootAt
  <2> QED
    BY <2>8 DEF OvershootAt
<1>8. CASE WorkerStep
  <2>1. call' = call
    BY <1>8 DEF WorkerStep, WorkerGoesOn, TakeBatch, PlaceBatch, DeferOne, RefuseOne, MarkOne,
       OutputCompleted, OutputFailed, AuditOutput, MetricRaises, MetricAfterPutRaises, WorkerRest
  <2>2. CASE db' = db
    BY <1>5, <2>1, <2>2
  <2>3. ASSUME NEW r \in Requests, NEW s \in {"processing", "completed", "failed"}, Put(r, s)
        PROVE  OvershootAt(m)'
    <3>1. /\ db'.status = [db.status EXCEPT ![r] = s] /\ db.status \in [Requests -> Statuses]
          /\ s \in Statuses \ {"absent"}
      BY <2>3, PutKeepsStore DEF StoreInv, Store, Statuses
    <3>2. Pending' = Pending \ {r}
      BY <3>1 DEF Pending
    <3>3. CASE db.status[r] # "pending"
      <4>1. ASSUME NEW u \in Threads, Enters(u, m)'
            PROVE  Enters(u, m)
        BY <2>1, <2>3, <3>1, <3>3, <4>1, PutAndOthers
      <4>2. Entering(m)' \subseteq Entering(m)
        BY <4>1 DEF Entering
      <4> QED
        BY <1>4, <3>2, <4>2
    <3>4. CASE db.status[r] = "pending"
      <4>1. ASSUME NEW u \in Threads, Enters(u, m)'
            PROVE  Enters(u, m + 1)
        BY <2>1, <2>3, <3>1, <4>1, PutAndOthers
      <4>2. Entering(m)' \in SUBSET Entering(m + 1)
        BY <4>1 DEF Entering
      <4>3. Cardinality(Entering(m)') <= Cardinality(Entering(m + 1))
        BY <1>3, <4>2, FS_Subset
      <4>4. Cardinality(Pending') = Cardinality(Pending) - 1
        <5>1. r \in Pending
          BY <3>4 DEF Pending
        <5> QED
          BY <1>3, <3>2, <5>1, FS_RemoveElement
      <4>5. Cardinality(Pending') + Cardinality(Entering(m)') <= m - 1 + Cardinality(Threads)
        BY <1>1, <1>3, <4>3, <4>4 DEF OvershootAt
      <4> QED
        BY <4>5 DEF OvershootAt
    <3> QED
      BY <3>3, <3>4
  <2> QED
    BY <1>8, <2>2, <2>3, WorkerWrites
<1>9. CASE SchedulerStep \/ UNCHANGED vars
  <2>1. UNCHANGED <<db, call>>
    BY <1>9 DEF SchedulerStep, StartLoop, StopLoop, LoopStep, TopOfLoop, EndScan,
       BeginSecondPass, PassRaises, LoopRest, vars
  <2> QED
    BY <1>5, <2>1
<1> QED
  BY <1>6, <1>7, <1>8, <1>9 DEF Next
-----------------------------------------------------------------------------
\* The inductive invariant.
DemoInv ==
    /\ StoreInv /\ CallInv /\ OwnerInv /\ HandInv
    /\ LoopInv /\ TrailInv /\ CountInv /\ AdmissionInv

\* The invariant holds when the process starts ...
LEMMA DemoInit == Init => DemoInv
<1> SUFFICES ASSUME Init PROVE DemoInv
  OBVIOUS
<1>1. StoreInv
  BY InitStore
<1>2. /\ call = [t \in Threads |-> NoCall] /\ worker = IdleWorker /\ queue = {}
      /\ outcome = [r \in Requests |-> "none"] /\ announced = {}
      /\ trail = [r \in Requests |-> <<>>]
  BY DEF Init
<1>3. CallInv
  <2>1. Len(db.keys) \in Nat
    BY <1>1 DEF StoreInv, Store
  <2>2. SoundCall(NoCall, Len(db.keys))
    BY <2>1, NoCallIsSound
  <2> QED
    BY <1>2, <2>2 DEF CallInv, SoundCall
<1>4. OwnerInv
  BY <1>2 DEF OwnerInv, NoCall, InFlight, Outcomes
<1>5. HandInv
  <2>1. worker \in Hand
    BY <1>2 DEF IdleWorker, Hand, WorkerPc
  <2>2. outcome \in [Requests -> Outcomes]
    BY <1>2 DEF Outcomes
  <2>3. /\ worker.pc = "idle" /\ worker.todo = {} /\ worker.batch = {}
        /\ worker.rest = {} /\ worker.current = {}
    BY <1>2 DEF IdleWorker
  <2>4. HandShape /\ HandState
    BY <1>2, <2>3 DEF HandShape, HandState
  <2> QED
    BY <1>2, <2>1, <2>2, <2>4 DEF HandInv
<1>6. LoopInv
  <2>1. PICK l \in Loops : /\ scheduler = [stop |-> FALSE, thread |-> l]
                           /\ loop = [k \in Loops |-> IF k = l THEN [Unborn EXCEPT !.pc = "ready"]
                                                      ELSE Unborn]
    BY DemoAssumption DEF Init
  <2>2. loop \in [Loops -> [pc : LoopPc, size : Nat]]
    BY <2>1 DEF Unborn, LoopPc
  <2>3. Alive \subseteq {l}
    BY <2>1 DEF Alive, Unborn
  <2> QED
    BY <2>1, <2>2, <2>3 DEF LoopInv
<1>7. TrailInv
  BY <1>2 DEF TrailInv, Terminal, With
<1>8. CountInv
  <2>1. counters = [c \in Series |-> 0] /\ batchSizes = NewHistogram(Buckets)
    BY DEF Init, NoCounts
  <2>2. With({"completed"}) = {} /\ With({"failed", "refused"}) = {} /\ Worked = {}
        /\ worker.todo = {}
    BY <1>2 DEF With, Worked, Settled, IdleWorker
  <2>3. /\ counters["completed"] = 0 /\ counters["failed"] = 0
        /\ counters["scheduled"] = 0 /\ counters["deferred"] = 0
    BY <2>1 DEF Series
  <2>4. /\ batchSizes \in Histogram /\ batchSizes.count = 0 /\ batchSizes.total = 0
        /\ \A b \in Buckets : batchSizes.counts[b] = 0
    BY <2>1 DEF NewHistogram, Histogram
  <2>5. OutcomeCounts
    BY <2>2, <2>3, FS_EmptySet DEF OutcomeCounts
  <2>6. BatchCounts
    BY <2>2, <2>3, <2>4, FS_EmptySet, DemoAssumption DEF BatchCounts
  <2>7. BucketCounts
    BY <2>4 DEF BucketCounts
  <2> QED
    BY <2>1, <2>4, <2>5, <2>6, <2>7 DEF CountInv
<1>9. AdmissionInv
  <2>1. SUFFICES ASSUME NEW m \in Nat PROVE OvershootAt(m)
    BY DEF AdmissionInv
  <2>2. Pending = {}
    BY DEF Init, EmptyStore, Pending
  <2>3. Entering(m) = {}
    BY <1>2 DEF Entering, Enters, NoCall
  <2>4. Cardinality(Threads) \in Nat /\ Cardinality(Threads) # 0
    BY DemoAssumption, FS_CardinalityType, FS_EmptySet
  <2>5. Cardinality(Pending) = 0 /\ Cardinality(Entering(m)) = 0
    BY <2>2, <2>3, FS_EmptySet
  <2> QED
    BY <2>4, <2>5 DEF OvershootAt
<1> QED
  BY <1>1, <1>3, <1>4, <1>5, <1>6, <1>7, <1>8, <1>9 DEF DemoInv

\* ... and is kept by every step.
LEMMA DemoStep == DemoInv /\ [Next]_vars => DemoInv'
<1> SUFFICES ASSUME DemoInv, [Next]_vars PROVE DemoInv'
  OBVIOUS
<1> USE DEF DemoInv
<1>1. StoreInv'
  BY StoreStep
<1>2. CallInv'
  BY CallsStep
<1>3. OwnerInv'
  BY OwnersStep
<1>4. HandInv'
  BY HandStep
<1>5. LoopInv'
  BY LoopsStep
<1>6. TrailInv'
  BY TrailStep
<1>7. CountInv'
  <2>1. counters' \in [Series -> Nat] /\ OutcomeCounts'
    BY OutcomeCountsStep
  <2>2. batchSizes' \in Histogram /\ BatchCounts' /\ BucketCounts'
    BY BatchesStep
  <2> QED
    BY <2>1, <2>2 DEF CountInv
<1>8. AdmissionInv'
  BY AdmissionStep
<1> QED
  BY <1>1, <1>2, <1>3, <1>4, <1>5, <1>6, <1>7, <1>8

\* So it always holds.
LEMMA DemoInvariant == Spec => []DemoInv
BY DemoInit, DemoStep, PTL DEF Spec
-----------------------------------------------------------------------------
\* Types, and the dict holds each request once in the order of the insertions
\* (result_store.py:42).
THEOREM TypeCorrect == Spec => []TypeOK
<1>1. DemoInv => TypeOK
  <2> SUFFICES ASSUME DemoInv PROVE TypeOK
    OBVIOUS
  <2> USE DEF DemoInv
  <2>1. /\ Range(db.keys) = {r \in Requests : db.status[r] # "absent"}
        /\ Len(db.keys) = Cardinality(Range(db.keys))
        /\ db.status \in [Requests -> Statuses]
    <3>1. db.keys \in Seq(Requests) /\ db.status \in [Requests -> Statuses]
      BY DEF StoreInv, Store
    <3>2. DOMAIN db.keys = 1..Len(db.keys) /\ \A i \in 1..Len(db.keys) : db.keys[i] \in Requests
      BY <3>1
    <3>3. Range(db.keys) = Present
      BY <3>2 DEF Range, StoreInv, Present
    <3> QED
      BY <3>1, <3>3 DEF StoreInv, Present
  <2>2. ASSUME NEW t \in Threads
        PROVE  /\ call[t].pc \in CallPc
               /\ call[t].scan \in Scans
               /\ call[t].pending \in 0..Cardinality(Requests)
               /\ call[t].request \in Requests <=> InFlight(t)
    <3>1. SoundCall(call[t], Len(db.keys)) /\ call[t] \in Call
      BY DEF CallInv, SoundCall
    <3>2. Len(db.keys) \in Nat /\ Len(db.keys) <= Cardinality(Requests) /\ Cardinality(Requests) \in Nat
      BY PresentIsFinite, DemoAssumption, FS_CardinalityType DEF StoreInv, Store
    <3>3. /\ call[t].scan \in [size : Nat, visited : Nat, found : Nat]
          /\ call[t].scan.found <= Cardinality(Requests)
          /\ call[t].scan.visited <= Cardinality(Requests)
          /\ call[t].scan.size <= Cardinality(Requests)
      BY <3>1, <3>2 DEF SoundCall, Call
    <3>4. call[t].scan \in Scans
      BY <3>2, <3>3 DEF Scans
    <3>5. call[t].pending \in 0..Cardinality(Requests)
      BY <3>1, <3>2 DEF SoundCall, Call
    <3>6. call[t].request \in Requests <=> InFlight(t)
      BY <3>1, DemoAssumption DEF SoundCall, Call, InFlight
    <3> QED
      BY <3>1, <3>4, <3>5, <3>6 DEF Call
  <2>3. /\ queue \subseteq Requests /\ worker.pc \in WorkerPc
        /\ {worker.todo, worker.batch, worker.rest, worker.current} \subseteq SUBSET Requests
        /\ outcome \in [Requests -> Outcomes] /\ announced \subseteq Requests
    BY DEF HandInv, Hand, OwnerInv
  <2>4. worker.pc \in {"deferring", "refusing", "marking", "outputs", "auditing"}
           => worker.batch # {} /\ worker.batch \cap (worker.todo \cup worker.rest) = {}
    <3>1. CASE worker.pc = "marking"
      BY <3>1 DEF HandInv, HandShape, HandState
    <3>2. CASE worker.pc # "marking"
      BY <3>2 DEF HandInv, HandShape
    <3> QED
      BY <3>1, <3>2
  <2>5. \A l \in Loops : loop[l].pc \in LoopPc
    BY DEF LoopInv
  <2> QED
    BY <2>1, <2>2, <2>3, <2>4, <2>5 DEF TypeOK, CallPc, WorkerPc, LoopPc, InFlight, TrailInv,
       CountInv, LoopInv
<1> QED
  BY <1>1, DemoInvariant, PTL

\* The gateway's two scans are no snapshots, and several threads may pass the
\* same check (api.py:299): PENDING records exceed the limit by at most one for
\* every thread but one, for any limit and number of threads.
THEOREM OvershootIsBounded == Spec => []DemoOvershootIsBounded
<1>1. DemoInv => DemoOvershootIsBounded
  <2> SUFFICES ASSUME DemoInv PROVE DemoOvershootIsBounded
    OBVIOUS
  <2>1. MaxPending \in Nat /\ OvershootAt(MaxPending)
    BY DemoAssumption DEF DemoInv, AdmissionInv
  <2>2. Pending \in SUBSET Requests /\ Entering(MaxPending) \in SUBSET Threads
    BY DEF Pending, Entering
  <2>3. /\ Cardinality(Pending) \in Nat /\ Cardinality(Entering(MaxPending)) \in Nat
        /\ Cardinality(Threads) \in Nat
    BY <2>2, BoundedSets
  <2>4. Cardinality(Pending) <= MaxPending + Cardinality(Threads) - 1
    BY <2>1, <2>3 DEF OvershootAt
  <2> QED
    BY <2>4 DEF DemoOvershootIsBounded, Pending
<1> QED
  BY <1>1, DemoInvariant, PTL

\* get_trail never shows a terminal event twice, or one that did not happen
\* (audit.py:67, demo.py:215).
THEOREM TrailIsTrue == Spec => []TrailTellsTheTruth
<1>1. DemoInv => TrailTellsTheTruth
  <2> SUFFICES ASSUME DemoInv PROVE TrailTellsTheTruth
    OBVIOUS
  <2>1. ASSUME NEW r \in Requests, NEW i \in Terminal(r)
        PROVE  trail[r][i] = Named(outcome[r]) /\ Terminal(r) = {i}
    <3>1. trail[r][i] = outcome[r] /\ Terminal(r) = {i}
      BY DEF DemoInv, TrailInv
    <3>2. trail[r] \in Seq({"accepted", "completed", "failed"})
      BY DEF DemoInv, TrailInv
    <3>3. i \in DOMAIN trail[r] /\ trail[r][i] # "accepted"
      BY DEF Terminal
    <3>4. trail[r][i] \in {"completed", "failed"}
      BY <3>2, <3>3
    <3> QED
      BY <3>1, <3>4 DEF Named
  <2>2. worker.pc = "idle" => \A r \in With({"completed", "failed"}) : Terminal(r) # {}
    BY DEF DemoInv, TrailInv, HandInv, HandShape
  <2> QED
    BY <2>1, <2>2 DEF TrailTellsTheTruth
<1> QED
  BY <1>1, DemoInvariant, PTL

\* What /metrics shows agrees with the outcomes, up to the event the worker died
\* of, and the histogram's buckets are cumulative (metrics.py:133 and 190).
THEOREM CountersAgree == Spec => []CountersBalance
<1>1. DemoInv => CountersBalance
  <2> SUFFICES ASSUME DemoInv PROVE CountersBalance
    OBVIOUS
  <2>1. OutcomeCounts /\ BatchCounts /\ BucketCounts /\ counters \in [Series -> Nat] /\ HandShape
    BY DEF DemoInv, CountInv, HandInv
  <2>2. worker.pc = "idle" => Worked = Settled
    BY <2>1 DEF HandShape, Worked
  <2>3. /\ Cardinality(With({"completed"})) \in Nat
        /\ Cardinality(With({"failed", "refused"})) \in Nat
        /\ counters["completed"] \in Nat /\ counters["failed"] \in Nat
    BY <2>1, WithIsCounted DEF Series
  <2>4. /\ counters["completed"] - Cardinality(With({"completed"})) \in {0, 1}
        /\ Cardinality(With({"failed", "refused"})) - counters["failed"] \in {0, 1}
    BY <2>1, <2>3 DEF OutcomeCounts
  <2>5. worker.pc = "idle" =>
          /\ counters["completed"] = Cardinality(With({"completed"}))
          /\ counters["failed"] = Cardinality(With({"failed", "refused"}))
          /\ counters["scheduled"] + counters["deferred"] = batchSizes.count
          /\ batchSizes.total = Cardinality(Settled)
    BY <2>1, <2>2 DEF OutcomeCounts, BatchCounts
  <2> QED
    BY <2>1, <2>4, <2>5 DEF CountersBalance, BucketCounts
<1> QED
  BY <1>1, DemoInvariant, PTL

\* However start and stop are called, there is never a second reconciliation
\* thread (reconciliation_scheduler.py:51); the first part of SchedulerObeys.
THEOREM OneLoop == Spec => [](Cardinality(Alive) <= 1)
<1>1. DemoInv => Cardinality(Alive) <= 1
  <2> SUFFICES ASSUME DemoInv PROVE Cardinality(Alive) <= 1
    OBVIOUS
  <2>1. Alive \in SUBSET {scheduler.thread}
    BY DEF DemoInv, LoopInv
  <2>2. IsFiniteSet({scheduler.thread}) /\ Cardinality({scheduler.thread}) = 1
    BY FS_Singleton
  <2> QED
    BY <2>1, <2>2, FS_Subset
<1> QED
  BY <1>1, DemoInvariant, PTL
-----------------------------------------------------------------------------
(* The refinement.                                                         *)

\* The phase Lifecycle sees in an outcome.
PhaseOf(what) ==
    CASE what = "none" -> "new"
      [] what = "queued" -> "waiting"
      [] what = "started" -> "running"
      [] OTHER -> "settled"

Phases == [r \in Requests |-> Phase(r)]

Serving == worker.pc # "dead"

\* An outcome changes the phase of its request alone.
LEMMA PhasesMove ==
    ASSUME outcome \in [Requests -> Outcomes], NEW r \in Requests, NEW w, Becomes(r, w)
    PROVE  Phases' = [Phases EXCEPT ![r] = PhaseOf(w)] /\ Phases[r] = PhaseOf(outcome[r])
<1>1. /\ outcome'[r] = w /\ \A q \in Requests \ {r} : outcome'[q] = outcome[q]
  BY DEF Becomes
<1>2. \A q \in Requests : Phase(q) = PhaseOf(outcome[q])
  BY DEF Phase, PhaseOf
<1>3. \A q \in Requests : Phase(q)' = PhaseOf(outcome'[q])
  BY DEF Phase, PhaseOf
<1>4. Phases' = [q \in Requests |-> IF q = r THEN PhaseOf(w) ELSE Phases[q]]
  BY <1>1, <1>2, <1>3 DEF Phases
<1> QED
  BY <1>2, <1>4 DEF Phases

\* The phases, spelled out.
LEMMA PhaseValues ==
    /\ PhaseOf("none") = "new" /\ PhaseOf("queued") = "waiting" /\ PhaseOf("started") = "running"
    /\ \A w \in {"completed", "failed", "refused", "deferred"} : PhaseOf(w) = "settled"
BY DEF PhaseOf

\* The worker settles a request that is waiting or running.
LEMMA SettleStep ==
    ASSUME DemoInv, NEW r \in worker.batch, NEW w \in {"completed", "failed", "refused", "deferred"},
           NEW s \in {"completed", "failed"}, Becomes(r, w), Put(r, s), announced' = announced,
           worker.pc \in {"deferring", "refusing", "marking", "outputs"},
           s = "completed" => worker.pc = "outputs"
    PROVE  Promise!Next
<1>1. /\ outcome \in [Requests -> Outcomes] /\ r \in Requests
      /\ worker.pc \in {"deferring", "refusing", "marking"} => outcome[r] = "queued"
      /\ worker.pc = "outputs" => outcome[r] = "started"
  BY DEF DemoInv, HandInv, HandShape, HandState, Hand
<1>2. Phases' = [Phases EXCEPT ![r] = "settled"] /\ Phases[r] = PhaseOf(outcome[r])
  BY <1>1, PhasesMove, PhaseValues
<1>3. Phases[r] \in {"waiting", "running"} /\ (s = "completed" => Phases[r] = "running")
  BY <1>1, <1>2, PhaseValues
<1>4. db'.status = [db.status EXCEPT ![r] = s]
  BY DEF Put, Stored
<1>5. Serving /\ Serving' \in {TRUE, FALSE}
  BY DEF Serving
<1>6. Promise!Settle(r)
  BY <1>2, <1>3, <1>4, <1>5 DEF Promise!Settle, Promise!MayDie, Phases, Serving
<1> QED
  BY <1>1, <1>6 DEF Promise!Next

\* The worker starts a request that is waiting.
LEMMA StartStep ==
    ASSUME DemoInv, NEW r \in worker.batch, Becomes(r, "started"), Put(r, "processing"),
           announced' = announced, worker.pc = "marking"
    PROVE  Promise!Next
<1>1. outcome \in [Requests -> Outcomes] /\ r \in Requests /\ outcome[r] = "queued"
  BY DEF DemoInv, HandInv, HandState, Hand
<1>2. Phases' = [Phases EXCEPT ![r] = "running"] /\ Phases[r] = "waiting"
  BY <1>1, PhasesMove, PhaseValues
<1>3. db'.status = [db.status EXCEPT ![r] = "processing"]
  BY DEF Put, Stored
<1>4. Serving /\ Serving' \in {TRUE, FALSE}
  BY DEF Serving
<1>5. Promise!Start(r)
  BY <1>2, <1>3, <1>4 DEF Promise!Start, Promise!MayDie, Phases, Serving
<1> QED
  BY <1>1, <1>5 DEF Promise!Next

\* A step that writes no record, outcome or announcement is none of Lifecycle's.
LEMMA PromiseStutters ==
    ASSUME UNCHANGED <<db, outcome, announced>>, Serving' = Serving
    PROVE  UNCHANGED Promise!vars
BY DEF Promise!vars, Phase, Serving

\* Publication, announcement, start and settling are Lifecycle's; so are the
\* exceptions that end the worker, with or without a record before them.
LEMMA PromiseStep ==
    ASSUME DemoInv, [Next]_vars
    PROVE  Promise!Next \/ UNCHANGED Promise!vars
<1>0. outcome \in [Requests -> Outcomes]
  BY DEF DemoInv, HandInv
<1>1. ASSUME NEW t \in Threads, CallStep(t)
      PROVE  Promise!Next \/ UNCHANGED Promise!vars
  <2> DEFINE r == call[t].request
  <2>0. call[t].pc \in {"admitted", "published"} => r \in Requests
    BY DEF DemoInv, CallInv, SoundCall, Call
  <2>1. CASE PublishCall(t)
    <3>1. /\ r \in Requests /\ outcome[r] = "none" /\ Becomes(r, "queued")
          /\ db' = db /\ announced' = announced /\ worker' = worker
      BY <2>0, <2>1 DEF PublishCall, DemoInv, OwnerInv, CallRest
    <3> HIDE DEF r
    <3>2. Phases' = [Phases EXCEPT ![r] = "waiting"] /\ Phases[r] = "new"
      BY <1>0, <3>1, PhasesMove, PhaseValues
    <3>3. Promise!Publish(r)
      BY <3>1, <3>2 DEF Promise!Publish, Phases
    <3> QED
      BY <3>1, <3>3 DEF Promise!Next
  <2>2. CASE PutPendingRecord(t)
    <3>1. /\ r \in Requests /\ outcome[r] # "none" /\ r \notin announced /\ Put(r, "pending")
          /\ outcome' = outcome /\ announced' = announced \cup {r} /\ worker' = worker
      BY <2>0, <2>2 DEF PutPendingRecord, DemoInv, OwnerInv, CallRest
    <3> HIDE DEF r
    <3>2. Phases' = Phases /\ Phases[r] # "new"
      BY <3>1 DEF Phases, Phase
    <3>3. db'.status = [db.status EXCEPT ![r] = "pending"]
      BY <3>1 DEF Put, Stored
    <3>4. Promise!Announce(r)
      BY <3>1, <3>2, <3>3 DEF Promise!Announce, Phases
    <3> QED
      BY <3>1, <3>4 DEF Promise!Next
  <2>3. CASE ~PublishCall(t) /\ ~PutPendingRecord(t)
    <3>1. UNCHANGED <<db, outcome, announced>> /\ worker' = worker
      BY <1>1, <2>3 DEF CallStep, CallGoesOn, BeginSubmit, VisitRecord, ScanRaises, CountPending,
         BeginSecondScan, RejectCall, AdmitCall, AnswerAccepted, AnswerFails, CallRest
    <3> QED
      BY <3>1, PromiseStutters DEF Serving
  <2> QED
    BY <2>1, <2>2, <2>3
<1>2. ASSUME WorkerStep
      PROVE  Promise!Next \/ UNCHANGED Promise!vars
  <2>0. announced' = announced /\ worker.pc # "dead"
    BY <1>2 DEF WorkerStep, WorkerGoesOn, TakeBatch, PlaceBatch, DeferOne, RefuseOne, MarkOne,
       OutputCompleted, OutputFailed, AuditOutput, MetricRaises, MetricAfterPutRaises, WorkerRest
  <2>1. CASE TakeBatch \/ PlaceBatch
    <3>1. UNCHANGED <<db, outcome, announced>> /\ worker'.pc # "dead"
      BY <2>0, <2>1 DEF TakeBatch, PlaceBatch, IdleWorker, DemoInv, HandInv, Hand
    <3> QED
      BY <2>0, <3>1, PromiseStutters DEF Serving
  <2>2. CASE AuditOutput
    <3> DEFINE me == [worker EXCEPT !.pc = "outputs", !.current = {}]
    <3>1. PICK q \in worker.current : worker' = Without(me, q)
      BY <2>2 DEF AuditOutput
    <3>2. me \in Hand /\ me.pc = "outputs" /\ me.rest = {} /\ me.current = {} /\ q \in me.batch
      BY <2>2 DEF AuditOutput, DemoInv, HandInv, HandShape, HandState, Hand, WorkerPc
    <3> HIDE DEF me
    <3>3. worker'.pc # "dead"
      BY <3>1, <3>2, WithoutOne
    <3>4. UNCHANGED <<db, outcome, announced>>
      BY <2>0, <2>2 DEF AuditOutput
    <3> QED
      BY <2>0, <3>3, <3>4, PromiseStutters DEF Serving
  <2>3. CASE DeferOne \/ RefuseOne
    <3>1. PICK q \in worker.batch, w \in {"deferred", "refused"} : Becomes(q, w) /\ Put(q, "failed")
      BY <2>3 DEF DeferOne, RefuseOne
    <3>2. worker.pc \in {"deferring", "refusing", "marking", "outputs"}
      BY <2>3 DEF DeferOne, RefuseOne
    <3> QED
      BY <2>0, <3>1, <3>2, SettleStep
  <2>4. CASE MarkOne
    <3>1. PICK q \in worker.batch : Becomes(q, "started") /\ Put(q, "processing")
      BY <2>4 DEF MarkOne
    <3>2. worker.pc = "marking"
      BY <2>4 DEF MarkOne
    <3> QED
      BY <2>0, <3>1, <3>2, StartStep
  <2>5. CASE OutputCompleted \/ OutputFailed
    <3>1. PICK q \in worker.batch, w \in {"completed", "failed"} : Becomes(q, w) /\ Put(q, w)
      BY <2>5 DEF OutputCompleted, OutputFailed
    <3>2. worker.pc = "outputs"
      BY <2>5 DEF OutputCompleted, OutputFailed
    <3> QED
      BY <2>0, <3>1, <3>2, SettleStep
  <2>6. CASE MetricRaises
    <3>1. UNCHANGED <<db, outcome, announced>> /\ worker'.pc = "dead"
      BY <2>0, <2>6 DEF MetricRaises, IdleWorker
    <3>2. Promise!Die
      BY <2>0, <3>1 DEF Promise!Die, Phase
    <3> QED
      BY <3>2 DEF Promise!Next
  <2>7. CASE MetricAfterPutRaises
    <3>1. CASE worker.pc = "refusing"
      <4>1. PICK q \in worker.batch : Becomes(q, "refused") /\ Put(q, "failed")
        BY <2>7, <3>1 DEF MetricAfterPutRaises
      <4> QED
        BY <2>0, <3>1, <4>1, SettleStep
    <3>2. CASE worker.pc = "marking"
      <4>1. PICK q \in worker.batch : Becomes(q, "started") /\ Put(q, "processing")
        BY <2>7, <3>2 DEF MetricAfterPutRaises
      <4> QED
        BY <2>0, <3>2, <4>1, StartStep
    <3> QED
      BY <2>7, <3>1, <3>2 DEF MetricAfterPutRaises
  <2> QED
    BY <1>2, <2>1, <2>2, <2>3, <2>4, <2>5, <2>6, <2>7 DEF WorkerStep, WorkerGoesOn
<1>3. CASE SchedulerStep \/ UNCHANGED vars
  <2>1. UNCHANGED <<db, worker, outcome, announced>>
    BY <1>3 DEF SchedulerStep, StartLoop, StopLoop, LoopStep, TopOfLoop, EndScan,
       BeginSecondPass, PassRaises, LoopRest, vars
  <2> QED
    BY <2>1, PromiseStutters DEF Serving
<1> QED
  BY <1>1, <1>2, <1>3 DEF Next

\* The threads together implement the life of a request that Lifecycle promises
\* (demo.py:114, api.py:360), liveness apart: KeepsPromise without its fairness.
THEOREM DemoImplementsLifecycle == Spec => Promise!Init /\ [][Promise!Next]_(Promise!vars)
<1>1. Init => Promise!Init
  BY DEF Init, EmptyStore, IdleWorker, Phase, Promise!Init
<1>2. DemoInv /\ [Next]_vars => [Promise!Next]_(Promise!vars)
  BY PromiseStep
<1> QED
  BY <1>1, <1>2, DemoInvariant, PTL DEF Spec
=============================================================================
