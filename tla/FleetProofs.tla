------------------------------ MODULE FleetProofs ------------------------------
(***************************************************************************)
(* The limits of the desired count and the obedience to the kill switch,   *)
(* for any numbers of workers and retries and any policy.                  *)
(***************************************************************************)
EXTENDS Fleet, FiniteSetTheorems, TLAPS

Pc == {"gone", "connecting", "starting", "polling", "enabled", "holding",
       "processing", "pausing", "cleanup"}

Process == [pc : Pc, attempt : 0..MaxRetries - 1, stop : BOOLEAN]

-----------------------------------------------------------------------------
(* The processes.                                                          *)

\* An endpoint belongs to a process that has got past starting it.
ProcessInv ==
    /\ proc \in [Workers -> Process]
    /\ endpoint = {w \in Workers : proc[w].pc \notin {"gone", "connecting", "starting"}}
    /\ switch \in BOOLEAN /\ stable \in BOOLEAN

\* A process that may still receive with a permission read before the switch
\* went off has not received since, and none has while the switch is on.
SwitchInv ==
    /\ receivedOff \in [Workers -> {0, 1}]
    /\ switch => \A w \in Workers : receivedOff[w] = 0
    /\ \A w \in Workers : proc[w].pc = "enabled" => receivedOff[w] = 0

ProcInv == ProcessInv /\ SwitchInv

\* What a step does that starts no process.
NoneStarts == Running' \subseteq Running

\* A step that only moves one process, to behind its endpoint's start if it was
\* behind it.
LEMMA MoveKeepsTypes ==
    ASSUME ProcessInv, NEW w \in Workers, NEW from \in Pc, NEW to \in Pc \ {"gone"},
           from # "gone", Goes(w, from, to), UNCHANGED <<switch, stable>>,
           \/ /\ UNCHANGED endpoint
              /\ from \in {"connecting", "starting"} <=> to \in {"connecting", "starting"}
           \/ /\ endpoint' = endpoint \cup {w}
              /\ to \notin {"connecting", "starting"}
    PROVE  ProcessInv' /\ NoneStarts
<1>1. proc' \in [Workers -> Process]
  BY DEF ProcessInv, Process, Goes
<1>2. \A v \in Workers : v # w => proc'[v] = proc[v]
  BY DEF ProcessInv, Goes
<1>3. proc'[w].pc = to /\ proc'[w].stop = proc[w].stop /\ proc[w].pc = from
  BY DEF ProcessInv, Process, Goes
<1>4. endpoint' = {v \in Workers : proc'[v].pc \notin {"gone", "connecting", "starting"}}
  BY <1>2, <1>3 DEF ProcessInv, Pc
<1>5. NoneStarts
  BY <1>2, <1>3 DEF NoneStarts, Running
<1> QED
  BY <1>1, <1>4, <1>5 DEF ProcessInv

\* Only a process that reads the switch as on is enabled.
LEMMA MoveKeepsSwitch ==
    ASSUME ProcInv, NEW w \in Workers, NEW from \in Pc, NEW to \in Pc,
           Goes(w, from, to), UNCHANGED <<switch, receivedOff>>, to = "enabled" => switch
    PROVE  SwitchInv'
<1>1. \A v \in Workers : proc'[v].pc = proc[v].pc \/ (v = w /\ proc'[v].pc = to)
  BY DEF ProcInv, ProcessInv, Process, Goes
<1> QED
  BY <1>1 DEF ProcInv, SwitchInv

LEMMA EndKeeps ==
    ASSUME ProcInv, NEW w \in Workers, Ends(w), UNCHANGED <<switch, stable, receivedOff>>
    PROVE  ProcInv' /\ NoneStarts
<1>1. Gone \in Process /\ Gone.pc = "gone"
  BY WorkerProcessAssumption DEF Gone, Process, Pc
<1>2. proc' \in [Workers -> Process] /\ proc'[w] = Gone
  BY <1>1 DEF ProcInv, ProcessInv, Ends
<1>3. \A v \in Workers : v # w => proc'[v] = proc[v]
  BY DEF ProcInv, ProcessInv, Ends
<1>4. endpoint' = {v \in Workers : proc'[v].pc \notin {"gone", "connecting", "starting"}}
  BY <1>1, <1>2, <1>3 DEF ProcInv, ProcessInv, Ends
<1>5. \A v \in Workers : proc'[v].pc = "enabled" => receivedOff'[v] = 0
  BY <1>1, <1>2, <1>3 DEF ProcInv, SwitchInv
<1>6. NoneStarts
  BY <1>1, <1>2, <1>3 DEF NoneStarts, Running
<1> QED
  BY <1>2, <1>4, <1>5, <1>6 DEF ProcInv, ProcessInv, SwitchInv

\* A receive counts once, and the process has to read the switch again.
LEMMA ReceiveKeeps ==
    ASSUME ProcInv, NEW w \in Workers, Receive(w) \/ ReceiveNothing(w)
    PROVE  ProcInv' /\ NoneStarts
<1>1. PICK to \in {"holding", "polling"} : Goes(w, "enabled", to)
  BY DEF Receive, ReceiveNothing
<1>2. /\ receivedOff' = [receivedOff EXCEPT ![w] = IF switch THEN @ ELSE @ + 1]
      /\ UNCHANGED <<endpoint, switch, stable>>
  BY DEF Receive, ReceiveNothing
<1>3. ProcessInv' /\ NoneStarts
  BY <1>1, <1>2, MoveKeepsTypes DEF ProcInv, Pc
<1>4. receivedOff[w] = 0
  BY <1>1 DEF ProcInv, SwitchInv, Goes
<1>5. /\ receivedOff' \in [Workers -> {0, 1}]
      /\ \A v \in Workers : v # w \/ switch => receivedOff'[v] = receivedOff[v]
  BY <1>2, <1>4 DEF ProcInv, SwitchInv
<1>6. \A v \in Workers : proc'[v].pc = "enabled" => v # w /\ proc[v].pc = "enabled"
  BY <1>1 DEF ProcInv, ProcessInv, Process, Goes
<1> QED
  BY <1>2, <1>3, <1>5, <1>6 DEF ProcInv, SwitchInv

LEMMA ProcessKeeps ==
    ASSUME ProcInv, NEW w \in Workers, ProcessStep(w)
    PROVE  ProcInv' /\ NoneStarts
<1>1. ASSUME NEW from \in Pc \ {"gone"}, NEW to \in Pc \ {"gone", "enabled"}, Goes(w, from, to),
             UNCHANGED <<endpoint, switch, stable, receivedOff>>,
             from \in {"connecting", "starting"} <=> to \in {"connecting", "starting"}
      PROVE  ProcInv' /\ NoneStarts
  BY <1>1, MoveKeepsTypes, MoveKeepsSwitch DEF ProcInv
<1>2. CASE Connect(w)
  BY <1>1, <1>2 DEF Connect, Pc
<1>3. CASE ConnectFails(w)
  <2>1. CASE Ends(w)
    BY <1>3, <2>1, EndKeeps DEF ConnectFails
  <2>2. CASE proc[w].attempt + 1 < MaxRetries /\ ~Ends(w)
    <3>1. proc' = [proc EXCEPT ![w].attempt = @ + 1] /\ proc[w].attempt \in 0..MaxRetries - 1
      BY <1>3, <2>2 DEF ConnectFails, ProcInv, ProcessInv, Process
    <3>2. proc' \in [Workers -> Process]
      BY <2>2, <3>1, WorkerProcessAssumption DEF ProcInv, ProcessInv, Process
    <3>3. \A v \in Workers : proc'[v].pc = proc[v].pc /\ proc'[v].stop = proc[v].stop
      BY <3>1 DEF ProcInv, ProcessInv, Process
    <3>4. UNCHANGED <<endpoint, switch, stable, receivedOff>>
      BY <1>3, <2>2 DEF ConnectFails
    <3> QED
      BY <3>2, <3>3, <3>4 DEF ProcInv, ProcessInv, SwitchInv, NoneStarts, Running
  <2> QED
    BY <1>3, <2>1, <2>2 DEF ConnectFails
<1>4. CASE StartEndpoint(w)
  <2>1. ProcessInv' /\ NoneStarts
    BY <1>4, MoveKeepsTypes DEF StartEndpoint, ProcInv, Pc
  <2>2. SwitchInv'
    BY <1>4, MoveKeepsSwitch DEF StartEndpoint, ProcInv, Pc
  <2> QED
    BY <2>1, <2>2 DEF ProcInv
<1>5. CASE StartEndpointFails(w) \/ Cleanup(w)
  BY <1>5, EndKeeps DEF StartEndpointFails, Cleanup
<1>6. CASE SwitchReadOn(w)
  <2>1. ProcessInv' /\ NoneStarts
    BY <1>6, MoveKeepsTypes DEF SwitchReadOn, ProcInv, Pc
  <2>2. SwitchInv'
    BY <1>6, MoveKeepsSwitch DEF SwitchReadOn, ProcInv, Pc
  <2> QED
    BY <2>1, <2>2 DEF ProcInv
<1>7. CASE SwitchReadOff(w) \/ ReceiveRaises(w) \/ BeginProcessing(w) \/ LeaveMessages(w)
  BY <1>1, <1>7 DEF SwitchReadOff, ReceiveRaises, BeginProcessing, LeaveMessages, Pc
<1>8. CASE EndProcessing(w) \/ ProcessingRaises(w) \/ EndPause(w) \/ EndLoop(w)
  BY <1>1, <1>8 DEF EndProcessing, ProcessingRaises, EndPause, EndLoop, Pc
<1>9. CASE Receive(w) \/ ReceiveNothing(w)
  BY <1>9, ReceiveKeeps
<1> QED
  BY <1>2, <1>3, <1>4, <1>5, <1>6, <1>7, <1>8, <1>9 DEF ProcessStep
LEMMA ServiceKeeps ==
    ASSUME ProcInv, NEW w \in Workers
    PROVE  /\ Launch(w) => ProcInv' /\ Running' \subseteq Running \cup {w}
           /\ Terminate(w) \/ Kill(w) => ProcInv' /\ NoneStarts
<1>1. ASSUME Launch(w) PROVE ProcInv' /\ Running' \subseteq Running \cup {w}
  <2>1. /\ proc' = [proc EXCEPT ![w].pc = "connecting"]
        /\ receivedOff' = [receivedOff EXCEPT ![w] = 0]
        /\ UNCHANGED <<endpoint, switch, stable>>
        /\ proc[w].pc = "gone"
    BY <1>1 DEF Launch
  <2>2. proc' \in [Workers -> Process] /\ proc'[w].pc = "connecting"
    BY <2>1 DEF ProcInv, ProcessInv, Process, Pc
  <2>3. \A v \in Workers : v # w => proc'[v] = proc[v] /\ receivedOff'[v] = receivedOff[v]
    BY <2>1 DEF ProcInv, ProcessInv, SwitchInv
  <2>4. receivedOff' \in [Workers -> {0, 1}] /\ receivedOff'[w] = 0
    BY <2>1 DEF ProcInv, SwitchInv
  <2>5. endpoint' = {v \in Workers : proc'[v].pc \notin {"gone", "connecting", "starting"}}
    BY <2>1, <2>2, <2>3 DEF ProcInv, ProcessInv
  <2>6. Running' \subseteq Running \cup {w}
    BY <2>3 DEF Running
  <2> QED
    BY <2>1, <2>2, <2>3, <2>4, <2>5, <2>6 DEF ProcInv, ProcessInv, SwitchInv
<1>2. ASSUME Terminate(w) PROVE ProcInv' /\ NoneStarts
  <2>1. /\ proc' = [proc EXCEPT ![w].stop = TRUE]
        /\ UNCHANGED <<endpoint, switch, stable, receivedOff>>
    BY <1>2 DEF Terminate
  <2>2. proc' \in [Workers -> Process]
    BY <2>1 DEF ProcInv, ProcessInv, Process
  <2>3. \A v \in Workers : proc'[v].pc = proc[v].pc /\ (proc'[v].stop = proc[v].stop \/ proc'[v].stop)
    BY <2>1 DEF ProcInv, ProcessInv, Process
  <2> QED
    BY <2>1, <2>2, <2>3 DEF ProcInv, ProcessInv, SwitchInv, NoneStarts, Running
<1>3. ASSUME Kill(w) PROVE ProcInv' /\ NoneStarts
  BY <1>3, EndKeeps DEF Kill
<1> QED
  BY <1>1, <1>2, <1>3

\* An operator's flip begins the count anew.
LEMMA FlipKeeps ==
    ASSUME ProcInv, Flip
    PROVE  ProcInv' /\ NoneStarts
<1>1. switch' \in BOOLEAN /\ UNCHANGED <<proc, endpoint, stable>>
  BY DEF Flip, ProcInv, ProcessInv
<1>2. receivedOff' = [w \in Workers |-> 0]
  BY DEF Flip
<1> QED
  BY <1>1, <1>2 DEF ProcInv, ProcessInv, SwitchInv, NoneStarts, Running

\* The caller's steps leave the processes alone.
LEMMA QuietKeeps ==
    ASSUME ProcInv, UNCHANGED <<proc, endpoint, switch, receivedOff>>, stable' \in BOOLEAN
    PROVE  ProcInv' /\ NoneStarts
<1>1. /\ proc' = proc /\ endpoint' = endpoint
      /\ switch' = switch /\ receivedOff' = receivedOff
  OBVIOUS
<1> QED
  BY <1>1 DEF ProcInv, ProcessInv, SwitchInv, NoneStarts, Running

-----------------------------------------------------------------------------
(* The pool.                                                               *)

\* Min and Max of two integers.
LEMMA TwoSmallest == \A a, b \in Int : Min({a, b}) = IF a <= b THEN a ELSE b
BY DEF Min

LEMMA TwoLargest == \A a, b \in Int : Max({a, b}) = IF a >= b THEN a ELSE b
BY DEF Max

LEMMA LowestIsWithin ==
    Lowest \in Nat /\ Lowest <= MinWorkers /\ (Lowest = 1 \/ Lowest = MinWorkers) /\ Lowest <= 1
<1>1. MinWorkers \in Nat
  BY AutoscalerAssumption
<1>2. Lowest = IF 1 <= MinWorkers THEN 1 ELSE MinWorkers
  BY <1>1, TwoSmallest DEF Lowest
<1> QED
  BY <1>1, <1>2

\* What was decided within the limits stays within them; not more processes run
\* than were ever desired, so the count a caller reports is within the maximum.
PoolInv ==
    /\ desired \in Lowest..MaxWorkers
    /\ cooling \in 0..Cooldown
    /\ decision # Undecided => decision \in [desired : Lowest..MaxWorkers, recorded : BOOLEAN]
    /\ load \in Loads
    /\ Cardinality(Running) <= MaxWorkers

LEMMA RunningIsFinite == IsFiniteSet(Running) /\ Cardinality(Running) \in Nat
<1>1. Running \in SUBSET Workers /\ IsFiniteSet(Workers)
  BY WorkerProcessAssumption DEF Running
<1> QED
  BY <1>1, FS_Subset, FS_CardinalityType

\* The bound on the running processes, when none starts.
LEMMA FewerRun ==
    ASSUME NoneStarts, Cardinality(Running) <= MaxWorkers
    PROVE  Cardinality(Running') <= MaxWorkers
<1>1. Cardinality(Running') <= Cardinality(Running) /\ Cardinality(Running') \in Nat
  BY RunningIsFinite, FS_Subset, FS_CardinalityType DEF NoneStarts
<1> QED
  BY <1>1, RunningIsFinite, AutoscalerAssumption

\* evaluate proposes nothing outside the limits, for any count within them and
\* for zero.
LEMMA VerdictsAreWithinLimits ==
    ASSUME NEW current \in 0..MaxWorkers, NEW signals, NEW wait \in BOOLEAN
    PROVE  LET verdict == Evaluate(current, signals, wait)
           IN  verdict.recorded => verdict \in [desired : Lowest..MaxWorkers, recorded : BOOLEAN]
<1>0. /\ MinWorkers \in Nat /\ MaxWorkers \in Nat /\ current \in Nat /\ MinWorkers <= MaxWorkers
      /\ Lowest \in Nat /\ Lowest <= MinWorkers /\ Lowest <= 1
  BY AutoscalerAssumption, LowestIsWithin
<1>1. ScaleUp(current).recorded
          => ScaleUp(current) \in [desired : Lowest..MaxWorkers, recorded : BOOLEAN]
  <2>1. Min({current + 1, MaxWorkers}) = IF current + 1 <= MaxWorkers THEN current + 1
                                         ELSE MaxWorkers
    BY <1>0, TwoSmallest
  <2> QED
    BY <1>0, <2>1 DEF ScaleUp, Recorded
<1>2. current > MinWorkers
          => ScaleDown(current) \in [desired : Lowest..MaxWorkers, recorded : BOOLEAN]
  <2>1. Max({current - 1, MinWorkers}) = IF current - 1 >= MinWorkers THEN current - 1
                                         ELSE MinWorkers
    BY <1>0, TwoLargest
  <2> QED
    BY <1>0, <2>1 DEF ScaleDown, Recorded
<1>3. ~Hold(current).recorded
  BY DEF Hold
<1> QED
  BY <1>1, <1>2, <1>3 DEF Evaluate
FleetInv == ProcInv /\ PoolInv

LEMMA FleetInit == Init => FleetInv
<1> SUFFICES ASSUME Init PROVE FleetInv
  OBVIOUS
<1>1. Gone \in Process /\ Gone.pc = "gone"
  BY WorkerProcessAssumption DEF Gone, Process, Pc
<1>2. \A w \in Workers : proc[w] = Gone
  BY DEF Init
<1>3. ProcInv
  BY <1>1 DEF Init, ProcInv, ProcessInv, SwitchInv
<1>4. Running = {}
  BY <1>1, <1>2 DEF Running
<1>5. Cardinality(Running) <= MaxWorkers
  BY <1>4, FS_EmptySet, AutoscalerAssumption
<1>6. PoolInv
  BY <1>5, FleetAssumption, AutoscalerAssumption, LowestIsWithin DEF Init, PoolInv, Loads
<1> QED
  BY <1>3, <1>6 DEF FleetInv

\* A step of the processes that starts none, and leaves the pool's variables.
LEMMA PoolStays ==
    ASSUME PoolInv, NoneStarts, UNCHANGED <<desired, cooling, decision, load>>
    PROVE  PoolInv'
<1>1. Cardinality(Running') <= MaxWorkers
  BY FewerRun DEF PoolInv
<1>2. desired' = desired /\ cooling' = cooling /\ decision' = decision /\ load' = load
  OBVIOUS
<1> QED
  BY <1>1, <1>2 DEF PoolInv, Undecided

LEMMA FleetStep ==
    ASSUME FleetInv, [Next]_vars
    PROVE  FleetInv'
<1>0. ProcInv /\ PoolInv /\ stable \in BOOLEAN
  BY DEF FleetInv, ProcInv, ProcessInv
<1>1. ASSUME ProcInv', NoneStarts, UNCHANGED <<desired, cooling, decision, load>>
      PROVE  FleetInv'
  BY <1>0, <1>1, PoolStays DEF FleetInv
<1>2. ASSUME UNCHANGED procVars
      PROVE  ProcInv' /\ Cardinality(Running') <= MaxWorkers
  <2>1. ProcInv' /\ NoneStarts
    BY <1>0, <1>2, QuietKeeps DEF procVars
  <2> QED
    BY <1>0, <2>1, FewerRun DEF PoolInv
<1>3. CASE EvaluateLoad
  <2>1. PICK current \in {desired, Cardinality(Running)}, signals \in Signals[load] :
           LET verdict == Evaluate(current, signals, cooling > 0)
           IN  /\ decision' = IF verdict.recorded THEN verdict ELSE Undecided
               /\ cooling' = IF verdict.recorded THEN Cooldown ELSE cooling
    BY <1>3 DEF EvaluateLoad
  <2>2. current \in 0..MaxWorkers
    BY <1>0, RunningIsFinite, AutoscalerAssumption, LowestIsWithin DEF PoolInv
  <2>3. (cooling > 0) \in BOOLEAN
    OBVIOUS
  <2>4. decision' # Undecided
            => decision' \in [desired : Lowest..MaxWorkers, recorded : BOOLEAN]
    BY <2>1, <2>2, <2>3, VerdictsAreWithinLimits
  <2>5. cooling' \in 0..Cooldown
    BY <1>0, <2>1, FleetAssumption DEF PoolInv
  <2>6. UNCHANGED procVars /\ desired' = desired /\ load' = load
    BY <1>3 DEF EvaluateLoad
  <2>7. ProcInv' /\ Cardinality(Running') <= MaxWorkers
    BY <1>2, <2>6
  <2> QED
    BY <1>0, <2>4, <2>5, <2>6, <2>7 DEF FleetInv, PoolInv, Undecided
<1>4. CASE Execute \/ ExecuteFails
  <2>1. /\ UNCHANGED procVars /\ cooling' = cooling /\ load' = load
        /\ decision' = Undecided
        /\ desired' = desired \/ (decision # Undecided /\ desired' = decision.desired)
    BY <1>4 DEF Execute, ExecuteFails
  <2>2. ProcInv' /\ Cardinality(Running') <= MaxWorkers
    BY <1>2, <2>1
  <2>3. desired' \in Lowest..MaxWorkers
    BY <1>0, <2>1 DEF PoolInv
  <2> QED
    BY <1>0, <2>1, <2>2, <2>3 DEF FleetInv, PoolInv, Undecided
<1>5. CASE Tick \/ ChangeLoad
  <2>1. /\ UNCHANGED procVars /\ desired' = desired /\ decision' = decision
        /\ cooling' \in 0..Cooldown /\ load' \in Loads
    BY <1>0, <1>5, FleetAssumption DEF Tick, ChangeLoad, PoolInv
  <2>2. ProcInv' /\ Cardinality(Running') <= MaxWorkers
    BY <1>2, <2>1
  <2> QED
    BY <1>0, <2>1, <2>2 DEF FleetInv, PoolInv, Undecided
<1>6. ASSUME NEW w \in Workers, ProcessRuns(w)
      PROVE  FleetInv'
  BY <1>0, <1>1, <1>6, ProcessKeeps DEF ProcessRuns
<1>7. ASSUME NEW w \in Workers, Launch(w)
      PROVE  FleetInv'
  <2>1. ProcInv' /\ Running' \subseteq Running \cup {w}
    BY <1>0, <1>7, ServiceKeeps
  <2>2. Cardinality(Running) < desired /\ UNCHANGED <<desired, cooling, decision, load>>
    BY <1>7 DEF Launch
  <2>3. /\ IsFiniteSet(Running \cup {w})
        /\ Cardinality(Running \cup {w}) <= Cardinality(Running) + 1
    BY RunningIsFinite, FS_AddElement
  <2>4. /\ Cardinality(Running') <= Cardinality(Running \cup {w})
        /\ Cardinality(Running') \in Nat /\ Cardinality(Running \cup {w}) \in Nat
    BY <2>1, <2>3, FS_Subset, FS_CardinalityType
  <2>5. Cardinality(Running') <= MaxWorkers
    BY <1>0, <2>2, <2>3, <2>4, RunningIsFinite, AutoscalerAssumption DEF PoolInv
  <2> QED
    BY <1>0, <2>1, <2>2, <2>5 DEF FleetInv, PoolInv, Undecided
<1>8. ASSUME NEW w \in Workers, Terminate(w) \/ Kill(w)
      PROVE  FleetInv'
  <2>1. ProcInv' /\ NoneStarts
    BY <1>0, <1>8, ServiceKeeps
  <2>2. UNCHANGED <<desired, cooling, decision, load>>
    BY <1>8 DEF Terminate, Kill
  <2> QED
    BY <1>1, <2>1, <2>2
<1>9. CASE Flip
  <2>1. UNCHANGED <<desired, cooling, decision, load>>
    BY <1>9 DEF Flip
  <2> QED
    BY <1>0, <1>1, <1>9, <2>1, FlipKeeps
<1>10. CASE Stabilise \/ UNCHANGED vars
  <2>1. /\ UNCHANGED <<proc, endpoint, switch, receivedOff>> /\ stable' \in BOOLEAN
        /\ UNCHANGED <<desired, cooling, decision, load>>
    BY <1>0, <1>10 DEF Stabilise, vars, procVars
  <2> QED
    BY <1>0, <1>1, <2>1, QuietKeeps
<1> QED
  BY <1>3, <1>4, <1>5, <1>6, <1>7, <1>8, <1>9, <1>10 DEF Next, ServiceStep

LEMMA FleetStays == Spec => []FleetInv
<1>1. FleetInv /\ [Next]_vars => FleetInv'
  BY FleetStep
<1> QED
  BY <1>1, FleetInit, PTL DEF Spec

\* For any policy, whichever count is reported and however old it is when the
\* decision is executed, the desired count never exceeds the maximum and never
\* falls below the minimum, or below one where the minimum is larger: there a
\* scale-up from no running worker ends below it (autoscaler.py:146 and 167).
THEOREM TypeCorrect == Spec => []TypeOK
<1>1. FleetInv => TypeOK
  <2> SUFFICES ASSUME FleetInv PROVE TypeOK
    OBVIOUS
  <2>1. \A w \in Workers :
           proc[w].pc \in Pc /\ proc[w].attempt \in 0..MaxRetries - 1 /\ proc[w].stop \in BOOLEAN
    BY DEF FleetInv, ProcInv, ProcessInv, Process
  <2>2. decision \in [desired : 0..MaxWorkers, recorded : BOOLEAN]
    <3>1. CASE decision = Undecided
      BY <3>1, AutoscalerAssumption DEF Undecided
    <3>2. CASE decision # Undecided
      BY <3>2, AutoscalerAssumption, LowestIsWithin DEF FleetInv, PoolInv
    <3> QED
      BY <3>1, <3>2
  <2> QED
    BY <2>1, <2>2 DEF FleetInv, ProcInv, ProcessInv, PoolInv, TypeOK, Pc
<1> QED
  BY <1>1, FleetStays, PTL

\* After the kill switch is turned off a process receives at most once more,
\* however many processes there are and whatever fails (worker.py:749).
THEOREM SwitchObeyed == Spec => []SwitchIsObeyed
<1>1. Init => ProcInv
  BY FleetInit DEF FleetInv
<1>2. ProcInv /\ [Next]_vars => ProcInv'
  <2> SUFFICES ASSUME ProcInv, [Next]_vars PROVE ProcInv'
    OBVIOUS
  <2>1. ASSUME NEW w \in Workers, ProcessRuns(w) \/ Launch(w) \/ Terminate(w) \/ Kill(w)
        PROVE  ProcInv'
    BY <2>1, ProcessKeeps, ServiceKeeps DEF ProcessRuns
  <2>2. CASE Flip
    BY <2>2, FlipKeeps
  <2>3. CASE EvaluateLoad \/ Execute \/ ExecuteFails \/ Tick \/ ChangeLoad \/ Stabilise
                 \/ UNCHANGED vars
    <3>1. /\ UNCHANGED <<proc, endpoint, switch, receivedOff>>
          /\ stable' = TRUE \/ UNCHANGED stable
      BY <2>3 DEF EvaluateLoad, Execute, ExecuteFails, Tick, ChangeLoad, Stabilise, vars, procVars
    <3>2. stable' \in BOOLEAN
      BY <3>1 DEF ProcInv, ProcessInv
    <3> QED
      BY <3>1, <3>2, QuietKeeps
  <2> QED
    BY <2>1, <2>2, <2>3 DEF Next, ServiceStep
<1>3. ProcInv => SwitchIsObeyed
  BY DEF ProcInv, SwitchInv, SwitchIsObeyed
<1> QED
  BY <1>1, <1>2, <1>3, PTL DEF Spec
=============================================================================
