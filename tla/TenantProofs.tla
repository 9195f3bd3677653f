----------------------------- MODULE TenantProofs -----------------------------
(***************************************************************************)
(* The slots and the rate of the tenants, for any number of threads and    *)
(* tenants: what unlocked first checks, increments and releases can do to  *)
(* the counter of a tenant's state, and unlocked pruning and appending to  *)
(* its list of timestamps.                                                 *)
(***************************************************************************)
EXTENDS Tenant, FiniteSetTheorems, TLAPS

LEMMA Bounds ==
    /\ MaxPerMinute \in Nat \ {0} /\ MaxConcurrent \in Nat \ {0} /\ Window \in Nat \ {0}
    /\ MaxCallAge \in Nat
    /\ Horizon = Window + MaxCallAge /\ Horizon \in Nat
    /\ Window \in 0..Horizon /\ 0 \in 0..Horizon /\ Horizon \in 0..Horizon
  BY TenantAssumption DEF Horizon

LEMMA ThreadsAreSome == Cardinality(Threads) \in Nat \ {0}
  BY TenantAssumption, FS_CardinalityType, FS_EmptySet

-----------------------------------------------------------------------------
(* Collections of moments stay collections of moments.                     *)

LEMMA MomentIsMonotone ==
    ASSUME NEW m \in Moments
    PROVE  /\ m \in [0..Horizon -> Nat] /\ m[0] = 0
           /\ \A a, b \in 0..Horizon : a <= b => m[a] <= m[b]
  BY DEF Moments

LEMMA MonotoneIsMoment ==
    ASSUME NEW m \in [0..Horizon -> Nat], m[0] = 0,
           \A a, b \in 0..Horizon : a <= b => m[a] <= m[b]
    PROVE  m \in Moments
  BY DEF Moments

LEMMA NoMomentsTyped == NoMoments \in Moments
  BY Bounds, MonotoneIsMoment DEF NoMoments

LEMMA AddedTyped ==
    ASSUME NEW m \in Moments, NEW age \in Nat
    PROVE  /\ Added(m, age) \in Moments
           /\ \A a \in 0..Horizon : Added(m, age)[a] = IF age < a THEN m[a] + 1 ELSE m[a]
<1> DEFINE n == Added(m, age)
<1>1. \A a \in 0..Horizon : m[a] \in Nat /\ n[a] = IF age < a THEN m[a] + 1 ELSE m[a]
  BY MomentIsMonotone DEF Added
<1>2. n \in [0..Horizon -> Nat] /\ n[0] = 0
  <2>1. n = [a \in 0..Horizon |-> n[a]]
    BY DEF Added
  <2>2. \A a \in 0..Horizon : n[a] \in Nat
    BY <1>1
  <2>3. n[0] = 0
    BY <1>1, Bounds, MomentIsMonotone
  <2> QED
    BY <2>1, <2>2, <2>3
<1>3. ASSUME NEW a \in 0..Horizon, NEW b \in 0..Horizon, a <= b PROVE n[a] <= n[b]
  BY <1>1, <1>3, Bounds, MomentIsMonotone, SMTT(30)
<1> HIDE DEF n
<1>4. n \in Moments
  BY <1>2, <1>3, MonotoneIsMoment
<1> QED
  BY <1>1, <1>4 DEF n

LEMMA YoungerTyped ==
    ASSUME NEW m \in Moments, NEW age \in 0..Horizon
    PROVE  /\ Younger(m, age) \in Moments
           /\ \A a \in 0..Horizon : Younger(m, age)[a] = IF a < age THEN m[a] ELSE m[age]
<1> DEFINE n == Younger(m, age)
<1>1. \A a \in 0..Horizon : m[a] \in Nat /\ n[a] = IF a < age THEN m[a] ELSE m[age]
  BY MomentIsMonotone DEF Younger
<1>2. n \in [0..Horizon -> Nat] /\ n[0] = 0
  <2>1. n = [a \in 0..Horizon |-> n[a]]
    BY DEF Younger
  <2>2. \A a \in 0..Horizon : n[a] \in Nat
    BY <1>1
  <2>3. n[0] = 0
    BY <1>1, Bounds, MomentIsMonotone
  <2> QED
    BY <2>1, <2>2, <2>3
<1>3. ASSUME NEW a \in 0..Horizon, NEW b \in 0..Horizon, a <= b PROVE n[a] <= n[b]
  BY <1>1, <1>3, Bounds, MomentIsMonotone
<1> HIDE DEF n
<1>4. n \in Moments
  BY <1>2, <1>3, MonotoneIsMoment
<1> QED
  BY <1>1, <1>4 DEF n

LEMMA TogetherTyped ==
    ASSUME NEW m \in Moments, NEW k \in Moments
    PROVE  /\ Together(m, k) \in Moments
           /\ \A a \in 0..Horizon : Together(m, k)[a] = m[a] + k[a]
<1> DEFINE n == Together(m, k)
<1>1. \A a \in 0..Horizon : m[a] \in Nat /\ k[a] \in Nat /\ n[a] = m[a] + k[a]
  BY MomentIsMonotone DEF Together
<1>2. n \in [0..Horizon -> Nat] /\ n[0] = 0
  <2>1. n = [a \in 0..Horizon |-> n[a]]
    BY DEF Together
  <2>2. \A a \in 0..Horizon : n[a] \in Nat
    BY <1>1
  <2>3. n[0] = 0
    <3>1. m[0] = 0 /\ k[0] = 0
      BY MomentIsMonotone
    <3>2. n[0] = m[0] + k[0]
      BY <1>1, Bounds
    <3> HIDE DEF n
    <3> QED
      BY <3>1, <3>2
  <2> QED
    BY <2>1, <2>2, <2>3
<1> HIDE DEF n
<1>3. ASSUME NEW a \in 0..Horizon, NEW b \in 0..Horizon, a <= b PROVE n[a] <= n[b]
  <2>1. m[a] <= m[b] /\ k[a] <= k[b]
    BY <1>3, MomentIsMonotone
  <2>2. {m[a], m[b], k[a], k[b]} \subseteq Nat
    BY <1>1
  <2>3. n[a] = m[a] + k[a] /\ n[b] = m[b] + k[b]
    BY <1>1
  <2> QED
    BY <2>1, <2>2, <2>3
<1>4. n \in Moments
  BY <1>2, <1>3, MonotoneIsMoment
<1> QED
  BY <1>1, <1>4 DEF n

LEMMA OlderTyped ==
    ASSUME NEW m \in Moments
    PROVE  /\ Older(m) \in Moments
           /\ Older(m)[0] = 0
           /\ \A a \in 0..Horizon : a # 0 => a - 1 \in 0..Horizon /\ Older(m)[a] = m[a - 1]
<1> DEFINE n == Older(m)
<1>1. \A a \in 0..Horizon : n[a] = IF a = 0 THEN 0 ELSE m[a - 1]
  BY DEF Older
<1>2. \A a \in 0..Horizon : a # 0 => a - 1 \in 0..Horizon /\ m[a - 1] \in Nat
  BY Bounds, MomentIsMonotone
<1>3. n \in [0..Horizon -> Nat] /\ n[0] = 0
  <2>1. n = [a \in 0..Horizon |-> n[a]]
    BY DEF Older
  <2>2. \A a \in 0..Horizon : n[a] \in Nat
    BY <1>1, <1>2
  <2>3. n[0] = 0
    BY <1>1, Bounds
  <2> QED
    BY <2>1, <2>2, <2>3
<1> HIDE DEF n
<1>4. ASSUME NEW a \in 0..Horizon, NEW b \in 0..Horizon, a <= b PROVE n[a] <= n[b]
  <2>1. CASE a = 0
    BY <1>3, <2>1
  <2>2. CASE a # 0
    <3>1. b # 0 /\ a - 1 <= b - 1
      BY <1>4, <2>2
    <3>2. m[a - 1] <= m[b - 1]
      BY <1>2, <2>2, <3>1, MomentIsMonotone
    <3> QED
      BY <1>1, <2>2, <3>1, <3>2
  <2> QED
    BY <2>1, <2>2
<1>5. n \in Moments
  BY <1>3, <1>4, MonotoneIsMoment
<1> QED
  BY <1>1, <1>2, <1>3, <1>5 DEF n

\* What a prune keeps is in the window of every younger now.
LEMMA WithinWindowTyped ==
    ASSUME NEW m \in Moments, NEW now \in 0..MaxCallAge
    PROVE  /\ WithinWindow(m, now) \in Moments
           /\ \A a \in 0..Window : a \in 0..Horizon /\ WithinWindow(m, now)[a] = m[a]
<1>1. now + Window \in 0..Horizon /\ \A a \in 0..Window : a \in 0..Horizon /\ a <= now + Window
  BY Bounds
<1> QED
  BY <1>1, Bounds, YoungerTyped DEF WithinWindow

-----------------------------------------------------------------------------
(* Types, and which states are referred to.                                *)

LEMMA StatesAreSome == NoState \notin States
  BY DEF NoState, States

\* A record of a call to the same tenant and state, that has got as far as p.
GoesOn(d, c, p) == d \in CallState /\ d.pc = p /\ d.tenant = c.tenant /\ d.state = c.state

LEMMA CallsGoOn ==
    ASSUME NEW c \in CallState
    PROVE  /\ \A p \in Moments :
                 GoesOn([c EXCEPT !.pc = "pruning", !.live = TRUE, !.pruned = p], c, "pruning")
           /\ GoesOn([c EXCEPT !.pc = "rated", !.pruned = NoMoments, !.live = FALSE,
                               !.missed = NoMoments], c, "rated")
           /\ \A l \in BOOLEAN : GoesOn([c EXCEPT !.live = l], c, c.pc)
           /\ \A p \in Moments : GoesOn([c EXCEPT !.pruned = p], c, c.pc)
           /\ \A p \in Moments : GoesOn([c EXCEPT !.missed = p], c, c.pc)
           /\ GoesOn([c EXCEPT !.pc = "stamped", !.age = 0], c, "stamped")
           /\ GoesOn([c EXCEPT !.pc = "counted"], c, "counted")
           /\ \A a \in 0..MaxCallAge, p \in Moments, q \in Moments :
                 GoesOn([c EXCEPT !.age = a, !.pruned = p, !.missed = q], c, c.pc)
<1> USE DEF CallState, GoesOn
<1>1. 0 \in 0..MaxCallAge /\ NoMoments \in Moments
  BY Bounds, NoMomentsTyped
<1>2. ASSUME NEW p \in Moments
      PROVE  GoesOn([c EXCEPT !.pc = "pruning", !.live = TRUE, !.pruned = p], c, "pruning")
  OBVIOUS
<1>3. GoesOn([c EXCEPT !.pc = "rated", !.pruned = NoMoments, !.live = FALSE,
                       !.missed = NoMoments], c, "rated")
  BY <1>1
<1>4. ASSUME NEW l \in BOOLEAN PROVE GoesOn([c EXCEPT !.live = l], c, c.pc)
  OBVIOUS
<1>5. ASSUME NEW p \in Moments PROVE GoesOn([c EXCEPT !.pruned = p], c, c.pc)
  OBVIOUS
<1>6. ASSUME NEW p \in Moments PROVE GoesOn([c EXCEPT !.missed = p], c, c.pc)
  OBVIOUS
<1>7. GoesOn([c EXCEPT !.pc = "stamped", !.age = 0], c, "stamped")
  BY <1>1
<1>8. GoesOn([c EXCEPT !.pc = "counted"], c, "counted")
  OBVIOUS
<1>9. ASSUME NEW a \in 0..MaxCallAge, NEW p \in Moments, NEW q \in Moments
      PROVE  GoesOn([c EXCEPT !.age = a, !.pruned = p, !.missed = q], c, c.pc)
  OBVIOUS
<1> HIDE DEF GoesOn
<1> QED
  BY <1>2, <1>3, <1>4, <1>5, <1>6, <1>7, <1>8, <1>9

\* A thread without a call, and one that begins.
LEMMA NewCallsTyped ==
    /\ NoCall \in CallState
    /\ \A x \in Tenants, s \in States \cup {NoState}, p \in {"creating", "started"} :
          [NoCall EXCEPT !.pc = p, !.tenant = x, !.state = s] \in CallState
<1>1. NoCall \in CallState
  BY Bounds, NoMomentsTyped DEF CallState, NoCall
<1>2. ASSUME NEW c \in CallState, NEW x \in Tenants, NEW s \in States \cup {NoState},
             NEW p \in {"creating", "started"}
      PROVE  [c EXCEPT !.pc = p, !.tenant = x, !.state = s] \in CallState
  BY DEF CallState
<1> QED
  BY <1>1, <1>2

\* One of the threads has made this state for the tenant.
MadeFor(s, x) == \E t \in Threads : s = <<x, t>>

\* Calls and releases under way refer to states of their tenant, and nothing
\* refers yet to one that is being made.
RefsOK ==
    /\ \A x \in Tenants : state[x] # NoState => MadeFor(state[x], x)
    /\ \A x \in Tenants : queued[x] > 0 => state[x] # NoState
    /\ \A t \in Threads :
          /\ call[t].pc # "idle" => call[t].tenant \in Tenants
          /\ call[t].pc \in {"idle", "creating"} => call[t].state = NoState
          /\ call[t].pc \notin {"idle", "creating"} =>
                MadeFor(call[t].state, call[t].tenant) /\ state[call[t].tenant] # NoState
    /\ worker.pc \in {"finished", "read"} =>
          worker.tenant \in Tenants /\ state[worker.tenant] # NoState
    /\ IF worker.pc = "read" THEN MadeFor(worker.state, worker.tenant)
       ELSE worker.state = NoState
    /\ \A t \in Threads : call[t].pc = "creating" =>
          /\ \A x \in Tenants : state[x] # <<call[t].tenant, t>>
          /\ \A u \in Threads : call[u].state # <<call[t].tenant, t>>
          /\ worker.state # <<call[t].tenant, t>>

TypeInv == TypeOK /\ RefsOK

LEMMA TypeInit == Init => TypeInv
<1> SUFFICES ASSUME Init PROVE TypeInv
  OBVIOUS
<1>1. TypeOK
  BY NoMomentsTyped, NewCallsTyped DEF Init, TypeOK, NoRelease, ReleaseState
<1>2. RefsOK
  BY DEF Init, RefsOK, NoCall, NoRelease
<1> QED
  BY <1>1, <1>2 DEF TypeInv

\* What TypeOK says of the variables and of a call under way.
LEMMA Types ==
    ASSUME TypeOK
    PROVE  /\ state \in [Tenants -> States \cup {NoState}]
           /\ timestamps \in [States -> Moments] /\ active \in [States -> Nat]
           /\ call \in [Threads -> CallState]
           /\ queued \in [Tenants -> Nat] /\ unpublished \in [Tenants -> Nat]
           /\ worker \in ReleaseState
           /\ admissions \in [Tenants -> Moments] /\ lost \in [Tenants -> Moments]
           /\ \A t \in Threads : /\ call[t].age \in 0..MaxCallAge /\ call[t].age \in Nat
                                 /\ call[t].pruned \in Moments /\ call[t].missed \in Moments
                                 /\ call[t].live \in BOOLEAN
  BY Bounds DEF TypeOK, CallState

LEMMA MadeIsState == ASSUME NEW x \in Tenants, NEW s, MadeFor(s, x) PROVE s \in States
  BY DEF MadeFor, States

LEMMA TypeBeginCheck ==
    ASSUME TypeInv, NEW t \in Threads, BeginCheck(t)
    PROVE  TypeInv'
<1> USE Types DEF TypeInv
<1>1. PICK x \in Tenants :
         call' = [call EXCEPT ![t] =
            [NoCall EXCEPT !.pc = IF state[x] = NoState THEN "creating" ELSE "started",
                           !.tenant = x, !.state = state[x]]]
  BY DEF BeginCheck
<1> DEFINE p == IF state[x] = NoState THEN "creating" ELSE "started"
<1>2. /\ call'[t] = [NoCall EXCEPT !.pc = p, !.tenant = x, !.state = state[x]]
      /\ \A u \in Threads : u # t => call'[u] = call[u]
      /\ DOMAIN call' = Threads /\ p \in {"creating", "started"}
      /\ call' = [u \in Threads |-> call'[u]]
  BY <1>1
<1>4. p = "creating" <=> state[x] = NoState
  OBVIOUS
<1> HIDE DEF p
<1>3. /\ call'[t].pc = p /\ call'[t].tenant = x /\ call'[t].state = state[x]
      /\ call'[t] \in CallState
  <2>1. state[x] \in States \cup {NoState}
    OBVIOUS
  <2>2. call'[t] \in CallState
    <3>1. p \in {"creating", "started"}
      BY <1>2
    <3>2. [NoCall EXCEPT !.pc = p, !.tenant = x, !.state = state[x]] \in CallState
      BY ONLY <2>1, <3>1, NewCallsTyped, x \in Tenants, Zenon
    <3> QED
      BY ONLY <1>2, <3>2, Zenon
  <2>3. \A c \in CallState, q \in {"creating", "started"}, y \in Tenants :
           \A r \in States \cup {NoState} :
              LET d == [c EXCEPT !.pc = q, !.tenant = y, !.state = r]
              IN  d.pc = q /\ d.tenant = y /\ d.state = r
    BY DEF CallState
  <2>4. NoCall \in CallState
    BY NewCallsTyped
  <2> QED
    BY <1>2, <2>1, <2>2, <2>3, <2>4
<1>5. UNCHANGED <<state, timestamps, active, queued, unpublished, worker, admissions, lost>>
  BY DEF BeginCheck
<1>6. call' \in [Threads -> CallState]
  BY <1>2, <1>3
<1>7. TypeOK'
  BY <1>5, <1>6 DEF TypeOK
<1>8. ASSUME NEW u \in Threads
      PROVE  /\ call'[u].pc # "idle" => call'[u].tenant \in Tenants
             /\ call'[u].pc \in {"idle", "creating"} => call'[u].state = NoState
             /\ call'[u].pc \notin {"idle", "creating"} =>
                   /\ MadeFor(call'[u].state, call'[u].tenant)
                   /\ state[call'[u].tenant] # NoState
  <2>1. CASE u = t
    <3>1. p \in {"creating", "started"} /\ (state[x] # NoState => MadeFor(state[x], x))
      BY <1>2 DEF RefsOK
    <3> QED
      BY <1>3, <1>4, <2>1, <3>1
  <2>2. CASE u # t
    BY <1>2, <2>2 DEF RefsOK
  <2> QED
    BY <2>1, <2>2
<1>9. ASSUME NEW u \in Threads, call'[u].pc = "creating"
      PROVE  /\ \A y \in Tenants : state[y] # <<call'[u].tenant, u>>
             /\ \A v \in Threads : call'[v].state # <<call'[u].tenant, u>>
             /\ worker.state # <<call'[u].tenant, u>>
  <2>1. CASE u = t
    <3>1. state[x] = NoState /\ call'[u].tenant = x
      BY <1>3, <1>4, <1>9, <2>1
    <3>2. ASSUME NEW s, NEW y, MadeFor(s, y), y # x PROVE s # <<x, u>>
      BY <3>2 DEF MadeFor
    <3>3. NoState # <<x, u>>
      BY StatesAreSome DEF States
    <3>4. \A y \in Tenants : state[y] # <<x, u>>
      BY <3>1, <3>2, <3>3 DEF RefsOK
    <3>5. \A v \in Threads : v # t => call[v].state # <<x, u>>
      BY <3>1, <3>2, <3>3 DEF RefsOK
    <3>6. worker.state # <<x, u>>
      BY <3>1, <3>2, <3>3 DEF RefsOK
    <3> QED
      BY <1>2, <1>3, <3>1, <3>4, <3>5, <3>6, ZenonT(60)
  <2>2. CASE u # t
    <3>1. call'[u] = call[u] /\ call[u].pc = "creating"
      BY <1>2, <1>9, <2>2
    <3>2. /\ \A y \in Tenants : state[y] # <<call[u].tenant, u>>
          /\ \A v \in Threads : call[v].state # <<call[u].tenant, u>>
          /\ worker.state # <<call[u].tenant, u>>
      BY <3>1 DEF RefsOK
    <3>3. ASSUME NEW v \in Threads PROVE call'[v].state # <<call[u].tenant, u>>
      <4>1. CASE v = t
        BY <1>3, <3>2, <4>1
      <4>2. CASE v # t
        BY <1>2, <3>2, <4>2
      <4> QED
        BY <4>1, <4>2
    <3> QED
      BY <3>1, <3>2, <3>3
  <2> QED
    BY <2>1, <2>2
<1>10. RefsOK'
  BY <1>5, <1>8, <1>9 DEF RefsOK
<1> QED
  BY <1>7, <1>10

LEMMA TypeCreateState ==
    ASSUME TypeInv, NEW t \in Threads, CreateState(t)
    PROVE  TypeInv'
<1> USE Types DEF TypeInv
<1>1. PICK x \in Tenants : x = call[t].tenant
  BY DEF CreateState, RefsOK
<1> DEFINE s == <<x, t>>
<1>2. s \in States /\ s # NoState
  BY StatesAreSome DEF States
<1>3. /\ call[t].pc = "creating"
      /\ state' = [state EXCEPT ![x] = s]
      /\ timestamps' = [timestamps EXCEPT ![s] = NoMoments]
      /\ active' = [active EXCEPT ![s] = 0]
      /\ call' = [call EXCEPT ![t] = [call[t] EXCEPT !.pc = "started", !.state = s]]
      /\ lost' = IF state[x] = NoState THEN lost
                 ELSE [lost EXCEPT ![x] = Together(lost[x], timestamps[state[x]])]
      /\ UNCHANGED <<queued, unpublished, worker, admissions>>
  BY <1>1 DEF CreateState
<1>4. /\ \A u \in Threads : u # t => call'[u] = call[u]
      /\ call'[t].pc = "started" /\ call'[t].tenant = x /\ call'[t].state = s
      /\ call' \in [Threads -> CallState]
  <2>1. [call[t] EXCEPT !.pc = "started", !.state = s] \in CallState
    BY <1>2 DEF CallState
  <2>2. call[t] \in CallState
    OBVIOUS
  <2> HIDE DEF s
  <2> QED
    BY <1>1, <1>3, <2>1, <2>2 DEF CallState
<1>5. \A y \in Tenants : state'[y] = IF y = x THEN s ELSE state[y]
  BY <1>3
<1>6. \A y \in Tenants : state[y] # NoState => state'[y] # NoState
  BY <1>2, <1>5
<1>7. lost' \in [Tenants -> Moments]
  BY <1>3, TogetherTyped
<1>8. TypeOK'
  BY <1>2, <1>3, <1>4, <1>7, NoMomentsTyped DEF TypeOK
<1>10. MadeFor(s, x) /\ state'[x] # NoState
  BY <1>2, <1>5 DEF MadeFor
<1> HIDE DEF s
<1>11. \A y \in Tenants : state'[y] # NoState => MadeFor(state'[y], y)
  BY <1>5, <1>10 DEF RefsOK
<1>12. ASSUME NEW u \in Threads
       PROVE  /\ call'[u].pc # "idle" => call'[u].tenant \in Tenants
              /\ call'[u].pc \in {"idle", "creating"} => call'[u].state = NoState
              /\ call'[u].pc \notin {"idle", "creating"} =>
                    /\ MadeFor(call'[u].state, call'[u].tenant)
                    /\ state'[call'[u].tenant] # NoState
  <2>1. CASE u = t
    BY <1>4, <1>10, <2>1
  <2>2. CASE u # t
    BY <1>4, <1>6, <2>2 DEF RefsOK
  <2> QED
    BY <2>1, <2>2
<1>13. ASSUME NEW u \in Threads, call'[u].pc = "creating"
       PROVE  /\ \A y \in Tenants : state'[y] # <<call'[u].tenant, u>>
              /\ \A v \in Threads : call'[v].state # <<call'[u].tenant, u>>
              /\ worker'.state # <<call'[u].tenant, u>>
  <2>1. u # t /\ call'[u] = call[u]
    BY <1>4, <1>13
  <2>2. s # <<call'[u].tenant, u>>
    BY <2>1 DEF s
  <2> QED
    BY <1>3, <1>4, <1>5, <1>13, <2>1, <2>2, ZenonT(60) DEF RefsOK
<1>14. /\ worker'.pc \in {"finished", "read"} =>
             worker'.tenant \in Tenants /\ state'[worker'.tenant] # NoState
       /\ IF worker'.pc = "read" THEN MadeFor(worker'.state, worker'.tenant)
          ELSE worker'.state = NoState
  BY <1>3, <1>6 DEF RefsOK
<1>15. \A y \in Tenants : queued'[y] > 0 => state'[y] # NoState
  BY <1>3, <1>6 DEF RefsOK
<1>16. RefsOK'
  BY <1>11, <1>12, <1>13, <1>14, <1>15 DEF RefsOK
<1> QED
  BY <1>8, <1>16

\* Steps of calls that refer to nothing new.
LEMMA RefsAreQuiet ==
    ASSUME TypeInv, UNCHANGED <<state, worker>>,
           \A x \in Tenants : queued'[x] > 0 => state[x] # NoState,
           \A u \in Threads : \/ call'[u] = NoCall
                              \/ /\ (call'[u].pc = "creating" <=> call[u].pc = "creating")
                                 /\ (call'[u].pc = "idle" <=> call[u].pc = "idle")
                                 /\ call'[u].tenant = call[u].tenant
                                 /\ call'[u].state = call[u].state
    PROVE  RefsOK'
<1> USE DEF TypeInv
<1>1. NoCall.pc = "idle" /\ NoCall.state = NoState
  BY DEF NoCall
<1>2. ASSUME NEW u \in Threads
      PROVE  /\ call'[u].pc # "idle" => call'[u].tenant \in Tenants
             /\ call'[u].pc \in {"idle", "creating"} => call'[u].state = NoState
             /\ call'[u].pc \notin {"idle", "creating"} =>
                   /\ MadeFor(call'[u].state, call'[u].tenant)
                   /\ state[call'[u].tenant] # NoState
  <2>1. CASE call'[u] = NoCall
    BY <1>1, <2>1
  <2>2. CASE call'[u] # NoCall
    BY <2>2 DEF RefsOK
  <2> QED
    BY <2>1, <2>2
<1>3. ASSUME NEW u \in Threads, call'[u].pc = "creating"
      PROVE  /\ \A y \in Tenants : state[y] # <<call'[u].tenant, u>>
             /\ \A v \in Threads : call'[v].state # <<call'[u].tenant, u>>
             /\ worker.state # <<call'[u].tenant, u>>
  <2>1. call[u].pc = "creating" /\ call'[u].tenant = call[u].tenant
    BY <1>1, <1>3
  <2>2. NoState # <<call[u].tenant, u>>
    BY <2>1, StatesAreSome DEF States, RefsOK
  <2> QED
    BY <1>1, <2>1, <2>2 DEF RefsOK
<1> QED
  BY <1>2, <1>3 DEF RefsOK

LEMMA TypeStorePruned ==
    ASSUME TypeInv, NEW t \in Threads, StorePruned(t)
    PROVE  TypeInv'
<1> USE Types DEF TypeInv
<1> DEFINE s == call[t].state
           x == call[t].tenant
           kept == WithinWindow(call[t].pruned, call[t].age)
<1>1. x \in Tenants /\ s \in States /\ call[t].pc = "pruning"
  BY MadeIsState DEF StorePruned, RefsOK
<1>2. kept \in Moments
  BY WithinWindowTyped
<1> HIDE DEF kept
<1>3. /\ timestamps' = [timestamps EXCEPT ![s] = kept]
      /\ \A u \in Threads : u # t =>
            call'[u] = [call[u] EXCEPT !.live = call[u].live /\ call[u].state # s]
      /\ call'[t] = IF Count(kept) >= MaxPerMinute THEN NoCall
                    ELSE [call[t] EXCEPT !.pc = "rated", !.pruned = NoMoments,
                                         !.live = FALSE, !.missed = NoMoments]
      /\ lost' = IF state[x] = s THEN [lost EXCEPT ![x] = Together(lost[x], call[t].missed)]
                 ELSE lost
      /\ UNCHANGED <<state, active, queued, unpublished, worker, admissions>>
      /\ call' = [u \in Threads |-> call'[u]]
  BY DEF StorePruned, kept
<1>4. ASSUME NEW u \in Threads
      PROVE  /\ call'[u] \in CallState
             /\ \/ call'[u] = NoCall
                \/ /\ call[u].pc \notin {"idle", "creating"} \/ u # t
                   /\ call'[u].pc = call[u].pc \/ (u = t /\ call'[u].pc = "rated")
                   /\ call'[u].tenant = call[u].tenant
                   /\ call'[u].state = call[u].state
  <2>1. CASE u = t
    <3>0. call[t] \in CallState
      OBVIOUS
    <3>1. \/ call'[t] = NoCall
          \/ GoesOn(call'[t], call[t], "rated")
      BY ONLY <1>3, <3>0, CallsGoOn, Zenon
    <3> QED
      BY <1>1, <2>1, <3>1, NewCallsTyped DEF GoesOn
  <2>2. CASE u # t
    <3> DEFINE l == call[u].live /\ call[u].state # s
    <3>1. call'[u] = [call[u] EXCEPT !.live = l] /\ l \in BOOLEAN
      BY <1>3, <2>2
    <3> HIDE DEF l
    <3>2. call[u] \in CallState
      OBVIOUS
    <3>3. GoesOn(call'[u], call[u], call[u].pc)
      BY ONLY <3>1, <3>2, CallsGoOn, Zenon
    <3> QED
      BY <2>2, <3>3 DEF GoesOn
  <2> QED
    BY <2>1, <2>2
<1>5. lost' \in [Tenants -> Moments]
  BY <1>1, <1>3, TogetherTyped
<1>6. TypeOK'
  <2>1. call' \in [Threads -> CallState]
    BY <1>3, <1>4
  <2> HIDE DEF s, x
  <2> QED
    BY <1>1, <1>2, <1>3, <1>5, <2>1 DEF TypeOK
<1>7. RefsOK'
  <2>1. \A y \in Tenants : queued'[y] > 0 => state[y] # NoState
    BY <1>3 DEF RefsOK
  <2> QED
    BY <1>1, <1>3, <1>4, <2>1, RefsAreQuiet
<1> QED
  BY <1>6, <1>7

LEMMA TypeStamp ==
    ASSUME TypeInv, NEW t \in Threads, Stamp(t)
    PROVE  TypeInv'
<1> USE Types DEF TypeInv
<1> DEFINE s == call[t].state
           x == call[t].tenant
           now == call[t].age
<1>1. x \in Tenants /\ s \in States /\ call[t].pc = "rated" /\ now \in Nat
  BY MadeIsState DEF Stamp, RefsOK
<1>2. /\ timestamps' = [timestamps EXCEPT ![s] = Added(timestamps[s], now)]
      /\ call'[t] = [call[t] EXCEPT !.pc = "stamped", !.age = 0]
      /\ \A u \in Threads : u # t =>
            \/ call'[u] = call[u]
            \/ call'[u] = [call[u] EXCEPT !.pruned = Added(call[u].pruned, now)]
            \/ call'[u] = [call[u] EXCEPT !.missed = Added(call[u].missed, now)]
      /\ admissions' = [admissions EXCEPT ![x] = Added(admissions[x], now)]
      /\ lost' = IF state[x] = s THEN lost ELSE [lost EXCEPT ![x] = Added(lost[x], now)]
      /\ UNCHANGED <<state, active, queued, unpublished, worker>>
      /\ call' = [u \in Threads |-> call'[u]]
  BY DEF Stamp, AppendNow
<1>3. \A m \in Moments : Added(m, now) \in Moments
  BY <1>1, AddedTyped
<1> HIDE DEF now
<1>4. ASSUME NEW u \in Threads
      PROVE  /\ call'[u] \in CallState
             /\ call'[u].pc = IF u = t THEN "stamped" ELSE call[u].pc
             /\ call'[u].tenant = call[u].tenant
             /\ call'[u].state = call[u].state
  <2>1. call[u] \in CallState
    OBVIOUS
  <2>2. CASE u = t
    <3>1. GoesOn(call'[u], call[u], "stamped")
      BY <1>2, <2>1, <2>2, CallsGoOn
    <3> QED
      BY <2>2, <3>1 DEF GoesOn
  <2>3. CASE u # t
    <3>1. /\ Added(call[u].pruned, now) \in Moments /\ Added(call[u].missed, now) \in Moments
      BY <1>3
    <3>2. CASE call'[u] = call[u]
      BY <2>1, <2>3, <3>2
    <3>3. CASE call'[u] = [call[u] EXCEPT !.pruned = Added(call[u].pruned, now)]
      <4>1. GoesOn(call'[u], call[u], call[u].pc)
        BY <2>1, <3>1, <3>3, CallsGoOn
      <4> QED
        BY <2>3, <4>1 DEF GoesOn
    <3>4. CASE call'[u] = [call[u] EXCEPT !.missed = Added(call[u].missed, now)]
      <4>1. GoesOn(call'[u], call[u], call[u].pc)
        BY <2>1, <3>1, <3>4, CallsGoOn
      <4> QED
        BY <2>3, <4>1 DEF GoesOn
    <3> QED
      BY <1>2, <2>3, <3>2, <3>3, <3>4
  <2> QED
    BY <2>2, <2>3
<1>5. TypeOK'
  <2>1. call' \in [Threads -> CallState]
    BY <1>2, <1>4
  <2>2. lost' \in [Tenants -> Moments] /\ admissions' \in [Tenants -> Moments]
    BY <1>1, <1>2, <1>3
  <2>3. timestamps' \in [States -> Moments]
    BY <1>1, <1>2, <1>3
  <2> QED
    BY <1>2, <2>1, <2>2, <2>3 DEF TypeOK
<1>6. RefsOK'
  <2>1. \A y \in Tenants : queued'[y] > 0 => state[y] # NoState
    BY <1>2 DEF RefsOK
  <2> QED
    BY <1>1, <1>2, <1>4, <2>1, RefsAreQuiet
<1> QED
  BY <1>5, <1>6

\* The other steps of a call.
LEMMA TypeThread ==
    ASSUME TypeInv, NEW t \in Threads,
           \/ BeginLoop(t) \/ RefuseConcurrency(t) \/ Increment(t)
           \/ PublishCounted(t) \/ PublishFails(t)
    PROVE  TypeInv'
<1> USE Types DEF TypeInv
<1>0. call[t] \in CallState
  OBVIOUS
<1>1. call[t].pc \notin {"idle", "creating"}
  BY DEF BeginLoop, RefuseConcurrency, Increment, PublishCounted, PublishFails
<1>2. call[t].tenant \in Tenants /\ call[t].state \in States /\ state[call[t].tenant] # NoState
  BY <1>1, MadeIsState DEF RefsOK
<1>3. /\ UNCHANGED <<state, timestamps, worker, admissions, lost>>
      /\ \E c \in CallState :
            /\ call' = [call EXCEPT ![t] = c]
            /\ \/ c = NoCall
               \/ /\ c.pc \in {"pruning", "counted"}
                  /\ c.tenant = call[t].tenant /\ c.state = call[t].state
  <2>1. CASE BeginLoop(t)
    <3> DEFINE p == timestamps[call[t].state]
               c == [call[t] EXCEPT !.pc = "pruning", !.live = TRUE, !.pruned = p]
    <3>1. p \in Moments
      BY <1>2
    <3>2. call' = [call EXCEPT ![t] = c]
      BY <2>1 DEF BeginLoop
    <3> HIDE DEF p
    <3>3. /\ c \in CallState /\ c.pc = "pruning"
          /\ c.tenant = call[t].tenant /\ c.state = call[t].state
      <4>1. GoesOn(c, call[t], "pruning")
        BY <1>0, <3>1, CallsGoOn
      <4> HIDE DEF c
      <4> QED
        BY <4>1 DEF GoesOn
    <3> QED
      BY <2>1, <3>2, <3>3 DEF BeginLoop
  <2>2. CASE Increment(t)
    <3> DEFINE c == [call[t] EXCEPT !.pc = "counted"]
    <3>1. call' = [call EXCEPT ![t] = c]
      BY <2>2 DEF Increment
    <3>2. /\ c \in CallState /\ c.pc = "counted"
          /\ c.tenant = call[t].tenant /\ c.state = call[t].state
      <4>1. GoesOn(c, call[t], "counted")
        BY <1>0, CallsGoOn
      <4> HIDE DEF c
      <4> QED
        BY <4>1 DEF GoesOn
    <3> QED
      BY <2>2, <3>1, <3>2 DEF Increment
  <2>3. CASE RefuseConcurrency(t) \/ PublishCounted(t) \/ PublishFails(t)
    BY <2>3, NewCallsTyped DEF RefuseConcurrency, PublishCounted, PublishFails, Leave
  <2> QED
    BY <2>1, <2>2, <2>3
<1>4. /\ active' \in [States -> Nat]
      /\ queued' \in [Tenants -> Nat] /\ unpublished' \in [Tenants -> Nat]
      /\ \A y \in Tenants : queued'[y] > 0 => queued[y] > 0 \/ y = call[t].tenant
  BY <1>2 DEF BeginLoop, RefuseConcurrency, Increment, PublishCounted, PublishFails
<1>5. TypeOK'
  BY <1>3, <1>4 DEF TypeOK
<1>6. RefsOK'
  <2>1. \A y \in Tenants : queued'[y] > 0 => state[y] # NoState
    BY <1>2, <1>4 DEF RefsOK
  <2>2. PICK c \in CallState :
           /\ call' = [call EXCEPT ![t] = c]
           /\ \/ c = NoCall
              \/ /\ c.pc \in {"pruning", "counted"}
                 /\ c.tenant = call[t].tenant /\ c.state = call[t].state
    BY <1>3
  <2>3. call'[t] = c /\ \A u \in Threads : u # t => call'[u] = call[u]
    BY <2>2
  <2> QED
    BY <1>1, <1>3, <2>1, <2>2, <2>3, RefsAreQuiet
<1> QED
  BY <1>5, <1>6

LEMMA TypeWorker ==
    ASSUME TypeInv, WorkerStep
    PROVE  TypeInv'
<1> USE Types DEF TypeInv
<1>1. UNCHANGED <<state, timestamps, call, unpublished, admissions, lost>>
  BY DEF WorkerStep, Finish, Die, ReadCount, Read, StoreCount
<1>2. /\ active' \in [States -> Nat] /\ queued' \in [Tenants -> Nat]
      /\ worker' \in ReleaseState
      /\ \A y \in Tenants : queued'[y] > 0 => queued[y] > 0
      /\ worker'.pc \in {"finished", "read"} =>
            worker'.tenant \in Tenants /\ state[worker'.tenant] # NoState
      /\ worker'.pc = "read" => MadeFor(worker'.state, worker'.tenant)
      /\ worker'.pc # "read" => worker'.state = NoState
      /\ worker'.state \in {NoState, worker.state} \cup {state[y] : y \in Tenants}
  <2>1. ASSUME NEW x \in Tenants, Finish(x)
        PROVE  /\ active' = active /\ queued[x] > 0
               /\ queued' = [queued EXCEPT ![x] = queued[x] - 1]
               /\ \/ worker' = NoRelease
                  \/ worker' = [NoRelease EXCEPT !.pc = "finished", !.tenant = x]
    BY <2>1 DEF Finish
  <2>2. CASE \E x \in Tenants : Finish(x)
    <3>1. PICK x \in Tenants : Finish(x)
      BY <2>2
    <3>2. queued' \in [Tenants -> Nat] /\ \A y \in Tenants : queued'[y] > 0 => queued[y] > 0
      <4>1. queued[x] > 0 /\ queued' = [queued EXCEPT ![x] = queued[x] - 1]
        BY <2>1, <3>1
      <4>2. queued[x] - 1 \in Nat
        BY <4>1
      <4> QED
        BY <4>1, <4>2
    <3>3. state[x] # NoState
      BY <2>1, <3>1 DEF RefsOK
    <3>4. /\ worker' \in ReleaseState /\ worker'.state = NoState
          /\ worker'.pc # "read"
          /\ worker'.pc = "finished" => worker'.tenant = x
      <4>1. CASE worker' = NoRelease
        BY <4>1 DEF NoRelease, ReleaseState
      <4>2. CASE worker' = [NoRelease EXCEPT !.pc = "finished", !.tenant = x]
        <5>1. worker' = [pc |-> "finished", tenant |-> x, state |-> NoState, count |-> 0]
          BY <4>2 DEF NoRelease
        <5> QED
          BY <5>1 DEF ReleaseState
      <4> QED
        BY <2>1, <3>1, <4>1, <4>2
    <3>5. active' = active
      BY <2>1, <3>1
    <3> QED
      BY <3>2, <3>3, <3>4, <3>5
  <2>3. CASE Die
    <3>1. worker' = [worker EXCEPT !.pc = "dead"] /\ worker.pc = "idle"
          /\ UNCHANGED <<active, queued>>
      BY <2>3 DEF Die
    <3>2. /\ worker'.pc = "dead" /\ worker'.state = worker.state /\ worker' \in ReleaseState
      BY <3>1 DEF ReleaseState
    <3> QED
      BY <3>1, <3>2 DEF RefsOK
  <2>4. CASE ReadCount
    <3> DEFINE y == worker.tenant
               n == IF active[state[y]] = 0 THEN 0 ELSE active[state[y]] - 1
    <3>1. worker.pc = "finished" /\ y \in Tenants /\ state[y] # NoState
      BY <2>4 DEF ReadCount, Read, RefsOK
    <3>2. state[y] \in States /\ MadeFor(state[y], y) /\ n \in Nat
      BY <3>1 DEF RefsOK
    <3>3. /\ worker' = [worker EXCEPT !.pc = "read", !.count = n, !.state = state[y]]
          /\ UNCHANGED <<active, queued>>
      BY <2>4 DEF ReadCount, Read
    <3> HIDE DEF n
    <3>4. /\ worker'.pc = "read" /\ worker'.state = state[y] /\ worker'.tenant = y
          /\ worker' \in ReleaseState
      BY <3>2, <3>3 DEF ReleaseState
    <3> QED
      BY <3>1, <3>2, <3>3, <3>4
  <2>5. CASE StoreCount
    <3>1. worker.pc = "read" /\ worker.tenant \in Tenants /\ worker.state \in States
      BY <2>5, MadeIsState DEF StoreCount, RefsOK
    <3>2. worker.count \in Nat
      BY DEF ReleaseState
    <3> QED
      BY <2>5, <3>1, <3>2 DEF StoreCount, NoRelease, ReleaseState
  <2> QED
    BY <2>2, <2>3, <2>4, <2>5 DEF WorkerStep
<1>3. TypeOK'
  BY <1>1, <1>2 DEF TypeOK
<1>4. ASSUME NEW u \in Threads, call[u].pc = "creating"
      PROVE  worker'.state # <<call[u].tenant, u>>
  <2>1. NoState # <<call[u].tenant, u>>
    BY <1>4, StatesAreSome DEF States, RefsOK
  <2> QED
    BY <1>2, <1>4, <2>1 DEF RefsOK
<1>5. RefsOK'
  BY <1>1, <1>2, <1>4 DEF RefsOK
<1> QED
  BY <1>3, <1>5

\* What time does to calls.
LEMMA TickAges ==
    ASSUME TypeInv, Tick, NEW t \in Threads
    PROVE  /\ call'[t] \in CallState
           /\ call'[t].pc = call[t].pc /\ call'[t].tenant = call[t].tenant
           /\ call'[t].state = call[t].state
           /\ call[t].pc = "pruning" => /\ call'[t].pruned = Older(call[t].pruned)
                                        /\ call'[t].missed = Older(call[t].missed)
<1> USE Types DEF TypeInv
<1>1. CASE HasNow(t)
  <2> DEFINE a == call[t].age + 1
             p == Older(call[t].pruned)
             q == Older(call[t].missed)
  <2>1. call'[t] = [call[t] EXCEPT !.age = a, !.pruned = p, !.missed = q]
    BY <1>1 DEF Tick
  <2>2. a \in 0..MaxCallAge
    <3>1. call[t].age < MaxCallAge
      BY <1>1 DEF Tick
    <3> QED
      BY <3>1, Bounds
  <2>3. p \in Moments /\ q \in Moments
    BY OlderTyped
  <2>4. call[t] \in CallState
    OBVIOUS
  <2>5. call'[t].pruned = p /\ call'[t].missed = q
    BY <2>1, <2>4 DEF CallState
  <2> HIDE DEF a, p, q
  <2>6. /\ call'[t] \in CallState
        /\ call'[t].pc = call[t].pc /\ call'[t].tenant = call[t].tenant
        /\ call'[t].state = call[t].state
    <3>0. \A b \in 0..MaxCallAge, m \in Moments, n \in Moments :
             GoesOn([call[t] EXCEPT !.age = b, !.pruned = m, !.missed = n], call[t], call[t].pc)
      BY ONLY <2>4, CallsGoOn, Zenon
    <3>1. GoesOn(call'[t], call[t], call[t].pc)
      BY ONLY <2>1, <2>2, <2>3, <3>0
    <3> QED
      BY <3>1 DEF GoesOn
  <2> QED
    BY <2>5, <2>6 DEF p, q
<1>2. CASE ~HasNow(t)
  BY <1>2 DEF Tick, HasNow
<1> QED
  BY <1>1, <1>2

LEMMA TypeTick ==
    ASSUME TypeInv, Tick
    PROVE  TypeInv'
<1> USE Types DEF TypeInv
<1>1. call' = [t \in Threads |-> call'[t]] /\ UNCHANGED <<state, active, queued, unpublished, worker>>
  BY DEF Tick
<1>2. 0 \in 0..MaxCallAge
  BY Bounds
<1>3. /\ timestamps' \in [States -> Moments]
      /\ admissions' \in [Tenants -> Moments] /\ lost' \in [Tenants -> Moments]
  BY <1>2, OlderTyped, WithinWindowTyped DEF Tick
<1>4. call' \in [Threads -> CallState]
  BY <1>1, TickAges
<1>5. TypeOK'
  BY <1>1, <1>3, <1>4 DEF TypeOK
<1>6. RefsOK'
  BY <1>1, TickAges, RefsAreQuiet DEF RefsOK
<1> QED
  BY <1>5, <1>6

LEMMA TypeStep == TypeInv /\ [Next]_vars => TypeInv'
<1>1. TypeInv /\ UNCHANGED vars => TypeInv'
  BY DEF TypeInv, TypeOK, RefsOK, vars
<1> QED
  BY <1>1, TypeBeginCheck, TypeCreateState, TypeStorePruned, TypeStamp, TypeThread, TypeWorker,
     TypeTick DEF Next, ThreadStep

LEMMA TypesStay == Spec => []TypeInv
BY TypeInit, TypeStep, PTL DEF Spec

\* The engine, its callers and the worker stay in their types, for any number
\* of threads and tenants; no release makes a counter negative (tenant.py:157).
THEOREM TypeCorrect == Spec => []TypeOK
BY TypesStay, PTL DEF TypeInv

-----------------------------------------------------------------------------
(* Where a step takes the calls.                                           *)

SamePlace(u) == /\ call'[u].pc = call[u].pc
                /\ call'[u].tenant = call[u].tenant
                /\ call'[u].state = call[u].state

LEMMA OthersStay ==
    ASSUME TypeInv, NEW t \in Threads, ThreadStep(t), NEW u \in Threads, u # t
    PROVE  SamePlace(u)
<1> USE Types DEF TypeInv
<1>0. call[u] \in CallState
  OBVIOUS
<1>1. CASE BeginCheck(t) \/ CreateState(t) \/ BeginLoop(t) \/ RefuseConcurrency(t)
           \/ Increment(t) \/ PublishCounted(t) \/ PublishFails(t)
  <2>1. \E c : call' = [call EXCEPT ![t] = c]
    BY <1>1, ZenonT(60) DEF BeginCheck, CreateState, BeginLoop, RefuseConcurrency, Increment, PublishCounted,
       PublishFails, Leave
  <2>2. call'[u] = call[u]
    BY <2>1
  <2> QED
    BY <2>2 DEF SamePlace
<1>2. CASE StorePruned(t)
  <2> DEFINE l == call[u].live /\ call[u].state # call[t].state
  <2>1. call'[u] = [call[u] EXCEPT !.live = l] /\ l \in BOOLEAN
    BY <1>2 DEF StorePruned
  <2> HIDE DEF l
  <2>2. GoesOn(call'[u], call[u], call[u].pc)
    BY ONLY <1>0, <2>1, CallsGoOn, Zenon
  <2> QED
    BY <2>2 DEF GoesOn, SamePlace
<1>3. CASE Stamp(t)
  <2> DEFINE p == Added(call[u].pruned, call[t].age)
             q == Added(call[u].missed, call[t].age)
  <2>1. \/ call'[u] = call[u]
        \/ call'[u] = [call[u] EXCEPT !.pruned = p]
        \/ call'[u] = [call[u] EXCEPT !.missed = q]
    BY <1>3 DEF Stamp, AppendNow
  <2>2. p \in Moments /\ q \in Moments
    BY AddedTyped
  <2> HIDE DEF p, q
  <2>3. call'[u] = call[u] \/ GoesOn(call'[u], call[u], call[u].pc)
    BY ONLY <1>0, <2>1, <2>2, CallsGoOn
  <2> QED
    BY <2>3 DEF GoesOn, SamePlace
<1> QED
  BY <1>1, <1>2, <1>3 DEF ThreadStep

\* From one place of the code to another.
Moves(t, from, to) == /\ call[t].pc = from /\ call'[t].pc = to
                      /\ call'[t].tenant = call[t].tenant
                      /\ call'[t].state = call[t].state

LEMMA OneMoves ==
    ASSUME TypeInv, NEW t \in Threads
    PROVE  /\ BeginCheck(t) => call[t].pc = "idle" /\ call'[t].pc \in {"creating", "started"}
           /\ CreateState(t) => /\ call[t].pc = "creating" /\ call'[t].pc = "started"
                                /\ call'[t].tenant = call[t].tenant
           /\ BeginLoop(t) => Moves(t, "started", "pruning")
           /\ StorePruned(t) => /\ call[t].pc = "pruning"
                                /\ call'[t].pc = "idle" \/ Moves(t, "pruning", "rated")
           /\ RefuseConcurrency(t) => call[t].pc = "rated" /\ call'[t].pc = "idle"
           /\ Stamp(t) => Moves(t, "rated", "stamped")
           /\ Increment(t) => Moves(t, "stamped", "counted")
           /\ PublishCounted(t) \/ PublishFails(t) =>
                 call[t].pc = "counted" /\ call'[t].pc = "idle"
<1> USE Types DEF TypeInv
<1>0. call[t] \in CallState /\ NoCall.pc = "idle"
  BY DEF NoCall
<1>1. BeginCheck(t) => call[t].pc = "idle" /\ call'[t].pc \in {"creating", "started"}
  BY DEF BeginCheck, NoCall
<1>2. CreateState(t) => /\ call[t].pc = "creating" /\ call'[t].pc = "started"
                        /\ call'[t].tenant = call[t].tenant
  BY <1>0 DEF CreateState, CallState
<1>3. ASSUME BeginLoop(t) PROVE Moves(t, "started", "pruning")
  <2>1. call'[t] = [call[t] EXCEPT !.pc = "pruning", !.live = TRUE,
                                   !.pruned = timestamps[call[t].state]]
        /\ call[t].pc = "started"
    BY <1>3 DEF BeginLoop
  <2>2. timestamps[call[t].state] \in Moments
    BY <2>1, MadeIsState DEF RefsOK
  <2>3. GoesOn(call'[t], call[t], "pruning")
    BY ONLY <1>0, <2>1, <2>2, CallsGoOn, Zenon
  <2> QED
    BY <2>1, <2>3 DEF GoesOn, Moves
<1>4. ASSUME StorePruned(t)
      PROVE  call[t].pc = "pruning" /\ (call'[t].pc = "idle" \/ Moves(t, "pruning", "rated"))
  <2>1. call[t].pc = "pruning"
        /\ \/ call'[t] = NoCall
           \/ call'[t] = [call[t] EXCEPT !.pc = "rated", !.pruned = NoMoments, !.live = FALSE,
                                         !.missed = NoMoments]
    BY <1>4 DEF StorePruned
  <2>2. call'[t] = NoCall \/ GoesOn(call'[t], call[t], "rated")
    BY ONLY <1>0, <2>1, CallsGoOn, Zenon
  <2> QED
    BY <1>0, <2>1, <2>2 DEF GoesOn, Moves
<1>5. RefuseConcurrency(t) => call[t].pc = "rated" /\ call'[t].pc = "idle"
  BY <1>0 DEF RefuseConcurrency, Leave
<1>6. ASSUME Stamp(t) PROVE Moves(t, "rated", "stamped")
  <2>1. call[t].pc = "rated" /\ call'[t] = [call[t] EXCEPT !.pc = "stamped", !.age = 0]
    BY <1>6 DEF Stamp, AppendNow
  <2>2. GoesOn(call'[t], call[t], "stamped")
    BY ONLY <1>0, <2>1, CallsGoOn, Zenon
  <2> QED
    BY <2>1, <2>2 DEF GoesOn, Moves
<1>7. ASSUME Increment(t) PROVE Moves(t, "stamped", "counted")
  <2>1. call[t].pc = "stamped" /\ call'[t] = [call[t] EXCEPT !.pc = "counted"]
    BY <1>7 DEF Increment
  <2>2. GoesOn(call'[t], call[t], "counted")
    BY ONLY <1>0, <2>1, CallsGoOn, Zenon
  <2> QED
    BY <2>1, <2>2 DEF GoesOn, Moves
<1>8. PublishCounted(t) \/ PublishFails(t) => call[t].pc = "counted" /\ call'[t].pc = "idle"
  BY <1>0 DEF PublishCounted, PublishFails, Leave
<1> QED
  BY <1>1, <1>2, <1>3, <1>4, <1>5, <1>6, <1>7, <1>8

-----------------------------------------------------------------------------
(* The overshoot of the counter.                                           *)

\* The threads that are through the concurrency check of a state and have not
\* counted.
Stamped(s) == {t \in Threads : call[t].pc = "stamped" /\ call[t].state = s}

\* A release under way stores at most what the counter shows now.
ReadIsOld == worker.pc = "read" => worker.count <= active[worker.state]

\* CounterOvershootIsBounded says nothing of the threads about to count.
CounterInv ==
    /\ \A s \in States :
          active[s] + Cardinality(Stamped(s)) <= MaxConcurrent + Cardinality(Threads) - 1
    /\ ReadIsOld

LEMMA StampedIsFinite ==
    ASSUME NEW s
    PROVE  /\ IsFiniteSet(Stamped(s))
           /\ Cardinality(Stamped(s)) \in Nat
           /\ Cardinality(Threads) \in Nat
           /\ Cardinality(Stamped(s)) <= Cardinality(Threads)
<1>1. IsFiniteSet(Threads) /\ Stamped(s) \subseteq Threads
  BY TenantAssumption DEF Stamped
<1> QED
  BY <1>1, FS_Subset, FS_CardinalityType

LEMMA CounterInit == Init => CounterInv
<1> SUFFICES ASSUME Init PROVE CounterInv
  OBVIOUS
<1>1. \A s : Stamped(s) = {}
  BY DEF Init, Stamped, NoCall
<1>2. ReadIsOld
  BY DEF Init, ReadIsOld, NoRelease
<1>3. \A s \in States : active[s] = 0
  BY DEF Init
<1>4. \A s : Cardinality(Stamped(s)) = 0
  BY <1>1, FS_EmptySet
<1>5. MaxConcurrent \in Nat \ {0}
  BY Bounds
<1> QED
  BY <1>2, <1>3, <1>4, <1>5, ThreadsAreSome DEF CounterInv

\* Steps after which no more threads are stamped and nothing more is counted.
LEMMA CounterIsQuiet ==
    ASSUME TypeInv, TypeInv', CounterInv, ReadIsOld',
           \A s \in States : Stamped(s)' = Stamped(s) /\ active'[s] <= active[s]
    PROVE  CounterInv'
<1> SUFFICES ASSUME NEW s \in States
             PROVE  active'[s] + Cardinality(Stamped(s)')
                       <= MaxConcurrent + Cardinality(Threads) - 1
  BY DEF CounterInv
<1>1. active[s] \in Nat /\ active'[s] \in Nat
  BY DEF TypeInv, TypeOK
<1> QED
  BY <1>1, Bounds, StampedIsFinite DEF CounterInv

\* Calls elsewhere leave the stamped threads alone.
LEMMA StampedIsQuiet ==
    ASSUME TypeInv, NEW t \in Threads, ThreadStep(t), ~Stamp(t), ~Increment(t)
    PROVE  \A s : Stamped(s)' = Stamped(s)
<1>1. call[t].pc # "stamped" /\ call'[t].pc # "stamped"
  BY OneMoves DEF ThreadStep, Moves
<1> QED
  BY <1>1, OthersStay DEF Stamped, SamePlace

LEMMA CounterStep == TypeInv /\ TypeInv' /\ CounterInv /\ [Next]_vars => CounterInv'
<1> SUFFICES ASSUME TypeInv, TypeInv', CounterInv, [Next]_vars PROVE CounterInv'
  OBVIOUS
<1>0. /\ active \in [States -> Nat] /\ worker \in ReleaseState
      /\ worker.pc = "read" => worker.state \in States
  BY MadeIsState DEF TypeInv, TypeOK, RefsOK
<1>1. ASSUME NEW t \in Threads, ThreadStep(t), ~Stamp(t), ~Increment(t) PROVE CounterInv'
  <2>1. worker' = worker
    BY <1>1 DEF ThreadStep, BeginCheck, CreateState, BeginLoop, StorePruned, RefuseConcurrency,
       PublishCounted, PublishFails
  <2>2. \/ active' = active
        \/ /\ CreateState(t)
           /\ active' = [active EXCEPT ![<<call[t].tenant, t>>] = 0]
    BY <1>1 DEF ThreadStep, BeginCheck, CreateState, BeginLoop, StorePruned, RefuseConcurrency,
       PublishCounted, PublishFails
  <2>3. \A s \in States : active'[s] <= active[s]
    BY <1>0, <2>2
  <2>4. CreateState(t) => worker.state # <<call[t].tenant, t>>
    BY DEF CreateState, TypeInv, RefsOK
  <2>5. ReadIsOld'
    BY <1>0, <2>1, <2>2, <2>4 DEF CounterInv, ReadIsOld
  <2> QED
    BY <1>1, <2>3, <2>5, StampedIsQuiet, CounterIsQuiet
<1>2. ASSUME NEW t \in Threads, Stamp(t) PROVE CounterInv'
  <2> DEFINE r == call[t].state
  <2>1. active' = active /\ worker' = worker /\ active[r] < MaxConcurrent
    BY <1>2 DEF Stamp, AppendNow
  <2>2. Moves(t, "rated", "stamped")
    BY <1>2, OneMoves DEF TypeInv
  <2>3. \A s : s # r => Stamped(s)' = Stamped(s)
    BY <1>2, <2>2, OthersStay DEF ThreadStep, Stamped, Moves, SamePlace
  <2>4. ASSUME NEW s \in States
        PROVE  active'[s] + Cardinality(Stamped(s)') <= MaxConcurrent + Cardinality(Threads) - 1
    <3>1. CASE s = r
      <4>1. Cardinality(Stamped(s)') \in Nat /\ Cardinality(Stamped(s)') <= Cardinality(Threads)
        <5>1. Stamped(s)' \subseteq Threads
          BY DEF Stamped
        <5> QED
          BY <5>1, TenantAssumption, FS_Subset, FS_CardinalityType
      <4>2. active'[s] \in Nat /\ active'[s] < MaxConcurrent
        BY <1>0, <2>1, <3>1
      <4> QED
        BY <4>1, <4>2, Bounds, ThreadsAreSome
    <3>2. CASE s # r
      BY <2>1, <2>3, <3>2 DEF CounterInv
    <3> QED
      BY <3>1, <3>2
  <2> QED
    BY <2>1, <2>4 DEF CounterInv, ReadIsOld
<1>3. ASSUME NEW t \in Threads, Increment(t) PROVE CounterInv'
  <2>1. PICK r \in States : r = call[t].state
    BY <1>3, MadeIsState DEF Increment, TypeInv, RefsOK
  <2>2. active' = [active EXCEPT ![r] = active[r] + 1] /\ worker' = worker
    BY <1>3, <2>1 DEF Increment
  <2>3. Moves(t, "stamped", "counted")
    BY <1>3, OneMoves DEF TypeInv
  <2>4. t \in Stamped(r) /\ Stamped(r)' = Stamped(r) \ {t}
    BY <1>3, <2>1, <2>3, OthersStay DEF ThreadStep, Stamped, Moves, SamePlace
  <2>5. \A s : s # r => Stamped(s)' = Stamped(s)
    BY <1>3, <2>1, <2>3, OthersStay DEF ThreadStep, Stamped, Moves, SamePlace
  <2>6. Cardinality(Stamped(r)') = Cardinality(Stamped(r)) - 1
    BY <2>4, StampedIsFinite, FS_RemoveElement
  <2>7. ReadIsOld'
    <3> SUFFICES ASSUME worker.pc = "read" PROVE worker.count <= active'[worker.state]
      BY <2>2 DEF ReadIsOld
    <3>1. worker.count <= active[worker.state] /\ worker.count \in Nat
      BY <1>0 DEF CounterInv, ReadIsOld, ReleaseState
    <3> QED
      BY <1>0, <2>1, <2>2, <3>1
  <2>8. ASSUME NEW s \in States
        PROVE  active'[s] + Cardinality(Stamped(s)') <= MaxConcurrent + Cardinality(Threads) - 1
    <3>1. CASE s = r
      <4>1. active[r] + Cardinality(Stamped(r)) <= MaxConcurrent + Cardinality(Threads) - 1
        BY <2>1 DEF CounterInv
      <4>2. active'[r] = active[r] + 1 /\ active[r] \in Nat
        BY <1>0, <2>1, <2>2
      <4>3. Cardinality(Stamped(r)) \in Nat /\ Cardinality(Threads) \in Nat /\ MaxConcurrent \in Nat
        BY StampedIsFinite, Bounds
      <4>4. active'[s] + Cardinality(Stamped(s)') = active[r] + 1 + (Cardinality(Stamped(r)) - 1)
        BY <2>6, <3>1, <4>2
      <4> QED
        BY <4>1, <4>2, <4>3, <4>4
    <3>2. CASE s # r
      <4>1. active'[s] = active[s]
        BY <1>0, <2>2, <3>2
      <4> QED
        BY <2>5, <3>2, <4>1 DEF CounterInv
    <3> QED
      BY <3>1, <3>2
  <2> QED
    BY <2>7, <2>8 DEF CounterInv
<1>4. CASE WorkerStep
  <2>1. call' = call
    BY <1>4 DEF WorkerStep, Finish, Die, ReadCount, Read, StoreCount
  <2>2. \A s : Stamped(s)' = Stamped(s)
    BY <2>1 DEF Stamped
  <2>3. ReadIsOld' /\ \A s \in States : active'[s] <= active[s]
    <3>1. CASE \E x \in Tenants : Finish(x)
      BY <1>0, <3>1 DEF Finish, NoRelease, ReadIsOld
    <3>2. CASE Die
      <4>1. worker'.pc = "dead" /\ active' = active
        BY <1>0, <3>2 DEF Die, ReleaseState
      <4> QED
        BY <1>0, <4>1 DEF ReadIsOld
    <3>3. CASE ReadCount
      <4> DEFINE s == state[worker.tenant]
                 n == IF active[s] = 0 THEN 0 ELSE active[s] - 1
      <4>1. worker' = [worker EXCEPT !.pc = "read", !.count = n, !.state = s] /\ active' = active
        BY <3>3 DEF ReadCount, Read
      <4>2. s \in States
        BY <3>3, MadeIsState DEF ReadCount, Read, TypeInv, RefsOK
      <4>3. n <= active[s]
        BY <1>0, <4>2
      <4>4. worker'.count = n /\ worker'.state = s
        BY <1>0, <4>1 DEF ReleaseState
      <4> HIDE DEF n, s
      <4> QED
        BY <1>0, <4>1, <4>3, <4>4 DEF ReadIsOld
    <3>4. CASE StoreCount
      <4>1. worker.count <= active[worker.state] /\ worker.state \in States
        BY <1>0, <3>4 DEF StoreCount, CounterInv, ReadIsOld
      <4>2. active' = [active EXCEPT ![worker.state] = worker.count] /\ worker'.pc # "read"
        BY <3>4 DEF StoreCount, NoRelease
      <4> QED
        BY <1>0, <4>1, <4>2 DEF ReadIsOld
    <3> QED
      BY <1>4, <3>1, <3>2, <3>3, <3>4 DEF WorkerStep
  <2> QED
    BY <2>2, <2>3, CounterIsQuiet
<1>5. CASE Tick
  <2>1. \A s : Stamped(s)' = Stamped(s)
    BY <1>5, TickAges DEF Stamped
  <2>2. active' = active /\ worker' = worker
    BY <1>5 DEF Tick
  <2> QED
    BY <1>0, <2>1, <2>2, CounterIsQuiet DEF CounterInv, ReadIsOld
<1>6. CASE UNCHANGED vars
  BY <1>6 DEF vars, CounterInv, ReadIsOld, Stamped
<1> QED
  BY <1>1, <1>2, <1>3, <1>4, <1>5, <1>6 DEF Next

\* Threads that pass the concurrency check together overshoot the cap by fewer
\* slots than there are threads, in every state that a tenant ever had, whatever
\* a release overwrites (tenant.py:126-157).
THEOREM OvershootIsBounded == Spec => []CounterOvershootIsBounded
<1>1. Spec => []CounterInv
  BY TypesStay, CounterInit, CounterStep, PTL DEF Spec
<1>2. TypeInv /\ CounterInv => CounterOvershootIsBounded
  <2> SUFFICES ASSUME TypeInv, CounterInv, NEW s \in States
               PROVE  active[s] <= MaxConcurrent + Cardinality(Threads) - 1
    BY DEF CounterOvershootIsBounded
  <2>1. active[s] \in Nat
    BY DEF TypeInv, TypeOK
  <2> QED
    BY <2>1, Bounds, StampedIsFinite DEF CounterInv
<1> QED
  BY <1>1, <1>2, TypesStay, PTL

-----------------------------------------------------------------------------
(* No slot is lost.                                                        *)

\* NoSlotIsLost, and what a release is about to store leaves out its own request,
\* which still holds the slot; if another state took the place of the one it
\* stores to, it is the new one that leaves it out.
GivenBack(x) ==
    /\ Active(x) <= Held(x)
    /\ worker.pc = "read" /\ worker.tenant = x =>
          IF worker.state = state[x] THEN worker.count + 1 <= Held(x)
          ELSE Active(x) + 1 <= Held(x)

HeldInv == \A x \in Tenants : GivenBack(x)

LEMMA MadeForOne ==
    ASSUME NEW s, NEW x, NEW y, MadeFor(s, x), MadeFor(s, y)
    PROVE  x = y
  BY DEF MadeFor

LEMMA HeldIsNatural ==
    ASSUME TypeInv, NEW x \in Tenants
    PROVE  /\ IsFiniteSet(Counted(x)) /\ Cardinality(Counted(x)) \in Nat
           /\ queued[x] \in Nat /\ unpublished[x] \in Nat /\ Released(x) \in {0, 1}
           /\ Held(x) \in Nat /\ Active(x) \in Nat
<1>1. IsFiniteSet(Threads) /\ Counted(x) \subseteq Threads
  BY TenantAssumption DEF Counted
<1>2. IsFiniteSet(Counted(x)) /\ Cardinality(Counted(x)) \in Nat
  BY <1>1, FS_Subset, FS_CardinalityType
<1>3. queued[x] \in Nat /\ unpublished[x] \in Nat /\ Released(x) \in {0, 1}
  BY DEF TypeInv, TypeOK, Released
<1>4. Active(x) \in Nat
  BY DEF TypeInv, TypeOK, Active
<1> QED
  BY <1>2, <1>3, <1>4 DEF Held

LEMMA HeldInit == Init => HeldInv
<1> SUFFICES ASSUME Init, NEW x \in Tenants PROVE GivenBack(x)
  BY DEF HeldInv
<1>1. Counted(x) = {} /\ Released(x) = 0 /\ queued[x] = 0 /\ unpublished[x] = 0
  BY DEF Init, Counted, Released, NoCall, NoRelease
<1>2. Cardinality(Counted(x)) = 0
  BY <1>1, FS_EmptySet
<1>3. Held(x) = 0
  BY <1>1, <1>2 DEF Held
<1>4. Active(x) = 0 /\ worker.pc = "idle"
  BY DEF Init, Active, NoRelease
<1> QED
  BY <1>3, <1>4 DEF GivenBack

\* Steps that give no slot and take none.
LEMMA HeldIsQuiet ==
    ASSUME NEW x, GivenBack(x), worker' = worker, state'[x] = state[x],
           Active(x)' = Active(x), Held(x)' = Held(x)
    PROVE  GivenBack(x)'
  BY DEF GivenBack

\* Calls elsewhere hold what they held.
LEMMA CountedIsQuiet ==
    ASSUME TypeInv, NEW t \in Threads, ThreadStep(t),
           ~Increment(t), ~PublishCounted(t), ~PublishFails(t)
    PROVE  \A x : Counted(x)' = Counted(x)
<1>1. call[t].pc # "counted" /\ call'[t].pc # "counted"
  BY OneMoves DEF ThreadStep, Moves
<1> QED
  BY <1>1, OthersStay DEF Counted, SamePlace

\* Only if the worker releases.
LEMMA HeldStep ==
    ASSUME WorkerReleases
    PROVE  TypeInv /\ TypeInv' /\ HeldInv /\ [Next]_vars => HeldInv'
<1> SUFFICES ASSUME TypeInv, TypeInv', [Next]_vars, NEW x \in Tenants, GivenBack(x)
             PROVE  GivenBack(x)'
  BY DEF HeldInv
<1>0. /\ state \in [Tenants -> States \cup {NoState}] /\ active \in [States -> Nat]
      /\ queued \in [Tenants -> Nat] /\ unpublished \in [Tenants -> Nat]
      /\ worker \in ReleaseState
      /\ state[x] # NoState => MadeFor(state[x], x) /\ state[x] \in States
  BY MadeIsState DEF TypeInv, TypeOK, RefsOK
<1>1. ASSUME NEW t \in Threads, ThreadStep(t), ~CreateState(t), ~Increment(t),
             ~PublishCounted(t), ~PublishFails(t)
      PROVE  GivenBack(x)'
  <2>1. UNCHANGED <<state, active, queued, unpublished, worker>>
    BY <1>1 DEF ThreadStep, BeginCheck, BeginLoop, StorePruned, RefuseConcurrency, Stamp, AppendNow
  <2>2. Counted(x)' = Counted(x)
    BY <1>1, CountedIsQuiet
  <2> QED
    BY <2>1, <2>2, HeldIsQuiet DEF Active, Held, Released
<1>2. ASSUME NEW t \in Threads, CreateState(t) PROVE GivenBack(x)'
  <2>1. PICK y \in Tenants : y = call[t].tenant
    BY <1>2 DEF CreateState, TypeInv, RefsOK
  <2> DEFINE s == <<y, t>>
  <2>2. /\ state' = [state EXCEPT ![y] = s] /\ active' = [active EXCEPT ![s] = 0]
        /\ UNCHANGED <<queued, unpublished, worker>> /\ call[t].pc = "creating"
    BY <1>2, <2>1 DEF CreateState
  <2>3. s \in States /\ s # NoState /\ MadeFor(s, y)
    BY StatesAreSome DEF States, MadeFor
  <2>4. ~Increment(t) /\ ~PublishCounted(t) /\ ~PublishFails(t)
    BY <2>2 DEF Increment, PublishCounted, PublishFails
  <2>5. Counted(x)' = Counted(x)
    BY <1>2, <2>4, CountedIsQuiet DEF ThreadStep
  <2>6. Held(x)' = Held(x)
    BY <2>2, <2>5 DEF Held, Released
  <2>7. worker.state # s
    BY <2>1, <2>2 DEF TypeInv, RefsOK
  <2> HIDE DEF s
  <2>8. CASE x = y
    <3>1. state'[x] = s /\ Active(x)' = 0
      BY <1>0, <2>2, <2>3, <2>8 DEF Active
    <3>2. worker.pc = "read" /\ worker.tenant = x => Released(x) = 1
      BY DEF Released
    <3>3. worker.pc = "read" /\ worker.tenant = x => 1 <= Held(x)
      BY <3>2, HeldIsNatural DEF Held
    <3>4. Held(x) \in Nat
      BY HeldIsNatural
    <3> QED
      BY <2>2, <2>6, <2>7, <3>1, <3>3, <3>4 DEF GivenBack
  <2>9. CASE x # y
    <3>1. state'[x] = state[x] /\ (state[x] # NoState => state[x] # s)
      BY <1>0, <2>2, <2>3, <2>9, MadeForOne
    <3>2. Active(x)' = Active(x)
      BY <1>0, <2>2, <3>1 DEF Active
    <3> QED
      BY <2>2, <2>6, <3>1, <3>2, HeldIsQuiet
  <2> QED
    BY <2>8, <2>9
<1>3. ASSUME NEW t \in Threads, Increment(t) PROVE GivenBack(x)'
  <2>1. PICK y \in Tenants, r \in States : y = call[t].tenant /\ r = call[t].state /\ MadeFor(r, y)
    BY <1>3, MadeIsState DEF Increment, TypeInv, RefsOK
  <2>2. /\ active' = [active EXCEPT ![r] = active[r] + 1]
        /\ UNCHANGED <<state, queued, unpublished, worker>>
    BY <1>3, <2>1 DEF Increment
  <2>3. Moves(t, "stamped", "counted")
    BY <1>3, OneMoves
  <2>4. Counted(x)' = IF x = y THEN Counted(x) \cup {t} ELSE Counted(x)
    BY <1>3, <2>1, <2>3, OthersStay DEF ThreadStep, Counted, Moves, SamePlace
  <2>5. t \notin Counted(x)
    BY <2>3 DEF Counted, Moves
  <2>6. Held(x)' = IF x = y THEN Held(x) + 1 ELSE Held(x)
    <3>1. Cardinality(Counted(x) \cup {t}) = Cardinality(Counted(x)) + 1
      BY <2>5, HeldIsNatural, FS_AddElement
    <3>2. Cardinality(Counted(x)') = Cardinality(Counted(x)) + (IF x = y THEN 1 ELSE 0)
      BY <2>4, <3>1, HeldIsNatural
    <3>3. Released(x)' = Released(x)
      BY <2>2 DEF Released
    <3> QED
      BY <2>2, <3>2, <3>3, HeldIsNatural DEF Held
  <2>7. Active(x)' <= Active(x) + 1 /\ (x # y => Active(x)' = Active(x))
    <3>1. x # y /\ state[x] # NoState => state[x] # r
      BY <1>0, <2>1, MadeForOne
    <3> QED
      BY <1>0, <2>2, <3>1 DEF Active
  <2>8. CASE x # y
    BY <2>2, <2>6, <2>7, <2>8, HeldIsQuiet
  <2>9. CASE x = y
    <3>1. Active(x)' \in Nat /\ Active(x) \in Nat /\ Held(x) \in Nat /\ Held(x)' = Held(x) + 1
      BY <1>0, <2>2, <2>6, <2>9, HeldIsNatural DEF Active
    <3>2. worker.count \in Nat
      BY <1>0 DEF ReleaseState
    <3> QED
      BY <2>2, <2>7, <3>1, <3>2 DEF GivenBack
  <2> QED
    BY <2>8, <2>9
<1>4. ASSUME NEW t \in Threads, PublishCounted(t) \/ PublishFails(t) PROVE GivenBack(x)'
  <2>1. PICK y \in Tenants : y = call[t].tenant
    BY <1>4 DEF PublishCounted, PublishFails, TypeInv, RefsOK
  <2>2. /\ UNCHANGED <<state, active, worker>>
        /\ queued'[x] + unpublished'[x]
              = queued[x] + unpublished[x] + (IF x = y THEN 1 ELSE 0)
    BY <1>0, <1>4, <2>1 DEF PublishCounted, PublishFails
  <2>3. call[t].pc = "counted" /\ call'[t].pc = "idle"
    BY <1>4, OneMoves
  <2>4. Counted(x)' = IF x = y THEN Counted(x) \ {t} ELSE Counted(x)
    BY <1>4, <2>1, <2>3, OthersStay DEF ThreadStep, Counted, SamePlace
  <2>5. x = y => t \in Counted(x)
    BY <2>1, <2>3 DEF Counted
  <2>6. Cardinality(Counted(x)') = Cardinality(Counted(x)) - (IF x = y THEN 1 ELSE 0)
    <3>1. IsFiniteSet(Counted(x)) /\ Cardinality(Counted(x)) \in Nat
      BY HeldIsNatural
    <3>2. x = y => Cardinality(Counted(x) \ {t}) = Cardinality(Counted(x)) - 1
      BY <2>5, <3>1, FS_RemoveElement
    <3> QED
      BY <2>4, <3>1, <3>2
  <2>7. queued'[x] \in Nat /\ unpublished'[x] \in Nat
    BY DEF TypeInv, TypeOK
  <2>8. Held(x)' = Held(x)
    <3>1. Released(x)' = Released(x)
      BY <2>2 DEF Released
    <3> QED
      BY <2>2, <2>6, <2>7, <3>1, HeldIsNatural DEF Held
  <2> QED
    BY <2>2, <2>8, HeldIsQuiet DEF Active
<1>5. ASSUME NEW y \in Tenants, Finish(y) PROVE GivenBack(x)'
  <2>1. /\ UNCHANGED <<state, active, unpublished, call>> /\ worker.pc = "idle"
        /\ queued[y] > 0 /\ queued' = [queued EXCEPT ![y] = queued[y] - 1]
        /\ worker'.pc = "finished" /\ worker'.tenant = y
    BY <1>5 DEF Finish, NoRelease
  <2>2. Released(x) = 0 /\ Released(x)' = IF x = y THEN 1 ELSE 0
    BY <2>1 DEF Released
  <2>3. Counted(x)' = Counted(x) /\ Active(x)' = Active(x)
    BY <2>1 DEF Counted, Active
  <2>4. queued'[x] = queued[x] - (IF x = y THEN 1 ELSE 0)
    BY <1>0, <2>1
  <2>5. Held(x)' = Held(x)
    BY <2>1, <2>2, <2>3, <2>4, HeldIsNatural DEF Held
  <2> QED
    BY <2>1, <2>3, <2>5 DEF GivenBack
<1>6. CASE Die
  <2>1. /\ UNCHANGED <<state, active, queued, unpublished, call>> /\ worker.pc = "idle"
        /\ worker'.pc = "dead"
    BY <1>0, <1>6 DEF Die, ReleaseState
  <2>2. Counted(x)' = Counted(x) /\ Active(x)' = Active(x) /\ Held(x)' = Held(x)
    BY <2>1 DEF Counted, Active, Held, Released
  <2> QED
    BY <2>1, <2>2 DEF GivenBack
<1>7. CASE ReadCount
  <2> DEFINE n == IF active[state[worker.tenant]] = 0 THEN 0
                  ELSE active[state[worker.tenant]] - 1
  <2>1. /\ UNCHANGED <<state, active, queued, unpublished, call>> /\ worker.pc = "finished"
        /\ worker' = [worker EXCEPT !.pc = "read", !.count = n, !.state = state[worker.tenant]]
    BY <1>7 DEF ReadCount, Read
  <2>2. worker'.pc = "read" /\ worker'.count = n /\ worker'.tenant = worker.tenant
        /\ worker'.state = state[worker.tenant]
    BY <1>0, <2>1 DEF ReleaseState
  <2>3. Counted(x)' = Counted(x) /\ Active(x)' = Active(x) /\ Released(x)' = Released(x)
    BY <2>1, <2>2 DEF Counted, Active, Released
  <2>4. Held(x)' = Held(x)
    BY <2>1, <2>3 DEF Held
  <2>5. ASSUME worker.tenant = x PROVE n + 1 <= Held(x)
    <3>1. state[x] # NoState /\ Released(x) = 1
      BY <2>1, <2>5 DEF Released, TypeInv, RefsOK
    <3>2. Active(x) = active[state[x]] /\ active[state[x]] \in Nat
      BY <1>0, <3>1 DEF Active
    <3>3. 1 <= Held(x)
      BY <3>1, HeldIsNatural DEF Held
    <3> QED
      BY <2>5, <3>2, <3>3, HeldIsNatural DEF GivenBack
  <2> HIDE DEF n
  <2> QED
    BY <2>1, <2>2, <2>3, <2>4, <2>5 DEF GivenBack
<1>8. CASE StoreCount
  <2>1. PICK y \in Tenants : y = worker.tenant /\ MadeFor(worker.state, y)
    BY <1>8 DEF StoreCount, TypeInv, RefsOK
  <2>2. /\ UNCHANGED <<state, queued, unpublished, call>> /\ worker.pc = "read"
        /\ active' = [active EXCEPT ![worker.state] = worker.count]
        /\ worker'.pc = "idle"
    BY <1>8 DEF StoreCount, NoRelease
  <2>3. Released(x) = (IF x = y THEN 1 ELSE 0) /\ Released(x)' = 0
    BY <2>1, <2>2 DEF Released
  <2>4. Held(x)' = Held(x) - (IF x = y THEN 1 ELSE 0)
    <3>1. Counted(x)' = Counted(x)
      BY <2>2 DEF Counted
    <3> QED
      BY <2>2, <2>3, <3>1, HeldIsNatural DEF Held
  <2>5. worker.count \in Nat
    BY <1>0 DEF ReleaseState
  <2>6. CASE x # y
    <3>1. state[x] # NoState => state[x] # worker.state
      BY <1>0, <2>1, <2>6, MadeForOne
    <3>2. Active(x)' = Active(x)
      BY <1>0, <2>2, <3>1 DEF Active
    <3>3. Held(x)' = Held(x)
      BY <2>4, <2>6, HeldIsNatural
    <3> QED
      BY <2>2, <3>2, <3>3 DEF GivenBack
  <2>7. CASE x = y /\ worker.state = state[x]
    <3>1. state[x] # NoState
      BY <2>1, <2>2, <2>7 DEF TypeInv, RefsOK
    <3>2. Active(x)' = worker.count
      BY <1>0, <2>2, <2>7, <3>1 DEF Active
    <3>3. worker.count + 1 <= Held(x) /\ Held(x)' = Held(x) - 1
      BY <2>1, <2>2, <2>4, <2>7 DEF GivenBack
    <3> QED
      BY <2>2, <2>5, <3>2, <3>3, HeldIsNatural DEF GivenBack
  <2>8. CASE x = y /\ worker.state # state[x]
    <3>1. Active(x)' = Active(x)
      BY <1>0, <2>2, <2>8 DEF Active
    <3>2. Active(x) + 1 <= Held(x) /\ Held(x)' = Held(x) - 1
      BY <2>1, <2>2, <2>4, <2>8 DEF GivenBack
    <3> QED
      BY <2>2, <3>1, <3>2, HeldIsNatural DEF GivenBack
  <2> QED
    BY <2>6, <2>7, <2>8
<1>9. CASE Tick
  <2>1. UNCHANGED <<state, active, queued, unpublished, worker>>
    BY <1>9 DEF Tick
  <2>2. Counted(x)' = Counted(x)
    BY <1>9, TickAges DEF Counted
  <2> QED
    BY <2>1, <2>2, HeldIsQuiet DEF Active, Held, Released
<1>10. CASE UNCHANGED vars
  <2>1. UNCHANGED <<state, active, queued, unpublished, worker, call>>
    BY <1>10 DEF vars
  <2> QED
    BY <2>1, HeldIsQuiet DEF Active, Held, Released, Counted
<1> QED
  BY <1>1, <1>2, <1>3, <1>4, <1>5, <1>6, <1>7, <1>8, <1>9, <1>10 DEF Next, WorkerStep

\* If the worker releases, no tenant is ever charged for more slots than its
\* requests under way hold: overwritten increments, releases to a state that
\* another one replaced and failed publishes cost it none besides
\* (tenant.py:100,143-157, demo.py:109-112).
THEOREM SlotsAreGivenBack ==
    ASSUME WorkerReleases
    PROVE  Spec => []NoSlotIsLost
<1>1. TypeInv /\ TypeInv' /\ HeldInv /\ [Next]_vars => HeldInv'
  BY HeldStep
<1>2. Spec => []HeldInv
  BY <1>1, TypesStay, HeldInit, PTL DEF Spec
<1>3. HeldInv => NoSlotIsLost
  BY DEF HeldInv, GivenBack, NoSlotIsLost
<1> QED
  BY <1>2, <1>3, PTL

-----------------------------------------------------------------------------
(* The rate.                                                               *)

\* The list the next check of a tenant will find, and the threads that found it
\* short enough and have not appended to it.
Current(x) == IF state[x] = NoState THEN NoMoments ELSE timestamps[state[x]]
Rated(x) == {t \in Threads : call[t].pc = "rated" /\ call[t].state = state[x]}

\* An admission younger than b is in the tenant's list or lost, and in the list
\* any thread is about to store, behind its back or lost.  So a thread that finds
\* the list short enough finds the rate kept but for what is lost, and the other
\* threads that do can each exceed it once.
RateOK(x, b) ==
    /\ admissions[x][b] <= Current(x)[b] + lost[x][b]
    /\ \A t \in Threads :
          call[t].pc = "pruning" /\ call[t].state = state[x] =>
             admissions[x][b] <= call[t].pruned[b] + call[t].missed[b] + lost[x][b]
    /\ admissions[x][b] + Cardinality(Rated(x))
          <= MaxPerMinute + Cardinality(Threads) - 1 + lost[x][b]

RateInv == \A x \in Tenants, b \in 0..Window : RateOK(x, b)

LEMMA RatedIsFinite ==
    ASSUME NEW x
    PROVE  IsFiniteSet(Rated(x)) /\ Cardinality(Rated(x)) \in 0..Cardinality(Threads)
<1>1. IsFiniteSet(Threads) /\ Rated(x) \subseteq Threads
  BY TenantAssumption DEF Rated
<1> QED
  BY <1>1, FS_Subset, FS_CardinalityType

\* The same of the state after a step.
LEMMA RatedStaysFinite ==
    ASSUME NEW x
    PROVE  IsFiniteSet(Rated(x)') /\ Cardinality(Rated(x)') \in 0..Cardinality(Threads)
<1>1. IsFiniteSet(Threads) /\ Rated(x)' \subseteq Threads
  BY TenantAssumption DEF Rated
<1> QED
  BY <1>1, FS_Subset, FS_CardinalityType

LEMMA RateNaturals ==
    ASSUME TypeInv, NEW x \in Tenants, NEW b \in 0..Window
    PROVE  /\ admissions[x] \in Moments /\ lost[x] \in Moments /\ Current(x) \in Moments
           /\ b \in 0..Horizon
           /\ admissions[x][b] \in Nat /\ lost[x][b] \in Nat /\ Current(x)[b] \in Nat
           /\ \A t \in Threads : call[t].pruned[b] \in Nat /\ call[t].missed[b] \in Nat
<1>1. /\ admissions[x] \in Moments /\ lost[x] \in Moments /\ Current(x) \in Moments
      /\ \A t \in Threads : call[t].pruned \in Moments /\ call[t].missed \in Moments
  BY Types, NoMomentsTyped DEF TypeInv, Current
<1>2. b \in 0..Horizon
  BY Bounds
<1> QED
  BY <1>1, <1>2, MomentIsMonotone

LEMMA RateInit == Init => RateInv
<1> SUFFICES ASSUME Init, NEW x \in Tenants, NEW b \in 0..Window PROVE RateOK(x, b)
  BY DEF RateInv
<1>1. TypeInv
  BY TypeInit
<1>2. admissions[x][b] = 0 /\ Rated(x) = {} /\ \A t \in Threads : call[t].pc = "idle"
  BY <1>1, RateNaturals DEF Init, NoMoments, NoCall, Rated
<1>3. Cardinality(Rated(x)) = 0
  BY <1>2, FS_EmptySet
<1>4. Current(x)[b] \in Nat /\ lost[x][b] \in Nat
  BY <1>1, RateNaturals
<1>5. MaxPerMinute \in Nat
  BY Bounds
<1> QED
  BY <1>2, <1>3, <1>4, <1>5, ThreadsAreSome DEF RateOK

\* Steps that admit no request of the tenant, take nothing from its list and let
\* no thread pass.
LEMMA RateIsQuiet ==
    ASSUME TypeInv, NEW x \in Tenants, NEW b \in 0..Window, RateOK(x, b),
           admissions'[x][b] = admissions[x][b], lost'[x][b] = lost[x][b],
           state'[x] = state[x], Current(x)' = Current(x),
           Rated(x)' \subseteq Rated(x),
           \A t \in Threads :
              call'[t].pc = "pruning" /\ call'[t].state = state[x] =>
                 \/ /\ call[t].pc = "pruning" /\ call[t].state = state[x]
                    /\ call'[t].pruned = call[t].pruned /\ call'[t].missed = call[t].missed
                 \/ call'[t].pruned = Current(x) /\ call'[t].missed[b] \in Nat
    PROVE  RateOK(x, b)'
<1> USE RateNaturals
<1>1. admissions'[x][b] <= Current(x)'[b] + lost'[x][b]
  BY DEF RateOK
<1>2. ASSUME NEW t \in Threads, call'[t].pc = "pruning", call'[t].state = state[x]
      PROVE  admissions'[x][b] <= call'[t].pruned[b] + call'[t].missed[b] + lost'[x][b]
  <2>1. CASE /\ call[t].pc = "pruning" /\ call[t].state = state[x]
             /\ call'[t].pruned = call[t].pruned /\ call'[t].missed = call[t].missed
    BY <2>1 DEF RateOK
  <2>2. CASE call'[t].pruned = Current(x) /\ call'[t].missed[b] \in Nat
    <3>1. /\ admissions[x][b] <= Current(x)[b] + lost[x][b]
          /\ {admissions[x][b], Current(x)[b], lost[x][b]} \subseteq Nat
      BY DEF RateOK
    <3>2. Current(x)[b] + lost[x][b] <= Current(x)[b] + call'[t].missed[b] + lost[x][b]
      BY <2>2, <3>1
    <3>3. call'[t].pruned[b] = Current(x)[b]
      BY <2>2
    <3> QED
      BY <2>2, <3>1, <3>2, <3>3
  <2> QED
    BY <1>2, <2>1, <2>2
<1>3. Cardinality(Rated(x)') <= Cardinality(Rated(x))
  BY RatedIsFinite, FS_Subset
<1>4. Cardinality(Rated(x)) \in Nat /\ Cardinality(Rated(x)') \in Nat
  BY RatedIsFinite, RatedStaysFinite
<1>5. admissions'[x][b] + Cardinality(Rated(x)')
         <= MaxPerMinute + Cardinality(Threads) - 1 + lost'[x][b]
  <2>1. admissions[x][b] + Cardinality(Rated(x))
           <= MaxPerMinute + Cardinality(Threads) - 1 + lost[x][b]
    BY DEF RateOK
  <2>2. MaxPerMinute \in Nat /\ Cardinality(Threads) \in Nat
    BY Bounds, ThreadsAreSome
  <2> QED
    BY <1>3, <1>4, <2>1, <2>2
<1> QED
  BY <1>1, <1>2, <1>5 DEF RateOK

\* A first check replaces the tenant's state by its own: nobody refers to the new
\* one yet, and what the old one kept is lost.
LEMMA RateCreateState ==
    ASSUME TypeInv, NEW t \in Threads, CreateState(t), NEW x \in Tenants, NEW b \in 0..Window,
           RateOK(x, b)
    PROVE  RateOK(x, b)'
<1> USE Types, RateNaturals DEF TypeInv
<1>1. PICK y \in Tenants, s \in States :
         /\ y = call[t].tenant /\ s = <<y, t>> /\ s # NoState
         /\ \A z \in Tenants : state[z] # s
         /\ \A u \in Threads : call[u].state # s
  BY StatesAreSome, ZenonT(60) DEF CreateState, States, RefsOK
<1>2. /\ state' = [state EXCEPT ![y] = s]
      /\ timestamps' = [timestamps EXCEPT ![s] = NoMoments]
      /\ \A u \in Threads : u # t => call'[u] = call[u]
      /\ lost' = [lost EXCEPT ![y] = IF state[y] = NoState THEN lost[y]
                                     ELSE Together(lost[y], timestamps[state[y]])]
      /\ admissions' = admissions
  BY <1>1 DEF CreateState
<1>3. call[t].pc = "creating" /\ call'[t].pc = "started"
  BY OneMoves
<1>4. CASE x = y
  <2>1. lost'[x][b] = lost[x][b] + Current(x)[b]
    <3>1. CASE state[x] = NoState
      <4>1. Current(x)[b] = 0
        BY <3>1 DEF Current, NoMoments
      <4> QED
        BY <1>2, <1>4, <3>1, <4>1
    <3>2. CASE state[x] # NoState
      <4>1. Current(x) = timestamps[state[x]] /\ lost'[x] = Together(lost[x], Current(x))
        BY <1>2, <1>4, <3>2 DEF Current
      <4> QED
        BY <4>1, TogetherTyped
    <3> QED
      BY <3>1, <3>2
  <2>2. state'[x] = s /\ Current(x)' = NoMoments
    BY <1>1, <1>2, <1>4 DEF Current
  <2>3. Current(x)'[b] = 0
    BY <2>2 DEF NoMoments
  <2>4. Rated(x)' = {}
    BY <1>1, <1>2, <1>3, <2>2 DEF Rated
  <2>5. Cardinality(Rated(x)') = 0
    BY <2>4, FS_EmptySet
  <2>6. admissions'[x][b] <= lost'[x][b]
    BY <1>2, <2>1 DEF RateOK
  <2>7. \A u \in Threads : ~(call'[u].pc = "pruning" /\ call'[u].state = state'[x])
    BY <1>1, <1>2, <1>3, <2>2
  <2>8. admissions'[x][b] \in Nat /\ lost'[x][b] \in Nat /\ MaxPerMinute \in Nat
    BY <1>2, <2>1, Bounds
  <2>9. /\ admissions'[x][b] <= Current(x)'[b] + lost'[x][b]
        /\ admissions'[x][b] + Cardinality(Rated(x)')
              <= MaxPerMinute + Cardinality(Threads) - 1 + lost'[x][b]
    BY ONLY <2>3, <2>5, <2>6, <2>8, ThreadsAreSome
  <2> QED
    BY <2>7, <2>9 DEF RateOK
<1>5. CASE x # y
  <2>1. state'[x] = state[x] /\ lost'[x] = lost[x] /\ admissions'[x] = admissions[x]
    BY <1>2, <1>5
  <2>2. Current(x)' = Current(x)
    BY <1>1, <1>2, <2>1 DEF Current
  <2>3. Rated(x)' \subseteq Rated(x)
    BY <1>2, <1>3, <2>1 DEF Rated
  <2>4. \A u \in Threads : call'[u].pc = "pruning" => call'[u] = call[u]
    BY <1>2, <1>3
  <2> QED
    BY <2>1, <2>2, <2>3, <2>4, RateIsQuiet, SMTT(30)
<1> QED
  BY <1>4, <1>5

\* A pruned list is stored: what was appended behind its back is lost from now on,
\* and the thread passes only if it is short enough.
LEMMA RateStorePruned ==
    ASSUME TypeInv, NEW t \in Threads, StorePruned(t), NEW x \in Tenants, NEW b \in 0..Window,
           RateOK(x, b)
    PROVE  RateOK(x, b)'
<1> USE Types, RateNaturals DEF TypeInv
<1>1. PICK y \in Tenants, s \in States :
         y = call[t].tenant /\ s = call[t].state /\ MadeFor(s, y)
  BY MadeIsState DEF StorePruned, RefsOK
<1> DEFINE kept == WithinWindow(call[t].pruned, call[t].age)
<1>2. /\ call[t].pc = "pruning"
      /\ timestamps' = [timestamps EXCEPT ![s] = kept]
      /\ Count(kept) >= MaxPerMinute => call'[t] = NoCall
      /\ lost' = IF state[y] = s THEN [lost EXCEPT ![y] = Together(lost[y], call[t].missed)]
                 ELSE lost
      /\ UNCHANGED <<state, admissions>>
  BY <1>1 DEF StorePruned
<1>3. kept \in Moments /\ kept[b] = call[t].pruned[b] /\ kept[b] \in Nat
      /\ kept[b] <= Count(kept) /\ Count(kept) \in Nat
  <2>1. kept \in Moments /\ kept[b] = call[t].pruned[b]
    BY WithinWindowTyped
  <2> HIDE DEF kept
  <2>2. b <= Horizon /\ b \in 0..Horizon /\ Horizon \in 0..Horizon
    BY Bounds
  <2> QED
    BY <2>1, <2>2, MomentIsMonotone DEF Count
<1> HIDE DEF kept
<1>4. ASSUME NEW u \in Threads, u # t
      PROVE  /\ SamePlace(u)
             /\ call'[u].pruned = call[u].pruned /\ call'[u].missed = call[u].missed
  <2>1. SamePlace(u)
    BY <1>4, OthersStay DEF ThreadStep
  <2> DEFINE l == call[u].live /\ call[u].state # call[t].state
  <2>2. call'[u] = [call[u] EXCEPT !.live = l]
    BY <1>4 DEF StorePruned
  <2>3. call[u] \in CallState
    OBVIOUS
  <2> HIDE DEF l
  <2>4. call'[u].pruned = call[u].pruned /\ call'[u].missed = call[u].missed
    BY <2>2, <2>3 DEF CallState
  <2> QED
    BY <2>1, <2>4
<1>5. call'[t].pc = "idle" \/ Moves(t, "pruning", "rated")
  BY OneMoves
<1>6. /\ Cardinality(Rated(x)) \in Nat /\ Cardinality(Rated(x)') \in Nat
      /\ Cardinality(Rated(x)') <= Cardinality(Threads) /\ Cardinality(Threads) \in Nat
      /\ MaxPerMinute \in Nat
  BY RatedIsFinite, RatedStaysFinite, ThreadsAreSome, Bounds
<1>7. CASE x = y /\ state[x] = s
  <2>1. lost'[x][b] = lost[x][b] + call[t].missed[b]
    <3>1. lost'[x] = Together(lost[x], call[t].missed)
      BY <1>2, <1>7
    <3> QED
      BY <3>1, TogetherTyped
  <2>2. Current(x)' = kept
    BY <1>2, <1>7, StatesAreSome DEF Current
  <2>3. admissions'[x][b] <= kept[b] + lost'[x][b]
    <3>1. admissions[x][b] <= call[t].pruned[b] + call[t].missed[b] + lost[x][b]
      BY <1>1, <1>2, <1>7 DEF RateOK
    <3> QED
      BY <1>2, <1>3, <2>1, <3>1
  <2>4. ASSUME NEW u \in Threads, call'[u].pc = "pruning", call'[u].state = state'[x]
        PROVE  admissions'[x][b] <= call'[u].pruned[b] + call'[u].missed[b] + lost'[x][b]
    <3>1. u # t
      BY <1>5, <2>4 DEF Moves
    <3>2. admissions[x][b] <= call[u].pruned[b] + call[u].missed[b] + lost[x][b]
      BY <1>2, <1>4, <2>4, <3>1 DEF RateOK, SamePlace
    <3> QED
      BY <1>2, <1>4, <2>1, <3>1, <3>2
  <2>5. admissions'[x][b] + Cardinality(Rated(x)')
           <= MaxPerMinute + Cardinality(Threads) - 1 + lost'[x][b]
    <3>1. CASE Count(kept) >= MaxPerMinute
      <4>1. call'[t].pc = "idle"
        BY <1>2, <3>1 DEF NoCall
      <4>2. Rated(x)' \subseteq Rated(x)
        BY <1>2, <1>4, <4>1 DEF Rated, SamePlace
      <4>3. Cardinality(Rated(x)') <= Cardinality(Rated(x))
        BY <4>2, RatedIsFinite, FS_Subset
      <4>4. admissions[x][b] + Cardinality(Rated(x))
               <= MaxPerMinute + Cardinality(Threads) - 1 + lost[x][b]
        BY DEF RateOK
      <4>5. admissions'[x][b] = admissions[x][b] /\ lost[x][b] <= lost'[x][b]
            /\ lost'[x][b] \in Nat
        BY <1>2, <2>1
      <4> QED
        BY <1>6, <4>3, <4>4, <4>5
    <3>2. CASE ~(Count(kept) >= MaxPerMinute)
      <4>1. kept[b] <= MaxPerMinute - 1
        BY <1>3, <1>6, <3>2
      <4>2. admissions'[x][b] \in Nat /\ lost'[x][b] \in Nat
        BY <1>2, <2>1
      <4> QED
        BY <1>3, <1>6, <2>3, <4>1, <4>2
    <3> QED
      BY <3>1, <3>2
  <2> QED
    BY <2>2, <2>3, <2>4, <2>5 DEF RateOK
<1>8. CASE ~(x = y /\ state[x] = s)
  <2>1. state[x] # s
    BY <1>1, <1>8, StatesAreSome, MadeForOne DEF RefsOK
  <2>2. lost'[x] = lost[x]
    BY <1>2, <1>8
  <2>3. Current(x)' = Current(x)
    BY <1>2, <2>1 DEF Current
  <2>4. Rated(x)' \subseteq Rated(x)
    BY <1>1, <1>2, <1>4, <1>5, <2>1 DEF Rated, SamePlace, Moves
  <2>5. call'[t].pc # "pruning"
    BY <1>5 DEF Moves
  <2> QED
    BY <1>2, <1>4, <2>2, <2>3, <2>4, <2>5, RateIsQuiet, SMTT(30) DEF SamePlace
<1> QED
  BY <1>7, <1>8

\* A request is admitted: every list that matters gets its timestamp, or it is lost.
LEMMA RateStamp ==
    ASSUME TypeInv, NEW t \in Threads, Stamp(t), NEW x \in Tenants, NEW b \in 0..Window,
           RateOK(x, b)
    PROVE  RateOK(x, b)'
<1> USE Types, RateNaturals DEF TypeInv
<1>1. PICK y \in Tenants, s \in States, now \in Nat :
         y = call[t].tenant /\ s = call[t].state /\ now = call[t].age /\ MadeFor(s, y)
  BY MadeIsState DEF Stamp, RefsOK
<1>2. /\ timestamps' = [timestamps EXCEPT ![s] = Added(timestamps[s], now)]
      /\ \A u \in Threads : u # t =>
            IF call[u].pc # "pruning" \/ call[u].state # s THEN call'[u] = call[u]
            ELSE IF call[u].live THEN call'[u] = [call[u] EXCEPT !.pruned = Added(@, now)]
            ELSE call'[u] = [call[u] EXCEPT !.missed = Added(@, now)]
      /\ admissions' = [admissions EXCEPT ![y] = Added(admissions[y], now)]
      /\ lost' = IF state[y] = s THEN lost ELSE [lost EXCEPT ![y] = Added(lost[y], now)]
      /\ state' = state
  BY <1>1 DEF Stamp, AppendNow
<1>3. Moves(t, "rated", "stamped")
  BY OneMoves
<1> DEFINE one == IF now < b THEN 1 ELSE 0
<1>4. ASSUME NEW m \in Moments PROVE Added(m, now)[b] = m[b] + one
  <2>1. Added(m, now)[b] = (IF now < b THEN m[b] + 1 ELSE m[b]) /\ m[b] \in Nat
    BY AddedTyped, MomentIsMonotone
  <2> QED
    BY <2>1
<1>5. one \in {0, 1}
  OBVIOUS
<1> HIDE DEF one
<1>6. ASSUME NEW u \in Threads, u # t
      PROVE  /\ SamePlace(u)
             /\ call[u].pc # "pruning" \/ call[u].state # s => call'[u] = call[u]
             /\ call[u].pc = "pruning" /\ call[u].state = s =>
                   call'[u].pruned[b] + call'[u].missed[b]
                      = call[u].pruned[b] + call[u].missed[b] + one
  <2>1. SamePlace(u)
    BY <1>6, OthersStay DEF ThreadStep
  <2>2. ASSUME call[u].pc = "pruning", call[u].state = s
        PROVE  call'[u].pruned[b] + call'[u].missed[b]
                  = call[u].pruned[b] + call[u].missed[b] + one
    <3>0. call[u] \in CallState
      OBVIOUS
    <3>1. CASE call[u].live
      <4>1. call'[u] = [call[u] EXCEPT !.pruned = Added(call[u].pruned, now)]
        BY <1>2, <1>6, <2>2, <3>1
      <4>2. call'[u].pruned = Added(call[u].pruned, now) /\ call'[u].missed = call[u].missed
        BY <3>0, <4>1 DEF CallState
      <4>3. call'[u].pruned[b] = call[u].pruned[b] + one
        BY <1>4, <4>2
      <4>4. call[u].pruned[b] \in Nat /\ call[u].missed[b] \in Nat
        BY RateNaturals
      <4> QED
        BY ONLY <1>5, <4>2, <4>3, <4>4
    <3>2. CASE ~call[u].live
      <4>1. call'[u] = [call[u] EXCEPT !.missed = Added(call[u].missed, now)]
        BY <1>2, <1>6, <2>2, <3>2
      <4>2. call'[u].missed = Added(call[u].missed, now) /\ call'[u].pruned = call[u].pruned
        BY <3>0, <4>1 DEF CallState
      <4>3. call'[u].missed[b] = call[u].missed[b] + one
        BY <1>4, <4>2
      <4>4. call[u].pruned[b] \in Nat /\ call[u].missed[b] \in Nat
        BY RateNaturals
      <4> QED
        BY ONLY <1>5, <4>2, <4>3, <4>4
    <3> QED
      BY <3>1, <3>2
  <2> QED
    BY <1>2, <1>6, <2>1, <2>2
<1>7. /\ Cardinality(Rated(x)) \in Nat /\ Cardinality(Threads) \in Nat /\ MaxPerMinute \in Nat
  BY RatedIsFinite, ThreadsAreSome, Bounds
<1>8. CASE x = y /\ state[x] = s
  <2>1. /\ admissions'[x][b] = admissions[x][b] + one /\ lost'[x] = lost[x]
        /\ Current(x)'[b] = Current(x)[b] + one
    <3>1. admissions'[x] = Added(admissions[x], now) /\ lost'[x] = lost[x]
      BY <1>2, <1>8
    <3>2. Current(x) = timestamps[s] /\ Current(x)' = Added(timestamps[s], now)
      BY <1>2, <1>8, StatesAreSome DEF Current
    <3> QED
      BY <1>4, <3>1, <3>2
  <2>2. Rated(x)' = Rated(x) \ {t} /\ t \in Rated(x)
    BY <1>1, <1>2, <1>3, <1>6, <1>8 DEF Rated, Moves, SamePlace
  <2>3. Cardinality(Rated(x)') = Cardinality(Rated(x)) - 1
    BY <2>2, RatedIsFinite, FS_RemoveElement
  <2>4. ASSUME NEW u \in Threads, call'[u].pc = "pruning", call'[u].state = state'[x]
        PROVE  admissions'[x][b] <= call'[u].pruned[b] + call'[u].missed[b] + lost'[x][b]
    <3>1. u # t
      BY <1>3, <2>4 DEF Moves
    <3>2. call[u].pc = "pruning" /\ call[u].state = s /\ call[u].state = state[x]
      BY <1>2, <1>6, <1>8, <2>4, <3>1 DEF SamePlace
    <3>3. admissions[x][b] <= call[u].pruned[b] + call[u].missed[b] + lost[x][b]
      BY <3>2 DEF RateOK
    <3>4. call'[u].pruned[b] + call'[u].missed[b] = call[u].pruned[b] + call[u].missed[b] + one
      BY <1>6, <3>1, <3>2
    <3> QED
      BY <1>5, <2>1, <3>3, <3>4
  <2>5. admissions'[x][b] <= Current(x)'[b] + lost'[x][b]
    BY <1>5, <2>1 DEF RateOK
  <2>6. admissions'[x][b] + Cardinality(Rated(x)')
           <= MaxPerMinute + Cardinality(Threads) - 1 + lost'[x][b]
    BY <1>5, <1>7, <2>1, <2>3 DEF RateOK
  <2> QED
    BY <2>4, <2>5, <2>6 DEF RateOK
<1>9. CASE ~(x = y /\ state[x] = s)
  <2> DEFINE more == IF x = y THEN one ELSE 0
  <2>0. more \in {0, 1}
    BY <1>5
  <2>1. state[x] # s
    BY <1>1, <1>9, StatesAreSome, MadeForOne DEF RefsOK
  <2>2. admissions'[x][b] = admissions[x][b] + more /\ lost'[x][b] = lost[x][b] + more
    BY <1>2, <1>4, <1>9
  <2>3. Current(x)' = Current(x)
    BY <1>2, <2>1 DEF Current
  <2>4. Rated(x)' = Rated(x)
    BY <1>1, <1>2, <1>3, <1>6, <2>1 DEF Rated, Moves, SamePlace
  <2> HIDE DEF more
  <2>5. ASSUME NEW u \in Threads, call'[u].pc = "pruning", call'[u].state = state'[x]
        PROVE  admissions'[x][b] <= call'[u].pruned[b] + call'[u].missed[b] + lost'[x][b]
    <3>1. u # t
      BY <1>3, <2>5 DEF Moves
    <3>2. call'[u] = call[u] /\ call[u].pc = "pruning" /\ call[u].state = state[x]
      BY <1>2, <1>6, <2>1, <2>5, <3>1 DEF SamePlace
    <3>3. admissions[x][b] <= call[u].pruned[b] + call[u].missed[b] + lost[x][b]
      BY <3>2 DEF RateOK
    <3> QED
      BY <2>0, <2>2, <3>2, <3>3
  <2>6. admissions'[x][b] <= Current(x)'[b] + lost'[x][b]
    BY <2>0, <2>2, <2>3 DEF RateOK
  <2>7. admissions'[x][b] + Cardinality(Rated(x)')
           <= MaxPerMinute + Cardinality(Threads) - 1 + lost'[x][b]
    BY <1>7, <2>0, <2>2, <2>4 DEF RateOK
  <2> QED
    BY <2>5, <2>6, <2>7 DEF RateOK
<1> QED
  BY <1>8, <1>9

\* Time passes: what was younger than a is younger than a + 1.
LEMMA RateTick ==
    ASSUME TypeInv, Tick, NEW x \in Tenants, \A a \in 0..Window : RateOK(x, a),
           NEW b \in 0..Window
    PROVE  RateOK(x, b)'
<1> USE Types DEF TypeInv
<1>1. /\ state' = state
      /\ timestamps' = [s \in States |-> Older(timestamps[s])]
      /\ admissions'[x] = WithinWindow(Older(admissions[x]), 0)
      /\ lost'[x] = WithinWindow(Older(lost[x]), 0)
  BY DEF Tick
<1>2. /\ admissions[x] \in Moments /\ lost[x] \in Moments /\ Current(x) \in Moments
      /\ b \in 0..Horizon
  BY RateNaturals
<1>3. admissions'[x][b] = Older(admissions[x])[b] /\ lost'[x][b] = Older(lost[x])[b]
  <2>1. 0 \in 0..MaxCallAge
    BY Bounds
  <2> QED
    BY <1>1, <1>2, <2>1, OlderTyped, WithinWindowTyped
<1>4. Current(x)'[b] = Older(Current(x))[b]
  <2>1. CASE state[x] = NoState
    <3>1. Current(x) = NoMoments /\ Current(x)' = NoMoments
      BY <1>1, <2>1 DEF Current
    <3>2. NoMoments[b] = 0 /\ Older(NoMoments)[b] = 0
      BY <1>2, Bounds DEF NoMoments, Older
    <3> QED
      BY <3>1, <3>2
  <2>2. CASE state[x] # NoState
    BY <1>1, <2>2 DEF Current
  <2> QED
    BY <2>1, <2>2
<1>5. Rated(x)' = Rated(x)
  BY <1>1, TickAges DEF Rated
<1>6. ASSUME NEW u \in Threads, call'[u].pc = "pruning"
      PROVE  /\ call[u].pc = "pruning" /\ call'[u].state = call[u].state
             /\ call'[u].pruned[b] = Older(call[u].pruned)[b]
             /\ call'[u].missed[b] = Older(call[u].missed)[b]
  BY <1>6, TickAges
<1>7. /\ Cardinality(Rated(x)) \in 0..Cardinality(Threads) /\ Cardinality(Threads) \in Nat
      /\ MaxPerMinute \in Nat \ {0}
  BY RatedIsFinite, ThreadsAreSome, Bounds
<1>8. CASE b = 0
  <2>1. \A m \in Moments : Older(m)[b] = 0
    BY <1>8, OlderTyped
  <2>2. admissions'[x][b] = 0 /\ lost'[x][b] = 0 /\ Current(x)'[b] = 0
    BY <1>2, <1>3, <1>4, <2>1
  <2>3. \A u \in Threads : call'[u].pc = "pruning" =>
           call'[u].pruned[b] = 0 /\ call'[u].missed[b] = 0
    BY <1>6, <2>1
  <2> QED
    BY <1>5, <1>7, <2>2, <2>3 DEF RateOK
<1>9. CASE b # 0
  <2> DEFINE a == b - 1
  <2>1. a \in 0..Window
    BY <1>9, Bounds
  <2>2. \A m \in Moments : Older(m)[b] = m[a]
    BY <1>2, <1>9, OlderTyped
  <2> HIDE DEF a
  <2>3. admissions'[x][b] = admissions[x][a] /\ lost'[x][b] = lost[x][a]
        /\ Current(x)'[b] = Current(x)[a]
    BY <1>2, <1>3, <1>4, <2>2
  <2>4. \A u \in Threads : call'[u].pc = "pruning" =>
           call'[u].pruned[b] = call[u].pruned[a] /\ call'[u].missed[b] = call[u].missed[a]
    BY <1>6, <2>2
  <2> QED
    BY <1>1, <1>5, <1>6, <2>1, <2>3, <2>4 DEF RateOK
<1> QED
  BY <1>8, <1>9

LEMMA RateStep == TypeInv /\ TypeInv' /\ RateInv /\ [Next]_vars => RateInv'
<1> SUFFICES ASSUME TypeInv, TypeInv', RateInv, [Next]_vars, NEW x \in Tenants, NEW b \in 0..Window
             PROVE  RateOK(x, b)'
  BY DEF RateInv
<1>0. /\ RateOK(x, b) /\ \A a \in 0..Window : RateOK(x, a)
  BY DEF RateInv
<1>1. ASSUME NEW t \in Threads,
             \/ BeginCheck(t) \/ BeginLoop(t) \/ RefuseConcurrency(t) \/ Increment(t)
             \/ PublishCounted(t) \/ PublishFails(t)
      PROVE  RateOK(x, b)'
  <2>1. UNCHANGED <<state, timestamps, admissions, lost>> /\ Current(x)' = Current(x)
    BY <1>1 DEF BeginCheck, BeginLoop, RefuseConcurrency, Increment, PublishCounted, PublishFails,
       Current
  <2>2. call'[t].pc # "rated" /\ (call'[t].pc = "pruning" => BeginLoop(t))
    <3>1. BeginLoop(t) => call'[t].pc = "pruning"
      BY OneMoves DEF Moves
    <3>2. \/ BeginLoop(t)
          \/ call'[t].pc \in {"creating", "started", "idle", "counted"}
      BY <1>1, OneMoves DEF Moves
    <3> QED
      BY <3>1, <3>2
  <2>3. \A u \in Threads : u # t => call'[u] = call[u]
    <3>1. \E c : call' = [call EXCEPT ![t] = c]
      BY <1>1 DEF BeginCheck, BeginLoop, RefuseConcurrency, Increment, PublishCounted, PublishFails,
         Leave
    <3> QED
      BY <3>1, Types DEF TypeInv
  <2>4. Rated(x)' \subseteq Rated(x)
    BY <2>1, <2>2, <2>3 DEF Rated
  <2>5. ASSUME BeginLoop(t), call'[t].state = state[x]
        PROVE  call'[t].pruned = Current(x) /\ call'[t].missed[b] \in Nat
    <3>1. call[t] \in CallState
      BY DEF TypeInv, TypeOK
    <3>2. call'[t] = [call[t] EXCEPT !.pc = "pruning", !.live = TRUE,
                                     !.pruned = timestamps[call[t].state]]
      BY <2>5, Types DEF BeginLoop, TypeInv
    <3>3. /\ call'[t].pruned = timestamps[call[t].state] /\ call'[t].missed = call[t].missed
          /\ call'[t].state = call[t].state
      BY <3>1, <3>2 DEF CallState
    <3>4. call[t].state \in States
      BY <2>5, MadeIsState DEF BeginLoop, TypeInv, RefsOK
    <3>5. state[x] # NoState
      BY <2>5, <3>3, <3>4, StatesAreSome
    <3>6. call[t].missed[b] \in Nat
      BY RateNaturals
    <3> QED
      BY <2>5, <3>3, <3>5, <3>6 DEF Current
  <2> QED
    BY <1>0, <2>1, <2>2, <2>3, <2>4, <2>5, RateIsQuiet
<1>2. ASSUME NEW t \in Threads, ThreadStep(t) PROVE RateOK(x, b)'
  BY <1>0, <1>1, <1>2, RateCreateState, RateStorePruned, RateStamp DEF ThreadStep
<1>3. CASE WorkerStep \/ UNCHANGED vars
  <2>1. UNCHANGED <<state, timestamps, call, admissions, lost>>
    BY <1>3 DEF WorkerStep, Finish, Die, ReadCount, Read, StoreCount, vars
  <2> QED
    BY <1>0, <2>1, RateIsQuiet DEF Current, Rated
<1>4. CASE Tick
  BY <1>0, <1>4, RateTick
<1> QED
  BY <1>2, <1>3, <1>4 DEF Next

\* Within one window no more requests of a tenant pass than its rate, one more for
\* every other thread that read the list with one of them, and one for every
\* timestamp of the window that got lost: there is no other way to exceed it,
\* however long a call takes (tenant.py:100-142).
THEOREM RateKept == Spec => []RateIsKept
<1>1. Spec => []RateInv
  BY TypesStay, RateInit, RateStep, PTL DEF Spec
<1>2. TypeInv /\ RateInv => RateIsKept
  <2> SUFFICES ASSUME TypeInv, RateInv, NEW x \in Tenants
               PROVE  admissions[x][Window]
                         <= MaxPerMinute + Cardinality(Threads) - 1 + lost[x][Window]
    BY DEF RateIsKept
  <2>1. Window \in 0..Window /\ MaxPerMinute \in Nat
    BY Bounds
  <2>2. /\ admissions[x][Window] + Cardinality(Rated(x))
              <= MaxPerMinute + Cardinality(Threads) - 1 + lost[x][Window]
        /\ admissions[x][Window] \in Nat /\ lost[x][Window] \in Nat
    BY <2>1, RateNaturals DEF RateInv, RateOK
  <2>3. Cardinality(Rated(x)) \in Nat /\ Cardinality(Threads) \in Nat
    BY RatedIsFinite, ThreadsAreSome
  <2> QED
    BY <2>1, <2>2, <2>3
<1> QED
  BY <1>1, <1>2, TypesStay, PTL
===============================================================================
