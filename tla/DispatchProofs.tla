---------------------------- MODULE DispatchProofs ----------------------------
(***************************************************************************)
(* Dispatch for any tasks, requests, models, devices and limits: when the  *)
(* latency tracker calls a model degraded, what the router chooses, and    *)
(* what the batcher makes of the candidates of a receive.                  *)
(*                                                                         *)
(* The loops of batching.py are recursive functions.  That one is defined  *)
(* for every number of turns is LoopRuns; what it computes follows from    *)
(* SetInduction, with an invariant of the loop: Filling for _split_group,  *)
(* Good and Covered for the loop over the groups.  DispatchInv then says   *)
(* that the plan is what is left of such batches, that every candidate in  *)
(* it is a message in hand routed by the rules, and how many deliveries    *)
(* of a message had an outcome.                                            *)
(***************************************************************************)
EXTENDS Dispatch, FiniteSetTheorems, SequenceTheorems, FunctionTheorems,
        WellFoundedInduction, TLAPS

\* The rank of the 95th percentile is reached by the fast samples alone unless
\* one in twenty is slow, at every window length.
LEMMA RankIsFivePercent ==
    ASSUME NEW fast \in Nat, NEW slow \in Nat, fast + slow > 0
    PROVE  fast <= Rank95(fast + slow) <=> 20 * slow >= fast + slow
<1> DEFINE n == fast + slow
           q == (n * 95) \div 100
<1>1. n \in Nat /\ n > 0
  OBVIOUS
<1>2. q \in Int /\ 100 * q <= 95 * n /\ 95 * n < 100 * q + 100
  BY <1>1
<1>3. Rank95(n) = q
  BY <1>1, <1>2 DEF Rank95
<1>4. fast <= q <=> 20 * slow >= n
  BY <1>1, <1>2
<1> QED
  BY <1>3, <1>4

\* A window is a sequence, whatever its samples are.
IsWindow(w) == \E S : w \in Seq(S)

LEMMA WindowLength ==
    ASSUME NEW w, IsWindow(w)
    PROVE  Len(w) \in Nat /\ DOMAIN w = 1..Len(w)
<1>1. PICK S : w \in Seq(S)
  BY DEF IsWindow
<1> QED
  BY <1>1

\* On a window that is not empty, the verdict on the percentile counts samples.
LEMMA P95CountsSlowSamples ==
    ASSUME NEW w, IsWindow(w), Len(w) > 0
    PROVE  P95IsSlow(w) <=> 20 * Cardinality(SlowSamples(w)) >= Len(w)
<1> DEFINE fast == Cardinality(FastSamples(w))
           slow == Cardinality(SlowSamples(w))
<1>0. Len(w) \in Nat /\ DOMAIN w = 1..Len(w)
  BY WindowLength
<1>1. IsFiniteSet(1..Len(w)) /\ Cardinality(1..Len(w)) = Len(w)
  BY <1>0, FS_Interval, 1 \in Int, Len(w) \in Int
<1>2. SlowSamples(w) \subseteq 1..Len(w)
  BY <1>0 DEF SlowSamples
<1>3. IsFiniteSet(SlowSamples(w)) /\ slow \in Nat
  BY <1>1, <1>2, FS_Subset, FS_CardinalityType
<1>4. (1..Len(w)) \cap SlowSamples(w) = SlowSamples(w)
  BY <1>2
<1>5. FastSamples(w) = (1..Len(w)) \ SlowSamples(w)
  BY <1>0 DEF FastSamples
<1>6. IsFiniteSet(FastSamples(w)) /\ fast = Len(w) - slow
  <2> DEFINE all == 1..Len(w)
  <2>1. /\ IsFiniteSet(all \ SlowSamples(w))
        /\ Cardinality(all \ SlowSamples(w)) =
              Cardinality(all) - Cardinality(all \cap SlowSamples(w))
    <3> HIDE DEF all
    <3> QED
      BY ONLY <1>1, FS_Difference DEF all
  <2> QED
    BY ONLY <1>1, <1>4, <1>5, <2>1
<1>7. fast \in Nat
  BY <1>6, FS_CardinalityType
<1>8. fast + slow = Len(w)
  BY <1>0, <1>3, <1>6, <1>7
<1>9. fast <= Rank95(fast + slow) <=> 20 * slow >= fast + slow
  BY <1>3, <1>7, <1>8, RankIsFivePercent
<1> QED
  BY <1>8, <1>9 DEF P95IsSlow

\* Recording samples leaves a window, of at most window_size samples.
LEMMA RecordedIsWindow ==
    ASSUME NEW w, IsWindow(w), NEW n \in Nat, NEW samples \in [1..n -> BOOLEAN]
    PROVE  IsWindow(Recorded(w, samples)) /\ Len(Recorded(w, samples)) <= WindowSize
<1> DEFINE all == w \o samples
           excess == IF Len(all) > WindowSize THEN Len(all) - WindowSize ELSE 0
           S == {all[i] : i \in (excess + 1)..Len(all)}
<1>1. PICK T : w \in Seq(T)
  BY DEF IsWindow
<1>2. w \in Seq(T \cup BOOLEAN) /\ samples \in Seq(T \cup BOOLEAN)
  BY <1>1
<1>3. Len(all) \in Nat
  BY <1>2
<1>4. excess \in Int
  BY <1>3, LatencyAssumption
<1>5. SubSeq(all, excess + 1, Len(all)) \in Seq(S)
  BY <1>3, <1>4, SubSeqProperties, excess + 1 \in Int, Len(all) \in Int
<1>6. Len(all) - excess <= WindowSize /\ 0 <= Len(all) - excess /\ WindowSize \in Nat
  BY <1>3, LatencyAssumption
<1> HIDE DEF all, excess, S
<1>7. Len(SubSeq(all, excess + 1, Len(all))) <= WindowSize
  <2>1. \A x \in 1..Len(all) + 1, y \in 0..Len(all) :
           Len(SubSeq(all, x, y)) = IF x <= y THEN (y - x) + 1 ELSE 0
    BY DEF all
  <2> QED
    BY <1>3, <1>4, <1>6, <2>1
<1>8. IsWindow(SubSeq(all, excess + 1, Len(all)))
  BY <1>5 DEF IsWindow
<1> QED
  BY <1>7, <1>8 DEF Recorded, all, excess

-----------------------------------------------------------------------------
WindowsAreSequences == \A m \in Models : IsWindow(windows[m])
WindowsAreShort == \A m \in Models : Len(windows[m]) <= WindowSize

WindowInv ==
    WindowsAreSequences /\ WindowsAreShort /\ windows = [m \in Models |-> windows[m]]

LEMMA WindowsStay == Spec => []WindowInv
<1>1. Init => WindowInv
  <2> SUFFICES ASSUME Init PROVE WindowInv
    OBVIOUS
  <2>1. windows = [m \in Models |-> <<>>]
    BY DEF Init
  <2>2. IsWindow(<<>>) /\ Len(<<>>) <= WindowSize
    BY LatencyAssumption DEF IsWindow
  <2> QED
    BY <2>1, <2>2 DEF WindowInv, WindowsAreSequences, WindowsAreShort
<1>2. WindowInv /\ [Next]_vars => WindowInv'
  <2> SUFFICES ASSUME WindowInv, [Next]_vars PROVE WindowInv'
    OBVIOUS
  <2>1. CASE UNCHANGED windows
    BY <2>1 DEF WindowInv, WindowsAreSequences, WindowsAreShort
  <2>2. CASE RunBatch
    <3>0. PICK outputs \in InferBatch(Head(plan)) :
             windows' = [windows EXCEPT ![Model(Head(plan))] = Recorded(@, outputs.slow)]
      BY <2>2 DEF RunBatch
    <3>1. PICK done \in SUBSET (Members(Head(plan)) \cap Tasks) :
             outputs.slow \in [1..Cardinality(done) -> BOOLEAN]
      BY <3>0 DEF InferBatch
    <3>2. Cardinality(done) \in Nat
      BY DispatchAssumption, FS_Subset, FS_CardinalityType
    <3>3. PICK samples \in [1..Cardinality(done) -> BOOLEAN] :
             windows' = [windows EXCEPT ![Model(Head(plan))] = Recorded(@, samples)]
      BY <3>0, <3>1
    <3>4. \A m \in Models : /\ IsWindow(Recorded(windows[m], samples))
                            /\ Len(Recorded(windows[m], samples)) <= WindowSize
      BY <3>2, RecordedIsWindow DEF WindowInv, WindowsAreSequences
    <3>5. \A m \in Models : windows'[m] \in {windows[m], Recorded(windows[m], samples)}
      BY <3>3 DEF WindowInv
    <3>6. WindowsAreSequences' /\ WindowsAreShort'
      BY <3>4, <3>5 DEF WindowInv, WindowsAreSequences, WindowsAreShort
    <3>7. windows' = [m \in Models |-> windows'[m]]
      BY <3>3 DEF WindowInv
    <3> QED
      BY <3>6, <3>7 DEF WindowInv
  <2> QED
    BY <2>1, <2>2 DEF Next, Submit, Receive, ProcessBatch, DeferBatch, RefuseBatch, vars
<1> QED
  BY <1>1, <1>2, PTL DEF Spec

\* A model is called degraded exactly if it has enough samples and at least one
\* in twenty is slow: _percentile's rank (latency.py:75-80) is right for every
\* length of the window.
THEOREM DegradedAtFivePercent == Spec => []FivePercentDegrade
<1>1. WindowsAreSequences => FivePercentDegrade
  <2> SUFFICES ASSUME WindowsAreSequences, NEW m \in Models
               PROVE  Degraded(windows[m]) <=>
                         /\ Len(windows[m]) >= MinSamples
                         /\ 20 * Cardinality(SlowSamples(windows[m])) >= Len(windows[m])
    BY DEF FivePercentDegrade
  <2>1. IsWindow(windows[m])
    BY DEF WindowsAreSequences
  <2>2. Len(windows[m]) >= MinSamples => Len(windows[m]) > 0
    BY <2>1, WindowLength, LatencyAssumption
  <2> QED
    BY <2>1, <2>2, P95CountsSlowSamples DEF Degraded
<1> QED
  BY <1>1, WindowsStay, PTL DEF WindowInv

-----------------------------------------------------------------------------
(* Induction and recursion.  The library's theorems take operators; here   *)
(* they are about sets and functions, from the well-foundedness of finite  *)
(* sets.                                                                    *)

LEMMA SetInduction ==
    ASSUME NEW T, 0 \in T, \A n \in Nat : n \in T => n + 1 \in T
    PROVE  \A n \in Nat : n \in T
<1> DEFINE Missing == Nat \ T
           Below == {0..n : n \in Missing}
<1> SUFFICES ASSUME Missing # {} PROVE FALSE
  OBVIOUS
<1>1. Below \subseteq FiniteSubsetsOf(Nat) /\ Below # {}
  <2> SUFFICES ASSUME NEW n \in Missing PROVE 0..n \in FiniteSubsetsOf(Nat)
    OBVIOUS
  <2> QED
    BY FS_Interval DEF FiniteSubsetsOf
<1> HIDE DEF Below
<1>2. PICK b \in Below : \A c \in Below : <<c, b>> \notin StrictSubsetOrdering(Nat)
  BY <1>1, FS_StrictSubsetOrderingWellFounded, WFMin
<1>3. PICK n \in Missing : b = 0..n
  BY DEF Below
<1>4. n - 1 \in Missing
  OBVIOUS
<1>5. 0..n - 1 \subseteq 0..n /\ n \in 0..n /\ n \notin 0..n - 1
  BY <1>4
<1>6. <<0..n - 1, b>> \in StrictSubsetOrdering(Nat)
  BY <1>3, <1>5 DEF StrictSubsetOrdering
<1>7. 0..n - 1 \in Below
  BY <1>4 DEF Below
<1> QED
  BY <1>2, <1>6, <1>7

\* A loop of n turns over states X: what it has computed after each of them.
Turns(X, n, start, step, f) ==
    /\ f \in [0..n -> X]
    /\ f[0] = start
    /\ \A i \in 1..n : f[i] = step[<<f[i - 1], i>>]

LEMMA LoopRuns ==
    ASSUME NEW X, NEW N \in Nat, NEW start \in X, NEW step \in [X \X (1..N) -> X]
    PROVE  \E f : Turns(X, N, start, step, f)
<1> DEFINE T == {n \in Nat : n <= N => \E f : Turns(X, n, start, step, f)}
<1>1. 0 \in T
  <2> DEFINE f == [i \in 0..0 |-> start]
  <2>1. Turns(X, 0, start, step, f)
    BY DEF Turns
  <2> QED
    BY <2>1
<1>2. ASSUME NEW n \in Nat, n \in T PROVE n + 1 \in T
  <2> SUFFICES ASSUME n + 1 <= N PROVE \E f : Turns(X, n + 1, start, step, f)
    OBVIOUS
  <2>1. PICK f : Turns(X, n, start, step, f)
    BY <1>2
  <2> DEFINE g == [i \in 0..n + 1 |-> IF i = n + 1 THEN step[<<f[n], n + 1>>] ELSE f[i]]
  <2>2. f \in [0..n -> X]
    BY <2>1 DEF Turns
  <2>3. step[<<f[n], n + 1>>] \in X
    <3>1. f[n] \in X /\ n + 1 \in 1..N
      BY <2>2
    <3> QED
      BY <3>1
  <2>4. g \in [0..n + 1 -> X]
    BY <2>2, <2>3
  <2>5. \A i \in 0..n : g[i] = f[i]
    OBVIOUS
  <2>6. g[n + 1] = step[<<f[n], n + 1>>] /\ g[n] = f[n]
    OBVIOUS
  <2> HIDE DEF g
  <2>7. Turns(X, n + 1, start, step, g)
    <3>1. g[0] = start
      BY <2>1, <2>5 DEF Turns
    <3>2. ASSUME NEW i \in 1..n + 1 PROVE g[i] = step[<<g[i - 1], i>>]
      <4>1. CASE i = n + 1
        BY <2>6, <4>1
      <4>2. CASE i \in 1..n
        <5>1. g[i] = f[i] /\ g[i - 1] = f[i - 1]
          BY <2>5, <4>2
        <5> QED
          BY <2>1, <4>2, <5>1 DEF Turns
      <4> QED
        BY <4>1, <4>2
    <3> QED
      BY <2>4, <3>1, <3>2 DEF Turns
  <2> QED
    BY <2>7
<1> HIDE DEF T
<1>3. \A n \in Nat : n \in T
  BY <1>1, <1>2, SetInduction
<1> QED
  BY <1>3 DEF T

-----------------------------------------------------------------------------
(* The sum of the tokens of a batch.                                        *)

IsCandidate(c) == c.id \in Nat /\ c.priority \in Nat /\ c.tokens \in Nat

\* The sums after each candidate.
Sums(s, f) ==
    /\ f \in [0..Len(s) -> Nat]
    /\ f[0] = 0
    /\ \A i \in 1..Len(s) : f[i] = f[i - 1] + s[i].tokens

LEMMA TotalTokensIsSum ==
    ASSUME NEW S, \A c \in S : c.tokens \in Nat, NEW s \in Seq(S)
    PROVE  \E f : Sums(s, f) /\ TotalTokens(s) = f[Len(s)]
<1> DEFINE n == Len(s)
           step == [p \in Nat \X (1..n) |-> p[1] + s[p[2]].tokens]
           Rec(f) == f = [i \in 0..n |-> IF i = 0 THEN 0 ELSE f[i - 1] + s[i].tokens]
<1>1. n \in Nat /\ \A i \in 1..n : s[i].tokens \in Nat
  OBVIOUS
<1>2. step \in [Nat \X (1..n) -> Nat]
  BY <1>1
<1>3. \A x \in Nat, i \in 1..n : step[<<x, i>>] = x + s[i].tokens
  OBVIOUS
<1> HIDE DEF step, n
<1>4. PICK g : Turns(Nat, n, 0, step, g)
  BY <1>1, <1>2, LoopRuns
<1>5. ASSUME NEW i \in 1..n PROVE g[i - 1] \in Nat /\ g[i] = g[i - 1] + s[i].tokens
  <2>1. i - 1 \in 0..n
    BY <1>1
  <2>2. g[i - 1] \in Nat /\ g[i] = step[<<g[i - 1], i>>]
    BY <1>4, <2>1 DEF Turns
  <2> QED
    BY <1>3, <2>2
<1>6. Rec(g)
  BY <1>1, <1>4, <1>5 DEF Turns
<1> DEFINE f == CHOOSE h : Rec(h)
<1>7. Rec(f)
  BY <1>6
<1>8. TotalTokens(s) = f[n]
  BY DEF TotalTokens, n
<1> HIDE DEF f
<1>9. f[0] = 0 /\ \A i \in 1..n : f[i] = f[i - 1] + s[i].tokens
  BY <1>1, <1>7
<1>10. \A i \in Nat : i \in {j \in Nat : j <= n => f[j] \in Nat}
  <2> DEFINE T == {j \in Nat : j <= n => f[j] \in Nat}
  <2>1. 0 \in T
    BY <1>9
  <2>2. ASSUME NEW j \in Nat, j \in T PROVE j + 1 \in T
    <3>1. j + 1 <= n => f[j + 1] = f[j] + s[j + 1].tokens
      BY <1>1, <1>9
    <3> QED
      BY <1>1, <2>2, <3>1
  <2> HIDE DEF T
  <2>3. \A j \in Nat : j \in T
    BY <2>1, <2>2, SetInduction
  <2> QED
    BY <2>3 DEF T
<1>11. f \in [0..n -> Nat]
  BY <1>1, <1>7, <1>10
<1> QED
  BY <1>8, <1>9, <1>11 DEF Sums, n

\* Sums of sequences that agree are the same.
LEMMA SumsAgree ==
    ASSUME NEW s, NEW t, NEW f, NEW g, Sums(s, f), Sums(t, g), NEW n \in Nat,
           Len(s) \in Nat, Len(t) \in Nat, n <= Len(s), n <= Len(t),
           \A i \in 1..n : s[i] = t[i]
    PROVE  f[n] = g[n]
<1> DEFINE T == {j \in Nat : j <= n => f[j] = g[j]}
<1>1. 0 \in T
  BY DEF Sums
<1>2. ASSUME NEW j \in Nat, j \in T PROVE j + 1 \in T
  <2> SUFFICES ASSUME j + 1 <= n PROVE f[j + 1] = g[j + 1]
    OBVIOUS
  <2>1. j + 1 \in 1..Len(s) /\ j + 1 \in 1..Len(t) /\ j + 1 \in 1..n /\ f[j] = g[j]
    BY <1>2
  <2>2. (j + 1) - 1 = j /\ s[j + 1] = t[j + 1]
    BY <2>1
  <2>3. f[j + 1] = f[j] + s[j + 1].tokens
    BY <2>1, <2>2 DEF Sums
  <2>4. g[j + 1] = g[j] + t[j + 1].tokens
    BY <2>1, <2>2 DEF Sums
  <2> QED
    BY ONLY <2>1, <2>2, <2>3, <2>4
<1> HIDE DEF T
<1>3. \A j \in Nat : j \in T
  BY <1>1, <1>2, SetInduction
<1> QED
  BY <1>3 DEF T

\* One candidate more adds its tokens.
LEMMA TokensAdd ==
    ASSUME NEW S, \A c \in S : c.tokens \in Nat, NEW s \in Seq(S), NEW c \in S
    PROVE  /\ TotalTokens(s) \in Nat
           /\ TotalTokens(Append(s, c)) = TotalTokens(s) + c.tokens
<1>1. PICK f : Sums(s, f) /\ TotalTokens(s) = f[Len(s)]
  BY TotalTokensIsSum
<1> DEFINE t == Append(s, c)
<1>2. /\ t \in Seq(S) /\ Len(t) = Len(s) + 1 /\ t[Len(s) + 1] = c /\ Len(s) \in Nat
      /\ \A i \in 1..Len(s) : s[i] = t[i]
  OBVIOUS
<1> HIDE DEF t
<1>3. PICK g : Sums(t, g) /\ TotalTokens(t) = g[Len(t)]
  <2>1. t \in Seq(S)
    BY <1>2
  <2> QED
    BY ONLY <2>1, \A d \in S : d.tokens \in Nat, TotalTokensIsSum
<1>4. f[Len(s)] = g[Len(s)]
  BY <1>1, <1>2, <1>3, SumsAgree, Len(t) \in Nat, Len(s) <= Len(t)
<1>5. g[Len(s) + 1] = g[Len(s)] + c.tokens
  <2>1. Len(s) + 1 \in 1..Len(t) /\ (Len(s) + 1) - 1 = Len(s)
    BY <1>2
  <2>2. \A i \in 1..Len(t) : g[i] = g[i - 1] + t[i].tokens
    BY <1>3 DEF Sums
  <2> QED
    BY <1>2, <2>1, <2>2
<1>6. f[Len(s)] \in Nat
  BY <1>1, <1>2 DEF Sums
<1> QED
  BY <1>1, <1>2, <1>3, <1>4, <1>5, <1>6 DEF t

LEMMA TokensOfNone == TotalTokens(<<>>) = 0
<1>1. <<>> \in Seq({}) /\ Len(<<>>) = 0
  OBVIOUS
<1>2. PICK f : Sums(<<>>, f) /\ TotalTokens(<<>>) = f[Len(<<>>)]
  BY <1>1, TotalTokensIsSum
<1> QED
  BY <1>1, <1>2 DEF Sums

-----------------------------------------------------------------------------
(* The sorted candidates.                                                   *)

\* Candidates of one receive: finitely many, known by their ids.
Candidates(C) ==
    /\ IsFiniteSet(C)
    /\ \A c \in C : IsCandidate(c)
    /\ \A c, d \in C : c.id = d.id => c = d

LEMMA SomeCandidates ==
    ASSUME NEW C, Candidates(C), NEW D, D \subseteq C
    PROVE  Candidates(D)
<1>1. IsFiniteSet(D)
  BY FS_Subset DEF Candidates
<1> QED
  BY <1>1 DEF Candidates

\* Priority and id order them strictly.
LEMMA PrecedesIsStrict ==
    ASSUME NEW C, Candidates(C), NEW c \in C, NEW d \in C, NEW e \in C
    PROVE  /\ ~Precedes(c, c)
           /\ Precedes(c, d) => ~Precedes(d, c)
           /\ c # d => Precedes(c, d) \/ Precedes(d, c)
           /\ Precedes(c, d) /\ Precedes(d, e) => Precedes(c, e)
  BY DEF Candidates, IsCandidate, Precedes

\* One of them comes after all the others.
LEMMA LastExists ==
    ASSUME NEW C, Candidates(C)
    PROVE  \A n \in Nat : \A D \in SUBSET C : Cardinality(D) = n + 1 =>
               \E c \in D : \A d \in D \ {c} : Precedes(d, c)
<1> DEFINE T == {n \in Nat : \A D \in SUBSET C : Cardinality(D) = n + 1 =>
                    \E c \in D : \A d \in D \ {c} : Precedes(d, c)}
<1>1. ASSUME NEW D \in SUBSET C, Cardinality(D) # 0
      PROVE  /\ IsFiniteSet(D) /\ D # {}
             /\ \A c \in D : /\ IsFiniteSet(D \ {c}) /\ D \ {c} \in SUBSET C
                             /\ Cardinality(D \ {c}) = Cardinality(D) - 1
  <2>1. IsFiniteSet(D)
    BY FS_Subset DEF Candidates
  <2>2. D # {}
    BY <1>1, FS_EmptySet
  <2> QED
    BY <2>1, <2>2, FS_RemoveElement
<1>2. 0 \in T
  <2> SUFFICES ASSUME NEW D \in SUBSET C, Cardinality(D) = 1
               PROVE  \E c \in D : \A d \in D \ {c} : Precedes(d, c)
    OBVIOUS
  <2>1. PICK c : D = {c}
    BY <1>1, FS_Singleton
  <2> QED
    BY <2>1
<1>3. ASSUME NEW n \in Nat, n \in T PROVE n + 1 \in T
  <2> SUFFICES ASSUME NEW D \in SUBSET C, Cardinality(D) = n + 2
               PROVE  \E c \in D : \A d \in D \ {c} : Precedes(d, c)
    OBVIOUS
  <2>1. PICK x \in D : /\ D \ {x} \in SUBSET C /\ Cardinality(D \ {x}) = n + 1
    BY <1>1
  <2>2. PICK y \in D \ {x} : \A d \in (D \ {x}) \ {y} : Precedes(d, y)
    BY <1>3, <2>1
  <2>3. Precedes(x, y) \/ Precedes(y, x)
    BY <2>2, PrecedesIsStrict
  <2>4. CASE Precedes(x, y)
    BY <2>2, <2>4
  <2>5. CASE Precedes(y, x)
    <3>1. \A d \in D \ {x} : Precedes(d, x)
      BY <2>2, <2>5, PrecedesIsStrict
    <3> QED
      BY <3>1
  <2> QED
    BY <2>3, <2>4, <2>5
<1> HIDE DEF T
<1>4. \A n \in Nat : n \in T
  BY <1>2, <1>3, SetInduction
<1> QED
  BY <1>4 DEF T

Sorted(s, n) == \A i, j \in 1..n : i < j => Precedes(s[i], s[j])

\* So there is a sorted sequence of them.
LEMMA SortedExists ==
    ASSUME NEW C, Candidates(C)
    PROVE  \A n \in Nat : \A D \in SUBSET C : Cardinality(D) = n =>
               \E s \in [1..n -> D] : Sorted(s, n)
<1> DEFINE T == {n \in Nat : \A D \in SUBSET C : Cardinality(D) = n =>
                    \E s \in [1..n -> D] : Sorted(s, n)}
<1>1. 0 \in T
  <2> SUFFICES ASSUME NEW D \in SUBSET C PROVE \E s \in [1..0 -> D] : Sorted(s, 0)
    OBVIOUS
  <2>1. 1..0 = {}
    OBVIOUS
  <2>2. [i \in 1..0 |-> i] \in [1..0 -> D]
    BY <2>1
  <2> QED
    BY <2>1, <2>2 DEF Sorted
<1>2. ASSUME NEW n \in Nat, n \in T PROVE n + 1 \in T
  <2> SUFFICES ASSUME NEW D \in SUBSET C, Cardinality(D) = n + 1
               PROVE  \E s \in [1..n + 1 -> D] : Sorted(s, n + 1)
    OBVIOUS
  <2>1. PICK c \in D : \A d \in D \ {c} : Precedes(d, c)
    BY LastExists
  <2>2. D \ {c} \in SUBSET C /\ Cardinality(D \ {c}) = n
    <3>1. IsFiniteSet(D)
      BY FS_Subset DEF Candidates
    <3> QED
      BY <3>1, FS_RemoveElement
  <2>3. PICK s \in [1..n -> D \ {c}] : Sorted(s, n)
    BY <1>2, <2>2
  <2> DEFINE t == [i \in 1..n + 1 |-> IF i = n + 1 THEN c ELSE s[i]]
  <2>4. t \in [1..n + 1 -> D]
    OBVIOUS
  <2>5. t[n + 1] = c /\ \A i \in 1..n : t[i] = s[i] /\ t[i] \in D \ {c}
    OBVIOUS
  <2> HIDE DEF t
  <2>6. ASSUME NEW i \in 1..n + 1, NEW j \in 1..n + 1, i < j PROVE Precedes(t[i], t[j])
    <3>1. CASE j = n + 1
      BY <2>1, <2>5, <2>6, <3>1
    <3>2. CASE j # n + 1
      <4>1. i \in 1..n /\ j \in 1..n
        BY <2>6, <3>2
      <4> QED
        BY <2>3, <2>5, <2>6, <4>1 DEF Sorted
    <3> QED
      BY <3>1, <3>2
  <2> QED
    BY <2>4, <2>6 DEF Sorted
<1> HIDE DEF T
<1>3. \A n \in Nat : n \in T
  BY <1>1, <1>2, SetInduction
<1> QED
  BY <1>3 DEF T

\* No candidate is twice in a sequence.
Distinct(s) == \A i, j \in 1..Len(s) : s[i] = s[j] => i = j

\* What sorted() makes of them: each once, in strict order.
LEMMA InOrderSorts ==
    ASSUME NEW C, Candidates(C)
    PROVE  /\ InOrder(C) \in Seq(C)
           /\ Distinct(InOrder(C))
           /\ ToSet(InOrder(C)) = C
           /\ Sorted(InOrder(C), Len(InOrder(C)))
<1> DEFINE n == Cardinality(C)
           s == InOrder(C)
<1>1. n \in Nat /\ IsFiniteSet(C)
  BY FS_CardinalityType DEF Candidates
<1>2. \E t \in [1..n -> C] : Sorted(t, n)
  BY <1>1, SortedExists
<1>3. s \in [1..n -> C] /\ Sorted(s, n)
  BY <1>2 DEF InOrder, Sorted
<1> HIDE DEF s
<1>4. s \in Seq(C) /\ Len(s) = n
  BY <1>1, <1>3
<1>5. ASSUME NEW i \in 1..n, NEW j \in 1..n, s[i] = s[j] PROVE i = j
  <2>1. s[i] \in C /\ ~Precedes(s[i], s[i])
    BY <1>3, PrecedesIsStrict
  <2>2. ~(i < j) /\ ~(j < i)
    BY <1>3, <1>5, <2>1 DEF Sorted
  <2> QED
    BY <2>2
<1>6. s \in Injection(1..n, C)
  BY <1>3, <1>5 DEF Injection, IsInjective
<1>7. Cardinality(1..n) = n
  BY <1>1, FS_Interval, 1 \in Int, n \in Int
<1>8. s \in Surjection(1..n, C)
  BY <1>1, <1>6, <1>7, FS_Injection
<1>9. ToSet(s) = C
  <2>1. DOMAIN s = 1..n
    BY <1>3
  <2> QED
    BY <1>8, <2>1 DEF ToSet, Surjection
<1> QED
  BY <1>3, <1>4, <1>5, <1>9 DEF Distinct, s

-----------------------------------------------------------------------------
(* Batches: sequences of sequences that share no candidate.                 *)

Held(batches) == UNION {ToSet(batches[i]) : i \in 1..Len(batches)}

Apart(batches) ==
    /\ \A i \in 1..Len(batches) : Distinct(batches[i])
    /\ \A i, j \in 1..Len(batches) :
          i # j => ToSet(batches[i]) \cap ToSet(batches[j]) = {}

LEMMA OneMore ==
    ASSUME NEW S, NEW s \in Seq(S), NEW c \in S
    PROVE  /\ ToSet(Append(s, c)) = ToSet(s) \cup {c}
           /\ Distinct(s) /\ c \notin ToSet(s) => Distinct(Append(s, c))
           /\ ToSet(s) \subseteq S
<1> DEFINE t == Append(s, c)
<1>1. /\ Len(s) \in Nat /\ Len(t) = Len(s) + 1 /\ t[Len(s) + 1] = c
      /\ DOMAIN s = 1..Len(s) /\ DOMAIN t = 1..Len(s) + 1
      /\ \A i \in 1..Len(s) : t[i] = s[i] /\ s[i] \in S
  OBVIOUS
<1> HIDE DEF t
<1>2. ToSet(t) = ToSet(s) \cup {c}
  <2>1. 1..Len(s) + 1 = 1..Len(s) \cup {Len(s) + 1}
    BY <1>1
  <2> QED
    BY <1>1, <2>1 DEF ToSet
<1>3. ASSUME Distinct(s), c \notin ToSet(s) PROVE Distinct(t)
  <2> SUFFICES ASSUME NEW i \in 1..Len(s) + 1, NEW j \in 1..Len(s) + 1, t[i] = t[j]
               PROVE  i = j
    BY <1>1 DEF Distinct
  <2>1. \A k \in 1..Len(s) : t[k] # c
    BY <1>1, <1>3 DEF ToSet
  <2>2. CASE i \in 1..Len(s) /\ j \in 1..Len(s)
    BY <1>1, <1>3, <2>2 DEF Distinct
  <2>3. CASE i = Len(s) + 1 \/ j = Len(s) + 1
    BY <1>1, <2>1, <2>3
  <2> QED
    BY <1>1, <2>2, <2>3
<1>4. ToSet(s) \subseteq S
  BY <1>1 DEF ToSet
<1> QED
  BY <1>2, <1>3, <1>4 DEF t

LEMMA Joined ==
    ASSUME NEW U, NEW a \in Seq(Seq(U)), NEW b \in Seq(Seq(U))
    PROVE  /\ a \o b \in Seq(Seq(U))
           /\ Len(a) \in Nat /\ Len(b) \in Nat /\ Len(a \o b) = Len(a) + Len(b)
           /\ \A i \in 1..Len(a) : (a \o b)[i] = a[i]
           /\ \A i \in 1..Len(b) : (a \o b)[Len(a) + i] = b[i]
           /\ \A k \in 1..Len(a \o b) :
                 k \in 1..Len(a) \/ \E i \in 1..Len(b) : k = Len(a) + i
           /\ Held(a \o b) = Held(a) \cup Held(b)
           /\ Apart(a) /\ Apart(b) /\ Held(a) \cap Held(b) = {} => Apart(a \o b)
<1> DEFINE ab == a \o b
<1>1. /\ ab \in Seq(Seq(U)) /\ Len(a) \in Nat /\ Len(b) \in Nat /\ Len(ab) = Len(a) + Len(b)
      /\ \A i \in 1..Len(a) : ab[i] = a[i]
  OBVIOUS
<1>2. ASSUME NEW i \in 1..Len(b) PROVE ab[Len(a) + i] = b[i]
  BY <1>1
<1> HIDE DEF ab
<1>3. ASSUME NEW k \in 1..Len(ab), k \notin 1..Len(a)
      PROVE  \E i \in 1..Len(b) : k = Len(a) + i
  <2>1. k - Len(a) \in 1..Len(b) /\ k = Len(a) + (k - Len(a))
    BY <1>1, <1>3
  <2> QED
    BY <2>1
<1>4. /\ \A i \in 1..Len(a) : i \in 1..Len(ab)
      /\ \A i \in 1..Len(b) : Len(a) + i \in 1..Len(ab)
  BY <1>1
<1>5. Held(ab) = Held(a) \cup Held(b)
  <2>1. ASSUME NEW x \in Held(ab) PROVE x \in Held(a) \cup Held(b)
    <3>1. PICK k \in 1..Len(ab) : x \in ToSet(ab[k])
      BY DEF Held
    <3> QED
      BY <1>1, <1>2, <1>3, <3>1 DEF Held
  <2>2. ASSUME NEW x \in Held(a) PROVE x \in Held(ab)
    BY <1>1, <1>4 DEF Held
  <2>3. ASSUME NEW x \in Held(b) PROVE x \in Held(ab)
    BY <1>2, <1>4 DEF Held
  <2> QED
    BY <2>1, <2>2, <2>3
<1>6. ASSUME Apart(a), Apart(b), Held(a) \cap Held(b) = {} PROVE Apart(ab)
  <2>1. ASSUME NEW k \in 1..Len(ab) PROVE Distinct(ab[k])
    BY <1>1, <1>2, <1>3, <1>6 DEF Apart
  <2>2. ASSUME NEW k \in 1..Len(ab), NEW l \in 1..Len(ab), k # l,
               NEW x \in ToSet(ab[k]), x \in ToSet(ab[l])
        PROVE  FALSE
    <3>1. CASE k \in 1..Len(a) /\ l \in 1..Len(a)
      BY <1>1, <1>6, <2>2, <3>1 DEF Apart
    <3>2. CASE k \in 1..Len(a) /\ l \notin 1..Len(a)
      <4>1. x \in Held(a)
        BY <1>1, <2>2, <3>2 DEF Held
      <4>2. x \in Held(b)
        BY <1>2, <1>3, <2>2, <3>2 DEF Held
      <4> QED
        BY <1>6, <4>1, <4>2
    <3>3. CASE k \notin 1..Len(a) /\ l \in 1..Len(a)
      <4>1. x \in Held(a)
        BY <1>1, <2>2, <3>3 DEF Held
      <4>2. x \in Held(b)
        BY <1>2, <1>3, <2>2, <3>3 DEF Held
      <4> QED
        BY <1>6, <4>1, <4>2
    <3>4. CASE k \notin 1..Len(a) /\ l \notin 1..Len(a)
      <4>1. PICK i \in 1..Len(b), j \in 1..Len(b) : k = Len(a) + i /\ l = Len(a) + j
        BY <1>3, <3>4
      <4>2. i # j /\ x \in ToSet(b[i]) /\ x \in ToSet(b[j])
        BY <1>2, <2>2, <4>1
      <4> QED
        BY <1>6, <4>2 DEF Apart
    <3> QED
      BY <3>1, <3>2, <3>3, <3>4
  <2> QED
    BY <2>1, <2>2 DEF Apart
<1> QED
  BY <1>1, <1>2, <1>3, <1>5, <1>6 DEF ab

\* One batch at the end.
LEMMA JoinedOne ==
    ASSUME NEW U, NEW a \in Seq(Seq(U)), NEW x \in Seq(U)
    PROVE  /\ Append(a, x) \in Seq(Seq(U))
           /\ Len(a) \in Nat /\ Len(Append(a, x)) = Len(a) + 1
           /\ \A i \in 1..Len(a) : Append(a, x)[i] = a[i]
           /\ Append(a, x)[Len(a) + 1] = x
           /\ Held(Append(a, x)) = Held(a) \cup ToSet(x)
           /\ Apart(a) /\ Distinct(x) /\ Held(a) \cap ToSet(x) = {} => Apart(Append(a, x))
<1>1. Append(a, x) = a \o <<x>> /\ <<x>> \in Seq(Seq(U)) /\ Len(<<x>>) = 1 /\ <<x>>[1] = x
  OBVIOUS
<1>2. Held(<<x>>) = ToSet(x) /\ (Distinct(x) => Apart(<<x>>))
  <2>1. 1..1 = {1}
    OBVIOUS
  <2> DEFINE b == <<x>>
  <2>2. Len(b) = 1 /\ b[1] = x
    OBVIOUS
  <2> HIDE DEF b
  <2>3. Held(b) = ToSet(x)
    BY <2>1, <2>2 DEF Held
  <2>4. Distinct(x) => Apart(b)
    BY <2>1, <2>2 DEF Apart
  <2> QED
    BY <2>3, <2>4 DEF b
<1>3. /\ Append(a, x) \in Seq(Seq(U))
      /\ Len(a) \in Nat /\ Len(Append(a, x)) = Len(a) + 1
      /\ \A i \in 1..Len(a) : Append(a, x)[i] = a[i]
      /\ Append(a, x)[Len(a) + 1] = x
  OBVIOUS
<1>4. /\ Held(a \o <<x>>) = Held(a) \cup Held(<<x>>)
      /\ Apart(a) /\ Apart(<<x>>) /\ Held(a) \cap Held(<<x>>) = {} => Apart(a \o <<x>>)
  <2> DEFINE b == <<x>>
  <2>1. b \in Seq(Seq(U))
    BY <1>1
  <2> HIDE DEF b
  <2>2. /\ Held(a \o b) = Held(a) \cup Held(b)
        /\ Apart(a) /\ Apart(b) /\ Held(a) \cap Held(b) = {} => Apart(a \o b)
    BY ONLY <2>1, Joined, a \in Seq(Seq(U))
  <2> QED
    BY <2>2 DEF b
<1> QED
  BY <1>1, <1>2, <1>3, <1>4

-----------------------------------------------------------------------------
(* The greedy loop.                                                         *)

Fits(batch) == Len(batch) <= MaxBatchSize /\ TotalTokens(batch) <= MaxBatchTokens

\* The first candidate of the next batch did not fit.
Full(batch, next) ==
    \/ Len(batch) = MaxBatchSize
    \/ TotalTokens(batch) + next[1].tokens > MaxBatchTokens

\* Between two turns: the candidates D so far are in one batch each.
Filling(batches, current, D, U) ==
    /\ batches \in Seq(Seq(U)) /\ current \in Seq(U)
    /\ Apart(batches) /\ Distinct(current)
    /\ Held(batches) \cap ToSet(current) = {}
    /\ Held(batches) \cup ToSet(current) = D
    /\ Fits(current)
    /\ \A i \in 1..Len(batches) : batches[i] # <<>> /\ Fits(batches[i])
    /\ \A i \in 1..Len(batches) - 1 : Full(batches[i], batches[i + 1])
    /\ batches # <<>> => current # <<>> /\ Full(batches[Len(batches)], current)

LEMMA EmptySet == ToSet(<<>>) = {} /\ Held(<<>>) = {} /\ Apart(<<>>) /\ Distinct(<<>>)
<1>1. Len(<<>>) = 0 /\ DOMAIN <<>> = {} /\ 1..0 = {}
  OBVIOUS
<1> QED
  BY <1>1 DEF ToSet, Held, Apart, Distinct

LEMMA NotEmpty ==
    ASSUME NEW S, NEW s \in Seq(S)
    PROVE  /\ s # <<>> <=> 1 \in 1..Len(s)
           /\ s # <<>> <=> Len(s) # 0
           /\ s # <<>> => Len(s) \in 1..Len(s)
<1>1. Len(<<>>) = 0 /\ Len(s) \in Nat
  OBVIOUS
<1>2. s # <<>> => Len(s) \in Nat \ {0}
  BY EmptySeq
<1>3. s # <<>> <=> Len(s) # 0
  BY <1>1, <1>2
<1> QED
  BY <1>1, <1>3

LEMMA FirstTurn ==
    ASSUME NEW U
    PROVE  Filling(<<>>, <<>>, {}, U)
<1>1. Len(<<>>) = 0 /\ 1..0 = {} /\ 1..0 - 1 = {} /\ <<>> \in Seq(U) /\ <<>> \in Seq(Seq(U))
  OBVIOUS
<1>2. Fits(<<>>)
  BY <1>1, TokensOfNone, BatchingAssumption DEF Fits
<1> QED
  BY <1>1, <1>2, EmptySet DEF Filling

LEMMA FillingNumbers ==
    ASSUME NEW U, \A c \in U : c.tokens \in Nat,
           NEW batches, NEW current, NEW D, Filling(batches, current, D, U), NEW c \in U
    PROVE  /\ Len(batches) \in Nat /\ Len(current) \in Nat /\ TotalTokens(current) \in Nat
           /\ c.tokens \in Nat /\ MaxBatchSize \in Nat \ {0} /\ MaxBatchTokens \in Nat
  BY TokensAdd, BatchingAssumption DEF Filling

\* The batch being filled is closed, and one opened with the candidate.
LEMMA BatchCloses ==
    ASSUME NEW U, \A c \in U : c.tokens \in Nat,
           NEW batches, NEW current, NEW D, Filling(batches, current, D, U),
           NEW c \in U \ D, c.tokens <= MaxBatchTokens, Closes(current, c)
    PROVE  Filling(Append(batches, current), <<c>>, D \cup {c}, U)
<1> DEFINE closed == Append(batches, current)
           new == <<c>>
<1>1. /\ Len(batches) \in Nat /\ Len(current) \in Nat /\ TotalTokens(current) \in Nat
      /\ c.tokens \in Nat /\ MaxBatchSize \in Nat \ {0} /\ MaxBatchTokens \in Nat
  BY FillingNumbers
<1>2. new = Append(<<>>, c) /\ <<>> \in Seq(U) /\ new \in Seq(U) /\ Len(new) = 1 /\ new[1] = c
  OBVIOUS
<1>3. current # <<>> /\ Full(current, new)
  <2>1. Len(<<>>) = 0 /\ new[1] = c
    OBVIOUS
  <2>2. Len(current) <= MaxBatchSize
    BY DEF Filling, Fits
  <2> QED
    BY <1>1, <2>1, <2>2 DEF Closes, Full
<1>4. Distinct(new) /\ ToSet(new) = {c}
  <2>1. DOMAIN new = {1} /\ 1..1 = {1}
    OBVIOUS
  <2> QED
    BY <1>2, <2>1 DEF Distinct, ToSet
<1>5. Fits(new)
  <2>1. TotalTokens(Append(<<>>, c)) = TotalTokens(<<>>) + c.tokens
    BY <1>2, TokensAdd
  <2> QED
    BY <1>1, <1>2, <2>1, TokensOfNone DEF Fits
<1> HIDE DEF new
<1>6. /\ closed \in Seq(Seq(U)) /\ Len(closed) = Len(batches) + 1
      /\ \A i \in 1..Len(batches) : closed[i] = batches[i]
      /\ closed[Len(batches) + 1] = current
      /\ Held(closed) = Held(batches) \cup ToSet(current)
      /\ Apart(closed)
  BY JoinedOne DEF Filling
<1> HIDE DEF closed
<1>7. Held(closed) = D
  BY <1>6 DEF Filling
<1>8. ASSUME NEW i \in 1..Len(closed) PROVE closed[i] # <<>> /\ Fits(closed[i])
  <2>1. i \in 1..Len(batches) \/ i = Len(batches) + 1
    BY <1>1, <1>6
  <2> QED
    BY <1>3, <1>6, <2>1 DEF Filling
<1>9. ASSUME NEW i \in 1..Len(closed) - 1 PROVE Full(closed[i], closed[i + 1])
  <2>1. CASE i = Len(batches)
    <3>1. batches # <<>>
      BY <1>1, <2>1, NotEmpty DEF Filling
    <3>2. closed[i] = batches[Len(batches)] /\ closed[i + 1] = current
      BY <1>1, <1>6, <2>1
    <3> QED
      BY <3>1, <3>2 DEF Filling
  <2>2. CASE i # Len(batches)
    <3>1. i \in 1..Len(batches) - 1 /\ i \in 1..Len(batches) /\ i + 1 \in 1..Len(batches)
      BY <1>1, <1>6, <2>2
    <3>2. closed[i] = batches[i] /\ closed[i + 1] = batches[i + 1]
      BY <1>6, <3>1
    <3> QED
      BY <3>1, <3>2 DEF Filling
  <2> QED
    BY <2>1, <2>2
<1>10. closed[Len(closed)] = current /\ new # <<>>
  BY <1>2, <1>6, NotEmpty
<1>11. c \notin Held(closed) /\ Held(closed) \cup ToSet(new) = D \cup {c}
  BY <1>4, <1>7
<1> QED
  BY <1>2, <1>3, <1>4, <1>5, <1>6, <1>7, <1>8, <1>9, <1>10, <1>11 DEF Filling, closed, new

\* The candidate joins the batch being filled.
LEMMA BatchGrows ==
    ASSUME NEW U, \A c \in U : c.tokens \in Nat,
           NEW batches, NEW current, NEW D, Filling(batches, current, D, U),
           NEW c \in U \ D, c.tokens <= MaxBatchTokens, ~Closes(current, c)
    PROVE  Filling(batches, Append(current, c), D \cup {c}, U) /\ Append(current, c) # <<>>
<1> DEFINE new == Append(current, c)
<1>1. /\ Len(batches) \in Nat /\ Len(current) \in Nat /\ TotalTokens(current) \in Nat
      /\ c.tokens \in Nat /\ MaxBatchSize \in Nat \ {0} /\ MaxBatchTokens \in Nat
  BY FillingNumbers
<1>2. /\ new \in Seq(U) /\ Len(new) = Len(current) + 1
      /\ \A i \in 1..Len(current) : new[i] = current[i]
  BY DEF Filling
<1>3. ToSet(new) = ToSet(current) \cup {c} /\ Distinct(new)
  BY OneMore DEF Filling
<1>4. TotalTokens(new) = TotalTokens(current) + c.tokens
  BY TokensAdd DEF Filling
<1> HIDE DEF new
<1>5. new # <<>> /\ (current # <<>> => new[1] = current[1])
  <2>1. current # <<>> => 1 \in 1..Len(current)
    BY NotEmpty DEF Filling
  <2> QED
    BY <1>1, <1>2, <2>1, NotEmpty
<1>6. Fits(new)
  <2>1. Len(new) <= MaxBatchSize
    BY <1>1, <1>2 DEF Closes
  <2>2. CASE current = <<>>
    BY <1>1, <1>4, <2>1, <2>2, TokensOfNone DEF Fits
  <2>3. CASE current # <<>>
    BY <1>1, <1>4, <2>1, <2>3 DEF Fits, Closes
  <2> QED
    BY <2>2, <2>3
<1>7. batches # <<>> => Full(batches[Len(batches)], new)
  BY <1>5 DEF Filling, Full
<1>8. Held(batches) \cap ToSet(new) = {} /\ Held(batches) \cup ToSet(new) = D \cup {c}
  BY <1>3 DEF Filling
<1> QED
  BY <1>2, <1>3, <1>5, <1>6, <1>7, <1>8 DEF Filling, new

\* What a turn of the loop makes of what the turns before it have made.
LEMMA TurnFills ==
    ASSUME NEW U, \A c \in U : c.tokens \in Nat,
           NEW turn, NEW D, Filling(turn.batches, turn.current, D, U),
           NEW c \in U \ D, c.tokens <= MaxBatchTokens
    PROVE  /\ Filling(NextTurn(turn, c).batches, NextTurn(turn, c).current, D \cup {c}, U)
           /\ NextTurn(turn, c).current # <<>>
<1>1. CASE Closes(turn.current, c)
  <2>1. NextTurn(turn, c) = [batches |-> Append(turn.batches, turn.current), current |-> <<c>>]
    BY <1>1 DEF NextTurn
  <2>2. Filling(Append(turn.batches, turn.current), <<c>>, D \cup {c}, U)
    BY <1>1, BatchCloses
  <2>3. <<c>> # <<>>
    OBVIOUS
  <2> QED
    BY <2>1, <2>2, <2>3
<1>2. CASE ~Closes(turn.current, c)
  <2>1. NextTurn(turn, c) = [batches |-> turn.batches, current |-> Append(turn.current, c)]
    BY <1>2 DEF NextTurn
  <2>2. /\ Filling(turn.batches, Append(turn.current, c), D \cup {c}, U)
        /\ Append(turn.current, c) # <<>>
    BY <1>2, BatchGrows
  <2> QED
    BY <2>1, <2>2
<1> QED
  BY <1>1, <1>2

\* So after the last turn every candidate of the group is in one batch.
LEMMA GroupFills ==
    ASSUME NEW U, \A c \in U : c.tokens \in Nat, NEW s \in Seq(U), Distinct(s),
           \A c \in ToSet(s) : c.tokens <= MaxBatchTokens
    PROVE  /\ Filling(LastTurn(s).batches, LastTurn(s).current, ToSet(s), U)
           /\ s # <<>> => LastTurn(s).current # <<>>
<1> DEFINE n == Len(s)
           X == [batches : Seq(Seq(U)), current : Seq(U)]
           start == [batches |-> <<>>, current |-> <<>>]
           step == [p \in X \X (1..n) |-> NextTurn(p[1], s[p[2]])]
           Rec(f) == f = [i \in 0..n |-> IF i = 0 THEN start ELSE NextTurn(f[i - 1], s[i])]
<1>1. n \in Nat /\ DOMAIN s = 1..n /\ \A i \in 1..n : s[i] \in U
  OBVIOUS
<1>2. start \in X
  OBVIOUS
<1>3. ASSUME NEW x \in X, NEW i \in 1..n PROVE NextTurn(x, s[i]) \in X
  <2>1. Append(x.batches, x.current) \in Seq(Seq(U)) /\ Append(x.current, s[i]) \in Seq(U)
        /\ <<s[i]>> \in Seq(U) /\ x.batches \in Seq(Seq(U))
    BY <1>1
  <2> QED
    BY <2>1 DEF NextTurn
<1>4. step \in [X \X (1..n) -> X]
  BY <1>3
<1>5. \A x \in X, i \in 1..n : step[<<x, i>>] = NextTurn(x, s[i])
  OBVIOUS
<1> HIDE DEF step, n, X, start
<1>6. PICK g : Turns(X, n, start, step, g)
  BY <1>1, <1>2, <1>4, LoopRuns
<1>7. ASSUME NEW i \in 1..n PROVE g[i] = NextTurn(g[i - 1], s[i])
  <2>1. i - 1 \in 0..n
    BY <1>1
  <2>2. g[i - 1] \in X /\ g[i] = step[<<g[i - 1], i>>]
    BY <1>6, <2>1 DEF Turns
  <2> QED
    BY <1>5, <2>2
<1>8. Rec(g)
  BY <1>1, <1>6, <1>7 DEF Turns
<1> DEFINE f == CHOOSE h : Rec(h)
<1>9. Rec(f)
  BY <1>8
<1>10. LastTurn(s) = f[n]
  BY DEF LastTurn, n, start
<1> HIDE DEF f
<1>11. f[0] = start /\ \A i \in 1..n : f[i] = NextTurn(f[i - 1], s[i])
  BY <1>1, <1>9
<1> DEFINE Seen(i) == {s[j] : j \in 1..i}
           T == {i \in Nat : i <= n => /\ Filling(f[i].batches, f[i].current, Seen(i), U)
                                       /\ i > 0 => f[i].current # <<>>}
<1>12. 0 \in T
  <2>1. Seen(0) = {}
    OBVIOUS
  <2>2. f[0].batches = <<>> /\ f[0].current = <<>>
    BY <1>11 DEF start
  <2> HIDE DEF Seen
  <2>3. Filling(f[0].batches, f[0].current, Seen(0), U)
    BY <2>1, <2>2, FirstTurn
  <2> QED
    BY <2>3
<1>13. ASSUME NEW i \in Nat, i \in T PROVE i + 1 \in T
  <2> SUFFICES ASSUME i + 1 <= n
               PROVE  /\ Filling(f[i + 1].batches, f[i + 1].current, Seen(i + 1), U)
                      /\ f[i + 1].current # <<>>
    OBVIOUS
  <2>1. Filling(f[i].batches, f[i].current, Seen(i), U)
    BY <1>1, <1>13
  <2>2. i + 1 \in 1..n /\ (i + 1) - 1 = i /\ 1..i + 1 = 1..i \cup {i + 1}
    BY <1>1
  <2>3. Seen(i + 1) = Seen(i) \cup {s[i + 1]}
    BY <2>2
  <2>4. s[i + 1] \notin Seen(i)
    <3> SUFFICES ASSUME NEW j \in 1..i, s[j] = s[i + 1] PROVE FALSE
      OBVIOUS
    <3>1. j \in 1..n /\ j # i + 1
      BY <1>1
    <3> QED
      BY <2>2, <3>1 DEF Distinct, n
  <2>5. s[i + 1] \in U /\ s[i + 1].tokens <= MaxBatchTokens
    BY <1>1, <2>2 DEF ToSet
  <2>6. f[i + 1] = NextTurn(f[i], s[i + 1])
    BY <1>11, <2>2
  <2> HIDE DEF Seen
  <2> QED
    BY <2>1, <2>3, <2>4, <2>5, <2>6, TurnFills
<1> HIDE DEF T
<1>14. \A i \in Nat : i \in T
  BY <1>12, <1>13, SetInduction
<1>15. Seen(n) = ToSet(s)
  BY <1>1 DEF ToSet
<1>16. s # <<>> => n > 0
  BY <1>1, EmptySeq DEF n
<1> HIDE DEF Seen
<1>17. Filling(f[n].batches, f[n].current, Seen(n), U) /\ (n > 0 => f[n].current # <<>>)
  BY <1>1, <1>14 DEF T
<1> QED
  BY <1>10, <1>15, <1>16, <1>17

-----------------------------------------------------------------------------
(* What is promised of all batches together.                                *)

\* One batch: compatible, and within its limits unless it holds one candidate.
SoundBatch(batch) ==
    /\ batch # <<>>
    /\ \A c \in ToSet(batch) : c.model = batch[1].model /\ c.event = batch[1].event
    /\ Len(batch) > 1 => Fits(batch) /\ \A c \in ToSet(batch) : ~Immediate(c)

\* A batch and the one that follows it.
FullPair(batch, next) ==
    ( /\ ~Immediate(batch[1]) /\ ~Immediate(next[1])
      /\ CompatibilityKey(batch[1]) = CompatibilityKey(next[1]) )
    => Full(batch, next)

\* A batch and any later one.
UrgentPair(batch, later) ==
    later[1].priority <= HighPriorityThreshold => batch[1].priority <= later[1].priority

Good(batches, U) ==
    /\ batches \in Seq(Seq(U))
    /\ Apart(batches)
    /\ \A i \in 1..Len(batches) : SoundBatch(batches[i])
    /\ \A i \in 1..Len(batches) - 1 : FullPair(batches[i], batches[i + 1])
    /\ \A i, j \in 1..Len(batches) : i < j => UrgentPair(batches[i], batches[j])

LEMMA HeadsAreHeld ==
    ASSUME NEW U, NEW b \in Seq(Seq(U)), NEW i \in 1..Len(b), b[i] # <<>>
    PROVE  b[i][1] \in Held(b) /\ b[i][1] \in ToSet(b[i]) /\ b[i][1] \in U
<1>1. b[i] \in Seq(U)
  OBVIOUS
<1>2. 1 \in 1..Len(b[i]) /\ DOMAIN b[i] = 1..Len(b[i])
  BY <1>1, NotEmpty
<1>3. b[i][1] \in ToSet(b[i])
  BY <1>2 DEF ToSet
<1>4. b[i][1] \in Held(b)
  BY <1>3 DEF Held
<1>5. b[i][1] \in U
  BY <1>1, <1>2
<1> QED
  BY <1>3, <1>4, <1>5

\* Urgent candidates come alone, in their order.
LEMMA SinglesAreGood ==
    ASSUME NEW U, NEW C, C \subseteq U, Candidates(C), \A c \in C : Immediate(c)
    PROVE  Good(Singles(InOrder(C)), U) /\ Held(Singles(InOrder(C))) = C
<1> DEFINE s == InOrder(C)
           b == Singles(s)
<1>1. s \in Seq(C) /\ Distinct(s) /\ ToSet(s) = C /\ Sorted(s, Len(s))
  BY InOrderSorts
<1> HIDE DEF s
<1>2. Len(s) \in Nat /\ DOMAIN s = 1..Len(s) /\ \A i \in 1..Len(s) : s[i] \in C
  BY <1>1
<1>3. b = [i \in 1..Len(s) |-> <<s[i]>>]
  BY <1>2 DEF Singles
<1>4. \A i \in 1..Len(s) : <<s[i]>> \in Seq(U)
  BY <1>2
<1>5. b \in Seq(Seq(U)) /\ Len(b) = Len(s) /\ \A i \in 1..Len(s) : b[i] = <<s[i]>>
  BY <1>2, <1>3, <1>4
<1> HIDE DEF b
<1>6. ASSUME NEW i \in 1..Len(s)
      PROVE  ToSet(b[i]) = {s[i]} /\ Len(b[i]) = 1 /\ b[i][1] = s[i] /\ b[i] # <<>>
  <2>1. b[i] = <<s[i]>>
    BY <1>5
  <2> QED
    BY <2>1 DEF ToSet
<1>7. \A i \in 1..Len(s) :
         ToSet(b[i]) = {s[i]} /\ Len(b[i]) = 1 /\ b[i][1] = s[i] /\ b[i] # <<>>
  BY <1>6
<1>8. Held(b) = C
  <2>1. ASSUME NEW x \in Held(b) PROVE x \in C
    <3>1. PICK i \in 1..Len(s) : x \in ToSet(b[i])
      BY <1>5 DEF Held
    <3>2. x = s[i]
      BY <1>7, <3>1
    <3> QED
      BY <1>2, <3>2
  <2>2. ASSUME NEW x \in C PROVE x \in Held(b)
    <3>1. PICK i \in 1..Len(s) : x = s[i]
      BY <1>1, <1>2 DEF ToSet
    <3>2. x \in ToSet(b[i]) /\ i \in 1..Len(b)
      BY <1>5, <1>7, <3>1
    <3> QED
      BY <3>2 DEF Held
  <2> QED
    BY <2>1, <2>2
<1>9. Apart(b)
  <2>1. ASSUME NEW i \in 1..Len(b) PROVE Distinct(b[i])
    <3>1. Len(b[i]) = 1
      BY <1>5, <1>7
    <3>2. 1..1 = {1}
      OBVIOUS
    <3> QED
      BY <3>1, <3>2 DEF Distinct
  <2>2. ASSUME NEW i \in 1..Len(b), NEW j \in 1..Len(b), i # j
        PROVE  ToSet(b[i]) \cap ToSet(b[j]) = {}
    <3>1. s[i] # s[j]
      BY <1>1, <1>5, <2>2 DEF Distinct
    <3>2. ToSet(b[i]) = {s[i]} /\ ToSet(b[j]) = {s[j]}
      BY <1>5, <1>7
    <3> QED
      BY <3>1, <3>2
  <2> QED
    BY <2>1, <2>2 DEF Apart
<1>10. ASSUME NEW i \in 1..Len(b) PROVE SoundBatch(b[i])
  <2>1. ToSet(b[i]) = {s[i]} /\ Len(b[i]) = 1 /\ b[i][1] = s[i] /\ b[i] # <<>>
    BY <1>5, <1>7
  <2> QED
    BY <2>1 DEF SoundBatch
<1>11. ASSUME NEW i \in 1..Len(b) - 1 PROVE FullPair(b[i], b[i + 1])
  <2>1. i \in 1..Len(s)
    BY <1>2, <1>5
  <2>2. b[i][1] = s[i] /\ Immediate(s[i])
    BY <1>2, <1>7, <2>1
  <2> QED
    BY <2>2 DEF FullPair
<1>12. ASSUME NEW i \in 1..Len(b), NEW j \in 1..Len(b), i < j PROVE UrgentPair(b[i], b[j])
  <2>1. Precedes(s[i], s[j])
    BY <1>1, <1>5, <1>12 DEF Sorted
  <2>2. s[i] \in C /\ s[j] \in C
    BY <1>2, <1>5
  <2>3. s[i].priority <= s[j].priority
    BY <2>1, <2>2 DEF Precedes, Candidates, IsCandidate
  <2>4. b[i][1] = s[i] /\ b[j][1] = s[j]
    BY <1>5, <1>7
  <2> QED
    BY <2>3, <2>4 DEF UrgentPair
<1> QED
  BY <1>5, <1>8, <1>9, <1>10, <1>11, <1>12 DEF Good, b, s

\* Batches of others that cannot join them may follow good ones.
LEMMA GoodJoined ==
    ASSUME NEW U, NEW a, NEW b, Good(a, U), Good(b, U), Held(a) \cap Held(b) = {},
           \A c \in U : c.priority \in Nat,
           \A y \in Held(b) : ~Immediate(y),
           \A x \in Held(a), y \in Held(b) :
               ~Immediate(x) => CompatibilityKey(x) # CompatibilityKey(y)
    PROVE  Good(a \o b, U)
<1> DEFINE ab == a \o b
<1>1. a \in Seq(Seq(U)) /\ b \in Seq(Seq(U)) /\ Apart(a) /\ Apart(b)
  BY DEF Good
<1>2. /\ ab \in Seq(Seq(U))
      /\ Len(a) \in Nat /\ Len(b) \in Nat /\ Len(ab) = Len(a) + Len(b)
      /\ \A i \in 1..Len(a) : ab[i] = a[i]
      /\ \A i \in 1..Len(b) : ab[Len(a) + i] = b[i]
      /\ \A k \in 1..Len(ab) :
            k \in 1..Len(a) \/ \E i \in 1..Len(b) : k = Len(a) + i
      /\ Apart(ab)
  BY <1>1, Joined
<1> HIDE DEF ab
<1>3. /\ \A i \in 1..Len(a) : a[i] # <<>> /\ a[i][1] \in Held(a)
      /\ \A i \in 1..Len(b) : b[i] # <<>> /\ b[i][1] \in Held(b) /\ b[i][1] \in U
  BY <1>1, HeadsAreHeld DEF Good, SoundBatch
<1>4. ASSUME NEW k \in 1..Len(ab) PROVE SoundBatch(ab[k])
  BY <1>2 DEF Good
<1>5. ASSUME NEW k \in 1..Len(ab) - 1 PROVE FullPair(ab[k], ab[k + 1])
  <2>1. CASE k \in 1..Len(a) - 1
    <3>1. k \in 1..Len(a) /\ k + 1 \in 1..Len(a)
      BY <1>2, <2>1
    <3> QED
      BY <1>2, <2>1, <3>1 DEF Good
  <2>2. CASE k = Len(a)
    <3>1. k \in 1..Len(a) /\ 1 \in 1..Len(b)
      BY <1>2, <2>2
    <3>2. ab[k] = a[k] /\ ab[k + 1] = b[1]
      BY <1>2, <2>2, <3>1
    <3> QED
      BY <1>3, <3>1, <3>2 DEF FullPair
  <2>3. CASE k > Len(a)
    <3>1. PICK i \in 1..Len(b) - 1 : k = Len(a) + i
      <4>1. k - Len(a) \in 1..Len(b) - 1 /\ k = Len(a) + (k - Len(a))
        BY <1>2, <2>3
      <4> QED
        BY <4>1
    <3>2. i \in 1..Len(b) /\ i + 1 \in 1..Len(b) /\ k + 1 = Len(a) + (i + 1)
      BY <1>2, <3>1
    <3>3. ab[k] = b[i] /\ ab[k + 1] = b[i + 1]
      BY <1>2, <3>1, <3>2
    <3> QED
      BY <3>1, <3>3 DEF Good
  <2> QED
    BY <1>2, <2>1, <2>2, <2>3
<1>6. ASSUME NEW k \in 1..Len(ab), NEW l \in 1..Len(ab), k < l PROVE UrgentPair(ab[k], ab[l])
  <2>1. CASE l \in 1..Len(a)
    <3>1. k \in 1..Len(a)
      BY <1>2, <1>6, <2>1
    <3> QED
      BY <1>2, <1>6, <2>1, <3>1 DEF Good
  <2>2. CASE l \notin 1..Len(a)
    <3>1. PICK j \in 1..Len(b) : l = Len(a) + j
      BY <1>2, <2>2
    <3>2. ab[l][1] \in Held(b) /\ ab[l][1] \in U
      BY <1>2, <1>3, <3>1
    <3>3. ~(ab[l][1].priority <= HighPriorityThreshold)
      BY <3>2 DEF Immediate
    <3> QED
      BY <3>3 DEF UrgentPair
  <2> QED
    BY <2>1, <2>2
<1> QED
  BY <1>2, <1>4, <1>5, <1>6 DEF Good, ab

-----------------------------------------------------------------------------
(* The groups.                                                              *)

\* _split_group on the sorted candidates of one group: sound batches, of all of
\* them unless a batch of one is not allowed.
LEMMA SplitIsGood ==
    ASSUME NEW G, Candidates(G), G # {},
           \A c \in G : ~Immediate(c),
           \A c, d \in G : CompatibilityKey(c) = CompatibilityKey(d)
    PROVE  /\ Good(SplitGroup(InOrder(G)), G)
           /\ AllowSingleItemBatches => Held(SplitGroup(InOrder(G))) = G
<1> DEFINE s == InOrder(G)
           done == LastTurn(s).batches
           last == LastTurn(s).current
           all == Append(done, last)
           b == SplitGroup(s)
<1>1. s \in Seq(G) /\ Distinct(s) /\ ToSet(s) = G
  BY InOrderSorts
<1> HIDE DEF s
<1>2. \A c \in G : c.tokens \in Nat /\ c.priority \in Nat /\ c.tokens <= MaxBatchTokens
                  /\ c.priority > HighPriorityThreshold
  BY BatchingAssumption DEF Candidates, IsCandidate, Immediate
<1>3. s # <<>>
  BY <1>1, EmptySet
<1>4. Filling(done, last, G, G) /\ last # <<>>
  BY <1>1, <1>2, <1>3, GroupFills
<1>5. b \in {all, done} /\ (AllowSingleItemBatches => b = all)
  BY DEF SplitGroup
<1> HIDE DEF done, last, b
<1>6. /\ done \in Seq(Seq(G)) /\ last \in Seq(G) /\ Apart(done) /\ Distinct(last)
      /\ Held(done) \cap ToSet(last) = {} /\ Held(done) \cup ToSet(last) = G
      /\ \A i \in 1..Len(done) : done[i] # <<>> /\ Fits(done[i])
      /\ \A i \in 1..Len(done) - 1 : Full(done[i], done[i + 1])
      /\ Fits(last) /\ (done # <<>> => Full(done[Len(done)], last))
  BY <1>4 DEF Filling
<1>7. /\ all \in Seq(Seq(G)) /\ Len(done) \in Nat /\ Len(all) = Len(done) + 1
      /\ \A i \in 1..Len(done) : all[i] = done[i]
      /\ all[Len(done) + 1] = last
      /\ Held(all) = Held(done) \cup ToSet(last) /\ Apart(all)
  BY <1>6, JoinedOne
<1> HIDE DEF all
<1>8. \A i \in 1..Len(all) : all[i] # <<>> /\ Fits(all[i])
  <2>1. \A i \in 1..Len(all) : i \in 1..Len(done) \/ i = Len(done) + 1
    BY <1>7
  <2> QED
    BY <1>4, <1>6, <1>7, <2>1
<1>9. \A i \in 1..Len(all) - 1 : Full(all[i], all[i + 1])
  <2> TAKE i \in 1..Len(all) - 1
  <2>1. CASE i = Len(done)
    <3>1. done # <<>> /\ i \in 1..Len(done)
      BY <1>6, <1>7, <2>1, NotEmpty
    <3> QED
      BY <1>6, <1>7, <2>1, <3>1
  <2>2. CASE i # Len(done)
    <3>1. i \in 1..Len(done) - 1 /\ i \in 1..Len(done) /\ i + 1 \in 1..Len(done)
      BY <1>7, <2>2
    <3> QED
      BY <1>6, <1>7, <3>1
  <2> QED
    BY <2>1, <2>2
<1>10. ASSUME NEW x, x \in Seq(Seq(G)), Apart(x),
              \A i \in 1..Len(x) : x[i] # <<>> /\ Fits(x[i]),
              \A i \in 1..Len(x) - 1 : Full(x[i], x[i + 1])
       PROVE  Good(x, G)
  <2>1. ASSUME NEW i \in 1..Len(x) PROVE x[i][1] \in G /\ ToSet(x[i]) \subseteq G
    <3>1. x[i] \in Seq(G)
      BY <1>10
    <3>2. ToSet(x[i]) \subseteq G
      BY <3>1 DEF ToSet
    <3> QED
      BY <1>10, <3>2, HeadsAreHeld
  <2>2. ASSUME NEW i \in 1..Len(x) PROVE SoundBatch(x[i])
    BY <1>10, <2>1 DEF SoundBatch, CompatibilityKey
  <2>3. ASSUME NEW i \in 1..Len(x) - 1 PROVE FullPair(x[i], x[i + 1])
    BY <1>10 DEF FullPair
  <2>4. ASSUME NEW i \in 1..Len(x), NEW j \in 1..Len(x) PROVE UrgentPair(x[i], x[j])
    <3>1. x[j][1].priority \in Nat /\ x[j][1].priority > HighPriorityThreshold
      BY <1>2, <2>1
    <3> QED
      BY <3>1, BatchingAssumption DEF UrgentPair
  <2> QED
    BY <1>10, <2>2, <2>3, <2>4 DEF Good
<1>11. Good(all, G)
  BY <1>7, <1>8, <1>9, <1>10
<1>12. Good(done, G)
  BY <1>6, <1>10
<1>13. Good(b, G)
  BY <1>5, <1>11, <1>12
<1>14. AllowSingleItemBatches => Held(b) = G
  BY <1>5, <1>6, <1>7
<1> QED
  BY <1>13, <1>14 DEF b, s

\* Good batches of some candidates are good batches of more.
LEMMA GoodOfMore ==
    ASSUME NEW G, NEW C, G \subseteq C, NEW b, Good(b, G)
    PROVE  Good(b, C) /\ Held(b) \subseteq G
<1>1. b \in Seq(Seq(G))
  BY DEF Good
<1>2. Seq(G) \subseteq Seq(C)
  OBVIOUS
<1>3. b \in Seq(Seq(C))
  BY <1>1, <1>2
<1>4. ASSUME NEW i \in 1..Len(b) PROVE ToSet(b[i]) \subseteq G
  <2>1. b[i] \in Seq(G)
    BY <1>1
  <2> QED
    BY <2>1 DEF ToSet
<1> QED
  BY <1>3, <1>4 DEF Good, Held

\* The groups of two candidates that come first in theirs are the same or have
\* different keys.
LEMMA FirstsDiffer ==
    ASSUME NEW C, Candidates(C), NEW c \in Firsts(C), NEW d \in Firsts(C),
           CompatibilityKey(c) = CompatibilityKey(d)
    PROVE  c = d
<1>1. c \in Shared(C) /\ d \in Shared(C) /\ ~Precedes(c, d) /\ ~Precedes(d, c)
  BY DEF Firsts
<1>2. c \in C /\ d \in C
  BY <1>1 DEF Shared
<1> QED
  BY <1>1, <1>2, PrecedesIsStrict

\* Every candidate that may share a batch is in the group of such a one.
LEMMA GroupsCover ==
    ASSUME NEW C, Candidates(C), NEW c \in Shared(C)
    PROVE  \E first \in Firsts(C) : c \in Group(C, first)
<1> DEFINE G == Group(C, c)
           s == InOrder(G)
<1>1. G \subseteq C /\ c \in G /\ G \subseteq Shared(C)
  BY DEF Group, Shared
<1>2. Candidates(G)
  BY <1>1, SomeCandidates
<1> HIDE DEF G
<1>3. s \in Seq(G) /\ ToSet(s) = G /\ Sorted(s, Len(s))
  BY <1>2, InOrderSorts
<1> HIDE DEF s
<1>4. 1 \in 1..Len(s) /\ DOMAIN s = 1..Len(s) /\ s[1] \in G
  <2>1. s # <<>>
    BY <1>1, <1>3, EmptySet
  <2> QED
    BY <1>3, <2>1, NotEmpty
<1>5. CompatibilityKey(s[1]) = CompatibilityKey(c) /\ s[1] \in Shared(C)
  BY <1>1, <1>4 DEF Group, G
<1>6. ASSUME NEW d \in Shared(C), CompatibilityKey(d) = CompatibilityKey(s[1])
      PROVE  ~Precedes(d, s[1])
  <2>1. d \in G
    BY <1>5, <1>6 DEF Group, G
  <2>2. PICK j \in 1..Len(s) : d = s[j]
    BY <1>3, <1>4, <2>1 DEF ToSet
  <2>3. CASE j = 1
    BY <1>2, <1>4, <2>2, <2>3, PrecedesIsStrict
  <2>4. CASE j # 1
    <3>1. Precedes(s[1], s[j])
      BY <1>3, <1>4, <2>4 DEF Sorted
    <3> QED
      BY <1>2, <1>4, <2>1, <2>2, <3>1, PrecedesIsStrict
  <2> QED
    BY <2>3, <2>4
<1>7. s[1] \in Firsts(C)
  BY <1>5, <1>6 DEF Firsts
<1>8. c \in Group(C, s[1])
  BY <1>5 DEF Group
<1> QED
  BY <1>7, <1>8

\* The batches of one group.
LEMMA GroupIsSplit ==
    ASSUME NEW C, Candidates(C), NEW first \in Firsts(C)
    PROVE  /\ Good(SplitGroup(InOrder(Group(C, first))), C)
           /\ Held(SplitGroup(InOrder(Group(C, first)))) \subseteq Group(C, first)
           /\ AllowSingleItemBatches =>
                 Held(SplitGroup(InOrder(Group(C, first)))) = Group(C, first)
<1> DEFINE G == Group(C, first)
<1>1. G \subseteq C /\ first \in G /\ \A c \in G : ~Immediate(c)
  BY DEF Firsts, Group, Shared
<1>2. \A c, d \in G : CompatibilityKey(c) = CompatibilityKey(d)
  BY DEF Group
<1> HIDE DEF G
<1>3. Candidates(G)
  BY <1>1, SomeCandidates
<1>4. /\ Good(SplitGroup(InOrder(G)), G)
      /\ AllowSingleItemBatches => Held(SplitGroup(InOrder(G))) = G
  BY <1>1, <1>2, <1>3, SplitIsGood
<1>5. Good(SplitGroup(InOrder(G)), C) /\ Held(SplitGroup(InOrder(G))) \subseteq G
  BY <1>1, <1>4, GoodOfMore
<1> QED
  BY <1>4, <1>5 DEF G

\* What is in the batches a and the groups of the first k of the sequence.
Covered(a, C, firsts, k) == Held(a) \cup UNION {Group(C, firsts[j]) : j \in 1..k}

\* One group more.
LEMMA GroupAdds ==
    ASSUME NEW C, Candidates(C), NEW a, Held(a) \subseteq C \ Shared(C),
           NEW firsts \in Seq(Firsts(C)), Distinct(firsts),
           NEW k \in Nat, k + 1 <= Len(firsts),
           NEW b, Good(b, C), Held(b) \subseteq Covered(a, C, firsts, k),
           AllowSingleItemBatches => Held(b) = Covered(a, C, firsts, k)
    PROVE  LET more == b \o SplitGroup(InOrder(Group(C, firsts[k + 1])))
           IN  /\ Good(more, C)
               /\ Held(more) \subseteq Covered(a, C, firsts, k + 1)
               /\ AllowSingleItemBatches => Held(more) = Covered(a, C, firsts, k + 1)
<1> DEFINE n == Len(firsts)
           first == firsts[k + 1]
           G == Group(C, first)
           x == SplitGroup(InOrder(G))
           before == UNION {Group(C, firsts[j]) : j \in 1..k}
<1>1. n \in Nat /\ k + 1 \in 1..n /\ \A j \in 1..k : j \in 1..n /\ j # k + 1
  OBVIOUS
<1>2. first \in Firsts(C) /\ \A j \in 1..k : firsts[j] \in Firsts(C)
  BY <1>1
<1>3. /\ Good(x, C) /\ Held(x) \subseteq G
      /\ AllowSingleItemBatches => Held(x) = G
  BY <1>2, GroupIsSplit
<1>4. Covered(a, C, firsts, k) = Held(a) \cup before
  BY DEF Covered
<1>5. Covered(a, C, firsts, k + 1) = (Held(a) \cup before) \cup G
  <2>1. 1..k + 1 = 1..k \cup {k + 1}
    OBVIOUS
  <2>2. UNION {Group(C, firsts[j]) : j \in 1..k + 1} = before \cup G
    BY <2>1
  <2> QED
    BY <2>2 DEF Covered
<1>6. ASSUME NEW c \in before, NEW d \in G, CompatibilityKey(c) = CompatibilityKey(d)
      PROVE  FALSE
  <2>1. PICK j \in 1..k : c \in Group(C, firsts[j])
    OBVIOUS
  <2>2. CompatibilityKey(firsts[j]) = CompatibilityKey(first)
    BY <1>6, <2>1 DEF Group
  <2>3. firsts[j] = firsts[k + 1]
    BY <1>2, <2>1, <2>2, FirstsDiffer
  <2> QED
    BY <1>1, <2>1, <2>3 DEF Distinct
<1>7. \A d \in G : ~Immediate(d)
  BY DEF Group, Shared
<1>8. \A c \in Held(a) : Immediate(c)
  BY DEF Shared
<1> HIDE DEF x, G, before
<1>9. b \in Seq(Seq(C)) /\ x \in Seq(Seq(C))
  BY <1>3 DEF Good
<1>10. Held(b \o x) = Held(b) \cup Held(x)
  BY <1>9, Joined
<1>11. \A c \in Held(b), d \in Held(x) :
          ~Immediate(c) => CompatibilityKey(c) # CompatibilityKey(d)
  BY <1>3, <1>4, <1>6, <1>8
<1>12. Held(b) \cap Held(x) = {}
  BY <1>3, <1>7, <1>11
<1>13. \A d \in Held(x) : ~Immediate(d)
  BY <1>3, <1>7
<1>14. \A c \in C : c.priority \in Nat
  BY DEF Candidates, IsCandidate
<1>15. Good(b \o x, C)
  BY <1>3, <1>11, <1>12, <1>13, <1>14, GoodJoined
<1>16. Held(b \o x) \subseteq Covered(a, C, firsts, k + 1)
  BY <1>3, <1>4, <1>5, <1>10
<1>17. AllowSingleItemBatches => Held(b \o x) = Covered(a, C, firsts, k + 1)
  BY <1>3, <1>4, <1>5, <1>10
<1> QED
  BY <1>15, <1>16, <1>17 DEF x, G

\* All groups.
LEMMA ExtendedIsGood ==
    ASSUME NEW C, Candidates(C), NEW a, Good(a, C), Held(a) = C \ Shared(C)
    PROVE  /\ Good(Extended(a, C), C) /\ Held(Extended(a, C)) \subseteq C
           /\ AllowSingleItemBatches => Held(Extended(a, C)) = C
<1> DEFINE firsts == InOrder(Firsts(C))
           n == Len(firsts)
           X == Seq(Seq(C))
           x(k) == SplitGroup(InOrder(Group(C, firsts[k])))
           step == [p \in X \X (1..n) |-> p[1] \o x(p[2])]
           Rec(f) == f = [k \in 0..n |-> IF k = 0 THEN a ELSE f[k - 1] \o x(k)]
<1>1. Firsts(C) \subseteq C /\ Candidates(Firsts(C))
  <2>1. Firsts(C) \subseteq C
    BY DEF Firsts, Shared
  <2> QED
    BY <2>1, SomeCandidates
<1>2. firsts \in Seq(Firsts(C)) /\ Distinct(firsts) /\ ToSet(firsts) = Firsts(C)
  BY <1>1, InOrderSorts
<1> HIDE DEF firsts
<1>3. n \in Nat /\ DOMAIN firsts = 1..n /\ \A k \in 1..n : firsts[k] \in Firsts(C)
  BY <1>2
<1>4. a \in X /\ \A k \in 1..n : x(k) \in X
  <2>1. ASSUME NEW k \in 1..n PROVE x(k) \in X
    <3>1. Good(x(k), C)
      BY <1>3, GroupIsSplit
    <3> QED
      BY <3>1 DEF Good
  <2> QED
    BY <2>1 DEF Good
<1> HIDE DEF x
<1>5. step \in [X \X (1..n) -> X]
  BY <1>4
<1>6. \A y \in X, k \in 1..n : step[<<y, k>>] = y \o x(k)
  OBVIOUS
<1> HIDE DEF step, n, X
<1>7. PICK g : Turns(X, n, a, step, g)
  BY <1>3, <1>4, <1>5, LoopRuns
<1>8. ASSUME NEW k \in 1..n PROVE g[k] = g[k - 1] \o x(k)
  <2>1. k - 1 \in 0..n
    BY <1>3
  <2>2. g[k - 1] \in X /\ g[k] = step[<<g[k - 1], k>>]
    BY <1>7, <2>1 DEF Turns
  <2> QED
    BY <1>6, <2>2
<1>9. Rec(g)
  BY <1>3, <1>7, <1>8 DEF Turns
<1> DEFINE f == CHOOSE h : Rec(h)
<1>10. Rec(f)
  BY <1>9
<1>11. Extended(a, C) = f[n]
  BY DEF Extended, n, firsts, x
<1> HIDE DEF f
<1>12. f[0] = a /\ \A k \in 1..n : f[k] = f[k - 1] \o x(k)
  <2>1. 0 \in 0..n /\ \A k \in 1..n : k \in 0..n /\ k # 0
    BY <1>3
  <2>2. \A k \in 0..n : f[k] = IF k = 0 THEN a ELSE f[k - 1] \o x(k)
    BY <1>10, Zenon
  <2> QED
    BY <2>1, <2>2, Zenon
<1> DEFINE Reached(k) ==
              /\ Good(f[k], C) /\ Held(f[k]) \subseteq Covered(a, C, firsts, k)
              /\ AllowSingleItemBatches => Held(f[k]) = Covered(a, C, firsts, k)
           T == {k \in Nat : k <= n => Reached(k)}
<1>13. 0 \in T
  <2>1. 1..0 = {}
    OBVIOUS
  <2>2. Covered(a, C, firsts, 0) = Held(a)
    BY <2>1 DEF Covered
  <2> QED
    BY <1>12, <2>2
<1>14. ASSUME NEW k \in Nat, k \in T PROVE k + 1 \in T
  <2> SUFFICES ASSUME k + 1 <= n PROVE Reached(k + 1)
    OBVIOUS
  <2>1. Reached(k)
    BY <1>3, <1>14
  <2>2. f[k + 1] = f[k] \o SplitGroup(InOrder(Group(C, firsts[k + 1])))
    <3>1. k + 1 \in 1..n /\ (k + 1) - 1 = k
      BY <1>3
    <3> QED
      BY <1>12, <3>1 DEF x
  <2>3. k + 1 <= Len(firsts) /\ Held(a) \subseteq C \ Shared(C)
    BY DEF n
  <2> QED
    BY <1>2, <2>1, <2>2, <2>3, GroupAdds
<1> HIDE DEF T
<1>15. \A k \in Nat : k \in T
  BY <1>13, <1>14, SetInduction
<1>16. Reached(n)
  BY <1>3, <1>15 DEF T
<1>17. Covered(a, C, firsts, n) = C
  <2>1. ASSUME NEW c \in C PROVE c \in Covered(a, C, firsts, n)
    <3>1. CASE c \in Shared(C)
      <4>1. PICK first \in Firsts(C) : c \in Group(C, first)
        BY <3>1, GroupsCover
      <4>2. PICK j \in 1..n : first = firsts[j]
        BY <1>2, <1>3 DEF ToSet
      <4> QED
        BY <4>1, <4>2 DEF Covered
    <3>2. CASE c \notin Shared(C)
      BY <3>2 DEF Covered
    <3> QED
      BY <3>1, <3>2
  <2>2. \A first : Group(C, first) \subseteq C
    BY DEF Group, Shared
  <2>3. Covered(a, C, firsts, n) \subseteq C
    BY <2>2 DEF Covered
  <2> QED
    BY <2>1, <2>3
<1> QED
  BY <1>11, <1>16, <1>17

\* build_batches as a whole.
LEMMA BatchesAreGood ==
    ASSUME NEW C, Candidates(C)
    PROVE  /\ Good(BuildBatches(C), C) /\ Held(BuildBatches(C)) \subseteq C
           /\ AllowSingleItemBatches => Held(BuildBatches(C)) = C
<1> DEFINE D == C \ Shared(C)
           a == Singles(InOrder(D))
<1>1. Candidates(D) /\ D \subseteq C /\ \A c \in D : Immediate(c)
  <2>1. D \subseteq C
    OBVIOUS
  <2> QED
    BY <2>1, SomeCandidates DEF Shared
<1> HIDE DEF D
<1>2. Good(a, C) /\ Held(a) = D
  BY <1>1, SinglesAreGood
<1> HIDE DEF a
<1>3. /\ Good(Extended(a, C), C) /\ Held(Extended(a, C)) \subseteq C
      /\ AllowSingleItemBatches => Held(Extended(a, C)) = C
  BY <1>2, ExtendedIsGood DEF D
<1> QED
  BY <1>3 DEF BuildBatches, a, D

-----------------------------------------------------------------------------
(* The model a request is routed to.                                        *)

\* Memory, priority and position order the models strictly.
LEMMA BeforeIsStrict ==
    ASSUME NEW m \in Models, NEW n \in Models, NEW o \in Models
    PROVE  /\ m # n => Before(m, n) \/ Before(n, m)
           /\ Before(m, n) /\ Before(n, o) => Before(m, o)
<1>1. /\ MaxContextTokens[m] \in Nat /\ MaxContextTokens[n] \in Nat /\ MaxContextTokens[o] \in Nat
      /\ ProfilePriority[m] \in Nat /\ ProfilePriority[n] \in Nat /\ ProfilePriority[o] \in Nat
      /\ m \in Nat /\ n \in Nat /\ o \in Nat
  BY RouterAssumption
<1> QED
  BY <1>1 DEF Before

\* So some models have a first and a last one.
EndsExist(S) ==
    /\ \E m \in S : \A n \in S \ {m} : Before(m, n)
    /\ \E m \in S : \A n \in S \ {m} : Before(n, m)

LEMMA OneModelMore ==
    ASSUME NEW S \in SUBSET Models, NEW x \in S, EndsExist(S \ {x})
    PROVE  EndsExist(S)
<1>1. \E m \in S : \A n \in S \ {m} : Before(m, n)
  <2>1. PICK y \in S \ {x} : \A n \in (S \ {x}) \ {y} : Before(y, n)
    BY DEF EndsExist
  <2>2. CASE Before(y, x)
    BY <2>1, <2>2
  <2>3. CASE Before(x, y)
    <3>1. \A n \in S \ {x} : Before(x, n)
      BY <2>1, <2>3, BeforeIsStrict
    <3> QED
      BY <3>1
  <2> QED
    BY <2>1, <2>2, <2>3, BeforeIsStrict
<1>2. \E m \in S : \A n \in S \ {m} : Before(n, m)
  <2>1. PICK y \in S \ {x} : \A n \in (S \ {x}) \ {y} : Before(n, y)
    BY DEF EndsExist
  <2>2. CASE Before(x, y)
    BY <2>1, <2>2
  <2>3. CASE Before(y, x)
    <3>1. \A n \in S \ {x} : Before(n, x)
      BY <2>1, <2>3, BeforeIsStrict
    <3> QED
      BY <3>1
  <2> QED
    BY <2>1, <2>2, <2>3, BeforeIsStrict
<1> QED
  BY <1>1, <1>2 DEF EndsExist

LEMMA ModelsHaveEnds ==
    ASSUME NEW S \in SUBSET Models, S # {}
    PROVE  EndsExist(S)
<1> DEFINE T == {n \in Nat : \A D \in SUBSET Models : Cardinality(D) = n + 1 => EndsExist(D)}
<1>1. ASSUME NEW D \in SUBSET Models
      PROVE  /\ IsFiniteSet(D) /\ Cardinality(D) \in Nat
             /\ D # {} => Cardinality(D) # 0
             /\ Cardinality(D) # 0 => D # {}
             /\ \A m \in D : D \ {m} \in SUBSET Models /\ Cardinality(D \ {m}) = Cardinality(D) - 1
  <2>1. IsFiniteSet(D)
    BY FS_Subset, RouterAssumption
  <2> QED
    BY <2>1, FS_EmptySet, FS_RemoveElement, FS_CardinalityType
<1>2. 0 \in T
  <2> SUFFICES ASSUME NEW D \in SUBSET Models, Cardinality(D) = 1 PROVE EndsExist(D)
    OBVIOUS
  <2>1. PICK m : D = {m}
    BY <1>1, FS_Singleton
  <2> QED
    BY <2>1 DEF EndsExist
<1>3. ASSUME NEW n \in Nat, n \in T PROVE n + 1 \in T
  <2> SUFFICES ASSUME NEW D \in SUBSET Models, Cardinality(D) = n + 2 PROVE EndsExist(D)
    OBVIOUS
  <2>1. D # {}
    BY <1>1
  <2>2. PICK x \in D : D \ {x} \in SUBSET Models /\ Cardinality(D \ {x}) = n + 1
    BY <1>1, <2>1
  <2>3. EndsExist(D \ {x})
    BY <1>3, <2>2
  <2> QED
    BY <2>3, OneModelMore
<1> HIDE DEF T
<1>4. \A n \in Nat : n \in T
  BY <1>2, <1>3, SetInduction
<1>5. Cardinality(S) - 1 \in Nat /\ Cardinality(S) = (Cardinality(S) - 1) + 1
  BY <1>1
<1>6. Cardinality(S) - 1 \in T
  BY <1>4, <1>5
<1> QED
  BY <1>5, <1>6 DEF T

\* The choices of the router are models.
LEMMA FirstIsFirst ==
    ASSUME NEW S \in SUBSET Models, S # {}
    PROVE  First(S) \in S /\ \A n \in S \ {First(S)} : Before(First(S), n)
  BY ModelsHaveEnds DEF EndsExist, First

LEMMA LargestIsLast ==
    LargestModel \in Models /\ \A n \in Models \ {LargestModel} : Before(n, LargestModel)
  BY ModelsHaveEnds, RouterAssumption DEF EndsExist, LargestModel

\* What route promises for a request and a set of degraded models.
RouteIsRight(request, degraded, model) ==
    LET tokens == EstimatedTokens(request)
    IN  /\ model \in Models
        /\ \/ tokens <= MaxContextTokens[model]
           \/ request.requested = model
           \/ \A m \in Models : tokens > MaxContextTokens[m]
        /\ ( /\ request.requested = NoModel
             /\ request.event \notin ComplexEventTypes
             /\ request.priority > 2
             /\ tokens <= MaxContextTokens[SmallestModel]
             /\ \E m \in Models \ degraded : tokens <= MaxContextTokens[m] )
           => model \notin degraded

LEMMA TokensAreNatural ==
    ASSUME NEW k \in Kinds
    PROVE  EstimatedTokens(k) \in Nat /\ k.priority \in Nat
<1>1. k.length \in Nat /\ k.priority \in Nat
  BY DispatchAssumption
<1>2. k.length \div 4 \in Nat
  BY <1>1
<1> QED
  BY <1>1, <1>2 DEF EstimatedTokens

LEMMA RouteRight ==
    ASSUME NEW k \in Kinds, NEW degraded
    PROVE  RouteIsRight(k, degraded, Route(k, degraded))
<1> DEFINE tokens == EstimatedTokens(k)
           model == Route(k, degraded)
<1> SUFFICES RouteIsRight(k, degraded, model)
  OBVIOUS
<1>1. tokens \in Nat /\ k.priority \in Nat
  BY TokensAreNatural
<1>2. /\ SmallestModel \in Models /\ LargestModel \in Models
      /\ MaxContextTokens[SmallestModel] \in Nat /\ MaxContextTokens[LargestModel] \in Nat
      /\ MaxContextTokens[SmallestModel] <= MaxContextTokens[LargestModel]
  <2>1. SmallestModel \in Models /\ LargestModel \in Models
    BY FirstIsFirst, LargestIsLast, RouterAssumption DEF SmallestModel
  <2>2. MaxContextTokens[SmallestModel] \in Nat /\ MaxContextTokens[LargestModel] \in Nat
    BY <2>1, RouterAssumption
  <2>3. SmallestModel = LargestModel \/ Before(SmallestModel, LargestModel)
    BY <2>1, LargestIsLast
  <2> QED
    BY <2>1, <2>2, <2>3 DEF Before
<1>3. \A m \in Models : MaxContextTokens[m] \in Nat /\ m # NoModel
  BY RouterAssumption DEF NoModel
<1> HIDE DEF tokens, model
<1>4. CASE k.requested \in Models
  <2>1. model = k.requested
    BY <1>4 DEF Route, model
  <2> QED
    BY <1>3, <1>4, <2>1 DEF RouteIsRight
<1>5. CASE k.requested \notin Models /\ tokens > MaxContextTokens[SmallestModel]
  <2>1. model = SmallestThatFits(tokens)
    BY <1>5 DEF Route, tokens, model
  <2> DEFINE fitting == {m \in Models : tokens <= MaxContextTokens[m]}
  <2>2. CASE fitting = {}
    <3>1. \A m \in Models : tokens > MaxContextTokens[m]
      BY <1>1, <1>3, <2>2
    <3>2. model = LargestModel
      BY <2>1, <2>2 DEF SmallestThatFits
    <3> QED
      BY <1>1, <1>2, <1>5, <3>1, <3>2 DEF RouteIsRight, tokens
  <2>3. CASE fitting # {}
    <3>1. model \in fitting
      BY <2>1, <2>3, FirstIsFirst DEF SmallestThatFits
    <3> QED
      BY <1>1, <1>2, <1>5, <3>1 DEF RouteIsRight, tokens
  <2> QED
    BY <2>2, <2>3
<1>6. CASE /\ k.requested \notin Models /\ tokens <= MaxContextTokens[SmallestModel]
           /\ k.event \in ComplexEventTypes \/ k.priority <= 2
  <2>1. model = LargestModel
    BY <1>1, <1>2, <1>6 DEF Route, tokens, model
  <2>2. tokens <= MaxContextTokens[LargestModel]
    BY <1>1, <1>2, <1>6
  <2> QED
    BY <1>1, <1>2, <1>6, <2>1, <2>2 DEF RouteIsRight, tokens
<1>7. CASE /\ k.requested \notin Models /\ tokens <= MaxContextTokens[SmallestModel]
           /\ k.event \notin ComplexEventTypes /\ k.priority > 2
  <2> DEFINE others == Alternatives(k, degraded)
  <2>1. others = {m \in Models \ (degraded \cup {SmallestModel}) : tokens <= MaxContextTokens[m]}
    BY DEF Alternatives, tokens
  <2>2. model = IF SmallestModel \in degraded /\ others # {} THEN First(others) ELSE SmallestModel
    BY <1>1, <1>2, <1>7 DEF Route, tokens, model
  <2> HIDE DEF others
  <2>3. CASE SmallestModel \in degraded /\ others # {}
    <3>1. model \in others
      BY <2>1, <2>2, <2>3, FirstIsFirst
    <3> QED
      BY <2>1, <3>1 DEF RouteIsRight, tokens
  <2>4. CASE ~(SmallestModel \in degraded /\ others # {})
    <3>1. model = SmallestModel
      BY <2>2, <2>4
    <3>2. (\E m \in Models \ degraded : tokens <= MaxContextTokens[m])
             => SmallestModel \notin degraded
      BY <2>1, <2>4
    <3> QED
      BY <1>2, <1>7, <3>1, <3>2 DEF RouteIsRight, tokens
  <2> QED
    BY <2>3, <2>4
<1> QED
  BY <1>1, <1>2, <1>4, <1>5, <1>6, <1>7


-----------------------------------------------------------------------------
(* The worker: what its steps do to messages and plan.                      *)

\* Finitely many tasks, a state of a message each.
MessagesTyped ==
    /\ DOMAIN messages \subseteq Tasks
    /\ \A t \in DOMAIN messages :
          /\ messages[t] \in Message
          /\ messages[t].place = "queue" => messages[t].receives < MaxReceives
          /\ messages[t].tried <= messages[t].receives
          /\ messages[t].place = "hand" => messages[t].tried < messages[t].receives

\* The plan is good batches of candidates with different ids.
PlanIsGood == \E C : Candidates(C) /\ Good(plan, C)

\* A planned candidate is a message in hand, with a model that route may choose.
Assigned(c) ==
    /\ c.id \in At("hand")
    /\ c.model \in Models
    /\ \/ c.tokens <= MaxContextTokens[c.model]
       \/ messages[c.id].request.requested = c.model
       \/ \A m \in Models : c.tokens > MaxContextTokens[m]

PlanInHand == \A c \in Held(plan) : Assigned(c)

\* Nothing else is in hand, if every received message may have a batch.
HandIsPlanned ==
    AllowSingleItemBatches => \A t \in At("hand") : \E c \in Held(plan) : c.id = t

\* Every delivery that is over had an outcome.
ProfilesSuffice == \A m \in Models : MaxBatchSize <= MaxProfileBatch[m]

NothingWasted ==
    ProfilesSuffice => \A t \in DOMAIN messages :
        messages[t].receives = IF messages[t].place = "hand" THEN messages[t].tried + 1
                                                             ELSE messages[t].tried

DispatchInv ==
    MessagesTyped /\ PlanIsGood /\ PlanInHand /\ HandIsPlanned /\ NothingWasted

\* A message whose delivery is over.
After(m, wasTried) ==
    [m EXCEPT !.place = IF m.receives < MaxReceives THEN "queue" ELSE "dead",
              !.tried = IF wasTried THEN @ + 1 ELSE @]

\* The first batch leaves the plan: those of its messages that are done are
\* deleted, and the delivery of the others is over.
Leaves(done, wasTried) ==
    LET M == Members(Head(plan))
    IN  /\ plan # <<>> /\ plan' = Tail(plan)
        /\ done \subseteq M
        /\ DOMAIN messages' = DOMAIN messages \ done
        /\ \A t \in DOMAIN messages \ M : messages'[t] = messages[t]
        /\ \A t \in M \ done : messages'[t] = After(messages[t], wasTried)

\* Tried or too large for its model's profile.
RightlyTried(wasTried) ==
    \/ wasTried = TRUE
    \/ /\ ~Scheduled(Model(Head(plan)), Len(Head(plan)))
       /\ wasTried = ~Scheduled(Model(Head(plan)), 1)

LEMMA UpdatedMessages ==
    ASSUME NEW S, S \subseteq DOMAIN messages, NEW f, DOMAIN f = S
    PROVE  /\ DOMAIN Updated(f) = DOMAIN messages
           /\ \A t \in S : Updated(f)[t] = f[t]
           /\ \A t \in DOMAIN messages \ S : Updated(f)[t] = messages[t]
<1>1. DOMAIN messages \cup DOMAIN f = DOMAIN messages
  OBVIOUS
<1> QED
  BY <1>1 DEF Updated

LEMMA ReturnedMessages ==
    ASSUME NEW S, NEW wasTried
    PROVE  /\ DOMAIN Returned(S, wasTried) = S
           /\ \A t \in S : Returned(S, wasTried)[t] = After(messages[t], wasTried)
  BY DEF Returned, After

LEMMA BatchLeaves ==
    ASSUME Members(Head(plan)) \subseteq DOMAIN messages, ProcessBatch
    PROVE  \E done, wasTried : Leaves(done, wasTried) /\ RightlyTried(wasTried)
<1> DEFINE M == Members(Head(plan))
<1>1. ASSUME NEW done, done \subseteq M, NEW wasTried, plan # <<>>, plan' = Tail(plan),
             messages' = Restrict(Updated(Returned(M \ done, wasTried)),
                                  DOMAIN messages \ done)
      PROVE  Leaves(done, wasTried)
  <2> DEFINE f == Returned(M \ done, wasTried)
  <2>1. DOMAIN f = M \ done /\ \A t \in M \ done : f[t] = After(messages[t], wasTried)
    BY ReturnedMessages
  <2> HIDE DEF f, M
  <2>2. M \ done \subseteq DOMAIN messages
    BY DEF M
  <2>3. /\ \A t \in M \ done : Updated(f)[t] = f[t]
        /\ \A t \in DOMAIN messages \ (M \ done) : Updated(f)[t] = messages[t]
    BY <2>1, <2>2, UpdatedMessages
  <2>4. messages' = [t \in DOMAIN messages \ done |-> Updated(f)[t]]
    BY <1>1 DEF Restrict, f
  <2>5. /\ DOMAIN messages' = DOMAIN messages \ done
        /\ \A t \in DOMAIN messages \ done : messages'[t] = Updated(f)[t]
    BY <2>4
  <2>6. \A t \in DOMAIN messages \ M : messages'[t] = messages[t]
    BY <1>1, <2>3, <2>5
  <2>7. \A t \in M \ done : messages'[t] = After(messages[t], wasTried)
    BY <2>1, <2>2, <2>3, <2>5
  <2> QED
    BY <1>1, <2>5, <2>6, <2>7 DEF Leaves, M
<1>2. ASSUME NEW wasTried, plan # <<>>, plan' = Tail(plan),
             messages' = Updated(Returned(M, wasTried))
      PROVE  Leaves({}, wasTried)
  <2> DEFINE f == Returned(M, wasTried)
  <2>1. DOMAIN f = M /\ \A t \in M : f[t] = After(messages[t], wasTried)
    BY ReturnedMessages
  <2>2. messages' = Updated(f)
    BY <1>2
  <2> HIDE DEF f, M
  <2>3. M \subseteq DOMAIN messages
    BY DEF M
  <2>4. /\ DOMAIN messages' = DOMAIN messages
        /\ \A t \in M : messages'[t] = f[t]
        /\ \A t \in DOMAIN messages \ M : messages'[t] = messages[t]
    BY <2>1, <2>2, <2>3, UpdatedMessages
  <2> QED
    BY <1>2, <2>1, <2>4 DEF Leaves, M
<1>3. CASE DeferBatch
  <2> DEFINE wasTried == ~Scheduled(Model(Head(plan)), 1)
  <2>1. /\ plan # <<>> /\ plan' = Tail(plan) /\ messages' = Updated(Returned(M, wasTried))
        /\ ~Scheduled(Model(Head(plan)), Len(Head(plan)))
    BY <1>3 DEF DeferBatch
  <2>2. RightlyTried(wasTried)
    BY <2>1 DEF RightlyTried
  <2> HIDE DEF wasTried, M
  <2>3. Leaves({}, wasTried)
    BY <1>2, <2>1
  <2> QED
    BY <2>2, <2>3
<1>4. CASE RefuseBatch
  <2>1. plan # <<>> /\ plan' = Tail(plan) /\ messages' = Updated(Returned(M, TRUE))
    BY <1>4 DEF RefuseBatch
  <2> HIDE DEF M
  <2>2. Leaves({}, TRUE)
    BY <1>2, <2>1
  <2> QED
    BY <2>2 DEF RightlyTried
<1>5. CASE RunBatch
  <2>1. PICK outputs \in InferBatch(Head(plan)) :
           /\ plan # <<>> /\ plan' = Tail(plan)
           /\ messages' = Restrict(Updated(Returned(M \ outputs.done, TRUE)),
                                   DOMAIN messages \ outputs.done)
    BY <1>5 DEF RunBatch
  <2>2. outputs.done \subseteq M
    BY DEF InferBatch
  <2> HIDE DEF M
  <2>3. Leaves(outputs.done, TRUE)
    BY <1>1, <2>1, <2>2
  <2> QED
    BY <2>3 DEF RightlyTried
<1> QED
  BY <1>3, <1>4, <1>5 DEF ProcessBatch

\* The batches after the first.
LEMMA TailIsGood ==
    ASSUME NEW C, NEW b, Good(b, C), b # <<>>
    PROVE  /\ Good(Tail(b), C)
           /\ Head(b) \in Seq(C) /\ Head(b) # <<>> /\ SoundBatch(Head(b))
           /\ Held(b) = ToSet(Head(b)) \cup Held(Tail(b))
           /\ ToSet(Head(b)) \cap Held(Tail(b)) = {}
<1> DEFINE r == Tail(b)
<1>1. b \in Seq(Seq(C)) /\ 1 \in 1..Len(b) /\ Len(b) \in Nat
  BY NotEmpty DEF Good
<1>2. /\ r \in Seq(Seq(C)) /\ Len(r) = Len(b) - 1
      /\ \A i \in 1..Len(r) : r[i] = b[i + 1]
  BY <1>1
<1>3. Head(b) = b[1] /\ b[1] \in Seq(C)
  BY <1>1
<1> HIDE DEF r
<1>4. \A i \in 1..Len(r) : i + 1 \in 1..Len(b) /\ i + 1 # 1
  BY <1>1, <1>2
<1>5. \A i \in 1..Len(b) : i = 1 \/ \E j \in 1..Len(r) : i = j + 1
  <2> TAKE i \in 1..Len(b)
  <2>1. CASE i # 1
    <3>1. i - 1 \in 1..Len(r) /\ i = (i - 1) + 1
      BY <1>1, <1>2, <2>1
    <3> QED
      BY <3>1
  <2> QED
    BY <2>1
<1>6. Apart(r)
  <2>1. ASSUME NEW i \in 1..Len(r) PROVE Distinct(r[i])
    <3>1. i + 1 \in 1..Len(b) /\ r[i] = b[i + 1]
      BY <1>2, <1>4
    <3> QED
      BY <3>1 DEF Good, Apart
  <2>2. ASSUME NEW i \in 1..Len(r), NEW j \in 1..Len(r), i # j
        PROVE  ToSet(r[i]) \cap ToSet(r[j]) = {}
    <3>1. i + 1 \in 1..Len(b) /\ j + 1 \in 1..Len(b) /\ i + 1 # j + 1
      BY <1>4, <2>2
    <3>2. ToSet(b[i + 1]) \cap ToSet(b[j + 1]) = {}
      BY <3>1 DEF Good, Apart
    <3> QED
      BY <1>2, <3>2
  <2> QED
    BY <2>1, <2>2 DEF Apart
<1>7. Held(b) = ToSet(b[1]) \cup Held(r)
  <2>1. ASSUME NEW x \in Held(b) PROVE x \in ToSet(b[1]) \cup Held(r)
    <3>1. PICK i \in 1..Len(b) : x \in ToSet(b[i])
      BY DEF Held
    <3>2. CASE i # 1
      <4>1. PICK j \in 1..Len(r) : i = j + 1
        BY <1>5, <3>2
      <4>2. x \in ToSet(r[j])
        BY <1>2, <3>1, <4>1
      <4> QED
        BY <4>2 DEF Held
    <3> QED
      BY <3>1, <3>2
  <2>2. ASSUME NEW x \in Held(r) PROVE x \in Held(b)
    BY <1>2, <1>4 DEF Held
  <2>3. ASSUME NEW x \in ToSet(b[1]) PROVE x \in Held(b)
    BY <1>1 DEF Held
  <2> QED
    BY <2>1, <2>2, <2>3
<1>8. ToSet(b[1]) \cap Held(r) = {}
  <2> SUFFICES ASSUME NEW i \in 1..Len(r) PROVE ToSet(b[1]) \cap ToSet(r[i]) = {}
    BY DEF Held
  <2> QED
    BY <1>1, <1>2, <1>4 DEF Good, Apart
<1>9. \A i \in 1..Len(r) : SoundBatch(r[i])
  BY <1>2, <1>4 DEF Good
<1>10. ASSUME NEW i \in 1..Len(r) - 1 PROVE FullPair(r[i], r[i + 1])
  <2>1. i \in 1..Len(r) /\ i + 1 \in 1..Len(r) /\ i + 1 \in 1..Len(b) - 1
    BY <1>1, <1>2
  <2>2. r[i] = b[i + 1] /\ r[i + 1] = b[(i + 1) + 1]
    BY <1>2, <2>1
  <2>3. FullPair(b[i + 1], b[(i + 1) + 1])
    BY <2>1 DEF Good
  <2> QED
    BY <2>2, <2>3
<1>11. ASSUME NEW i \in 1..Len(r), NEW j \in 1..Len(r), i < j PROVE UrgentPair(r[i], r[j])
  <2>1. i + 1 \in 1..Len(b) /\ j + 1 \in 1..Len(b) /\ i + 1 < j + 1
    BY <1>4, <1>11
  <2>2. UrgentPair(b[i + 1], b[j + 1])
    BY <2>1 DEF Good
  <2> QED
    BY <1>2, <2>2
<1>12. SoundBatch(b[1])
  BY <1>1 DEF Good
<1> QED
  BY <1>2, <1>3, <1>6, <1>7, <1>8, <1>9, <1>10, <1>11, <1>12 DEF Good, SoundBatch, r

\* The messages of a plan in hand are there.
LEMMA FirstBatchInHand ==
    ASSUME DispatchInv, plan # <<>>
    PROVE  /\ Members(Head(plan)) \subseteq At("hand")
           /\ Members(Head(plan)) \subseteq DOMAIN messages
           /\ \A c \in Held(Tail(plan)) : c.id \notin Members(Head(plan)) /\ c \in Held(plan)
           /\ \A c \in Held(plan) : c \in Held(Tail(plan)) \/ c.id \in Members(Head(plan))
<1>1. PICK C : Candidates(C) /\ Good(plan, C)
  BY DEF DispatchInv, PlanIsGood
<1>2. /\ Good(Tail(plan), C)
      /\ Held(plan) = ToSet(Head(plan)) \cup Held(Tail(plan))
      /\ ToSet(Head(plan)) \cap Held(Tail(plan)) = {}
  BY <1>1, TailIsGood
<1>3. \A c \in ToSet(Head(plan)) : c \in C
  <2>1. Head(plan) \in Seq(C)
    BY <1>1, TailIsGood
  <2> QED
    BY <2>1 DEF ToSet
<1>4. \A c \in Held(Tail(plan)) : c \in C
  BY <1>1, <1>2, GoodOfMore
<1>5. \A c \in ToSet(Head(plan)) : c.id \in At("hand")
  BY <1>2 DEF DispatchInv, PlanInHand, Assigned
<1>6. ASSUME NEW c \in Held(Tail(plan)), c.id \in Members(Head(plan)) PROVE FALSE
  <2>1. PICK d \in ToSet(Head(plan)) : c.id = d.id
    BY <1>6 DEF Members
  <2>2. c = d
    BY <1>1, <1>3, <1>4, <2>1 DEF Candidates
  <2> QED
    BY <1>2, <2>2
<1>7. \A c \in ToSet(Head(plan)) : c.id \in Members(Head(plan))
  BY DEF Members
<1>8. Members(Head(plan)) \subseteq At("hand")
  BY <1>5 DEF Members
<1> QED
  BY <1>2, <1>6, <1>7, <1>8 DEF At

\* A delivery that ends keeps a message a message, and wastes nothing if it was
\* tried.
LEMMA AfterTyped ==
    ASSUME NEW m \in Message, m.place = "hand", m.tried < m.receives, NEW wasTried \in BOOLEAN
    PROVE  LET n == After(m, wasTried)
           IN  /\ n \in Message
               /\ n.place = "queue" => n.receives < MaxReceives
               /\ n.tried <= n.receives
               /\ n.place # "hand"
               /\ wasTried /\ m.receives = m.tried + 1 => n.receives = n.tried
<1> DEFINE n == After(m, wasTried)
<1>1. /\ m.request \in Kinds /\ m.receives \in 0..MaxReceives /\ m.tried \in 0..MaxReceives
      /\ MaxReceives \in Nat
  BY DispatchAssumption DEF Message
<1>2. n \in Message
  <2> DEFINE place == IF m.receives < MaxReceives THEN "queue" ELSE "dead"
             tried == IF wasTried THEN m.tried + 1 ELSE m.tried
  <2>1. place \in {"queue", "hand", "dead"} /\ tried \in 0..MaxReceives
    BY <1>1
  <2>2. n = [m EXCEPT !.place = place, !.tried = tried]
    BY DEF After
  <2> HIDE DEF place, tried, n
  <2> QED
    BY <2>1, <2>2 DEF Message
<1>3. /\ n.receives = m.receives /\ n.tried = IF wasTried THEN m.tried + 1 ELSE m.tried
      /\ n.place = IF m.receives < MaxReceives THEN "queue" ELSE "dead"
  BY DEF After, Message
<1> HIDE DEF n
<1>4. n.tried <= n.receives
  BY <1>1, <1>3
<1> QED
  BY <1>1, <1>2, <1>3, <1>4 DEF n

\* With profiles that suffice, a batch the scheduler does not place is one that
\* it would not place alone either.
LEMMA AlwaysTried ==
    ASSUME DispatchInv, plan # <<>>, ProfilesSuffice, NEW wasTried, RightlyTried(wasTried)
    PROVE  wasTried = TRUE
<1> DEFINE batch == Head(plan)
           model == Model(batch)
<1>1. PICK C : Candidates(C) /\ Good(plan, C)
  BY DEF DispatchInv, PlanIsGood
<1>2. batch \in Seq(C) /\ batch # <<>> /\ SoundBatch(batch) /\ ToSet(batch) \subseteq Held(plan)
  BY <1>1, TailIsGood
<1> HIDE DEF batch
<1>3. Len(batch) \in Nat /\ MaxBatchSize \in Nat \ {0} /\ Len(batch) <= MaxBatchSize
  BY <1>2, BatchingAssumption DEF SoundBatch, Fits
<1>4. model \in Models
  <2>1. batch[1] \in ToSet(batch)
    <3>1. 1 \in 1..Len(batch) /\ DOMAIN batch = 1..Len(batch)
      BY <1>2, NotEmpty
    <3> QED
      BY <3>1 DEF ToSet
  <2>2. Assigned(batch[1])
    BY <1>2, <2>1 DEF DispatchInv, PlanInHand
  <2> QED
    BY <2>2 DEF Assigned, Model
<1> HIDE DEF model
<1>5. Scheduled(model, Len(batch)) <=> Scheduled(model, 1)
  <2>1. CASE model \notin DOMAIN RequiredMemory
    BY <2>1 DEF Scheduled, Schedule
  <2>2. CASE model \in DOMAIN RequiredMemory
    <3>1. MaxProfileBatch[model] \in Nat \ {0} /\ MaxBatchSize <= MaxProfileBatch[model]
      BY <1>4, <2>2, GpuAssumption DEF ProfilesSuffice, SoundProfile
    <3>2. ~(Len(batch) > MaxProfileBatch[model]) /\ ~(1 > MaxProfileBatch[model])
      BY <1>3, <3>1
    <3>3. Schedule(model, Devices, Len(batch)) = Schedule(model, Devices, 1)
      BY <2>2, <3>2 DEF Schedule
    <3> QED
      BY <3>3 DEF Scheduled
  <2> QED
    BY <2>1, <2>2
<1> QED
  BY <1>5 DEF RightlyTried, batch, model

LEMMA ProcessKeeps ==
    ASSUME DispatchInv, ProcessBatch
    PROVE  DispatchInv'
<1> DEFINE M == Members(Head(plan))
<1>1. plan # <<>>
  BY DEF ProcessBatch, DeferBatch, RefuseBatch, RunBatch
<1>2. /\ M \subseteq At("hand") /\ M \subseteq DOMAIN messages
      /\ \A c \in Held(Tail(plan)) : c.id \notin M /\ c \in Held(plan)
      /\ \A c \in Held(plan) : c \in Held(Tail(plan)) \/ c.id \in M
  BY <1>1, FirstBatchInHand
<1>3. PICK done, wasTried : Leaves(done, wasTried) /\ RightlyTried(wasTried)
  BY <1>2, BatchLeaves
<1>4. wasTried \in BOOLEAN
  BY <1>3 DEF RightlyTried
<1>5. /\ plan' = Tail(plan) /\ done \subseteq M
      /\ DOMAIN messages' = DOMAIN messages \ done
      /\ \A t \in DOMAIN messages \ M : messages'[t] = messages[t]
      /\ \A t \in M \ done : messages'[t] = After(messages[t], wasTried)
  BY <1>3 DEF Leaves
<1> HIDE DEF M
<1>6. \A t \in M : /\ messages[t] \in Message /\ messages[t].place = "hand"
                   /\ messages[t].tried < messages[t].receives
  BY <1>2 DEF DispatchInv, MessagesTyped, At
<1>7. \A t \in M \ done :
          /\ messages'[t] \in Message
          /\ messages'[t].place = "queue" => messages'[t].receives < MaxReceives
          /\ messages'[t].tried <= messages'[t].receives
          /\ messages'[t].place # "hand"
          /\ wasTried /\ messages[t].receives = messages[t].tried + 1
                => messages'[t].receives = messages'[t].tried
  BY <1>4, <1>5, <1>6, AfterTyped
<1>8. \A t \in DOMAIN messages' : t \in M \ done \/ t \in DOMAIN messages \ M
  BY <1>5
<1>9. MessagesTyped'
  <2>1. DOMAIN messages' \subseteq Tasks
    BY <1>5 DEF DispatchInv, MessagesTyped
  <2>2. ASSUME NEW t \in DOMAIN messages'
        PROVE  /\ messages'[t] \in Message
               /\ messages'[t].place = "queue" => messages'[t].receives < MaxReceives
               /\ messages'[t].tried <= messages'[t].receives
               /\ messages'[t].place = "hand" => messages'[t].tried < messages'[t].receives
    <3>1. CASE t \in M \ done
      BY <1>7, <3>1
    <3>2. CASE t \in DOMAIN messages \ M
      BY <1>5, <3>2 DEF DispatchInv, MessagesTyped
    <3> QED
      BY <1>8, <3>1, <3>2
  <2> QED
    BY <2>1, <2>2 DEF MessagesTyped
<1>10. At("hand")' = At("hand") \ M
  <2>1. ASSUME NEW t \in At("hand")' PROVE t \in At("hand") \ M
    BY <1>5, <1>7, <1>8 DEF At
  <2>2. ASSUME NEW t \in At("hand") \ M PROVE t \in At("hand")'
    BY <1>5 DEF At
  <2> QED
    BY <2>1, <2>2
<1>11. PlanIsGood'
  <2>1. PICK C : Candidates(C) /\ Good(plan, C)
    BY DEF DispatchInv, PlanIsGood
  <2>2. Good(Tail(plan), C)
    BY <1>1, <2>1, TailIsGood
  <2>3. Good(plan', C)
    BY <1>5, <2>2
  <2> QED
    BY <2>1, <2>3 DEF PlanIsGood
<1>12. PlanInHand'
  <2> SUFFICES ASSUME NEW c \in Held(Tail(plan)) PROVE Assigned(c)'
    BY <1>5 DEF PlanInHand, Held
  <2>1. Assigned(c) /\ c.id \notin M
    BY <1>2 DEF DispatchInv, PlanInHand
  <2>2. c.id \in DOMAIN messages
    BY <2>1 DEF Assigned, At
  <2>3. messages'[c.id] = messages[c.id]
    BY <1>5, <2>1, <2>2
  <2> QED
    BY <1>10, <2>1, <2>3 DEF Assigned
<1>13. HandIsPlanned'
  <2> SUFFICES ASSUME AllowSingleItemBatches, NEW t \in At("hand") \ M
               PROVE  \E c \in Held(Tail(plan)) : c.id = t
    BY <1>5, <1>10 DEF HandIsPlanned, Held
  <2>1. PICK c \in Held(plan) : c.id = t
    BY DEF DispatchInv, HandIsPlanned
  <2> QED
    BY <1>2, <2>1
<1>14. NothingWasted'
  <2> SUFFICES ASSUME ProfilesSuffice, NEW t \in DOMAIN messages'
               PROVE  messages'[t].receives = IF messages'[t].place = "hand"
                                              THEN messages'[t].tried + 1 ELSE messages'[t].tried
    BY DEF NothingWasted, ProfilesSuffice
  <2>1. CASE t \in M \ done
    <3>1. wasTried
      BY <1>1, <1>3, AlwaysTried
    <3>2. messages[t].receives = messages[t].tried + 1
      BY <1>2, <1>6, <2>1 DEF DispatchInv, NothingWasted
    <3> QED
      BY <1>7, <2>1, <3>1, <3>2
  <2>2. CASE t \in DOMAIN messages \ M
    BY <1>5, <2>2 DEF DispatchInv, NothingWasted
  <2> QED
    BY <1>8, <2>1, <2>2
<1> QED
  BY <1>9, <1>11, <1>12, <1>13, <1>14 DEF DispatchInv

\* A new message is not in hand.
LEMMA SubmitKeeps ==
    ASSUME DispatchInv, NEW t \in Tasks, Submit(t)
    PROVE  DispatchInv'
<1>1. PICK k \in Kinds :
         messages' = Updated([u \in {t} |-> [request |-> k, place |-> "queue",
                                             receives |-> 0, tried |-> 0]])
  BY DEF Submit
<1> DEFINE new == [request |-> k, place |-> "queue", receives |-> 0, tried |-> 0]
<1>2. /\ DOMAIN messages' = DOMAIN messages \cup {t}
      /\ messages'[t] = new
      /\ \A u \in DOMAIN messages \ {t} : messages'[u] = messages[u]
  <2> DEFINE f == [u \in {t} |-> new]
  <2>1. DOMAIN f = {t} /\ f[t] = new
    OBVIOUS
  <2>2. messages' = [u \in DOMAIN messages \cup DOMAIN f |->
                        IF u \in DOMAIN f THEN f[u] ELSE messages[u]]
    BY <1>1 DEF Updated
  <2> HIDE DEF f, new
  <2> QED
    BY <2>1, <2>2
<1>3. /\ new \in Message /\ new.place = "queue" /\ new.receives = 0 /\ new.tried = 0
      /\ MaxReceives \in Nat \ {0}
  BY DispatchAssumption DEF Message
<1>4. t \notin At("hand") /\ UNCHANGED plan
  BY DEF Submit
<1> HIDE DEF new
<1>5. MessagesTyped'
  <2>1. DOMAIN messages' \subseteq Tasks
    BY <1>2 DEF DispatchInv, MessagesTyped
  <2>2. ASSUME NEW u \in DOMAIN messages'
        PROVE  /\ messages'[u] \in Message
               /\ messages'[u].place = "queue" => messages'[u].receives < MaxReceives
               /\ messages'[u].tried <= messages'[u].receives
               /\ messages'[u].place = "hand" => messages'[u].tried < messages'[u].receives
    <3>1. CASE u = t
      BY <1>2, <1>3, <3>1
    <3>2. CASE u # t
      BY <1>2, <3>2 DEF DispatchInv, MessagesTyped
    <3> QED
      BY <3>1, <3>2
  <2> QED
    BY <2>1, <2>2 DEF MessagesTyped
<1>6. At("hand")' = At("hand")
  <2>1. ASSUME NEW u \in At("hand")' PROVE u \in At("hand")
    BY <1>2, <1>3 DEF At
  <2>2. ASSUME NEW u \in At("hand") PROVE u \in At("hand")'
    BY <1>2, <1>4 DEF At
  <2> QED
    BY <2>1, <2>2
<1>7. Held(plan') = Held(plan)
  BY <1>4
<1>8. PlanIsGood'
  BY <1>4 DEF DispatchInv, PlanIsGood
<1>9. PlanInHand'
  <2> SUFFICES ASSUME NEW c \in Held(plan) PROVE Assigned(c)'
    BY <1>7 DEF PlanInHand, Held
  <2>1. Assigned(c)
    BY DEF DispatchInv, PlanInHand
  <2>2. messages'[c.id] = messages[c.id]
    BY <1>2, <1>4, <2>1 DEF Assigned, At
  <2> QED
    BY <1>6, <2>1, <2>2 DEF Assigned
<1>10. HandIsPlanned'
  BY <1>4, <1>6 DEF DispatchInv, HandIsPlanned, Held
<1>11. NothingWasted'
  <2> SUFFICES ASSUME ProfilesSuffice, NEW u \in DOMAIN messages'
               PROVE  messages'[u].receives = IF messages'[u].place = "hand"
                                              THEN messages'[u].tried + 1 ELSE messages'[u].tried
    BY DEF NothingWasted, ProfilesSuffice
  <2>1. CASE u = t
    BY <1>2, <1>3, <2>1
  <2>2. CASE u # t
    BY <1>2, <2>2 DEF DispatchInv, NothingWasted
  <2> QED
    BY <2>1, <2>2
<1> QED
  BY <1>5, <1>8, <1>9, <1>10, <1>11 DEF DispatchInv

\* What a receive gives the batcher: candidates with the ids of the messages,
\* each routed by the rules.
LEMMA ReceivedCandidates ==
    ASSUME MessagesTyped, NEW S \in SUBSET At("queue"), NEW C,
           C = {Candidate(t) : t \in S}
    PROVE  /\ Candidates(C)
           /\ \A c \in C :
                 /\ c.id \in S
                 /\ messages[c.id].request \in Kinds
                 /\ c.tokens = EstimatedTokens(messages[c.id].request)
                 /\ RouteIsRight(messages[c.id].request, DegradedModels, c.model)
           /\ \A t \in S : \E c \in C : c.id = t
<1>1. S \subseteq Tasks /\ IsFiniteSet(S) /\ Tasks \subseteq Nat
  <2>1. S \subseteq Tasks
    BY DEF At, MessagesTyped
  <2> QED
    BY <2>1, DispatchAssumption, FS_Subset
<1>2. ASSUME NEW t \in S
      PROVE  /\ Candidate(t).id = t
             /\ messages[t].request \in Kinds
             /\ Candidate(t).tokens = EstimatedTokens(messages[t].request)
             /\ Candidate(t).priority = messages[t].request.priority
             /\ RouteIsRight(messages[t].request, DegradedModels, Candidate(t).model)
             /\ IsCandidate(Candidate(t))
  <2>1. messages[t].request \in Kinds
    BY DEF At, MessagesTyped, Message
  <2>2. /\ Candidate(t).id = t
        /\ Candidate(t).tokens = EstimatedTokens(messages[t].request)
        /\ Candidate(t).priority = messages[t].request.priority
        /\ Candidate(t).model = Route(messages[t].request, DegradedModels)
    BY DEF Candidate
  <2>3. RouteIsRight(messages[t].request, DegradedModels, Candidate(t).model)
    BY <2>1, <2>2, RouteRight
  <2>4. IsCandidate(Candidate(t))
    BY <1>1, <2>1, <2>2, TokensAreNatural DEF IsCandidate
  <2> QED
    BY <2>1, <2>2, <2>3, <2>4
<1>3. IsFiniteSet(C)
  <2> DEFINE f == [t \in S |-> Candidate(t)]
  <2>1. f \in Surjection(S, C)
    BY DEF Surjection
  <2> HIDE DEF f
  <2> QED
    BY <1>1, <2>1, FS_Surjection
<1>4. \A c \in C : \E t \in S : c = Candidate(t)
  OBVIOUS
<1>5. Candidates(C)
  BY <1>2, <1>3, <1>4 DEF Candidates
<1> QED
  BY <1>2, <1>4, <1>5

LEMMA ReceiveKeeps ==
    ASSUME DispatchInv, Receive
    PROVE  DispatchInv'
<1>1. PICK S \in SUBSET At("queue") :
         /\ messages' = Updated([t \in S |->
               [messages[t] EXCEPT !.place = "hand", !.receives = @ + 1]])
         /\ plan' = BuildBatches({Candidate(t) : t \in S})
  BY DEF Receive
<1> DEFINE C == {Candidate(t) : t \in S}
           new(m) == [m EXCEPT !.place = "hand", !.receives = @ + 1]
<1>2. plan = <<>> /\ Held(plan) = {}
  BY EmptySet DEF Receive
<1>3. /\ Candidates(C)
      /\ \A c \in C :
            /\ c.id \in S
            /\ messages[c.id].request \in Kinds
            /\ c.tokens = EstimatedTokens(messages[c.id].request)
            /\ RouteIsRight(messages[c.id].request, DegradedModels, c.model)
      /\ \A t \in S : \E c \in C : c.id = t
  BY ReceivedCandidates DEF DispatchInv
<1>4. S \subseteq DOMAIN messages /\ \A t \in S : messages[t].place = "queue"
  BY DEF At
<1>5. /\ DOMAIN messages' = DOMAIN messages
      /\ \A t \in S : messages'[t] = new(messages[t])
      /\ \A t \in DOMAIN messages \ S : messages'[t] = messages[t]
  <2> DEFINE f == [t \in S |-> new(messages[t])]
  <2>1. DOMAIN f = S /\ \A t \in S : f[t] = new(messages[t])
    OBVIOUS
  <2>2. messages' = Updated(f)
    BY <1>1
  <2> HIDE DEF f, new
  <2> QED
    BY <1>4, <2>1, <2>2, UpdatedMessages
<1>6. /\ Good(plan', C) /\ Held(plan') \subseteq C
      /\ AllowSingleItemBatches => Held(plan') = C
  <2>1. plan' = BuildBatches(C)
    BY <1>1
  <2> HIDE DEF C
  <2> QED
    BY <1>3, <2>1, BatchesAreGood
<1> HIDE DEF C
<1>7. ASSUME NEW t \in S
      PROVE  /\ messages'[t] \in Message
             /\ messages'[t].place = "hand"
             /\ messages'[t].request = messages[t].request
             /\ messages'[t].receives = messages[t].receives + 1
             /\ messages'[t].tried = messages[t].tried
             /\ messages'[t].tried < messages'[t].receives
  <2>1. /\ messages[t] \in Message /\ messages[t].receives < MaxReceives
        /\ messages[t].tried <= messages[t].receives
    BY <1>4 DEF DispatchInv, MessagesTyped
  <2>2. /\ messages[t].receives \in 0..MaxReceives /\ messages[t].tried \in 0..MaxReceives
        /\ MaxReceives \in Nat
    BY <2>1, DispatchAssumption DEF Message
  <2>3. messages[t].receives + 1 \in 0..MaxReceives
    BY <2>1, <2>2
  <2>4. new(messages[t]) \in Message
    BY <2>1, <2>3 DEF Message
  <2>5. /\ new(messages[t]).place = "hand"
        /\ new(messages[t]).request = messages[t].request
        /\ new(messages[t]).receives = messages[t].receives + 1
        /\ new(messages[t]).tried = messages[t].tried
    BY <2>1 DEF Message
  <2> HIDE DEF new
  <2> QED
    BY <1>5, <2>1, <2>2, <2>4, <2>5
<1> HIDE DEF new
<1>8. MessagesTyped'
  <2>1. DOMAIN messages' \subseteq Tasks
    BY <1>5 DEF DispatchInv, MessagesTyped
  <2>2. ASSUME NEW t \in DOMAIN messages'
        PROVE  /\ messages'[t] \in Message
               /\ messages'[t].place = "queue" => messages'[t].receives < MaxReceives
               /\ messages'[t].tried <= messages'[t].receives
               /\ messages'[t].place = "hand" => messages'[t].tried < messages'[t].receives
    <3>1. CASE t \in S
      <4>1. /\ messages'[t].place = "hand" /\ messages'[t] \in Message
            /\ messages'[t].tried < messages'[t].receives
        BY <1>7, <3>1
      <4>2. messages'[t].tried \in Nat /\ messages'[t].receives \in Nat
        BY <4>1 DEF Message
      <4> QED
        BY <4>1, <4>2
    <3>2. CASE t \in DOMAIN messages \ S
      BY <1>5, <3>2 DEF DispatchInv, MessagesTyped
    <3> QED
      BY <1>5, <3>1, <3>2
  <2> QED
    BY <2>1, <2>2 DEF MessagesTyped
<1>9. At("hand")' = At("hand") \cup S
  <2>1. ASSUME NEW t \in At("hand")' PROVE t \in At("hand") \cup S
    BY <1>5 DEF At
  <2>2. ASSUME NEW t \in At("hand") PROVE t \in At("hand")'
    BY <1>4, <1>5, <2>2 DEF At
  <2>3. ASSUME NEW t \in S PROVE t \in At("hand")'
    BY <1>4, <1>5, <1>7, <2>3 DEF At
  <2> QED
    BY <2>1, <2>2, <2>3
<1>10. PlanIsGood'
  BY <1>3, <1>6 DEF PlanIsGood
<1>11. PlanInHand'
  <2> SUFFICES ASSUME NEW c \in C PROVE Assigned(c)'
    BY <1>6 DEF PlanInHand, Held
  <2>1. RouteIsRight(messages[c.id].request, DegradedModels, c.model) /\ c.id \in S
    BY <1>3
  <2>2. messages'[c.id].request = messages[c.id].request /\ c.id \in At("hand")'
    BY <1>7, <1>9, <2>1
  <2> QED
    BY <1>3, <2>1, <2>2 DEF Assigned, RouteIsRight
<1>12. HandIsPlanned'
  <2> SUFFICES ASSUME AllowSingleItemBatches, NEW t \in At("hand")'
               PROVE  \E c \in C : c.id = t
    BY <1>6 DEF HandIsPlanned, Held
  <2>1. t \notin At("hand")
    BY <1>2 DEF DispatchInv, HandIsPlanned
  <2> QED
    BY <1>3, <1>9, <2>1
<1>13. NothingWasted'
  <2> SUFFICES ASSUME ProfilesSuffice, NEW t \in DOMAIN messages'
               PROVE  messages'[t].receives = IF messages'[t].place = "hand"
                                              THEN messages'[t].tried + 1 ELSE messages'[t].tried
    BY DEF NothingWasted, ProfilesSuffice
  <2>1. CASE t \in S
    <3>1. messages[t].receives = messages[t].tried
      BY <1>4, <2>1 DEF DispatchInv, NothingWasted
    <3> QED
      BY <1>7, <2>1, <3>1
  <2>2. CASE t \in DOMAIN messages \ S
    BY <1>5, <2>2 DEF DispatchInv, NothingWasted
  <2> QED
    BY <1>5, <2>1, <2>2
<1> QED
  BY <1>8, <1>10, <1>11, <1>12, <1>13 DEF DispatchInv

LEMMA NoPlan == \A C : Candidates({}) /\ Good(<<>>, C)
<1>1. Len(<<>>) = 0 /\ 1..0 = {} /\ 1..0 - 1 = {} /\ \A C : <<>> \in Seq(Seq(C))
  OBVIOUS
<1>2. \A C : Good(<<>>, C)
  BY <1>1, EmptySet DEF Good
<1> QED
  BY <1>2, FS_EmptySet DEF Candidates

LEMMA DispatchInit == Init => DispatchInv
<1> SUFFICES ASSUME Init PROVE DispatchInv
  OBVIOUS
<1>1. DOMAIN messages = {} /\ plan = <<>>
  BY DEF Init
<1>2. At("hand") = {} /\ Held(plan) = {}
  BY <1>1, EmptySet DEF At
<1>3. PlanIsGood
  BY <1>1, NoPlan DEF PlanIsGood
<1> QED
  BY <1>1, <1>2, <1>3
     DEF DispatchInv, MessagesTyped, PlanInHand, HandIsPlanned, NothingWasted

LEMMA DispatchSteps == DispatchInv /\ [Next]_vars => DispatchInv'
<1> SUFFICES ASSUME DispatchInv, [Next]_vars PROVE DispatchInv'
  OBVIOUS
<1>1. CASE UNCHANGED vars
  <2>1. UNCHANGED messages /\ UNCHANGED plan
    BY <1>1 DEF vars
  <2>2. At("hand")' = At("hand")
    BY <2>1 DEF At
  <2>3. MessagesTyped' /\ NothingWasted'
    BY <2>1 DEF DispatchInv, MessagesTyped, NothingWasted, ProfilesSuffice
  <2>4. PlanIsGood'
    BY <2>1 DEF DispatchInv, PlanIsGood
  <2>5. PlanInHand' /\ HandIsPlanned'
    BY <2>1, <2>2 DEF DispatchInv, PlanInHand, HandIsPlanned, Held, Assigned
  <2> QED
    BY <2>3, <2>4, <2>5 DEF DispatchInv
<1> QED
  BY <1>1, SubmitKeeps, ReceiveKeeps, ProcessKeeps DEF Next

LEMMA DispatchInvariant == Spec => []DispatchInv
  BY DispatchInit, DispatchSteps, PTL DEF Spec

-----------------------------------------------------------------------------
(* What follows for the plan.                                               *)

LEMMA PlanLength ==
    ASSUME PlanIsGood
    PROVE  /\ Len(plan) \in Nat /\ DOMAIN plan = 1..Len(plan)
           /\ \A i \in DOMAIN plan : plan[i] # <<>> /\ SoundBatch(plan[i])
           /\ \A i \in DOMAIN plan : \A c \in ToSet(plan[i]) : c \in Held(plan)
<1>1. PICK C : Candidates(C) /\ Good(plan, C)
  BY DEF PlanIsGood
<1>2. plan \in Seq(Seq(C))
  BY <1>1 DEF Good
<1>3. Len(plan) \in Nat /\ DOMAIN plan = 1..Len(plan)
  BY <1>2
<1>4. \A i \in DOMAIN plan : plan[i] # <<>> /\ SoundBatch(plan[i])
  BY <1>1, <1>3 DEF Good, SoundBatch
<1> QED
  BY <1>3, <1>4 DEF Held

\* The queue, the plan and the windows stay in their ranges, whatever the
\* requests, models, devices and limits are (worker.py:649-670, latency.py:38).
THEOREM TypeCorrect == Spec => []TypeOK
<1>1. DispatchInv /\ WindowInv => TypeOK
  <2> SUFFICES ASSUME DispatchInv, WindowInv PROVE TypeOK
    OBVIOUS
  <2>1. ASSUME NEW i \in DOMAIN plan PROVE plan[i] # <<>> /\ Members(plan[i]) \subseteq Tasks
    <3>1. plan[i] # <<>> /\ \A c \in ToSet(plan[i]) : c \in Held(plan)
      BY PlanLength DEF DispatchInv
    <3>2. \A c \in Held(plan) : c.id \in Tasks
      BY DEF DispatchInv, PlanInHand, Assigned, At, MessagesTyped
    <3> QED
      BY <3>1, <3>2 DEF Members
  <2>2. \A m \in Models : Len(windows[m]) <= WindowSize
    BY DEF WindowInv, WindowsAreShort
  <2>3. DOMAIN messages \subseteq Tasks /\ \A t \in DOMAIN messages : messages[t] \in Message
    BY DEF DispatchInv, MessagesTyped
  <2> QED
    BY <2>1, <2>2, <2>3 DEF TypeOK
<1> QED
  BY <1>1, DispatchInvariant, WindowsStay, PTL

\* A sequence without doubles has as many members as it is long.
LEMMA MembersCounted ==
    ASSUME NEW C, Candidates(C), NEW b \in Seq(C), Distinct(b)
    PROVE  Cardinality(Members(b)) = Len(b)
<1> DEFINE n == Len(b)
           f == [i \in 1..n |-> b[i].id]
<1>1. n \in Nat /\ DOMAIN b = 1..n /\ \A i \in 1..n : b[i] \in C
  OBVIOUS
<1>2. Members(b) = {b[i].id : i \in 1..n}
  BY <1>1 DEF Members, ToSet
<1>3. \A i, j \in 1..n : b[i].id = b[j].id => i = j
  BY <1>1 DEF Candidates, Distinct
<1>4. f \in Bijection(1..n, Members(b))
  <2>1. f \in [1..n -> Members(b)]
    BY <1>2
  <2>2. \A i, j \in 1..n : f[i] = f[j] => i = j
    BY <1>3
  <2>3. \A x \in Members(b) : \E i \in 1..n : f[i] = x
    BY <1>2
  <2> HIDE DEF f, n
  <2>4. f \in Injection(1..n, Members(b))
    BY <2>1, <2>2 DEF Injection, IsInjective
  <2>5. f \in Surjection(1..n, Members(b))
    BY <2>1, <2>3 DEF Surjection
  <2> QED
    BY <2>4, <2>5 DEF Bijection
<1> HIDE DEF f
<1>5. IsFiniteSet(1..n) /\ Cardinality(1..n) = n
  <2>1. n \in Nat
    BY <1>1
  <2> HIDE DEF n
  <2> QED
    BY <2>1, FS_Interval, 1 \in Int, n \in Int
<1>6. ExistsBijection(1..n, Members(b))
  BY <1>4 DEF ExistsBijection
<1> QED
  BY <1>5, <1>6, FS_Bijection

\* Every request in hand is in one batch to come.
LEMMA HandIsBatched ==
    ASSUME DispatchInv, AllowSingleItemBatches
    PROVE  EachTaskInOneBatch
<1>1. PICK C : Candidates(C) /\ Good(plan, C)
  BY DEF DispatchInv, PlanIsGood
<1>2. /\ DOMAIN plan = 1..Len(plan) /\ plan \in Seq(Seq(C)) /\ Apart(plan)
      /\ Held(plan) \subseteq C
      /\ \A i \in DOMAIN plan : plan[i] \in Seq(C)
      /\ \A i \in DOMAIN plan : \A c \in ToSet(plan[i]) : c \in Held(plan)
  <2>1. plan \in Seq(Seq(C)) /\ Apart(plan)
    BY <1>1 DEF Good
  <2>2. Held(plan) \subseteq C
    BY <1>1, GoodOfMore
  <2>3. /\ DOMAIN plan = 1..Len(plan)
        /\ \A i \in DOMAIN plan : \A c \in ToSet(plan[i]) : c \in Held(plan)
    BY PlanLength DEF DispatchInv
  <2> QED
    BY <2>1, <2>2, <2>3
<1>3. ASSUME NEW t \in At("hand") PROVE \E i \in DOMAIN plan : t \in Members(plan[i])
  <2>1. PICK c \in Held(plan) : c.id = t
    BY DEF DispatchInv, HandIsPlanned
  <2>2. PICK i \in 1..Len(plan) : c \in ToSet(plan[i])
    BY DEF Held
  <2> QED
    BY <1>2, <2>1, <2>2 DEF Members
<1>4. ASSUME NEW i \in DOMAIN plan, NEW t \in Members(plan[i]) PROVE t \in At("hand")
  BY <1>2 DEF Members, DispatchInv, PlanInHand, Assigned
<1>5. At("hand") = UNION {Members(plan[i]) : i \in DOMAIN plan}
  BY <1>3, <1>4
<1>6. ASSUME NEW i \in DOMAIN plan, NEW j \in DOMAIN plan, i # j,
             NEW t \in Members(plan[i]), t \in Members(plan[j])
      PROVE  FALSE
  <2>1. PICK c \in ToSet(plan[i]), d \in ToSet(plan[j]) : c.id = t /\ d.id = t
    BY <1>6 DEF Members
  <2>2. c = d
    <3>1. c \in C /\ d \in C
      BY <1>2
    <3> QED
      BY <1>1, <2>1, <3>1 DEF Candidates
  <2> QED
    BY <1>2, <1>6, <2>2 DEF Apart
<1>7. ASSUME NEW i \in DOMAIN plan PROVE Cardinality(Members(plan[i])) = Len(plan[i])
  <2>1. plan[i] \in Seq(C) /\ Distinct(plan[i])
    BY <1>2 DEF Apart
  <2> QED
    BY <1>1, <2>1, MembersCounted
<1>8. \A i, j \in DOMAIN plan : i # j => Members(plan[i]) \cap Members(plan[j]) = {}
  BY <1>6
<1> QED
  BY <1>5, <1>7, <1>8 DEF EachTaskInOneBatch

LEMMA GoodPlansAreSound ==
    ASSUME DispatchInv
    PROVE  BatchesAreCompatible /\ BatchesAreFull /\ UrgentFirst
<1>1. PICK C : Candidates(C) /\ Good(plan, C)
  BY DEF DispatchInv, PlanIsGood
<1>2. DOMAIN plan = 1..Len(plan)
  BY PlanLength DEF DispatchInv
<1>3. BatchesAreCompatible
  BY <1>1, <1>2 DEF Good, SoundBatch, Fits, BatchesAreCompatible
<1>4. BatchesAreFull
  BY <1>1 DEF Good, FullPair, Full, BatchesAreFull
<1>5. UrgentFirst
  BY <1>1, <1>2 DEF Good, UrgentPair, UrgentFirst
<1> QED
  BY <1>3, <1>4, <1>5

\* build_batches loses, doubles and mixes nothing, keeps the limits and cuts no
\* batch short, for all candidates and limits (batching.py:89-149), as long as
\* batches of one are allowed, which the worker leaves at its default
\* (worker.py:234, batching.py:18).
THEOREM BatchesSound ==
    ASSUME AllowSingleItemBatches PROVE Spec => []BatchesAreSound
<1>1. DispatchInv => BatchesAreSound
  BY HandIsBatched, GoodPlansAreSound DEF BatchesAreSound
<1> QED
  BY <1>1, DispatchInvariant, PTL

\* Urgent requests run before the others of their receive, and the most urgent
\* ones first (batching.py:98-110).
THEOREM UrgentRunFirst == Spec => []UrgentFirst
<1>1. DispatchInv => UrgentFirst
  BY GoodPlansAreSound
<1> QED
  BY <1>1, DispatchInvariant, PTL

\* A request is planned for a model that holds it, unless its caller named the
\* model or no model does (router.py:106-201).
THEOREM ModelsHoldRequests == Spec => []ModelHoldsRequest
<1>1. DispatchInv => ModelHoldsRequest
  <2> SUFFICES ASSUME DispatchInv PROVE ModelHoldsRequest
    OBVIOUS
  <2>1. \A i \in DOMAIN plan : \A c \in ToSet(plan[i]) : c \in Held(plan)
    BY PlanLength DEF DispatchInv
  <2> QED
    BY <2>1 DEF DispatchInv, PlanInHand, Assigned, ModelHoldsRequest
<1> QED
  BY <1>1, DispatchInvariant, PTL

\* Where every profile takes the batches the batcher builds, no batch is deferred
\* for its size (worker.py:476-498): the deliveries that had no outcome are those
\* to a model that no device can hold.  It says nothing of other profiles.
LEMMA NoDeliveryWasted == Spec => []NoDeliveryIsWasted
<1>1. DispatchInv => NoDeliveryIsWasted
  BY DEF DispatchInv, NothingWasted, ProfilesSuffice, NoDeliveryIsWasted, At
<1> QED
  BY <1>1, DispatchInvariant, PTL

\* A receive puts no request on a degraded model that the rules allow elsewhere
\* (router.py:157-159, 169-191).
THEOREM DegradedAvoided == Spec => DegradedIsAvoided
<1> DEFINE Avoids ==
              \A i \in DOMAIN plan' : \A c \in ToSet(plan'[i]) :
                  LET r == messages[c.id].request
                  IN  ( /\ r.requested = NoModel
                        /\ r.event \notin ComplexEventTypes
                        /\ r.priority > 2
                        /\ c.tokens <= MaxContextTokens[SmallestModel]
                        /\ \E m \in Models \ DegradedModels : c.tokens <= MaxContextTokens[m] )
                      => c.model \notin DegradedModels
<1>1. ASSUME DispatchInv, Receive PROVE Avoids
  <2>1. PICK S \in SUBSET At("queue") : plan' = BuildBatches({Candidate(t) : t \in S})
    BY <1>1 DEF Receive
  <2> DEFINE C == {Candidate(t) : t \in S}
  <2>2. /\ Candidates(C)
        /\ \A c \in C :
              /\ c.tokens = EstimatedTokens(messages[c.id].request)
              /\ RouteIsRight(messages[c.id].request, DegradedModels, c.model)
    BY <1>1, ReceivedCandidates DEF DispatchInv
  <2>3. plan' = BuildBatches(C)
    BY <2>1
  <2> HIDE DEF C
  <2>4. Good(plan', C) /\ Held(plan') \subseteq C
    BY <2>2, <2>3, BatchesAreGood
  <2>5. DOMAIN plan' = 1..Len(plan')
    BY <2>4 DEF Good
  <2>6. \A i \in DOMAIN plan' : \A c \in ToSet(plan'[i]) : c \in C
    BY <2>4, <2>5 DEF Held
  <2> QED
    BY <2>2, <2>6 DEF RouteIsRight
<1>2. DispatchInv /\ [Next]_vars => [Receive => Avoids]_vars
  BY <1>1
<1>3. [][Receive => Avoids]_vars <=> DegradedIsAvoided
  BY DEF DegradedIsAvoided
<1> QED
  BY <1>2, <1>3, DispatchInvariant, PTL DEF Spec
=============================================================================
