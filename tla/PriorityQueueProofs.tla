------------------------- MODULE PriorityQueueProofs -------------------------
(***************************************************************************)
(* The order in which a get empties the lanes and in which the items of a  *)
(* lane reach the worker, for every set of priorities, every number of     *)
(* items at a time and every batch size.                                   *)
(***************************************************************************)
EXTENDS PriorityQueue, SequenceTheorems, TLAPS

\* A get that has not found anything yet has not passed a lane that had
\* something when it started, and that lane still has it: nobody else takes.
FilledIsAhead ==
    /\ getter.visit \in 1..6
    /\ getter.pc = "get" => \A f \in getter.filled :
                               /\ f \in PriorityLane
                               /\ lanes[f] # <<>>
                               /\ getter.visit <= f + 1

\* The lanes are sequences of items.
SequencesExist == lanes \in [PriorityLane -> Seq(Payload)]

OrderInv == SequencesExist /\ FilledIsAhead

LEMMA VisitsInOrder ==
    /\ Len(Visits) = 6
    /\ \A v \in 1..6 : Visits[v] \in PriorityLane
    /\ \A v \in 1..3 : Visits[v] = v - 1
    /\ PriorityLane = 0..2
  BY DEF Visits, PriorityLane, HIGH, NORMAL, LOW

\* What a get notes when it starts is ahead of it.
LEMMA StartsAhead ==
    ASSUME getter'.visit = 1,
           getter'.filled \in SUBSET {l \in PriorityLane : lanes'[l] # <<>>}
    PROVE  FilledIsAhead'
  BY VisitsInOrder DEF FilledIsAhead

LEMMA OrderInit == Init => OrderInv
  BY DEF Init, OrderInv, SequencesExist, FilledIsAhead, NoBatch

LEMMA OrderPut ==
    ASSUME OrderInv, NEW p \in Priorities, put(p)
    PROVE  OrderInv'
<1> DEFINE l == priority_to_lane(p)
<1>0. PICK id \in 1..MaxItems : lanes' = [lanes EXCEPT ![l] = Append(@, <<id, p>>)]
  BY DEF put
<1> DEFINE x == <<id, p>>
<1>1. l \in PriorityLane /\ x \in Payload
  BY DEF priority_to_lane, PriorityLane, Payload
<1>2. /\ lanes' = [lanes EXCEPT ![l] = Append(@, x)]
      /\ UNCHANGED getter
  BY <1>0 DEF put
<1> HIDE DEF l, x
<1>3. SequencesExist'
  BY <1>1, <1>2 DEF OrderInv, SequencesExist
<1>4. \A f \in PriorityLane : lanes[f] # <<>> => lanes'[f] # <<>>
  <2>1. \A s \in Seq(Payload) : Len(Append(s, x)) = Len(s) + 1 /\ Len(s) \in Nat
    BY <1>1
  <2>2. Len(<<>>) = 0
    OBVIOUS
  <2>3. \A s \in Seq(Payload) : Append(s, x) # <<>>
    BY <2>1, <2>2
  <2> QED
    BY <1>1, <1>2, <2>3 DEF OrderInv, SequencesExist
<1>5. FilledIsAhead'
  BY <1>2, <1>4 DEF OrderInv, FilledIsAhead
<1> QED
  BY <1>3, <1>5 DEF OrderInv

LEMMA OrderWorker ==
    ASSUME OrderInv, WorkerStep
    PROVE  OrderInv'
<1> USE DEF OrderInv
<1>1. CASE BeginBatch
  <2>1. getter'.visit = 1 /\ getter'.filled = Filled /\ UNCHANGED lanes
    BY <1>1 DEF BeginBatch, NoBatch
  <2>2. FilledIsAhead'
    BY <2>1, StartsAhead DEF Filled
  <2> QED
    BY <2>1, <2>2 DEF SequencesExist
<1>2. CASE Take
  <2>1. Visits[getter.visit] \in PriorityLane
    BY VisitsInOrder DEF FilledIsAhead
  <2>2. SequencesExist'
    BY <1>2, <2>1 DEF Take, SequencesExist
  <2>3. /\ getter'.visit = 1
        /\ \/ getter'.filled = {l \in PriorityLane : lanes'[l] # <<>>}
           \/ getter'.filled = {}
    BY <1>2 DEF Take, Hand, NoBatch
  <2>4. FilledIsAhead'
    BY <2>3, StartsAhead
  <2> QED
    BY <2>2, <2>4
<1>3. CASE Miss
  <2>1. UNCHANGED lanes
    BY <1>3 DEF Miss
  <2>2. CASE getter.visit < Len(Visits)
    <3>1. /\ getter' = [getter EXCEPT !.visit = @ + 1]
          /\ getter.pc = "get"
          /\ lanes[Visits[getter.visit]] = <<>>
          /\ getter.visit \in 1..5
      BY <1>3, <2>2, VisitsInOrder DEF Miss, FilledIsAhead
    <3>2. \A f \in getter.filled : f \in 0..2 /\ lanes[f] # <<>> /\ getter.visit <= f + 1
      BY <3>1, VisitsInOrder DEF FilledIsAhead
    <3>3. \A f \in getter.filled : getter.visit + 1 <= f + 1
      <4> SUFFICES ASSUME NEW f \in getter.filled PROVE getter.visit # f + 1
        BY <3>1, <3>2
      <4>1. getter.visit \in 1..3 => Visits[getter.visit] = getter.visit - 1
        BY VisitsInOrder
      <4> QED
        BY <3>1, <3>2, <4>1
    <3> QED
      BY <2>1, <3>1, <3>2, <3>3, VisitsInOrder DEF FilledIsAhead, SequencesExist
  <2>3. CASE ~(getter.visit < Len(Visits))
    <3>1. getter'.visit = 1 /\ getter'.filled = {}
      BY <1>3, <2>3 DEF Miss, Hand, NoBatch
    <3>2. FilledIsAhead'
      BY <3>1, StartsAhead
    <3> QED
      BY <2>1, <3>2 DEF SequencesExist
  <2> QED
    BY <2>2, <2>3
<1> QED
  BY <1>1, <1>2, <1>3 DEF WorkerStep

\* A get returns nothing of a lower lane than one that had something when it
\* started, however the puts fall between its visits
\* (priority_queue.py:70-87).
THEOREM OvertakingNeedsAGetUnderWay == Spec => BestLaneAtStart
<1> DEFINE Best == \A l \in PriorityLane :
                      (getter.pc = "get" /\ Len(lanes'[l]) < Len(lanes[l]))
                          => \A f \in getter.filled : l <= f
<1>1. OrderInv /\ [Next]_vars => OrderInv'
  <2> SUFFICES ASSUME OrderInv, [Next]_vars PROVE OrderInv'
    OBVIOUS
  <2>1. CASE UNCHANGED vars
    BY <2>1 DEF vars, OrderInv, SequencesExist, FilledIsAhead
  <2> QED
    BY <2>1, OrderPut, OrderWorker DEF Next
<1>2. OrderInv /\ [Next]_vars => [Best]_vars
  <2> SUFFICES ASSUME OrderInv, Next,
                      NEW l \in PriorityLane, getter.pc = "get",
                      Len(lanes'[l]) < Len(lanes[l]),
                      NEW f \in getter.filled
               PROVE  l <= f
    OBVIOUS
  <2>1. f \in 0..2 /\ getter.visit <= f + 1 /\ getter.visit \in 1..6
    BY VisitsInOrder DEF OrderInv, FilledIsAhead
  <2>2. l = Visits[getter.visit]
    <3>1. CASE \E p \in Priorities : put(p)
      <4>1. PICK p \in Priorities : put(p)
        BY <3>1
      <4>2. priority_to_lane(p) \in PriorityLane
        BY DEF priority_to_lane, PriorityLane
      <4>3. Len(lanes'[l]) >= Len(lanes[l])
        BY <4>1, <4>2 DEF put, OrderInv, SequencesExist
      <4> QED
        BY <4>3 DEF OrderInv, SequencesExist
    <3>2. CASE Take
      BY <3>2 DEF Take, OrderInv, SequencesExist
    <3>3. CASE BeginBatch \/ Miss
      BY <3>3 DEF BeginBatch, Miss, OrderInv, SequencesExist
    <3> QED
      BY <3>1, <3>2, <3>3 DEF Next, WorkerStep
  <2>3. getter.visit \in 1..3
    BY <2>1
  <2> QED
    BY <2>1, <2>2, <2>3, VisitsInOrder
<1>3. Init => OrderInv
  BY OrderInit
<1> QED
  BY <1>1, <1>2, <1>3, PTL DEF Spec, BestLaneAtStart

-----------------------------------------------------------------------------
(* Nothing is lost, repeated or turned round on its way to the worker.     *)

\* The lanes are documented by disjoint ranges of priorities, and put goes by them.
LEMMA LaneIsDocumented ==
    /\ \A p \in Priorities : /\ priority_to_lane(p) \in PriorityLane
                             /\ p \in Documented[priority_to_lane(p)]
    /\ \A l, m \in PriorityLane : \A p : p \in Documented[l] /\ p \in Documented[m] => l = m
<1>1. /\ Documented[HIGH] = 1..2 /\ Documented[NORMAL] = 3..7 /\ Documented[LOW] = 8..10
  BY DEF Documented, PriorityLane, HIGH, NORMAL, LOW
<1> QED
  BY <1>1, QueueAssumption DEF PriorityLane, HIGH, NORMAL, LOW, priority_to_lane

\* What appending an item does to the items of a lane.
LEMMA LaneAppend ==
    ASSUME NEW s \in Seq(Payload), NEW x \in Payload, NEW l \in PriorityLane
    PROVE  /\ ToSet(Append(s, x)) = ToSet(s) \cup {x}
           /\ x[2] \in Documented[l] => OfLane(l, Append(s, x)) = OfLane(l, s) \cup {x}
           /\ x[2] \notin Documented[l] => OfLane(l, Append(s, x)) = OfLane(l, s)
<1>1. /\ DOMAIN Append(s, x) = DOMAIN s \cup {Len(s) + 1}
      /\ \A i \in DOMAIN s : Append(s, x)[i] = s[i]
      /\ Append(s, x)[Len(s) + 1] = x
  OBVIOUS
<1> QED
  BY <1>1 DEF ToSet, OfLane

\* AsArrived, for any order R of the items.
Ordered(l, s, R) ==
    \A i, j \in DOMAIN s :
        (i < j /\ s[i][2] \in Documented[l] /\ s[j][2] \in Documented[l]) => <<s[i], s[j]>> \in R

LEMMA AppendOrdered ==
    ASSUME NEW s \in Seq(Payload), NEW x \in Payload, NEW l \in PriorityLane, NEW R,
           Ordered(l, s, R),
           x[2] \in Documented[l] => \A y \in OfLane(l, s) : <<y, x>> \in R
    PROVE  Ordered(l, Append(s, x), R)
<1>1. /\ DOMAIN Append(s, x) = 1..Len(s) + 1 /\ DOMAIN s = 1..Len(s) /\ Len(s) \in Nat
      /\ \A i \in 1..Len(s) : Append(s, x)[i] = s[i]
      /\ Append(s, x)[Len(s) + 1] = x
  OBVIOUS
<1> SUFFICES ASSUME NEW i \in 1..Len(s) + 1, NEW j \in 1..Len(s) + 1, i < j,
                    Append(s, x)[i][2] \in Documented[l],
                    Append(s, x)[j][2] \in Documented[l]
             PROVE  <<Append(s, x)[i], Append(s, x)[j]>> \in R
  BY <1>1 DEF Ordered
<1>2. i \in 1..Len(s) /\ Append(s, x)[i] = s[i]
  BY <1>1
<1>3. CASE j \in 1..Len(s)
  BY <1>1, <1>2, <1>3 DEF Ordered
<1>4. CASE j = Len(s) + 1
  BY <1>1, <1>2, <1>4 DEF OfLane
<1> QED
  BY <1>1, <1>3, <1>4

\* What taking the first item of a lane does to its items.
LEMMA LaneTail ==
    ASSUME NEW s \in Seq(Payload), s # <<>>, NEW l \in PriorityLane, NEW R, Ordered(l, s, R)
    PROVE  /\ Tail(s) \in Seq(Payload)
           /\ Head(s) \in ToSet(s)
           /\ ToSet(s) = {Head(s)} \cup ToSet(Tail(s))
           /\ Ordered(l, Tail(s), R)
           /\ (\A y \in ToSet(s) : y[2] \in Documented[l])
                 => \A y \in ToSet(Tail(s)) : <<Head(s), y>> \in R
<1>1. /\ Len(s) \in Nat \ {0}
      /\ DOMAIN s = 1..Len(s) /\ DOMAIN Tail(s) = 1..Len(s) - 1
      /\ Head(s) = s[1] /\ \A i \in 1..Len(s) - 1 : Tail(s)[i] = s[i + 1]
      /\ Tail(s) \in Seq(Payload)
  BY EmptySeq
<1>2. ToSet(s) = {Head(s)} \cup ToSet(Tail(s))
  <2>1. \A i \in DOMAIN s : i = 1 \/ (i - 1 \in DOMAIN Tail(s) /\ s[i] = Tail(s)[i - 1])
    BY <1>1
  <2>2. \A i \in DOMAIN Tail(s) : i + 1 \in DOMAIN s
    BY <1>1
  <2>3. \A y \in ToSet(s) : y = Head(s) \/ y \in ToSet(Tail(s))
    <3> SUFFICES ASSUME NEW i \in DOMAIN s PROVE s[i] = Head(s) \/ s[i] \in ToSet(Tail(s))
      BY DEF ToSet
    <3>1. CASE i = 1
      BY <1>1, <3>1
    <3>2. CASE i # 1
      BY <2>1, <3>2 DEF ToSet
    <3> QED
      BY <3>1, <3>2
  <2>4. Head(s) \in ToSet(s) /\ ToSet(Tail(s)) \subseteq ToSet(s)
    BY <1>1, <2>2 DEF ToSet
  <2> QED
    BY <2>3, <2>4
<1>3. Ordered(l, Tail(s), R)
  BY <1>1 DEF Ordered
<1>4. ASSUME \A y \in ToSet(s) : y[2] \in Documented[l], NEW i \in 1..Len(s) - 1
      PROVE  <<Head(s), Tail(s)[i]>> \in R
  <2>1. s[1][2] \in Documented[l] /\ s[i + 1][2] \in Documented[l]
    BY <1>1, <1>4 DEF ToSet
  <2> QED
    BY <1>1, <2>1 DEF Ordered
<1> QED
  BY <1>1, <1>2, <1>3, <1>4 DEF ToSet

\* The state of a worker, from its parts.
LEMMA GetterTyped ==
    ASSUME NEW pc \in {"idle", "get"}, NEW v \in 1..6, NEW items \in Seq(Payload),
           NEW f \in SUBSET PriorityLane
    PROVE  [pc |-> pc, visit |-> v, items |-> items, filled |-> f]
              \in [pc : {"idle", "get"}, visit : DOMAIN Visits,
                   items : Seq(Payload), filled : SUBSET PriorityLane]
<1>1. DOMAIN Visits = 1..6
  BY DEF Visits
<1> QED
  BY <1>1

\* LanesAreFifo for what is put and not handed, W, and its order R: the worker
\* has the items t, and the lanes hold q.
Fifo(W, R, t, q) ==
    /\ \A x \in W : <<x, x>> \notin R
    /\ \A l \in PriorityLane :
          /\ OfLane(l, t) \cup ToSet(q[l]) = {x \in W : x[2] \in Documented[l]}
          /\ Ordered(l, t, R) /\ Ordered(l, q[l], R)
          /\ \A x \in OfLane(l, t), y \in ToSet(q[l]) : <<x, y>> \in R

\* With it, a worker keeps nothing between its batches.
FifoInv ==
    /\ TypeOK
    /\ getter.pc = "idle" => getter.items = <<>>
    /\ Fifo(waiting, older, getter.items, lanes)

LEMMA FifoIsFifo == LanesAreFifo <=> Fifo(waiting, older, getter.items, lanes)
  BY DEF LanesAreFifo, Fifo, AsArrived, Ordered

LEMMA FifoInit == Init => FifoInv
<1> SUFFICES ASSUME Init PROVE FifoInv
  OBVIOUS
<1>1. /\ lanes = [l \in PriorityLane |-> <<>>] /\ waiting = {} /\ older = {}
      /\ getter = NoBatch /\ getter.items = <<>>
  BY DEF Init, NoBatch
<1>2. TypeOK
  BY <1>1 DEF TypeOK, NoBatch, Visits
<1>3. Fifo(waiting, older, getter.items, lanes)
  BY <1>1 DEF Fifo, OfLane, Ordered, ToSet
<1> QED
  BY <1>1, <1>2, <1>3 DEF FifoInv

LEMMA FifoPut ==
    ASSUME FifoInv, NEW p \in Priorities, put(p)
    PROVE  FifoInv'
<1> DEFINE l == priority_to_lane(p)
<1>0. PICK id \in 1..MaxItems :
         /\ \A y \in waiting : y[1] # id
         /\ lanes' = [lanes EXCEPT ![l] = Append(@, <<id, p>>)]
         /\ waiting' = waiting \cup {<<id, p>>}
         /\ older' = older \cup (waiting \X {<<id, p>>})
         /\ UNCHANGED getter
  BY DEF put
<1> DEFINE x == <<id, p>>
<1>1. /\ lanes' = [lanes EXCEPT ![l] = Append(@, x)]
      /\ waiting' = waiting \cup {x} /\ older' = older \cup (waiting \X {x})
      /\ getter' = getter
      /\ x \notin waiting
  BY <1>0
<1>2. l \in PriorityLane /\ p \in Documented[l]
  BY LaneIsDocumented
<1>3. x \in Payload /\ x[2] = p
  BY DEF Payload
<1> HIDE DEF l, x
<1>4. /\ lanes \in [PriorityLane -> Seq(Payload)] /\ getter.items \in Seq(Payload)
      /\ waiting \subseteq Payload /\ older \subseteq waiting \X waiting
      /\ Fifo(waiting, older, getter.items, lanes)
  BY DEF FifoInv, TypeOK
<1>5. TypeOK'
  <2>1. lanes' \in [PriorityLane -> Seq(Payload)]
    BY <1>1, <1>2, <1>3, <1>4
  <2>2. waiting' \subseteq Payload /\ older' \subseteq waiting' \X waiting'
    BY <1>1, <1>3, <1>4
  <2> QED
    BY <1>1, <2>1, <2>2 DEF FifoInv, TypeOK
<1>6. /\ \A y \in waiting' : <<y, y>> \notin older'
      /\ \A y \in waiting : <<y, x>> \in older'
      /\ older \subseteq older'
  BY <1>1, <1>4 DEF Fifo
<1>7. \A m \in PriorityLane : Ordered(m, getter.items, older') /\ Ordered(m, lanes[m], older')
  BY <1>4, <1>6 DEF Fifo, Ordered
<1>8. ASSUME NEW m \in PriorityLane
      PROVE  /\ OfLane(m, getter.items) \cup ToSet(lanes'[m])
                  = {y \in waiting' : y[2] \in Documented[m]}
             /\ Ordered(m, lanes'[m], older')
             /\ \A y \in OfLane(m, getter.items), z \in ToSet(lanes'[m]) : <<y, z>> \in older'
  <2>1. /\ OfLane(m, getter.items) \cup ToSet(lanes[m]) = {y \in waiting : y[2] \in Documented[m]}
        /\ \A y \in OfLane(m, getter.items), z \in ToSet(lanes[m]) : <<y, z>> \in older
        /\ lanes[m] \in Seq(Payload)
    BY <1>4 DEF Fifo
  <2>2. CASE m # l
    <3>1. x[2] \notin Documented[m]
      BY <1>2, <1>3, <2>2, LaneIsDocumented
    <3>2. lanes'[m] = lanes[m]
      BY <1>1, <1>4, <2>2
    <3> QED
      BY <1>1, <1>6, <1>7, <2>1, <3>1, <3>2
  <2>3. CASE m = l
    <3>1. lanes'[m] = Append(lanes[m], x) /\ x[2] \in Documented[m]
      BY <1>1, <1>2, <1>3, <1>4, <2>3
    <3>2. ToSet(lanes'[m]) = ToSet(lanes[m]) \cup {x}
      BY <1>3, <2>1, <3>1, LaneAppend
    <3>3. OfLane(m, lanes[m]) \subseteq ToSet(lanes[m]) /\ ToSet(lanes[m]) \subseteq waiting
          /\ OfLane(m, getter.items) \subseteq waiting
      BY <2>1 DEF OfLane, ToSet
    <3>4. Ordered(m, lanes'[m], older')
      BY <1>3, <1>6, <1>7, <2>1, <3>1, <3>3, AppendOrdered
    <3> QED
      BY <1>1, <1>6, <2>1, <3>1, <3>2, <3>3, <3>4
  <2> QED
    BY <2>2, <2>3
<1>9. Fifo(waiting', older', getter.items', lanes')
  BY <1>1, <1>6, <1>7, <1>8 DEF Fifo
<1> QED
  BY <1>1, <1>5, <1>9 DEF FifoInv

\* Handing the items of the worker to it leaves the rest in order.
LEMMA HandKeepsOrder ==
    ASSUME NEW W \in SUBSET Payload, NEW R, NEW t \in Seq(Payload),
           NEW q \in [PriorityLane -> Seq(Payload)], Fifo(W, R, t, q)
    PROVE  LET V == W \ ToSet(t) IN Fifo(V, R \cap (V \X V), <<>>, q)
<1> DEFINE V == W \ ToSet(t)
<1>1. \A x \in V : <<x, x>> \notin R \cap (V \X V)
  BY DEF Fifo
<1>2. ASSUME NEW l \in PriorityLane
      PROVE  /\ ToSet(q[l]) = {x \in V : x[2] \in Documented[l]}
             /\ Ordered(l, q[l], R \cap (V \X V))
  <2>1. /\ OfLane(l, t) \cup ToSet(q[l]) = {x \in W : x[2] \in Documented[l]}
        /\ \A x \in OfLane(l, t), y \in ToSet(q[l]) : <<x, y>> \in R
        /\ \A x \in W : <<x, x>> \notin R
        /\ Ordered(l, q[l], R)
    BY DEF Fifo
  <2>2. OfLane(l, t) = {x \in ToSet(t) : x[2] \in Documented[l]}
    BY DEF OfLane, ToSet
  <2>3. ToSet(q[l]) = {x \in V : x[2] \in Documented[l]}
    BY <2>1, <2>2
  <2>4. \A i \in DOMAIN q[l] : q[l][i] \in V
    BY <2>3 DEF ToSet
  <2> HIDE DEF V
  <2> QED
    BY <2>1, <2>3, <2>4 DEF Ordered
<1>3. \A l \in PriorityLane : OfLane(l, <<>>) = {} /\ Ordered(l, <<>>, R \cap (V \X V))
  BY DEF OfLane, Ordered
<1> HIDE DEF V
<1>4. Fifo(V, R \cap (V \X V), <<>>, q)
  BY <1>1, <1>2, <1>3 DEF Fifo
<1> QED
  BY <1>4 DEF V

LEMMA FifoTake ==
    ASSUME FifoInv, Take
    PROVE  FifoInv'
<1> DEFINE l == Visits[getter.visit]
           x == Head(lanes[l])
           t == Append(getter.items, x)
<1>1. /\ lanes \in [PriorityLane -> Seq(Payload)] /\ getter.items \in Seq(Payload)
      /\ waiting \subseteq Payload /\ older \subseteq waiting \X waiting
      /\ Fifo(waiting, older, getter.items, lanes)
  BY DEF FifoInv, TypeOK
<1>2. l \in PriorityLane
  BY VisitsInOrder DEF FifoInv, TypeOK, Visits
<1>3. /\ lanes[l] # <<>>
      /\ lanes' = [lanes EXCEPT ![l] = Tail(lanes[l])]
      /\ \/ /\ waiting' = waiting \ ToSet(t)
            /\ older' = older \cap (waiting' \X waiting')
            /\ getter' = NoBatch
         \/ /\ waiting' = waiting /\ older' = older
            /\ getter' = [pc |-> "get", visit |-> 1, items |-> t,
                          filled |-> {k \in PriorityLane : lanes'[k] # <<>>}]
  BY DEF Take, Hand
<1> HIDE DEF l
<1>4. Ordered(l, lanes[l], older) /\ lanes[l] \in Seq(Payload)
  BY <1>1, <1>2 DEF Fifo
<1>5. /\ Tail(lanes[l]) \in Seq(Payload) /\ x \in ToSet(lanes[l])
      /\ ToSet(lanes[l]) = {x} \cup ToSet(Tail(lanes[l]))
      /\ Ordered(l, Tail(lanes[l]), older)
      /\ (\A y \in ToSet(lanes[l]) : y[2] \in Documented[l])
            => \A y \in ToSet(Tail(lanes[l])) : <<x, y>> \in older
  BY <1>2, <1>3, <1>4, LaneTail
<1>6. x \in Payload /\ t \in Seq(Payload)
  BY <1>1, <1>3, <1>4, EmptySeq
<1> HIDE DEF x, t
<1>7. \A y \in ToSet(lanes[l]) : y[2] \in Documented[l]
  BY <1>1, <1>2 DEF Fifo
<1>8. lanes' \in [PriorityLane -> Seq(Payload)]
  BY <1>1, <1>2, <1>3, <1>5
<1>9. Fifo(waiting, older, t, lanes')
  <2> SUFFICES ASSUME NEW m \in PriorityLane
               PROVE  /\ OfLane(m, t) \cup ToSet(lanes'[m])
                            = {y \in waiting : y[2] \in Documented[m]}
                      /\ Ordered(m, t, older) /\ Ordered(m, lanes'[m], older)
                      /\ \A y \in OfLane(m, t), z \in ToSet(lanes'[m]) : <<y, z>> \in older
    BY <1>1 DEF Fifo
  <2>1. /\ OfLane(m, getter.items) \cup ToSet(lanes[m])
              = {y \in waiting : y[2] \in Documented[m]}
        /\ Ordered(m, getter.items, older) /\ Ordered(m, lanes[m], older)
        /\ \A y \in OfLane(m, getter.items), z \in ToSet(lanes[m]) : <<y, z>> \in older
    BY <1>1 DEF Fifo
  <2>2. CASE m # l
    <3>1. x[2] \notin Documented[m]
      BY <1>2, <1>5, <1>7, <2>2, LaneIsDocumented
    <3>2. OfLane(m, t) = OfLane(m, getter.items) /\ Ordered(m, t, older)
      BY <1>1, <1>6, <2>1, <3>1, LaneAppend, AppendOrdered DEF t
    <3>3. lanes'[m] = lanes[m]
      BY <1>1, <1>3, <2>2
    <3> QED
      BY <2>1, <3>2, <3>3
  <2>3. CASE m = l
    <3>1. x[2] \in Documented[l]
      BY <1>5, <1>7
    <3>2. OfLane(m, t) = OfLane(m, getter.items) \cup {x} /\ Ordered(m, t, older)
      BY <1>1, <1>5, <1>6, <2>1, <2>3, <3>1, LaneAppend, AppendOrdered DEF t
    <3>3. lanes'[m] = Tail(lanes[m])
      BY <1>1, <1>3, <2>3
    <3> QED
      BY <1>5, <1>7, <2>1, <2>3, <3>2, <3>3
  <2> QED
    BY <2>2, <2>3
<1>10. CASE waiting' = waiting \ ToSet(t)
            /\ older' = older \cap (waiting' \X waiting') /\ getter' = NoBatch
  <2>1. Fifo(waiting', older', <<>>, lanes')
    BY <1>1, <1>6, <1>8, <1>9, <1>10, HandKeepsOrder
  <2>2. getter'.items = <<>>
    BY <1>10 DEF NoBatch
  <2>3. getter' = [pc |-> "idle", visit |-> 1, items |-> <<>>, filled |-> {}]
    BY <1>10 DEF NoBatch
  <2>4. <<>> \in Seq(Payload) /\ {} \in SUBSET PriorityLane /\ 1 \in 1..6
    OBVIOUS
  <2>5. getter' \in [pc : {"idle", "get"}, visit : DOMAIN Visits,
                     items : Seq(Payload), filled : SUBSET PriorityLane]
    BY <2>3, <2>4, GetterTyped
  <2>6. waiting' \subseteq Payload /\ older' \subseteq waiting' \X waiting'
    BY <1>1, <1>10
  <2> QED
    BY <1>8, <2>1, <2>2, <2>5, <2>6 DEF FifoInv, TypeOK
<1>11. CASE /\ waiting' = waiting /\ older' = older
            /\ getter' = [pc |-> "get", visit |-> 1, items |-> t,
                          filled |-> {k \in PriorityLane : lanes'[k] # <<>>}]
  <2> DEFINE full == {k \in PriorityLane : lanes'[k] # <<>>}
  <2>1. full \in SUBSET PriorityLane
    OBVIOUS
  <2>2. getter' = [pc |-> "get", visit |-> 1, items |-> t, filled |-> full]
    BY <1>11
  <2> HIDE DEF full
  <2>3. getter' \in [pc : {"idle", "get"}, visit : DOMAIN Visits,
                     items : Seq(Payload), filled : SUBSET PriorityLane]
    BY <1>6, <2>1, <2>2, GetterTyped
  <2>4. getter'.items = t /\ getter'.pc = "get"
    BY <2>2
  <2> QED
    BY <1>1, <1>8, <1>9, <1>11, <2>3, <2>4 DEF FifoInv, TypeOK
<1> QED
  BY <1>3, <1>10, <1>11

LEMMA FifoMiss ==
    ASSUME FifoInv, BeginBatch \/ Miss
    PROVE  FifoInv'
<1>1. /\ lanes \in [PriorityLane -> Seq(Payload)] /\ getter.items \in Seq(Payload)
      /\ <<>> \in Seq(Payload)
      /\ waiting \subseteq Payload /\ older \subseteq waiting \X waiting
      /\ Fifo(waiting, older, getter.items, lanes)
  BY DEF FifoInv, TypeOK
<1>2. lanes' = lanes
  BY DEF BeginBatch, Miss
<1>3. \/ /\ waiting' = waiting \ ToSet(getter.items)
         /\ older' = older \cap (waiting' \X waiting')
         /\ getter' = NoBatch
      \/ /\ waiting' = waiting /\ older' = older
         /\ getter'.items = getter.items /\ getter'.pc = "get"
  BY DEF FifoInv, TypeOK, BeginBatch, Miss, Hand, NoBatch
<1>4. Fifo(waiting', older', getter'.items, lanes') /\ (getter'.pc = "idle" => getter'.items = <<>>)
  <2>1. CASE /\ waiting' = waiting \ ToSet(getter.items)
             /\ older' = older \cap (waiting' \X waiting') /\ getter' = NoBatch
    <3>1. Fifo(waiting', older', <<>>, lanes)
      BY <1>1, <2>1, HandKeepsOrder
    <3> QED
      BY <1>2, <2>1, <3>1 DEF NoBatch
  <2>2. CASE /\ waiting' = waiting /\ older' = older
             /\ getter'.items = getter.items /\ getter'.pc = "get"
    BY <1>1, <1>2, <2>2
  <2> QED
    BY <1>3, <2>1, <2>2
<1>5. getter' \in [pc : {"idle", "get"}, visit : DOMAIN Visits,
                   items : Seq(Payload), filled : SUBSET PriorityLane]
  <2> DEFINE visits == [pc : {"idle", "get"}, visit : 1..6,
                        items : Seq(Payload), filled : SUBSET PriorityLane]
  <2>1. DOMAIN Visits = 1..6 /\ Len(Visits) = 6
    BY DEF Visits
  <2>2. NoBatch \in visits
    BY <1>1 DEF NoBatch
  <2>3. CASE BeginBatch
    <3>1. getter' = [pc |-> "get", visit |-> 1, items |-> <<>>, filled |-> Filled]
      BY <2>3 DEF BeginBatch, NoBatch
    <3>2. Filled \in SUBSET PriorityLane
      BY DEF Filled
    <3> QED
      BY <1>1, <3>1, <3>2, GetterTyped
  <2>4. CASE Miss
    <3>1. getter \in visits
      BY <2>1 DEF FifoInv, TypeOK
    <3>2. CASE getter.visit < Len(Visits)
      <4>1. getter' = [getter EXCEPT !.visit = getter.visit + 1]
        BY <2>4, <3>2 DEF Miss
      <4>2. getter.visit + 1 \in 1..6
        BY <2>1, <3>1, <3>2
      <4> QED
        BY <2>1, <3>1, <4>1, <4>2
    <3>3. CASE ~(getter.visit < Len(Visits))
      BY <2>1, <2>2, <2>4, <3>3 DEF Miss, Hand
    <3> QED
      BY <3>2, <3>3
  <2> QED
    BY <2>3, <2>4
<1>6. waiting' \subseteq Payload /\ older' \subseteq waiting' \X waiting'
  BY <1>1, <1>3
<1> QED
  BY <1>1, <1>2, <1>4, <1>5, <1>6 DEF FifoInv, TypeOK

LEMMA FifoStays == Spec => []FifoInv
<1>1. FifoInv /\ [Next]_vars => FifoInv'
  <2> SUFFICES ASSUME FifoInv, [Next]_vars PROVE FifoInv'
    OBVIOUS
  <2>1. CASE UNCHANGED vars
    BY <2>1 DEF vars, FifoInv, TypeOK
  <2> QED
    BY <2>1, FifoPut, FifoTake, FifoMiss DEF Next, WorkerStep
<1> QED
  BY <1>1, FifoInit, PTL DEF Spec

\* The queue stays in its types, for every bound on what it holds.
THEOREM TypeCorrect == Spec => []TypeOK
  BY FifoStays, PTL DEF FifoInv

\* Whatever the interleaving of puts and gets, a lane holds the priorities
\* documented for it and brings them to the worker without loss, repetition or
\* overtaking, for every set of priorities (priority_queue.py:36-101).
THEOREM LanesKeepOrder == Spec => []LanesAreFifo
<1>1. FifoInv => LanesAreFifo
  BY FifoIsFifo DEF FifoInv
<1> QED
  BY <1>1, FifoStays, PTL
=============================================================================
