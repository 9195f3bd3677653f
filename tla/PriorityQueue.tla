---------------------------- MODULE PriorityQueue ----------------------------
(***************************************************************************)
(* core/priority_queue.py: three FIFO lanes, gateway threads that put and  *)
(* one worker that takes batches (demo.py:237-243).  queue.Queue makes     *)
(* each put and each get_nowait of a lane atomic, but nothing makes the    *)
(* visits of several lanes in one get atomic.                              *)
(***************************************************************************)
EXTENDS Naturals, Sequences, SequencesExt

CONSTANTS
    Priorities,   \* the priorities requests come with, within 1..10
    MaxItems,     \* bound: the payloads there are at a time, put and not yet handed
    MaxBatch      \* max_size of get_batch

ASSUME QueueAssumption ==
    /\ Priorities \subseteq 1..10
    /\ MaxItems \in Nat
    /\ MaxBatch \in Nat \ {0}

VARIABLES
    lanes,      \* the content of every lane
    getter,     \* the get_batch call the worker is in
    waiting,    \* history: the payloads put and not yet returned by get_batch
    older       \* history: the pairs of them of which the first was put first

vars == <<lanes, getter, waiting, older>>

-----------------------------------------------------------------------------
HIGH == 0
NORMAL == 1
LOW == 2
PriorityLane == {HIGH, NORMAL, LOW}

\* The lane of a priority, 1..10.
priority_to_lane(priority) ==
    IF priority <= 2 THEN HIGH ELSE IF priority <= 7 THEN NORMAL ELSE LOW

\* A payload: its identity, which is free again once it is handed, and its priority.
Payload == (1..MaxItems) \X Priorities

\* A mutant: the low lane is visited before the normal one.
LowBeforeNormal == <<HIGH, LOW, NORMAL, NORMAL, HIGH, LOW>>

\* The lanes a get visits: all of them in order, then NORMAL with a timeout,
\* then the two others once more.
Visits == <<HIGH, NORMAL, LOW, NORMAL, HIGH, LOW>>

\* A worker outside get_batch, and the start of a get within get_batch; the
\* lanes that have something when a get starts are noted for the properties.
NoBatch == [pc |-> "idle", visit |-> 1, items |-> <<>>, filled |-> {}]
Filled == {l \in PriorityLane : lanes[l] # <<>>}

Init ==
    /\ lanes = [l \in PriorityLane |-> <<>>]
    /\ getter = NoBatch
    /\ waiting = {}
    /\ older = {}

put(priority) ==
    \E id \in 1..MaxItems :
        LET x == <<id, priority>>
        IN  /\ \A y \in waiting : y[1] # id
            /\ lanes' = [lanes EXCEPT ![priority_to_lane(priority)] = Append(@, x)]
            /\ waiting' = waiting \cup {x}
            /\ older' = older \cup (waiting \X {x})
            /\ UNCHANGED getter

\* get_batch starts, and with it its first get.
BeginBatch ==
    /\ getter.pc = "idle"
    /\ getter' = [NoBatch EXCEPT !.pc = "get", !.filled = Filled]
    /\ UNCHANGED <<lanes, waiting, older>>

\* get_batch returns these items to the worker.
Hand(items) ==
    /\ waiting' = waiting \ ToSet(items)
    /\ older' = older \cap (waiting' \X waiting')
    /\ getter' = NoBatch

\* A mutant: the lanes are emptied from their other end.
TakeLast ==
    LET lane == Visits[getter.visit]
        items == Append(getter.items, Last(lanes[lane]))
    IN  /\ getter.pc = "get"
        /\ lanes[lane] # <<>>
        /\ lanes' = [lanes EXCEPT ![lane] = Front(@)]
        /\ IF Len(items) = MaxBatch THEN Hand(items)
           ELSE /\ getter' = [pc |-> "get", visit |-> 1, items |-> items,
                              filled |-> {l \in PriorityLane : lanes'[l] # <<>>}]
                /\ UNCHANGED <<waiting, older>>

\* The lane visited has an item: the get returns it, and the next one starts
\* unless the batch is full.
Take ==
    LET lane == Visits[getter.visit]
        items == Append(getter.items, Head(lanes[lane]))
    IN  /\ getter.pc = "get"
        /\ lanes[lane] # <<>>
        /\ lanes' = [lanes EXCEPT ![lane] = Tail(@)]
        /\ IF Len(items) = MaxBatch THEN Hand(items)
           ELSE /\ getter' = [pc |-> "get", visit |-> 1, items |-> items,
                              filled |-> {l \in PriorityLane : lanes'[l] # <<>>}]
                /\ UNCHANGED <<waiting, older>>

\* A mutant: a get that finds nothing makes get_batch return an empty list.
MissReturnsNothing ==
    /\ getter.pc = "get"
    /\ lanes[Visits[getter.visit]] = <<>>
    /\ IF getter.visit < Len(Visits)
       THEN getter' = [getter EXCEPT !.visit = @ + 1] /\ UNCHANGED <<waiting, older>>
       ELSE Hand(<<>>)
    /\ UNCHANGED lanes

\* A mutant: the last visit is not seen to be the last.
MissPastEnd ==
    /\ getter.pc = "get"
    /\ lanes[Visits[getter.visit]] = <<>>
    /\ IF getter.visit <= Len(Visits)
       THEN getter' = [getter EXCEPT !.visit = @ + 1] /\ UNCHANGED <<waiting, older>>
       ELSE Hand(getter.items)
    /\ UNCHANGED lanes

\* It is empty, at the fourth visit for the whole timeout: the get goes on to
\* its next visit or returns None, which ends the batch.
Miss ==
    /\ getter.pc = "get"
    /\ lanes[Visits[getter.visit]] = <<>>
    /\ IF getter.visit < Len(Visits)
       THEN getter' = [getter EXCEPT !.visit = @ + 1] /\ UNCHANGED <<waiting, older>>
       ELSE Hand(getter.items)
    /\ UNCHANGED lanes

WorkerStep == BeginBatch \/ Take \/ Miss

Next == (\E p \in Priorities : put(p)) \/ WorkerStep

Spec == Init /\ [][Next]_vars

\* For as long as its thread lives, the worker calls get_batch again and again.
FairSpec == Spec /\ WF_vars(WorkerStep)

-----------------------------------------------------------------------------
\* Every part of the state has its type.
TypeOK ==
    /\ lanes \in [PriorityLane -> Seq(Payload)]
    /\ getter \in [pc : {"idle", "get"}, visit : DOMAIN Visits,
                   items : Seq(Payload), filled : SUBSET PriorityLane]
    /\ waiting \subseteq Payload
    /\ older \subseteq waiting \X waiting

\* The priorities of every lane, as documented (priority_queue.py:9-12).
Documented == [l \in PriorityLane |->
    CASE l = HIGH -> 1..2 [] l = NORMAL -> 3..7 [] l = LOW -> 8..10]

\* The items of a lane in a sequence, and that they come as they were put.
OfLane(l, s) == {s[i] : i \in {n \in DOMAIN s : s[n][2] \in Documented[l]}}
AsArrived(l, s) ==
    \A i, j \in DOMAIN s :
        (i < j /\ s[i][2] \in Documented[l] /\ s[j][2] \in Documented[l])
            => <<s[i], s[j]>> \in older

\* Whatever the interleaving of puts and gets, a lane has the priorities
\* documented for it, loses nothing, repeats nothing (no item is older than
\* itself) and keeps the order of arrival, from put to the worker
\* (priority_queue.py:36-101).
LanesAreFifo ==
    /\ \A x \in waiting : <<x, x>> \notin older
    /\ \A l \in PriorityLane :
          /\ OfLane(l, getter.items) \cup ToSet(lanes[l]) = {x \in waiting : x[2] \in Documented[l]}
          /\ AsArrived(l, getter.items) /\ AsArrived(l, lanes[l])
          /\ \A x \in OfLane(l, getter.items), y \in ToSet(lanes[l]) : <<x, y>> \in older

\* A get returns nothing of a lower lane than one that had something when it
\* started: items may overtake only while a get is under way
\* (priority_queue.py:70-87).
BestLaneAtStart ==
    [][\A l \in PriorityLane :
          (getter.pc = "get" /\ Len(lanes'[l]) < Len(lanes[l]))
              => \A f \in getter.filled : l <= f]_vars

\* However many items come after it, an item of the high lane reaches the worker,
\* and one of a lower lane does unless a higher lane has something again and
\* again: that it then may wait for ever is what draining in order of the lanes
\* means (priority_queue.py:70-101).
OnlyHigherLanesStarve ==
    \A l \in PriorityLane :
        \/ []<>(\E h \in Filled : h < l)
        \/ \A x \in Payload :
              (x \in waiting /\ x[2] \in Documented[l]) ~> x \notin waiting

-----------------------------------------------------------------------------
(* What the documentation says of the queue and the code does not keep.     *)

\* priority_queue.py:5 "Drain order is strict: all high-priority items are
\* consumed before any normal items": nothing is taken while an item of a
\* higher lane waits that was put before it.
DrainIsStrict ==
    [][\A l \in PriorityLane :
          Len(lanes'[l]) < Len(lanes[l]) =>
              \A h \in PriorityLane : \A x \in ToSet(lanes[h]) :
                  h < l => <<x, Head(lanes[l])>> \notin older]_vars
=============================================================================
