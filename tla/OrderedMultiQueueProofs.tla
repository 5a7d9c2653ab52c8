----------------------- MODULE OrderedMultiQueueProofs -----------------------
(***************************************************************************)
(* The merged stream is in time order, no CHECK of the queues fails, and   *)
(* no data are lost or kept back, for any trajectories and sensors and any *)
(* range of times, when the data of each sensor are in order and those of  *)
(* a trajectory that is added later start later.  That the CHECK of the    *)
(* merge holds needs an argument: the sensors of one trajectory deliver in *)
(* any order, and of a sensor that is not finished the newest datum is     *)
(* never older than what has been dispatched, since the loop waits for it. *)
(***************************************************************************)
EXTENDS OrderedMultiQueue, FiniteSetTheorems, SequenceTheorems, TLAPS

Sorted(d) == \A i, j \in 1..Len(d) : i <= j => d[i] <= d[j]
NoneBefore(d, time) == \A i \in 1..Len(d) : time <= d[i]
NoneAfter(d, time) == \A i \in 1..Len(d) : d[i] <= time
Among(d, a) == \A i \in 1..Len(d) : \E j \in 1..Len(a) : d[i] = a[j]

\* The data d of a queue to which the data a were added, when the last
\* datum dispatched from any queue is from time last.
InOrder(d, last, a) == Sorted(d) /\ NoneBefore(d, last) /\ Among(d, a)

QueuesType == \A k \in DOMAIN queues : /\ k \in Keys
                                       /\ queues[k] \in Queue
StreamType == /\ last_dispatched_time \in Int
              /\ added \in [Keys -> Seq(Time)]
              /\ delivered \in [Keys -> Seq(Time)]

\* Every queue is sorted and holds nothing older than what was dispatched.
QueuesInOrder == \A k \in DOMAIN queues :
                    InOrder(Data(k), last_dispatched_time, added[k])

\* Nothing was delivered that is newer than the last datum dispatched.
DeliveredBefore == \A k \in Keys : NoneAfter(delivered[k], last_dispatched_time)

StreamInv == QueuesType /\ StreamType /\ QueuesInOrder /\ DeliveredBefore

\* Queues exist only for the sensors of trajectories that were added, and only they were
\* given data.
KeysAdded == /\ queue_keys \in [Trajectories -> SUBSET Sensors]
             /\ \A k \in DOMAIN queues : k[2] \in queue_keys[k[1]]
             /\ \A k \in Keys : added[k] # <<>> => k[2] \in queue_keys[k[1]]

\* Some datum among the data a is no older than time last.
Current(last, a) == a # <<>> => \E i \in 1..Len(a) : last <= a[i]

\* A queue that may still get data and has got some has got one that is no older than
\* what was dispatched.
OpenCurrent == \A k \in Unfinished : Current(last_dispatched_time, added[k])
-----------------------------------------------------------------------------
(* Sequences of times. *)

LEMMA TimesAreIntegers == Time \subseteq Int /\ MinTime \in Int
BY BoundsAssumption DEF Time, MinTime, BoundsAssumption

\* Changes of one queue.
LEMMA QueueFields ==
    ASSUME NEW q \in Queue
    PROVE  /\ q.data \in Seq(Time) /\ q.finished \in BOOLEAN
           /\ \A d \in Seq(Time) : /\ [q EXCEPT !.data = d] \in Queue
                                   /\ [q EXCEPT !.data = d].data = d
                                   /\ [q EXCEPT !.data = d].finished = q.finished
BY DEF Queue

LEMMA QueueFinished ==
    ASSUME NEW q \in Queue
    PROVE  /\ [q EXCEPT !.finished = TRUE] \in Queue
           /\ [q EXCEPT !.finished = TRUE].data = q.data
           /\ [q EXCEPT !.finished = TRUE].finished = TRUE
BY DEF Queue

LEMMA ChangeOne ==
    \A f, k, e : k \in DOMAIN f =>
       /\ DOMAIN [f EXCEPT ![k] = e] = DOMAIN f
       /\ [f EXCEPT ![k] = e][k] = e
       /\ \A l \in DOMAIN f \ {k} : [f EXCEPT ![k] = e][l] = f[l]
OBVIOUS

LEMMA AppendOne ==
    ASSUME NEW S, NEW s \in Seq(S), NEW e \in S
    PROVE  /\ Append(s, e) \in Seq(S)
           /\ Len(Append(s, e)) = Len(s) + 1
           /\ Append(s, e)[Len(s) + 1] = e
           /\ \A k \in 1..Len(s) : Append(s, e)[k] = s[k]
OBVIOUS

LEMMA TailOne ==
    ASSUME NEW S, NEW s \in Seq(S), s # <<>>
    PROVE  /\ Tail(s) \in Seq(S)
           /\ Len(s) \in Nat \ {0}
           /\ Len(Tail(s)) = Len(s) - 1
           /\ Head(s) = s[1] /\ Head(s) \in S
           /\ \A k \in 1..Len(s) - 1 : Tail(s)[k] = s[k + 1]
OBVIOUS

\* A new queue holds nothing.
LEMMA NewInOrder == \A last, a : InOrder(<<>>, last, a)
BY DEF InOrder, Sorted, NoneBefore, Among

\* Add: a datum as new as all that were added before goes last.
LEMMA AddInOrder ==
    ASSUME NEW d \in Seq(Time), NEW a \in Seq(Time), NEW last \in Int,
           NEW time \in Time, InOrder(d, last, a),
           last <= time, NoneAfter(a, time)
    PROVE  InOrder(Append(d, time), last, Append(a, time))
<1> DEFINE e == Append(d, time)
           b == Append(a, time)
<1>1. /\ Len(e) = Len(d) + 1 /\ e[Len(d) + 1] = time
      /\ \A k \in 1..Len(d) : e[k] = d[k]
  BY AppendOne
<1>2. /\ Len(b) = Len(a) + 1 /\ b[Len(a) + 1] = time
      /\ \A k \in 1..Len(a) : b[k] = a[k]
  BY AppendOne
<1>3. Len(d) \in Nat /\ Len(a) \in Nat
  BY LenProperties
<1>4. \A k \in 1..Len(d) : d[k] \in Int /\ d[k] <= time
  <2> SUFFICES ASSUME NEW k \in 1..Len(d) PROVE d[k] \in Int /\ d[k] <= time
    OBVIOUS
  <2>1. PICK j \in 1..Len(a) : d[k] = a[j]
    BY DEF InOrder, Among
  <2>2. d[k] \in Time
    BY ElementOfSeq
  <2>3. QED
    BY <2>1, <2>2, TimesAreIntegers DEF NoneAfter
<1> HIDE DEF e, b
<1>5. Sorted(e)
  <2> SUFFICES ASSUME NEW i \in 1..Len(e), NEW j \in 1..Len(e), i <= j
               PROVE  e[i] <= e[j]
    BY DEF Sorted
  <2>1. CASE j = Len(d) + 1 /\ i = Len(d) + 1
    BY <2>1, <1>1, TimesAreIntegers
  <2>2. CASE j = Len(d) + 1 /\ i \in 1..Len(d)
    BY <2>2, <1>1, <1>4
  <2>3. CASE i \in 1..Len(d) /\ j \in 1..Len(d)
    BY <2>3, <1>1 DEF InOrder, Sorted
  <2>4. QED
    BY <2>1, <2>2, <2>3, <1>1, <1>3
<1>6. NoneBefore(e, last)
  BY <1>1, <1>3 DEF InOrder, NoneBefore
<1>7. Among(e, b)
  <2> SUFFICES ASSUME NEW i \in 1..Len(e)
               PROVE  \E j \in 1..Len(b) : e[i] = b[j]
    BY DEF Among
  <2>1. CASE i = Len(d) + 1
    <3>1. Len(a) + 1 \in 1..Len(b)
      BY <1>2, <1>3
    <3>2. QED
      BY <3>1, <2>1, <1>1, <1>2
  <2>2. CASE i \in 1..Len(d)
    <3>1. PICK j \in 1..Len(a) : d[i] = a[j]
      BY <2>2 DEF InOrder, Among
    <3>2. j \in 1..Len(b)
      BY <1>2, <1>3
    <3>3. QED
      BY <3>1, <3>2, <2>2, <1>1, <1>2
  <2>3. QED
    BY <2>1, <2>2, <1>1, <1>3
<1>8. QED
  BY <1>5, <1>6, <1>7 DEF InOrder, e, b

\* Pop: what is left is no older than the datum popped.
LEMMA PopInOrder ==
    ASSUME NEW d \in Seq(Time), NEW a, NEW last \in Int,
           InOrder(d, last, a), d # <<>>
    PROVE  /\ InOrder(Tail(d), last, a)
           /\ InOrder(Tail(d), Head(d), a)
           /\ last <= Head(d)
<1> DEFINE e == Tail(d)
<1>1. /\ Len(d) \in Nat \ {0} /\ Len(e) = Len(d) - 1 /\ Head(d) = d[1]
      /\ \A k \in 1..Len(d) - 1 : e[k] = d[k + 1]
  BY TailOne
<1> HIDE DEF e
<1>2. \A k \in 1..Len(e) : k + 1 \in 1..Len(d) /\ e[k] = d[k + 1]
  BY <1>1
<1>3. Sorted(e)
  BY <1>2 DEF InOrder, Sorted
<1>4. NoneBefore(e, last)
  BY <1>2 DEF InOrder, NoneBefore
<1>5. NoneBefore(e, d[1])
  <2> SUFFICES ASSUME NEW k \in 1..Len(e) PROVE d[1] <= e[k]
    BY DEF NoneBefore
  <2>1. 1 \in 1..Len(d) /\ k + 1 \in 1..Len(d) /\ 1 <= k + 1
    BY <1>1
  <2>2. QED
    BY <2>1, <1>2 DEF InOrder, Sorted
<1>6. Among(e, a)
  BY <1>2 DEF InOrder, Among
<1>7. last <= d[1]
  BY <1>1 DEF InOrder, NoneBefore
<1>8. QED
  BY <1>1, <1>3, <1>4, <1>5, <1>6, <1>7 DEF InOrder, e

\* Dispatching a datum of another queue that is no newer than the first one.
LEMMA StaysInOrder ==
    ASSUME NEW d \in Seq(Time), NEW a, NEW last, NEW time \in Int,
           InOrder(d, last, a), d = <<>> \/ time <= Head(d)
    PROVE  InOrder(d, time, a)
<1>1. CASE d = <<>>
  BY <1>1, NewInOrder
<1>2. CASE d # <<>> /\ time <= Head(d)
  <2>1. Len(d) \in Nat \ {0} /\ Head(d) = d[1]
    BY <1>2, TailOne
  <2>2. \A k \in 1..Len(d) : d[k] \in Int
    BY ElementOfSeq, TimesAreIntegers
  <2>3. NoneBefore(d, time)
    <3> SUFFICES ASSUME NEW k \in 1..Len(d) PROVE time <= d[k]
      BY DEF NoneBefore
    <3>1. 1 \in 1..Len(d) /\ 1 <= k
      BY <2>1
    <3>2. d[1] <= d[k]
      BY <3>1 DEF InOrder, Sorted
    <3>3. QED
      BY <3>1, <3>2, <2>1, <2>2, <1>2
  <2>4. QED
    BY <2>3 DEF InOrder
<1>3. QED
  BY <1>1, <1>2
-----------------------------------------------------------------------------
(* The operations on the queues. *)

\* Erasing empty queues.
LEMMA ErasedInOrder ==
    ASSUME StreamInv, queues' = Erased,
           UNCHANGED <<last_dispatched_time, added, delivered>>
    PROVE  StreamInv'
<1>1. \A k \in DOMAIN queues' : k \in DOMAIN queues /\ queues'[k] = queues[k]
  BY DEF Erased
<1>2. QueuesType' /\ QueuesInOrder'
  BY <1>1 DEF StreamInv, QueuesType, QueuesInOrder, Data
<1>3. QED
  BY <1>2 DEF StreamInv, StreamType, DeliveredBefore

\* Without a queue to wait for, the next datum is the oldest of all queues.
LEMMA NextIsOldest ==
    ASSUME StreamInv, NEW k, Waiting = {}, IsNext(k)
    PROVE  /\ k \in DOMAIN Erased /\ k \in DOMAIN queues
           /\ Data(k) \in Seq(Time) /\ Data(k) # <<>>
           /\ \A l \in DOMAIN queues : ~Empty(l) =>
                 Head(Data(k)) <= Head(Data(l))
<1>1. Visited = DOMAIN queues
  BY DEF Visited
<1>2. k \in DOMAIN queues /\ Data(k) # <<>> /\ Data(k) \in Seq(Time)
  BY <1>1, QueueFields DEF IsNext, Empty, StreamInv, QueuesType, Data
<1>3. k \in DOMAIN Erased
  BY <1>1, <1>2 DEF Erased, Empty
<1>4. Head(Data(k)) \in Int
  BY <1>2, TailOne, TimesAreIntegers
<1>5. ASSUME NEW l \in DOMAIN queues, ~Empty(l)
      PROVE  Head(Data(k)) <= Head(Data(l))
  <2>1. Data(l) \in Seq(Time) /\ Data(l) # <<>>
    BY <1>5, QueueFields DEF Empty, StreamInv, QueuesType, Data
  <2>2. Head(Data(l)) \in Int
    BY <2>1, TailOne, TimesAreIntegers
  <2>3. CASE l = k
    BY <2>3, <1>4
  <2>4. CASE l # k
    BY <2>4, <1>1, <1>5, <1>4, <2>2 DEF IsNext
  <2>5. QED
    BY <2>3, <2>4
<1>6. QED
  BY <1>2, <1>3, <1>5

\* What Pop leaves.
LEMMA PopOne ==
    ASSUME StreamInv, NEW k \in DOMAIN Erased, Data(k) # <<>>, queues' = Pop(k)
    PROVE  /\ DOMAIN queues' = DOMAIN Erased
           /\ \A l \in DOMAIN queues' :
              /\ l \in DOMAIN queues
              /\ queues'[l] \in Queue
              /\ Data(l)' = IF l = k THEN Tail(Data(k)) ELSE Data(l)
              /\ queues'[l].finished = queues[l].finished
<1>1. /\ DOMAIN Erased \subseteq DOMAIN queues
      /\ \A l \in DOMAIN Erased : Erased[l] = queues[l] /\ queues[l] \in Queue
  BY DEF Erased, StreamInv, QueuesType
<1>2. Tail(Data(k)) \in Seq(Time)
  BY <1>1, QueueFields, TailOne DEF Data
<1> DEFINE q == [queues[k] EXCEPT !.data = Tail(Data(k))]
<1>3. q \in Queue /\ q.data = Tail(Data(k)) /\ q.finished = queues[k].finished
  BY <1>1, <1>2, QueueFields
<1>4. Pop(k) = [Erased EXCEPT ![k] = q]
  <2>1. Erased[k] = queues[k]
    BY <1>1
  <2>2. QED
    BY <2>1, Zenon DEF Pop, Data
<1> HIDE DEF q
<1>5. /\ DOMAIN queues' = DOMAIN Erased
      /\ queues'[k] = q
      /\ \A l \in DOMAIN Erased \ {k} : queues'[l] = Erased[l]
  BY <1>4, ChangeOne, Zenon
<1>6. QED
  BY <1>1, <1>3, <1>5 DEF Data

\* No queue holds anything older than what was dispatched.
LEMMA NeverUnsorted == ASSUME StreamInv PROVE ~NotSorted
<1> SUFFICES ASSUME NEW k \in Visited, ~Empty(k)
             PROVE  ~(Head(Data(k)) < last_dispatched_time)
  BY DEF NotSorted
<1>1. k \in DOMAIN queues
  BY DEF Visited
<1>2. Data(k) \in Seq(Time) /\ Data(k) # <<>>
  BY <1>1, QueueFields DEF Empty, StreamInv, QueuesType, Data
<1>3. last_dispatched_time <= Head(Data(k))
  BY <1>1, <1>2, PopInOrder DEF StreamInv, QueuesInOrder, StreamType
<1>4. Head(Data(k)) \in Int /\ last_dispatched_time \in Int
  BY <1>2, TailOne, TimesAreIntegers DEF StreamInv, StreamType
<1>5. QED
  BY <1>3, <1>4
-----------------------------------------------------------------------------
(* Every step keeps the invariant. *)

LEMMA AddKeepsStream ==
    ASSUME StreamInv, NEW k \in Keys, NEW time \in Time, k \in DOMAIN queues,
           last_dispatched_time <= time, SortedPerQueue(k, time), Add(k, time)
    PROVE  StreamInv'
<1> DEFINE a == added[k]
           d == Data(k)
<1>1. a \in Seq(Time) /\ d \in Seq(Time) /\ InOrder(d, last_dispatched_time, a)
  BY QueueFields DEF StreamInv, StreamType, QueuesType, QueuesInOrder, Data
<1>2. NoneAfter(a, time)
  BY <1>1 DEF SortedPerQueue, NoneAfter
<1>3. InOrder(Append(d, time), last_dispatched_time, Append(a, time))
  BY <1>1, <1>2, AddInOrder DEF StreamInv, StreamType
<1>4. Append(d, time) \in Seq(Time) /\ Append(a, time) \in Seq(Time)
  BY <1>1, AppendOne
<1>5. /\ added' = [added EXCEPT ![k] = Append(a, time)]
      /\ last_dispatched_time' = last_dispatched_time
      /\ delivered' = delivered
  BY Zenon DEF Add, outputs
<1> DEFINE q == [queues[k] EXCEPT !.data = Append(d, time)]
<1>6. q \in Queue /\ q.data = Append(d, time)
  BY <1>4, QueueFields DEF StreamInv, QueuesType
<1>7. queues' = [queues EXCEPT ![k] = q]
  BY Zenon DEF Add, Data
<1> HIDE DEF a, d, q
<1>8. /\ DOMAIN queues' = DOMAIN queues
      /\ queues'[k] = q
      /\ \A l \in DOMAIN queues \ {k} : queues'[l] = queues[l]
  BY <1>7, ChangeOne, Zenon
<1>9. /\ added' \in [Keys -> Seq(Time)]
      /\ added'[k] = Append(a, time)
      /\ \A l \in Keys \ {k} : added'[l] = added[l]
  BY <1>4, <1>5 DEF StreamInv, StreamType
<1>10. QueuesType'
  BY <1>6, <1>8 DEF StreamInv, QueuesType
<1>11. QueuesInOrder'
  <2> SUFFICES ASSUME NEW l \in DOMAIN queues'
               PROVE  InOrder(queues'[l].data, last_dispatched_time', added'[l])
    BY DEF QueuesInOrder, Data
  <2>1. CASE l = k
    BY <2>1, <1>3, <1>5, <1>6, <1>8, <1>9
  <2>2. CASE l # k
    BY <2>2, <1>5, <1>8, <1>9 DEF StreamInv, QueuesType, QueuesInOrder, Data
  <2>3. QED
    BY <2>1, <2>2
<1>12. QED
  BY <1>5, <1>9, <1>10, <1>11 DEF StreamInv, StreamType, DeliveredBefore

LEMMA AddTrajectoryKeepsStream ==
    ASSUME StreamInv, NEW t \in Trajectories, NEW sensors \in SUBSET Sensors,
           AddTrajectory(t, sensors)
    PROVE  StreamInv'
<1> DEFINE new == {t} \X sensors
<1>1. /\ queues' = [k \in DOMAIN queues \cup new |->
                      IF k \in new THEN [data |-> <<>>, finished |-> FALSE]
                                   ELSE queues[k]]
      /\ UNCHANGED <<last_dispatched_time, delivered, added>>
  BY DEF AddTrajectory, outputs
<1>2. new \subseteq Keys
  BY DEF Keys
<1> HIDE DEF new
<1>3. \A k \in DOMAIN queues' :
         IF k \in new THEN queues'[k] = [data |-> <<>>, finished |-> FALSE]
                      ELSE k \in DOMAIN queues /\ queues'[k] = queues[k]
  BY <1>1
<1>4. /\ [data |-> <<>>, finished |-> FALSE] \in Queue
      /\ [data |-> <<>>, finished |-> FALSE].data = <<>>
  BY DEF Queue
<1>5. QueuesType'
  <2> SUFFICES ASSUME NEW k \in DOMAIN queues'
               PROVE  k \in Keys /\ queues'[k] \in Queue
    BY DEF QueuesType
  <2>1. CASE k \in new
    BY <2>1, <1>2, <1>3, <1>4
  <2>2. CASE k \notin new
    BY <2>2, <1>3 DEF StreamInv, QueuesType
  <2>3. QED
    BY <2>1, <2>2
<1>6. QueuesInOrder'
  <2> SUFFICES ASSUME NEW k \in DOMAIN queues'
               PROVE  InOrder(queues'[k].data, last_dispatched_time', added'[k])
    BY DEF QueuesInOrder, Data
  <2>1. CASE k \in new
    BY <2>1, <1>3, <1>4, NewInOrder
  <2>2. CASE k \notin new
    BY <2>2, <1>1, <1>3 DEF StreamInv, QueuesInOrder, Data
  <2>3. QED
    BY <2>1, <2>2
<1>7. QED
  BY <1>1, <1>5, <1>6 DEF StreamInv, StreamType, DeliveredBefore

LEMMA MarkKeepsStream ==
    ASSUME StreamInv, MarkQueueAsFinished
    PROVE  StreamInv'
<1> DEFINE k == Head(finishing)
           q == [queues[k] EXCEPT !.finished = TRUE]
<1>1. UNCHANGED <<last_dispatched_time, delivered, added>>
  BY DEF MarkQueueAsFinished, inputs, outputs
<1>2. queues' = [queues EXCEPT ![k] = q]
  BY Zenon DEF MarkQueueAsFinished
<1>3. k \in DOMAIN queues => q \in Queue /\ q.data = queues[k].data
  BY QueueFinished DEF StreamInv, QueuesType
<1> HIDE DEF k, q
<1>4. /\ DOMAIN queues' = DOMAIN queues
      /\ \A l \in DOMAIN queues : queues'[l] = IF l = k THEN q ELSE queues[l]
  BY <1>2
<1>5. QueuesType' /\ QueuesInOrder'
  BY <1>1, <1>3, <1>4 DEF StreamInv, QueuesType, QueuesInOrder, Data
<1>6. QED
  BY <1>1, <1>5 DEF StreamInv, StreamType, DeliveredBefore

\* Dispatching also delivers a datum no older than any delivered before.
LEMMA DispatchKeepsStream ==
    ASSUME StreamInv, NEW k, NEW start, Dispatch(k, start)
    PROVE  /\ StreamInv'
           /\ k \in Keys
           /\ delivered' = [delivered EXCEPT ![k] = Append(@, Head(Data(k)))]
           /\ last_dispatched_time <= Head(Data(k))
           /\ Head(Data(k)) \in Time
<1> DEFINE d == Data(k)
           h == Head(d)
<1>1. /\ Waiting = {} /\ IsNext(k)
      /\ queues' = Pop(k)
      /\ last_dispatched_time' = h
      /\ delivered' = [delivered EXCEPT ![k] = Append(@, h)]
      /\ added' = added
  BY DEF Dispatch, NextData, inputs
<1>2. /\ k \in DOMAIN Erased /\ k \in DOMAIN queues
      /\ d \in Seq(Time) /\ d # <<>>
      /\ \A l \in DOMAIN queues : ~Empty(l) => h <= Head(Data(l))
  BY <1>1, NextIsOldest
<1>3. k \in Keys
  BY <1>2 DEF StreamInv, QueuesType
<1>4. \A l \in DOMAIN queues' :
              /\ l \in DOMAIN queues
              /\ queues'[l] \in Queue
              /\ Data(l)' = IF l = k THEN Tail(d) ELSE Data(l)
  BY <1>1, <1>2, PopOne
<1> HIDE DEF d
<1>5. h \in Time /\ h \in Int /\ Tail(d) \in Seq(Time)
  BY <1>2, TailOne, TimesAreIntegers
<1>6. InOrder(d, last_dispatched_time, added[k])
  BY <1>2 DEF StreamInv, QueuesInOrder, d
<1>7. InOrder(Tail(d), h, added[k]) /\ last_dispatched_time <= h
  BY <1>2, <1>6, PopInOrder DEF StreamInv, StreamType
<1> HIDE DEF h
<1>8. QueuesType'
  BY <1>4 DEF StreamInv, QueuesType
<1>9. QueuesInOrder'
  <2> SUFFICES ASSUME NEW l \in DOMAIN queues'
               PROVE  InOrder(Data(l)', h, added[l])
    BY <1>1 DEF QueuesInOrder
  <2>1. CASE l = k
    BY <2>1, <1>4, <1>7
  <2>2. CASE l # k
    <3>1. l \in DOMAIN queues /\ Data(l)' = Data(l)
      BY <2>2, <1>4
    <3>2. /\ InOrder(Data(l), last_dispatched_time, added[l])
          /\ Data(l) \in Seq(Time)
      BY <3>1, QueueFields DEF StreamInv, QueuesType, QueuesInOrder, Data
    <3>3. Data(l) = <<>> \/ h <= Head(Data(l))
      BY <3>1, <1>2 DEF Empty
    <3>4. InOrder(Data(l), h, added[l])
      BY <3>2, <3>3, <1>5, StaysInOrder
    <3>5. QED
      BY <3>1, <3>4
  <2>3. QED
    BY <2>1, <2>2
<1>10. delivered \in [Keys -> Seq(Time)] /\ last_dispatched_time \in Int
  BY DEF StreamInv, StreamType
<1>11. delivered[k] \in Seq(Time)
  BY <1>3, <1>10
<1>12. /\ Append(delivered[k], h) \in Seq(Time)
       /\ Len(Append(delivered[k], h)) = Len(delivered[k]) + 1
       /\ Append(delivered[k], h)[Len(delivered[k]) + 1] = h
       /\ \A i \in 1..Len(delivered[k]) :
             Append(delivered[k], h)[i] = delivered[k][i]
  BY <1>5, <1>11, AppendOne
<1>13. /\ delivered' \in [Keys -> Seq(Time)]
       /\ delivered'[k] = Append(delivered[k], h)
       /\ \A l \in Keys \ {k} : delivered'[l] = delivered[l]
  BY <1>1, <1>3, <1>10, <1>12
<1>14. DeliveredBefore'
  <2> SUFFICES ASSUME NEW l \in Keys, NEW i \in 1..Len(delivered'[l])
               PROVE  delivered'[l][i] <= h
    BY <1>1 DEF DeliveredBefore, NoneAfter
  <2>1. ASSUME NEW j \in 1..Len(delivered[l]) PROVE delivered[l][j] <= h
    <3>1. delivered[l][j] \in Int
      BY <1>10, ElementOfSeq, TimesAreIntegers
    <3>2. delivered[l][j] <= last_dispatched_time
      BY <2>1 DEF StreamInv, DeliveredBefore, NoneAfter
    <3>3. QED
      BY <3>1, <3>2, <1>5, <1>7, <1>10
  <2>2. CASE l # k
    BY <2>1, <2>2, <1>13
  <2>3. CASE l = k /\ i \in 1..Len(delivered[k])
    BY <2>1, <2>3, <1>12, <1>13
  <2>4. CASE l = k /\ i = Len(delivered[k]) + 1
    BY <2>4, <1>5, <1>12, <1>13
  <2>5. Len(delivered[k]) \in Nat
    BY <1>11, LenProperties
  <2>6. QED
    BY <2>2, <2>3, <2>4, <2>5, <1>12, <1>13
<1>15. QED
  BY <1>1, <1>3, <1>5, <1>7, <1>8, <1>9, <1>13, <1>14
     DEF StreamInv, StreamType, d, h

LEMMA SkipKeepsStream ==
    ASSUME StreamInv, NEW k, NEW start, Skip(k, start)
    PROVE  StreamInv'
<1>1. /\ Waiting = {} /\ IsNext(k)
      /\ queues' = Pop(k)
      /\ UNCHANGED <<last_dispatched_time, added, delivered>>
  BY DEF Skip, NextData, inputs, outputs
<1>2. k \in DOMAIN Erased /\ Data(k) \in Seq(Time) /\ Data(k) # <<>>
  BY <1>1, NextIsOldest
<1>3. \A l \in DOMAIN queues' :
              /\ l \in DOMAIN queues
              /\ queues'[l] \in Queue
              /\ Data(l)' = IF l = k THEN Tail(Data(k)) ELSE Data(l)
  BY <1>1, <1>2, PopOne
<1>4. QueuesType'
  BY <1>3 DEF StreamInv, QueuesType
<1>5. QueuesInOrder'
  <2> SUFFICES ASSUME NEW l \in DOMAIN queues'
               PROVE  InOrder(Data(l)', last_dispatched_time, added[l])
    BY <1>1 DEF QueuesInOrder
  <2>1. InOrder(Data(l), last_dispatched_time, added[l])
    BY <1>3 DEF StreamInv, QueuesInOrder
  <2>2. CASE l = k
    BY <2>1, <2>2, <1>2, <1>3, PopInOrder DEF StreamInv, StreamType
  <2>3. CASE l # k
    BY <2>1, <2>3, <1>3
  <2>4. QED
    BY <2>2, <2>3
<1>6. QED
  BY <1>1, <1>4, <1>5 DEF StreamInv, StreamType, DeliveredBefore

\* Steps that touch neither the queues nor the stream.
LEMMA OthersKeepStream ==
    ASSUME StreamInv,
           UNCHANGED <<queues, last_dispatched_time, added, delivered>>
    PROVE  StreamInv'
BY DEF StreamInv, QueuesType, StreamType, QueuesInOrder, DeliveredBefore, Data

\* The loop erases no queue that may still get data.
LEMMA ErasedAreFinished ==
    ASSUME StreamInv
    PROVE  /\ DOMAIN Erased \subseteq DOMAIN queues
           /\ \A k \in Unfinished :
                 k \in DOMAIN Erased /\ Erased[k] = queues[k]
<1>1. ASSUME NEW k \in Unfinished PROVE k \in DOMAIN Erased
  <2>1. k \in DOMAIN queues /\ k \in Keys
    BY DEF Unfinished, StreamInv, QueuesType
  <2>2. k[1] \in Int /\ k[2] \in Int
    BY <2>1, OrderAssumption DEF Keys, OrderAssumption
  <2>3. ~Precedes(k, k)
    BY <2>2 DEF Precedes
  <2>4. ~(k \in Visited /\ Empty(k))
    BY <2>3 DEF Visited, Waiting
  <2>5. QED
    BY <2>1, <2>4 DEF Erased
<1>2. QED
  BY <1>1 DEF Erased

\* Steps that open no queue, and add and dispatch nothing.
LEMMA OpenStays ==
    ASSUME StreamInv, KeysAdded, OpenCurrent,
           UNCHANGED <<queue_keys, added, last_dispatched_time>>,
           DOMAIN queues' \subseteq DOMAIN queues, Unfinished' \subseteq Unfinished
    PROVE  KeysAdded' /\ OpenCurrent'
BY DEF KeysAdded, OpenCurrent

LEMMA ErasedOpensNone ==
    ASSUME StreamInv, queues' = Erased
    PROVE  DOMAIN queues' \subseteq DOMAIN queues /\ Unfinished' \subseteq Unfinished
BY DEF Erased, Unfinished

LEMMA PopOpensNone ==
    ASSUME StreamInv, NEW k, Waiting = {}, IsNext(k), queues' = Pop(k)
    PROVE  DOMAIN queues' \subseteq DOMAIN queues /\ Unfinished' \subseteq Unfinished
<1>1. k \in DOMAIN Erased /\ Data(k) # <<>>
  BY NextIsOldest
<1>2. \A l \in DOMAIN queues' : /\ l \in DOMAIN queues
                                /\ queues'[l].finished = queues[l].finished
  BY <1>1, PopOne
<1>3. QED
  BY <1>2 DEF Unfinished

\* Dispatch: a queue that may still get data has some left to be dispatched, and the
\* first of them is not older.
LEMMA DispatchKeepsOpen ==
    ASSUME StreamInv, KeysAdded, OpenCurrent, NEW k, NEW start, Dispatch(k, start)
    PROVE  KeysAdded' /\ OpenCurrent'
<1>1. /\ Waiting = {} /\ IsNext(k)
      /\ queues' = Pop(k)
      /\ last_dispatched_time' = Head(Data(k))
      /\ UNCHANGED <<queue_keys, added>>
  BY DEF Dispatch, NextData, inputs
<1>2. \A l \in DOMAIN queues : ~Empty(l) => Head(Data(k)) <= Head(Data(l))
  BY <1>1, NextIsOldest
<1>3. DOMAIN queues' \subseteq DOMAIN queues /\ Unfinished' \subseteq Unfinished
  BY <1>1, PopOpensNone
<1>4. ASSUME NEW l \in Unfinished PROVE Current(Head(Data(k)), added[l])
  <2>1. l \in DOMAIN queues /\ ~Empty(l)
    BY <1>1 DEF Waiting, Unfinished
  <2>2. Data(l) \in Seq(Time) /\ Data(l) # <<>>
    BY <2>1, QueueFields DEF Empty, StreamInv, QueuesType, Data
  <2>3. 1 \in 1..Len(Data(l)) /\ Head(Data(l)) = Data(l)[1]
    BY <2>2, TailOne
  <2>4. PICK i \in 1..Len(added[l]) : Data(l)[1] = added[l][i]
    BY <2>1, <2>3 DEF StreamInv, QueuesInOrder, InOrder, Among
  <2>5. Head(Data(k)) <= added[l][i]
    BY <2>1, <2>3, <2>4, <1>2
  <2>6. QED
    BY <2>5 DEF Current
<1>5. OpenCurrent'
  BY <1>1, <1>3, <1>4 DEF OpenCurrent
<1>6. KeysAdded'
  BY <1>1, <1>3 DEF KeysAdded
<1>7. QED
  BY <1>5, <1>6

\* Add: the newest datum of a queue is no older than what was dispatched.
LEMMA NewestIsCurrent ==
    ASSUME StreamInv, OpenCurrent, NEW k \in Keys, NEW time \in Time,
           StartsLater(k, time), AddSorted(k, time)
    PROVE  last_dispatched_time <= time
<1>1. CASE added[k] = <<>>
  BY <1>1 DEF StartsLater
<1>2. CASE added[k] # <<>>
  <2>1. PICK i \in 1..Len(added[k]) : last_dispatched_time <= added[k][i]
    BY <1>2 DEF AddSorted, OpenCurrent, Current
  <2>2. added[k] \in Seq(Time) /\ last_dispatched_time \in Int
    BY DEF StreamInv, StreamType
  <2>3. added[k][i] \in Int /\ i \in DOMAIN added[k]
    <3>1. PICK a \in Seq(Time) : a = added[k]
      BY <2>2
    <3>2. a[i] \in Time /\ i \in DOMAIN a
      BY <3>1, ElementOfSeq
    <3>3. QED
      BY <3>1, <3>2, TimesAreIntegers
  <2>4. added[k][i] <= time
    BY <2>3 DEF AddSorted, SortedPerQueue
  <2>5. QED
    BY <2>1, <2>2, <2>3, <2>4, TimesAreIntegers
<1>3. QED
  BY <1>1, <1>2

LEMMA AddKeepsOpen ==
    ASSUME StreamInv, KeysAdded, OpenCurrent, NEW k \in Keys, NEW time \in Time,
           StartsLater(k, time), AddSorted(k, time)
    PROVE  KeysAdded' /\ OpenCurrent'
<1>1. last_dispatched_time <= time
  BY NewestIsCurrent
<1> DEFINE q == [queues[k] EXCEPT !.data = Append(@, time)]
           a == Append(added[k], time)
<1>2. /\ k \in DOMAIN queues
      /\ queues' = [queues EXCEPT ![k] = q]
      /\ added' = [added EXCEPT ![k] = a]
      /\ UNCHANGED <<queue_keys, last_dispatched_time>>
  BY Zenon DEF AddSorted, Add, Unfinished, outputs
<1>3. added \in [Keys -> Seq(Time)] /\ queues[k] \in Queue
  BY <1>2 DEF StreamInv, StreamType, QueuesType
<1>4. q.finished = queues[k].finished
  BY <1>3 DEF Queue
<1>5. a \in Seq(Time) /\ Len(a) = Len(added[k]) + 1 /\ a[Len(added[k]) + 1] = time
  BY <1>3, AppendOne
<1>6. Len(added[k]) + 1 \in 1..Len(a)
  BY <1>3, <1>5, LenProperties
<1> HIDE DEF q, a
<1>7. Current(last_dispatched_time, a)
  BY <1>1, <1>5, <1>6 DEF Current
<1>8. /\ DOMAIN queues' = DOMAIN queues
      /\ queues'[k] = q
      /\ \A l \in DOMAIN queues \ {k} : queues'[l] = queues[l]
  BY <1>2, ChangeOne, Zenon
<1>9. Unfinished' = Unfinished
  BY <1>4, <1>8 DEF Unfinished
<1>10. added'[k] = a /\ \A l \in Keys \ {k} : added'[l] = added[l]
  BY <1>2, <1>3
<1>11. Unfinished \subseteq Keys
  BY DEF Unfinished, StreamInv, QueuesType
<1>12. OpenCurrent'
  BY <1>2, <1>7, <1>9, <1>10, <1>11 DEF OpenCurrent
<1>13. KeysAdded'
  BY <1>2, <1>8, <1>10 DEF KeysAdded
<1>14. QED
  BY <1>12, <1>13

\* A new trajectory has new queues, to which nothing was added.
LEMMA NewTrajectoryKeepsOpen ==
    ASSUME StreamInv, KeysAdded, OpenCurrent, NewTrajectory
    PROVE  KeysAdded' /\ OpenCurrent'
<1>1. PICK t \in Trajectories, sensors \in SUBSET Sensors :
         queue_keys[t] = {} /\ AddTrajectory(t, sensors)
  BY DEF NewTrajectory
<1> DEFINE new == {t} \X sensors
<1>2. /\ queue_keys' = [queue_keys EXCEPT ![t] = @ \cup sensors]
      /\ queues' = [k \in DOMAIN queues \cup new |->
                      IF k \in new THEN [data |-> <<>>, finished |-> FALSE]
                                   ELSE queues[k]]
      /\ UNCHANGED <<added, last_dispatched_time>>
  BY <1>1 DEF AddTrajectory, outputs
<1>3. \A k \in new : k \in Keys /\ k[1] = t /\ k[2] \in sensors
  BY <1>1 DEF Keys
<1> HIDE DEF new
<1>4. \A k \in new : added[k] = <<>>
  BY <1>1, <1>3 DEF KeysAdded
<1>5. /\ queue_keys' \in [Trajectories -> SUBSET Sensors]
      /\ queue_keys'[t] = queue_keys[t] \cup sensors
      /\ \A u \in Trajectories \ {t} : queue_keys'[u] = queue_keys[u]
  BY <1>1, <1>2 DEF KeysAdded
<1>6. ASSUME NEW k \in Keys, k[2] \in queue_keys[k[1]] PROVE k[2] \in queue_keys'[k[1]]
  BY <1>5, <1>6 DEF Keys
<1>7. ASSUME NEW k \in DOMAIN queues' PROVE k[2] \in queue_keys'[k[1]]
  <2>1. CASE k \in new
    BY <2>1, <1>3, <1>5
  <2>2. CASE k \notin new
    BY <2>2, <1>2, <1>6 DEF KeysAdded, StreamInv, QueuesType
  <2>3. QED
    BY <2>1, <2>2
<1>8. KeysAdded'
  BY <1>2, <1>5, <1>6, <1>7 DEF KeysAdded
<1>9. \A k \in Unfinished' : k \in new \/ k \in Unfinished
  BY <1>2 DEF Unfinished
<1>10. OpenCurrent'
  BY <1>2, <1>4, <1>9 DEF OpenCurrent, Current
<1>11. QED
  BY <1>8, <1>10

LEMMA MarkKeepsOpen ==
    ASSUME StreamInv, KeysAdded, OpenCurrent, MarkQueueAsFinished
    PROVE  KeysAdded' /\ OpenCurrent'
<1> DEFINE k == Head(finishing)
           q == [queues[k] EXCEPT !.finished = TRUE]
<1>1. UNCHANGED <<queue_keys, last_dispatched_time, added>>
  BY DEF MarkQueueAsFinished, inputs, outputs
<1>2. queues' = [queues EXCEPT ![k] = q]
  BY Zenon DEF MarkQueueAsFinished
<1>3. k \in DOMAIN queues => q.finished
  BY QueueFinished DEF StreamInv, QueuesType
<1> HIDE DEF k, q
<1>4. /\ DOMAIN queues' = DOMAIN queues
      /\ \A l \in DOMAIN queues : queues'[l] = IF l = k THEN q ELSE queues[l]
  BY <1>2
<1>5. Unfinished' \subseteq Unfinished
  BY <1>3, <1>4 DEF Unfinished
<1>6. QED
  BY <1>1, <1>4, <1>5, OpenStays

LEMMA InitStream == Init => StreamInv
<1> SUFFICES ASSUME Init PROVE StreamInv
  OBVIOUS
<1>1. QueuesType /\ QueuesInOrder
  BY DEF Init, QueuesType, QueuesInOrder
<1>2. <<>> \in Seq(Time)
  OBVIOUS
<1>3. StreamType
  BY <1>2, TimesAreIntegers DEF Init, StreamType
<1>4. DeliveredBefore
  BY DEF Init, DeliveredBefore, NoneAfter
<1>5. QED
  BY <1>1, <1>3, <1>4 DEF StreamInv

LEMMA InitOpen == Init => KeysAdded /\ OpenCurrent
<1> SUFFICES ASSUME Init PROVE KeysAdded /\ OpenCurrent
  OBVIOUS
<1>1. DOMAIN queues = {} /\ Unfinished = {}
  BY DEF Init, Unfinished
<1>2. \A k \in Keys : added[k] = <<>>
  BY DEF Init
<1>3. QED
  BY <1>1, <1>2 DEF Init, KeysAdded, OpenCurrent

LEMMA NextOpen == StreamInv /\ KeysAdded /\ OpenCurrent /\ [Next]_vars
                     => KeysAdded' /\ OpenCurrent'
<1> SUFFICES ASSUME StreamInv, KeysAdded, OpenCurrent, [Next]_vars
             PROVE  KeysAdded' /\ OpenCurrent'
  OBVIOUS
<1> DEFINE Goal == KeysAdded' /\ OpenCurrent'
<1>1. CASE MarkQueueAsFinished
  BY <1>1, MarkKeepsOpen
<1>2. ASSUME queues' = Erased, UNCHANGED <<queue_keys, added, last_dispatched_time>>
      PROVE  Goal
  BY <1>2, ErasedOpensNone, OpenStays
<1>3. ASSUME NEW k \in DOMAIN queues, CannotMakeProgress(k) PROVE Goal
  BY <1>2, <1>3 DEF CannotMakeProgress, inputs, outputs
<1>4. CASE NothingLeft
  BY <1>2, <1>4 DEF NothingLeft, inputs, outputs
<1>5. ASSUME NEW k \in DOMAIN queues, NEW start \in Time, Dispatch(k, start)
      PROVE  Goal
  BY <1>5, DispatchKeepsOpen
<1>6. ASSUME NEW k \in DOMAIN queues, NEW start \in Time, Skip(k, start)
      PROVE  Goal
  <2>1. /\ Waiting = {} /\ IsNext(k) /\ queues' = Pop(k)
        /\ UNCHANGED <<queue_keys, added, last_dispatched_time>>
    BY <1>6 DEF Skip, NextData, inputs, outputs
  <2>2. QED
    BY <2>1, PopOpensNone, OpenStays
<1>7. ASSUME NEW k \in DOMAIN queues, NEW start \in Time, WaitToDecide(k, start)
      PROVE  Goal
  BY <1>2, <1>7 DEF WaitToDecide, inputs, outputs
<1>8. CASE NewTrajectory
  BY <1>8, NewTrajectoryKeepsOpen
<1>9. ASSUME UNCHANGED <<queues, queue_keys, added, last_dispatched_time>> PROVE Goal
  BY <1>9, OpenStays DEF Unfinished
<1>10. CASE EndTrajectory \/ Finish
  BY <1>9, <1>10 DEF EndTrajectory, FinishTrajectory, Finish, Flush, Destroy, inputs, outputs
<1>11. CASE Rest \/ UNCHANGED vars
  BY <1>9, <1>11 DEF Rest, vars, inputs, outputs
<1>12. ASSUME NEW k \in Keys, NEW time \in Time, StartsLater(k, time), AddSorted(k, time)
       PROVE  Goal
  BY <1>12, AddKeepsOpen
<1>13. QED
  BY <1>1, <1>3, <1>4, <1>5, <1>6, <1>7, <1>8, <1>10, <1>11, <1>12
     DEF Next, Others, Internal

LEMMA NextStream == StreamInv /\ OpenCurrent /\ [Next]_vars => StreamInv'
<1> SUFFICES ASSUME StreamInv, OpenCurrent, [Next]_vars PROVE StreamInv'
  OBVIOUS
<1>1. CASE MarkQueueAsFinished
  BY <1>1, MarkKeepsStream
<1>2. ASSUME NEW k \in DOMAIN queues, CannotMakeProgress(k) PROVE StreamInv'
  BY <1>2, ErasedInOrder DEF CannotMakeProgress, inputs, outputs
<1>3. CASE NothingLeft
  BY <1>3, ErasedInOrder DEF NothingLeft, inputs, outputs
<1>4. ASSUME NEW k \in DOMAIN queues, NEW start \in Time, Dispatch(k, start)
      PROVE  StreamInv'
  BY <1>4, DispatchKeepsStream
<1>5. ASSUME NEW k \in DOMAIN queues, NEW start \in Time, Skip(k, start)
      PROVE  StreamInv'
  BY <1>5, SkipKeepsStream
<1>6. ASSUME NEW k \in DOMAIN queues, NEW start \in Time,
             WaitToDecide(k, start)
      PROVE  StreamInv'
  BY <1>6, ErasedInOrder DEF WaitToDecide, inputs, outputs
<1>7. CASE NewTrajectory
  BY <1>7, AddTrajectoryKeepsStream DEF NewTrajectory
<1>8. CASE EndTrajectory
  BY <1>8, OthersKeepStream DEF EndTrajectory, FinishTrajectory, inputs, outputs
<1>9. CASE Finish
  BY <1>9, OthersKeepStream DEF Finish, Flush, Destroy, outputs
<1>10. CASE Rest \/ UNCHANGED vars
  BY <1>10, OthersKeepStream DEF Rest, vars, inputs, outputs
<1>11. ASSUME NEW k \in Keys, NEW time \in Time, StartsLater(k, time), AddSorted(k, time)
       PROVE  StreamInv'
  <2>1. k \in DOMAIN queues
    BY <1>11 DEF AddSorted, Unfinished
  <2>2. last_dispatched_time <= time /\ SortedPerQueue(k, time) /\ Add(k, time)
    BY <1>11, NewestIsCurrent DEF AddSorted
  <2>3. QED
    BY <2>1, <2>2, AddKeepsStream
<1>12. QED
  BY <1>1, <1>2, <1>3, <1>4, <1>5, <1>6, <1>7, <1>8, <1>9, <1>10, <1>11
     DEF Next, Others, Internal

LEMMA StreamAlways == Spec => [](StreamInv /\ KeysAdded /\ OpenCurrent)
BY InitStream, NextStream, InitOpen, NextOpen, PTL DEF Spec
-----------------------------------------------------------------------------
(* The merged stream. *)

Merged == \A k, l \in Keys : delivered'[k] # delivered[k] =>
             \A i \in DOMAIN delivered[l] :
                delivered[l][i] <= delivered'[k][Len(delivered'[k])]

LEMMA DispatchMerges ==
    ASSUME StreamInv, NEW k, NEW start, Dispatch(k, start)
    PROVE  Merged
<1> DEFINE h == Head(Data(k))
<1>1. /\ k \in Keys
      /\ delivered' = [delivered EXCEPT ![k] = Append(@, h)]
      /\ last_dispatched_time <= h
      /\ h \in Time
  BY DispatchKeepsStream
<1> HIDE DEF h
<1>2. delivered \in [Keys -> Seq(Time)] /\ last_dispatched_time \in Int
  BY DEF StreamInv, StreamType
<1>3. h \in Int
  BY <1>1, TimesAreIntegers
<1>4. delivered[k] \in Seq(Time)
  BY <1>1, <1>2
<1>5. /\ Append(delivered[k], h) \in Seq(Time)
      /\ Len(Append(delivered[k], h)) = Len(delivered[k]) + 1
      /\ Append(delivered[k], h)[Len(delivered[k]) + 1] = h
  BY <1>1, <1>4, AppendOne
<1>6. /\ delivered'[k] = Append(delivered[k], h)
      /\ \A j \in Keys \ {k} : delivered'[j] = delivered[j]
  BY <1>1, <1>2
<1>7. delivered'[k][Len(delivered'[k])] = h
  BY <1>5, <1>6
<1>8. SUFFICES ASSUME NEW l \in Keys, NEW i \in DOMAIN delivered[l]
               PROVE  delivered[l][i] <= h
  BY <1>6, <1>7 DEF Merged
<1>9. delivered[l] \in Seq(Time)
  BY <1>2
<1>10. i \in 1..Len(delivered[l])
  BY <1>9
<1>11. delivered[l][i] \in Int
  BY <1>9, <1>10, ElementOfSeq, TimesAreIntegers
<1>12. delivered[l][i] <= last_dispatched_time
  BY <1>10 DEF StreamInv, DeliveredBefore, NoneAfter
<1>13. QED
  BY <1>1, <1>2, <1>3, <1>11, <1>12

LEMMA NextMerges == StreamInv /\ [Next]_vars => [Merged]_vars
<1> SUFFICES ASSUME StreamInv, [Next]_vars, ~UNCHANGED delivered PROVE Merged
  BY DEF Merged
<1>1. PICK k \in DOMAIN queues, start \in Time : Dispatch(k, start)
  BY DEF Next, Others, Internal, MarkQueueAsFinished, CannotMakeProgress,
         NothingLeft, Skip, WaitToDecide, NewTrajectory, AddTrajectory,
         EndTrajectory, FinishTrajectory, Finish, Flush, Destroy, Rest,
         AddSorted, Add, vars, inputs, outputs
<1>2. QED
  BY <1>1, DispatchMerges

\* The callbacks get the data of all sensors of all trajectories in time
\* order: nothing is delivered that is older than a datum delivered before.
THEOREM StreamIsMerged == Spec => MergeSorted
<1>1. Spec => [][Merged]_vars
  BY StreamAlways, NextMerges, PTL DEF Spec
<1>2. QED
  BY <1>1 DEF MergeSorted, Merged
-----------------------------------------------------------------------------
(* The CHECKs. *)

\* The keys that the running call still has to mark are those of different
\* queues that exist and are not finished.
Marks == /\ finishing \in Seq(Keys)
         /\ \A i \in 1..Len(finishing) : finishing[i] \in Unfinished
         /\ \A i, j \in 1..Len(finishing) :
               i # j => finishing[i] # finishing[j]

CallInv == ~failed /\ Marks

\* Steps that mark nothing.
LEMMA MarksStay ==
    ASSUME CallInv, ~failed', UNCHANGED <<queue_keys, finishing>>,
           DOMAIN queues' \subseteq DOMAIN queues, Unfinished \subseteq Unfinished'
    PROVE  CallInv'
BY DEF CallInv, Marks

LEMMA ErasedKeepsCalls ==
    ASSUME StreamInv, CallInv, ~failed', queues' = Erased,
           UNCHANGED <<queue_keys, finishing>>
    PROVE  CallInv'
<1>1. DOMAIN queues' \subseteq DOMAIN queues
  BY ErasedAreFinished
<1>2. Unfinished \subseteq Unfinished'
  BY ErasedAreFinished DEF Unfinished
<1>3. QED
  BY <1>1, <1>2, MarksStay

LEMMA PopKeepsCalls ==
    ASSUME StreamInv, CallInv, ~failed', NEW k, Waiting = {}, IsNext(k),
           queues' = Pop(k), UNCHANGED <<queue_keys, finishing>>
    PROVE  CallInv'
<1>1. k \in DOMAIN Erased /\ Data(k) # <<>>
  BY NextIsOldest
<1>2. /\ DOMAIN queues' = DOMAIN Erased
      /\ \A l \in DOMAIN queues' : queues'[l].finished = queues[l].finished
  BY <1>1, PopOne
<1>3. DOMAIN queues' \subseteq DOMAIN queues
  BY <1>2, ErasedAreFinished
<1>4. Unfinished \subseteq Unfinished'
  BY <1>2, ErasedAreFinished DEF Unfinished
<1>5. QED
  BY <1>3, <1>4, MarksStay

LEMMA AddKeepsCalls ==
    ASSUME StreamInv, CallInv, NEW k \in DOMAIN queues, NEW time, Add(k, time)
    PROVE  CallInv'
<1> DEFINE q == [queues[k] EXCEPT !.data = Append(@, time)]
<1>1. /\ queues' = [queues EXCEPT ![k] = q]
      /\ failed' = failed
      /\ UNCHANGED <<queue_keys, finishing>>
  BY Zenon DEF Add
<1>2. q.finished = queues[k].finished
  <2>1. queues[k] \in Queue
    BY DEF StreamInv, QueuesType
  <2>2. QED
    BY <2>1 DEF Queue
<1> HIDE DEF q
<1>3. /\ DOMAIN queues' = DOMAIN queues
      /\ queues'[k] = q
      /\ \A l \in DOMAIN queues \ {k} : queues'[l] = queues[l]
  BY <1>1, ChangeOne, Zenon
<1>4. Unfinished \subseteq Unfinished'
  BY <1>2, <1>3 DEF Unfinished
<1>5. ~failed'
  BY <1>1 DEF CallInv
<1>6. QED
  BY <1>1, <1>3, <1>4, <1>5, MarksStay

\* A new trajectory has new queues.
LEMMA NewTrajectoryKeepsCalls ==
    ASSUME StreamInv, KeysAdded, CallInv, NewTrajectory
    PROVE  CallInv'
<1>1. PICK t \in Trajectories, sensors \in SUBSET Sensors :
         queue_keys[t] = {} /\ AddTrajectory(t, sensors)
  BY DEF NewTrajectory
<1> DEFINE new == {t} \X sensors
<1>2. /\ queues' = [k \in DOMAIN queues \cup new |->
                      IF k \in new THEN [data |-> <<>>, finished |-> FALSE]
                                   ELSE queues[k]]
      /\ failed' = (new \cap DOMAIN queues # {})
      /\ finishing' = finishing
  BY <1>1 DEF AddTrajectory
<1>3. \A k \in new : k[1] = t /\ k[2] \in sensors
  OBVIOUS
<1> HIDE DEF new
<1>4. new \cap DOMAIN queues = {}
  BY <1>1, <1>3 DEF KeysAdded
<1>5. ~failed'
  BY <1>2, <1>4
<1>6. Unfinished \subseteq Unfinished'
  BY <1>2, <1>4 DEF Unfinished
<1>7. Marks'
  BY <1>2, <1>6 DEF CallInv, Marks
<1>8. QED
  BY <1>5, <1>7 DEF CallInv

LEMMA MarkKeepsCalls ==
    ASSUME StreamInv, CallInv, MarkQueueAsFinished
    PROVE  CallInv'
<1> DEFINE k == Head(finishing)
           q == [queues[k] EXCEPT !.finished = TRUE]
<1>1. /\ finishing \in Seq(Keys) /\ finishing # <<>>
      /\ \A i \in 1..Len(finishing) : finishing[i] \in Unfinished
      /\ \A i, j \in 1..Len(finishing) : i # j => finishing[i] # finishing[j]
  BY DEF MarkQueueAsFinished, CallInv, Marks
<1>2. /\ Tail(finishing) \in Seq(Keys)
      /\ Len(finishing) \in Nat \ {0}
      /\ Len(Tail(finishing)) = Len(finishing) - 1
      /\ k = finishing[1]
      /\ \A i \in 1..Len(finishing) - 1 : Tail(finishing)[i] = finishing[i + 1]
  BY <1>1, TailOne
<1>3. k \in Unfinished
  BY <1>1, <1>2
<1>4. /\ queues' = [queues EXCEPT ![k] = q]
      /\ finishing' = Tail(finishing)
      /\ queue_keys' = queue_keys
      /\ failed' = (k \notin Unfinished)
  BY Zenon DEF MarkQueueAsFinished, inputs
<1> HIDE DEF k, q
<1>5. /\ DOMAIN queues' = DOMAIN queues
      /\ \A l \in DOMAIN queues \ {k} : queues'[l] = queues[l]
  BY <1>3, <1>4, ChangeOne, Zenon DEF Unfinished
<1>6. \A l \in Unfinished \ {k} : l \in Unfinished'
  BY <1>5 DEF Unfinished
<1>7. \A i \in 1..Len(finishing') : /\ i + 1 \in 1..Len(finishing)
                                    /\ i + 1 # 1
                                    /\ finishing'[i] = finishing[i + 1]
  BY <1>2, <1>4
<1>8. ASSUME NEW i \in 1..Len(finishing') PROVE finishing'[i] \in Unfinished'
  <2>1. finishing[i + 1] \in Unfinished
    BY <1>1, <1>7
  <2>2. finishing[i + 1] # k
    <3>1. 1 \in 1..Len(finishing)
      BY <1>2
    <3>2. QED
      BY <3>1, <1>1, <1>2, <1>7
  <2>3. QED
    BY <2>1, <2>2, <1>6, <1>7
<1>9. ASSUME NEW i \in 1..Len(finishing'), NEW j \in 1..Len(finishing'), i # j
      PROVE  finishing'[i] # finishing'[j]
  <2>1. i + 1 \in 1..Len(finishing) /\ j + 1 \in 1..Len(finishing)
    BY <1>7
  <2>2. i + 1 # j + 1
    BY <1>9
  <2>3. finishing[i + 1] # finishing[j + 1]
    BY <2>1, <2>2, <1>1
  <2>4. QED
    BY <2>3, <1>7
<1>10. Marks'
  BY <1>2, <1>4, <1>8, <1>9 DEF Marks
<1>11. ~failed'
  BY <1>3, <1>4
<1>12. QED
  BY <1>10, <1>11 DEF CallInv

\* A call that begins to mark queues.
LEMMA EnumerationsMark ==
    ASSUME StreamInv, CallInv, NEW S \in SUBSET Unfinished,
           finishing' \in Enumerations(S),
           UNCHANGED <<queues, queue_keys, failed>>
    PROVE  CallInv'
<1>1. Unfinished \subseteq Keys
  BY DEF Unfinished, StreamInv, QueuesType
<1>2. IsFiniteSet(Keys)
  BY FS_Product, FiniteAssumption DEF Keys, FiniteAssumption
<1>3. IsFiniteSet(S)
  BY <1>1, <1>2, FS_Subset
<1>4. Cardinality(S) \in Nat
  BY <1>3, FS_CardinalityType
<1> DEFINE n == Cardinality(S)
<1>5. /\ finishing' \in [1..n -> S]
      /\ \A i, j \in 1..n : i # j => finishing'[i] # finishing'[j]
  BY DEF Enumerations
<1> HIDE DEF n
<1>6. finishing' \in Seq(Keys) /\ Len(finishing') = n
  <2>1. finishing' \in [1..n -> Keys]
    BY <1>1, <1>5
  <2>2. n \in Nat
    BY <1>4 DEF n
  <2>3. QED
    BY <2>1, <2>2
<1>7. Unfinished' = Unfinished
  BY DEF Unfinished
<1>8. Marks'
  BY <1>5, <1>6, <1>7 DEF Marks
<1>9. ~failed'
  BY DEF CallInv
<1>10. QED
  BY <1>8, <1>9 DEF CallInv

LEMMA InitCalls == Init => CallInv
<1> SUFFICES ASSUME Init PROVE CallInv
  OBVIOUS
<1>1. finishing = <<>> /\ ~failed
  BY DEF Init
<1>2. Marks
  BY <1>1 DEF Marks
<1>3. QED
  BY <1>1, <1>2 DEF CallInv

LEMMA NextCalls == StreamInv /\ KeysAdded /\ CallInv /\ [Next]_vars => CallInv'
<1> SUFFICES ASSUME StreamInv, KeysAdded, CallInv, [Next]_vars PROVE CallInv'
  OBVIOUS
<1>1. ASSUME Iterate PROVE ~failed'
  BY <1>1, NeverUnsorted DEF Iterate
<1>2. CASE MarkQueueAsFinished
  BY <1>2, MarkKeepsCalls
<1>3. ASSUME NEW k \in DOMAIN queues, CannotMakeProgress(k) PROVE CallInv'
  BY <1>1, <1>3, ErasedKeepsCalls DEF CannotMakeProgress, inputs
<1>4. CASE NothingLeft
  BY <1>1, <1>4, ErasedKeepsCalls DEF NothingLeft, inputs
<1>5. ASSUME NEW k \in DOMAIN queues, NEW start \in Time,
             Dispatch(k, start) \/ Skip(k, start)
      PROVE  CallInv'
  <2>1. /\ Iterate /\ Waiting = {} /\ IsNext(k)
        /\ queues' = Pop(k)
        /\ UNCHANGED <<queue_keys, finishing>>
    BY <1>5 DEF Dispatch, Skip, NextData, inputs
  <2>2. QED
    BY <2>1, <1>1, PopKeepsCalls
<1>6. ASSUME NEW k \in DOMAIN queues, NEW start \in Time,
             WaitToDecide(k, start)
      PROVE  CallInv'
  BY <1>1, <1>6, ErasedKeepsCalls DEF WaitToDecide, NextData, inputs
<1>7. CASE NewTrajectory
  BY <1>7, NewTrajectoryKeepsCalls
<1>8. CASE EndTrajectory
  <2>1. PICK t \in Trajectories : /\ {t} \X queue_keys[t] \subseteq Unfinished
                                  /\ FinishTrajectory(t)
    BY <1>8 DEF EndTrajectory
  <2>2. /\ finishing' \in Enumerations({t} \X queue_keys[t])
        /\ UNCHANGED <<queues, queue_keys, failed>>
    BY <2>1 DEF FinishTrajectory, inputs
  <2>3. QED
    BY <2>1, <2>2, EnumerationsMark
<1>9. CASE Flush
  <2>1. /\ finishing' \in Enumerations(Unfinished)
        /\ UNCHANGED <<queues, queue_keys, failed>>
    BY <1>9 DEF Flush
  <2>2. QED
    BY <2>1, EnumerationsMark
<1>10. CASE Unfinished = {} /\ Destroy
  <2>1. ~failed' /\ UNCHANGED <<queues, queue_keys, finishing>>
    BY <1>10 DEF Destroy
  <2>2. QED
    BY <2>1, MarksStay DEF Unfinished
<1>11. CASE Rest \/ UNCHANGED vars
  <2>1. UNCHANGED <<queues, queue_keys, finishing, failed>>
    BY <1>11 DEF Rest, vars, inputs
  <2>2. QED
    BY <2>1, MarksStay DEF CallInv, Unfinished
<1>12. ASSUME NEW k \in Keys, NEW time \in Time, AddSorted(k, time)
       PROVE  CallInv'
  BY <1>12, AddKeepsCalls DEF AddSorted, Unfinished
<1>13. QED
  BY <1>2, <1>3, <1>4, <1>5, <1>6, <1>7, <1>8, <1>9, <1>10, <1>11, <1>12
     DEF Next, Others, Internal, Finish

\* No CHECK of the collator and its queues fails, the CHECK of the merge order included,
\* for a client that adds the data of each sensor in order, that of a trajectory added
\* later no earlier than what was dispatched (StartsLater), and that finishes a trajectory
\* once.  Without the second condition, which the documentation does not state, it fails
\* (OrderedMultiQueueSorted.cfg).
THEOREM ChecksHold == Spec => []NoCheckFails
<1>1. Spec => []CallInv
  BY StreamAlways, InitCalls, NextCalls, PTL DEF Spec
<1>2. CallInv => NoCheckFails
  BY DEF CallInv, NoCheckFails
<1>3. QED
  BY <1>1, <1>2, PTL
-----------------------------------------------------------------------------
(* Nothing that could be delivered is held back. *)

StartsType == common_start_time \in [Trajectories -> Time \cup {MinTime}]

LEMMA NextStartsType == StreamInv /\ StartsType /\ [Next]_vars => StartsType'
<1> SUFFICES ASSUME StreamInv, StartsType, [Next]_vars PROVE StartsType'
  OBVIOUS
<1>1. CASE UNCHANGED common_start_time
  BY <1>1 DEF StartsType
<1>2. ASSUME NEW k \in DOMAIN queues, NEW start \in Time, NextData(k, start)
      PROVE  StartsType'
  BY <1>2 DEF NextData, StartsType
<1>3. QED
  BY <1>1, <1>2
     DEF Next, Others, Internal, MarkQueueAsFinished, CannotMakeProgress, NothingLeft,
         Dispatch, Skip, WaitToDecide, NewTrajectory, AddTrajectory, EndTrajectory,
         FinishTrajectory, Finish, Flush, Destroy, Rest, AddSorted, Add, vars

LEMMA StartsTypeAlways == Spec => []StartsType
<1>1. Init => StartsType
  BY DEF Init, StartsType
<1>2. QED
  BY <1>1, StreamAlways, NextStartsType, PTL DEF Spec

LEMMA InitWaits == Init => WaitsForData
BY DEF Init, WaitsForData

\* A call that leaves the queues alone, or one that is not over.
LEMMA WaitsStay ==
    ASSUME WaitsForData, Idle' /\ ~failed' => Idle /\ ~failed,
           UNCHANGED <<queues, common_start_time>>
    PROVE  WaitsForData'
BY DEF WaitsForData, Unfinished, Empty, Undecided, Data

\* The loop returns with a queue to wait for, or with none left.
LEMMA BlockerStays ==
    ASSUME StreamInv, NEW k \in Unfinished, queues' = Erased
    PROVE  k \in Unfinished' /\ Data(k)' = Data(k)
BY ErasedAreFinished DEF Unfinished, Data

LEMMA NothingLeftIsEmpty ==
    ASSUME NothingLeft
    PROVE  DOMAIN queues' = {}
<1>1. Visited = DOMAIN queues /\ queues' = Erased /\ \A k \in DOMAIN queues : Empty(k)
  BY DEF NothingLeft, Visited
<1>2. QED
  BY <1>1 DEF Erased

LEMMA NextWaits == StreamInv /\ StartsType /\ WaitsForData /\ [Next]_vars => WaitsForData'
<1> SUFFICES ASSUME StreamInv, StartsType, WaitsForData, [Next]_vars PROVE WaitsForData'
  OBVIOUS
<1>1. CASE dispatching' = TRUE
  BY <1>1 DEF WaitsForData, Idle
<1>2. ASSUME NEW k \in DOMAIN queues, CannotMakeProgress(k) PROVE WaitsForData'
  <2>1. k \in Unfinished /\ Empty(k) /\ queues' = Erased
    BY <1>2 DEF CannotMakeProgress, Waiting
  <2>2. k \in Unfinished' /\ Empty(k)'
    BY <2>1, BlockerStays DEF Empty
  <2>3. QED
    BY <2>2 DEF WaitsForData
<1>3. CASE NothingLeft
  BY <1>3, NothingLeftIsEmpty DEF WaitsForData
<1>4. ASSUME NEW k \in DOMAIN queues, NEW start \in Time,
             Dispatch(k, start) \/ Skip(k, start)
      PROVE  WaitsForData'
  <2>1. dispatching /\ dispatching' = dispatching
    BY <1>4 DEF Dispatch, Skip, NextData, Iterate
  <2>2. QED
    BY <2>1 DEF WaitsForData, Idle
<1>5. ASSUME NEW k \in DOMAIN queues, NEW start \in Time, WaitToDecide(k, start)
      PROVE  WaitsForData'
  <2>1. /\ Undecided(k, start) /\ queues' = Erased
        /\ common_start_time' = [common_start_time EXCEPT ![k[1]] = start]
    BY <1>5 DEF WaitToDecide, NextData
  <2>2. k \in Unfinished
    BY <2>1 DEF Undecided, Unfinished
  <2>3. k \in Unfinished' /\ Data(k)' = Data(k)
    BY <2>1, <2>2, BlockerStays
  <2>4. ~queues'[k].finished
    BY <2>3 DEF Unfinished
  <2>5. k[1] \in Trajectories
    BY <1>5 DEF StreamInv, QueuesType, Keys
  <2>6. common_start_time'[k[1]] = start
    BY <2>1, <2>5 DEF StartsType
  <2>7. Undecided(k, common_start_time[k[1]])'
    BY <2>1, <2>3, <2>4, <2>6 DEF Undecided
  <2>8. QED
    BY <2>3, <2>7 DEF WaitsForData
<1>6. CASE NewTrajectory
  <2>1. PICK t \in Trajectories, sensors \in (SUBSET Sensors) \ {{}} : AddTrajectory(t, sensors)
    BY <1>6 DEF NewTrajectory
  <2>2. PICK sensor \in sensors : TRUE
    BY <2>1
  <2> DEFINE k == <<t, sensor>>
  <2>3. /\ k \in DOMAIN queues'
        /\ queues'[k] = [data |-> <<>>, finished |-> FALSE]
    BY <2>1, <2>2 DEF AddTrajectory
  <2> HIDE DEF k
  <2>4. k \in Unfinished' /\ Empty(k)'
    BY <2>3 DEF Unfinished, Empty, Data
  <2>5. QED
    BY <2>4 DEF WaitsForData
<1>7. CASE EndTrajectory \/ Flush \/ Destroy
  BY <1>7, WaitsStay
     DEF EndTrajectory, FinishTrajectory, Flush, Destroy, Callable, Idle
<1>8. CASE Rest \/ UNCHANGED vars
  BY <1>8, WaitsStay DEF Rest, vars, Idle
<1>9. CASE MarkQueueAsFinished
  BY <1>9, <1>1 DEF MarkQueueAsFinished
<1>10. ASSUME NEW k \in Keys, NEW time \in Time, AddSorted(k, time)
       PROVE  WaitsForData'
  BY <1>10, <1>1 DEF AddSorted, Add
<1>11. QED
  BY <1>2, <1>3, <1>4, <1>5, <1>6, <1>7, <1>8, <1>9, <1>10
     DEF Next, Others, Internal, Finish

LEMMA WaitsAlways == Spec => []WaitsForData
BY StreamAlways, StartsTypeAlways, InitWaits, NextWaits, PTL DEF Spec
-----------------------------------------------------------------------------
(* Fast forward to the common start time, for one queue: of the data a that were added,  *)
(* n were skipped, d were delivered after them, and the queue holds the rest, h.         *)

Split(a, n, d, h) ==
    /\ Len(a) = n + Len(d) + Len(h)
    /\ \A i \in 1..Len(d) : d[i] = a[n + i]
    /\ \A i \in 1..Len(h) : h[i] = a[n + Len(d) + i]

\* Why a delivered datum was the first: it is not before the start, the queue has ended
\* with it, or the next one is after the start.
FirstDelivered(a, n, start, open) ==
    \/ a[n + 1] >= start
    \/ Len(a) = n + 1 /\ ~open
    \/ Len(a) >= n + 2 /\ a[n + 2] > start

Forwarded(a, n, d, h, start, open) ==
    /\ Split(a, n, d, h)
    /\ start = MinTime => n = 0 /\ d = <<>>
    /\ \A i \in 1..n : i + 1 <= Len(a) /\ a[i + 1] <= start
    /\ d # <<>> => FirstDelivered(a, n, start, open)

LEMMA NewForwarded ==
    ASSUME NEW start, NEW open
    PROVE  Forwarded(<<>>, 0, <<>>, <<>>, start, open)
BY DEF Forwarded, Split

\* Add.
LEMMA AddSplits ==
    ASSUME NEW a \in Seq(Time), NEW d \in Seq(Time), NEW h \in Seq(Time), NEW n \in Nat,
           NEW time \in Time, Split(a, n, d, h)
    PROVE  Split(Append(a, time), n, d, Append(h, time))
<1> DEFINE b == Append(a, time)
           g == Append(h, time)
<1>1. /\ Len(b) = Len(a) + 1 /\ b[Len(a) + 1] = time
      /\ \A k \in 1..Len(a) : b[k] = a[k]
  BY AppendOne
<1>2. /\ Len(g) = Len(h) + 1 /\ g[Len(h) + 1] = time
      /\ \A k \in 1..Len(h) : g[k] = h[k]
  BY AppendOne
<1>3. Len(a) \in Nat /\ Len(d) \in Nat /\ Len(h) \in Nat
  BY LenProperties
<1> HIDE DEF b, g
<1>4. Len(b) = n + Len(d) + Len(g)
  BY <1>1, <1>2, <1>3 DEF Split
<1>5. ASSUME NEW i \in 1..Len(d) PROVE d[i] = b[n + i]
  <2>1. n + i \in 1..Len(a)
    BY <1>3 DEF Split
  <2>2. QED
    BY <2>1, <1>1 DEF Split
<1>6. \A i \in 1..Len(g) : g[i] = b[n + Len(d) + i]
  <2> SUFFICES ASSUME NEW i \in 1..Len(g) PROVE g[i] = b[n + Len(d) + i]
    OBVIOUS
  <2>1. CASE i = Len(h) + 1
    BY <2>1, <1>1, <1>2, <1>3 DEF Split
  <2>2. CASE i \in 1..Len(h)
    BY <2>2, <1>1, <1>2, <1>3 DEF Split
  <2>3. QED
    BY <2>1, <2>2, <1>2, <1>3
<1>7. QED
  BY <1>4, <1>5, <1>6 DEF Split, b, g

LEMMA AddForwarded ==
    ASSUME NEW a \in Seq(Time), NEW d \in Seq(Time), NEW h \in Seq(Time), NEW n \in Nat,
           NEW start, NEW time \in Time, Forwarded(a, n, d, h, start, TRUE)
    PROVE  Forwarded(Append(a, time), n, d, Append(h, time), start, TRUE)
<1> DEFINE b == Append(a, time)
<1>1. /\ Len(b) = Len(a) + 1
      /\ \A k \in 1..Len(a) : b[k] = a[k]
  BY AppendOne
<1>2. Len(a) \in Nat /\ Len(d) \in Nat /\ Len(h) \in Nat
  BY LenProperties
<1>3. Split(b, n, d, Append(h, time))
  BY AddSplits DEF Forwarded
<1> HIDE DEF b
<1>4. \A i \in 1..n : i + 1 <= Len(b) /\ b[i + 1] <= start
  BY <1>1, <1>2 DEF Forwarded
<1>5. ASSUME d # <<>> PROVE FirstDelivered(b, n, start, TRUE)
  <2>1. Len(a) >= n + 1
    <3>1. Len(d) # 0
      BY <1>5, EmptySeq
    <3>2. QED
      BY <3>1, <1>2 DEF Forwarded, Split
  <2>2. FirstDelivered(a, n, start, TRUE)
    BY <1>5 DEF Forwarded
  <2>3. QED
    BY <2>1, <2>2, <1>1, <1>2 DEF FirstDelivered
<1>6. QED
  BY <1>3, <1>4, <1>5 DEF Forwarded, b

\* Fixing the start.
LEMMA StartForwarded ==
    ASSUME NEW a, NEW d, NEW h, NEW n, NEW start, NEW open,
           Forwarded(a, n, d, h, MinTime, open), start # MinTime
    PROVE  Forwarded(a, n, d, h, start, open)
BY DEF Forwarded

\* A queue that gets no data any more.
LEMMA CloseForwarded ==
    ASSUME NEW a, NEW d, NEW h, NEW n, NEW start, NEW open, NEW closed,
           Forwarded(a, n, d, h, start, open), closed => open
    PROVE  Forwarded(a, n, d, h, start, closed)
BY DEF Forwarded, FirstDelivered

\* Dispatch.
LEMMA DispatchSplits ==
    ASSUME NEW a \in Seq(Time), NEW d \in Seq(Time), NEW h \in Seq(Time), NEW n \in Nat,
           Split(a, n, d, h), h # <<>>
    PROVE  Split(a, n, Append(d, Head(h)), Tail(h))
<1> DEFINE e == Append(d, Head(h))
           g == Tail(h)
<1>1. /\ Len(h) \in Nat \ {0} /\ Len(g) = Len(h) - 1 /\ Head(h) = h[1] /\ Head(h) \in Time
      /\ \A k \in 1..Len(h) - 1 : g[k] = h[k + 1]
  BY TailOne
<1>2. /\ Len(e) = Len(d) + 1 /\ e[Len(d) + 1] = Head(h)
      /\ \A k \in 1..Len(d) : e[k] = d[k]
  BY <1>1, AppendOne
<1>3. Len(a) \in Nat /\ Len(d) \in Nat
  BY LenProperties
<1> HIDE DEF e, g
<1>4. Len(a) = n + Len(e) + Len(g)
  BY <1>1, <1>2, <1>3 DEF Split
<1>5. \A i \in 1..Len(e) : e[i] = a[n + i]
  <2> SUFFICES ASSUME NEW i \in 1..Len(e) PROVE e[i] = a[n + i]
    OBVIOUS
  <2>1. CASE i = Len(d) + 1
    <3>1. h[1] = a[n + Len(d) + 1]
      BY <1>1 DEF Split
    <3>2. n + Len(d) + 1 = n + i
      BY <2>1, <1>3
    <3>3. QED
      BY <3>1, <3>2, <2>1, <1>1, <1>2
  <2>2. CASE i \in 1..Len(d)
    BY <2>2, <1>2 DEF Split
  <2>3. QED
    BY <2>1, <2>2, <1>2, <1>3
<1>6. \A i \in 1..Len(g) : g[i] = a[n + Len(e) + i]
  <2> SUFFICES ASSUME NEW i \in 1..Len(g) PROVE g[i] = a[n + Len(e) + i]
    OBVIOUS
  <2>1. i + 1 \in 1..Len(h) /\ g[i] = h[i + 1]
    BY <1>1
  <2>2. h[i + 1] = a[n + Len(d) + (i + 1)]
    BY <2>1 DEF Split
  <2>3. n + Len(d) + (i + 1) = n + Len(e) + i
    BY <1>2, <1>3
  <2>4. QED
    BY <2>1, <2>2, <2>3
<1>7. QED
  BY <1>4, <1>5, <1>6 DEF Split, e, g

LEMMA DispatchForwarded ==
    ASSUME NEW a \in Seq(Time), NEW d \in Seq(Time), NEW h \in Seq(Time), NEW n \in Nat,
           NEW start \in Time, NEW open, Forwarded(a, n, d, h, start, open), h # <<>>,
           \/ Head(h) >= start
           \/ Len(h) < 2 /\ ~open
           \/ Len(h) >= 2 /\ h[2] > start
    PROVE  Forwarded(a, n, Append(d, Head(h)), Tail(h), start, open)
<1>1. Len(h) \in Nat \ {0} /\ Head(h) = h[1]
  BY TailOne
<1>2. Len(a) \in Nat /\ Len(d) \in Nat
  BY LenProperties
<1>3. Split(a, n, Append(d, Head(h)), Tail(h))
  BY DispatchSplits DEF Forwarded
<1>4. FirstDelivered(a, n, start, open)
  <2>1. CASE d # <<>>
    BY <2>1 DEF Forwarded
  <2>2. CASE d = <<>>
    <3>1. /\ Len(a) = n + Len(h)
          /\ \A i \in 1..Len(h) : h[i] = a[n + i]
      BY <2>2, <1>1 DEF Forwarded, Split
    <3>2. QED
      BY <3>1, <1>1, <1>2 DEF FirstDelivered
  <2>3. QED
    BY <2>1, <2>2
<1>5. start # MinTime
  BY TimesAreIntegers, BoundsAssumption DEF Time, MinTime, BoundsAssumption
<1>6. QED
  BY <1>3, <1>4, <1>5 DEF Forwarded

\* Skip: nothing has been delivered yet.
LEMMA SkipForwarded ==
    ASSUME NEW a \in Seq(Time), NEW d \in Seq(Time), NEW h \in Seq(Time), NEW n \in Nat,
           NEW start \in Time, NEW open, Forwarded(a, n, d, h, start, open), Sorted(a),
           Len(h) >= 2, Head(h) < start, h[2] <= start
    PROVE  Forwarded(a, n + 1, d, Tail(h), start, open)
<1>0. h # <<>>
  OBVIOUS
<1>1. /\ Len(h) \in Nat \ {0} /\ Len(Tail(h)) = Len(h) - 1 /\ Head(h) = h[1]
      /\ \A k \in 1..Len(h) - 1 : Tail(h)[k] = h[k + 1]
  BY <1>0, TailOne
<1>2. Len(a) \in Nat /\ Len(d) \in Nat
  BY LenProperties
<1>3. \A i \in 1..Len(a) : a[i] \in Int
  BY ElementOfSeq, TimesAreIntegers
<1>4. start \in Int /\ start # MinTime
  BY TimesAreIntegers, BoundsAssumption DEF Time, MinTime, BoundsAssumption
<1>5. /\ h[1] = a[n + Len(d) + 1]
      /\ h[2] = a[n + Len(d) + 2]
      /\ Len(a) >= n + Len(d) + 2
  BY <1>1, <1>2 DEF Forwarded, Split
<1>6. d = <<>>
  <2> SUFFICES ASSUME d # <<>> PROVE FALSE
    OBVIOUS
  <2>1. Len(d) >= 1
    BY <1>2, EmptySeq
  <2>2. /\ n + 1 \in 1..Len(a) /\ n + Len(d) + 1 \in 1..Len(a)
        /\ n + 2 \in 1..Len(a) /\ n + Len(d) + 2 \in 1..Len(a)
        /\ n + 1 <= n + Len(d) + 1 /\ n + 2 <= n + Len(d) + 2
    BY <2>1, <1>2, <1>5
  <2>3. a[n + 1] <= h[1] /\ a[n + 2] <= h[2]
    BY <2>2, <1>5 DEF Sorted
  <2>4. a[n + 1] \in Int /\ a[n + 2] \in Int /\ h[1] \in Int /\ h[2] \in Int
    BY <2>2, <1>3, <1>5
  <2>5. ~(a[n + 1] >= start) /\ ~(a[n + 2] > start)
    BY <2>3, <2>4, <1>1, <1>4
  <2>6. Len(a) # n + 1
    BY <2>1, <1>2, <1>5
  <2>7. FirstDelivered(a, n, start, open)
    BY DEF Forwarded
  <2>8. QED
    BY <2>5, <2>6, <2>7 DEF FirstDelivered
<1>7. Split(a, n + 1, d, Tail(h))
  <2>1. Len(a) = n + Len(h) /\ \A i \in 1..Len(h) : h[i] = a[n + i]
    BY <1>1, <1>6 DEF Forwarded, Split
  <2>2. ASSUME NEW i \in 1..Len(Tail(h)) PROVE Tail(h)[i] = a[n + 1 + i]
    <3>1. i + 1 \in 1..Len(h) /\ Tail(h)[i] = h[i + 1]
      BY <1>1
    <3>2. n + (i + 1) = n + 1 + i
      OBVIOUS
    <3>3. QED
      BY <3>1, <3>2, <2>1
  <2>3. QED
    BY <2>1, <2>2, <1>1, <1>6 DEF Split
<1>8. \A i \in 1..n + 1 : i + 1 <= Len(a) /\ a[i + 1] <= start
  <2>1. a[n + 2] <= start /\ n + 2 <= Len(a)
    BY <1>5, <1>6
  <2>2. QED
    BY <2>1 DEF Forwarded
<1>9. QED
  BY <1>4, <1>6, <1>7, <1>8 DEF Forwarded
-----------------------------------------------------------------------------
(* Fast forward, for all queues.                                           *)

AddedSorted == \A k \in Keys : Sorted(added[k])

\* The split of every queue, for the common start times starts.
AllForwarded(starts) ==
    \A k \in Keys : \E n \in Nat :
       Forwarded(added[k], n, delivered[k], Held(k), starts[k[1]], k \in Unfinished)

\* The last of the first times of the sensors of trajectory t.
StartOf(t, time) ==
    /\ \E k \in Keys : k[1] = t /\ added[k] # <<>> /\ added[k][1] = time
    /\ \A k \in Keys : k[1] = t /\ added[k] # <<>> => added[k][1] <= time

\* A trajectory that has started has queues, and gets data from no other sensor later.
StartsFinal(starts) ==
    /\ \A t \in Trajectories : starts[t] # MinTime => queue_keys[t] # {} /\ StartOf(t, starts[t])
    /\ \A k \in Unfinished : starts[k[1]] # MinTime => added[k] # <<>>

FastInv == /\ StartsType
           /\ AddedSorted
           /\ AllForwarded(common_start_time)
           /\ StartsFinal(common_start_time)

LEMMA KeyParts == \A k \in Keys : k[1] \in Trajectories /\ k[2] \in Sensors
BY DEF Keys

LEMMA HeldType ==
    ASSUME StreamInv
    PROVE  \A k \in Keys : /\ Held(k) \in Seq(Time)
                           /\ k \in DOMAIN queues => Held(k) = Data(k)
                           /\ added[k] \in Seq(Time)
                           /\ delivered[k] \in Seq(Time)
<1> SUFFICES ASSUME NEW k \in Keys PROVE Held(k) \in Seq(Time)
  BY DEF Held, StreamInv, StreamType
<1>1. CASE k \in DOMAIN queues
  BY <1>1, QueueFields DEF Held, Data, StreamInv, QueuesType
<1>2. CASE k \notin DOMAIN queues
  BY <1>2 DEF Held
<1>3. QED
  BY <1>1, <1>2

\* Steps that move no data.
LEMMA FastStays ==
    ASSUME FastInv, UNCHANGED <<added, delivered, common_start_time>>,
           \A k \in Keys : Held(k)' = Held(k),
           Unfinished' \subseteq Keys,
           \A k \in Unfinished' : k \in Unfinished \/ common_start_time[k[1]] = MinTime,
           \A t \in Trajectories : queue_keys[t] # {} => queue_keys'[t] # {}
    PROVE  FastInv'
<1>1. StartsType' /\ AddedSorted'
  BY DEF FastInv, StartsType, AddedSorted
<1>2. ASSUME NEW k \in Keys
      PROVE  \E n \in Nat : Forwarded(added[k], n, delivered[k], Held(k),
                                      common_start_time[k[1]], k \in Unfinished')
  <2>1. PICK n \in Nat : Forwarded(added[k], n, delivered[k], Held(k),
                                   common_start_time[k[1]], k \in Unfinished)
    BY DEF FastInv, AllForwarded
  <2>2. CASE k \in Unfinished' => k \in Unfinished
    BY <2>1, <2>2, CloseForwarded
  <2>3. CASE common_start_time[k[1]] = MinTime
    BY <2>1, <2>3 DEF Forwarded
  <2>4. QED
    BY <2>2, <2>3
<1>3. AllForwarded(common_start_time)'
  BY <1>2 DEF AllForwarded
<1>4. StartsFinal(common_start_time)'
  BY DEF FastInv, StartsFinal, StartOf
<1>5. QED
  BY <1>1, <1>3, <1>4 DEF FastInv

\* Erasing empty queues moves no data.
LEMMA ErasedHolds ==
    ASSUME StreamInv, queues' = Erased
    PROVE  /\ \A k \in Keys : Held(k)' = Held(k)
           /\ Unfinished' \subseteq Unfinished
BY DEF Erased, Held, Data, Empty, Unfinished

LEMMA PopHolds ==
    ASSUME StreamInv, NEW k, Waiting = {}, IsNext(k), queues' = Pop(k)
    PROVE  /\ k \in Keys
           /\ Held(k) = Data(k) /\ Held(k)' = Tail(Data(k))
           /\ \A l \in Keys \ {k} : Held(l)' = Held(l)
           /\ Unfinished' \subseteq Unfinished
<1>1. k \in DOMAIN Erased /\ k \in DOMAIN queues /\ Data(k) # <<>>
  BY NextIsOldest
<1>2. /\ DOMAIN queues' = DOMAIN Erased
      /\ \A l \in DOMAIN queues' :
              /\ l \in DOMAIN queues
              /\ Data(l)' = IF l = k THEN Tail(Data(k)) ELSE Data(l)
              /\ queues'[l].finished = queues[l].finished
  BY <1>1, PopOne
<1>3. \A l \in DOMAIN queues : l \notin DOMAIN Erased => Data(l) = <<>>
  BY DEF Erased, Empty
<1>4. k \in Keys
  BY <1>1 DEF StreamInv, QueuesType
<1>5. QED
  BY <1>1, <1>2, <1>3, <1>4 DEF Held, Unfinished

\* GetCommonStartTime, the first time it is called for a trajectory: no datum of the
\* trajectory has been skipped or delivered, and every queue of it that may still get data
\* holds one.
LEMMA FirstStart ==
    ASSUME StreamInv, FastInv, NEW t \in Trajectories, NEW start,
           Waiting = {}, common_start_time[t] = MinTime, IsCommonStartTime(t, start)
    PROVE  /\ StartOf(t, start)
           /\ \A k \in Unfinished : k[1] = t => added[k] # <<>>
<1>1. ASSUME NEW k \in Keys, k[1] = t
      PROVE  /\ Len(added[k]) = Len(Held(k))
             /\ \A i \in 1..Len(Held(k)) : Held(k)[i] = added[k][i]
  <2>1. PICK n \in Nat : Forwarded(added[k], n, delivered[k], Held(k),
                                   common_start_time[k[1]], k \in Unfinished)
    BY DEF FastInv, AllForwarded
  <2>2. n = 0 /\ delivered[k] = <<>> /\ Split(added[k], n, delivered[k], Held(k))
    BY <2>1, <1>1 DEF Forwarded
  <2>3. Held(k) \in Seq(Time)
    BY HeldType
  <2>4. QED
    BY <2>2, <2>3 DEF Split
<1>2. ASSUME NEW k \in Keys, k[1] = t
      PROVE  /\ k \in DOMAIN Erased <=> added[k] # <<>>
             /\ added[k] # <<>> => k \in DOMAIN queues /\ Head(Data(k)) = added[k][1]
  <2>1. added[k] \in Seq(Time) /\ Held(k) \in Seq(Time)
    BY HeldType
  <2>2. added[k] = <<>> <=> Held(k) = <<>>
    BY <2>1, <1>1, <1>2, EmptySeq
  <2>3. k \in DOMAIN Erased <=> k \in DOMAIN queues /\ Data(k) # <<>>
    BY DEF Erased, Visited, Empty
  <2>4. k \in DOMAIN queues => Held(k) = Data(k)
    BY HeldType
  <2>5. k \notin DOMAIN queues => Held(k) = <<>>
    BY DEF Held
  <2>6. Held(k) # <<>> => Head(Held(k)) = added[k][1]
    <3> SUFFICES ASSUME Held(k) # <<>> PROVE Head(Held(k)) = added[k][1]
      OBVIOUS
    <3>1. Len(Held(k)) \in Nat \ {0} /\ Head(Held(k)) = Held(k)[1]
      BY <2>1, TailOne
    <3>2. QED
      BY <3>1, <1>1, <1>2
  <2>7. QED
    BY <2>2, <2>3, <2>4, <2>5, <2>6
<1>3. DOMAIN Erased \subseteq Keys
  BY DEF Erased, StreamInv, QueuesType
<1> DEFINE heads == {Head(Data(k)) : k \in {l \in DOMAIN Erased : l[1] = t}}
<1>4. start \in heads /\ \A h \in heads : h <= start
  BY DEF IsCommonStartTime
<1>5. PICK k \in DOMAIN Erased : k[1] = t /\ start = Head(Data(k))
  BY <1>4
<1>6. k \in Keys /\ added[k] # <<>> /\ added[k][1] = start
  BY <1>2, <1>3, <1>5
<1>7. ASSUME NEW l \in Keys, l[1] = t, added[l] # <<>> PROVE added[l][1] <= start
  BY <1>2, <1>4, <1>7
<1>8. ASSUME NEW l \in Unfinished, l[1] = t PROVE added[l] # <<>>
  <2>1. l \in Keys /\ l \in DOMAIN Erased
    <3>1. l \in DOMAIN queues /\ Data(l) # <<>>
      BY <1>8 DEF Unfinished, Waiting, Empty
    <3>2. QED
      BY <3>1 DEF Erased, Empty, StreamInv, QueuesType
  <2>2. QED
    BY <2>1, <1>2, <1>8
<1>9. QED
  BY <1>5, <1>6, <1>7, <1>8 DEF StartOf

\* What holds when the common start time of the next datum's trajectory is known.
LEMMA StartKnown ==
    ASSUME StreamInv, KeysAdded, FastInv, NEW k \in DOMAIN queues, NEW start \in Time,
           NextData(k, start)
    PROVE  /\ StartsType' /\ common_start_time'[k[1]] = start
           /\ AllForwarded(common_start_time')
           /\ StartsFinal(common_start_time')
<1> DEFINE t == k[1]
<1>0. k \in Keys /\ t \in Trajectories
  BY KeyParts DEF StreamInv, QueuesType
<1>1. common_start_time' = [common_start_time EXCEPT ![t] = start]
  BY DEF NextData
<1>2. /\ common_start_time \in [Trajectories -> Time \cup {MinTime}]
      /\ common_start_time' \in [Trajectories -> Time \cup {MinTime}]
      /\ common_start_time'[t] = start
      /\ \A u \in Trajectories \ {t} : common_start_time'[u] = common_start_time[u]
  BY <1>0, <1>1 DEF FastInv, StartsType
<1>3. StartsType'
  BY <1>2 DEF StartsType
<1>4. CASE common_start_time[t] # MinTime
  <2>1. start = common_start_time[t]
    BY <1>4 DEF NextData, IsCommonStartTime
  <2>2. common_start_time' = common_start_time
    BY <2>1, <1>1, <1>2
  <2>3. QED
    BY <2>2, <1>2, <1>3 DEF FastInv
<1>5. CASE common_start_time[t] = MinTime
  <2>0. start # MinTime
    BY TimesAreIntegers, BoundsAssumption DEF Time, MinTime, BoundsAssumption
  <2>1. /\ StartOf(t, start)
        /\ \A l \in Unfinished : l[1] = t => added[l] # <<>>
    BY <1>0, <1>5, FirstStart DEF NextData
  <2>2. queue_keys[t] # {}
    BY DEF KeysAdded
  <2>3. Unfinished \subseteq Keys
    BY DEF Unfinished, StreamInv, QueuesType
  <2>4. StartsFinal(common_start_time')
    BY <1>2, <2>1, <2>2, <2>3, KeyParts DEF FastInv, StartsFinal
  <2>5. AllForwarded(common_start_time')
    <3> SUFFICES ASSUME NEW l \in Keys
                 PROVE  \E n \in Nat : Forwarded(added[l], n, delivered[l], Held(l),
                                                 common_start_time'[l[1]], l \in Unfinished)
      BY DEF AllForwarded
    <3>1. PICK n \in Nat : Forwarded(added[l], n, delivered[l], Held(l),
                                     common_start_time[l[1]], l \in Unfinished)
      BY DEF FastInv, AllForwarded
    <3>2. CASE l[1] = t
      BY <3>1, <3>2, <1>2, <1>5, <2>0, StartForwarded
    <3>3. CASE l[1] # t
      BY <3>1, <3>3, <1>2, KeyParts
    <3>4. QED
      BY <3>2, <3>3
  <2>6. QED
    BY <1>2, <1>3, <2>4, <2>5
<1>6. QED
  BY <1>4, <1>5

LEMMA PopKeepsFast ==
    ASSUME StreamInv, KeysAdded, FastInv, NEW k \in DOMAIN queues, NEW start \in Time,
           Dispatch(k, start) \/ Skip(k, start)
    PROVE  FastInv'
<1> DEFINE h == Data(k)
<1>1. /\ NextData(k, start) /\ Waiting = {} /\ IsNext(k) /\ queues' = Pop(k)
      /\ UNCHANGED <<added, queue_keys>>
  BY DEF Dispatch, Skip, NextData, inputs
<1>2. /\ k \in Keys /\ Held(k) = h /\ Held(k)' = Tail(h)
      /\ \A l \in Keys \ {k} : Held(l)' = Held(l)
      /\ Unfinished' \subseteq Unfinished
  BY <1>1, PopHolds
<1>3. /\ StartsType' /\ common_start_time'[k[1]] = start
      /\ AllForwarded(common_start_time')
      /\ StartsFinal(common_start_time')
  BY <1>1, StartKnown
<1>4. h \in Seq(Time) /\ h # <<>> /\ added[k] \in Seq(Time) /\ delivered[k] \in Seq(Time)
  BY <1>1, <1>2, NextIsOldest, HeldType
<1>5. AddedSorted'
  BY <1>1 DEF FastInv, AddedSorted
<1>6. StartsFinal(common_start_time)'
  <2>1. Unfinished' \subseteq Keys
    BY <1>2 DEF Unfinished, StreamInv, QueuesType
  <2>2. QED
    BY <2>1, <1>1, <1>2, <1>3 DEF StartsFinal, StartOf
<1>7. PICK n \in Nat : Forwarded(added[k], n, delivered[k], h, start, k \in Unfinished)
  BY <1>2, <1>3 DEF AllForwarded
<1>8. ASSUME NEW l \in Keys, l # k, delivered'[l] = delivered[l]
      PROVE  \E m \in Nat : Forwarded(added'[l], m, delivered'[l], Held(l)',
                                      common_start_time'[l[1]], l \in Unfinished')
  <2>1. PICK m \in Nat : Forwarded(added[l], m, delivered[l], Held(l),
                                   common_start_time'[l[1]], l \in Unfinished)
    BY <1>3 DEF AllForwarded
  <2>2. Forwarded(added[l], m, delivered[l], Held(l), common_start_time'[l[1]],
                  l \in Unfinished')
    BY <2>1, <1>2, CloseForwarded
  <2>3. QED
    BY <2>2, <1>1, <1>2, <1>8
<1> HIDE DEF h
<1>9. CASE Dispatch(k, start)
  <2>1. /\ delivered' = [delivered EXCEPT ![k] = Append(@, Head(h))]
        /\ \/ Head(h) >= start
           \/ Len(h) < 2 /\ queues[k].finished
           \/ Len(h) >= 2 /\ h[2] > start
    <3>1. Len(h) \in Nat
      BY <1>4, LenProperties
    <3>2. QED
      BY <3>1, <1>9 DEF Dispatch, Dispatched, h
  <2>2. queues[k].finished => ~(k \in Unfinished)
    BY DEF Unfinished
  <2>3. Forwarded(added[k], n, Append(delivered[k], Head(h)), Tail(h), start, k \in Unfinished)
    BY <2>1, <2>2, <1>4, <1>7, DispatchForwarded
  <2>4. /\ delivered'[k] = Append(delivered[k], Head(h))
        /\ \A l \in Keys \ {k} : delivered'[l] = delivered[l]
    BY <2>1, <1>2 DEF StreamInv, StreamType
  <2>5. Forwarded(added'[k], n, delivered'[k], Held(k)', common_start_time'[k[1]],
                  k \in Unfinished')
    <3>1. Forwarded(added[k], n, Append(delivered[k], Head(h)), Tail(h), start,
                    k \in Unfinished')
      BY <2>3, <1>2, CloseForwarded
    <3>2. QED
      BY <3>1, <2>4, <1>1, <1>2, <1>3
  <2>6. AllForwarded(common_start_time)'
    BY <2>4, <2>5, <1>8 DEF AllForwarded
  <2>7. QED
    BY <2>6, <1>3, <1>5, <1>6 DEF FastInv
<1>10. CASE Skip(k, start)
  <2>1. /\ delivered' = delivered
        /\ ~Dispatched(k, start) /\ ~Undecided(k, start)
    BY <1>10 DEF Skip, outputs
  <2>2. Len(h) \in Nat \ {0} /\ Head(h) \in Time
    BY <1>4, TailOne
  <2>3. Head(h) \in Int /\ start \in Int
    BY <2>2, TimesAreIntegers
  <2>4. Head(h) < start /\ Len(h) >= 2 /\ ~(h[2] > start)
    BY <2>1, <2>2, <2>3 DEF Dispatched, Undecided, h
  <2>5. h[2] \in Int
    <3>1. 2 \in 1..Len(h)
      BY <2>2, <2>4
    <3>2. QED
      BY <3>1, <1>4, ElementOfSeq, TimesAreIntegers
  <2>6. h[2] <= start
    BY <2>3, <2>4, <2>5
  <2>7. Sorted(added[k])
    BY <1>2 DEF FastInv, AddedSorted
  <2>8. Forwarded(added[k], n + 1, delivered[k], Tail(h), start, k \in Unfinished)
    BY <2>4, <2>6, <2>7, <1>4, <1>7, SkipForwarded
  <2>9. Forwarded(added'[k], n + 1, delivered'[k], Held(k)', common_start_time'[k[1]],
                  k \in Unfinished')
    BY <2>1, <2>8, <1>1, <1>2, <1>3, CloseForwarded
  <2>10. AllForwarded(common_start_time)'
    BY <2>1, <2>9, <1>8 DEF AllForwarded
  <2>11. QED
    BY <2>10, <1>3, <1>5, <1>6 DEF FastInv
<1>11. QED
  BY <1>9, <1>10

LEMMA WaitKeepsFast ==
    ASSUME StreamInv, KeysAdded, FastInv, NEW k \in DOMAIN queues, NEW start \in Time,
           WaitToDecide(k, start)
    PROVE  FastInv'
<1>1. /\ NextData(k, start) /\ queues' = Erased
      /\ UNCHANGED <<added, queue_keys, delivered>>
  BY DEF WaitToDecide, inputs, outputs
<1>2. /\ \A l \in Keys : Held(l)' = Held(l)
      /\ Unfinished' \subseteq Unfinished
  BY <1>1, ErasedHolds
<1>3. /\ StartsType'
      /\ AllForwarded(common_start_time')
      /\ StartsFinal(common_start_time')
  BY <1>1, StartKnown
<1>4. AddedSorted'
  BY <1>1 DEF FastInv, AddedSorted
<1>5. StartsFinal(common_start_time)'
  BY <1>1, <1>2, <1>3 DEF StartsFinal, StartOf
<1>6. AllForwarded(common_start_time)'
  <2> SUFFICES ASSUME NEW l \in Keys
               PROVE  \E m \in Nat : Forwarded(added'[l], m, delivered'[l], Held(l)',
                                               common_start_time'[l[1]], l \in Unfinished')
    BY DEF AllForwarded
  <2>1. PICK m \in Nat : Forwarded(added[l], m, delivered[l], Held(l),
                                   common_start_time'[l[1]], l \in Unfinished)
    BY <1>3 DEF AllForwarded
  <2>2. Forwarded(added[l], m, delivered[l], Held(l), common_start_time'[l[1]],
                  l \in Unfinished')
    BY <2>1, <1>2, CloseForwarded
  <2>3. QED
    BY <2>2, <1>1, <1>2
<1>7. QED
  BY <1>3, <1>4, <1>5, <1>6 DEF FastInv

LEMMA AddKeepsSorted ==
    ASSUME NEW a \in Seq(Time), NEW time \in Time, Sorted(a), NoneAfter(a, time)
    PROVE  Sorted(Append(a, time))
<1> DEFINE b == Append(a, time)
<1>1. /\ Len(b) = Len(a) + 1 /\ b[Len(a) + 1] = time
      /\ \A k \in 1..Len(a) : b[k] = a[k]
  BY AppendOne
<1>2. Len(a) \in Nat /\ time \in Int
  BY LenProperties, TimesAreIntegers
<1> HIDE DEF b
<1>3. ASSUME NEW i \in 1..Len(b), NEW j \in 1..Len(b), i <= j
      PROVE  b[i] <= b[j]
  <2>1. CASE j = Len(a) + 1 /\ i = Len(a) + 1
    BY <2>1, <1>1, <1>2
  <2>2. CASE j = Len(a) + 1 /\ i \in 1..Len(a)
    BY <2>2, <1>1 DEF NoneAfter
  <2>3. CASE i \in 1..Len(a) /\ j \in 1..Len(a)
    BY <2>3, <1>1, <1>3 DEF Sorted
  <2>4. QED
    BY <2>1, <2>2, <2>3, <1>1, <1>2, <1>3
<1>4. QED
  BY <1>3 DEF Sorted, b

LEMMA AddKeepsFast ==
    ASSUME StreamInv, FastInv, NEW k \in Keys, NEW time \in Time, AddSorted(k, time)
    PROVE  FastInv'
<1> DEFINE a == added[k]
           b == Append(a, time)
           q == [queues[k] EXCEPT !.data = Append(@, time)]
<1>1. /\ k \in Unfinished /\ k \in DOMAIN queues
      /\ SortedPerQueue(k, time)
      /\ queues' = [queues EXCEPT ![k] = q]
      /\ added' = [added EXCEPT ![k] = b]
      /\ UNCHANGED <<queue_keys, delivered, common_start_time>>
  BY Zenon DEF AddSorted, Add, Unfinished, outputs
<1>2. /\ a \in Seq(Time) /\ delivered[k] \in Seq(Time) /\ Held(k) \in Seq(Time)
      /\ Held(k) = Data(k)
  BY <1>1, HeldType
<1>3. /\ queues[k] \in Queue
      /\ q.data = Append(Data(k), time) /\ q.finished = queues[k].finished
  BY <1>1 DEF StreamInv, QueuesType, Queue, Data
<1>4. /\ b \in Seq(Time) /\ Len(b) = Len(a) + 1
      /\ \A i \in 1..Len(a) : b[i] = a[i]
  BY <1>2, AppendOne
<1>5. Sorted(b)
  <2>1. Sorted(a)
    BY DEF FastInv, AddedSorted
  <2>2. NoneAfter(a, time)
    BY <1>1, <1>2 DEF SortedPerQueue, NoneAfter
  <2>3. QED
    BY <2>1, <2>2, <1>2, AddKeepsSorted
<1> HIDE DEF a, b, q
<1>6. /\ DOMAIN queues' = DOMAIN queues
      /\ queues'[k] = q
      /\ \A l \in DOMAIN queues \ {k} : queues'[l] = queues[l]
  BY <1>1, ChangeOne, Zenon
<1>7. /\ added'[k] = b
      /\ \A l \in Keys \ {k} : added'[l] = added[l]
  BY <1>1 DEF StreamInv, StreamType
<1>8. /\ Held(k)' = Append(Held(k), time)
      /\ \A l \in Keys \ {k} : Held(l)' = Held(l)
      /\ Unfinished' = Unfinished
      /\ Unfinished \subseteq Keys
  BY <1>1, <1>2, <1>3, <1>6 DEF Held, Data, Unfinished, StreamInv, QueuesType
<1>9. AddedSorted'
  BY <1>5, <1>7 DEF FastInv, AddedSorted
<1>10. AllForwarded(common_start_time)'
  <2> SUFFICES ASSUME NEW l \in Keys
               PROVE  \E m \in Nat : Forwarded(added'[l], m, delivered'[l], Held(l)',
                                               common_start_time'[l[1]], l \in Unfinished')
    BY DEF AllForwarded
  <2>1. PICK m \in Nat : Forwarded(added[l], m, delivered[l], Held(l),
                                   common_start_time[l[1]], l \in Unfinished)
    BY DEF FastInv, AllForwarded
  <2>2. CASE l # k
    BY <2>1, <2>2, <1>1, <1>7, <1>8
  <2>3. CASE l = k
    <3>1. Forwarded(a, m, delivered[k], Held(k), common_start_time[k[1]], TRUE)
      BY <2>1, <2>3, <1>1, CloseForwarded DEF a
    <3>2. Forwarded(b, m, delivered[k], Append(Held(k), time), common_start_time[k[1]], TRUE)
      BY <3>1, <1>2, AddForwarded DEF b
    <3>3. Forwarded(b, m, delivered[k], Append(Held(k), time), common_start_time[k[1]],
                    k \in Unfinished)
      BY <3>2, CloseForwarded
    <3>4. QED
      BY <3>3, <2>3, <1>1, <1>7, <1>8
  <2>4. QED
    BY <2>2, <2>3
<1>11. ASSUME NEW l \in Keys
       PROVE  /\ added[l] # <<>> => added'[l] # <<>> /\ added'[l][1] = added[l][1]
              /\ added'[l] # <<>> /\ added[l] = <<>> => l = k
  <2>1. CASE l # k
    BY <2>1, <1>7
  <2>2. CASE l = k
    <3>1. Len(a) \in Nat /\ (a # <<>> => Len(a) > 0)
      BY <1>2, EmptySeq, LenProperties
    <3>2. b # <<>>
      BY <3>1, <1>4, EmptySeq
    <3>3. a # <<>> => b[1] = a[1]
      BY <3>1, <1>4
    <3>4. QED
      BY <3>2, <3>3, <2>2, <1>7 DEF a
  <2>3. QED
    BY <2>1, <2>2
<1>12. StartsFinal(common_start_time)'
  <2>1. \A l \in Unfinished' : common_start_time'[l[1]] # MinTime => added'[l] # <<>>
    BY <1>1, <1>8, <1>11 DEF FastInv, StartsFinal
  <2>2. ASSUME NEW t \in Trajectories, common_start_time[t] # MinTime
        PROVE  queue_keys[t] # {} /\ StartOf(t, common_start_time[t])'
    <3>1. queue_keys[t] # {} /\ StartOf(t, common_start_time[t])
      BY <2>2 DEF FastInv, StartsFinal
    <3>2. k[1] = t => added[k] # <<>>
      BY <2>2, <1>1 DEF FastInv, StartsFinal
    <3>3. \A l \in Keys : l[1] = t => (added'[l] # <<>> <=> added[l] # <<>>)
      BY <3>2, <1>11
    <3>4. QED
      BY <3>1, <3>3, <1>1, <1>11 DEF StartOf
  <2>3. QED
    BY <2>1, <2>2, <1>1 DEF StartsFinal
<1>13. StartsType'
  BY <1>1 DEF FastInv, StartsType
<1>14. QED
  BY <1>9, <1>10, <1>12, <1>13 DEF FastInv

LEMMA NewTrajectoryKeepsFast ==
    ASSUME StreamInv, KeysAdded, FastInv, NewTrajectory
    PROVE  FastInv'
<1>1. PICK t \in Trajectories, sensors \in (SUBSET Sensors) \ {{}} :
         queue_keys[t] = {} /\ AddTrajectory(t, sensors)
  BY DEF NewTrajectory
<1> DEFINE new == {t} \X sensors
<1>2. /\ queue_keys' = [queue_keys EXCEPT ![t] = @ \cup sensors]
      /\ queues' = [k \in DOMAIN queues \cup new |->
                      IF k \in new THEN [data |-> <<>>, finished |-> FALSE]
                                   ELSE queues[k]]
      /\ UNCHANGED <<added, delivered, common_start_time>>
  BY <1>1 DEF AddTrajectory, outputs
<1>3. new \subseteq Keys /\ \A k \in new : k[1] = t
  BY <1>1 DEF Keys
<1> HIDE DEF new
<1>4. \A k \in new : k \notin DOMAIN queues
  BY <1>1, <1>3 DEF KeysAdded
<1>5. \A k \in Keys : Held(k)' = Held(k)
  BY <1>2, <1>4 DEF Held, Data
<1>6. common_start_time[t] = MinTime
  BY <1>1 DEF FastInv, StartsFinal
<1>7. /\ Unfinished' \subseteq Keys
      /\ \A k \in Unfinished' : k \in Unfinished \/ common_start_time[k[1]] = MinTime
  BY <1>2, <1>3, <1>6 DEF Unfinished, StreamInv, QueuesType
<1>8. \A u \in Trajectories : queue_keys[u] # {} => queue_keys'[u] # {}
  BY <1>1, <1>2 DEF KeysAdded
<1>9. QED
  BY <1>2, <1>5, <1>7, <1>8, FastStays

LEMMA MarkKeepsFast ==
    ASSUME StreamInv, FastInv, MarkQueueAsFinished
    PROVE  FastInv'
<1> DEFINE k == Head(finishing)
           q == [queues[k] EXCEPT !.finished = TRUE]
<1>1. /\ queues' = [queues EXCEPT ![k] = q]
      /\ UNCHANGED <<added, delivered, common_start_time, queue_keys>>
  BY Zenon DEF MarkQueueAsFinished, inputs, outputs
<1>2. k \in DOMAIN queues => q.data = queues[k].data /\ q.finished = TRUE
  BY QueueFinished DEF StreamInv, QueuesType
<1> HIDE DEF k, q
<1>3. /\ DOMAIN queues' = DOMAIN queues
      /\ \A l \in DOMAIN queues : queues'[l] = IF l = k THEN q ELSE queues[l]
  BY <1>1
<1>4. \A l \in Keys : Held(l)' = Held(l)
  BY <1>2, <1>3 DEF Held, Data
<1>5. Unfinished' \subseteq Unfinished
  BY <1>2, <1>3 DEF Unfinished
<1>6. Unfinished \subseteq Keys
  BY DEF Unfinished, StreamInv, QueuesType
<1>7. QED
  BY <1>1, <1>4, <1>5, <1>6, FastStays

LEMMA ErasedKeepsFast ==
    ASSUME StreamInv, FastInv, queues' = Erased,
           UNCHANGED <<added, delivered, common_start_time, queue_keys>>
    PROVE  FastInv'
<1>1. Unfinished \subseteq Keys
  BY DEF Unfinished, StreamInv, QueuesType
<1>2. QED
  BY <1>1, ErasedHolds, FastStays

LEMMA OthersKeepFast ==
    ASSUME StreamInv, FastInv,
           UNCHANGED <<added, delivered, common_start_time, queue_keys, queues>>
    PROVE  FastInv'
<1>1. Unfinished \subseteq Keys
  BY DEF Unfinished, StreamInv, QueuesType
<1>2. Unfinished' = Unfinished /\ \A k \in Keys : Held(k)' = Held(k)
  BY DEF Unfinished, Held, Data
<1>3. QED
  BY <1>1, <1>2, FastStays

LEMMA InitFast == Init => FastInv
<1> SUFFICES ASSUME Init PROVE FastInv
  OBVIOUS
<1>1. /\ \A k \in Keys : added[k] = <<>> /\ delivered[k] = <<>> /\ Held(k) = <<>>
      /\ \A t \in Trajectories : common_start_time[t] = MinTime
      /\ Unfinished = {}
  BY DEF Init, Held, Unfinished
<1>2. StartsType
  BY DEF Init, StartsType
<1>3. AddedSorted
  BY <1>1 DEF AddedSorted, Sorted
<1>4. AllForwarded(common_start_time)
  <2> SUFFICES ASSUME NEW k \in Keys
               PROVE  \E n \in Nat : Forwarded(added[k], n, delivered[k], Held(k),
                                               common_start_time[k[1]], k \in Unfinished)
    BY DEF AllForwarded
  <2>1. Forwarded(<<>>, 0, <<>>, <<>>, common_start_time[k[1]], k \in Unfinished)
    BY NewForwarded
  <2>2. Forwarded(added[k], 0, delivered[k], Held(k), common_start_time[k[1]],
                  k \in Unfinished)
    BY <2>1, <1>1
  <2>3. QED
    BY <2>2
<1>5. StartsFinal(common_start_time)
  BY <1>1 DEF StartsFinal
<1>6. QED
  BY <1>2, <1>3, <1>4, <1>5 DEF FastInv

LEMMA NextFast == StreamInv /\ KeysAdded /\ FastInv /\ [Next]_vars => FastInv'
<1> SUFFICES ASSUME StreamInv, KeysAdded, FastInv, [Next]_vars PROVE FastInv'
  OBVIOUS
<1>1. CASE MarkQueueAsFinished
  BY <1>1, MarkKeepsFast
<1>2. ASSUME NEW k \in DOMAIN queues, CannotMakeProgress(k) PROVE FastInv'
  BY <1>2, ErasedKeepsFast DEF CannotMakeProgress, inputs, outputs
<1>3. CASE NothingLeft
  BY <1>3, ErasedKeepsFast DEF NothingLeft, inputs, outputs
<1>4. ASSUME NEW k \in DOMAIN queues, NEW start \in Time,
             Dispatch(k, start) \/ Skip(k, start)
      PROVE  FastInv'
  BY <1>4, PopKeepsFast
<1>5. ASSUME NEW k \in DOMAIN queues, NEW start \in Time, WaitToDecide(k, start)
      PROVE  FastInv'
  BY <1>5, WaitKeepsFast
<1>6. CASE NewTrajectory
  BY <1>6, NewTrajectoryKeepsFast
<1>7. CASE EndTrajectory
  BY <1>7, OthersKeepFast DEF EndTrajectory, FinishTrajectory, inputs, outputs
<1>8. CASE Finish
  BY <1>8, OthersKeepFast DEF Finish, Flush, Destroy, outputs
<1>9. CASE Rest \/ UNCHANGED vars
  BY <1>9, OthersKeepFast DEF Rest, vars, inputs, outputs
<1>10. ASSUME NEW k \in Keys, NEW time \in Time, AddSorted(k, time)
       PROVE  FastInv'
  BY <1>10, AddKeepsFast
<1>11. QED
  BY <1>1, <1>2, <1>3, <1>4, <1>5, <1>6, <1>7, <1>8, <1>9, <1>10
     DEF Next, Others, Internal

\* The three pieces make up what was added.
LEMMA SplitJoins ==
    ASSUME NEW a \in Seq(Time), NEW d \in Seq(Time), NEW h \in Seq(Time), NEW n \in Nat,
           Split(a, n, d, h)
    PROVE  a = SubSeq(a, 1, n) \o d \o h
<1>1. Len(a) \in Nat /\ Len(d) \in Nat /\ Len(h) \in Nat
  BY LenProperties
<1>2. Len(a) = n + Len(d) + Len(h)
  BY DEF Split
<1> DEFINE s == SubSeq(a, 1, n)
<1>3. s \in Seq(Time) /\ Len(s) = n /\ \A i \in 1..n : s[i] = a[i]
  BY <1>1, <1>2
<1> HIDE DEF s
<1> DEFINE e == s \o d
<1>4. /\ e \in Seq(Time) /\ Len(e) = n + Len(d)
      /\ \A i \in 1..n : e[i] = s[i]
      /\ \A i \in 1..Len(d) : e[n + i] = d[i]
  BY <1>1, <1>3
<1> HIDE DEF e
<1> DEFINE f == e \o h
<1>5. /\ f \in Seq(Time) /\ Len(f) = Len(a)
      /\ \A i \in 1..n + Len(d) : f[i] = e[i]
      /\ \A i \in 1..Len(h) : f[n + Len(d) + i] = h[i]
  <2>1. f \in Seq(Time) /\ Len(f) = Len(e) + Len(h)
    BY <1>4, ConcatProperties
  <2>2. \A i \in 1..Len(e) : f[i] = e[i]
    BY <1>4
  <2>3. \A i \in 1..Len(h) : f[Len(e) + i] = h[i]
    BY <1>1, <1>4
  <2>4. QED
    BY <2>1, <2>2, <2>3, <1>1, <1>2, <1>4
<1> HIDE DEF f
<1>6. ASSUME NEW i \in 1..Len(a) PROVE a[i] = f[i]
  <2>1. CASE i \in 1..n
    BY <2>1, <1>1, <1>3, <1>4, <1>5
  <2>2. CASE i - n \in 1..Len(d)
    <3>1. d[i - n] = a[n + (i - n)] /\ e[n + (i - n)] = d[i - n]
      BY <2>2, <1>4 DEF Split
    <3>2. n + (i - n) = i /\ i \in 1..n + Len(d)
      BY <2>2, <1>1
    <3>3. QED
      BY <3>1, <3>2, <1>5
  <2>3. CASE i - n - Len(d) \in 1..Len(h)
    <3>1. /\ h[i - n - Len(d)] = a[n + Len(d) + (i - n - Len(d))]
          /\ f[n + Len(d) + (i - n - Len(d))] = h[i - n - Len(d)]
      BY <2>3, <1>5 DEF Split
    <3>2. n + Len(d) + (i - n - Len(d)) = i
      BY <1>1
    <3>3. QED
      BY <3>1, <3>2
  <2>4. QED
    BY <2>1, <2>2, <2>3, <1>1, <1>2
<1>7. a = f
  BY <1>5, <1>6, SeqEqual
<1>8. QED
  BY <1>7 DEF e, f, s

LEMMA ForwardedExactly ==
    ASSUME StreamInv, FastInv
    PROVE  FastForward
<1>1. CommonStart
  <2> SUFFICES ASSUME NEW t \in Trajectories, common_start_time[t] # MinTime
               PROVE  LET firsts == {added[k][1] : k \in {l \in {t} \X Sensors : added[l] # <<>>}}
                      IN  /\ common_start_time[t] \in firsts
                          /\ \A time \in firsts : time <= common_start_time[t]
    BY DEF CommonStart
  <2>1. StartOf(t, common_start_time[t])
    BY DEF FastInv, StartsFinal
  <2>2. \A k \in Keys : k[1] = t <=> k \in {t} \X Sensors
    BY DEF Keys
  <2>3. {t} \X Sensors \subseteq Keys
    BY DEF Keys
  <2>4. QED
    BY <2>1, <2>2, <2>3 DEF StartOf
<1>2. ASSUME NEW k \in Keys
      PROVE  LET n == Skipped(k)
                 start == common_start_time[k[1]]
             IN  /\ n >= 0
                 /\ added[k] = SubSeq(added[k], 1, n) \o delivered[k] \o Held(k)
                 /\ \A i \in 1..n : added[k][i + 1] <= start
                 /\ delivered[k] # <<>> =>
                       \/ delivered[k][1] >= start
                       \/ Len(added[k]) = n + 1
                       \/ added[k][n + 2] > start
  <2>1. PICK n \in Nat : Forwarded(added[k], n, delivered[k], Held(k),
                                   common_start_time[k[1]], k \in Unfinished)
    BY DEF FastInv, AllForwarded
  <2>2. /\ added[k] \in Seq(Time) /\ delivered[k] \in Seq(Time) /\ Held(k) \in Seq(Time)
        /\ Split(added[k], n, delivered[k], Held(k))
    BY <2>1, HeldType DEF Forwarded
  <2>3. Skipped(k) = n
    <3>1. Len(added[k]) \in Nat /\ Len(delivered[k]) \in Nat /\ Len(Held(k)) \in Nat
      BY <2>2, LenProperties
    <3>2. PICK la \in Nat, ld \in Nat, lh \in Nat :
             la = Len(added[k]) /\ ld = Len(delivered[k]) /\ lh = Len(Held(k))
      BY <3>1
    <3>3. la = n + ld + lh
      BY <2>2, <3>2 DEF Split
    <3>4. la - ld - lh = n
      BY <3>3
    <3>5. QED
      BY <3>2, <3>4 DEF Skipped
  <2>4. added[k] = SubSeq(added[k], 1, n) \o delivered[k] \o Held(k)
    BY <2>2, SplitJoins
  <2>5. ASSUME delivered[k] # <<>> PROVE delivered[k][1] = added[k][n + 1]
    <3>1. 1 \in 1..Len(delivered[k])
      BY <2>2, <2>5, EmptySeq, LenProperties
    <3>2. QED
      BY <3>1, <2>2 DEF Split
  <2>6. \A i \in 1..n : added[k][i + 1] <= common_start_time[k[1]]
    BY <2>1 DEF Forwarded
  <2>7. ASSUME delivered[k] # <<>>
        PROVE  \/ delivered[k][1] >= common_start_time[k[1]]
               \/ Len(added[k]) = n + 1
               \/ added[k][n + 2] > common_start_time[k[1]]
    BY <2>1, <2>5, <2>7 DEF Forwarded, FirstDelivered
  <2>8. /\ n >= 0
        /\ added[k] = SubSeq(added[k], 1, n) \o delivered[k] \o Held(k)
        /\ \A i \in 1..n : added[k][i + 1] <= common_start_time[k[1]]
        /\ delivered[k] # <<>> =>
              \/ delivered[k][1] >= common_start_time[k[1]]
              \/ Len(added[k]) = n + 1
              \/ added[k][n + 2] > common_start_time[k[1]]
    <3>1. n >= 0
      OBVIOUS
    <3>2. QED
      BY <3>1, <2>4, <2>6, <2>7, Zenon
  <2>9. QED
    BY <2>3, <2>8, Zenon
<1>3. QED
  BY <1>1, <1>2 DEF FastForward

\* ordered_multi_queue.cc:90-191: the queues hand on all the data that were added, each
\* queue in the order in which it got them, save those before the common start time that
\* have a successor no later than it; and when a call returns, what they keep waits for a
\* queue that may still get data.
THEOREM NothingLostOrKept == Spec => []DeliveredExact
<1>1. Spec => []FastInv
  BY StreamAlways, InitFast, NextFast, PTL DEF Spec
<1>2. StreamInv /\ FastInv => FastForward
  BY ForwardedExactly
<1>3. FastForward /\ WaitsForData => DeliveredExact
  BY DEF DeliveredExact
<1>4. QED
  BY <1>1, <1>2, <1>3, StreamAlways, WaitsAlways, PTL
=============================================================================
