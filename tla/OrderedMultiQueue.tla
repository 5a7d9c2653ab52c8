-------------------------- MODULE OrderedMultiQueue --------------------------
(***************************************************************************)
(* sensor::OrderedMultiQueue behind sensor::Collator: one queue for every  *)
(* sensor of every trajectory, merged into one stream in time order.  Data *)
(* from before the time all sensors of a trajectory have data are skipped. *)
(*                                                                         *)
(* Every call of Add or MarkQueueAsFinished runs Dispatch: dispatching is  *)
(* then TRUE and each iteration of its loop is a step.  A call that marks  *)
(* several queues leaves the rest in finishing.  The client's next call    *)
(* comes when neither is left.  A failed CHECK ends the program.           *)
(***************************************************************************)
EXTENDS Integers, Sequences, FiniteSets

CONSTANTS Trajectories,  \* trajectory ids, integers
          Sensors,       \* sensor ids; integers, for their order as strings
          MaxTime,       \* bound: times are 0..MaxTime
          MaxData,       \* bound: data added, in all queues
          None           \* no key

ASSUME OrderAssumption == Trajectories \subseteq Int /\ Sensors \subseteq Int
ASSUME FiniteAssumption == IsFiniteSet(Trajectories) /\ IsFiniteSet(Sensors)
ASSUME BoundsAssumption == MaxTime \in Nat /\ MaxData \in Nat

Keys == Trajectories \X Sensors
Time == 0..MaxTime
MinTime == -1    \* common::Time::min(), and a missing common start time
Queue == [data : Seq(Time), finished : BOOLEAN]

ASSUME NoneAssumption == None \notin Keys

VARIABLES queue_keys,            \* sensors of each trajectory added
          queues,                \* the queues that exist, by key
          last_dispatched_time,  \* last_dispatched_time_
          common_start_time,     \* common_start_time_per_trajectory_
          blocker,               \* blocker_; None before it is assigned
          finishing,             \* keys the running call still has to mark
          dispatching,           \* Dispatch is running
          flushed,               \* Flush has been called
          destroyed,             \* the destructor has run
          failed,                \* a CHECK failed
          added, delivered       \* per key: data added, data handed to callback

inputs == <<queue_keys, added, flushed, destroyed>>
outputs == <<last_dispatched_time, delivered>>
vars == <<inputs, outputs, queues, common_start_time, blocker, finishing,
          dispatching, failed>>

\* The order of std::map<QueueKey, Queue>.
Precedes(k, l) == k[1] < l[1] \/ (k[1] = l[1] /\ k[2] < l[2])

Data(k) == queues[k].data

Init == /\ queue_keys = [t \in Trajectories |-> {}]
        /\ queues = [k \in {} |-> Queue]
        /\ last_dispatched_time = MinTime
        /\ common_start_time = [t \in Trajectories |-> MinTime]
        /\ blocker = None
        /\ finishing = <<>>
        /\ dispatching = FALSE
        /\ flushed = FALSE
        /\ destroyed = FALSE
        /\ failed = FALSE
        /\ added = [k \in Keys |-> <<>>]
        /\ delivered = [k \in Keys |-> <<>>]
-----------------------------------------------------------------------------
(* The calls of the client. *)

\* No call is running.
Idle == ~dispatching /\ finishing = <<>>

Callable == Idle /\ ~failed /\ ~flushed /\ ~destroyed

\* Collator::AddTrajectory, with one AddQueue for every sensor.
AddTrajectory(t, sensors) ==
    LET new == {t} \X sensors
    IN  /\ Callable
        /\ queue_keys' = [queue_keys EXCEPT ![t] = @ \cup sensors]
        /\ queues' = [k \in DOMAIN queues \cup new |->
                         IF k \in new THEN [data |-> <<>>, finished |-> FALSE]
                                      ELSE queues[k]]
        /\ failed' = (new \cap DOMAIN queues # {})
        /\ UNCHANGED <<outputs, common_start_time, blocker, finishing,
                       dispatching, added, flushed, destroyed>>

\* Data for a key without a queue is ignored.
Add(k, time) ==
    /\ Callable
    /\ k \in DOMAIN queues
    /\ queues' = [queues EXCEPT ![k].data = Append(@, time)]
    /\ added' = [added EXCEPT ![k] = Append(@, time)]
    /\ dispatching' = TRUE
    /\ UNCHANGED <<outputs, queue_keys, flushed, destroyed, common_start_time,
                   blocker, finishing, failed>>

\* The orders in which a loop may visit the elements of S.
Enumerations(S) == {e \in [1..Cardinality(S) -> S] :
                       \A i, j \in DOMAIN e : i # j => e[i] # e[j]}

\* An unordered_set of sensor ids gave the order of queue_keys_[t].
FinishTrajectory(t) ==
    /\ Callable
    /\ finishing' \in Enumerations({t} \X queue_keys[t])
    /\ UNCHANGED <<inputs, outputs, queues, common_start_time, blocker,
                   dispatching, failed>>

Unfinished == {k \in DOMAIN queues : ~queues[k].finished}

\* Mutant: all queues are marked, the finished ones again.
FlushAll ==
    /\ Callable
    /\ flushed' = TRUE
    /\ \E e \in Enumerations(DOMAIN queues) :
          /\ \A i, j \in DOMAIN e : i < j => Precedes(e[i], e[j])
          /\ finishing' = e
    /\ UNCHANGED <<outputs, queue_keys, added, destroyed, queues,
                   common_start_time, blocker, dispatching, failed>>

Flush ==
    /\ Callable
    /\ flushed' = TRUE
    /\ \E e \in Enumerations(Unfinished) :
          /\ \A i, j \in DOMAIN e : i < j => Precedes(e[i], e[j])
          /\ finishing' = e
    /\ UNCHANGED <<outputs, queue_keys, added, destroyed, queues,
                   common_start_time, blocker, dispatching, failed>>

\* The destructor.
Destroy ==
    /\ Idle /\ ~failed /\ ~destroyed
    /\ destroyed' = TRUE
    /\ failed' = (Unfinished # {})
    /\ UNCHANGED <<outputs, queue_keys, added, flushed, queues,
                   common_start_time, blocker, finishing, dispatching>>

MarkQueueAsFinished ==
    LET k == Head(finishing)
    IN  /\ ~failed /\ ~dispatching
        /\ finishing # <<>>
        /\ failed' = (k \notin Unfinished)
        /\ queues' = [queues EXCEPT ![k].finished = TRUE]
        /\ finishing' = Tail(finishing)
        /\ dispatching' = TRUE
        /\ UNCHANGED <<inputs, outputs, common_start_time, blocker>>
-----------------------------------------------------------------------------
(* One iteration of the loop in Dispatch. *)

Empty(k) == Data(k) = <<>>

\* The queues the loop waits for.
Waiting == {k \in Unfinished : Empty(k)}

\* The queues the loop visits before it meets one to wait for.
Visited == {k \in DOMAIN queues : \A b \in Waiting : Precedes(k, b)}

\* queues_ without the visited ones that are empty and finished.
Erased == [k \in DOMAIN queues \ {v \in Visited : Empty(v)} |-> queues[k]]

\* Non-sorted data added to queue.
NotSorted == \E k \in Visited : ~Empty(k) /\ Head(Data(k)) < last_dispatched_time

\* Mutant: the first key with data.
IsFirst(k) == /\ k \in Visited
              /\ ~Empty(k)
              /\ \A l \in Visited \ {k} : ~Empty(l) => Precedes(k, l)

\* The queue of next_data: the earliest datum; of equal ones the first key.
IsNext(k) == /\ k \in Visited
             /\ ~Empty(k)
             /\ \A l \in Visited \ {k} : ~Empty(l) =>
                   \/ Head(Data(k)) < Head(Data(l))
                   \/ Head(Data(k)) = Head(Data(l)) /\ Precedes(k, l)

\* GetCommonStartTime: fixed when the first datum of the trajectory is next.
IsCommonStartTime(t, time) ==
    IF common_start_time[t] # MinTime
    THEN time = common_start_time[t]
    ELSE LET heads == {Head(Data(k)) : k \in {l \in DOMAIN Erased : l[1] = t}}
         IN  time \in heads /\ \A h \in heads : h <= time

\* Non-sorted data end the program, whatever else the step does.
Iterate == /\ dispatching /\ ~failed
           /\ failed' = NotSorted

\* The loop returns at the first queue it has to wait for.
CannotMakeProgress(k) ==
    /\ Iterate
    /\ k \in Waiting
    /\ \A b \in Waiting \ {k} : Precedes(k, b)
    /\ queues' = Erased
    /\ blocker' = k
    /\ dispatching' = FALSE
    /\ UNCHANGED <<inputs, outputs, common_start_time, finishing>>

\* All queues were finished and empty.
NothingLeft ==
    /\ Iterate /\ Waiting = {}
    /\ \A k \in DOMAIN queues : Empty(k)
    /\ queues' = Erased
    /\ dispatching' = FALSE
    /\ UNCHANGED <<inputs, outputs, common_start_time, blocker, finishing>>

\* The data of queue k is next, and start the common start time.
NextData(k, start) ==
    /\ Iterate /\ Waiting = {}
    /\ IsNext(k)
    /\ IsCommonStartTime(k[1], start)
    /\ common_start_time' = [common_start_time EXCEPT ![k[1]] = start]

Pop(k) == [Erased EXCEPT ![k].data = Tail(@)]

\* Mutant: the last datum before the start is skipped, too.
DispatchedFromStart(k, start) ==
    \/ Head(Data(k)) >= start
    \/ Len(Data(k)) < 2 /\ queues[k].finished

\* Whether the first datum of queue k is handed to the callback.
Dispatched(k, start) ==
    \/ Head(Data(k)) >= start
    \/ IF Len(Data(k)) < 2 THEN queues[k].finished
                           ELSE Data(k)[2] > start

\* It cannot be decided yet: the next datum of the queue may be before start.
Undecided(k, start) == /\ Head(Data(k)) < start
                       /\ Len(Data(k)) < 2
                       /\ ~queues[k].finished

Dispatch(k, start) ==
    /\ NextData(k, start)
    /\ Dispatched(k, start)
    /\ queues' = Pop(k)
    /\ last_dispatched_time' = Head(Data(k))
    /\ delivered' = [delivered EXCEPT ![k] = Append(@, Head(Data(k)))]
    /\ UNCHANGED <<inputs, blocker, finishing, dispatching>>

Skip(k, start) ==
    /\ NextData(k, start)
    /\ ~Dispatched(k, start) /\ ~Undecided(k, start)
    /\ queues' = Pop(k)
    /\ UNCHANGED <<inputs, outputs, blocker, finishing, dispatching>>

WaitToDecide(k, start) ==
    /\ NextData(k, start)
    /\ Undecided(k, start)
    /\ queues' = Erased
    /\ blocker' = k
    /\ dispatching' = FALSE
    /\ UNCHANGED <<inputs, outputs, finishing>>
-----------------------------------------------------------------------------
\* What the class does after a call.
Internal ==
    \/ MarkQueueAsFinished
    \/ \E k \in DOMAIN queues : CannotMakeProgress(k)
    \/ NothingLeft
    \/ \E k \in DOMAIN queues, start \in Time :
          Dispatch(k, start) \/ Skip(k, start) \/ WaitToDecide(k, start)

\* MapBuilder::AddTrajectoryBuilder gives every trajectory a new id.
NewTrajectory == \E t \in Trajectories, sensors \in (SUBSET Sensors) \ {{}} :
                    queue_keys[t] = {} /\ AddTrajectory(t, sensors)

\* A trajectory is finished once.
EndTrajectory == \E t \in Trajectories :
                    /\ queue_keys[t] # {}
                    /\ {t} \X queue_keys[t] \subseteq Unfinished
                    /\ FinishTrajectory(t)

\* "Data must be added sorted per queue", and before the queue is finished.
SortedPerQueue(k, time) == \A i \in DOMAIN added[k] : added[k][i] <= time
NumAdded == Cardinality({d \in Keys \X (1..MaxData) : d[2] \in DOMAIN added[d[1]]})
AddSorted(k, time) == /\ k \in Unfinished
                      /\ NumAdded < MaxData
                      /\ SortedPerQueue(k, time)
                      /\ Add(k, time)

\* The client destroys the collator when it expects no more data.
Finish == Flush \/ (Unfinished = {} /\ Destroy)

Rest == destroyed /\ UNCHANGED vars

Others == Internal \/ NewTrajectory \/ EndTrajectory \/ Finish \/ Rest

\* The sensors of a trajectory that is added when data have been dispatched start no
\* earlier than these data.  The documentation does not ask for it; in operation a new
\* trajectory comes after the old ones.
StartsLater(k, time) == added[k] = <<>> => last_dispatched_time <= time

Next == \/ Others
        \/ \E k \in Keys, time \in Time : StartsLater(k, time) /\ AddSorted(k, time)

Spec == Init /\ [][Next]_vars

\* All that is documented of the data.
NextSorted == Others \/ \E k \in Keys, time \in Time : AddSorted(k, time)

SpecSorted == Init /\ [][NextSorted]_vars
-----------------------------------------------------------------------------
\* The state has the types of the members.
TypeOK == /\ queue_keys \in [Trajectories -> SUBSET Sensors]
          /\ DOMAIN queues \subseteq Keys
          /\ \A k \in DOMAIN queues : queues[k] \in Queue
          /\ last_dispatched_time \in Time \cup {MinTime}
          /\ common_start_time \in [Trajectories -> Time \cup {MinTime}]
          /\ blocker \in Keys \cup {None}
          /\ finishing \in Seq(Keys)
          /\ dispatching \in BOOLEAN
          /\ flushed \in BOOLEAN
          /\ destroyed \in BOOLEAN
          /\ failed \in BOOLEAN
          /\ added \in [Keys -> Seq(Time)]
          /\ delivered \in [Keys -> Seq(Time)]

\* ordered_multi_queue.h:81, "Data must be added sorted per queue": no CHECK fails of
\* queues whose data are, and which are finished once, in whatever order the sensors
\* deliver.  It holds of Spec, where StartsLater(k, time) is a condition, too.
NoCheckFails == ~failed

\* ordered_multi_queue.h:55: the callbacks get the data of all sensors in time
\* order: never one older than a datum that any queue delivered before.
MergeSorted ==
    [][\A k, l \in Keys : delivered'[k] # delivered[k] =>
          \A i \in DOMAIN delivered[l] :
             delivered[l][i] <= delivered'[k][Len(delivered'[k])]]_vars

\* How many data of queue k were skipped.
Held(k) == IF k \in DOMAIN queues THEN Data(k) ELSE <<>>
Skipped(k) == Len(added[k]) - Len(delivered[k]) - Len(Held(k))

\* The last of the first times of the sensors that have delivered.
CommonStart ==
    \A t \in Trajectories : common_start_time[t] # MinTime =>
       LET firsts == {added[k][1] : k \in {l \in {t} \X Sensors : added[l] # <<>>}}
       IN  /\ common_start_time[t] \in firsts
           /\ \A time \in firsts : time <= common_start_time[t]

\* ordered_multi_queue.cc:125: fast forward to the common start time.  Nothing is lost or
\* reordered: the data that are not delivered come before all others of their
\* queue, and after each of them the queue had another datum at or before the
\* common start time, so every sensor starts with its last datum before it; and
\* that time is the first at which all sensors of the trajectory have delivered,
\* sensors that never did excepted (ordered_multi_queue.cc:188).
FastForward ==
    /\ CommonStart
    /\ \A k \in Keys :
          LET n == Skipped(k)
              start == common_start_time[k[1]]
          IN  /\ n >= 0
              /\ added[k] = SubSeq(added[k], 1, n) \o delivered[k] \o Held(k)
              /\ \A i \in 1..n : added[k][i + 1] <= start
              /\ delivered[k] # <<>> =>
                    \/ delivered[k][1] >= start
                    \/ Len(added[k]) = n + 1
                    \/ added[k][n + 2] > start

\* When a call has returned, what is held back waits for a queue that may still
\* get data: no call leaves behind data that could be delivered, and Flush
\* leaves behind nothing (ordered_multi_queue.h:94-95).
WaitsForData ==
    Idle /\ ~failed /\ DOMAIN queues # {} =>
       \E k \in Unfinished : Empty(k) \/ Undecided(k, common_start_time[k[1]])

\* ordered_multi_queue.cc:90-191: the queues hand on all they should, and keep back no
\* more than they must.
DeliveredExact == FastForward /\ WaitsForData
=============================================================================
