--------------------------- MODULE BlockingQueue ---------------------------
(***************************************************************************)
(* common::BlockingQueue over common::Mutex: threads that push wait while  *)
(* the queue is full and threads that pop while it is empty, all on the    *)
(* one condition variable of the mutex, whose ~Locker unlocks and then     *)
(* notifies.  A thread calls one operation after another; when its call    *)
(* has a timeout and the timeout has passed, the condition is looked at    *)
(* once more and decides what the call returns.                            *)
(***************************************************************************)
EXTENDS Integers, Sequences, FiniteSets

CONSTANTS
    Threads,
    Capacities,  \* queue_size_, any of these; kInfiniteQueueSize is 0
    MaxPushed    \* bound: values pushed

VARIABLES
    queue_size_,
    deque_,
    calls,      \* the operation each thread is in, "none" outside of calls
    asleep,     \* threads blocked in Await or AwaitWithTimeout
    notifying,  \* threads between unlock() and notify_all()
    pushed,     \* history: number of values pushed; they are 1, 2, ...
    returned    \* history: the values popped

queueVars == <<queue_size_, deque_, calls, asleep, notifying, pushed, returned>>

kInfiniteQueueSize == 0

Pushes == {"Push", "PushWithTimeout"}
Pops == {"Pop", "PopWithTimeout"}
WithTimeout == {"PushWithTimeout", "PopWithTimeout"}

Init == /\ queue_size_ \in Capacities
        /\ deque_ = <<>>
        /\ calls = [th \in Threads |-> "none"]
        /\ asleep = {}
        /\ notifying = {}
        /\ pushed = 0
        /\ returned = <<>>
-----------------------------------------------------------------------------
QueueNotEmptyCondition == deque_ # <<>>
QueueNotFullCondition == queue_size_ = kInfiniteQueueSize \/ Len(deque_) < queue_size_

Condition(call) == IF call \in Pushes THEN QueueNotFullCondition ELSE QueueNotEmptyCondition

\* The thread has the lock: what the call does once its condition is met.
PushBack == /\ deque_' = Append(deque_, pushed + 1)
            /\ pushed' = pushed + 1
            /\ UNCHANGED returned

PopFront == /\ deque_' = Tail(deque_)
            /\ returned' = Append(returned, Head(deque_))
            /\ UNCHANGED pushed

Perform(call) == \/ call \in Pushes /\ PushBack
                 \/ call \in Pops /\ PopFront

Call(th, call) ==
    /\ calls[th] = "none"
    /\ th \notin notifying
    /\ call \in Pushes => pushed + Cardinality({t \in Threads : calls[t] \in Pushes}) < MaxPushed
    /\ calls' = [calls EXCEPT ![th] = call]
    /\ UNCHANGED <<queue_size_, deque_, asleep, notifying, pushed, returned>>

Awaiting(th) == calls[th] # "none" /\ th \notin asleep

\* The thread has the lock and its predicate holds: the call does its work and unlocks.
Return(th) ==
    /\ Condition(calls[th])
    /\ Perform(calls[th])
    /\ calls' = [calls EXCEPT ![th] = "none"]
    /\ notifying' = notifying \cup {th}
    /\ UNCHANGED queue_size_

ReturnAtOnce(th) == Awaiting(th) /\ Return(th) /\ UNCHANGED asleep

Sleep(th) ==
    /\ Awaiting(th)
    /\ ~Condition(calls[th])
    /\ asleep' = asleep \cup {th}
    /\ UNCHANGED <<queue_size_, deque_, calls, notifying, pushed, returned>>

\* wait_for has timed out and the predicate does not hold: false or nullptr is returned.
TimeOut(th) ==
    /\ th \in asleep
    /\ calls[th] \in WithTimeout
    /\ ~Condition(calls[th])
    /\ calls' = [calls EXCEPT ![th] = "none"]
    /\ asleep' = asleep \ {th}
    /\ notifying' = notifying \cup {th}
    /\ UNCHANGED <<queue_size_, deque_, pushed, returned>>

\* wait_for has timed out, and the predicate holds after all.
ReturnLate(th) ==
    /\ th \in asleep
    /\ calls[th] \in WithTimeout
    /\ Return(th)
    /\ asleep' = asleep \ {th}

\* Mutant: notify_one() wakes a single thread, whatever it waits for.
NotifyOne(th) ==
    /\ th \in notifying
    /\ notifying' = notifying \ {th}
    /\ IF asleep = {} THEN UNCHANGED asleep
                      ELSE \E other \in asleep : asleep' = asleep \ {other}
    /\ UNCHANGED <<queue_size_, deque_, calls, pushed, returned>>

\* ~Locker: notify_all() wakes every thread, to look at its predicate again.
NotifyAll(th) ==
    /\ th \in notifying
    /\ notifying' = notifying \ {th}
    /\ asleep' = {}
    /\ UNCHANGED <<queue_size_, deque_, calls, pushed, returned>>

Next == \E th \in Threads :
           \/ \E call \in Pushes \cup Pops : Call(th, call)
           \/ ReturnAtOnce(th)
           \/ Sleep(th)
           \/ TimeOut(th)
           \/ ReturnLate(th)
           \/ NotifyAll(th)

Spec == Init /\ [][Next]_queueVars
-----------------------------------------------------------------------------
\* blocking_queue.h:44-70: a call waits only while the queue is full or empty, as it is
\* for that call: when the condition of a thread that sleeps has come to hold, some thread
\* still has to notify it, be the threads that slept or were woken in between pushing or
\* popping, and whether or not their timeouts have passed.
WaitersWoken == \A th \in asleep : Condition(calls[th]) => notifying # {}

\* Values come out in the order they went in, each once, and the queue stays in its size.
FirstInFirstOut ==
    /\ returned \o deque_ = [i \in 1..pushed |-> i]
    /\ queue_size_ # kInfiniteQueueSize => Len(deque_) <= queue_size_

BlockingExact == WaitersWoken /\ FirstInFirstOut
=============================================================================
