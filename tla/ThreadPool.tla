----------------------------- MODULE ThreadPool -----------------------------
(***************************************************************************)
(* common::ThreadPool (common/thread_pool.cc) over common::Mutex           *)
(* (common/mutex.h).  Every critical section is one action.  A Locker's    *)
(* destructor unlocks first and calls notify_all() afterwards: a thread    *)
(* between the two is in notifying, and does nothing else until it has     *)
(* notified.  A worker whose Await predicate was false sleeps on the       *)
(* condition variable until some thread notifies.                          *)
(*                                                                         *)
(* The client is one owner thread, which schedules the items in Roots and  *)
(* destroys the pool, and the work items themselves: executing item i      *)
(* schedules the items in Spawns[i], as ConstructSubmapScanMatcher does.   *)
(***************************************************************************)
EXTENDS Sequences, FiniteSets, Functions

CONSTANTS Workers,  \* the threads in pool_
          Owner,    \* the thread that owns the pool
          Items,    \* work items, each scheduled at most once
          Roots,    \* the items the owner schedules
          Spawns,   \* Spawns[i]: the items that executing i schedules
          Idle

ASSUME WorkersAssumption == Workers # {} /\ IsFiniteSet(Workers)
ASSUME OwnerAssumption == Owner \notin Workers
ASSUME ItemsAssumption == /\ Roots \subseteq Items
                          /\ Spawns \in [Items -> SUBSET Items]
                          /\ Idle \notin Items

VARIABLES work_queue,  \* work_queue_
          running,     \* running_
          executing,   \* the work_item each worker holds
          exited,      \* workers that returned from DoWork
          asleep,      \* workers blocked in Await
          notifying,   \* threads between unlock() and notify_all()
          owner,       \* "alive", "joining" in ~ThreadPool, "destroyed"
          scheduled,   \* items Schedule was called with
          failed       \* a CHECK failed: the process is gone

vars == <<work_queue, running, executing, exited, asleep, notifying, owner,
          scheduled, failed>>

Threads == Workers \cup {Owner}
Queued == Range(work_queue)
Executing == {executing[w] : w \in Workers} \ {Idle}

Init == /\ work_queue = <<>>
        /\ running = TRUE
        /\ executing = [w \in Workers |-> Idle]
        /\ exited = {}
        /\ asleep = {}
        /\ notifying = {}
        /\ owner = "alive"
        /\ scheduled = {}
        /\ failed = FALSE

\* Thread th can take a step of its own.
Ready(th) == ~failed /\ th \notin notifying

\* ~Locker: notify_all() wakes every sleeper, which re-evaluates its predicate.
NotifyAll(th) == /\ ~failed
                 /\ th \in notifying
                 /\ notifying' = notifying \ {th}
                 /\ asleep' = {}
                 /\ UNCHANGED <<work_queue, running, executing, exited, owner,
                                scheduled, failed>>

\* Mutant: Schedule unlocks without notifying.
ScheduleSilently(th, i) ==
    /\ Ready(th)
    /\ i \notin scheduled
    /\ scheduled' = scheduled \cup {i}
    /\ work_queue' = IF running THEN Append(work_queue, i) ELSE work_queue
    /\ failed' = ~running
    /\ UNCHANGED <<running, executing, exited, asleep, notifying, owner>>

\* Schedule(i) called by thread th.
Schedule(th, i) ==
    /\ Ready(th)
    /\ i \notin scheduled
    /\ scheduled' = scheduled \cup {i}
    /\ IF running
       THEN /\ work_queue' = Append(work_queue, i)
            /\ notifying' = notifying \cup {th}
            /\ UNCHANGED failed
       ELSE /\ failed' = TRUE
            /\ UNCHANGED <<work_queue, notifying>>
    /\ UNCHANGED <<running, executing, exited, asleep, owner>>

\* DoWork: the worker is about to evaluate the predicate of Await.
Awaiting(w) == /\ Ready(w)
               /\ executing[w] = Idle
               /\ w \notin exited \cup asleep

\* The predicate is false: wait() releases the mutex and blocks.
Sleep(w) == /\ Awaiting(w)
            /\ work_queue = <<>>
            /\ running
            /\ asleep' = asleep \cup {w}
            /\ UNCHANGED <<work_queue, running, executing, exited, notifying,
                           owner, scheduled, failed>>

\* Mutant: front() without pop_front().
TakeWithoutPop(w) == /\ Awaiting(w)
                     /\ work_queue # <<>>
                     /\ executing' = [executing EXCEPT ![w] = Head(work_queue)]
                     /\ notifying' = notifying \cup {w}
                     /\ UNCHANGED <<work_queue, running, exited, asleep, owner,
                                    scheduled, failed>>

Take(w) == /\ Awaiting(w)
           /\ work_queue # <<>>
           /\ executing' = [executing EXCEPT ![w] = Head(work_queue)]
           /\ work_queue' = Tail(work_queue)
           /\ notifying' = notifying \cup {w}
           /\ UNCHANGED <<running, exited, asleep, owner, scheduled, failed>>

\* Mutant: an empty queue is enough to return from DoWork.
ExitWhenEmpty(w) == /\ Awaiting(w)
                    /\ work_queue = <<>>
                    /\ exited' = exited \cup {w}
                    /\ notifying' = notifying \cup {w}
                    /\ UNCHANGED <<work_queue, running, executing, asleep,
                                   owner, scheduled, failed>>

\* The queue is drained before a worker looks at running_.
Exit(w) == /\ Awaiting(w)
           /\ work_queue = <<>>
           /\ ~running
           /\ exited' = exited \cup {w}
           /\ notifying' = notifying \cup {w}
           /\ UNCHANGED <<work_queue, running, executing, asleep, owner,
                          scheduled, failed>>

\* work_item() runs: it schedules what it spawns and returns.
Spawn(w, i) == /\ executing[w] # Idle
               /\ i \in Spawns[executing[w]]
               /\ Schedule(w, i)

Return(w) == /\ executing[w] # Idle
             /\ Ready(w)
             /\ Spawns[executing[w]] \subseteq scheduled
             /\ executing' = [executing EXCEPT ![w] = Idle]
             /\ UNCHANGED <<work_queue, running, exited, asleep, notifying,
                            owner, scheduled, failed>>

\* The clients' duty before they destroy the pool: no item waits, and none
\* that is executing will schedule another.
Quiescent == /\ Roots \subseteq scheduled
             /\ work_queue = <<>>
             /\ \A i \in Executing : Spawns[i] \subseteq scheduled

\* Mutant: running_ is cleared without waking the sleepers.
DestroySilently == /\ owner = "alive"
                   /\ Ready(Owner)
                   /\ Quiescent
                   /\ running' = FALSE
                   /\ owner' = "joining"
                   /\ failed' = (work_queue # <<>>)
                   /\ UNCHANGED <<work_queue, executing, exited, asleep,
                                  notifying, scheduled>>

\* ~ThreadPool up to the joins.
BeginDestroy == /\ owner = "alive"
                /\ Ready(Owner)
                /\ Quiescent
                /\ running' = FALSE
                /\ owner' = "joining"
                /\ notifying' = notifying \cup {Owner}
                /\ failed' = (work_queue # <<>>)
                /\ UNCHANGED <<work_queue, executing, exited, asleep,
                               scheduled>>

\* join() returns once a thread's DoWork has returned.
Join == /\ owner = "joining"
        /\ Ready(Owner)
        /\ exited = Workers
        /\ notifying = {}
        /\ owner' = "destroyed"
        /\ UNCHANGED <<work_queue, running, executing, exited, asleep,
                       notifying, scheduled, failed>>

OwnerSchedules == \E i \in Roots : owner = "alive" /\ Schedule(Owner, i)

DoWork(w) == \/ NotifyAll(w)
             \/ Sleep(w)
             \/ Take(w)
             \/ Exit(w)
             \/ \E i \in Items : Spawn(w, i)
             \/ Return(w)

Destroyed == owner = "destroyed" /\ UNCHANGED vars

Next == \/ NotifyAll(Owner)
        \/ OwnerSchedules
        \/ BeginDestroy
        \/ Join
        \/ \E w \in Workers : DoWork(w)
        \/ Destroyed

\* Threads the kernel schedules keep running; the owner need not ever
\* schedule or destroy anything.
Fairness == /\ \A w \in Workers : WF_vars(DoWork(w))
            /\ WF_vars(NotifyAll(Owner) \/ Join)

Spec == Init /\ [][Next]_vars /\ Fairness
-----------------------------------------------------------------------------
\* The state has the types of thread_pool.h's members, and a worker is at one
\* place of DoWork at a time: executing an item, asleep in Await, or gone.
TypeOK == /\ work_queue \in Seq(Items)
          /\ running \in BOOLEAN
          /\ executing \in [Workers -> Items \cup {Idle}]
          /\ exited \subseteq Workers
          /\ asleep \subseteq Workers
          /\ notifying \subseteq Threads
          /\ owner \in {"alive", "joining", "destroyed"}
          /\ scheduled \subseteq Items
          /\ failed \in BOOLEAN
          /\ asleep \cap exited = {}
          /\ \A w \in asleep \cup exited : executing[w] = Idle

\* No wake-up is lost: when an item waits and every worker sleeps, some thread
\* still has its notify_all() to make.
NoLostWakeup ==
    (work_queue # <<>> \/ ~running) /\ asleep # {} => notifying # {}

\* ThreadPool implements the abstract pool: no item is lost, run twice or run
\* by two workers, and none is accepted after the destructor.
Pool == INSTANCE WorkPool WITH waiting <- Queued, open <- running
PoolSpec == Pool!Spec

\* thread_pool.h:26-28: a scheduled item "will be executed by a background
\* thread eventually".
EventuallyExecuted ==
    \A i \in Items : (i \in Queued) ~> (i \notin Queued \cup Executing)

\* thread_pool.h:28-30: the destructor waits for the executing items and ends.
DestructorReturns == (owner = "joining") ~> (owner = "destroyed")

PoolProgress == EventuallyExecuted /\ DestructorReturns
=============================================================================
