-------------------------- MODULE ThreadPoolProofs --------------------------
(***************************************************************************)
(* ThreadPool is type correct and implements WorkPool, for any non-empty   *)
(* set of workers and any work items.                                      *)
(***************************************************************************)
EXTENDS ThreadPool, Naturals, TLAPS

\* What the queue holds after push_back.
LEMMA RangeOfAppend ==
    ASSUME NEW S, NEW q \in Seq(S), NEW i \in S
    PROVE  Range(Append(q, i)) = Range(q) \cup {i}
<1>1. /\ DOMAIN q = 1..Len(q)
      /\ DOMAIN Append(q, i) = 1..(Len(q) + 1)
      /\ \A k \in 1..Len(q) : Append(q, i)[k] = q[k]
      /\ Append(q, i)[Len(q) + 1] = i
      /\ Len(q) \in Nat
  OBVIOUS
<1>2. 1..(Len(q) + 1) = 1..Len(q) \cup {Len(q) + 1}
  BY <1>1
<1>3. QED
  BY <1>1, <1>2 DEF Range

\* A sequence in which no element occurs twice.
NoDuplicates(q) == \A a, b \in 1..Len(q) : q[a] = q[b] => a = b

\* What the queue holds after front() and pop_front().
LEMMA RangeOfTail ==
    ASSUME NEW S, NEW q \in Seq(S), q # <<>>, NoDuplicates(q)
    PROVE  /\ Head(q) \in Range(q)
           /\ Range(Tail(q)) = Range(q) \ {Head(q)}
           /\ NoDuplicates(Tail(q))
<1>1. /\ Len(q) \in Nat \ {0}
      /\ DOMAIN q = 1..Len(q)
      /\ Head(q) = q[1]
      /\ Len(Tail(q)) = Len(q) - 1
      /\ DOMAIN Tail(q) = 1..(Len(q) - 1)
      /\ \A k \in 1..(Len(q) - 1) : Tail(q)[k] = q[k + 1]
  OBVIOUS
<1>2. Head(q) \in Range(q)
  BY <1>1 DEF Range
<1>3. NoDuplicates(Tail(q))
  BY <1>1 DEF NoDuplicates
<1>4. ASSUME NEW x \in Range(Tail(q)) PROVE x \in Range(q) \ {Head(q)}
  <2>1. PICK k \in 1..(Len(q) - 1) : x = q[k + 1]
    BY <1>1 DEF Range
  <2>2. k + 1 \in 1..Len(q) /\ 1 \in 1..Len(q) /\ k + 1 # 1
    BY <1>1
  <2>3. QED
    BY <1>1, <2>1, <2>2 DEF Range, NoDuplicates
<1>5. ASSUME NEW x \in Range(q), x # Head(q) PROVE x \in Range(Tail(q))
  <2>1. PICK k \in 1..Len(q) : x = q[k]
    BY <1>1 DEF Range
  <2>2. k - 1 \in 1..(Len(q) - 1)
    BY <1>1, <2>1, <1>5
  <2>3. Tail(q)[k - 1] = x
    BY <1>1, <2>1, <2>2
  <2>4. QED
    BY <1>1, <2>2, <2>3 DEF Range
<1>6. QED
  BY <1>2, <1>3, <1>4, <1>5
-----------------------------------------------------------------------------
\* Every reachable state of the pool has the types of its members.
THEOREM TypeCorrect == Spec => []TypeOK
<1>1. Init => TypeOK
  <2> SUFFICES ASSUME Init PROVE TypeOK
    OBVIOUS
  <2>1. work_queue \in Seq(Items)
    BY DEF Init
  <2>2. running \in BOOLEAN /\ failed \in BOOLEAN
    BY DEF Init
  <2>3. QED
    BY <2>1, <2>2 DEF Init, TypeOK
<1>2. TypeOK /\ [Next]_vars => TypeOK'
  <2> SUFFICES ASSUME TypeOK, [Next]_vars PROVE TypeOK'
    OBVIOUS
  <2> USE OwnerAssumption, ItemsAssumption
      DEF TypeOK, Threads, OwnerAssumption, ItemsAssumption
  <2>1. ASSUME NEW th \in Threads, NotifyAll(th) PROVE TypeOK'
    BY <2>1 DEF NotifyAll
  <2>2. ASSUME NEW th \in Threads, NEW i \in Items, Schedule(th, i)
        PROVE  TypeOK'
    <3>1. CASE running
      BY <2>2, <3>1 DEF Schedule, Ready
    <3>2. CASE ~running
      <4>1. failed' \in BOOLEAN
        BY <2>2, <3>2 DEF Schedule, Ready
      <4>2. QED
        BY <2>2, <3>2, <4>1 DEF Schedule, Ready
    <3>3. QED
      BY <3>1, <3>2
  <2>3. CASE BeginDestroy
    BY <2>3 DEF BeginDestroy, Quiescent
  <2>4. CASE Join
    BY <2>4 DEF Join
  <2>5. ASSUME NEW w \in Workers, Sleep(w) PROVE TypeOK'
    BY <2>5 DEF Sleep, Awaiting, Ready
  <2>6. ASSUME NEW w \in Workers, Take(w) PROVE TypeOK'
    <3>1. Head(work_queue) \in Items /\ Tail(work_queue) \in Seq(Items)
      BY <2>6 DEF Take
    <3>2. QED
      BY <2>6, <3>1 DEF Take, Awaiting
  <2>7. ASSUME NEW w \in Workers, Exit(w) PROVE TypeOK'
    BY <2>7 DEF Exit, Awaiting, Ready
  <2>8. ASSUME NEW w \in Workers, Return(w) PROVE TypeOK'
    BY <2>8 DEF Return
  <2>9. CASE UNCHANGED vars
    BY <2>9 DEF vars
  <2>10. QED
    BY <2>1, <2>2, <2>3, <2>4, <2>5, <2>6, <2>7, <2>8, <2>9
       DEF Next, DoWork, Spawn, OwnerSchedules, Destroyed
<1>3. QED
  BY <1>1, <1>2, PTL DEF Spec

\* An item is at one place only: once in the queue, or with one worker.
OnePlace == /\ NoDuplicates(work_queue)
            /\ Queued \cap Executing = {}
            /\ Queued \cup Executing \subseteq scheduled
            /\ \A v, w \in Workers :
                  executing[v] = executing[w] /\ executing[v] # Idle => v = w

\* The pool accepts items until its destructor starts.
RunningUntilDestroyed == owner = "alive" => running

PoolInv == TypeOK /\ OnePlace /\ RunningUntilDestroyed

\* One step keeps every item at one place, and is a step of the abstract pool
\* or leaves it alone.
LEMMA PoolStep ==
    ASSUME PoolInv, [Next]_vars, TypeOK'
    PROVE  /\ OnePlace' /\ RunningUntilDestroyed'
           /\ [Pool!Next]_(Pool!poolvars)
<1> USE OwnerAssumption, ItemsAssumption
    DEF PoolInv, OwnerAssumption, ItemsAssumption
<1> DEFINE Goal == /\ OnePlace' /\ RunningUntilDestroyed'
                   /\ [Pool!Next]_(Pool!poolvars)
<1>0. ASSUME UNCHANGED <<work_queue, executing, running>>,
             scheduled' = scheduled, owner' = owner
      PROVE  Goal
  BY <1>0 DEF OnePlace, RunningUntilDestroyed, Queued, Executing,
     NoDuplicates, Pool!poolvars
<1>1. ASSUME NEW th \in Threads, NotifyAll(th) PROVE Goal
  BY <1>0, <1>1 DEF NotifyAll
<1>2. ASSUME NEW th \in Threads, NEW i \in Items, Schedule(th, i) PROVE Goal
  <2>1. CASE running
    <3>1. work_queue' = Append(work_queue, i) /\ work_queue \in Seq(Items)
      BY <1>2, <2>1 DEF Schedule, TypeOK
    <3>2. Queued' = Queued \cup {i}
      BY <3>1, RangeOfAppend DEF Queued
    <3>3. executing' = executing /\ running' = running /\ owner' = owner
          /\ scheduled' = scheduled \cup {i}
      BY <1>2 DEF Schedule, Ready
    <3>4. i \notin Queued \cup Executing
      BY <1>2 DEF Schedule, OnePlace
    <3>5. NoDuplicates(work_queue')
      BY <3>1, <3>4 DEF NoDuplicates, OnePlace, Queued, Range
    <3>6. OnePlace' /\ RunningUntilDestroyed'
      BY <3>2, <3>3, <3>4, <3>5 DEF OnePlace, RunningUntilDestroyed, Executing
    <3>7. Pool!Schedule({i}) /\ i \notin Pool!Outstanding
      BY <2>1, <3>2, <3>3, <3>4
         DEF Pool!Schedule, Pool!Outstanding, Pool!Executing, Executing
    <3>8. QED
      BY <3>6, <3>7 DEF Pool!Next
  <2>2. CASE ~running
    <3>1. UNCHANGED <<work_queue, executing, running>> /\ owner' = owner
          /\ scheduled' = scheduled \cup {i}
      BY <1>2, <2>2 DEF Schedule, Ready
    <3>2. QED
      BY <3>1 DEF OnePlace, RunningUntilDestroyed, Queued, Executing,
         NoDuplicates, Pool!poolvars
  <2>3. QED
    BY <2>1, <2>2 DEF TypeOK
<1>3. CASE BeginDestroy
  <2>1. OnePlace' /\ RunningUntilDestroyed'
    BY <1>3 DEF BeginDestroy, OnePlace, RunningUntilDestroyed, Queued,
       Executing, NoDuplicates
  <2>2. Queued = {}
    BY <1>3 DEF BeginDestroy, Quiescent, Queued, Range
  <2>3. Pool!Close
    BY <1>3, <2>2 DEF BeginDestroy, Pool!Close, RunningUntilDestroyed, Queued
  <2>4. QED
    BY <2>1, <2>3 DEF Pool!Next
<1>4. CASE Join
  BY <1>4 DEF Join, OnePlace, RunningUntilDestroyed, Queued, Executing,
     NoDuplicates, Pool!poolvars
<1>5. ASSUME NEW w \in Workers, Sleep(w) PROVE Goal
  BY <1>0, <1>5 DEF Sleep
<1>6. ASSUME NEW w \in Workers, Take(w) PROVE Goal
  <2> DEFINE i == Head(work_queue)
  <2>1. /\ work_queue \in Seq(Items) /\ work_queue # <<>>
        /\ work_queue' = Tail(work_queue)
        /\ executing \in [Workers -> Items \cup {Idle}]
        /\ executing' = [executing EXCEPT ![w] = i]
        /\ executing[w] = Idle
        /\ UNCHANGED <<running, owner, scheduled>>
    BY <1>6 DEF Take, Awaiting, TypeOK
  <2>2. /\ i \in Queued /\ Queued' = Queued \ {i}
        /\ NoDuplicates(work_queue')
    BY <2>1, RangeOfTail DEF OnePlace, Queued
  <2>3. i \in Items /\ i # Idle /\ i \notin Executing
    BY <2>1, <2>2 DEF OnePlace
  <2>4. Executing' = Executing \cup {i}
    BY <2>1, <2>3 DEF Executing
  <2>5. OnePlace' /\ RunningUntilDestroyed'
    BY <2>1, <2>2, <2>3, <2>4
       DEF OnePlace, RunningUntilDestroyed, Executing
  <2>6. Pool!Start(w)
    BY <2>1, <2>2 DEF Pool!Start
  <2>7. QED
    BY <2>5, <2>6 DEF Pool!Next
<1>7. ASSUME NEW w \in Workers, Exit(w) PROVE Goal
  BY <1>0, <1>7 DEF Exit
<1>8. ASSUME NEW w \in Workers, Return(w) PROVE Goal
  <2>1. /\ executing' = [executing EXCEPT ![w] = Idle]
        /\ executing[w] # Idle
        /\ executing \in [Workers -> Items \cup {Idle}]
        /\ UNCHANGED <<work_queue, running, owner, scheduled>>
    BY <1>8 DEF Return, TypeOK
  <2>2. Executing' \subseteq Executing /\ Queued' = Queued
    BY <2>1 DEF Executing, Queued
  <2>3. OnePlace' /\ RunningUntilDestroyed'
    BY <2>1, <2>2 DEF OnePlace, RunningUntilDestroyed, NoDuplicates
  <2>4. Pool!Finish(w)
    BY <2>1, <2>2 DEF Pool!Finish
  <2>5. QED
    BY <2>3, <2>4 DEF Pool!Next
<1>9. CASE UNCHANGED vars
  BY <1>0, <1>9 DEF vars
<1>10. QED
  BY <1>1, <1>2, <1>3, <1>4, <1>5, <1>6, <1>7, <1>8, <1>9
     DEF Next, DoWork, Spawn, OwnerSchedules, Destroyed, Threads

\* ThreadPool implements WorkPool: an item handed to the pool is in its queue
\* or with one worker until it has been executed, and never comes back.
THEOREM PoolRefinement == Spec => PoolSpec
<1>1. Init => OnePlace /\ RunningUntilDestroyed
  BY DEF Init, OnePlace, RunningUntilDestroyed, NoDuplicates, Queued,
     Executing, Range
<1>2. Init => Pool!Init
  BY DEF Init, Pool!Init, Queued, Range
<1>3. TypeOK /\ TypeOK' /\ OnePlace /\ RunningUntilDestroyed /\ [Next]_vars
      => /\ OnePlace' /\ RunningUntilDestroyed'
         /\ [Pool!Next]_(Pool!poolvars)
  BY PoolStep DEF PoolInv
<1>4. QED
  BY <1>1, <1>2, <1>3, TypeCorrect, PTL DEF Spec, PoolSpec, Pool!Spec
-----------------------------------------------------------------------------
\* thread_pool.cc:30-39, 44-48, 54-81 over mutex.h: a worker falls asleep only when nothing waits and
\* the pool runs, and whoever changes that has yet to notify; what a notify_all() in
\* between could miss is a sleeper that came later, and it has looked for itself.
THEOREM WakeupKept == Spec => []NoLostWakeup
<1>1. Init => NoLostWakeup
  BY DEF Init, NoLostWakeup
<1>2. NoLostWakeup /\ [Next]_vars => NoLostWakeup'
  <2> SUFFICES ASSUME NoLostWakeup, [Next]_vars PROVE NoLostWakeup'
    OBVIOUS
  <2>1. ASSUME NEW th \in Threads, NotifyAll(th) PROVE asleep' = {}
    BY <2>1 DEF NotifyAll
  <2>2. ASSUME NEW th \in Threads, NEW i \in Items, Schedule(th, i) PROVE NoLostWakeup'
    BY <2>2 DEF Schedule, NoLostWakeup
  <2>3. CASE BeginDestroy
    BY <2>3 DEF BeginDestroy, NoLostWakeup
  <2>4. ASSUME NEW w \in Workers, Sleep(w) PROVE work_queue' = <<>> /\ running'
    BY <2>4 DEF Sleep
  <2>5. ASSUME NEW w \in Workers, Take(w) \/ Exit(w) PROVE notifying' # {}
    BY <2>5 DEF Take, Exit
  <2>6. CASE UNCHANGED <<work_queue, running, asleep, notifying>>
    BY <2>6 DEF NoLostWakeup
  <2> QED
    BY ItemsAssumption, <2>1, <2>2, <2>3, <2>4, <2>5, <2>6
       DEF Next, OwnerSchedules, Join, DoWork, Spawn, Return, Destroyed, vars, NoLostWakeup,
           Threads, ItemsAssumption
<1>3. QED
  BY <1>1, <1>2, PTL DEF Spec
=============================================================================
