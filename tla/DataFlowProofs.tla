--------------------------- MODULE DataFlowProofs ---------------------------
(***************************************************************************)
(* What is proved of parts of DataFlow, for any number of threads, submaps,*)
(* nodes and values: a part that moves takes its own steps, and one that   *)
(* does not stands still, so what its specification implies holds here.    *)
(* The builder's theorems are those of ConstraintBuilderProofs; the        *)
(* inductive invariants of the blocking queue and of the optimization      *)
(* problem are here.                                                       *)
(***************************************************************************)
EXTENDS DataFlow, SequenceTheorems, WellFoundedInduction, TLAPS

flowVars == <<part, vars, builderVars, pipelineVars, floorVars, queueVars, cloudVars,
              problemVars>>

BuilderProofs == INSTANCE ConstraintBuilderProofs
                    WITH Idle <- IdleWorker, failed <- builder_failed
-----------------------------------------------------------------------------
(* The builder of the run is the builder of ConstraintBuilderProofs.        *)

LEMMA BuilderDefs ==
    /\ Builder!ConstantsOK <=> BuilderProofs!ConstantsOK
    /\ Builder!Init <=> BuilderProofs!Init
    /\ Builder!Unfinished = BuilderProofs!Unfinished
BY DEF Builder!ConstantsOK, BuilderProofs!ConstantsOK, Builder!Init, BuilderProofs!Init,
       Builder!Unfinished, BuilderProofs!Unfinished, Builder!Computations, BuilderProofs!Computations,
       Builder!Constraint, BuilderProofs!Constraint, Builder!Call, BuilderProofs!Call,
       Builder!Tasks, BuilderProofs!Tasks, Builder!ComputeTasks, BuilderProofs!ComputeTasks,
       Builder!ConstructTasks, BuilderProofs!ConstructTasks,
       Builder!FinishTasks, BuilderProofs!FinishTasks,
       Builder!Pool!Init, BuilderProofs!Pool!Init

\* Step by step, the two are the same.
LEMMA BuilderActions ==
    /\ \A s, n, g : Builder!AddComputation(s, n, g) <=> BuilderProofs!AddComputation(s, n, g)
    /\ \A c : Builder!WhenDone(c) <=> BuilderProofs!WhenDone(c)
    /\ Builder!NotifyEndOfScan <=> BuilderProofs!NotifyEndOfScan
    /\ \A w : Builder!Start(w) <=> BuilderProofs!Start(w)
    /\ \A w : Builder!ConstructSubmapScanMatcher(w)
              <=> BuilderProofs!ConstructSubmapScanMatcher(w)
    /\ \A w, match : Builder!ComputeConstraint(w, match)
                     <=> BuilderProofs!ComputeConstraint(w, match)
    /\ \A w : Builder!FinishComputation(w) <=> BuilderProofs!FinishComputation(w)
    /\ \A w : Builder!ReturnFromCallback(w) <=> BuilderProofs!ReturnFromCallback(w)
<1> USE DEF Builder!matchvars, BuilderProofs!matchvars, Builder!clientvars,
            BuilderProofs!clientvars, Builder!poolvars, BuilderProofs!poolvars,
            Builder!Executes, BuilderProofs!Executes
<1>1. \A s, n, g : Builder!AddComputation(s, n, g) <=> BuilderProofs!AddComputation(s, n, g)
  BY DEF Builder!AddComputation, BuilderProofs!AddComputation, Builder!ScheduleOrQueue,
     BuilderProofs!ScheduleOrQueue, Builder!Pool!Schedule, BuilderProofs!Pool!Schedule
<1>2. \A c : Builder!WhenDone(c) <=> BuilderProofs!WhenDone(c)
  BY DEF Builder!WhenDone, BuilderProofs!WhenDone, Builder!Pool!Schedule,
     BuilderProofs!Pool!Schedule
<1>3. Builder!NotifyEndOfScan <=> BuilderProofs!NotifyEndOfScan
  BY DEF Builder!NotifyEndOfScan, BuilderProofs!NotifyEndOfScan
<1>4. \A w : Builder!Start(w) <=> BuilderProofs!Start(w)
  BY DEF Builder!Start, BuilderProofs!Start, Builder!Pool!Start, BuilderProofs!Pool!Start
<1>5. \A w : Builder!ConstructSubmapScanMatcher(w)
             <=> BuilderProofs!ConstructSubmapScanMatcher(w)
  BY DEF Builder!ConstructSubmapScanMatcher, BuilderProofs!ConstructSubmapScanMatcher
<1>6. \A w, match : Builder!ComputeConstraint(w, match)
                    <=> BuilderProofs!ComputeConstraint(w, match)
  BY DEF Builder!ComputeConstraint, BuilderProofs!ComputeConstraint
<1>7. \A w : Builder!FinishComputation(w) <=> BuilderProofs!FinishComputation(w)
  BY DEF Builder!FinishComputation, BuilderProofs!FinishComputation, Builder!LastPending,
     BuilderProofs!LastPending, Builder!Left, BuilderProofs!Left, Builder!Found,
     BuilderProofs!Found, Builder!Pool!Finish, BuilderProofs!Pool!Finish,
     Builder!Computations, BuilderProofs!Computations
<1>8. \A w : Builder!ReturnFromCallback(w) <=> BuilderProofs!ReturnFromCallback(w)
  BY DEF Builder!ReturnFromCallback, BuilderProofs!ReturnFromCallback, Builder!Pool!Finish,
     BuilderProofs!Pool!Finish
<1> QED
  BY <1>1, <1>2, <1>3, <1>4, <1>5, <1>6, <1>7, <1>8

LEMMA BuilderNextIs == Builder!Next <=> BuilderProofs!Next
<1>1. \A s, n : /\ Builder!MaybeAddConstraint(s, n) <=> BuilderProofs!MaybeAddConstraint(s, n)
                /\ Builder!MaybeAddGlobalConstraint(s, n)
                   <=> BuilderProofs!MaybeAddGlobalConstraint(s, n)
  BY BuilderActions
     DEF Builder!MaybeAddConstraint, BuilderProofs!MaybeAddConstraint,
         Builder!MaybeAddGlobalConstraint, BuilderProofs!MaybeAddGlobalConstraint,
         Builder!vars, BuilderProofs!vars, Builder!clientvars, BuilderProofs!clientvars,
         Builder!matchvars, BuilderProofs!matchvars, Builder!poolvars,
         BuilderProofs!poolvars
<1>2. Builder!Client <=> BuilderProofs!Client
  BY <1>1, BuilderActions DEF Builder!Client, BuilderProofs!Client
<1>3. \A w : Builder!Worker(w) <=> BuilderProofs!Worker(w)
  BY BuilderActions DEF Builder!Worker, BuilderProofs!Worker
<1> QED
  BY <1>2, <1>3 DEF Builder!Next, BuilderProofs!Next

\* The run moves the builder by the builder's own steps.
LEMMA BuilderStep == [FlowNext]_flowVars => [BuilderProofs!Next]_BuilderProofs!vars
<1>1. BuilderNext => Builder!Next
  BY DEF BuilderNext
<1>2. UNCHANGED builderVars => UNCHANGED BuilderProofs!vars
  BY DEF builderVars, BuilderProofs!vars, BuilderProofs!clientvars, BuilderProofs!matchvars,
         BuilderProofs!poolvars
<1>3. FlowNext => BuilderNext \/ UNCHANGED builderVars
  BY DEF FlowNext, CollatorNext, PipelineNext, FloorsNext, QueueNext, CloudNext, ProblemNext,
         Ended
<1>4. UNCHANGED flowVars => UNCHANGED builderVars
  BY DEF flowVars
<1> QED
  BY <1>1, <1>2, <1>3, <1>4, BuilderNextIs

LEMMA BuilderBehaves == FlowSpec => BuilderProofs!Spec
<1>1. FlowInit => BuilderProofs!Init
  BY BuilderDefs DEF FlowInit
<1>2. FlowSpec => FlowInit /\ [][FlowNext]_flowVars
  BY PTL DEF FlowSpec, flowVars
<1> QED
  BY <1>1, <1>2, BuilderStep, PTL DEF BuilderProofs!Spec
-----------------------------------------------------------------------------
(* ConstraintBuilder.                                                       *)

LEMMA TrackedIs == BuilderProofs!ComputationsTracked => ComputationsTracked
<1>1. BuilderProofs!PendingCounts => Builder!PendingCounts
  BY BuilderDefs
     DEF Builder!PendingCounts, BuilderProofs!PendingCounts, Builder!Counted,
         BuilderProofs!Counted, Builder!Computations, BuilderProofs!Computations,
         Builder!Cardinality, BuilderProofs!Cardinality
<1>2. BuilderProofs!OwnSlot => Builder!OwnSlot
  BY BuilderDefs DEF Builder!OwnSlot, BuilderProofs!OwnSlot
<1>3. BuilderProofs!MatcherStable => Builder!MatcherStable
  BY BuilderDefs
     DEF Builder!MatcherStable, BuilderProofs!MatcherStable, Builder!Pool!Executing,
         BuilderProofs!Pool!Executing
<1> QED
  BY <1>1, <1>2, <1>3
     DEF ComputationsTracked, Builder!ComputationsTracked, BuilderProofs!ComputationsTracked

LEMMA BuilderConstantsOK == BuilderProofs!ConstantsOK
BY BuilderAssumption, BuilderDefs

\* constraint_builder.cc:72-84, 131-149, 245-275: whatever the order in which the workers
\* end them, the computations are counted scan by scan, keep the slot they were given and
\* find the scan matcher they need.
THEOREM BuilderTracks == FlowSpec => []ComputationsTracked
<1>1. BuilderProofs!Spec => [](BuilderProofs!ComputationsTracked /\ BuilderProofs!NoCheckFails)
  BY BuilderConstantsOK, BuilderProofs!TrackedAlways
<1> QED
  BY <1>1, BuilderBehaves, TrackedIs, PTL

\* What the callbacks get and the count of the scans, read off either builder.
LEMMA ReportedIs == BuilderProofs!ComputationsReported => ComputationsReported
<1>1. [\A w \in Workers : call[w] = None /\ call'[w] # None =>
          /\ \A t \in BuilderProofs!Unfinished : t.kind = "construct" \/ t = executing[w]
          /\ \A i \in DOMAIN constraints :
                constraints[i] \in call'[w].result \cup {None}
          /\ constraints' = <<>>]_BuilderProofs!vars
      => [\A w \in Workers : call[w] = None /\ call'[w] # None =>
          /\ \A t \in Builder!Unfinished : t.kind = "construct" \/ t = executing[w]
          /\ \A i \in DOMAIN constraints :
                constraints[i] \in call'[w].result \cup {None}
          /\ constraints' = <<>>]_Builder!vars
  BY BuilderDefs
     DEF Builder!vars, BuilderProofs!vars, Builder!clientvars, BuilderProofs!clientvars,
         Builder!matchvars, BuilderProofs!matchvars, Builder!poolvars,
         BuilderProofs!poolvars
<1>2. BuilderProofs!ResultsComplete => Builder!ResultsComplete
  BY <1>1, PTL DEF Builder!ResultsComplete, BuilderProofs!ResultsComplete
<1>3. [BuilderProofs!GetNumFinishedScans' >= BuilderProofs!GetNumFinishedScans]_BuilderProofs!vars
      => [Builder!GetNumFinishedScans' >= Builder!GetNumFinishedScans]_Builder!vars
  BY DEF Builder!vars, BuilderProofs!vars, Builder!clientvars, BuilderProofs!clientvars,
         Builder!matchvars, BuilderProofs!matchvars, Builder!poolvars,
         BuilderProofs!poolvars, Builder!GetNumFinishedScans,
         BuilderProofs!GetNumFinishedScans, Builder!PendingScans,
         BuilderProofs!PendingScans, Builder!Computations, BuilderProofs!Computations
<1>4. BuilderProofs!FinishedScansMonotone => Builder!FinishedScansMonotone
  BY <1>3, PTL DEF Builder!FinishedScansMonotone, BuilderProofs!FinishedScansMonotone
<1> QED
  BY <1>2, <1>4
     DEF ComputationsReported, Builder!ComputationsReported,
         BuilderProofs!ComputationsReported

\* constraint_builder.cc:245-275, constraint_builder.h:102-106: a callback comes only when
\* every computation before it has ended, gets every constraint found, and leaves none for
\* the next; and the number of finished scans never goes back.
THEOREM BuilderReports == FlowSpec => ComputationsReported
<1>1. BuilderProofs!Spec => BuilderProofs!ComputationsReported
  BY BuilderConstantsOK, BuilderProofs!ReportedAlways
<1> QED
  BY <1>1, BuilderBehaves, ReportedIs, PTL
-----------------------------------------------------------------------------
(* BlockingQueue.                                                           *)

\* What is in the deque follows what was returned; who sleeps is in a call, and it is
\* notified when its condition holds.
BlockingInv ==
    /\ queue_size_ \in Nat
    /\ pushed \in Nat /\ returned \in Seq(Nat) /\ deque_ \in Seq(Nat)
    /\ Len(returned) + Len(deque_) = pushed
    /\ \A i \in 1..Len(returned) : returned[i] = i
    /\ \A i \in 1..Len(deque_) : deque_[i] = Len(returned) + i
    /\ queue_size_ # Blocking!kInfiniteQueueSize => Len(deque_) <= queue_size_
    /\ calls \in [Threads -> Blocking!Pushes \cup Blocking!Pops \cup {"none"}]
    /\ asleep \subseteq Threads
    /\ \A th \in asleep : calls[th] # "none"
    /\ Blocking!WaitersWoken

LEMMA BlockingStarts == FlowInit => BlockingInv
<1> SUFFICES ASSUME FlowInit PROVE BlockingInv
  OBVIOUS
<1>1. /\ Blocking!Init
      /\ queue_size_ \in Nat
  BY CapacitiesAssumption DEF FlowInit, Blocking!Init
<1>2. <<>> \in Seq(Nat) /\ Len(<<>>) = 0
  OBVIOUS
<1> QED
  BY <1>1, <1>2 DEF BlockingInv, Blocking!Init, Blocking!WaitersWoken

\* A call does its work when its condition holds.
LEMMA BlockingPerforms ==
    ASSUME BlockingInv, NEW th \in Threads, calls[th] # "none", Blocking!Return(th)
    PROVE  /\ pushed' \in Nat /\ returned' \in Seq(Nat) /\ deque_' \in Seq(Nat)
           /\ Len(returned') + Len(deque_') = pushed'
           /\ \A i \in 1..Len(returned') : returned'[i] = i
           /\ \A i \in 1..Len(deque_') : deque_'[i] = Len(returned') + i
           /\ queue_size_ # Blocking!kInfiniteQueueSize => Len(deque_') <= queue_size_
<1>1. CASE Blocking!PushBack /\ Blocking!QueueNotFullCondition
  <2>1. PICK n, m : n = Len(deque_) /\ m = Len(returned)
    OBVIOUS
  <2>2. /\ n \in Nat /\ m \in Nat /\ m + n = pushed /\ returned \in Seq(Nat)
        /\ \A i \in 1..m : returned[i] = i
        /\ \A i \in 1..n : deque_[i] = m + i
    BY <2>1 DEF BlockingInv
  <2>3. /\ Len(deque_') = n + 1 /\ deque_' \in Seq(Nat)
        /\ deque_'[n + 1] = pushed + 1
        /\ \A i \in 1..n : deque_'[i] = deque_[i]
        /\ pushed' = pushed + 1 /\ returned' = returned /\ pushed' \in Nat
    BY <1>1, <2>1 DEF Blocking!PushBack, BlockingInv
  <2>4. ASSUME NEW i \in 1..(n + 1) PROVE deque_'[i] = m + i
    <3>1. CASE i = n + 1
      BY <2>2, <2>3, <3>1
    <3>2. CASE i \in 1..n
      BY <2>2, <2>3, <3>2
    <3> QED
      BY <2>2, <3>1, <3>2
  <2>5. queue_size_ # Blocking!kInfiniteQueueSize => n + 1 <= queue_size_
    BY <1>1, <2>1, <2>2 DEF BlockingInv, Blocking!QueueNotFullCondition
  <2>6. Len(returned') = m /\ m + (n + 1) = pushed'
    BY <2>1, <2>2, <2>3 DEF BlockingInv
  <2> QED
    BY <2>2, <2>3, <2>4, <2>5, <2>6
<1>2. CASE Blocking!PopFront /\ deque_ # <<>>
  <2>1. PICK n, m : n = Len(deque_) /\ m = Len(returned)
    OBVIOUS
  <2>2. /\ n \in Nat \ {0} /\ m \in Nat /\ m + n = pushed /\ Head(deque_) = m + 1
        /\ \A i \in 1..m : returned[i] = i
        /\ \A i \in 1..n : deque_[i] = m + i
        /\ queue_size_ # Blocking!kInfiniteQueueSize => n <= queue_size_
        /\ queue_size_ \in Nat
    BY <1>2, <2>1 DEF BlockingInv
  <2>3. /\ Len(deque_') = n - 1 /\ deque_' \in Seq(Nat)
        /\ \A i \in 1..(n - 1) : deque_'[i] = deque_[i + 1]
    BY <1>2, <2>1, <2>2 DEF Blocking!PopFront, BlockingInv
  <2>4. /\ Len(returned') = m + 1 /\ returned' \in Seq(Nat) /\ pushed' = pushed
        /\ returned'[m + 1] = m + 1
        /\ \A i \in 1..m : returned'[i] = returned[i]
    BY <1>2, <2>1, <2>2 DEF Blocking!PopFront, BlockingInv
  <2>5. ASSUME NEW i \in 1..(n - 1) PROVE deque_'[i] = (m + 1) + i
    <3>1. i + 1 \in 1..n /\ deque_[i + 1] = m + (i + 1)
      BY <2>2
    <3> QED
      BY <2>2, <2>3, <3>1
  <2>6. ASSUME NEW i \in 1..(m + 1) PROVE returned'[i] = i
    <3>1. CASE i = m + 1
      BY <2>4, <3>1
    <3>2. CASE i \in 1..m
      BY <2>2, <2>4, <3>2
    <3> QED
      BY <2>2, <3>1, <3>2
  <2>7. pushed' \in Nat /\ (m + 1) + (n - 1) = pushed'
    BY <2>2, <2>4
  <2>8. queue_size_ # Blocking!kInfiniteQueueSize => n - 1 <= queue_size_
    BY <2>2
  <2> QED
    BY <2>3, <2>4, <2>5, <2>6, <2>7, <2>8
<1>3. calls[th] \in Blocking!Pushes \/ calls[th] \in Blocking!Pops
  BY DEF BlockingInv
<1>4. \/ calls[th] \in Blocking!Pushes /\ calls[th] \notin Blocking!Pops
      \/ calls[th] \in Blocking!Pops /\ calls[th] \notin Blocking!Pushes
  BY <1>3 DEF Blocking!Pushes, Blocking!Pops
<1> QED
  BY <1>1, <1>2, <1>4
     DEF Blocking!Return, Blocking!Perform, Blocking!Condition,
         Blocking!QueueNotEmptyCondition

LEMMA BlockingStep ==
    ASSUME BlockingInv, Blocking!Next
    PROVE  BlockingInv'
<1> PICK th \in Threads :
       \/ \E c \in Blocking!Pushes \cup Blocking!Pops : Blocking!Call(th, c)
       \/ Blocking!ReturnAtOnce(th)
       \/ Blocking!Sleep(th)
       \/ Blocking!TimeOut(th)
       \/ Blocking!ReturnLate(th)
       \/ Blocking!NotifyAll(th)
  BY DEF Blocking!Next
<1>1. ASSUME NEW c \in Blocking!Pushes \cup Blocking!Pops, Blocking!Call(th, c)
      PROVE  BlockingInv'
  <2>1. /\ calls[th] = "none" /\ calls' = [calls EXCEPT ![th] = c] /\ c # "none"
        /\ UNCHANGED <<queue_size_, deque_, asleep, notifying, pushed, returned>>
    BY <1>1 DEF Blocking!Call, Blocking!Pushes, Blocking!Pops
  <2>2. th \notin asleep
    BY <2>1 DEF BlockingInv
  <2>3. \A o \in asleep : calls'[o] = calls[o]
    BY <2>1, <2>2 DEF BlockingInv
  <2> QED
    BY <2>1, <2>2, <2>3
       DEF BlockingInv, Blocking!WaitersWoken, Blocking!Condition,
           Blocking!QueueNotFullCondition, Blocking!QueueNotEmptyCondition
<1>2. CASE Blocking!ReturnAtOnce(th) \/ Blocking!ReturnLate(th)
  <2>1. /\ calls[th] # "none" /\ Blocking!Return(th)
        /\ asleep' = asleep \/ asleep' = asleep \ {th}
        /\ th \notin asleep'
    BY <1>2 DEF Blocking!ReturnAtOnce, Blocking!ReturnLate, Blocking!Awaiting, BlockingInv
  <2>2. /\ calls' = [calls EXCEPT ![th] = "none"]
        /\ notifying' # {}
        /\ queue_size_' = queue_size_
    BY <2>1 DEF Blocking!Return
  <2>3. \A o \in asleep' : calls'[o] = calls[o] /\ o \in asleep
    BY <2>1, <2>2 DEF BlockingInv
  <2> QED
    BY <2>1, <2>2, <2>3, BlockingPerforms DEF BlockingInv, Blocking!WaitersWoken
<1>3. CASE Blocking!Sleep(th)
  BY <1>3
     DEF BlockingInv, Blocking!Sleep, Blocking!Awaiting, Blocking!WaitersWoken,
         Blocking!Condition, Blocking!QueueNotFullCondition, Blocking!QueueNotEmptyCondition
<1>4. CASE Blocking!TimeOut(th)
  <2>1. /\ calls' = [calls EXCEPT ![th] = "none"] /\ asleep' = asleep \ {th}
        /\ notifying' # {}
        /\ UNCHANGED <<queue_size_, deque_, pushed, returned>>
    BY <1>4 DEF Blocking!TimeOut
  <2> QED
    BY <2>1 DEF BlockingInv, Blocking!WaitersWoken
<1>5. CASE Blocking!NotifyAll(th)
  BY <1>5 DEF Blocking!NotifyAll, BlockingInv, Blocking!WaitersWoken
<1> QED
  BY <1>1, <1>2, <1>3, <1>4, <1>5

\* blocking_queue.h:44-102, mutex.h:52-79: whatever pushes, pops and timeouts come in
\* between, no thread sleeps on when its condition holds and nobody is about to notify it;
\* the values come out in the order they went in, each once, and the queue keeps its size.
THEOREM BlockingKept == FlowSpec => []BlockingExact
<1>1. FlowInit => BlockingInv
  BY BlockingStarts
<1>2. BlockingInv /\ [FlowNext]_flowVars => BlockingInv'
  <2> SUFFICES ASSUME BlockingInv, [FlowNext]_flowVars PROVE BlockingInv'
    OBVIOUS
  <2>1. CASE QueueNext
    BY <2>1, BlockingStep DEF QueueNext
  <2>2. CASE UNCHANGED queueVars
    BY <2>2
       DEF queueVars, BlockingInv, Blocking!WaitersWoken, Blocking!Condition,
           Blocking!QueueNotFullCondition, Blocking!QueueNotEmptyCondition
  <2>3. QueueNext \/ UNCHANGED queueVars
    BY DEF FlowNext, flowVars, CollatorNext, BuilderNext, PipelineNext, FloorsNext,
           CloudNext, ProblemNext, Ended
  <2> QED
    BY <2>1, <2>2, <2>3
<1>3. BlockingInv => BlockingExact
  <2> SUFFICES ASSUME BlockingInv
               PROVE  returned \o deque_ = [i \in 1..pushed |-> i]
    BY DEF BlockingInv, BlockingExact, Blocking!BlockingExact, Blocking!FirstInFirstOut
  <2>1. PICK n, m : n = Len(deque_) /\ m = Len(returned)
    OBVIOUS
  <2>2. n \in Nat /\ m \in Nat /\ m + n = pushed
    BY <2>1 DEF BlockingInv
  <2>3. /\ returned \in Seq(Nat) /\ deque_ \in Seq(Nat)
        /\ \A i \in 1..m : returned[i] = i
        /\ \A i \in 1..n : deque_[i] = m + i
    BY <2>1 DEF BlockingInv
  <2>4. PICK both : both = returned \o deque_
    OBVIOUS
  <2>5. /\ both \in Seq(Nat) /\ Len(both) = m + n
        /\ \A i \in 1..m : both[i] = returned[i]
        /\ \A i \in (m + 1)..(m + n) : both[i] = deque_[i - m]
    BY <2>1, <2>2, <2>3, <2>4
  <2>6. ASSUME NEW i \in 1..(m + n) PROVE both[i] = i
    <3>1. CASE i \in 1..m
      BY <2>3, <2>5, <3>1
    <3>2. CASE i \in (m + 1)..(m + n)
      <4>1. i - m \in 1..n
        BY <2>2, <3>2
      <4> QED
        BY <2>2, <2>3, <2>5, <3>2, <4>1
    <3> QED
      BY <2>2, <3>1, <3>2
  <2>7. both = [i \in DOMAIN both |-> both[i]] /\ DOMAIN both = 1..(m + n)
    BY <2>2, <2>5
  <2> QED
    BY <2>2, <2>4, <2>6, <2>7
<1>4. FlowSpec => FlowInit /\ [][FlowNext]_flowVars
  BY PTL DEF FlowSpec, flowVars
<1> QED
  BY <1>1, <1>2, <1>3, <1>4, PTL
-----------------------------------------------------------------------------
(* OptimizationProblem: which IMU data reach the solver.                    *)

LEMMA LeastOf ==
    ASSUME NEW S \in SUBSET Nat, S # {}
    PROVE  \E k \in S : \A j \in S : k <= j
<1>1. PICK k \in S : \A j \in S : <<j, k>> \notin OpToRel(<, Nat)
  BY WFMin, NatLessThanWellFounded, Zenon
<1>2. \A j \in S : ~(j < k)
  BY <1>1, Zenon DEF OpToRel
<1>3. \A j \in S : j \in Nat
  OBVIOUS
<1>4. \A j \in S : k <= j
  BY <1>2, <1>3
<1> QED
  BY <1>4, Zenon

Increasing(data) ==
    data \in Seq(Int) /\ \A j, k \in DOMAIN data : j < k => data[j] < data[k]

\* Datum k is the newest at a time.
NewestAt(data, k, time) ==
    k \in DOMAIN data /\ data[k] <= time /\ (k < Len(data) => data[k + 1] > time)

\* From a datum that is old enough on, the data become too new somewhere, or end.
LEMMA NewestFound ==
    ASSUME NEW data \in Seq(Int), NEW it \in DOMAIN data, NEW time \in Int
    PROVE  \E k \in it..Len(data) : /\ \A j \in it + 1..k : data[j] <= time
                                    /\ k < Len(data) => data[k + 1] > time
<1> DEFINE n == Len(data)
           S == {k \in it..n : k < n => data[k + 1] > time}
<1>1. n \in Nat /\ DOMAIN data = 1..n /\ it \in 1..n /\ \A k \in 1..n : data[k] \in Int
  OBVIOUS
<1> HIDE DEF n
<1>2. S \in SUBSET Nat /\ n \in S
  BY <1>1
<1>3. PICK k \in S : \A j \in S : k <= j
  BY <1>2, LeastOf
<1>4. ASSUME NEW j \in it + 1..k PROVE data[j] <= time
  <2>1. k \in it..n
    BY <1>3
  <2>2. j - 1 \in it..n /\ j - 1 < n /\ ~(k <= j - 1) /\ j \in 1..n /\ (j - 1) + 1 = j
    BY <1>1, <2>1
  <2>3. j - 1 \notin S
    BY <1>3, <2>2
  <2>4. ~(data[(j - 1) + 1] > time)
    BY <2>2, <2>3
  <2> QED
    BY <1>1, <2>2, <2>4
<1>5. k \in it..n /\ (k < n => data[k + 1] > time)
  BY <1>3
<1> QED
  BY <1>4, <1>5 DEF n

\* imu_integration.h: the iterator ends at the newest datum.
LEMMA AdvancedToNewest ==
    ASSUME NEW data \in Seq(Int), NEW it, NEW start \in Int, NEW end \in Int,
           NewestAt(data, it, start), start <= end
    PROVE  /\ Problem!Advanced(data, it, start, end) \in it..Len(data)
           /\ NewestAt(data, Problem!Advanced(data, it, start, end), end)
<1>1. /\ Len(data) \in Nat /\ it \in 1..Len(data) /\ DOMAIN data = 1..Len(data)
      /\ \A k \in 1..Len(data) : data[k] \in Int
      /\ data[it] <= start
  BY DEF NewestAt
<1>2. CASE start = end
  BY <1>1, <1>2 DEF Problem!Advanced
<1>3. CASE start # end
  <2> DEFINE P(k) == /\ \A j \in it + 1..k : data[j] <= end
                     /\ k < Len(data) => data[k + 1] > end
             found == CHOOSE k \in it..Len(data) : P(k)
  <2>1. \E k \in it..Len(data) : P(k)
    BY <1>1, NewestFound
  <2>2. found \in it..Len(data) /\ P(found)
    BY <2>1, Zenon
  <2>3. Problem!Advanced(data, it, start, end) = found
    BY <1>3 DEF Problem!Advanced
  <2> HIDE DEF found
  <2>4. data[found] <= end /\ found \in 1..Len(data)
    BY <1>1, <2>2
  <2> QED
    BY <1>1, <2>2, <2>3, <2>4 DEF NewestAt
<1> QED
  BY <1>2, <1>3

\* optimization_problem.cc: so does the one that skips what is older than the first node.
LEMMA SkippedToNewest ==
    ASSUME NEW data \in Seq(Int), NEW time \in Int, data # <<>>, data[1] <= time
    PROVE  NewestAt(data, Problem!Skipped(data, time), time)
<1>1. /\ Len(data) \in Nat /\ 1 \in DOMAIN data /\ DOMAIN data = 1..Len(data)
      /\ \A k \in 1..Len(data) : data[k] \in Int
  OBVIOUS
<1> DEFINE P(k) == /\ \A j \in 2..k : data[j] <= time
                   /\ k < Len(data) => data[k + 1] > time
           found == CHOOSE k \in DOMAIN data : P(k)
<1>2. \E k \in 1..Len(data) : P(k)
  <2>1. PICK k \in 1..Len(data) : /\ \A j \in 1 + 1..k : data[j] <= time
                                  /\ k < Len(data) => data[k + 1] > time
    BY <1>1, NewestFound
  <2> QED
    BY <2>1
<1>3. found \in DOMAIN data /\ P(found)
  BY <1>1, <1>2, Zenon
<1>4. Problem!Skipped(data, time) = found
  BY DEF Problem!Skipped
<1> HIDE DEF found
<1>5. data[found] <= time
  BY <1>1, <1>3
<1> QED
  BY <1>1, <1>3, <1>4, <1>5 DEF NewestAt

\* Where the iterators are, in the order of the nodes.
AreIterators(its, imu, times) ==
    its = [i \in DOMAIN times |->
              IF i = 1 THEN Problem!Skipped(imu, times[1])
              ELSE Problem!Advanced(imu, its[i - 1], times[i - 1], times[i])]

InOrder(times) ==
    times \in Seq(Int) /\ \A j, k \in DOMAIN times : j <= k => times[j] <= times[k]

\* The iterator in front of node i, when it is its[i - 1] in front of the one before.
IteratorAt(its, imu, times, i) ==
    IF i = 1 THEN Problem!Skipped(imu, times[1])
    ELSE Problem!Advanced(imu, its[i - 1], times[i - 1], times[i])

\* One more node is visited with one more iterator.
LEMMA IteratorsExist ==
    ASSUME NEW imu, NEW times \in Seq(Int)
    PROVE  \E its : its = [i \in DOMAIN times |-> IteratorAt(its, imu, times, i)]
<1> DEFINE UpTo(its, n) == its = [i \in 1..n |-> IteratorAt(its, imu, times, i)]
           Bad == {n \in Nat : ~ \E its : UpTo(its, n)}
<1>1. 0 \notin Bad
  <2> DEFINE none == [i \in 1..0 |-> 0]
  <2>1. none = [i \in 1..0 |-> IteratorAt(none, imu, times, i)]
    <3>1. 1..0 = {}
      OBVIOUS
    <3> QED
      BY <3>1
  <2> HIDE DEF none
  <2> QED
    BY <2>1
<1>2. ASSUME NEW n \in Nat, n \notin Bad
      PROVE  n + 1 \notin Bad
  <2>1. PICK its : UpTo(its, n)
    BY <1>2
  <2> DEFINE more == [i \in 1..n + 1 |-> IF i = n + 1 THEN IteratorAt(its, imu, times, i)
                                         ELSE its[i]]
  <2>2. \A i \in 1..n + 1 : more[i] = IteratorAt(more, imu, times, i)
    <3> SUFFICES ASSUME NEW i \in 1..n + 1
                 PROVE  more[i] = IteratorAt(more, imu, times, i)
      OBVIOUS
    <3>1. more[i] = IteratorAt(its, imu, times, i)
      <4>1. CASE i = n + 1
        BY <4>1
      <4>2. CASE i # n + 1
        <5>1. i \in 1..n
          BY <4>2
        <5>2. its[i] = IteratorAt(its, imu, times, i)
          BY <2>1, <5>1, Zenon
        <5> QED
          BY <4>2, <5>2
      <4> QED
        BY <4>1, <4>2
    <3>2. i = 1 \/ (i - 1 \in 1..n /\ i - 1 \in 1..n + 1 /\ i - 1 # n + 1)
      OBVIOUS
    <3>3. i = 1 \/ more[i - 1] = its[i - 1]
      BY <3>2
    <3> HIDE DEF more
    <3> QED
      BY <3>1, <3>3 DEF IteratorAt
  <2>3. more = [i \in 1..n + 1 |-> more[i]]
    OBVIOUS
  <2> HIDE DEF more
  <2>4. UpTo(more, n + 1)
    BY <2>2, <2>3
  <2> QED
    BY <2>4
<1>3. Bad = {}
  <2> SUFFICES ASSUME Bad # {} PROVE FALSE
    OBVIOUS
  <2>1. Bad \in SUBSET Nat
    OBVIOUS
  <2>2. PICK n \in Bad : \A j \in Bad : n <= j
    BY <2>1, LeastOf
  <2>3. n \in Nat /\ n # 0
    BY <1>1, <2>2
  <2> HIDE DEF Bad
  <2>4. n - 1 \in Nat /\ n - 1 \notin Bad /\ (n - 1) + 1 = n
    BY <2>2, <2>3
  <2> QED
    BY <1>2, <2>2, <2>4
<1>4. Len(times) \in Nat /\ DOMAIN times = 1..Len(times)
  OBVIOUS
<1> QED
  BY <1>3, <1>4

\* The iterator that goes from node to node is at each node's newest datum.
LEMMA IteratorsAreNewest ==
    ASSUME NEW imu \in Seq(Int), NEW times, InOrder(times), imu # <<>>, times # <<>>,
           imu[1] <= times[1]
    PROVE  \A i \in DOMAIN times : NewestAt(imu, Problem!Iterators(imu, times)[i], times[i])
<1> DEFINE Are(f) == f = [i \in DOMAIN times |-> IteratorAt(f, imu, times, i)]
           its == CHOOSE f : Are(f)
           Bad == {i \in DOMAIN times : ~NewestAt(imu, its[i], times[i])}
<1>1. /\ times \in Seq(Int) /\ Len(times) \in Nat /\ DOMAIN times = 1..Len(times)
      /\ 1 \in DOMAIN times /\ \A i \in DOMAIN times : times[i] \in Int
  BY DEF InOrder
<1>2. Problem!Iterators(imu, times) = its
  BY DEF Problem!Iterators, IteratorAt
<1>3. Are(its)
  <2>1. \E f : Are(f)
    BY <1>1, IteratorsExist
  <2> QED
    BY <2>1, Zenon
<1>4. \A i \in DOMAIN times : its[i] = IteratorAt(its, imu, times, i)
  BY <1>3, Zenon
<1> HIDE DEF its
<1>5. Bad = {}
  <2> SUFFICES ASSUME Bad # {} PROVE FALSE
    OBVIOUS
  <2>1. Bad \in SUBSET Nat
    BY <1>1
  <2>2. PICK i \in Bad : \A j \in Bad : i <= j
    BY <2>1, LeastOf
  <2>3. i \in 1..Len(times) /\ ~NewestAt(imu, its[i], times[i])
    BY <1>1, <2>2
  <2>4. i # 1
    BY <1>1, <1>4, <2>3, SkippedToNewest DEF IteratorAt
  <2>5. i - 1 \in 1..Len(times) /\ i - 1 \notin Bad
    BY <1>1, <2>1, <2>2, <2>3, <2>4
  <2>6. NewestAt(imu, its[i - 1], times[i - 1])
    BY <1>1, <2>5
  <2>7. times[i - 1] <= times[i] /\ times[i - 1] \in Int /\ times[i] \in Int
    BY <1>1, <2>3, <2>5 DEF InOrder
  <2>8. its[i] = Problem!Advanced(imu, its[i - 1], times[i - 1], times[i])
    BY <1>1, <1>4, <2>3, <2>4 DEF IteratorAt
  <2> QED
    BY <2>3, <2>6, <2>7, <2>8, AdvancedToNewest
<1> QED
  BY <1>2, <1>5

\* imu_integration.h: when the iterator is at the newest datum, no CHECK fails.
LEMMA NewestCanIntegrate ==
    ASSUME NEW data, NEW it, NEW start, NEW end, NewestAt(data, it, start), start <= end
    PROVE  Problem!CanIntegrate(data, it, start, end)
BY DEF NewestAt, Problem!CanIntegrate

LEMMA NewestAtInstant ==
    ASSUME NEW data, Increasing(data), NEW it, NEW start \in Int, NewestAt(data, it, start),
           NEW instant \in Int, start <= instant
    PROVE  \E k \in it..Len(data) : NewestAt(data, k, instant)
<1>1. data \in Seq(Int)
  BY DEF Increasing
<1> QED
  BY <1>1, AdvancedToNewest

\* What IntegrateImu integrates leaves no instant out and takes the newest datum.
LEMMA IntegralCovers ==
    ASSUME NEW data, Increasing(data), NEW it, NEW start \in Int, NEW end \in Int,
           NewestAt(data, it, start), start <= end
    PROVE  Problem!Covers(Problem!Integral(data, it, start, end), data, start, end)
<1> DEFINE n == Len(data)
           last == Problem!Advanced(data, it, start, end)
           pieces == Problem!Integral(data, it, start, end)
           From(k) == IF start >= data[k] THEN start ELSE data[k]
           To(k) == IF k < n THEN IF end <= data[k + 1] THEN end ELSE data[k + 1] ELSE end
<1>1. /\ data \in Seq(Int) /\ n \in Nat /\ DOMAIN data = 1..n /\ it \in 1..n
      /\ \A k \in 1..n : data[k] \in Int
      /\ \A j, k \in 1..n : j < k => data[j] < data[k]
  BY DEF Increasing, NewestAt
<1>2. last \in it..n /\ NewestAt(data, last, end)
  BY <1>1, AdvancedToNewest
<1>3. ASSUME NEW piece \in pieces
      PROVE  /\ piece.from \in start..end /\ piece.to \in start..end /\ piece.from < piece.to
             /\ \E k \in it..last : /\ piece.imu = data[k] /\ piece.from = From(k)
                                    /\ piece.to = To(k)
  BY <1>3 DEF Problem!Integral, Problem!Later, Problem!Earlier
<1>4. ASSUME NEW k \in it..last, From(k) < To(k)
      PROVE  [imu |-> data[k], from |-> From(k), to |-> To(k)] \in pieces
  <2>1. k \in it..n /\ data[k] \in Int /\ (k < n => data[k + 1] \in Int)
    BY <1>1, <1>2
  <2>2. From(k) \in start..end /\ To(k) \in start..end
    BY <1>4, <2>1
  <2>3. data[k] \in {data[j] : j \in it..n}
    BY <2>1
  <2> DEFINE piece == [imu |-> data[k], from |-> From(k), to |-> To(k)]
  <2>4. piece \in [imu : {data[j] : j \in it..n}, from : start..end, to : start..end]
    BY <2>2, <2>3
  <2>5. piece.imu = data[k] /\ piece.from = From(k) /\ piece.to = To(k)
    OBVIOUS
  <2> HIDE DEF piece, From, To
  <2>6. piece.from < piece.to
    BY <1>4, <2>5
  <2> USE DEF From, To
  <2> QED
    BY <2>4, <2>5, <2>6 DEF Problem!Integral, Problem!Later, Problem!Earlier
<1> HIDE DEF last
<1>5. ASSUME NEW instant \in start..end - 1, NEW k \in it..n, NewestAt(data, k, instant)
      PROVE  k \in it..last /\ From(k) <= instant /\ instant < To(k)
  <2>1. data[k] <= instant /\ (k < n => data[k + 1] > instant) /\ k \in 1..n
    BY <1>5 DEF NewestAt
  <2>2. k <= last
    <3> SUFFICES ASSUME last < k PROVE FALSE
      BY <1>1, <1>2
    <3>1. last < n /\ last + 1 \in 1..n /\ data[last + 1] > end
      BY <1>1, <1>2, <2>1 DEF NewestAt
    <3>2. last + 1 = k \/ last + 1 < k
      BY <1>1, <1>2, <2>1
    <3>3. data[last + 1] <= data[k]
      BY <1>1, <2>1, <3>1, <3>2
    <3> QED
      BY <1>1, <2>1, <3>1, <3>3
  <2>3. data[k] \in Int /\ (k < n => data[k + 1] \in Int)
    BY <1>1, <2>1
  <2> QED
    BY <1>2, <2>1, <2>2, <2>3
<1>6. ASSUME NEW instant \in start..end - 1, NEW k \in 1..n, From(k) <= instant, instant < To(k)
      PROVE  NewestAt(data, k, instant)
  <2>1. data[k] \in Int /\ (k < n => data[k + 1] \in Int)
    BY <1>1
  <2> QED
    BY <1>1, <1>6, <2>1 DEF NewestAt
<1>7. ASSUME NEW instant \in Int, NEW j \in 1..n, NEW k \in 1..n,
             NewestAt(data, j, instant), NewestAt(data, k, instant)
      PROVE  j = k
  <2>1. ASSUME NEW a \in 1..n, NEW b \in 1..n, a < b,
               NewestAt(data, a, instant), NewestAt(data, b, instant)
        PROVE  FALSE
    <3>1. a + 1 \in 1..n /\ data[a + 1] > instant /\ data[b] <= instant
      BY <1>1, <2>1 DEF NewestAt
    <3>2. data[a + 1] <= data[b]
      BY <1>1, <2>1, <3>1
    <3> QED
      BY <1>1, <3>1, <3>2
  <2> QED
    BY <1>7, <2>1
<1>8. \A piece \in pieces : start <= piece.from /\ piece.from < piece.to /\ piece.to <= end
  BY <1>3
<1>9. ASSUME NEW instant \in start..end - 1,
             NEW k \in it..n, NewestAt(data, k, instant),
             NEW piece \in pieces, piece.from <= instant, instant < piece.to
      PROVE  piece = [imu |-> data[k], from |-> From(k), to |-> To(k)]
  <2>1. PICK j \in it..last : piece.imu = data[j] /\ piece.from = From(j) /\ piece.to = To(j)
    BY <1>3
  <2>2. j \in 1..n /\ k \in 1..n
    BY <1>1, <1>2
  <2> HIDE DEF From, To
  <2>3. NewestAt(data, j, instant)
    BY <1>6, <1>9, <2>1, <2>2
  <2>4. j = k
    BY <1>7, <1>9, <2>2, <2>3
  <2>5. piece \in [imu : {data[i] : i \in it..n}, from : start..end, to : start..end]
    BY DEF Problem!Integral
  <2> HIDE DEF pieces
  <2>6. piece = [imu |-> piece.imu, from |-> piece.from, to |-> piece.to]
    BY <2>5
  <2> QED
    BY <2>1, <2>4, <2>6
<1> HIDE DEF From, To, pieces
<1>10. ASSUME NEW instant \in start..end - 1
       PROVE  LET at == {piece \in pieces : piece.from <= instant /\ instant < piece.to}
              IN  /\ \E piece \in at : at = {piece}
                  /\ \A piece \in at, k \in DOMAIN data : data[k] <= instant => data[k] <= piece.imu
                  /\ \A piece \in at : piece.imu <= instant
  <2> DEFINE at == {piece \in pieces : piece.from <= instant /\ instant < piece.to}
  <2>1. PICK k \in it..n : NewestAt(data, k, instant)
    BY NewestAtInstant
  <2>2. k \in it..last /\ From(k) <= instant /\ instant < To(k)
    BY <1>5, <2>1
  <2>3. From(k) < To(k)
    BY <1>1, <1>2, <2>2 DEF From, To
  <2> PICK here : here = [imu |-> data[k], from |-> From(k), to |-> To(k)]
    OBVIOUS
  <2>4. here \in at
    BY <1>4, <2>2, <2>3
  <2>5. \A piece \in at : piece = here
    BY <1>9, <2>1
  <2>6. at = {here} /\ here.imu = data[k]
    BY <2>4, <2>5
  <2>7. data[k] <= instant
    BY <2>1 DEF NewestAt
  <2>8. \A j \in DOMAIN data : data[j] <= instant => data[j] <= data[k]
    <3> SUFFICES ASSUME NEW j \in 1..n, data[j] <= instant, k < j PROVE FALSE
      BY <1>1, <2>1
    <3>1. k + 1 \in 1..n /\ data[k + 1] > instant
      BY <1>1, <2>1 DEF NewestAt
    <3>2. data[k + 1] <= data[j]
      BY <1>1, <2>1, <3>1
    <3> QED
      BY <1>1, <3>1, <3>2
  <2> QED
    BY <2>4, <2>6, <2>7, <2>8
<1> QED
  BY <1>8, <1>10, Zenon DEF Problem!Covers, pieces

LEMMA HalfWay ==
    ASSUME NEW a \in Int, NEW b \in Int, a <= b
    PROVE  /\ a + (b - a) \div 2 \in Int
           /\ a <= a + (b - a) \div 2
           /\ a + (b - a) \div 2 <= b
OBVIOUS

\* A call of IntegrateImu whose iterator is at the newest datum when it begins.
Prepared(imu, c) ==
    /\ c.start \in Int /\ c.end \in Int /\ c.start <= c.end
    /\ NewestAt(imu, c.it, c.start)

\* Between nodes in order, the calls run from and to the nodes and the centers.
LEMMA CallsArePrepared ==
    ASSUME NEW imu, Increasing(imu), NEW times, InOrder(times), imu # <<>>, times # <<>>,
           imu[1] <= times[1], NEW i \in 1..Len(times) - 1
    PROVE  /\ Prepared(imu, Problem!Rotation(imu, times, i))
           /\ Prepared(imu, Problem!ToFirstCenter(imu, times, i))
           /\ i + 1 < Len(times) => Prepared(imu, Problem!CenterToCenter(imu, times, i))
           /\ Problem!Rotation(imu, times, i).start = times[i]
           /\ Problem!Rotation(imu, times, i).end = times[i + 1]
           /\ Problem!ToFirstCenter(imu, times, i).start = times[i]
           /\ Problem!ToFirstCenter(imu, times, i).end = Problem!Center(times, i)
           /\ Problem!CenterToCenter(imu, times, i).start = Problem!Center(times, i)
           /\ Problem!CenterToCenter(imu, times, i).end = Problem!Center(times, i + 1)
<1> DEFINE it == Problem!Iterators(imu, times)[i]
           center == Problem!Center(times, i)
           next_ == Problem!Center(times, i + 1)
           it2 == Problem!Advanced(imu, it, times[i], center)
<1>1. /\ imu \in Seq(Int) /\ times \in Seq(Int) /\ Len(times) \in Nat
      /\ DOMAIN times = 1..Len(times) /\ \A k \in 1..Len(times) : times[k] \in Int
  BY DEF Increasing, InOrder
<1>2. i \in 1..Len(times) /\ i + 1 \in 1..Len(times) /\ times[i] <= times[i + 1]
  <2>1. i \in 1..Len(times) /\ i + 1 \in 1..Len(times) /\ i <= i + 1
    BY <1>1
  <2> QED
    BY <1>1, <2>1 DEF InOrder
<1>3. NewestAt(imu, it, times[i])
  BY <1>1, <1>2, IteratorsAreNewest
<1>4. center \in Int /\ times[i] <= center /\ center <= times[i + 1]
  BY <1>1, <1>2, HalfWay DEF Problem!Center
<1>5. NewestAt(imu, it2, center)
  BY <1>1, <1>2, <1>3, <1>4, AdvancedToNewest
<1>6. i + 1 < Len(times) => next_ \in Int /\ center <= next_
  <2> SUFFICES ASSUME i + 1 < Len(times) PROVE next_ \in Int /\ center <= next_
    OBVIOUS
  <2>1. (i + 1) + 1 \in 1..Len(times) /\ times[i + 1] <= times[(i + 1) + 1]
    <3>1. (i + 1) + 1 \in 1..Len(times) /\ i + 1 <= (i + 1) + 1
      BY <1>1, <1>2
    <3> QED
      BY <1>1, <1>2, <3>1 DEF InOrder
  <2>2. next_ \in Int /\ times[i + 1] <= next_
    BY <1>1, <1>2, <2>1, HalfWay DEF Problem!Center
  <2> HIDE DEF center, next_
  <2> QED
    BY <1>1, <1>2, <1>4, <2>2
<1> HIDE DEF it
<1>7. Problem!Rotation(imu, times, i) = [it |-> it, start |-> times[i], end |-> times[i + 1]]
  BY DEF Problem!Rotation, it
<1> HIDE DEF center, next_
<1>8. Problem!ToFirstCenter(imu, times, i) = [it |-> it, start |-> times[i], end |-> center]
  BY <1>7 DEF Problem!ToFirstCenter, center
<1>9. Problem!CenterToCenter(imu, times, i) = [it |-> it2, start |-> center, end |-> next_]
  BY <1>8 DEF Problem!CenterToCenter, next_
<1> HIDE DEF it2
<1> QED
  BY <1>1, <1>2, <1>3, <1>4, <1>5, <1>6, <1>7, <1>8, <1>9 DEF Prepared, center, next_

LEMMA PreparedCovers ==
    ASSUME NEW imu, Increasing(imu), NEW c, Prepared(imu, c)
    PROVE  /\ ~Problem!IntegrationFails(imu, c)
           /\ Problem!Covers(Problem!Integrated(imu, c), imu, c.start, c.end)
BY IntegralCovers, NewestCanIntegrate
   DEF Prepared, Problem!IntegrationFails, Problem!Integrated

\* A datum that is newer, or not older, than the last one keeps the order.
LEMMA NewerDatum ==
    ASSUME NEW data, NEW time \in Int
    PROVE  /\ Increasing(data) /\ (data # <<>> => data[Len(data)] < time)
                => Increasing(Append(data, time))
           /\ InOrder(data) /\ (data # <<>> => data[Len(data)] <= time)
                => InOrder(Append(data, time))
           /\ data \in Seq(Int) =>
                /\ Append(data, time) # <<>>
                /\ Append(data, time)[1] = IF data = <<>> THEN time ELSE data[1]
<1> DEFINE n == Len(data)
           more == Append(data, time)
<1>1. ASSUME data \in Seq(Int)
      PROVE  /\ n \in Nat /\ DOMAIN data = 1..n /\ \A k \in 1..n : data[k] \in Int
             /\ more \in Seq(Int) /\ DOMAIN more = 1..n + 1 /\ more[n + 1] = time
             /\ \A k \in 1..n : more[k] = data[k]
             /\ data # <<>> => n > 0
             /\ n > 0 => data # <<>>
             /\ more # <<>>
  BY <1>1
<1> HIDE DEF more
<1>2. ASSUME Increasing(data), data # <<>> => data[n] < time
      PROVE  Increasing(more)
  <2>1. data \in Seq(Int)
    BY <1>2 DEF Increasing
  <2>2. /\ n \in Nat /\ DOMAIN more = 1..n + 1 /\ more[n + 1] = time /\ more \in Seq(Int)
        /\ \A k \in 1..n : more[k] = data[k] /\ data[k] \in Int
        /\ n > 0 => data[n] < time
    BY <1>1, <1>2, <2>1
  <2>3. \A j, k \in 1..n : j < k => data[j] < data[k]
    BY <1>1, <1>2, <2>1 DEF Increasing
  <2>4. ASSUME NEW j \in 1..n PROVE data[j] < time
    <3>1. n \in 1..n /\ data[n] < time /\ data[n] \in Int /\ (j = n \/ j < n)
      BY <2>2
    <3>2. j = n \/ data[j] < data[n]
      BY <2>3, <3>1
    <3> QED
      BY <2>2, <3>1, <3>2
  <2> SUFFICES ASSUME NEW j \in 1..n + 1, NEW k \in 1..n + 1, j < k
               PROVE  more[j] < more[k]
    BY <2>2 DEF Increasing
  <2>5. j \in 1..n /\ (k \in 1..n \/ k = n + 1)
    BY <2>2
  <2> QED
    BY <2>2, <2>3, <2>4, <2>5
<1>3. ASSUME InOrder(data), data # <<>> => data[n] <= time
      PROVE  InOrder(more)
  <2>1. data \in Seq(Int)
    BY <1>3 DEF InOrder
  <2> SUFFICES ASSUME NEW j \in 1..n + 1, NEW k \in 1..n + 1, j <= k
               PROVE  more[j] <= more[k]
    BY <1>1, <2>1 DEF InOrder
  <2>2. CASE j \in 1..n /\ k \in 1..n
    BY <1>1, <1>3, <2>1, <2>2 DEF InOrder
  <2>3. CASE j \in 1..n /\ k = n + 1
    <3>1. n \in 1..n /\ data[n] <= time /\ data[j] <= data[n]
      BY <1>1, <1>3, <2>1, <2>3 DEF InOrder
    <3> QED
      BY <1>1, <2>1, <2>3, <3>1
  <2>4. CASE j = n + 1 /\ k = n + 1
    BY <1>1, <2>1, <2>4
  <2> QED
    BY <1>1, <2>1, <2>2, <2>3, <2>4
<1>4. ASSUME data \in Seq(Int)
      PROVE  more # <<>> /\ more[1] = IF data = <<>> THEN time ELSE data[1]
  BY <1>1, <1>4
<1> QED
  BY <1>2, <1>3, <1>4 DEF more

\* The data of every trajectory are in order and begin before its nodes; what was given to
\* the solver was made from the data as they are.
TimesInOrder(imu_data, node_data) ==
    /\ \A t \in DOMAIN imu_data : Increasing(imu_data[t])
    /\ \A t \in DOMAIN node_data :
          /\ InOrder(node_data[t])
          /\ node_data[t] # <<>> =>
               /\ t \in DOMAIN imu_data /\ imu_data[t] # <<>>
               /\ imu_data[t][1] <= node_data[t][1]

ProblemInv ==
    /\ ~problem_failed
    /\ TimesInOrder(imu_data_, node_data_)
    /\ \/ residuals = {}
       \/ /\ \A t \in DOMAIN node_data_ : node_data_[t] # <<>>
          /\ residuals = UNION {Problem!Residuals(t) : t \in DOMAIN node_data_}

LEMMA ProblemStarts ==
    ASSUME FlowInit
    PROVE  ProblemInv
BY DEF FlowInit, Problem!Init, ProblemInv, TimesInOrder

\* What is pushed back, trajectory by trajectory.
LEMMA AddedData ==
    ASSUME NEW data, NEW t, NEW time, NEW u \in DOMAIN Problem!Added(data, t, time),
           u \in DOMAIN data => data[u] \in Seq(Int)
    PROVE  /\ u \in DOMAIN data /\ u # t => Problem!Added(data, t, time)[u] = data[u]
           /\ u \notin DOMAIN data /\ u # t => Problem!Added(data, t, time)[u] = <<>>
           /\ u \in DOMAIN data /\ u = t =>
                Problem!Added(data, t, time)[u] = Append(data[u], time)
           /\ u \notin DOMAIN data /\ u = t =>
                Problem!Added(data, t, time)[u] = Append(<<>>, time)
<1> DEFINE old == IF u \in DOMAIN data THEN data[u] ELSE <<>>
<1>1. old \in Seq(Int)
  OBVIOUS
<1>2. Problem!Added(data, t, time)[u] = old \o (IF u = t THEN <<time>> ELSE <<>>)
  BY DEF Problem!Added
<1>3. old \o <<>> = old /\ old \o <<time>> = Append(old, time)
  <2> HIDE DEF old
  <2> QED
    BY <1>1
<1> QED
  BY <1>2, <1>3

LEMMA EmptyInOrder == Increasing(<<>>) /\ InOrder(<<>>)
BY DEF Increasing, InOrder

LEMMA ImuDataInOrder ==
    ASSUME NEW imu_data, NEW node_data, TimesInOrder(imu_data, node_data),
           NEW t, NEW time \in Int,
           t \in DOMAIN imu_data /\ imu_data[t] # <<>> =>
                imu_data[t][Len(imu_data[t])] < time
    PROVE  TimesInOrder(Problem!Added(imu_data, t, time), node_data)
<1> DEFINE new == Problem!Added(imu_data, t, time)
<1>1. \A u \in DOMAIN imu_data : imu_data[u] \in Seq(Int) /\ Increasing(imu_data[u])
  BY DEF TimesInOrder, Increasing
<1>2. DOMAIN new = DOMAIN imu_data \cup 0..t
  BY DEF Problem!Added
<1> HIDE DEF new
<1>3. ASSUME NEW u \in DOMAIN new
      PROVE  /\ Increasing(new[u])
             /\ u \in DOMAIN imu_data /\ imu_data[u] # <<>> =>
                  new[u] # <<>> /\ new[u][1] = imu_data[u][1]
  <2>1. CASE u \in DOMAIN imu_data /\ u # t
    BY <1>1, <1>3, <2>1, AddedData DEF new
  <2>2. CASE u \notin DOMAIN imu_data /\ u # t
    BY <1>3, <2>2, AddedData, EmptyInOrder DEF new
  <2>3. CASE u \in DOMAIN imu_data /\ u = t
    <3>1. new[u] = Append(imu_data[u], time)
      BY <1>1, <1>3, <2>3, AddedData DEF new
    <3> QED
      BY <1>1, <2>3, <3>1, NewerDatum
  <2>4. CASE u \notin DOMAIN imu_data /\ u = t
    <3>1. new[u] = Append(<<>>, time)
      BY <1>3, <2>4, AddedData DEF new
    <3> QED
      BY <2>4, <3>1, NewerDatum, EmptyInOrder
  <2> QED
    BY <2>1, <2>2, <2>3, <2>4
<1> QED
  BY <1>2, <1>3 DEF TimesInOrder, new

LEMMA NodeDataInOrder ==
    ASSUME NEW imu_data, NEW node_data, TimesInOrder(imu_data, node_data),
           NEW t, NEW time \in Int,
           t \in DOMAIN imu_data, imu_data[t] # <<>>, imu_data[t][1] <= time,
           t \in DOMAIN node_data /\ node_data[t] # <<>> =>
                node_data[t][Len(node_data[t])] <= time
    PROVE  TimesInOrder(imu_data, Problem!Added(node_data, t, time))
<1> DEFINE new == Problem!Added(node_data, t, time)
<1>1. \A u \in DOMAIN node_data : node_data[u] \in Seq(Int) /\ InOrder(node_data[u])
  BY DEF TimesInOrder, InOrder
<1> HIDE DEF new
<1>2. ASSUME NEW u \in DOMAIN new
      PROVE  /\ InOrder(new[u])
             /\ new[u] # <<>> =>
                  /\ u \in DOMAIN imu_data /\ imu_data[u] # <<>>
                  /\ imu_data[u][1] <= new[u][1]
  <2>1. CASE u \in DOMAIN node_data /\ u # t
    <3>1. new[u] = node_data[u]
      BY <1>1, <1>2, <2>1, AddedData DEF new
    <3> QED
      BY <2>1, <3>1 DEF TimesInOrder
  <2>2. CASE u \notin DOMAIN node_data /\ u # t
    BY <1>2, <2>2, AddedData, EmptyInOrder DEF new
  <2>3. CASE u \in DOMAIN node_data /\ u = t
    <3>1. new[u] = Append(node_data[u], time)
      BY <1>1, <1>2, <2>3, AddedData DEF new
    <3>2. InOrder(new[u]) /\ new[u][1] = IF node_data[u] = <<>> THEN time ELSE node_data[u][1]
      BY <1>1, <2>3, <3>1, NewerDatum
    <3> QED
      BY <2>3, <3>2 DEF TimesInOrder
  <2>4. CASE u \notin DOMAIN node_data /\ u = t
    <3>1. new[u] = Append(<<>>, time)
      BY <1>2, <2>4, AddedData DEF new
    <3>2. InOrder(new[u])
      BY <3>1, NewerDatum, EmptyInOrder
    <3>3. new[u][1] = time
      BY <3>1
    <3> QED
      BY <2>4, <3>2, <3>3
  <2> QED
    BY <2>1, <2>2, <2>3, <2>4
<1> QED
  BY <1>2 DEF TimesInOrder, new

\* optimization_problem.cc: Solve fails for no trajectory that has nodes.
LEMMA NoTrajectoryFails ==
    ASSUME TimesInOrder(imu_data_, node_data_), NEW t \in DOMAIN node_data_,
           node_data_[t] # <<>>
    PROVE  ~Problem!Fails(t)
<1> PICK imu, times : imu = imu_data_[t] /\ times = node_data_[t]
  OBVIOUS
<1>1. /\ t \in DOMAIN imu_data_ /\ imu # <<>> /\ times # <<>>
      /\ Increasing(imu) /\ InOrder(times) /\ imu[1] <= times[1]
  BY DEF TimesInOrder
<1>2. ASSUME NEW i \in 1..Len(times) - 1, NEW c \in Problem!Integrations(imu, times, i)
      PROVE  ~Problem!IntegrationFails(imu, c)
  <2>1. Prepared(imu, c)
    BY <1>1, <1>2, CallsArePrepared DEF Problem!Integrations
  <2> QED
    BY <1>1, <2>1, PreparedCovers
<1> QED
  BY <1>1, <1>2 DEF Problem!Fails

LEMMA ProblemStep ==
    ASSUME ProblemInv, Problem!Next
    PROVE  ProblemInv'
<1>1. CASE \E t \in Trajectories, time \in 0..MaxProblemTime :
             /\ Problem!HasData(imu_data_, t) => Problem!Last(imu_data_, t) < time
             /\ Problem!AddImuData(t, time)
  <2>1. PICK t \in Trajectories, time \in Int :
             /\ Problem!HasData(imu_data_, t) => Problem!Last(imu_data_, t) < time
             /\ Problem!AddImuData(t, time)
    BY <1>1, TimesAssumption
  <2>2. TimesInOrder(Problem!Added(imu_data_, t, time), node_data_)
    BY <2>1, ImuDataInOrder DEF ProblemInv, Problem!HasData, Problem!Last
  <2> QED
    BY <2>1, <2>2 DEF ProblemInv, Problem!AddImuData
<1>2. CASE \E t \in Trajectories, time \in 0..MaxProblemTime :
             /\ Problem!HasData(imu_data_, t) /\ imu_data_[t][1] <= time
             /\ Problem!HasData(node_data_, t) => Problem!Last(node_data_, t) <= time
             /\ Problem!AddTrajectoryNode(t, time)
  <2>1. PICK t \in Trajectories, time \in Int :
             /\ Problem!HasData(imu_data_, t) /\ imu_data_[t][1] <= time
             /\ Problem!HasData(node_data_, t) => Problem!Last(node_data_, t) <= time
             /\ Problem!AddTrajectoryNode(t, time)
    BY <1>2, TimesAssumption
  <2>2. TimesInOrder(imu_data_, Problem!Added(node_data_, t, time))
    BY <2>1, NodeDataInOrder DEF ProblemInv, Problem!HasData, Problem!Last
  <2> QED
    BY <2>1, <2>2 DEF ProblemInv, Problem!AddTrajectoryNode
<1>3. CASE (\A t \in DOMAIN node_data_ : node_data_[t] # <<>>) /\ Problem!Solve
  <2>1. \A t \in DOMAIN node_data_ : ~Problem!Fails(t)
    BY <1>3, NoTrajectoryFails DEF ProblemInv
  <2>2. ~problem_failed'
    BY <1>3, <2>1 DEF Problem!Solve
  <2>3. /\ residuals' = UNION {Problem!Residuals(t) : t \in DOMAIN node_data_}
        /\ UNCHANGED <<imu_data_, node_data_>>
    BY <1>3, <2>2 DEF Problem!Solve
  <2>4. \A t : Problem!Residuals(t)' = Problem!Residuals(t)
    BY <2>3 DEF Problem!Residuals
  <2>5. (residuals = UNION {Problem!Residuals(t) : t \in DOMAIN node_data_})'
    BY <2>3, <2>4
  <2> QED
    BY <1>3, <2>2, <2>3, <2>5 DEF ProblemInv
<1> QED
  BY <1>1, <1>2, <1>3 DEF Problem!Next

\* What the solver is given for one trajectory.
LEMMA ResidualsCover ==
    ASSUME TimesInOrder(imu_data_, node_data_), NEW t \in DOMAIN node_data_,
           node_data_[t] # <<>>, NEW r \in Problem!Residuals(t)
    PROVE  LET imu == imu_data_[t]
               times == node_data_[t]
               Is(k, start, end) == Problem!Covers(r.integrals[k], imu, start, end)
           IN  /\ r.trajectory = t
               /\ Is(1, times[r.node - 1], times[r.node])
               /\ r.kind = "acceleration" =>
                    /\ Is(2, times[r.node - 1], Problem!Center(times, r.node - 1))
                    /\ Is(3, Problem!Center(times, r.node - 1), Problem!Center(times, r.node))
<1> PICK imu, times : imu = imu_data_[t] /\ times = node_data_[t]
  OBVIOUS
<1>1. /\ imu # <<>> /\ times # <<>> /\ Increasing(imu) /\ InOrder(times) /\ imu[1] <= times[1]
      /\ Len(times) \in Nat
  BY DEF TimesInOrder, InOrder
<1> DEFINE Of(c) == Problem!Integrated(imu, c)
           first(i) == Of(Problem!Rotation(imu, times, i))
           second(i) == Of(Problem!ToFirstCenter(imu, times, i))
           third(i) == Of(Problem!CenterToCenter(imu, times, i))
<1>2. ASSUME NEW i \in 1..Len(times) - 1
      PROVE  /\ Problem!Covers(first(i), imu, times[i], times[i + 1])
             /\ Problem!Covers(second(i), imu, times[i], Problem!Center(times, i))
             /\ i + 1 < Len(times) =>
                  Problem!Covers(third(i), imu, Problem!Center(times, i),
                                 Problem!Center(times, i + 1))
  <2> PICK c1, c2, c3 : /\ c1 = Problem!Rotation(imu, times, i)
                        /\ c2 = Problem!ToFirstCenter(imu, times, i)
                        /\ c3 = Problem!CenterToCenter(imu, times, i)
    OBVIOUS
  <2>1. /\ Prepared(imu, c1) /\ c1.start = times[i] /\ c1.end = times[i + 1]
        /\ Prepared(imu, c2) /\ c2.start = times[i] /\ c2.end = Problem!Center(times, i)
        /\ i + 1 < Len(times) => Prepared(imu, c3)
        /\ c3.start = Problem!Center(times, i) /\ c3.end = Problem!Center(times, i + 1)
    BY <1>1, CallsArePrepared
  <2>2. /\ Problem!Covers(Of(c1), imu, c1.start, c1.end)
        /\ Problem!Covers(Of(c2), imu, c2.start, c2.end)
        /\ i + 1 < Len(times) => Problem!Covers(Of(c3), imu, c3.start, c3.end)
    BY <1>1, <2>1, PreparedCovers
  <2> HIDE DEF Of
  <2> QED
    BY <2>1, <2>2
<1> HIDE DEF first, second, third
<1>3. CASE \E i \in 1..Len(times) - 1 :
             r = [trajectory |-> t, kind |-> "rotation", node |-> i + 1,
                  integrals |-> <<first(i)>>]
  <2>1. PICK i \in 1..Len(times) - 1 :
             r = [trajectory |-> t, kind |-> "rotation", node |-> i + 1,
                  integrals |-> <<first(i)>>]
    BY <1>3
  <2>2. /\ r.trajectory = t /\ r.kind = "rotation" /\ r.node = i + 1 /\ r.node - 1 = i
        /\ r.integrals[1] = first(i)
    BY <1>1, <2>1
  <2> QED
    BY <1>2, <2>2
<1>4. CASE \E i \in 1..Len(times) - 2 :
             r = [trajectory |-> t, kind |-> "acceleration", node |-> i + 1,
                  integrals |-> <<first(i), second(i), third(i)>>]
  <2>1. PICK i \in 1..Len(times) - 2 :
             r = [trajectory |-> t, kind |-> "acceleration", node |-> i + 1,
                  integrals |-> <<first(i), second(i), third(i)>>]
    BY <1>4
  <2>2. /\ r.trajectory = t /\ r.node = i + 1 /\ r.node - 1 = i
        /\ r.integrals[1] = first(i) /\ r.integrals[2] = second(i) /\ r.integrals[3] = third(i)
    BY <1>1, <2>1
  <2>3. i \in 1..Len(times) - 1 /\ i + 1 < Len(times)
    BY <1>1
  <2> QED
    BY <1>2, <2>2, <2>3
<1> QED
  BY <1>3, <1>4 DEF Problem!Residuals, first, second, third

\* Each node but the first has its residuals, those of the ends no acceleration.
LEMMA ResidualsOfNodes ==
    ASSUME NEW t \in DOMAIN node_data_,
           residuals = UNION {Problem!Residuals(u) : u \in DOMAIN node_data_}
    PROVE  /\ {r.node : r \in {s \in residuals : s.trajectory = t /\ s.kind = "rotation"}}
                = {i + 1 : i \in 1..Len(node_data_[t]) - 1}
           /\ {r.node : r \in {s \in residuals : s.trajectory = t /\ s.kind = "acceleration"}}
                = {i + 1 : i \in 1..Len(node_data_[t]) - 2}
<1> PICK n : n = [u \in DOMAIN node_data_ |-> Len(node_data_[u])]
  OBVIOUS
<1>1. ASSUME NEW u \in DOMAIN node_data_
      PROVE  \A r \in Problem!Residuals(u) :
                /\ r.trajectory = u
                /\ \/ r.kind = "rotation" /\ \E i \in 1..n[u] - 1 : r.node = i + 1
                   \/ r.kind = "acceleration" /\ \E i \in 1..n[u] - 2 : r.node = i + 1
  BY DEF Problem!Residuals
<1>2. ASSUME NEW i \in 1..n[t] - 1
      PROVE  \E r \in residuals : r.trajectory = t /\ r.kind = "rotation" /\ r.node = i + 1
  <2>1. PICK r : r = [trajectory |-> t, kind |-> "rotation", node |-> i + 1,
                      integrals |-> <<Problem!Integrated(imu_data_[t],
                                        Problem!Rotation(imu_data_[t], node_data_[t], i))>>]
    OBVIOUS
  <2>2. r \in Problem!Residuals(t)
    BY <2>1, <1>2 DEF Problem!Residuals
  <2>3. r.trajectory = t /\ r.kind = "rotation" /\ r.node = i + 1
    BY <2>1
  <2> QED
    BY <2>2, <2>3
<1>3. ASSUME NEW i \in 1..n[t] - 2
      PROVE  \E r \in residuals : r.trajectory = t /\ r.kind = "acceleration" /\ r.node = i + 1
  <2>1. PICK a, b, c :
          /\ a = Problem!Integrated(imu_data_[t],
                    Problem!Rotation(imu_data_[t], node_data_[t], i))
          /\ b = Problem!Integrated(imu_data_[t],
                    Problem!ToFirstCenter(imu_data_[t], node_data_[t], i))
          /\ c = Problem!Integrated(imu_data_[t],
                    Problem!CenterToCenter(imu_data_[t], node_data_[t], i))
    OBVIOUS
  <2>2. PICK r : r = [trajectory |-> t, kind |-> "acceleration", node |-> i + 1,
                      integrals |-> <<a, b, c>>]
    OBVIOUS
  <2>3. r \in Problem!Residuals(t)
    BY <2>1, <2>2, <1>3 DEF Problem!Residuals
  <2>4. r.trajectory = t /\ r.kind = "acceleration" /\ r.node = i + 1
    BY <2>2
  <2> QED
    BY <2>3, <2>4
<1>4. \A r \in residuals : \E u \in DOMAIN node_data_ : r \in Problem!Residuals(u)
  OBVIOUS
<1>5. \A r \in residuals : r.trajectory = t =>
         /\ r.kind = "rotation" => \E i \in 1..n[t] - 1 : r.node = i + 1
         /\ r.kind = "acceleration" => \E i \in 1..n[t] - 2 : r.node = i + 1
  BY <1>1, <1>4
<1>6. n[t] = Len(node_data_[t])
  OBVIOUS
<1>7. ASSUME NEW k
      PROVE  k \in {r.node : r \in {s \in residuals : s.trajectory = t /\ s.kind = "rotation"}}
             <=> k \in {i + 1 : i \in 1..n[t] - 1}
  BY <1>2, <1>5
<1>8. ASSUME NEW k
      PROVE  k \in {r.node : r \in {s \in residuals : s.trajectory = t /\ s.kind = "acceleration"}}
             <=> k \in {i + 1 : i \in 1..n[t] - 2}
  BY <1>3, <1>5
<1> QED
  BY <1>6, <1>7, <1>8

\* optimization_problem.cc:194-253, imu_integration.h: no CHECK of IntegrateImu fails in
\* Solve, whenever it is called and wherever the nodes are among the data; and the residuals
\* of a node are made of all data between the nodes, or the centers, on both sides of it.
THEOREM ResidualsAlwaysExact == FlowSpec => []ResidualsExact
<1>1. FlowInit => ProblemInv
  BY ProblemStarts
<1>2. ProblemInv /\ [FlowNext]_flowVars => ProblemInv'
  <2> SUFFICES ASSUME ProblemInv, [FlowNext]_flowVars PROVE ProblemInv'
    OBVIOUS
  <2>1. CASE ProblemNext
    BY <2>1, ProblemStep DEF ProblemNext
  <2>2. CASE UNCHANGED problemVars
    <3>1. UNCHANGED <<imu_data_, node_data_, residuals, problem_failed>>
      BY <2>2 DEF problemVars
    <3>2. \A t : Problem!Residuals(t)' = Problem!Residuals(t)
      BY <3>1 DEF Problem!Residuals
    <3> QED
      BY <3>1, <3>2 DEF ProblemInv
  <2>3. ProblemNext \/ UNCHANGED problemVars
    BY DEF FlowNext, flowVars, CollatorNext, BuilderNext, PipelineNext, FloorsNext,
           QueueNext, CloudNext, Ended
  <2> QED
    BY <2>1, <2>2, <2>3
<1>3. ProblemInv => ResidualsExact
  <2> SUFFICES ASSUME ProblemInv PROVE Problem!ResidualsExact
    BY DEF ResidualsExact
  <2>1. ASSUME NEW r \in residuals
        PROVE  LET imu == imu_data_[r.trajectory]
                   times == node_data_[r.trajectory]
                   Is(k, start, end) == Problem!Covers(r.integrals[k], imu, start, end)
               IN  /\ Is(1, times[r.node - 1], times[r.node])
                   /\ r.kind = "acceleration" =>
                        /\ Is(2, times[r.node - 1], Problem!Center(times, r.node - 1))
                        /\ Is(3, Problem!Center(times, r.node - 1),
                                 Problem!Center(times, r.node))
    <3>1. PICK t \in DOMAIN node_data_ : r \in Problem!Residuals(t) /\ node_data_[t] # <<>>
      BY <2>1 DEF ProblemInv
    <3> QED
      BY <3>1, ResidualsCover DEF ProblemInv
  <2>2. ASSUME residuals # {}, NEW t \in DOMAIN node_data_
        PROVE  /\ {r.node : r \in {s \in residuals : s.trajectory = t /\ s.kind = "rotation"}}
                    = 2..Len(node_data_[t])
               /\ {r.node : r \in {s \in residuals : s.trajectory = t /\ s.kind = "acceleration"}}
                    = 2..Len(node_data_[t]) - 1
    <3>1. PICK n : n = Len(node_data_[t])
      OBVIOUS
    <3>2. n \in Nat
      BY <3>1 DEF ProblemInv, TimesInOrder, InOrder
    <3>3. {i + 1 : i \in 1..n - 1} = 2..n /\ {i + 1 : i \in 1..n - 2} = 2..n - 1
      <4>1. \A k : k \in 2..n => k = (k - 1) + 1 /\ k - 1 \in 1..n - 1
        BY <3>2
      <4>2. \A k : k \in 2..n - 1 => k = (k - 1) + 1 /\ k - 1 \in 1..n - 2
        BY <3>2
      <4> QED
        BY <3>2, <4>1, <4>2
    <3>4. residuals = UNION {Problem!Residuals(u) : u \in DOMAIN node_data_}
      BY <2>2 DEF ProblemInv
    <3> QED
      BY <3>1, <3>3, <3>4, ResidualsOfNodes
  <2> QED
    BY <2>1, <2>2 DEF Problem!ResidualsExact, ProblemInv
<1>4. FlowSpec => FlowInit /\ [][FlowNext]_flowVars
  BY PTL DEF FlowSpec, flowVars
<1> QED
  BY <1>1, <1>2, <1>3, <1>4, PTL
=============================================================================
