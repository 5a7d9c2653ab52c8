------------------------ MODULE SparsePoseGraphProofs ------------------------
(***************************************************************************)
(* The pose graph, for any number of workers, trajectories, scans and      *)
(* range data per submap: its work items are run in the order of the       *)
(* calls, by the one thread that owns the queue.                           *)
(***************************************************************************)
EXTENDS SparsePoseGraph, FiniteSetTheorems, SequenceTheorems, TLAPS

CBP == INSTANCE ConstraintBuilderProofs
        WITH Submaps <- SubmapIds, Nodes <- NodeIds, constraints <- slots,
             Callbacks <- {"loop_closure", "final"}, MaxSlots <- 0,
             MaxScans <- MaxNodes * Cardinality(Trajectories)
-----------------------------------------------------------------------------
(* The builder of the graph is the builder of ConstraintBuilderProofs.      *)

LEMMA BuilderDefs ==
    /\ CB!ConstantsOK <=> CBP!ConstantsOK
    /\ CB!Init <=> CBP!Init
    /\ CB!TypeOK <=> CBP!TypeOK
    /\ CB!NoCheckFails <=> CBP!NoCheckFails
    /\ CB!Unfinished = CBP!Unfinished
    /\ CB!PendingScans = CBP!PendingScans
BY DEF CB!ConstantsOK, CBP!ConstantsOK, CB!Init, CBP!Init, CB!TypeOK, CBP!TypeOK,
       CB!NoCheckFails, CBP!NoCheckFails, CB!Unfinished, CBP!Unfinished,
       CB!PendingScans, CBP!PendingScans, CB!Computations, CBP!Computations,
       CB!Constraint, CBP!Constraint, CB!Call, CBP!Call, CB!Tasks, CBP!Tasks,
       CB!ComputeTasks, CBP!ComputeTasks, CB!ConstructTasks, CBP!ConstructTasks,
       CB!FinishTasks, CBP!FinishTasks, CB!Pool!Init, CBP!Pool!Init

LEMMA BuilderActions ==
    /\ \A s, n, g : CB!AddComputation(s, n, g) <=> CBP!AddComputation(s, n, g)
    /\ \A c : CB!WhenDone(c) <=> CBP!WhenDone(c)
    /\ CB!NotifyEndOfScan <=> CBP!NotifyEndOfScan
    /\ \A w : CB!Start(w) <=> CBP!Start(w)
    /\ \A w : CB!ConstructSubmapScanMatcher(w) <=> CBP!ConstructSubmapScanMatcher(w)
    /\ \A w, match : CB!ComputeConstraint(w, match) <=> CBP!ComputeConstraint(w, match)
    /\ \A w : CB!FinishComputation(w) <=> CBP!FinishComputation(w)
    /\ \A w : CB!ReturnFromCallback(w) <=> CBP!ReturnFromCallback(w)
<1>1. \A s, n, g : CB!AddComputation(s, n, g) <=> CBP!AddComputation(s, n, g)
  BY DEF CB!AddComputation, CBP!AddComputation, CB!ScheduleOrQueue, CBP!ScheduleOrQueue,
     CB!Pool!Schedule, CBP!Pool!Schedule
<1>2. \A c : CB!WhenDone(c) <=> CBP!WhenDone(c)
  BY DEF CB!WhenDone, CBP!WhenDone, CB!Pool!Schedule, CBP!Pool!Schedule, CB!matchvars,
     CBP!matchvars
<1>3. CB!NotifyEndOfScan <=> CBP!NotifyEndOfScan
  BY DEF CB!NotifyEndOfScan, CBP!NotifyEndOfScan, CB!matchvars, CBP!matchvars, CB!poolvars,
     CBP!poolvars
<1>4. \A w : CB!Start(w) <=> CBP!Start(w)
  BY DEF CB!Start, CBP!Start, CB!Pool!Start, CBP!Pool!Start, CB!matchvars, CBP!matchvars,
     CB!clientvars, CBP!clientvars
<1>5. \A w : CB!ConstructSubmapScanMatcher(w) <=> CBP!ConstructSubmapScanMatcher(w)
  BY DEF CB!ConstructSubmapScanMatcher, CBP!ConstructSubmapScanMatcher, CB!Executes,
     CBP!Executes, CB!clientvars, CBP!clientvars
<1>6. \A w, match : CB!ComputeConstraint(w, match) <=> CBP!ComputeConstraint(w, match)
  BY DEF CB!ComputeConstraint, CBP!ComputeConstraint, CB!Executes, CBP!Executes,
     CB!clientvars, CBP!clientvars, CB!poolvars, CBP!poolvars
<1>7. \A w : CB!FinishComputation(w) <=> CBP!FinishComputation(w)
  BY DEF CB!FinishComputation, CBP!FinishComputation, CB!Executes, CBP!Executes,
     CB!LastPending, CBP!LastPending, CB!Left, CBP!Left, CB!Found, CBP!Found,
     CB!Pool!Finish, CBP!Pool!Finish, CB!poolvars, CBP!poolvars, CB!Computations,
     CBP!Computations
<1>8. \A w : CB!ReturnFromCallback(w) <=> CBP!ReturnFromCallback(w)
  BY DEF CB!ReturnFromCallback, CBP!ReturnFromCallback, CB!Pool!Finish, CBP!Pool!Finish,
     CB!matchvars, CBP!matchvars, CB!clientvars, CBP!clientvars
<1> QED
  BY <1>1, <1>2, <1>3, <1>4, <1>5, <1>6, <1>7, <1>8
-----------------------------------------------------------------------------
(* Threads.  mutex_ is held exactly while pc is in one of these places.     *)

Inside == {"begin", "issue", "close"}          \* ComputeConstraintsForScan
Locked == Inside \cup {"register", "drain"}
Places == Locked \cup {"optimize", "solve"}
MainPlaces == (Places \ {"drain"})
              \cup {"idle", "append", "wait_final", "await_final", "wait_destroy",
                    "await_destroy", "destroy", "destroyed"}
WorkerPlaces == Places \cup {"pool", "return", "resume"}

PlacesOK ==
    /\ pc \in [Threads -> MainPlaces \cup WorkerPlaces]
    /\ pc[Main] \in MainPlaces
    /\ \A w \in Workers : pc[w] \in WorkerPlaces
    /\ mutex \in Threads \cup {Free}
    /\ \A th \in Threads : pc[th] \in Locked <=> mutex = th

\* A worker that has left the pool runs a callback, beyond its beginning that of a queue.
CallsOK ==
    /\ \A w \in Workers : pc[w] # "pool" => call[w] # None
    /\ \A w \in Workers : pc[w] \notin {"pool", "return"} => call[w].callback = "loop_closure"

ScanOK ==
    /\ scan \in Scans \cup {None}
    /\ incoming \in Incoming \cup {None}
    /\ incoming # None <=> pc[Main] = "append"
    /\ \A th \in Threads : pc[th] \in Inside => scan # None
    /\ scan # None => \E th \in Threads : pc[th] \in Inside \cup {"register"}
    /\ scan # None /\ (\A th \in Threads : pc[th] # "issue") => scan.todo = {}

\* Main executes its scan directly, when there is no queue; a worker the one in front.
QueueOK ==
    /\ scan_queue \in Queues \cup {None}
    /\ run_loop_closure \in BOOLEAN
    /\ scan_queue = None => ~run_loop_closure
    /\ \A th \in Threads : pc[th] \in Inside => ~run_loop_closure
    /\ pc[Main] \in Inside => scan_queue = None
    /\ \A w \in Workers : pc[w] \in Inside =>
          scan_queue # None /\ scan_queue # <<>> /\ Head(scan_queue) = scan.item

\* Thread th registers the callback for the queue, or runs it.
Works(th) == \/ pc[th] = "register"
             \/ /\ th \in Workers
                /\ call[th] # None
                /\ call[th].callback = "loop_closure"
                /\ pc[th] # "return"

Registered == when_done = "loop_closure"

OneOwner ==
    /\ scan_queue = None => ~Registered /\ \A th \in Threads : ~Works(th)
    /\ scan_queue # None => Registered \/ \E th \in Threads : Works(th)
    /\ Registered => \A th \in Threads : ~Works(th)
    /\ \A a, b \in Threads : Works(a) /\ Works(b) => a = b
-----------------------------------------------------------------------------
(* The order of the work items.                                             *)

\* What is left to execute: the scan Main is about to process, or the queue.
Backlog == IF scan_queue = None
           THEN IF pc[Main] = "begin" THEN <<scan.item>> ELSE <<>>
           ELSE IF \E w \in Workers : pc[w] \in {"issue", "close"} THEN Tail(scan_queue)
                                                                   ELSE scan_queue

IsScan(item, t) == item.kind = "scan" /\ item.trajectory = t

\* The scans of trajectory t in queue q are those from low to high, in order.
InLine(q, t, low, high) ==
    /\ \A i \in DOMAIN q : IsScan(q[i], t) =>
          /\ low <= q[i].index /\ q[i].index < high
          /\ \A j \in DOMAIN q : i < j /\ IsScan(q[j], t) => q[i].index < q[j].index
    /\ \A k \in Nat : low <= k /\ k < high =>
          \E i \in DOMAIN q : IsScan(q[i], t) /\ q[i].index = k

CountsOK ==
    /\ trajectory_nodes \in [Trajectories -> Seq(Nat)]
    /\ node_data \in [Trajectories -> Nat]
    /\ frame \in [Trajectories -> Nat]
    /\ \A t \in Trajectories : node_data[t] <= Len(trajectory_nodes[t])
    /\ \A t \in Trajectories : Len(trajectory_nodes[t]) <= MaxNodes
    /\ incoming # None => Len(trajectory_nodes[incoming.trajectory]) < MaxNodes

\* The scans in the backlog are those that are not in the optimization problem, in order.
BacklogOK ==
    \A t \in Trajectories :
       InLine(Backlog, t, node_data[t], Len(trajectory_nodes[t]))

\* While its pairs are matched, a scan is the last in the optimization problem.
IssuedIsLast ==
    \A th \in Threads : pc[th] = "issue" =>
       scan.item.index + 1 = node_data[scan.item.trajectory]

-----------------------------------------------------------------------------
(* What the scans were inserted into.                                       *)

\* Scan k is inserted into submap b, the last one, and into the one before.
IsBack(b, k) == b * NumRangeData <= k /\ k < (b + 1) * NumRangeData

\* Scan k of trajectory t goes into submap j.
Inserts(j, k) == j * NumRangeData <= k /\ k < (j + 2) * NumRangeData

\* An item of scan k says what it was inserted into, and whether it finished the first.
InsertedAs(t, k, insertion, finished) ==
    \E b \in 0..MaxNodes :
       /\ IsBack(b, k)
       /\ insertion = {<<t, j>> : j \in {i \in 0..b : i >= b - 1}}
       /\ finished = (b > 0 /\ k + 1 = (b + 1) * NumRangeData)

ItemOK(item) == InsertedAs(item.trajectory, item.index, item.insertion, item.finished)

ItemsOK == /\ \A i \in DOMAIN Backlog : Backlog[i] # ImuItem => ItemOK(Backlog[i])
           /\ scan # None => ItemOK(scan.item)
           /\ incoming # None =>
                 InsertedAs(incoming.trajectory, Len(trajectory_nodes[incoming.trajectory]),
                            incoming.insertion, incoming.finished)

\* The range data inserted so far.
Inserted(t) == IF incoming # None /\ incoming.trajectory = t
               THEN Len(trajectory_nodes[t]) + 1 ELSE Len(trajectory_nodes[t])

\* Submaps of a trajectory that got k range data.
Holding(list, k) ==
    /\ list \in Seq(SM!Submap)
    /\ Len(list) > 0
    /\ IsBack(Len(list) - 1, k)
    /\ \A i \in 1..Len(list) :
          /\ list[i].finished <=> (i + 1) * NumRangeData <= k
          /\ i >= Len(list) - 1 => list[i].num_range_data = k - (i - 1) * NumRangeData

SubmapsOK == /\ submaps \in [Trajectories -> Seq(SM!Submap)]
             /\ \A t \in Trajectories : Holding(submaps[t], Inserted(t))

\* The pairs of a scan of trajectory t are being matched.
Issuing(t) == scan # None /\ scan.item.trajectory = t /\ \E th \in Threads : pc[th] = "issue"

\* Scans of trajectory t that have been processed to the end.
Ended(t) == IF Issuing(t) THEN node_data[t] - 1 ELSE node_data[t]

GraphOK ==
    /\ submap_data \in [Trajectories -> Nat]
    /\ \A t \in Trajectories :
          IF node_data[t] = 0 THEN submap_data[t] = 0
          ELSE /\ (submap_data[t] - 1) * NumRangeData < node_data[t]
               /\ node_data[t] <= submap_data[t] * NumRangeData
    /\ DOMAIN submap_states =
          {s \in SubmapIds : s[2] * NumRangeData < Len(trajectory_nodes[s[1]])}
    /\ \A s \in DOMAIN submap_states :
          /\ submap_states[s] \in [finished : BOOLEAN, node_ids : SUBSET NodeIds]
          /\ submap_states[s].finished <=> (s[2] + 2) * NumRangeData <= Ended(s[1])
          /\ \A n \in NodeIds :
                n \in submap_states[s].node_ids <=>
                   n[1] = s[1] /\ Inserts(s[2], n[2]) /\ n[2] < node_data[n[1]]
-----------------------------------------------------------------------------
\* The safety of the threads, the builder and the queue.
ThreadInv == /\ PlacesOK
             /\ CallsOK
             /\ ScanOK
             /\ QueueOK
             /\ OneOwner
             /\ CBP!BuilderInv
-----------------------------------------------------------------------------
(* What a step does to the builder.                                         *)

builderButFailed ==
    <<when_done, current_computation, pending_computations, slots, scan_matchers,
      queued_work_items, work_queue, executing, computed, call>>

BuilderRests == UNCHANGED builderButFailed /\ failed' \in BOOLEAN

\* The steps with CHECKs beside those of the builder.
Checks == Destroy \/ \E th \in Threads : BeginScan(th) \/ RequestLoopClosure(th)

LEMMA CommonBuilderSteps ==
    ASSUME ScanOK, QueueOK, CBP!TypeOK, NEW th \in Threads, Common(th)
    PROVE  \/ BuilderRests /\ (UNCHANGED failed \/ BeginScan(th) \/ RequestLoopClosure(th))
           \/ /\ IssueConstraint(th)
              /\ \E s \in SubmapIds, n \in NodeIds, g \in BOOLEAN : CBP!AddComputation(s, n, g)
           \/ CBP!NotifyEndOfScan
           \/ HandleScanQueue(th) /\ CBP!WhenDone("loop_closure")
<1>1. CASE BeginScan(th) \/ RequestLoopClosure(th) \/ RunOptimization(th)
           \/ PublishOptimization(th)
  BY <1>1 DEF BeginScan, RequestLoopClosure, RunOptimization, PublishOptimization, builder,
     BuilderRests, builderButFailed, QueueOK, CBP!TypeOK
<1>2. CASE IssueConstraint(th)
  <2>1. PICK pair \in scan.todo : ComputeConstraint(pair)
    BY <1>2 DEF IssueConstraint
  <2>2. scan \in Scans
    BY <1>2 DEF IssueConstraint, At, ScanOK, Inside
  <2>3. pair[1] \in NodeIds /\ pair[2] \in SubmapIds
    BY <2>2 DEF Scans
  <2>4. CASE UNCHANGED builder
    BY <2>4 DEF builder, BuilderRests,
     builderButFailed, CBP!TypeOK
  <2>5. CASE CB!MaybeAddGlobalConstraint(pair[2], pair[1])
    BY <1>2, <2>3, <2>5, BuilderActions DEF CB!MaybeAddGlobalConstraint
  <2>6. CASE CB!MaybeAddConstraint(pair[2], pair[1])
    <3>1. CASE UNCHANGED CB!vars
      BY <2>4, <3>1 DEF CB!vars, CB!clientvars, CB!matchvars, CB!poolvars, builder
    <3> QED
      BY <1>2, <2>3, <2>6, <3>1, BuilderActions DEF CB!MaybeAddConstraint
  <2> QED
    BY <1>2, <2>1, <2>4, <2>5, <2>6 DEF ComputeConstraint
<1>3. CASE EndScan(th)
  BY <1>3, BuilderActions DEF EndScan
<1>4. CASE HandleScanQueue(th)
  BY <1>4, BuilderActions DEF HandleScanQueue
<1> QED
  BY <1>1, <1>2, <1>3, <1>4 DEF Common

LEMMA BuilderSteps ==
    ASSUME ScanOK, QueueOK, CBP!TypeOK, [Next]_vars
    PROVE  \/ BuilderRests /\ (UNCHANGED failed \/ Checks)
           \/ /\ \E th \in Threads : IssueConstraint(th)
              /\ \E s \in SubmapIds, n \in NodeIds, g \in BOOLEAN : CBP!AddComputation(s, n, g)
           \/ CBP!NotifyEndOfScan
           \/ (\E th \in Threads : HandleScanQueue(th)) /\ CBP!WhenDone("loop_closure")
           \/ pc[Main] \in {"wait_final", "wait_destroy"} /\ CBP!WhenDone("final")
           \/ \E w \in Workers : \/ CBP!Start(w)
                                 \/ CBP!ConstructSubmapScanMatcher(w)
                                 \/ \E match \in BOOLEAN : CBP!ComputeConstraint(w, match)
                                 \/ CBP!FinishComputation(w)
                                 \/ CBP!ReturnFromCallback(w)
<1>1. CASE MainCall
  BY <1>1 DEF CBP!TypeOK, MainCall, AddScan, AddImuData, RunFinalOptimization, builder, BuilderRests,
     builderButFailed
<1>2. ASSUME NEW th \in Threads, Common(th)
      PROVE  \/ BuilderRests /\ (UNCHANGED failed \/ BeginScan(th) \/ RequestLoopClosure(th))
             \/ /\ IssueConstraint(th)
                /\ \E s \in SubmapIds, n \in NodeIds, g \in BOOLEAN : CBP!AddComputation(s, n, g)
             \/ CBP!NotifyEndOfScan
             \/ HandleScanQueue(th) /\ CBP!WhenDone("loop_closure")
  BY <1>2, CommonBuilderSteps
<1>3. CASE MainStep
  <2>1. ASSUME NEW here, NEW next, WaitForAllComputations(here, next)
        PROVE  pc[Main] = here /\ CBP!WhenDone("final")
    BY <2>1, BuilderActions DEF WaitForAllComputations, At
  <2>2. ASSUME NEW here, NEW next, AwaitNotification(here, next)
        PROVE  BuilderRests /\ UNCHANGED failed
    BY <2>2 DEF CBP!TypeOK, AwaitNotification, builder, BuilderRests,
     builderButFailed
  <2>3. CASE AppendScan \/ Destroy
    BY <2>3 DEF Checks, CBP!TypeOK, AppendScan, Destroy, builder, BuilderRests,
     builderButFailed
  <2> QED
    BY <1>2, <1>3, <2>1, <2>2, <2>3 DEF MainStep, Threads, Checks
<1>4. ASSUME NEW w \in Workers, WorkerStep(w)
      PROVE  \/ Common(w)
             \/ BuilderRests /\ UNCHANGED failed
             \/ CBP!Start(w)
             \/ CBP!ConstructSubmapScanMatcher(w)
             \/ \E match \in BOOLEAN : CBP!ComputeConstraint(w, match)
             \/ CBP!FinishComputation(w)
             \/ CBP!ReturnFromCallback(w)
  <2>1. CASE BuilderStep(w)
    BY <2>1, BuilderActions DEF BuilderStep
  <2>2. ASSUME NEW match \in BOOLEAN, Match(w, match) PROVE CBP!ComputeConstraint(w, match)
    BY <2>2, BuilderActions DEF Match
  <2>3. CASE EnterCallback(w) \/ Resume(w) \/ LeaveLoop(w) \/ WorkOffQueue(w)
    BY <2>3 DEF CBP!TypeOK, EnterCallback, Resume, LeaveLoop, WorkOffQueue, builder, BuilderRests,
     builderButFailed
  <2>4. CASE ReturnFromCallback(w)
    BY <2>4, BuilderActions DEF ReturnFromCallback
  <2> QED
    BY <1>4, <2>1, <2>2, <2>3, <2>4 DEF WorkerStep
<1>5. CASE Rest \/ UNCHANGED vars
  BY <1>5 DEF CBP!TypeOK, Rest, vars, builder, BuilderRests,
     builderButFailed
<1> QED
  BY <1>1, <1>2, <1>3, <1>4, <1>5 DEF Next, Threads, Checks

\* As long as no CHECK fails the builder keeps its invariant.
LEMMA BuilderKept ==
    ASSUME ScanOK, QueueOK, CBP!BuilderInv, [Next]_vars, ~failed'
    PROVE  CBP!BuilderInv'
<1>1. CBP!ConstantsOK
  BY BuilderAssumption, BuilderDefs DEF BuilderAssumption
<1>2. CBP!TypeOK /\ ~failed
  BY DEF CBP!BuilderInv, CBP!NoCheckFails
<1>3. CASE BuilderRests
  <2>1. UNCHANGED CBP!vars
    BY <1>2, <1>3
       DEF CBP!vars, CBP!clientvars, CBP!matchvars, CBP!poolvars, BuilderRests,
           builderButFailed, CBP!TypeOK
  <2> QED
    BY <2>1, CBP!UnchangedKeepsInv DEF CBP!UnchangedKeepsInv
<1>4. ASSUME NEW s \in SubmapIds, NEW n \in NodeIds, NEW g \in BOOLEAN,
             CBP!AddComputation(s, n, g)
      PROVE  CBP!BuilderInv'
  BY <1>1, <1>4, CBP!AddKeepsInv DEF CBP!AddKeepsInv
<1>5. CASE CBP!NotifyEndOfScan
  BY <1>1, <1>5, CBP!NotifyKeepsInv DEF CBP!NotifyKeepsInv
<1>6. ASSUME NEW c \in {"loop_closure", "final"}, CBP!WhenDone(c) PROVE CBP!BuilderInv'
  <2>1. when_done = None
    BY <1>6 DEF CBP!WhenDone
  <2> QED
    BY <1>1, <1>6, <2>1, CBP!WhenDoneKeepsInv DEF CBP!WhenDoneKeepsInv
<1>7. ASSUME NEW w \in Workers, CBP!Start(w) PROVE CBP!BuilderInv'
  BY <1>1, <1>7, CBP!StartKeepsInv DEF CBP!StartKeepsInv
<1>8. ASSUME NEW w \in Workers, CBP!ConstructSubmapScanMatcher(w) PROVE CBP!BuilderInv'
  BY <1>1, <1>8, CBP!ConstructKeepsInv DEF CBP!ConstructKeepsInv
<1>9. ASSUME NEW w \in Workers, NEW match \in BOOLEAN, CBP!ComputeConstraint(w, match)
      PROVE  CBP!BuilderInv'
  BY <1>1, <1>9, CBP!ComputeKeepsInv DEF CBP!ComputeKeepsInv
<1>10. ASSUME NEW w \in Workers, CBP!FinishComputation(w) PROVE CBP!BuilderInv'
  BY <1>1, <1>10, CBP!FinishKeepsInv DEF CBP!FinishKeepsInv
<1>11. ASSUME NEW w \in Workers, CBP!ReturnFromCallback(w) PROVE CBP!BuilderInv'
  BY <1>1, <1>11, CBP!ReturnKeepsInv DEF CBP!ReturnKeepsInv
<1> QED
  BY <1>2, <1>3, <1>4, <1>5, <1>6, <1>7, <1>8, <1>9, <1>10, <1>11, BuilderSteps
-----------------------------------------------------------------------------
(* The threads and the lock.                                                *)

\* A step takes one thread from one place to the next.  The lock is taken or released when
\* the thread comes to or leaves a place where it is held.
LEMMA StepsOfPlaces ==
    ASSUME PlacesOK, NEW th \in Threads, NEW l,
           l \in (IF th = Main THEN MainPlaces ELSE WorkerPlaces),
           pc' = [pc EXCEPT ![th] = l],
           \/ mutex' = mutex /\ (pc[th] \in Locked <=> l \in Locked)
           \/ mutex = Free /\ mutex' = th /\ l \in Locked
           \/ pc[th] \in Locked /\ mutex' = Free /\ l \notin Locked
    PROVE  PlacesOK'
BY ThreadsAssumption DEF PlacesOK, Threads, ThreadsAssumption

LEMMA PlacesKept ==
    ASSUME PlacesOK, [Next]_vars
    PROVE  PlacesOK'
<1> USE DEF Goto, At
<1>1. ASSUME NEW th \in Threads, Common(th) PROVE PlacesOK'
  <2>1. /\ Main \in Threads /\ (th # Main => th \in Workers)
        /\ pc[th] \in (IF th = Main THEN MainPlaces ELSE WorkerPlaces)
        /\ pc[th] \in Locked <=> mutex = th
        /\ pc = [pc EXCEPT ![th] = pc[th]]
    BY DEF PlacesOK, Threads
  <2> USE <2>1, StepsOfPlaces DEF MainPlaces, WorkerPlaces, Places, Locked, Inside
  <2>2. CASE BeginScan(th)
    BY <2>2 DEF BeginScan
  <2>3. CASE IssueConstraint(th)
    BY <2>3 DEF IssueConstraint, ComputeConstraint
  <2>4. CASE EndScan(th)
    BY <2>4 DEF EndScan, ItemDone
  <2>5. CASE RequestLoopClosure(th)
    BY <2>5 DEF RequestLoopClosure, ItemDone
  <2>6. CASE HandleScanQueue(th)
    BY <2>6 DEF HandleScanQueue
  <2>7. CASE RunOptimization(th) \/ PublishOptimization(th)
    BY <2>7 DEF RunOptimization, PublishOptimization, AfterOptimization
  <2> QED
    BY <1>1, <2>2, <2>3, <2>4, <2>5, <2>6, <2>7 DEF Common
<1>2. CASE UNCHANGED <<pc, mutex>>
  BY <1>2 DEF PlacesOK
<1>3. CASE MainCall \/ MainStep
  <2>1. Main \in Threads /\ pc[Main] \in MainPlaces
    BY DEF PlacesOK, Threads
  <2> USE <2>1, StepsOfPlaces DEF MainPlaces, Places, Locked, Inside
  <2>2. CASE (\E t \in Trajectories : AddScan(t)) \/ RunFinalOptimization
    BY <2>2 DEF AddScan, RunFinalOptimization
  <2>3. CASE AppendScan
    BY <2>3 DEF AppendScan
  <2>4. CASE AddImuData
    BY <1>2, <2>4 DEF AddImuData
  <2>5. CASE \/ WaitForAllComputations("wait_final", "await_final")
             \/ WaitForAllComputations("wait_destroy", "await_destroy")
    BY <2>5 DEF WaitForAllComputations
  <2>6. CASE \/ AwaitNotification("await_final", "optimize")
             \/ AwaitNotification("await_destroy", "destroy")
             \/ Destroy
    BY <2>6 DEF AwaitNotification, Destroy
  <2> QED
    BY <1>1, <1>3, <2>2, <2>3, <2>4, <2>5, <2>6 DEF MainCall, MainStep
<1>4. ASSUME NEW w \in Workers, WorkerStep(w) PROVE PlacesOK'
  <2>1. w \in Threads /\ w # Main /\ pc[w] \in WorkerPlaces
    BY ThreadsAssumption DEF PlacesOK, Threads, ThreadsAssumption
  <2> USE <2>1, StepsOfPlaces DEF WorkerPlaces, Places, Locked, Inside
  <2>2. CASE BuilderStep(w) \/ \E match \in BOOLEAN : Match(w, match)
    BY <1>2, <2>2 DEF BuilderStep, Match
  <2>3. CASE EnterCallback(w)
    BY <2>3 DEF EnterCallback
  <2>4. CASE Resume(w)
    BY <2>4 DEF Resume
  <2>5. CASE LeaveLoop(w)
    <3>1. pc[w] = "drain" /\ mutex = w
      BY <2>5 DEF LeaveLoop, PlacesOK
    <3> QED
      BY <2>5, <3>1 DEF LeaveLoop
  <2>6. CASE WorkOffQueue(w)
    BY <1>2, <2>6 DEF WorkOffQueue
  <2>7. CASE ReturnFromCallback(w)
    BY <2>7 DEF ReturnFromCallback
  <2> QED
    BY <1>1, <1>4, <2>1, <2>2, <2>3, <2>4, <2>5, <2>6, <2>7 DEF WorkerStep
<1>5. CASE Rest \/ UNCHANGED vars
  BY <1>2, <1>5 DEF Rest, vars
<1> QED
  BY <1>1, <1>3, <1>4, <1>5 DEF Next, Threads
-----------------------------------------------------------------------------
(* The steps, one by one.                                                   *)

LEMMA Steps ==
    ASSUME [Next]_vars
    PROVE  \/ \E t \in Trajectories : AddScan(t)
           \/ AppendScan
           \/ AddImuData
           \/ RunFinalOptimization
           \/ \E here \in {"wait_final", "wait_destroy"}, next \in {"await_final", "await_destroy"} :
                 WaitForAllComputations(here, next)
           \/ \E here \in {"await_final", "await_destroy"}, next \in {"optimize", "destroy"} :
                 AwaitNotification(here, next)
           \/ Destroy
           \/ \E th \in Threads : \/ BeginScan(th)
                                  \/ IssueConstraint(th)
                                  \/ EndScan(th)
                                  \/ RequestLoopClosure(th)
                                  \/ HandleScanQueue(th)
                                  \/ RunOptimization(th)
                                  \/ PublishOptimization(th)
           \/ \E w \in Workers : \/ BuilderStep(w)
                                 \/ \E match \in BOOLEAN : Match(w, match)
                                 \/ EnterCallback(w)
                                 \/ Resume(w)
                                 \/ LeaveLoop(w)
                                 \/ WorkOffQueue(w)
                                 \/ ReturnFromCallback(w)
           \/ UNCHANGED vars
<1>1. CASE MainCall
  BY <1>1 DEF MainCall
<1>2. CASE MainStep
  BY <1>2 DEF MainStep, Common, Threads
<1>3. ASSUME NEW w \in Workers, WorkerStep(w)
      PROVE  \/ Common(w)
             \/ BuilderStep(w)
             \/ \E match \in BOOLEAN : Match(w, match)
             \/ EnterCallback(w) \/ Resume(w) \/ LeaveLoop(w) \/ WorkOffQueue(w)
             \/ ReturnFromCallback(w)
  BY <1>3 DEF WorkerStep
<1> QED
  BY <1>1, <1>2, <1>3 DEF Next, Rest, Common, Threads

\* What the steps of the builder do to the callbacks.
LEMMA BuilderStepCalls ==
    ASSUME CBP!TypeOK, NEW w \in Workers, BuilderStep(w)
    PROVE  \/ UNCHANGED <<call, when_done>>
           \/ /\ when_done \in {"loop_closure", "final"}
              /\ call[w] = None
              /\ \E c \in CBP!Call : /\ c.callback = when_done
                                     /\ call' = [call EXCEPT ![w] = c]
              /\ when_done' = None
<1>1. CASE CB!Start(w)
  BY <1>1 DEF CB!Start, CB!clientvars
<1>2. CASE CB!ConstructSubmapScanMatcher(w)
  BY <1>2 DEF CB!ConstructSubmapScanMatcher, CB!clientvars
<1>3. CASE CB!FinishComputation(w)
  <2>1. CASE UNCHANGED <<call, when_done>>
    BY <2>1
  <2>2. CASE /\ when_done # None
             /\ call' = [call EXCEPT ![w] = [callback |-> when_done, result |-> CB!Found]]
             /\ when_done' = None
    <3>1. when_done \in {"loop_closure", "final"}
      BY <2>2 DEF CBP!TypeOK
    <3>2. CB!Found \subseteq CBP!Constraint
      BY DEF CB!Found, CBP!TypeOK
    <3>3. [callback |-> when_done, result |-> CB!Found] \in CBP!Call
      BY <3>1, <3>2 DEF CBP!Call
    <3>4. call[w] = None
      BY <1>3 DEF CB!FinishComputation, CB!Executes
    <3> QED
      BY <2>2, <3>1, <3>3, <3>4
  <2> QED
    BY <1>3, <2>1, <2>2 DEF CB!FinishComputation
<1> QED
  BY <1>1, <1>2, <1>3 DEF BuilderStep

\* A call is what is called and with which result.
LEMMA CallFields ==
    ASSUME CBP!TypeOK, CBP!ConstantsOK
    PROVE  /\ None \notin CBP!Call
           /\ None # "loop_closure" /\ None # "final"
           /\ \A w \in Workers : call[w] # None =>
                 /\ call[w].callback \in {"loop_closure", "final"}
                 /\ call[w].result \subseteq CBP!Constraint
           /\ \A c \in CBP!Call : c.callback \in {"loop_closure", "final"}
BY CBP!Nulls DEF CBP!Nulls, CBP!TypeOK, CBP!Call

\* The other steps: a callback is registered, it returns, or nothing happens to it.
LEMMA OtherCalls ==
    /\ \A th : HandleScanQueue(th) => /\ when_done' = "loop_closure"
                                      /\ failed' = (when_done # None)
                                      /\ UNCHANGED call
    /\ \A here, next : WaitForAllComputations(here, next) => /\ when_done' = "final"
                                                             /\ failed' = (when_done # None)
                                                             /\ UNCHANGED call
    /\ \A w : ReturnFromCallback(w) => /\ call' = [call EXCEPT ![w] = None]
                                       /\ UNCHANGED when_done
    /\ \A th : \/ BeginScan(th) \/ IssueConstraint(th) \/ EndScan(th)
               \/ RequestLoopClosure(th) \/ RunOptimization(th) \/ PublishOptimization(th)
               => UNCHANGED <<call, when_done>>
    /\ \A w : \/ \E match : Match(w, match)
              \/ EnterCallback(w) \/ Resume(w) \/ LeaveLoop(w) \/ WorkOffQueue(w)
              => UNCHANGED <<call, when_done>>
    /\ \/ \E t : AddScan(t)
       \/ AppendScan \/ AddImuData \/ RunFinalOptimization \/ Destroy
       \/ \E here, next : AwaitNotification(here, next)
       \/ UNCHANGED vars
       => UNCHANGED <<call, when_done>>
<1>1. \A th : HandleScanQueue(th) => /\ when_done' = "loop_closure"
                                     /\ failed' = (when_done # None)
                                     /\ UNCHANGED call
  BY DEF HandleScanQueue, CB!WhenDone
<1>2. \A here, next : WaitForAllComputations(here, next) => /\ when_done' = "final"
                                                            /\ failed' = (when_done # None)
                                                            /\ UNCHANGED call
  BY DEF WaitForAllComputations, CB!WhenDone
<1>3. \A w : ReturnFromCallback(w) => /\ call' = [call EXCEPT ![w] = None]
                                      /\ UNCHANGED when_done
  BY DEF ReturnFromCallback, CB!ReturnFromCallback, CB!clientvars
<1>4. \A th : BeginScan(th) \/ RequestLoopClosure(th) \/ RunOptimization(th)
              \/ PublishOptimization(th)
              => UNCHANGED <<call, when_done>>
  BY DEF BeginScan, RequestLoopClosure, RunOptimization, PublishOptimization, builder
<1>5. \A th : EndScan(th) => UNCHANGED <<call, when_done>>
  BY DEF EndScan, CB!NotifyEndOfScan
<1>6. \A th : IssueConstraint(th) => UNCHANGED <<call, when_done>>
  <2>1. \A s, n, g : CB!AddComputation(s, n, g) => UNCHANGED <<call, when_done>>
    BY DEF CB!AddComputation
  <2> QED
    BY <2>1 DEF IssueConstraint, ComputeConstraint, CB!MaybeAddConstraint,
       CB!MaybeAddGlobalConstraint, CB!vars, CB!clientvars, builder
<1>7. \A w, match : Match(w, match) => UNCHANGED <<call, when_done>>
  BY DEF Match, CB!ComputeConstraint, CB!clientvars
<1>8. \A w : EnterCallback(w) \/ Resume(w) \/ LeaveLoop(w) \/ WorkOffQueue(w)
             => UNCHANGED <<call, when_done>>
  BY DEF EnterCallback, Resume, LeaveLoop, WorkOffQueue, builder
<1>9. \/ \E t : AddScan(t)
      \/ AppendScan \/ AddImuData \/ RunFinalOptimization \/ Destroy
      \/ \E here, next : AwaitNotification(here, next)
      \/ UNCHANGED vars
      => UNCHANGED <<call, when_done>>
  BY DEF AddScan, AppendScan, AddImuData, RunFinalOptimization, Destroy, AwaitNotification,
     vars, builder
<1> QED
  BY <1>1, <1>2, <1>3, <1>4, <1>5, <1>6, <1>7, <1>8, <1>9
-----------------------------------------------------------------------------
(* Which submaps a scan goes into.                                          *)

\* Multiples of the number of range data.
LEMMA Multiples ==
    \A i, j \in Int : /\ i * NumRangeData \in Int
                      /\ (i + 1) * NumRangeData = i * NumRangeData + NumRangeData
                      /\ (i + 2) * NumRangeData = i * NumRangeData + 2 * NumRangeData
                      /\ i <= j => i * NumRangeData <= j * NumRangeData
                      /\ i < j => (i + 1) * NumRangeData <= j * NumRangeData
<1>0. NumRangeData \in Nat \ {0}
  BY BoundsAssumption DEF BoundsAssumption
<1>1. \A d \in Nat : d * NumRangeData >= 0
  BY <1>0
<1>2. \A i, j \in Int : i <= j => i * NumRangeData <= j * NumRangeData
  <2> SUFFICES ASSUME NEW i \in Int, NEW j \in Int, i <= j
               PROVE  i * NumRangeData <= j * NumRangeData
    OBVIOUS
  <2>1. j - i \in Nat
    OBVIOUS
  <2>2. (j - i) * NumRangeData = j * NumRangeData - i * NumRangeData
    BY <1>0
  <2> QED
    BY <1>0, <1>1, <2>1, <2>2
<1> QED
  BY <1>0, <1>2

\* A scan has one last submap.
LEMMA InsertedWhere ==
    ASSUME NEW b \in Int, NEW k \in Nat, NEW j \in Int, IsBack(b, k), b >= 0, j >= 0
    PROVE  /\ Inserts(j, k) <=> j \in {i \in 0..b : i >= b - 1}
           /\ IsBack(j, k) <=> j = b
<1>0. NumRangeData \in Nat \ {0}
  BY BoundsAssumption DEF BoundsAssumption
<1>1. CASE j < b - 1
  <2>1. /\ (j + 2) * NumRangeData <= b * NumRangeData
        /\ (j + 1) * NumRangeData <= b * NumRangeData
    <3>1. PICK i \in Int : i = j + 1
      OBVIOUS
    <3>2. i < b /\ i <= b /\ i + 1 = j + 2
      BY <1>1, <3>1
    <3>3. (i <= b => i * NumRangeData <= b * NumRangeData)
          /\ (i < b => (i + 1) * NumRangeData <= b * NumRangeData)
      BY Multiples, Zenon
    <3> QED
      BY <3>1, <3>2, <3>3
  <2> QED
    BY <1>0, <1>1, <2>1, Multiples DEF Inserts, IsBack
<1>2. CASE j > b
  <2>1. (b + 1) * NumRangeData <= j * NumRangeData
    BY <1>2, Multiples
  <2> QED
    BY <1>0, <1>2, <2>1, Multiples DEF Inserts, IsBack
<1>3. CASE j = b - 1
  <2>1. b * NumRangeData = (j + 1) * NumRangeData
    BY <1>3
  <2> QED
    BY <1>0, <1>3, <2>1, Multiples DEF Inserts, IsBack
<1>4. CASE j = b
  BY <1>0, <1>4, Multiples DEF Inserts, IsBack
<1> QED
  BY <1>1, <1>2, <1>3, <1>4

LEMMA ItemGeometry ==
    ASSUME NEW item \in ScanItems, ItemOK(item)
    PROVE  \E b \in 0..MaxNodes :
              /\ IsBack(b, item.index)
              /\ BackSubmap(item) = <<item.trajectory, b>>
              /\ FrontSubmap(item) = <<item.trajectory, IF b = 0 THEN 0 ELSE b - 1>>
              /\ BackSubmap(item) \in SubmapIds /\ FrontSubmap(item) \in SubmapIds
              /\ \A s \in SubmapIds :
                    s \in item.insertion <=> s[1] = item.trajectory /\ Inserts(s[2], item.index)
              /\ Cardinality(item.insertion) = 1 <=> b = 0
              /\ item.finished <=> b > 0 /\ item.index + 1 = (b + 1) * NumRangeData
<1>0. MaxNodes \in Nat \ {0} /\ Trajectories \subseteq Nat
  BY BoundsAssumption, TrajectoriesAssumption DEF BoundsAssumption, TrajectoriesAssumption
<1>1. PICK b \in 0..MaxNodes :
         /\ IsBack(b, item.index)
         /\ item.insertion = {<<item.trajectory, j>> : j \in {i \in 0..b : i >= b - 1}}
         /\ item.finished = (b > 0 /\ item.index + 1 = (b + 1) * NumRangeData)
  BY DEF ItemOK, InsertedAs
<1>2. PICK t : t = item.trajectory
  OBVIOUS
<1>3. PICK front : front = IF b = 0 THEN 0 ELSE b - 1
  OBVIOUS
<1>4. t \in Trajectories /\ t \in Nat /\ item.index \in Nat
  BY <1>0, <1>2 DEF ScanItems
<1>5. front \in 0..MaxNodes /\ b \in Nat
  BY <1>0, <1>3
<1>6. \A s : s \in item.insertion <=> s = <<t, b>> \/ s = <<t, front>>
  <2>1. {i \in 0..b : i >= b - 1} = {b, front}
    BY <1>0, <1>3
  <2> QED
    BY <1>1, <1>2, <2>1
<1>7. BackSubmap(item) = <<t, b>>
  <2>1. \A r \in item.insertion : ~IdLess(<<t, b>>, r)
    BY <1>0, <1>3, <1>4, <1>6 DEF IdLess
  <2>2. \A s \in item.insertion : (\A r \in item.insertion : ~IdLess(s, r)) => s = <<t, b>>
    <3>1. b # front => IdLess(<<t, front>>, <<t, b>>)
      BY <1>0, <1>3, <1>4 DEF IdLess
    <3> QED
      BY <1>6, <3>1
  <2> QED
    BY <1>6, <2>1, <2>2 DEF BackSubmap
<1>8. FrontSubmap(item) = <<t, front>>
  <2>1. \A r \in item.insertion : ~IdLess(r, <<t, front>>)
    BY <1>0, <1>3, <1>4, <1>6 DEF IdLess
  <2>2. \A s \in item.insertion : (\A r \in item.insertion : ~IdLess(r, s)) => s = <<t, front>>
    <3>1. b # front => IdLess(<<t, front>>, <<t, b>>)
      BY <1>0, <1>3, <1>4 DEF IdLess
    <3> QED
      BY <1>6, <3>1
  <2> QED
    BY <1>6, <2>1, <2>2 DEF FrontSubmap
<1>9. \A s \in SubmapIds :
         s \in item.insertion <=> s[1] = t /\ Inserts(s[2], item.index)
  <2> SUFFICES ASSUME NEW s \in SubmapIds
               PROVE  s \in item.insertion <=> s[1] = t /\ Inserts(s[2], item.index)
    OBVIOUS
  <2>1. s = <<s[1], s[2]>> /\ s[2] \in Nat
    BY <1>0 DEF SubmapIds
  <2>2. Inserts(s[2], item.index) <=> s[2] \in {i \in 0..b : i >= b - 1}
    BY <1>1, <1>4, <1>5, <2>1, InsertedWhere
  <2>3. s \in item.insertion <=> s[1] = t /\ (s[2] = b \/ s[2] = front)
    BY <1>6, <2>1
  <2> QED
    BY <1>0, <1>3, <2>1, <2>2, <2>3
<1>10. Cardinality(item.insertion) = 1 <=> b = 0
  <2>1. item.insertion = {<<t, b>>, <<t, front>>}
    BY <1>6
  <2>2. CASE b = 0
    <3>1. item.insertion = {<<t, b>>}
      BY <1>3, <2>1, <2>2
    <3> QED
      BY <2>2, <3>1, FS_Singleton
  <2>3. CASE b # 0
    <3>1. <<t, b>> # <<t, front>> /\ <<t, b>> \notin {<<t, front>>}
      BY <1>0, <1>3, <2>3
    <3>2. IsFiniteSet({<<t, front>>}) /\ Cardinality({<<t, front>>}) = 1
      BY FS_Singleton
    <3>3. item.insertion = {<<t, front>>} \cup {<<t, b>>}
      BY <2>1
    <3>4. Cardinality(item.insertion) = 1 + 1
      BY <3>1, <3>2, <3>3, FS_AddElement
    <3> QED
      BY <2>3, <3>4
  <2> QED
    BY <2>2, <2>3
<1>11. BackSubmap(item) \in SubmapIds /\ FrontSubmap(item) \in SubmapIds
  BY <1>4, <1>5, <1>7, <1>8 DEF SubmapIds
<1> QED
  BY <1>1, <1>2, <1>3, <1>7, <1>8, <1>9, <1>10, <1>11
-----------------------------------------------------------------------------
(* The submaps a trajectory builds.                                         *)

Counts == [num_range_data : Nat, finished : BOOLEAN]
Counted(list) == list \in Seq(Counts)

LEMMA CountedElement ==
    ASSUME NEW list, Counted(list)
    PROVE  /\ Len(list) \in Nat
           /\ \A j \in 1..Len(list) : /\ list[j] \in Counts
                                     /\ list[j].num_range_data \in Nat
                                     /\ list[j].finished \in BOOLEAN
<1>1. Len(list) \in Nat /\ \A j \in 1..Len(list) : list[j] \in Counts
  BY ElementOfSeq, LenProperties DEF Counted
<1> QED
  BY <1>1 DEF Counts

LEMMA Inserting ==
    ASSUME NEW list, Counted(list), NEW i \in 0..Len(list) - 1
    PROVE  /\ Counted(SM!Insert(list, i))
           /\ Len(SM!Insert(list, i)) = Len(list)
           /\ \A j \in 1..Len(list) :
                 /\ SM!Insert(list, i)[j].finished = list[j].finished
                 /\ SM!Insert(list, i)[j].num_range_data =
                       list[j].num_range_data + (IF j = i + 1 THEN 1 ELSE 0)
<1>1. i + 1 \in 1..Len(list) /\ list[i + 1] \in Counts
  BY CountedElement
<1>2. PICK x : x = [list[i + 1] EXCEPT !.num_range_data = @ + 1]
  OBVIOUS
<1>3. /\ x \in Counts
      /\ x.finished = list[i + 1].finished
      /\ x.num_range_data = list[i + 1].num_range_data + 1
  BY <1>1, <1>2 DEF Counts
<1>4. SM!Insert(list, i) = [list EXCEPT ![i + 1] = x]
  BY <1>2 DEF SM!Insert
<1>5. /\ Counted([list EXCEPT ![i + 1] = x])
      /\ Len([list EXCEPT ![i + 1] = x]) = Len(list)
      /\ \A j \in 1..Len(list) : [list EXCEPT ![i + 1] = x][j] = IF j = i + 1 THEN x ELSE list[j]
  BY <1>1, <1>3, ExceptSeq DEF Counted
<1>6. i \in Int /\ \A j \in 1..Len(list) : list[j].num_range_data \in Nat
  BY CountedElement
<1> QED
  BY <1>3, <1>4, <1>5, <1>6

LEMMA AddingSubmap ==
    ASSUME NEW list, Counted(list), Len(list) > 0
    PROVE  /\ Counted(SM!AddSubmap(list))
           /\ Len(SM!AddSubmap(list)) = Len(list) + 1
           /\ \A j \in 1..Len(list) :
                 /\ (j = Len(list) - 1 => SM!AddSubmap(list)[j].finished = TRUE)
                 /\ (j # Len(list) - 1 => SM!AddSubmap(list)[j].finished = list[j].finished)
                 /\ SM!AddSubmap(list)[j].num_range_data = list[j].num_range_data
           /\ SM!AddSubmap(list)[Len(list) + 1] = SM!EmptySubmap
<1>1. PICK old : old = IF Len(list) > 1 THEN SM!FinishSubmap(list, Len(list) - 2) ELSE list
  OBVIOUS
<1>2. \A j \in 1..Len(list) : list[j] \in Counts
  BY CountedElement
<1>3. /\ Counted(old)
      /\ Len(old) = Len(list)
      /\ \A j \in 1..Len(list) :
            /\ (j = Len(list) - 1 => old[j].finished = TRUE)
            /\ (j # Len(list) - 1 => old[j].finished = list[j].finished)
            /\ old[j].num_range_data = list[j].num_range_data
  <2>1. CASE Len(list) > 1
    <3>1. PICK i : i = Len(list) - 1
      OBVIOUS
    <3>2. i \in 1..Len(list) /\ list[i] \in Counts
      BY <1>2, <2>1, <3>1, CountedElement
    <3>3. PICK x : x = [list[i] EXCEPT !.finished = TRUE]
      OBVIOUS
    <3>4. /\ x \in Counts
          /\ x.finished = TRUE
          /\ x.num_range_data = list[i].num_range_data
      BY <3>2, <3>3 DEF Counts
    <3>5. old = [list EXCEPT ![i] = x]
      <4>1. Len(list) - 2 + 1 = i
        BY <3>1 DEF Counted
      <4> QED
        BY <1>1, <2>1, <3>3, <4>1 DEF SM!FinishSubmap
    <3>6. /\ Counted([list EXCEPT ![i] = x])
          /\ Len([list EXCEPT ![i] = x]) = Len(list)
          /\ \A j \in 1..Len(list) : [list EXCEPT ![i] = x][j] = IF j = i THEN x ELSE list[j]
      BY <3>2, <3>4, ExceptSeq DEF Counted
    <3> QED
      BY <3>1, <3>4, <3>5, <3>6
  <2>2. CASE ~(Len(list) > 1)
    BY <1>1, <2>2, CountedElement
  <2> QED
    BY <2>1, <2>2
<1>4. SM!AddSubmap(list) = Append(old, SM!EmptySubmap)
  BY <1>1 DEF SM!AddSubmap
<1>5. SM!EmptySubmap \in Counts
  BY DEF SM!EmptySubmap, Counts
<1>6. /\ Counted(Append(old, SM!EmptySubmap))
      /\ Len(Append(old, SM!EmptySubmap)) = Len(list) + 1
      /\ \A j \in 1..Len(list) : Append(old, SM!EmptySubmap)[j] = old[j]
      /\ Append(old, SM!EmptySubmap)[Len(list) + 1] = SM!EmptySubmap
  BY <1>3, <1>5 DEF Counted
<1> QED
  BY <1>3, <1>4, <1>6

\* A range data goes into the last two submaps, and into a new one after them when the last
\* has all of its first half.
LEMMA RangeDataInserted ==
    ASSUME NEW list, NEW k \in Nat, Holding(list, k), k < MaxNodes, NEW t
    PROVE  /\ Holding(SM!InsertRangeData(list), k + 1)
           /\ InsertedAs(t, k, {<<t, i>> : i \in SM!InsertionIndices(list)},
                         SM!InsertRangeData(list)[SM!MatchingIndex(list) + 1].finished)
<1>0. NumRangeData \in Nat \ {0} /\ MaxNodes \in Nat \ {0}
  BY BoundsAssumption DEF BoundsAssumption
<1>1. PICK len : len = Len(list)
  OBVIOUS
<1>2. len \in Nat \ {0} /\ Counted(list)
  <2>1. SM!Submap \subseteq Counts
    BY <1>0 DEF SM!Submap, Counts
  <2>2. list \in Seq(SM!Submap) /\ Len(list) > 0
    BY DEF Holding
  <2>3. Counted(list)
    BY <2>1, <2>2, SeqMonotonic DEF Counted
  <2>4. Len(list) \in Nat
    BY <2>3, CountedElement
  <2> QED
    BY <1>1, <2>2, <2>3, <2>4
<1>3. PICK inserted : inserted = IF len - 1 > 0
                                 THEN SM!Insert(SM!Insert(list, len - 1 - 1), len - 1)
                                 ELSE SM!Insert(list, len - 1)
  OBVIOUS
<1>4. PICK new : new = IF inserted[len].num_range_data = NumRangeData
                       THEN SM!AddSubmap(inserted) ELSE inserted
  OBVIOUS
<1>5. SM!InsertRangeData(list) = new
  <2>1. len - 1 + 1 = len
    BY <1>2
  <2> QED
    BY <1>1, <1>3, <1>4, <2>1 DEF SM!InsertRangeData
<1>6. /\ Counted(inserted)
      /\ Len(inserted) = len
      /\ \A j \in 1..len :
            /\ inserted[j].finished = list[j].finished
            /\ j >= len - 1 => inserted[j].num_range_data = list[j].num_range_data + 1
            /\ j < len - 1 => inserted[j].num_range_data = list[j].num_range_data
  <2>1. CASE len > 1
    <3>1. PICK half : half = SM!Insert(list, len - 1 - 1)
      OBVIOUS
    <3>2. len - 1 - 1 \in 0..Len(list) - 1 /\ len - 1 - 1 + 1 = len - 1
      BY <1>1, <1>2, <2>1
    <3>3. /\ Counted(half)
          /\ Len(half) = len
          /\ \A j \in 1..len :
                /\ half[j].finished = list[j].finished
                /\ half[j].num_range_data =
                      list[j].num_range_data + (IF j = len - 1 THEN 1 ELSE 0)
      BY <1>1, <1>2, <3>1, <3>2, Inserting
    <3>4. len - 1 \in 0..Len(half) - 1 /\ len - 1 + 1 = len
      BY <1>2, <2>1, <3>3
    <3>5. inserted = SM!Insert(half, len - 1)
      BY <1>3, <1>2, <2>1, <3>1
    <3>6. /\ Counted(inserted)
          /\ Len(inserted) = len
          /\ \A j \in 1..len :
                /\ inserted[j].finished = half[j].finished
                /\ inserted[j].num_range_data =
                      half[j].num_range_data + (IF j = len THEN 1 ELSE 0)
      BY <3>3, <3>4, <3>5, Inserting
    <3>7. \A j \in 1..len : list[j].num_range_data \in Nat
      BY <1>1, <1>2, CountedElement
    <3> QED
      <4>1. \A j \in 1..len : inserted[j].finished = list[j].finished
        BY <3>3, <3>6
      <4>2. \A j \in 1..len : j = len - 1 \/ j = len =>
                inserted[j].num_range_data = list[j].num_range_data + 1
        BY <1>2, <3>3, <3>6, <3>7
      <4>3. \A j \in 1..len : j < len - 1 =>
                inserted[j].num_range_data = list[j].num_range_data
        BY <1>2, <3>3, <3>6, <3>7
      <4>4. \A j \in 1..len : j >= len - 1 => j = len - 1 \/ j = len
        BY <1>2
      <4> QED
        BY <3>6, <4>1, <4>2, <4>3, <4>4
  <2>2. CASE len = 1
    <3>1. 0 \in 0..Len(list) - 1 /\ len - 1 = 0
      BY <1>1, <2>2
    <3>2. inserted = SM!Insert(list, 0)
      BY <1>3, <3>1
    <3>3. /\ Counted(inserted)
          /\ Len(inserted) = len
          /\ \A j \in 1..len :
                /\ inserted[j].finished = list[j].finished
                /\ inserted[j].num_range_data =
                      list[j].num_range_data + (IF j = 0 + 1 THEN 1 ELSE 0)
      BY <1>1, <1>2, <3>1, <3>2, Inserting
    <3> QED
      BY <2>2, <3>3
  <2> QED
    BY <1>2, <2>1, <2>2
<1>7. /\ (len - 1) * NumRangeData <= k
      /\ k < len * NumRangeData
      /\ (len - 1) * NumRangeData \in Int /\ len * NumRangeData \in Int
      /\ len * NumRangeData = (len - 1) * NumRangeData + NumRangeData
      /\ (len + 1) * NumRangeData = len * NumRangeData + NumRangeData
      /\ (len - 1 - 1) * NumRangeData = (len - 1) * NumRangeData - NumRangeData
  <2>1. len - 1 + 1 = len
    BY <1>2
  <2>2. IsBack(len - 1, k)
    BY <1>1 DEF Holding
  <2> QED
    BY <1>0, <1>2, <2>1, <2>2 DEF IsBack
<1>8. \A j \in 1..len :
         /\ list[j].finished <=> (j + 1) * NumRangeData <= k
         /\ j >= len - 1 => list[j].num_range_data = k - (j - 1) * NumRangeData
         /\ list[j].finished \in BOOLEAN
  BY <1>1, <1>2, CountedElement DEF Holding
<1>9. inserted[len].num_range_data = k + 1 - (len - 1) * NumRangeData
  BY <1>2, <1>6, <1>7, <1>8
<1>10. \A j \in 1..len : j < len - 1 => (j + 1) * NumRangeData <= k
  <2> SUFFICES ASSUME NEW j \in 1..len, j < len - 1 PROVE (j + 1) * NumRangeData <= k
    OBVIOUS
  <2>1. (j + 1) * NumRangeData <= (len - 1) * NumRangeData
    BY <1>2, Multiples
  <2> QED
    BY <1>7, <2>1, Multiples
<1>11. /\ Counted(new)
       /\ Len(new) = IF k + 1 = len * NumRangeData THEN len + 1 ELSE len
       /\ IsBack(Len(new) - 1, k + 1)
       /\ \A j \in 1..Len(new) :
             /\ new[j].finished <=> (j + 1) * NumRangeData <= k + 1
             /\ j >= len - 1 => new[j].num_range_data = k + 1 - (j - 1) * NumRangeData
       /\ \A j \in 1..len - 2 : new[j].num_range_data = list[j].num_range_data
  <2>1. CASE k + 1 = len * NumRangeData
    <3>1. new = SM!AddSubmap(inserted)
      BY <1>0, <1>4, <1>7, <1>9, <2>1
    <3>2. /\ Counted(new)
          /\ Len(new) = len + 1
          /\ \A j \in 1..len :
                /\ (j = len - 1 => new[j].finished = TRUE)
                /\ (j # len - 1 => new[j].finished = inserted[j].finished)
                /\ new[j].num_range_data = inserted[j].num_range_data
          /\ new[len + 1] = SM!EmptySubmap
      <4>1. Len(inserted) > 0 /\ Counted(inserted) /\ Len(inserted) = len
        BY <1>2, <1>6
      <4> QED
        BY <3>1, <4>1, AddingSubmap
    <3>3. \A j \in 1..Len(new) :
             /\ new[j].finished <=> (j + 1) * NumRangeData <= k + 1
             /\ j >= len - 1 => new[j].num_range_data = k + 1 - (j - 1) * NumRangeData
      <4> SUFFICES ASSUME NEW j \in 1..Len(new)
                   PROVE  /\ new[j].finished <=> (j + 1) * NumRangeData <= k + 1
                          /\ j >= len - 1 =>
                                new[j].num_range_data = k + 1 - (j - 1) * NumRangeData
        OBVIOUS
      <4>1. CASE j < len - 1
        <5>1. j \in 1..len /\ j # len - 1 /\ ~(j >= len - 1)
          BY <1>2, <3>2, <4>1
        <5>2. (j + 1) * NumRangeData \in Int /\ (j + 1) * NumRangeData <= k
          BY <1>0, <1>10, <4>1, <5>1
        <5>3. new[j].finished = list[j].finished
          BY <1>6, <3>2, <5>1
        <5> QED
          BY <1>8, <5>1, <5>2, <5>3
      <4>2. CASE j = len - 1
        <5>1. j + 1 = len /\ j \in 1..len
          BY <1>2, <4>2
        <5>2. new[j].finished = TRUE
          BY <3>2, <4>2, <5>1
        <5>3. inserted[j].num_range_data = list[j].num_range_data + 1
          BY <1>2, <1>6, <4>2, <5>1
        <5>4. list[j].num_range_data = k - (j - 1) * NumRangeData
          BY <1>2, <1>8, <4>2, <5>1
        <5>5. (j - 1) * NumRangeData \in Int
          BY <1>0
        <5>6. new[j].num_range_data = k + 1 - (j - 1) * NumRangeData
          BY <3>2, <5>1, <5>3, <5>4, <5>5
        <5>7. (j + 1) * NumRangeData <= k + 1
          BY <2>1, <5>1, <1>7
        <5> QED
          BY <5>2, <5>6, <5>7
      <4>3. CASE j = len
        BY <1>0, <1>2, <1>6, <1>7, <1>8, <1>9, <2>1, <3>2, <4>3
      <4>4. CASE j = len + 1
        <5>1. (j + 1) * NumRangeData = len * NumRangeData + 2 * NumRangeData /\ j - 1 = len
          BY <1>0, <1>2, <4>4, Multiples
        <5>2. new[j].finished = FALSE /\ new[j].num_range_data = 0
          BY <3>2, <4>4 DEF SM!EmptySubmap
        <5>3. ~((j + 1) * NumRangeData <= k + 1) /\ k + 1 - (j - 1) * NumRangeData = 0
          BY <1>0, <1>2, <1>7, <2>1, <5>1
        <5> QED
          BY <5>2, <5>3
      <4> QED
        BY <1>2, <3>2, <4>1, <4>2, <4>3, <4>4
    <3>4. \A j \in 1..len - 2 : new[j].num_range_data = list[j].num_range_data
      BY <1>2, <1>6, <3>2
    <3>5. IsBack(len, k + 1)
      BY <1>0, <1>2, <1>7, <2>1 DEF IsBack
    <3>6. Len(new) - 1 = len
      BY <1>2, <3>2
    <3> QED
      BY <2>1, <3>2, <3>3, <3>4, <3>5, <3>6
  <2>2. CASE k + 1 # len * NumRangeData
    <3>1. new = inserted /\ k + 1 < len * NumRangeData
      BY <1>0, <1>4, <1>7, <1>9, <2>2
    <3>2. \A j \in 1..len :
             /\ new[j].finished <=> (j + 1) * NumRangeData <= k + 1
             /\ j >= len - 1 => new[j].num_range_data = k + 1 - (j - 1) * NumRangeData
      <4> SUFFICES ASSUME NEW j \in 1..len
                   PROVE  /\ new[j].finished <=> (j + 1) * NumRangeData <= k + 1
                          /\ j >= len - 1 =>
                                new[j].num_range_data = k + 1 - (j - 1) * NumRangeData
        OBVIOUS
      <4>1. j \in Int /\ (j + 1) * NumRangeData \in Int /\ (j - 1) * NumRangeData \in Int
        BY <1>0
      <4>2. k + 1 # (j + 1) * NumRangeData
        <5>1. CASE j < len - 1
          BY <1>10, <4>1, <5>1
        <5>2. CASE j = len - 1
          BY <1>2, <2>2, <5>2
        <5>3. CASE j = len
          BY <1>0, <1>7, <3>1, <5>3
        <5> QED
          BY <1>2, <5>1, <5>2, <5>3
      <4>3. (j + 1) * NumRangeData <= k + 1 <=> (j + 1) * NumRangeData <= k
        BY <4>1, <4>2
      <4>4. new[j].finished <=> (j + 1) * NumRangeData <= k
        BY <1>6, <1>8, <3>1
      <4>5. j >= len - 1 => new[j].num_range_data = k - (j - 1) * NumRangeData + 1
        BY <1>6, <1>8, <3>1
      <4> QED
        BY <4>1, <4>3, <4>4, <4>5
    <3>3. IsBack(len - 1, k + 1) /\ Len(new) = len
      BY <1>0, <1>2, <1>6, <1>7, <3>1 DEF IsBack
    <3>4. \A j \in 1..len - 2 : new[j].num_range_data = list[j].num_range_data
      BY <1>2, <1>6, <3>1
    <3> QED
      BY <1>2, <1>6, <2>2, <3>1, <3>2, <3>3, <3>4
  <2> QED
    BY <2>1, <2>2
<1>12. new \in Seq(SM!Submap) /\ Len(new) > 0
  <2>1. \A j \in 1..Len(new) : new[j] \in Counts /\ new[j].num_range_data \in Nat
    BY <1>11, CountedElement
  <2>2. \A j \in 1..len : list[j] \in SM!Submap
    BY <1>1, <1>2, ElementOfSeq DEF Holding
  <2>3. \A j \in 1..Len(new) : new[j].num_range_data <= 2 * NumRangeData
    <3> SUFFICES ASSUME NEW j \in 1..Len(new)
                 PROVE  new[j].num_range_data <= 2 * NumRangeData
      OBVIOUS
    <3>1. CASE j <= len - 2
      <4>1. j \in 1..len - 2 /\ j \in 1..len
        BY <1>2, <3>1
      <4>2. list[j].num_range_data <= 2 * NumRangeData
        BY <1>0, <2>2, <4>1 DEF SM!Submap
      <4> QED
        BY <1>11, <4>1, <4>2
    <3>2. CASE j > len - 2
      <4>1. PICK i : i = j - 1
        OBVIOUS
      <4>2. i \in Int /\ len - 1 - 1 \in Int /\ len - 1 - 1 <= i /\ j >= len - 1
        BY <1>2, <1>11, <3>2, <4>1
      <4>3. (len - 1 - 1) * NumRangeData <= i * NumRangeData
        BY <4>2, Multiples
      <4>4. i * NumRangeData \in Int
        BY <1>0, <4>2
      <4>5. new[j].num_range_data = k + 1 - i * NumRangeData
        BY <1>11, <4>1, <4>2
      <4>6. k + 1 <= len * NumRangeData
        BY <1>7
      <4>7. len * NumRangeData = (len - 1 - 1) * NumRangeData + 2 * NumRangeData
        BY <1>0, <1>7
      <4>8. (len - 1 - 1) * NumRangeData \in Int /\ 2 * NumRangeData \in Int
        BY <1>0, <1>2
      <4> QED
        BY <1>7, <4>3, <4>4, <4>5, <4>6, <4>7, <4>8
    <3> QED
      BY <1>2, <3>1, <3>2
  <2>4. \A j \in 1..Len(new) : new[j] \in SM!Submap
    BY <1>0, <2>1, <2>3 DEF SM!Submap, Counts
  <2>5. new \in Seq(Counts)
    BY <1>11 DEF Counted
  <2>6. new \in Seq(SM!Submap)
    BY <2>4, <2>5
  <2> QED
    BY <1>2, <1>11, <2>6
<1>13. Holding(new, k + 1)
  <2>1. \A j \in 1..Len(new) : j >= Len(new) - 1 => j >= len - 1
    BY <1>2, <1>11
  <2>2. \A j \in 1..Len(new) :
           /\ new[j].finished <=> (j + 1) * NumRangeData <= k + 1
           /\ j >= Len(new) - 1 => new[j].num_range_data = (k + 1) - (j - 1) * NumRangeData
    <3>1. \A j \in 1..Len(new) : (j - 1) * NumRangeData \in Int /\ j \in Int
      BY <1>0
    <3>2. \A j \in 1..Len(new) : k + (1 - (j - 1) * NumRangeData) = (k + 1) - (j - 1) * NumRangeData
      BY <3>1
    <3> QED
      BY <1>11, <2>1, <3>2, Zenon
  <2> QED
    BY <1>11, <1>12, <2>2, Zenon DEF Holding
<1>14. InsertedAs(t, k, {<<t, i>> : i \in SM!InsertionIndices(list)},
                  new[SM!MatchingIndex(list) + 1].finished)
  <2>1. PICK b : b = len - 1
    OBVIOUS
  <2>2. b \in 0..MaxNodes /\ IsBack(b, k)
    <3>1. b \in Nat /\ IsBack(b, k)
      BY <1>1, <1>2, <2>1 DEF Holding
    <3>2. b <= b * NumRangeData
      BY <1>0, <3>1
    <3>3. b * NumRangeData <= k
      BY <3>1 DEF IsBack
    <3>4. b * NumRangeData \in Int
      BY <1>0, <3>1
    <3> QED
      BY <1>0, <3>1, <3>2, <3>3, <3>4
  <2>3. SM!InsertionIndices(list) = {i \in 0..b : i >= b - 1}
    BY <1>1, <1>2, <2>1 DEF SM!InsertionIndices
  <2>4. new[SM!MatchingIndex(list) + 1].finished = (b > 0 /\ k + 1 = (b + 1) * NumRangeData)
    <3>1. b + 1 = len
      BY <1>2, <2>1
    <3>2. \A j \in 1..len : new[j].finished \in BOOLEAN
      BY <1>2, <1>11, CountedElement
    <3>3. CASE b > 0
      <4>1. SM!MatchingIndex(list) + 1 = len - 1 /\ len - 1 \in 1..len
        BY <1>1, <1>2, <2>1, <3>3 DEF SM!MatchingIndex
      <4>2. new[len - 1].finished <=> (len - 1 + 1) * NumRangeData <= k + 1
        BY <1>2, <1>11, <4>1
      <4>3. len - 1 + 1 = len
        BY <1>2
      <4>4. new[len - 1].finished <=> k + 1 = len * NumRangeData
        BY <1>7, <4>2, <4>3
      <4> QED
        BY <3>1, <3>2, <3>3, <4>1, <4>4
    <3>4. CASE b = 0
      <4>0. len = 1
        BY <1>2, <2>1, <3>4
      <4>1. SM!MatchingIndex(list) + 1 = 1 /\ len = 1
        BY <1>1, <4>0 DEF SM!MatchingIndex
      <4>2. new[1].finished <=> (1 + 1) * NumRangeData <= k + 1
        BY <1>11, <4>1
      <4>3. k < NumRangeData
        BY <1>0, <1>7, <4>1
      <4>4. ~new[1].finished
        BY <1>0, <4>2, <4>3
      <4>5. ~(b > 0)
        BY <3>4
      <4> QED
        BY <3>2, <4>1, <4>4, <4>5
    <3> QED
      BY <1>2, <2>1, <3>3, <3>4
  <2> QED
    BY <2>2, <2>3, <2>4 DEF InsertedAs
<1> QED
  BY <1>5, <1>13, <1>14
-----------------------------------------------------------------------------
(* Callbacks and the owner of the queue.                                    *)

\* The thread whose step it is, and a place for it: only this one changes.
LEMMA CallsKept ==
    ASSUME PlacesOK, CallsOK, CBP!TypeOK, [Next]_vars
    PROVE  CallsOK'
<1> USE DEF Goto, At
<1>0. /\ CBP!ConstantsOK
      /\ \A w \in Workers : w # Main
      /\ pc \in [Threads -> MainPlaces \cup WorkerPlaces]
      /\ call \in [Workers -> CBP!Call \cup {None}]
  BY BuilderAssumption, BuilderDefs, ThreadsAssumption
     DEF BuilderAssumption, ThreadsAssumption, PlacesOK, CBP!TypeOK
<1>1. CASE UNCHANGED <<call, pc>>
  BY <1>1 DEF CallsOK
<1>2. ASSUME UNCHANGED call, NEW l, pc' = [pc EXCEPT ![Main] = l] PROVE CallsOK'
  BY <1>0, <1>2 DEF CallsOK, Threads
<1>3. ASSUME NEW th \in Threads, UNCHANGED call, pc[th] \notin {"pool", "return"},
             NEW l, pc' = [pc EXCEPT ![th] = l]
      PROVE  CallsOK'
  BY <1>0, <1>3 DEF CallsOK, Threads
<1>4. ASSUME NEW t \in Trajectories, AddScan(t) PROVE CallsOK'
  BY <1>2, <1>4, OtherCalls DEF AddScan
<1>5. CASE AppendScan \/ AddImuData \/ RunFinalOptimization \/ Destroy
  BY <1>1, <1>2, <1>5, OtherCalls DEF AppendScan, AddImuData, RunFinalOptimization, Destroy
<1>6. ASSUME NEW here, NEW next, WaitForAllComputations(here, next) \/ AwaitNotification(here, next)
      PROVE  CallsOK'
  BY <1>2, <1>6, OtherCalls DEF WaitForAllComputations, AwaitNotification
<1>7. ASSUME NEW th \in Threads,
             \/ BeginScan(th) \/ IssueConstraint(th) \/ EndScan(th) \/ RequestLoopClosure(th)
             \/ HandleScanQueue(th) \/ RunOptimization(th) \/ PublishOptimization(th)
      PROVE  CallsOK'
  <2>1. UNCHANGED call
    BY <1>7, OtherCalls
  <2>2. pc[th] \notin {"pool", "return"}
    BY <1>7 DEF BeginScan, IssueConstraint, EndScan, RequestLoopClosure, HandleScanQueue,
       RunOptimization, PublishOptimization
  <2>3. UNCHANGED pc \/ \E l : pc' = [pc EXCEPT ![th] = l]
    <3>1. CASE EndScan(th) \/ RequestLoopClosure(th)
      <4>1. ASSUME ItemDone(th) PROVE \E l : pc' = [pc EXCEPT ![th] = l]
        BY <4>1 DEF ItemDone
      <4> QED
        BY <3>1, <4>1 DEF EndScan, RequestLoopClosure
    <3>2. CASE IssueConstraint(th)
      BY <3>2 DEF IssueConstraint, ComputeConstraint
    <3> QED
      BY <1>7, <3>1, <3>2 DEF BeginScan, HandleScanQueue, RunOptimization, PublishOptimization
  <2> QED
    BY <1>1, <1>3, <2>1, <2>2, <2>3
<1>8. ASSUME NEW w \in Workers, BuilderStep(w) PROVE CallsOK'
  <2>1. UNCHANGED pc
    BY <1>8 DEF BuilderStep
  <2>2. CASE UNCHANGED call
    BY <1>1, <2>1, <2>2
  <2>3. ASSUME NEW c \in CBP!Call, call' = [call EXCEPT ![w] = c] PROVE CallsOK'
    <3>1. pc[w] = "pool"
      BY <1>8 DEF BuilderStep
    <3>2. c # None
      BY <1>0, CallFields
    <3> QED
      BY <1>0, <2>1, <2>3, <3>1, <3>2 DEF CallsOK
  <2> QED
    BY <1>8, <2>2, <2>3, BuilderStepCalls
<1>9. ASSUME NEW w \in Workers,
             \/ \E match \in BOOLEAN : Match(w, match)
             \/ Resume(w) \/ LeaveLoop(w) \/ WorkOffQueue(w)
      PROVE  CallsOK'
  <2>1. UNCHANGED call
    BY <1>9, OtherCalls
  <2>2. CASE \E match \in BOOLEAN : Match(w, match)
    BY <1>1, <2>1, <2>2 DEF Match
  <2>3. CASE Resume(w) \/ LeaveLoop(w) \/ WorkOffQueue(w)
    BY <1>1, <1>3, <2>1, <2>3 DEF Resume, LeaveLoop, WorkOffQueue, Threads
  <2> QED
    BY <1>9, <2>2, <2>3
<1>10. ASSUME NEW w \in Workers, EnterCallback(w) PROVE CallsOK'
  <2>1. UNCHANGED call /\ call[w] # None
    BY <1>10, OtherCalls DEF EnterCallback
  <2>2. call[w].callback \in {"loop_closure", "final"}
    BY <1>0, <2>1, CallFields
  <2>3. pc' = [pc EXCEPT ![w] = IF call[w].callback = "final" THEN "return" ELSE "optimize"]
    BY <1>10 DEF EnterCallback
  <2> QED
    BY <1>0, <2>1, <2>2, <2>3 DEF CallsOK, Threads
<1>11. ASSUME NEW w \in Workers, ReturnFromCallback(w) PROVE CallsOK'
  BY <1>0, <1>11, OtherCalls DEF ReturnFromCallback, CallsOK, Threads
<1>12. CASE UNCHANGED vars
  BY <1>1, <1>12 DEF vars, builder
<1> QED
  BY <1>4, <1>5, <1>6, <1>7, <1>8, <1>9, <1>10, <1>11, <1>12, Steps
-----------------------------------------------------------------------------
\* What the items are.
LEMMA ItemKinds ==
    /\ ImuItem \notin ScanItems
    /\ \A item \in ScanItems : /\ item.kind = "scan" /\ item # ImuItem
                               /\ item.trajectory \in Trajectories
                               /\ item.index \in 0..MaxNodes - 1
                               /\ item.index \in Nat
                               /\ item.insertion \in SUBSET SubmapIds
                               /\ item.finished \in BOOLEAN
    /\ \A t : ~IsScan(ImuItem, t)
BY BoundsAssumption DEF BoundsAssumption, ImuItem, ScanItems, IsScan

\* The work item of Main's scan.
NewItem == [kind |-> "scan", trajectory |-> incoming.trajectory,
            index |-> Len(trajectory_nodes[incoming.trajectory]),
            insertion |-> incoming.insertion, finished |-> incoming.finished]

LEMMA NewItemType ==
    ASSUME ScanOK, CountsOK, pc[Main] = "append"
    PROVE  /\ NewItem \in ScanItems
           /\ incoming \in Incoming
           /\ incoming.trajectory \in Trajectories
           /\ Len(trajectory_nodes[incoming.trajectory]) \in Nat
           /\ Len(trajectory_nodes[incoming.trajectory]) < MaxNodes
<1>1. incoming # None /\ incoming \in Incoming
  BY DEF ScanOK
<1>2. incoming.trajectory \in Trajectories /\ incoming.insertion \in SUBSET SubmapIds
      /\ incoming.finished \in BOOLEAN
  BY <1>1 DEF Incoming
<1>3. trajectory_nodes[incoming.trajectory] \in Seq(Nat)
  BY <1>2 DEF CountsOK
<1>4. Len(trajectory_nodes[incoming.trajectory]) < MaxNodes
  BY <1>1 DEF CountsOK
<1>5. Len(trajectory_nodes[incoming.trajectory]) \in 0..MaxNodes - 1
  BY <1>3, <1>4, BoundsAssumption, LenProperties DEF BoundsAssumption
<1> QED
  BY <1>1, <1>2, <1>4, <1>5 DEF NewItem, ScanItems

\* The queue gets an item, loses the first, or is set up or given up.
LEMMA QueueSteps ==
    ASSUME CallsOK, ScanOK, QueueOK, OneOwner, CountsOK, [Next]_vars
    PROVE  \/ UNCHANGED scan_queue
           \/ /\ scan_queue \in Queues
              /\ AppendScan /\ scan_queue' = Append(scan_queue, NewItem)
           \/ /\ scan_queue \in Queues
              /\ AddImuData /\ scan_queue' = Append(scan_queue, ImuItem)
           \/ /\ scan_queue \in Queues /\ scan_queue # <<>>
              /\ scan_queue' = Tail(scan_queue)
              /\ \E w \in Workers : EndScan(w) \/ RequestLoopClosure(w) \/ WorkOffQueue(w)
           \/ /\ scan_queue = None /\ scan_queue' = <<>> /\ RequestLoopClosure(Main)
           \/ /\ scan_queue = <<>> /\ scan_queue' = None
              /\ \E w \in Workers : LeaveLoop(w)
<1>0. scan_queue # None => scan_queue \in Queues
  BY DEF QueueOK
<1>1. CASE AppendScan
  BY <1>0, <1>1 DEF AppendScan, NewItem
<1>2. CASE AddImuData
  BY <1>0, <1>2 DEF AddImuData
<1>3. ASSUME NEW t \in Trajectories, AddScan(t) PROVE UNCHANGED scan_queue
  BY <1>3 DEF AddScan, queue
<1>4. CASE RunFinalOptimization \/ Destroy \/ UNCHANGED vars
  BY <1>4 DEF RunFinalOptimization, Destroy, vars, queue
<1>5. ASSUME NEW here, NEW next, WaitForAllComputations(here, next) \/ AwaitNotification(here, next)
      PROVE  UNCHANGED scan_queue
  BY <1>5 DEF WaitForAllComputations, AwaitNotification, queue
<1>6. ASSUME NEW th \in Threads,
             \/ BeginScan(th) \/ IssueConstraint(th) \/ HandleScanQueue(th)
             \/ RunOptimization(th) \/ PublishOptimization(th)
      PROVE  UNCHANGED scan_queue
  BY <1>6 DEF BeginScan, IssueConstraint, ComputeConstraint, HandleScanQueue, RunOptimization,
     PublishOptimization, queue
<1>7. ASSUME NEW th \in Threads, ItemDone(th), pc[th] \in Inside
      PROVE  \/ UNCHANGED scan_queue
             \/ /\ th \in Workers /\ scan_queue \in Queues /\ scan_queue # <<>>
                /\ scan_queue' = Tail(scan_queue)
  BY <1>0, <1>7 DEF ItemDone, QueueOK, Threads
<1>8. ASSUME NEW th \in Threads, EndScan(th)
      PROVE  \/ UNCHANGED scan_queue
             \/ /\ th \in Workers /\ scan_queue \in Queues /\ scan_queue # <<>>
                /\ scan_queue' = Tail(scan_queue)
  BY <1>7, <1>8 DEF EndScan, At, Inside
<1>9. ASSUME NEW th \in Threads, RequestLoopClosure(th)
      PROVE  \/ UNCHANGED scan_queue
             \/ scan_queue = None /\ scan_queue' = <<>> /\ RequestLoopClosure(Main)
             \/ /\ th \in Workers /\ scan_queue \in Queues /\ scan_queue # <<>>
                /\ scan_queue' = Tail(scan_queue)
  <2>1. pc[th] = "close" /\ pc[th] \in Inside
    BY <1>9 DEF RequestLoopClosure, At, Inside
  <2>2. CASE scan_queue = None
    <3>1. th = Main
      BY <2>1, <2>2 DEF QueueOK, Threads
    <3> QED
      BY <1>9, <2>2, <3>1 DEF RequestLoopClosure
  <2>3. CASE scan_queue # None
    BY <1>7, <1>9, <2>1, <2>3 DEF RequestLoopClosure
  <2> QED
    BY <2>2, <2>3
<1>10. ASSUME NEW w \in Workers,
              \/ BuilderStep(w) \/ (\E match \in BOOLEAN : Match(w, match)) \/ EnterCallback(w)
              \/ Resume(w) \/ ReturnFromCallback(w)
       PROVE  UNCHANGED scan_queue
  BY <1>10 DEF BuilderStep, Match, EnterCallback, Resume, ReturnFromCallback, queue
<1>11. ASSUME NEW w \in Workers, LeaveLoop(w)
       PROVE  UNCHANGED scan_queue \/ (scan_queue = <<>> /\ scan_queue' = None)
  BY <1>11 DEF LeaveLoop
<1>12. ASSUME NEW w \in Workers, WorkOffQueue(w)
       PROVE  \/ UNCHANGED scan_queue
              \/ /\ scan_queue \in Queues /\ scan_queue # <<>>
                 /\ scan_queue' = Tail(scan_queue)
  <2>1. pc[w] = "drain"
    BY <1>12 DEF WorkOffQueue, At
  <2>2. Works(w)
    BY <2>1 DEF CallsOK, Works
  <2>3. scan_queue # None
    BY <2>2 DEF OneOwner, Threads
  <2> QED
    BY <1>0, <1>12, <2>3 DEF WorkOffQueue
<1> QED
  BY <1>1, <1>2, <1>3, <1>4, <1>5, <1>6, <1>8, <1>9, <1>10, <1>11, <1>12, Steps

\* A queue without or with an item more is a queue.
LEMMA QueueIsThere ==
    /\ None \notin Queues
    /\ \A q \in Queues : /\ \A item \in ScanItems \cup {ImuItem} : Append(q, item) \in Queues
                         /\ q # <<>> => Tail(q) \in Queues
    /\ <<>> \in Queues
BY NullAssumption DEF NullAssumption, Queues

LEMMA QueueTypeKept ==
    ASSUME CallsOK, ScanOK, QueueOK, OneOwner, CountsOK, [Next]_vars
    PROVE  /\ scan_queue' \in Queues \cup {None}
           /\ \/ scan_queue' = None <=> scan_queue = None
              \/ scan_queue = None /\ scan_queue' = <<>> /\ RequestLoopClosure(Main)
              \/ /\ scan_queue = <<>> /\ scan_queue' = None
                 /\ \E w \in Workers : LeaveLoop(w)
<1>1. scan_queue \in Queues \cup {None}
  BY DEF QueueOK
<1>2. CASE UNCHANGED scan_queue
  BY <1>1, <1>2
<1>3. CASE /\ scan_queue \in Queues
           /\ AppendScan /\ scan_queue' = Append(scan_queue, NewItem)
  <2>1. pc[Main] = "append"
    BY <1>3 DEF AppendScan, At
  <2>2. NewItem \in ScanItems
    BY <2>1, NewItemType
  <2> QED
    BY <1>3, <2>2, QueueIsThere
<1>4. CASE scan_queue \in Queues /\ scan_queue' = Append(scan_queue, ImuItem)
  BY <1>4, QueueIsThere
<1>5. CASE scan_queue \in Queues /\ scan_queue # <<>> /\ scan_queue' = Tail(scan_queue)
  BY <1>5, QueueIsThere
<1>6. CASE scan_queue = None /\ scan_queue' = <<>> /\ RequestLoopClosure(Main)
  BY <1>6, QueueIsThere
<1>7. CASE scan_queue = <<>> /\ scan_queue' = None /\ \E w \in Workers : LeaveLoop(w)
  BY <1>7, QueueIsThere
<1> QED
  BY <1>2, <1>3, <1>4, <1>5, <1>6, <1>7, QueueSteps

\* Always there is one owner, that works or will be called.
LEMMA OwnerKept ==
    ASSUME PlacesOK, CallsOK, ScanOK, QueueOK, OneOwner, CountsOK, CBP!TypeOK,
           [Next]_vars, ~failed'
    PROVE  OneOwner'
<1> USE DEF Goto, At
<1>0. /\ CBP!ConstantsOK
      /\ \A w \in Workers : w # Main /\ w \in Threads
      /\ Main \in Threads
      /\ pc \in [Threads -> MainPlaces \cup WorkerPlaces]
      /\ call \in [Workers -> CBP!Call \cup {None}]
  BY BuilderAssumption, BuilderDefs, ThreadsAssumption
     DEF BuilderAssumption, ThreadsAssumption, PlacesOK, CBP!TypeOK, Threads
<1>1. ASSUME scan_queue' = None <=> scan_queue = None, Registered' <=> Registered,
             \A th \in Threads : Works(th)' <=> Works(th)
      PROVE  OneOwner'
  BY <1>1 DEF OneOwner
\* A thread moves between places that say nothing of the queue.
<1>2. ASSUME scan_queue' = None <=> scan_queue = None, UNCHANGED <<call, when_done>>,
             NEW th \in Threads, NEW l, pc' = [pc EXCEPT ![th] = l],
             {pc[th], l} \cap {"register", "return"} = {}
      PROVE  OneOwner'
  <2>1. \A a \in Threads : Works(a)' <=> Works(a)
    BY <1>0, <1>2 DEF Works
  <2>2. Registered' <=> Registered
    BY <1>2 DEF Registered
  <2> QED
    BY <1>1, <1>2, <2>1, <2>2
<1>3. ASSUME scan_queue' = None <=> scan_queue = None, UNCHANGED <<call, when_done, pc>>
      PROVE  OneOwner'
  BY <1>1, <1>3 DEF Works, Registered
<1>4. ASSUME NEW t \in Trajectories, AddScan(t) PROVE OneOwner'
  <2>1. pc' = [pc EXCEPT ![Main] = "append"] /\ pc[Main] = "idle" /\ UNCHANGED scan_queue
    BY <1>4 DEF AddScan, queue
  <2> QED
    BY <1>0, <1>2, <1>4, <2>1, OtherCalls
<1>5. CASE AppendScan
  <2>1. scan_queue' = None <=> scan_queue = None
    <3>1. pc[Main] = "append" /\ ~RequestLoopClosure(Main) /\ \A w \in Workers : ~LeaveLoop(w)
      BY <1>0, <1>5 DEF AppendScan, RequestLoopClosure, LeaveLoop, PlacesOK, Locked
    <3> QED
      BY <3>1, QueueTypeKept
  <2>2. PICK l \in {"begin", "idle"} : pc' = [pc EXCEPT ![Main] = l]
    BY <1>5 DEF AppendScan
  <2>3. pc[Main] = "append"
    BY <1>5 DEF AppendScan
  <2> QED
    BY <1>0, <1>2, <1>5, <2>1, <2>2, <2>3, OtherCalls
<1>6. CASE AddImuData
  <2>1. scan_queue' = None <=> scan_queue = None
    BY <1>6, QueueIsThere DEF AddImuData, QueueOK
  <2>2. UNCHANGED pc
    BY <1>6 DEF AddImuData
  <2> QED
    BY <1>3, <1>6, <2>1, <2>2, OtherCalls
<1>7. CASE RunFinalOptimization \/ Destroy
  <2>1. UNCHANGED scan_queue /\ pc[Main] \in {"idle", "destroy"}
    BY <1>7 DEF RunFinalOptimization, Destroy, queue
  <2>2. PICK l \in {"wait_final", "destroyed"} : pc' = [pc EXCEPT ![Main] = l]
    BY <1>7 DEF RunFinalOptimization, Destroy
  <2> QED
    BY <1>0, <1>2, <1>7, <2>1, <2>2, OtherCalls
<1>8. ASSUME NEW here \in {"await_final", "await_destroy"}, NEW next \in {"optimize", "destroy"},
             AwaitNotification(here, next)
      PROVE  OneOwner'
  <2>1. UNCHANGED scan_queue /\ pc[Main] = here /\ pc' = [pc EXCEPT ![Main] = next]
    BY <1>8 DEF AwaitNotification, queue
  <2> QED
    BY <1>0, <1>2, <1>8, <2>1, OtherCalls
<1>9. ASSUME NEW here \in {"wait_final", "wait_destroy"},
             NEW next \in {"await_final", "await_destroy"}, WaitForAllComputations(here, next)
      PROVE  OneOwner'
  <2>1. /\ UNCHANGED <<scan_queue, call>> /\ pc[Main] = here
        /\ pc' = [pc EXCEPT ![Main] = next]
        /\ when_done = None /\ when_done' = "final"
    BY <1>9, OtherCalls DEF WaitForAllComputations, queue
  <2>2. ~Registered /\ ~Registered'
    BY <1>0, <2>1, CallFields DEF Registered
  <2>3. \A a \in Threads : Works(a)' <=> Works(a)
    BY <1>0, <2>1 DEF Works
  <2> QED
    BY <1>1, <2>1, <2>2, <2>3
<1>10. ASSUME NEW th \in Threads,
              \/ BeginScan(th) \/ IssueConstraint(th) \/ RunOptimization(th)
              \/ PublishOptimization(th)
       PROVE  OneOwner'
  <2>1. UNCHANGED <<scan_queue, call, when_done>>
    BY <1>10, OtherCalls DEF BeginScan, IssueConstraint, ComputeConstraint, RunOptimization,
       PublishOptimization, queue
  <2>2. pc[th] \in {"begin", "issue", "optimize", "solve"}
    BY <1>10 DEF BeginScan, IssueConstraint, RunOptimization, PublishOptimization
  <2>3. \/ UNCHANGED pc
        \/ \E l \in {"issue", "solve", "wait_destroy", "resume"} : pc' = [pc EXCEPT ![th] = l]
    BY <1>10 DEF BeginScan, IssueConstraint, ComputeConstraint, RunOptimization,
       PublishOptimization, AfterOptimization
  <2> QED
    BY <1>2, <1>3, <2>1, <2>2, <2>3
<1>11. ASSUME NEW th \in Threads, ItemDone(th), pc[th] \in Inside,
              UNCHANGED <<call, when_done>>
       PROVE  OneOwner'
  <2>1. scan_queue' = None <=> scan_queue = None
    BY <1>0, <1>11, QueueIsThere DEF ItemDone, QueueOK, Threads
  <2>2. PICK l \in {"idle", "drain"} : pc' = [pc EXCEPT ![th] = l]
    BY <1>11 DEF ItemDone
  <2> QED
    BY <1>2, <1>11, <2>1, <2>2 DEF Inside
<1>12. ASSUME NEW th \in Threads, EndScan(th) PROVE OneOwner'
  <2>1. UNCHANGED <<call, when_done>> /\ pc[th] = "issue"
    BY <1>12, OtherCalls DEF EndScan
  <2>2. CASE ItemDone(th)
    BY <1>11, <2>1, <2>2 DEF Inside
  <2>3. CASE pc' = [pc EXCEPT ![th] = "close"] /\ UNCHANGED scan_queue
    BY <1>2, <2>1, <2>3
  <2> QED
    BY <1>12, <2>2, <2>3 DEF EndScan
<1>13. ASSUME NEW th \in Threads, RequestLoopClosure(th) PROVE OneOwner'
  <2>1. UNCHANGED <<call, when_done>> /\ pc[th] = "close"
    BY <1>13, OtherCalls DEF RequestLoopClosure
  <2>2. CASE scan_queue # None
    BY <1>11, <1>13, <2>1, <2>2 DEF Inside, RequestLoopClosure
  <2>3. CASE scan_queue = None
    <3>1. scan_queue' = <<>> /\ pc' = [pc EXCEPT ![th] = "register"]
      BY <1>13, <2>3 DEF RequestLoopClosure
    <3>2. Works(th)' /\ \A a \in Threads : a # th => ~Works(a)'
      BY <1>0, <2>1, <2>3, <3>1 DEF Works, OneOwner
    <3>3. ~Registered' /\ scan_queue' # None
      BY <2>1, <2>3, <3>1, QueueIsThere DEF Registered, OneOwner
    <3> QED
      BY <3>2, <3>3 DEF OneOwner
  <2> QED
    BY <2>2, <2>3
<1>14. ASSUME NEW th \in Threads, HandleScanQueue(th) PROVE OneOwner'
  <2>1. /\ UNCHANGED <<scan_queue, call>> /\ pc[th] = "register"
        /\ when_done' = "loop_closure"
    BY <1>14, OtherCalls DEF HandleScanQueue, queue
  <2>2. pc' = [pc EXCEPT ![th] = IF th = Main THEN "idle" ELSE "return"]
    BY <1>14 DEF HandleScanQueue
  <2>3. Works(th) /\ scan_queue # None /\ \A a \in Threads : a # th => ~Works(a)
    BY <2>1 DEF Works, OneOwner
  <2>4. \A a \in Threads : ~Works(a)'
    BY <1>0, <2>1, <2>2, <2>3 DEF Works
  <2> QED
    BY <2>1, <2>3, <2>4 DEF OneOwner, Registered
<1>15. ASSUME NEW w \in Workers, BuilderStep(w) PROVE OneOwner'
  <2>1. UNCHANGED <<scan_queue, pc>> /\ pc[w] = "pool"
    BY <1>15 DEF BuilderStep, queue
  <2>2. CASE UNCHANGED <<call, when_done>>
    BY <1>3, <2>1, <2>2
  <2>3. ASSUME when_done \in {"loop_closure", "final"}, call[w] = None, when_done' = None,
               NEW c \in CBP!Call, c.callback = when_done, call' = [call EXCEPT ![w] = c]
        PROVE  OneOwner'
    <3>1. c # None /\ None # "loop_closure"
      BY <1>0, CallFields
    <3>2. call'[w] = c /\ \A v \in Workers : v # w => call'[v] = call[v]
      BY <1>0, <2>3
    <3>3. /\ ~Works(w)
          /\ Works(w)' <=> Registered
      BY <1>0, <2>1, <2>3, <3>1, <3>2 DEF Works, Registered
    <3>4. \A a \in Threads : a # w => (Works(a)' <=> Works(a))
      BY <2>1, <3>2 DEF Works
    <3>5. ~Registered'
      BY <2>3, <3>1 DEF Registered
    <3> QED
      BY <1>0, <2>1, <3>3, <3>4, <3>5 DEF OneOwner
  <2> QED
    BY <1>15, <2>2, <2>3, BuilderStepCalls
<1>16. ASSUME NEW w \in Workers,
              \/ \E match \in BOOLEAN : Match(w, match)
              \/ Resume(w) \/ WorkOffQueue(w)
       PROVE  OneOwner'
  <2>1. UNCHANGED <<call, when_done>>
    BY <1>16, OtherCalls
  <2>2. CASE \E match \in BOOLEAN : Match(w, match)
    BY <1>3, <2>1, <2>2 DEF Match, queue
  <2>3. CASE Resume(w)
    BY <1>0, <1>2, <2>1, <2>3 DEF Resume
  <2>4. CASE WorkOffQueue(w)
    <3>1. scan_queue' = None <=> scan_queue = None
      <4>1. pc[w] = "drain" /\ pc[Main] # "close" => ~RequestLoopClosure(Main)
        BY DEF RequestLoopClosure
      <4>2. pc[w] = "drain"
        BY <2>4 DEF WorkOffQueue
      <4>3. pc[Main] # "close"
        BY <1>0, <4>2 DEF PlacesOK, Locked, Inside
      <4>4. scan_queue # <<>>
        BY <2>4 DEF WorkOffQueue
      <4> QED
        BY <4>1, <4>2, <4>3, <4>4, QueueTypeKept
    <3>2. UNCHANGED pc \/ pc' = [pc EXCEPT ![w] = "begin"]
      BY <2>4 DEF WorkOffQueue
    <3>3. pc[w] = "drain"
      BY <2>4 DEF WorkOffQueue
    <3> QED
      BY <1>0, <1>2, <1>3, <2>1, <3>1, <3>2, <3>3
  <2> QED
    BY <1>16, <2>2, <2>3, <2>4
<1>17. ASSUME NEW w \in Workers, EnterCallback(w) PROVE OneOwner'
  <2>1. UNCHANGED <<scan_queue, call, when_done>> /\ pc[w] = "pool" /\ call[w] # None
    BY <1>17, OtherCalls DEF EnterCallback, queue
  <2>2. pc' = [pc EXCEPT ![w] = IF call[w].callback = "final" THEN "return" ELSE "optimize"]
    BY <1>17 DEF EnterCallback
  <2>3. \A a \in Threads : Works(a)' <=> Works(a)
    BY <1>0, <2>1, <2>2 DEF Works
  <2> QED
    BY <1>1, <2>1, <2>3 DEF Registered
<1>18. ASSUME NEW w \in Workers, LeaveLoop(w) PROVE OneOwner'
  <2>1. UNCHANGED <<call, when_done>> /\ pc[w] = "drain" /\ Works(w)
    BY <1>0, <1>18, OtherCalls DEF LeaveLoop, CallsOK, Works
  <2>2. CASE pc' = [pc EXCEPT ![w] = "register"] /\ UNCHANGED scan_queue
    <3>1. \A a \in Threads : Works(a)' <=> Works(a)
      BY <1>0, <2>1, <2>2 DEF Works
    <3> QED
      BY <1>1, <2>1, <2>2, <3>1 DEF Registered
  <2>3. CASE pc' = [pc EXCEPT ![w] = "return"] /\ scan_queue' = None
    <3>1. \A a \in Threads : ~Works(a)'
      BY <1>0, <2>1, <2>3 DEF Works, OneOwner
    <3>2. ~Registered'
      BY <1>0, <2>1 DEF OneOwner, Registered
    <3> QED
      BY <2>3, <3>1, <3>2 DEF OneOwner
  <2> QED
    BY <1>18, <2>2, <2>3 DEF LeaveLoop
<1>19. ASSUME NEW w \in Workers, ReturnFromCallback(w) PROVE OneOwner'
  <2>1. /\ UNCHANGED <<scan_queue, when_done>> /\ pc[w] = "return"
        /\ pc' = [pc EXCEPT ![w] = "pool"] /\ call' = [call EXCEPT ![w] = None]
    BY <1>19, OtherCalls DEF ReturnFromCallback, queue
  <2>2. \A a \in Threads : Works(a)' <=> Works(a)
    BY <1>0, <2>1 DEF Works
  <2> QED
    BY <1>1, <2>1, <2>2 DEF Registered
<1>20. CASE UNCHANGED vars
  BY <1>3, <1>20 DEF vars, builder, queue
<1> QED
  BY <1>4, <1>5, <1>6, <1>7, <1>8, <1>9, <1>10, <1>12, <1>13, <1>14, <1>15, <1>16, <1>17,
     <1>18, <1>19, <1>20, Steps
-----------------------------------------------------------------------------
(* What a scan brings in.                                                   *)

LEMMA OneInside ==
    ASSUME PlacesOK
    PROVE  /\ \A a, b \in Threads : pc[a] \in Locked /\ pc[b] \in Locked => a = b
           /\ mutex = Free => \A a \in Threads : pc[a] \notin Locked
           /\ \A a \in Threads : pc[a] \in Inside \cup {"register"} => pc[a] \in Locked
BY ThreadsAssumption DEF PlacesOK, ThreadsAssumption, Threads, Locked

LEMMA ScanFields ==
    \A x \in Scans : /\ x.item \in ScanItems
                     /\ x.todo \subseteq NodeIds \X SubmapIds
                     /\ \A todo \in SUBSET (NodeIds \X SubmapIds) :
                           /\ [x EXCEPT !.todo = todo] \in Scans
                           /\ [x EXCEPT !.todo = todo].item = x.item
                           /\ [x EXCEPT !.todo = todo].todo = todo
BY DEF Scans

\* The range data of a new scan is in the submaps before the scan is in the pose graph.
LEMMA AddScanBrings ==
    ASSUME ScanOK, SubmapsOK, CountsOK, NEW t \in Trajectories, AddScan(t)
    PROVE  /\ incoming = None
           /\ incoming' \in Incoming
           /\ incoming'.trajectory = t
           /\ Len(trajectory_nodes[t]) \in Nat
           /\ Inserted(t) = Len(trajectory_nodes[t])
           /\ InsertedAs(t, Len(trajectory_nodes[t]), incoming'.insertion, incoming'.finished)
           /\ submaps' = [submaps EXCEPT ![t] = submaps'[t]]
           /\ Holding(submaps'[t], Len(trajectory_nodes[t]) + 1)
<1>0. MaxNodes \in Nat \ {0}
  BY BoundsAssumption DEF BoundsAssumption
<1>1. incoming = None /\ Len(trajectory_nodes[t]) < MaxNodes
  BY DEF AddScan, At, ScanOK
<1>2. PICK k : k = Len(trajectory_nodes[t])
  OBVIOUS
<1>3. k \in Nat /\ k < MaxNodes /\ Inserted(t) = k
  <2>1. trajectory_nodes[t] \in Seq(Nat)
    BY DEF CountsOK
  <2>2. k \in Nat
    BY <1>2, <2>1, LenProperties
  <2> QED
    BY <1>1, <1>2, <2>2 DEF Inserted
<1>4. PICK old : old = submaps[t]
  OBVIOUS
<1>5. PICK new : new = SM!InsertRangeData(old)
  OBVIOUS
<1>6. PICK ins : ins = {<<t, i>> : i \in SM!InsertionIndices(old)}
  OBVIOUS
<1>7. PICK fin : fin = new[SM!MatchingIndex(old) + 1].finished
  OBVIOUS
<1>8. Holding(old, k)
  BY <1>3, <1>4 DEF SubmapsOK
<1>9. Holding(new, k + 1) /\ InsertedAs(t, k, ins, fin)
  BY <1>3, <1>5, <1>6, <1>7, <1>8, RangeDataInserted
<1>10. /\ submaps' = [submaps EXCEPT ![t] = new]
       /\ incoming' = [kind |-> "scan", trajectory |-> t, insertion |-> ins,
                       finished |-> fin, frame |-> frame[t]]
  BY <1>4, <1>5, <1>6, <1>7 DEF AddScan
<1>11. submaps'[t] = new
  BY <1>10 DEF SubmapsOK
<1>12. ins \in SUBSET SubmapIds
  <2>1. PICK b \in 0..MaxNodes : ins = {<<t, j>> : j \in {i \in 0..b : i >= b - 1}}
    BY <1>9 DEF InsertedAs
  <2>2. \A j \in 0..b : j \in 0..MaxNodes
    BY <1>0
  <2> QED
    BY <2>1, <2>2 DEF SubmapIds
<1>13. fin \in BOOLEAN
  BY <1>9 DEF InsertedAs
<1>14. frame[t] \in Nat
  BY DEF CountsOK
<1>15. incoming' \in Incoming
  BY <1>10, <1>12, <1>13, <1>14 DEF Incoming
<1> QED
  BY <1>1, <1>2, <1>3, <1>9, <1>10, <1>11, <1>15

\* The scan that is begun is the first of the backlog, and the next of its trajectory.
LEMMA NextItem ==
    ASSUME PlacesOK, ScanOK, QueueOK, CountsOK, BacklogOK,
           NEW th \in Threads, pc[th] = "begin"
    PROVE  /\ scan \in Scans
           /\ Backlog \in Queues /\ Backlog # <<>> /\ Head(Backlog) = scan.item
           /\ scan.item.index = node_data[scan.item.trajectory]
           /\ node_data[scan.item.trajectory] < Len(trajectory_nodes[scan.item.trajectory])
           /\ <<scan.item.trajectory, node_data[scan.item.trajectory]>> \in NodeIds
<1>1. scan \in Scans /\ scan.item \in ScanItems
  BY ScanFields DEF ScanOK, Inside
<1>2. Backlog \in Queues /\ Backlog # <<>> /\ Head(Backlog) = scan.item
  <2>1. \A a \in Threads : a # th => pc[a] \notin Locked
    BY OneInside DEF Locked, Inside
  <2>2. CASE th = Main
    <3>1. scan_queue = None
      BY <2>2 DEF QueueOK, Inside
    <3>2. Backlog = <<scan.item>>
      BY <2>2, <3>1 DEF Backlog
    <3>3. <<scan.item>> \in Seq(ScanItems \cup {ImuItem})
      BY <1>1
    <3> QED
      BY <3>2, <3>3 DEF Queues
  <2>3. CASE th \in Workers
    <3>1. scan_queue # None /\ scan_queue # <<>> /\ Head(scan_queue) = scan.item
      BY <2>3 DEF QueueOK, Inside
    <3>2. ~ \E w \in Workers : pc[w] \in {"issue", "close"}
      <4>1. \A w \in Workers : w = th \/ pc[w] \notin Locked
        BY <2>1 DEF Threads
      <4> QED
        BY <4>1 DEF Locked, Inside
    <3>3. Backlog = scan_queue
      BY <3>1, <3>2 DEF Backlog
    <3> QED
      BY <3>1, <3>3 DEF QueueOK
  <2> QED
    BY <2>2, <2>3 DEF Threads
<1>3. PICK q \in Queues : q = Backlog
  BY <1>2
<1>4. /\ Len(q) \in Nat /\ Len(q) > 0 /\ DOMAIN q = 1..Len(q)
      /\ 1 \in DOMAIN q
      /\ q[1] = scan.item
  BY <1>2, <1>3 DEF Queues
<1>5. PICK t \in Trajectories : t = scan.item.trajectory
  BY <1>1, ItemKinds
<1>6. IsScan(q[1], t) /\ q[1].index \in Nat
  BY <1>1, <1>4, <1>5, ItemKinds DEF IsScan
<1>7. /\ node_data[t] <= q[1].index
      /\ q[1].index < Len(trajectory_nodes[t])
      /\ \A j \in DOMAIN q : 1 < j /\ IsScan(q[j], t) => q[1].index < q[j].index
  BY <1>3, <1>4, <1>6 DEF BacklogOK, InLine
<1>8. /\ node_data[t] \in Nat
      /\ Len(trajectory_nodes[t]) \in Nat
      /\ Len(trajectory_nodes[t]) <= MaxNodes
  BY <1>5, LenProperties DEF CountsOK
<1>9. PICK i \in DOMAIN q : IsScan(q[i], t) /\ q[i].index = node_data[t]
  BY <1>3, <1>6, <1>7, <1>8 DEF BacklogOK, InLine
<1>10. i = 1
  BY <1>4, <1>6, <1>7, <1>8, <1>9
<1>11. <<t, node_data[t]>> \in NodeIds
  BY <1>5, <1>6, <1>7, <1>8, BoundsAssumption DEF NodeIds, BoundsAssumption
<1> QED
  BY <1>1, <1>2, <1>4, <1>5, <1>7, <1>9, <1>10, <1>11
-----------------------------------------------------------------------------
(* A scan is begun.                                                         *)

BegunNode == <<scan.item.trajectory, node_data[scan.item.trajectory]>>

BegunStates == [s \in DOMAIN submap_states |->
                   IF s \in scan.item.insertion
                   THEN [submap_states[s] EXCEPT !.node_ids = @ \cup {BegunNode}]
                   ELSE submap_states[s]]

BegunFinished == {s \in DOMAIN BegunStates : BegunStates[s].finished}

BegunNodes == {n \in NodeIds : n[2] < node_data[n[1]]} \cup {BegunNode}

BegunTodo == {<<BegunNode, s>> : s \in BegunFinished}
             \cup {<<n, FrontSubmap(scan.item)>> : n \in
                     IF scan.item.finished
                     THEN OldScans(FrontSubmap(scan.item), BegunNodes, BegunStates)
                     ELSE {}}

LEMMA BeginScanIs ==
    ASSUME NEW th, BeginScan(th)
    PROVE  /\ pc[th] = "begin" /\ pc' = [pc EXCEPT ![th] = "issue"]
           /\ submap_states' = BegunStates
           /\ scan' = [scan EXCEPT !.todo = BegunTodo]
           /\ submap_data' = [submap_data EXCEPT ![scan.item.trajectory] =
                                 GrownSubmapData(scan.item)]
           /\ node_data' = [node_data EXCEPT ![scan.item.trajectory] = @ + 1]
           /\ UNCHANGED <<submaps, mutex, scan_queue, num_scans_since, run_loop_closure,
                          imu_data, trajectory_nodes, connected_components, frame,
                          constraints, connectivity, incoming, imu_calls, notification,
                          considered, matched>>
BY DEF BeginScan, BegunNode, BegunStates, BegunFinished, BegunNodes, BegunTodo, At, Goto, queue,
       published, calls, history

\* The state of a submap afterwards.
LEMMA BegunState ==
    ASSUME GraphOK, NEW s \in DOMAIN submap_states
    PROVE  /\ s \in SubmapIds
           /\ BegunStates[s].finished = submap_states[s].finished
           /\ \A n : n \in BegunStates[s].node_ids <=>
                        \/ n \in submap_states[s].node_ids
                        \/ n = BegunNode /\ s \in scan.item.insertion
           /\ BegunNode \in NodeIds =>
                 BegunStates[s] \in [finished : BOOLEAN, node_ids : SUBSET NodeIds]
           /\ s \in DOMAIN BegunStates
<1>1. /\ s \in SubmapIds
      /\ submap_states[s] \in [finished : BOOLEAN, node_ids : SUBSET NodeIds]
  BY DEF GraphOK
<1>2. BegunStates[s] = IF s \in scan.item.insertion
                       THEN [submap_states[s] EXCEPT !.node_ids = @ \cup {BegunNode}]
                       ELSE submap_states[s]
  BY DEF BegunStates
<1>3. s \in DOMAIN BegunStates
  BY DEF BegunStates
<1> QED
  BY <1>1, <1>2, <1>3

LEMMA BegunTodoType ==
    ASSUME PlacesOK, ScanOK, QueueOK, CountsOK, BacklogOK, ItemsOK, GraphOK,
           NEW th \in Threads, pc[th] = "begin"
    PROVE  /\ BegunTodo \subseteq NodeIds \X SubmapIds
           /\ scan \in Scans /\ ItemOK(scan.item)
<1>1. BegunNode \in NodeIds /\ scan \in Scans /\ scan.item \in ScanItems
  BY NextItem, ScanFields DEF BegunNode
<1>2. ItemOK(scan.item)
  BY DEF ItemsOK, ScanOK, Inside
<1>3. FrontSubmap(scan.item) \in SubmapIds
  BY <1>1, <1>2, ItemGeometry
<1>4. BegunFinished \subseteq SubmapIds
  BY BegunState DEF BegunFinished, BegunStates
<1>5. BegunNodes \subseteq NodeIds
  BY <1>1 DEF BegunNodes
<1> QED
  BY <1>1, <1>2, <1>3, <1>4, <1>5 DEF BegunTodo, OldScans
-----------------------------------------------------------------------------
(* Scans and the queue.                                                     *)

LEMMA ScanKept ==
    ASSUME PlacesOK, CallsOK, ScanOK, QueueOK, OneOwner, CountsOK, BacklogOK, ItemsOK,
           SubmapsOK, GraphOK, [Next]_vars
    PROVE  ScanOK'
<1> USE DEF Goto, At
<1>0. /\ \A w \in Workers : w # Main /\ w \in Threads
      /\ Main \in Threads
      /\ pc \in [Threads -> MainPlaces \cup WorkerPlaces]
      /\ pc[Main] \in MainPlaces
      /\ \A w \in Workers : pc[w] \in WorkerPlaces /\ pc[w] # "append"
      /\ \A th \in Threads : th = Main \/ th \in Workers
      /\ None \notin Scans /\ None \notin Incoming
  BY ThreadsAssumption, NullAssumption
     DEF ThreadsAssumption, NullAssumption, PlacesOK, Threads, WorkerPlaces, Places, Locked,
         Inside
\* A thread moves, but not into, inside or out of a scan.
<1>1. ASSUME UNCHANGED <<scan, incoming>>, NEW th \in Threads, NEW l,
             pc' = [pc EXCEPT ![th] = l],
             {pc[th], l} \cap {"begin", "issue", "close", "register", "append"} = {}
      PROVE  ScanOK'
  BY <1>0, <1>1 DEF ScanOK, Inside
<1>2. ASSUME UNCHANGED <<scan, incoming, pc>> PROVE ScanOK'
  BY <1>2 DEF ScanOK
<1>3. ASSUME NEW t \in Trajectories, AddScan(t) PROVE ScanOK'
  <2>1. incoming' \in Incoming
    BY <1>3, AddScanBrings
  <2>2. UNCHANGED scan /\ pc[Main] = "idle" /\ pc' = [pc EXCEPT ![Main] = "append"]
    BY <1>3 DEF AddScan
  <2> QED
    BY <1>0, <2>1, <2>2 DEF ScanOK, Inside
<1>4. CASE AppendScan
  <2>1. /\ pc[Main] = "append" /\ incoming' = None /\ NewItem \in ScanItems
        /\ \A th \in Threads : pc[th] \notin Inside \cup {"register"}
        /\ scan = None
    <3>1. \A th \in Threads : pc[th] \notin Inside \cup {"register"}
      BY <1>4, OneInside DEF AppendScan
    <3> QED
      BY <1>4, <3>1, NewItemType DEF AppendScan, ScanOK
  <2>2. CASE scan_queue = None
    <3>1. /\ scan' = [item |-> NewItem, todo |-> {}]
          /\ pc' = [pc EXCEPT ![Main] = "begin"]
      BY <1>4, <2>2 DEF AppendScan, NewItem
    <3>2. scan' \in Scans /\ scan'.todo = {}
      BY <2>1, <3>1 DEF Scans
    <3> QED
      BY <1>0, <2>1, <3>1, <3>2 DEF ScanOK, Inside
  <2>3. CASE scan_queue # None
    <3>1. scan' = None /\ pc' = [pc EXCEPT ![Main] = "idle"]
      BY <1>4, <2>1, <2>3 DEF AppendScan
    <3> QED
      BY <1>0, <2>1, <3>1 DEF ScanOK, Inside
  <2> QED
    BY <2>2, <2>3
<1>5. CASE AddImuData
  BY <1>2, <1>5 DEF AddImuData
<1>6. CASE RunFinalOptimization \/ Destroy
  <2>1. PICK l \in {"wait_final", "destroyed"} : pc' = [pc EXCEPT ![Main] = l]
    BY <1>6 DEF RunFinalOptimization, Destroy
  <2>2. UNCHANGED <<scan, incoming>> /\ pc[Main] \in {"idle", "destroy"}
    BY <1>6 DEF RunFinalOptimization, Destroy, calls
  <2> QED
    BY <1>0, <1>1, <2>1, <2>2
<1>7. ASSUME NEW here \in {"wait_final", "wait_destroy", "await_final", "await_destroy"},
             NEW next \in {"await_final", "await_destroy", "optimize", "destroy"},
             WaitForAllComputations(here, next) \/ AwaitNotification(here, next)
      PROVE  ScanOK'
  <2>1. UNCHANGED <<scan, incoming>> /\ pc[Main] = here /\ pc' = [pc EXCEPT ![Main] = next]
    BY <1>7 DEF WaitForAllComputations, AwaitNotification, calls
  <2> QED
    BY <1>0, <1>1, <2>1
<1>8. ASSUME NEW th \in Threads, BeginScan(th) PROVE ScanOK'
  <2>1. pc[th] = "begin" /\ pc' = [pc EXCEPT ![th] = "issue"] /\ UNCHANGED incoming
    BY <1>8, BeginScanIs
  <2>2. scan' \in Scans
    <3>1. PICK todo : todo = BegunTodo
      OBVIOUS
    <3>2. scan' = [scan EXCEPT !.todo = todo]
      BY <1>8, <3>1, BeginScanIs
    <3>3. scan \in Scans /\ todo \in SUBSET (NodeIds \X SubmapIds)
      BY <2>1, <3>1, BegunTodoType
    <3> QED
      BY <3>2, <3>3, ScanFields
  <2> QED
    BY <1>0, <2>1, <2>2 DEF ScanOK, Inside
<1>9. ASSUME NEW th \in Threads, IssueConstraint(th) PROVE ScanOK'
  <2>1. PICK pair \in scan.todo : scan' = [scan EXCEPT !.todo = @ \ {pair}]
    BY <1>9 DEF IssueConstraint, ComputeConstraint
  <2>2. UNCHANGED <<pc, incoming>> /\ pc[th] = "issue"
    BY <1>9 DEF IssueConstraint, ComputeConstraint, calls
  <2>3. scan \in Scans
    BY <2>2 DEF ScanOK, Inside
  <2>4. PICK todo : todo = scan.todo \ {pair}
    OBVIOUS
  <2>5. todo \in SUBSET (NodeIds \X SubmapIds)
    BY <2>3, <2>4, ScanFields
  <2>6. scan' \in Scans
    BY <2>1, <2>3, <2>4, <2>5, ScanFields
  <2> QED
    BY <1>0, <2>2, <2>6 DEF ScanOK, Inside
\* The end of a scan.
<1>10. ASSUME NEW th \in Threads, ItemDone(th), pc[th] \in Inside, UNCHANGED incoming
       PROVE  ScanOK'
  <2>1. PICK l \in {"idle", "drain"} : pc' = [pc EXCEPT ![th] = l] /\ scan' = None
    BY <1>10 DEF ItemDone
  <2>2. \A a \in Threads : a # th => pc[a] \notin Inside
    BY <1>10, OneInside
  <2> QED
    BY <1>0, <1>10, <2>1, <2>2 DEF ScanOK, Inside
<1>11. ASSUME NEW th \in Threads, EndScan(th) \/ RequestLoopClosure(th) PROVE ScanOK'
  <2>1. pc[th] \in {"issue", "close"} /\ UNCHANGED incoming
    BY <1>11 DEF EndScan, RequestLoopClosure, calls
  <2>2. CASE ItemDone(th)
    BY <1>10, <2>1, <2>2 DEF Inside
  <2>3. ASSUME NEW l \in {"close", "register"}, pc' = [pc EXCEPT ![th] = l], UNCHANGED scan,
               scan.todo = {} \/ pc[th] = "close"
        PROVE  ScanOK'
    <3>1. \A a \in Threads : a # th => pc[a] \notin Inside
      BY <2>1, OneInside DEF Locked, Inside
    <3>2. scan \in Scans /\ scan # None
      BY <2>1 DEF ScanOK, Inside
    <3>3. scan.todo = {}
      BY <2>1, <2>3, <3>1, <3>2 DEF ScanOK, Inside
    <3> QED
      BY <1>0, <2>1, <2>3, <3>2, <3>3 DEF ScanOK, Inside
  <2> QED
    BY <1>11, <2>2, <2>3 DEF EndScan, RequestLoopClosure
<1>12. ASSUME NEW th \in Threads, HandleScanQueue(th) PROVE ScanOK'
  <2>1. /\ scan' = None /\ UNCHANGED incoming /\ pc[th] = "register"
        /\ pc' = [pc EXCEPT ![th] = IF th = Main THEN "idle" ELSE "return"]
    BY <1>12 DEF HandleScanQueue, calls
  <2>2. \A a \in Threads : a # th => pc[a] \notin Inside
    BY <2>1, OneInside DEF Locked
  <2> QED
    BY <1>0, <2>1, <2>2 DEF ScanOK, Inside
<1>13. ASSUME NEW th \in Threads, RunOptimization(th) \/ PublishOptimization(th) PROVE ScanOK'
  <2>1. UNCHANGED <<scan, incoming>> /\ pc[th] \in {"optimize", "solve"}
    BY <1>13 DEF RunOptimization, PublishOptimization, calls
  <2>2. PICK l \in {"solve", "wait_destroy", "resume"} : pc' = [pc EXCEPT ![th] = l]
    BY <1>13 DEF RunOptimization, PublishOptimization, AfterOptimization
  <2> QED
    BY <1>1, <2>1, <2>2
<1>14. ASSUME NEW w \in Workers, BuilderStep(w) \/ \E match \in BOOLEAN : Match(w, match)
       PROVE  ScanOK'
  BY <1>2, <1>14 DEF BuilderStep, Match, calls
<1>15. ASSUME NEW w \in Workers, EnterCallback(w) \/ Resume(w) \/ ReturnFromCallback(w)
       PROVE  ScanOK'
  <2>1. UNCHANGED <<scan, incoming>> /\ pc[w] \in {"pool", "resume", "return"}
    BY <1>15 DEF EnterCallback, Resume, ReturnFromCallback, calls
  <2>2. PICK l \in {"return", "optimize", "drain", "pool"} : pc' = [pc EXCEPT ![w] = l]
    BY <1>15 DEF EnterCallback, Resume, ReturnFromCallback
  <2> QED
    BY <1>0, <1>1, <2>1, <2>2
<1>16. ASSUME NEW w \in Workers, pc[w] = "drain" PROVE scan = None
  <2>1. \A a \in Threads : pc[a] \notin Inside \cup {"register"}
    BY <1>0, <1>16, OneInside DEF Locked, Inside
  <2> QED
    BY <2>1 DEF ScanOK
<1>17. ASSUME NEW w \in Workers, LeaveLoop(w) PROVE ScanOK'
  <2>1. UNCHANGED <<scan, incoming>> /\ pc[w] = "drain" /\ scan = None
    BY <1>16, <1>17 DEF LeaveLoop, calls
  <2>2. PICK l \in {"register", "return"} : pc' = [pc EXCEPT ![w] = l]
    BY <1>17 DEF LeaveLoop
  <2> QED
    BY <1>0, <2>1, <2>2 DEF ScanOK, Inside
<1>18. ASSUME NEW w \in Workers, WorkOffQueue(w) PROVE ScanOK'
  <2>1. pc[w] = "drain" /\ UNCHANGED incoming /\ scan_queue # <<>> /\ scan = None
    BY <1>16, <1>18 DEF WorkOffQueue, calls
  <2>2. CASE UNCHANGED <<pc, scan>>
    BY <1>2, <2>1, <2>2
  <2>3. CASE /\ Head(scan_queue) # ImuItem
             /\ scan' = [item |-> Head(scan_queue), todo |-> {}]
             /\ pc' = [pc EXCEPT ![w] = "begin"]
    <3>1. Works(w)
      BY <2>1 DEF CallsOK, Works
    <3>2. scan_queue \in Queues
      BY <1>0, <3>1 DEF OneOwner, QueueOK
    <3>3. Head(scan_queue) \in ScanItems
      BY <2>1, <2>3, <3>2 DEF Queues
    <3>4. scan' \in Scans /\ scan'.todo = {}
      BY <2>3, <3>3 DEF Scans
    <3> QED
      BY <1>0, <2>1, <2>3, <3>4 DEF ScanOK, Inside
  <2> QED
    BY <1>18, <2>2, <2>3 DEF WorkOffQueue
<1>19. CASE UNCHANGED vars
  BY <1>2, <1>19 DEF vars, calls
<1> QED
  BY <1>3, <1>4, <1>5, <1>6, <1>7, <1>8, <1>9, <1>11, <1>12, <1>13, <1>14, <1>15, <1>17,
     <1>18, <1>19, Steps

LEMMA QueueKept ==
    ASSUME PlacesOK, CallsOK, ScanOK, QueueOK, OneOwner, CountsOK, [Next]_vars
    PROVE  QueueOK'
<1> USE DEF Goto, At
<1>0. /\ \A w \in Workers : w # Main /\ w \in Threads
      /\ Main \in Threads
      /\ pc \in [Threads -> MainPlaces \cup WorkerPlaces]
      /\ \A th \in Threads : th = Main \/ th \in Workers
      /\ scan_queue' \in Queues \cup {None}
  BY ThreadsAssumption, QueueTypeKept DEF ThreadsAssumption, PlacesOK, Threads
\* Nothing happens to the queue, and no thread comes into a scan.
<1>1. ASSUME UNCHANGED <<scan_queue, run_loop_closure>>,
             \A th \in Threads : pc'[th] \in Inside =>
                                    pc[th] \in Inside /\ scan'.item = scan.item
      PROVE  QueueOK'
  BY <1>0, <1>1 DEF QueueOK
<1>2. ASSUME \A th \in Threads : pc'[th] \notin Inside, run_loop_closure' \in BOOLEAN,
             scan_queue' = None => ~run_loop_closure'
      PROVE  QueueOK'
  BY <1>0, <1>2 DEF QueueOK
<1>3. ASSUME UNCHANGED <<scan_queue, run_loop_closure, scan>>, NEW th \in Threads, NEW l,
             pc' = [pc EXCEPT ![th] = l], l \notin Inside
      PROVE  QueueOK'
  <2>1. \A a \in Threads : pc'[a] \in Inside => pc[a] \in Inside
    BY <1>0, <1>3
  <2> QED
    BY <1>1, <1>3, <2>1
<1>4. ASSUME UNCHANGED <<scan_queue, run_loop_closure, scan, pc>> PROVE QueueOK'
  BY <1>1, <1>4
<1>5. ASSUME mutex = Free PROVE \A th \in Threads : pc[th] \notin Inside
  BY <1>5, OneInside
<1>6. ASSUME NEW th \in Threads, pc[th] \in Locked
      PROVE  \A a \in Threads : a # th => pc[a] \notin Inside
  BY <1>6, OneInside
<1>7. ASSUME NEW t \in Trajectories, AddScan(t) PROVE QueueOK'
  <2>1. /\ UNCHANGED <<scan_queue, run_loop_closure, scan>>
        /\ pc' = [pc EXCEPT ![Main] = "append"]
    BY <1>7 DEF AddScan, queue
  <2> QED
    BY <1>0, <1>3, <2>1 DEF Inside
<1>8. CASE AppendScan
  <2>1. UNCHANGED run_loop_closure /\ \A th \in Threads : pc[th] \notin Inside
    BY <1>5, <1>8 DEF AppendScan
  <2>2. CASE scan_queue = None
    <3>1. UNCHANGED scan_queue /\ pc' = [pc EXCEPT ![Main] = "begin"]
      BY <1>8, <2>2 DEF AppendScan
    <3>2. \A w \in Workers : pc'[w] \notin Inside
      BY <1>0, <2>1, <3>1
    <3> QED
      BY <1>0, <2>1, <2>2, <3>1, <3>2 DEF QueueOK
  <2>3. CASE scan_queue # None
    <3>1. pc' = [pc EXCEPT ![Main] = "idle"] /\ scan_queue' = Append(scan_queue, NewItem)
      BY <1>8, <2>3 DEF AppendScan, NewItem
    <3>2. scan_queue' # None
      <4>1. pc[Main] = "append"
        BY <1>8 DEF AppendScan
      <4> QED
        BY <2>3, <3>1, <4>1, NewItemType, QueueIsThere DEF QueueOK
    <3> QED
      BY <1>0, <1>2, <2>1, <3>1, <3>2 DEF QueueOK, Inside
  <2> QED
    BY <2>2, <2>3
<1>9. CASE AddImuData
  <2>1. UNCHANGED <<run_loop_closure, pc>> /\ \A th \in Threads : pc[th] \notin Inside
    BY <1>5, <1>9 DEF AddImuData
  <2>2. scan_queue = None => scan_queue' = None
    BY <1>9 DEF AddImuData
  <2>3. scan_queue # None => scan_queue' # None
    BY <1>9, QueueIsThere DEF AddImuData, QueueOK
  <2> QED
    BY <1>2, <2>1, <2>2, <2>3 DEF QueueOK
<1>10. CASE RunFinalOptimization \/ Destroy
  <2>1. UNCHANGED <<scan_queue, run_loop_closure, scan>>
    BY <1>10 DEF RunFinalOptimization, Destroy, queue
  <2>2. PICK l \in {"wait_final", "destroyed"} : pc' = [pc EXCEPT ![Main] = l]
    BY <1>10 DEF RunFinalOptimization, Destroy
  <2> QED
    BY <1>0, <1>3, <2>1, <2>2 DEF Inside
<1>11. ASSUME NEW here \in {"wait_final", "wait_destroy", "await_final", "await_destroy"},
              NEW next \in {"await_final", "await_destroy", "optimize", "destroy"},
              WaitForAllComputations(here, next) \/ AwaitNotification(here, next)
       PROVE  QueueOK'
  <2>1. UNCHANGED <<scan_queue, run_loop_closure, scan>> /\ pc' = [pc EXCEPT ![Main] = next]
    BY <1>11 DEF WaitForAllComputations, AwaitNotification, queue
  <2> QED
    BY <1>0, <1>3, <2>1 DEF Inside
<1>12. ASSUME NEW th \in Threads, BeginScan(th) \/ IssueConstraint(th) PROVE QueueOK'
  <2>1. UNCHANGED <<scan_queue, run_loop_closure>> /\ pc[th] \in Inside
    BY <1>12 DEF BeginScan, IssueConstraint, ComputeConstraint, queue, Inside
  <2>2. UNCHANGED pc \/ pc' = [pc EXCEPT ![th] = "issue"]
    BY <1>12 DEF BeginScan, IssueConstraint, ComputeConstraint
  <2>3. scan'.item = scan.item
    <3>1. scan \in Scans
      BY <2>1 DEF ScanOK
    <3>2. \E todo : scan' = [scan EXCEPT !.todo = todo]
      BY <1>12, BeginScanIs DEF IssueConstraint, ComputeConstraint
    <3> QED
      BY <3>1, <3>2 DEF Scans
  <2> QED
    BY <1>0, <1>1, <2>1, <2>2, <2>3
<1>13. ASSUME NEW th \in Threads, ItemDone(th), pc[th] \in Inside, run_loop_closure' \in BOOLEAN,
              scan_queue = None => ~run_loop_closure'
       PROVE  QueueOK'
  <2>1. PICK l \in {"idle", "drain"} : pc' = [pc EXCEPT ![th] = l]
    BY <1>13 DEF ItemDone
  <2>2. \A a \in Threads : pc'[a] \notin Inside
    BY <1>0, <1>6, <1>13, <2>1 DEF Inside, Locked
  <2>3. scan_queue # None => scan_queue' # None
    BY <1>0, <1>13, QueueIsThere DEF ItemDone, QueueOK
  <2> QED
    BY <1>2, <1>13, <2>2, <2>3
<1>14. ASSUME NEW th \in Threads, EndScan(th) PROVE QueueOK'
  <2>1. pc[th] = "issue" /\ pc[th] \in Inside /\ UNCHANGED run_loop_closure
    BY <1>14 DEF EndScan, Inside
  <2>2. CASE ItemDone(th)
    BY <1>13, <2>1, <2>2 DEF QueueOK
  <2>3. CASE pc' = [pc EXCEPT ![th] = "close"] /\ UNCHANGED <<scan, scan_queue>>
    BY <1>0, <1>1, <2>1, <2>3
  <2> QED
    BY <1>14, <2>2, <2>3 DEF EndScan
<1>15. ASSUME NEW th \in Threads, RequestLoopClosure(th) PROVE QueueOK'
  <2>1. pc[th] = "close" /\ pc[th] \in Inside /\ run_loop_closure' = TRUE
    BY <1>15 DEF RequestLoopClosure, Inside
  <2>2. CASE scan_queue # None
    BY <1>13, <1>15, <2>1, <2>2 DEF RequestLoopClosure
  <2>3. CASE scan_queue = None
    <3>1. scan_queue' = <<>> /\ pc' = [pc EXCEPT ![th] = "register"]
      BY <1>15, <2>3 DEF RequestLoopClosure
    <3>2. \A a \in Threads : pc'[a] \notin Inside
      BY <1>0, <1>6, <2>1, <3>1 DEF Inside, Locked
    <3> QED
      BY <1>2, <2>1, <3>1, <3>2, QueueIsThere
  <2> QED
    BY <2>2, <2>3
<1>16. ASSUME NEW th \in Threads, HandleScanQueue(th) PROVE QueueOK'
  <2>1. /\ UNCHANGED <<scan_queue, run_loop_closure>> /\ pc[th] = "register"
        /\ pc' = [pc EXCEPT ![th] = IF th = Main THEN "idle" ELSE "return"]
    BY <1>16 DEF HandleScanQueue, queue
  <2>2. \A a \in Threads : pc'[a] \notin Inside
    BY <1>0, <1>6, <2>1 DEF Inside, Locked
  <2> QED
    BY <1>2, <2>1, <2>2 DEF QueueOK
<1>17. ASSUME NEW th \in Threads, RunOptimization(th) \/ PublishOptimization(th) PROVE QueueOK'
  <2>1. UNCHANGED <<scan_queue, run_loop_closure, scan>>
    BY <1>17 DEF RunOptimization, PublishOptimization, queue
  <2>2. PICK l \in {"solve", "wait_destroy", "resume"} : pc' = [pc EXCEPT ![th] = l]
    BY <1>17 DEF RunOptimization, PublishOptimization, AfterOptimization
  <2> QED
    BY <1>3, <2>1, <2>2 DEF Inside
<1>18. ASSUME NEW w \in Workers, BuilderStep(w) \/ \E match \in BOOLEAN : Match(w, match)
       PROVE  QueueOK'
  BY <1>4, <1>18 DEF BuilderStep, Match, queue
<1>19. ASSUME NEW w \in Workers, EnterCallback(w) \/ ReturnFromCallback(w) PROVE QueueOK'
  <2>1. UNCHANGED <<scan_queue, run_loop_closure, scan>>
    BY <1>19 DEF EnterCallback, ReturnFromCallback, queue
  <2>2. PICK l \in {"return", "optimize", "pool"} : pc' = [pc EXCEPT ![w] = l]
    BY <1>19 DEF EnterCallback, ReturnFromCallback
  <2> QED
    BY <1>0, <1>3, <2>1, <2>2 DEF Inside
<1>20. ASSUME NEW w \in Workers, Resume(w) PROVE QueueOK'
  <2>1. /\ run_loop_closure' = FALSE /\ \A th \in Threads : pc[th] \notin Inside
        /\ pc' = [pc EXCEPT ![w] = "drain"]
    BY <1>5, <1>20 DEF Resume
  <2> QED
    BY <1>0, <1>2, <2>1 DEF Inside
<1>21. ASSUME NEW w \in Workers, LeaveLoop(w) PROVE QueueOK'
  <2>1. pc[w] = "drain" /\ UNCHANGED run_loop_closure /\ run_loop_closure \in BOOLEAN
    BY <1>21 DEF LeaveLoop, QueueOK
  <2>2. \/ run_loop_closure /\ UNCHANGED scan_queue
        \/ ~run_loop_closure
    BY <1>21 DEF LeaveLoop
  <2>3. PICK l \in {"register", "return"} : pc' = [pc EXCEPT ![w] = l]
    BY <1>21 DEF LeaveLoop
  <2>4. \A a \in Threads : pc'[a] \notin Inside
    BY <1>0, <1>6, <2>1, <2>3 DEF Inside, Locked
  <2> QED
    BY <1>2, <2>1, <2>2, <2>4 DEF QueueOK
<1>22. ASSUME NEW w \in Workers, WorkOffQueue(w) PROVE QueueOK'
  <2>1. /\ pc[w] = "drain" /\ UNCHANGED run_loop_closure /\ ~run_loop_closure
        /\ scan_queue # <<>>
        /\ \A a \in Threads : pc[a] \notin Inside
    <3>1. /\ pc[w] = "drain" /\ UNCHANGED run_loop_closure /\ ~run_loop_closure
          /\ scan_queue # <<>>
      BY <1>22 DEF WorkOffQueue
    <3>2. pc[w] \in Locked /\ pc[w] \notin Inside
      BY <3>1 DEF Inside, Locked
    <3> QED
      BY <1>0, <1>6, <3>1, <3>2
  <2>2. CASE UNCHANGED pc
    BY <1>2, <2>1, <2>2 DEF QueueOK
  <2>3. CASE /\ scan' = [item |-> Head(scan_queue), todo |-> {}]
             /\ pc' = [pc EXCEPT ![w] = "begin"]
             /\ UNCHANGED scan_queue
    <3>1. Works(w)
      BY <2>1 DEF CallsOK, Works
    <3>2. scan_queue # None
      BY <1>0, <3>1 DEF OneOwner
    <3>3. \A a \in Threads : a # w => pc'[a] \notin Inside
      BY <1>0, <2>1, <2>3
    <3> QED
      BY <1>0, <2>1, <2>3, <3>2, <3>3 DEF QueueOK
  <2> QED
    BY <1>22, <2>2, <2>3 DEF WorkOffQueue
<1>23. CASE UNCHANGED vars
  BY <1>4, <1>23 DEF vars, queue
<1> QED
  BY <1>7, <1>8, <1>9, <1>10, <1>11, <1>12, <1>14, <1>15, <1>16, <1>17, <1>18, <1>19, <1>20,
     <1>21, <1>22, <1>23, Steps
-----------------------------------------------------------------------------
(* The counts of scans.                                                     *)

\* Publishing keeps the number of poses.
LEMMA PublishedNodes ==
    ASSUME CountsOK, NEW th, PublishOptimization(th)
    PROVE  /\ trajectory_nodes' \in [Trajectories -> Seq(Nat)]
           /\ frame' \in [Trajectories -> Nat]
           /\ \A t \in Trajectories : /\ Len(trajectory_nodes'[t]) = Len(trajectory_nodes[t])
                                      /\ trajectory_nodes[t] \in Seq(Nat)
<1>1. PICK new : new = [t \in Trajectories |->
                           IF submap_data[t] > 0 THEN frame[t] + 1 ELSE frame[t]]
  OBVIOUS
<1>2. /\ frame' = new
      /\ trajectory_nodes' =
            [t \in Trajectories |->
               [k \in DOMAIN trajectory_nodes[t] |->
                  IF k <= node_data[t] \/ trajectory_nodes[t][k] = frame[t]
                  THEN new[t] ELSE trajectory_nodes[t][k]]]
  BY <1>1 DEF PublishOptimization
<1>3. new \in [Trajectories -> Nat]
  BY <1>1 DEF CountsOK
<1>4. ASSUME NEW t \in Trajectories
      PROVE  /\ trajectory_nodes[t] \in Seq(Nat)
             /\ trajectory_nodes'[t] \in Seq(Nat)
             /\ Len(trajectory_nodes'[t]) = Len(trajectory_nodes[t])
  <2>1. PICK old \in Seq(Nat) : old = trajectory_nodes[t]
    BY DEF CountsOK
  <2>2. Len(old) \in Nat /\ DOMAIN old = 1..Len(old) /\ \A k \in 1..Len(old) : old[k] \in Nat
    BY LenProperties, ElementOfSeq
  <2>3. trajectory_nodes'[t] = [k \in 1..Len(old) |->
                                  IF k <= node_data[t] \/ old[k] = frame[t]
                                  THEN new[t] ELSE old[k]]
    BY <1>2, <2>1, <2>2
  <2>4. new[t] \in Nat
    BY <1>3
  <2>5. PICK list : list = trajectory_nodes'[t]
    OBVIOUS
  <2>6. list \in [1..Len(old) -> Nat]
    BY <2>2, <2>3, <2>4, <2>5
  <2>7. list \in Seq(Nat) /\ Len(list) = Len(old)
    BY <2>2, <2>6
  <2> QED
    BY <2>1, <2>5, <2>7
<1>5. trajectory_nodes' \in [Trajectories -> Seq(Nat)]
  BY <1>2, <1>4
<1> QED
  BY <1>2, <1>3, <1>4, <1>5

LEMMA CountsKept ==
    ASSUME PlacesOK, ScanOK, QueueOK, CountsOK, BacklogOK, SubmapsOK, [Next]_vars
    PROVE  CountsOK'
<1> USE DEF Goto, At
<1>0. \A t \in Trajectories : /\ trajectory_nodes[t] \in Seq(Nat)
                              /\ Len(trajectory_nodes[t]) \in Nat
                              /\ node_data[t] \in Nat /\ frame[t] \in Nat
  BY LenProperties DEF CountsOK
<1>1. ASSUME UNCHANGED <<trajectory_nodes, node_data, frame, incoming>> PROVE CountsOK'
  BY <1>1 DEF CountsOK
<1>2. ASSUME NEW t \in Trajectories, AddScan(t) PROVE CountsOK'
  <2>1. UNCHANGED <<trajectory_nodes, node_data, frame>>
    BY <1>2 DEF AddScan, problem, published
  <2>2. incoming'.trajectory = t /\ Len(trajectory_nodes[t]) < MaxNodes
    BY <1>2 DEF AddScan
  <2> QED
    BY <2>1, <2>2 DEF CountsOK
<1>3. CASE AppendScan
  <2>1. PICK t \in Trajectories : t = incoming.trajectory
    BY <1>3, NewItemType DEF AppendScan
  <2>2. Len(trajectory_nodes[t]) < MaxNodes /\ incoming.frame \in Nat
    BY <1>3, <2>1, NewItemType DEF AppendScan, Incoming
  <2>3. /\ trajectory_nodes' =
              [trajectory_nodes EXCEPT ![t] = Append(trajectory_nodes[t], incoming.frame)]
        /\ incoming' = None
        /\ UNCHANGED <<node_data, frame>>
    BY <1>3, <2>1 DEF AppendScan, problem
  <2>4. PICK new : new = Append(trajectory_nodes[t], incoming.frame)
    OBVIOUS
  <2>5. new \in Seq(Nat) /\ Len(new) = Len(trajectory_nodes[t]) + 1
    BY <1>0, <2>2, <2>4
  <2>6. /\ trajectory_nodes' \in [Trajectories -> Seq(Nat)]
        /\ \A u \in Trajectories : Len(trajectory_nodes'[u]) = IF u = t THEN Len(new)
                                                               ELSE Len(trajectory_nodes[u])
    BY <2>3, <2>4, <2>5 DEF CountsOK
  <2> QED
    BY <1>0, <2>2, <2>3, <2>5, <2>6, BoundsAssumption DEF CountsOK, BoundsAssumption
<1>4. CASE AddImuData \/ RunFinalOptimization \/ Destroy \/ UNCHANGED vars
  <2>1. CASE AddImuData
    BY <1>1, <2>1 DEF AddImuData, published
  <2>2. CASE RunFinalOptimization \/ Destroy \/ UNCHANGED vars
    BY <1>1, <2>2 DEF RunFinalOptimization, Destroy, vars, problem, published, calls
  <2> QED
    BY <1>4, <2>1, <2>2
<1>5. ASSUME NEW here, NEW next, WaitForAllComputations(here, next) \/ AwaitNotification(here, next)
      PROVE  CountsOK'
  BY <1>1, <1>5 DEF WaitForAllComputations, AwaitNotification, problem, published, calls
<1>6. ASSUME NEW th \in Threads, BeginScan(th) PROVE CountsOK'
  <2>1. PICK t : t = scan.item.trajectory
    OBVIOUS
  <2>2. /\ node_data' = [node_data EXCEPT ![t] = @ + 1] /\ pc[th] = "begin"
        /\ UNCHANGED <<trajectory_nodes, frame, incoming>>
    BY <1>6, <2>1, BeginScanIs
  <2>3. t \in Trajectories /\ node_data[t] < Len(trajectory_nodes[t])
    BY <2>1, <2>2, NextItem, ScanFields, ItemKinds
  <2> QED
    BY <1>0, <2>2, <2>3 DEF CountsOK
<1>7. ASSUME NEW th \in Threads,
             \/ IssueConstraint(th) \/ EndScan(th) \/ RequestLoopClosure(th)
             \/ HandleScanQueue(th) \/ RunOptimization(th)
      PROVE  CountsOK'
  BY <1>1, <1>7 DEF IssueConstraint, ComputeConstraint, EndScan, RequestLoopClosure,
     HandleScanQueue, RunOptimization, problem, published, calls
<1>8. ASSUME NEW th \in Threads, PublishOptimization(th) PROVE CountsOK'
  <2>1. UNCHANGED <<node_data, incoming>>
    BY <1>8 DEF PublishOptimization, problem, calls
  <2>2. incoming # None => incoming.trajectory \in Trajectories
    BY DEF ScanOK, Incoming
  <2> QED
    BY <1>8, <2>1, <2>2, PublishedNodes DEF CountsOK
<1>9. ASSUME NEW w \in Workers,
             \/ BuilderStep(w) \/ (\E match \in BOOLEAN : Match(w, match)) \/ EnterCallback(w)
             \/ Resume(w) \/ LeaveLoop(w) \/ WorkOffQueue(w) \/ ReturnFromCallback(w)
      PROVE  CountsOK'
  BY <1>1, <1>9 DEF BuilderStep, Match, EnterCallback, Resume, LeaveLoop, WorkOffQueue,
     ReturnFromCallback, problem, published, calls
<1> QED
  BY <1>2, <1>3, <1>4, <1>5, <1>6, <1>7, <1>8, <1>9, Steps
-----------------------------------------------------------------------------
(* The backlog.                                                             *)

LEMMA ElementsOfQueue ==
    ASSUME NEW q \in Queues
    PROVE  /\ Len(q) \in Nat /\ DOMAIN q = 1..Len(q)
           /\ \A i \in DOMAIN q : q[i] \in ScanItems \cup {ImuItem}
           /\ \A t : \A i \in DOMAIN q : IsScan(q[i], t) => q[i].index \in Nat
<1>1. Len(q) \in Nat /\ DOMAIN q = 1..Len(q)
  BY LenProperties DEF Queues
<1>2. \A i \in DOMAIN q : q[i] \in ScanItems \cup {ImuItem}
  BY <1>1, ElementOfSeq DEF Queues
<1> QED
  BY <1>1, <1>2, ItemKinds

\* The next scan comes at the end of the line,
LEMMA LineGrows ==
    ASSUME NEW q \in Queues, NEW item \in ScanItems \cup {ImuItem}, NEW t,
           NEW low \in Nat, NEW high \in Nat, NEW next \in Nat,
           low <= high, InLine(q, t, low, high),
           IF IsScan(item, t) THEN item.index = high /\ next = high + 1 ELSE next = high
    PROVE  InLine(Append(q, item), t, low, next)
<1>1. /\ Len(q) \in Nat /\ DOMAIN q = 1..Len(q)
      /\ \A i \in DOMAIN q : IsScan(q[i], t) => q[i].index \in Nat
  BY ElementsOfQueue
<1>2. PICK longer : longer = Append(q, item)
  OBVIOUS
<1>3. /\ DOMAIN longer = 1..Len(q) + 1
      /\ \A i \in 1..Len(q) : longer[i] = q[i]
      /\ longer[Len(q) + 1] = item
  BY <1>1, <1>2 DEF Queues
<1>4. ASSUME NEW i \in DOMAIN longer, IsScan(longer[i], t)
      PROVE  /\ low <= longer[i].index /\ longer[i].index < next
             /\ \A j \in DOMAIN longer : i < j /\ IsScan(longer[j], t) =>
                   longer[i].index < longer[j].index
  <2>1. CASE i \in 1..Len(q)
    <3>1. /\ low <= q[i].index /\ q[i].index < high /\ q[i].index \in Nat
          /\ \A j \in DOMAIN q : i < j /\ IsScan(q[j], t) => q[i].index < q[j].index
      BY <1>1, <1>3, <1>4, <2>1 DEF InLine
    <3>2. high <= next
      OBVIOUS
    <3> QED
      BY <1>1, <1>3, <2>1, <3>1, <3>2
  <2>2. CASE i = Len(q) + 1
    BY <1>1, <1>3, <1>4, <2>2
  <2> QED
    BY <1>1, <1>3, <2>1, <2>2
<1>5. ASSUME NEW k \in Nat, low <= k, k < next
      PROVE  \E i \in DOMAIN longer : IsScan(longer[i], t) /\ longer[i].index = k
  <2>1. CASE k < high
    BY <1>1, <1>3, <1>5, <2>1 DEF InLine
  <2>2. CASE k = high
    BY <1>1, <1>3, <1>5, <2>2
  <2> QED
    BY <1>5, <2>1, <2>2
<1> QED
  BY <1>2, <1>4, <1>5 DEF InLine

\* and leaves it at the front.
LEMMA LineMoves ==
    ASSUME NEW q \in Queues, q # <<>>, NEW t,
           NEW low \in Nat, NEW high \in Nat, NEW next \in Nat, InLine(q, t, low, high),
           IF IsScan(Head(q), t) THEN Head(q).index = low /\ next = low + 1 ELSE next = low
    PROVE  InLine(Tail(q), t, next, high)
<1>1. /\ Len(q) \in Nat \ {0} /\ DOMAIN q = 1..Len(q)
      /\ \A i \in DOMAIN q : IsScan(q[i], t) => q[i].index \in Nat
      /\ Head(q) = q[1]
  BY ElementsOfQueue DEF Queues
<1>2. PICK tail : tail = Tail(q)
  OBVIOUS
<1>3. /\ DOMAIN tail = 1..Len(q) - 1
      /\ \A i \in 1..Len(q) - 1 : tail[i] = q[i + 1] /\ i + 1 \in DOMAIN q
  BY <1>1, <1>2 DEF Queues
<1>4. ASSUME NEW i \in DOMAIN tail, IsScan(tail[i], t)
      PROVE  /\ next <= tail[i].index /\ tail[i].index < high
             /\ \A j \in DOMAIN tail : i < j /\ IsScan(tail[j], t) =>
                   tail[i].index < tail[j].index
  <2>1. /\ tail[i] = q[i + 1] /\ i + 1 \in DOMAIN q /\ i + 1 \in Nat /\ 1 < i + 1
        /\ q[i + 1].index \in Nat
    BY <1>1, <1>3, <1>4
  <2>2. /\ low <= q[i + 1].index /\ q[i + 1].index < high
        /\ \A j \in DOMAIN q : i + 1 < j /\ IsScan(q[j], t) => q[i + 1].index < q[j].index
    BY <1>4, <2>1 DEF InLine
  <2>3. IsScan(q[1], t) => q[1].index < q[i + 1].index
    BY <1>1, <1>4, <2>1 DEF InLine
  <2>4. next <= q[i + 1].index
    BY <1>1, <2>1, <2>2, <2>3
  <2>5. ASSUME NEW j \in DOMAIN tail, i < j, IsScan(tail[j], t)
        PROVE  tail[i].index < tail[j].index
    <3>1. tail[j] = q[j + 1] /\ j + 1 \in DOMAIN q /\ i + 1 < j + 1
      BY <1>1, <1>3, <2>5
    <3> QED
      BY <2>1, <2>2, <2>5, <3>1
  <2> QED
    BY <2>1, <2>2, <2>4, <2>5
<1>5. ASSUME NEW k \in Nat, next <= k, k < high
      PROVE  \E i \in DOMAIN tail : IsScan(tail[i], t) /\ tail[i].index = k
  <2>1. PICK i \in DOMAIN q : IsScan(q[i], t) /\ q[i].index = k
    BY <1>5 DEF InLine
  <2>2. i # 1
    BY <1>1, <1>5, <2>1
  <2>3. i - 1 \in DOMAIN tail /\ tail[i - 1] = q[i]
    BY <1>1, <1>3, <2>1, <2>2
  <2> QED
    BY <2>1, <2>3
<1> QED
  BY <1>2, <1>4, <1>5 DEF InLine

LEMMA BacklogType ==
    ASSUME ScanOK, QueueOK
    PROVE  Backlog \in Queues
<1>1. CASE scan_queue = None
  <2>1. pc[Main] = "begin" => scan.item \in ScanItems
    BY ScanFields DEF ScanOK, Inside, Threads
  <2>2. pc[Main] = "begin" => <<scan.item>> \in Queues
    BY <2>1 DEF Queues
  <2> QED
    BY <1>1, <2>2, QueueIsThere DEF Backlog
<1>2. CASE scan_queue # None
  <2>1. scan_queue \in Queues
    BY <1>2 DEF QueueOK
  <2>2. ASSUME NEW w \in Workers, pc[w] \in {"issue", "close"} PROVE scan_queue # <<>>
    BY <2>2 DEF QueueOK, Inside
  <2> QED
    BY <1>2, <2>1, <2>2, QueueIsThere DEF Backlog
<1> QED
  BY <1>1, <1>2

\* Beginning a scan takes it out of the backlog, not the pop that follows.
LEMMA BacklogSteps ==
    ASSUME PlacesOK, CallsOK, ScanOK, QueueOK, OneOwner, CountsOK, BacklogOK, [Next]_vars
    PROVE  \/ AppendScan /\ Backlog' = Append(Backlog, NewItem)
           \/ AddImuData /\ Backlog' = Append(Backlog, ImuItem)
           \/ /\ \E w \in Workers : WorkOffQueue(w)
              /\ Backlog # <<>> /\ Head(Backlog) = ImuItem /\ Backlog' = Tail(Backlog)
           \/ \E th \in Threads : BeginScan(th) /\ Backlog' = Tail(Backlog)
           \/ /\ ~AppendScan /\ \A th \in Threads : ~BeginScan(th)
              /\ Backlog' = Backlog
<1> USE DEF Goto, At
<1>0. /\ \A w \in Workers : w # Main /\ w \in Threads
      /\ Main \in Threads
      /\ pc \in [Threads -> MainPlaces \cup WorkerPlaces]
      /\ \A th \in Threads : th = Main \/ th \in Workers
  BY ThreadsAssumption DEF ThreadsAssumption, PlacesOK, Threads
<1> DEFINE Nobody == ~ \E w \in Workers : pc[w] \in {"issue", "close"}
<1>1. ASSUME NEW th \in Threads, pc[th] \in Locked
      PROVE  \A a \in Threads : a # th => pc[a] \notin Locked
  BY <1>1, OneInside
<1>2. mutex = Free => Nobody /\ pc[Main] # "begin"
  BY <1>0, OneInside DEF Locked, Inside
\* Nothing in it moves.
<1>3. ASSUME ~AppendScan, \A th \in Threads : ~BeginScan(th), UNCHANGED scan_queue,
             scan_queue = None => (pc'[Main] = "begin" <=> pc[Main] = "begin"),
             scan_queue = None /\ pc[Main] = "begin" => scan'.item = scan.item,
             \A w \in Workers : pc'[w] \in {"issue", "close"} <=> pc[w] \in {"issue", "close"}
      PROVE  /\ ~AppendScan /\ \A th \in Threads : ~BeginScan(th)
             /\ Backlog' = Backlog
  BY <1>0, <1>3 DEF Backlog
<1>4. ASSUME ~AppendScan, \A th \in Threads : ~BeginScan(th), UNCHANGED <<scan_queue, scan>>,
             NEW th \in Threads, NEW l, pc' = [pc EXCEPT ![th] = l],
             {l, pc[th]} \cap {"begin", "issue", "close"} = {}
      PROVE  /\ ~AppendScan /\ \A a \in Threads : ~BeginScan(a)
             /\ Backlog' = Backlog
  BY <1>0, <1>3, <1>4
<1>5. \A th \in Threads : BeginScan(th) => pc[th] = "begin" /\ pc'[th] = "issue"
  BY <1>0, BeginScanIs
<1>6. AppendScan => pc[Main] = "append"
  BY DEF AppendScan
<1>7. CASE AppendScan
  <2>1. Nobody /\ pc[Main] = "append"
    BY <1>2, <1>7 DEF AppendScan
  <2>2. CASE scan_queue = None
    <3>1. UNCHANGED scan_queue /\ pc' = [pc EXCEPT ![Main] = "begin"]
          /\ scan' = [item |-> NewItem, todo |-> {}]
      BY <1>7, <2>2 DEF AppendScan, NewItem
    <3>2. Backlog = <<>> /\ Backlog' = <<NewItem>>
      BY <1>0, <2>1, <2>2, <3>1 DEF Backlog
    <3> QED
      BY <1>7, <3>2
  <2>3. CASE scan_queue # None
    <3>1. scan_queue' = Append(scan_queue, NewItem) /\ pc' = [pc EXCEPT ![Main] = "idle"]
      BY <1>7, <2>3 DEF AppendScan, NewItem
    <3>2. scan_queue' # None
      BY <2>1, <2>3, <3>1, NewItemType, QueueIsThere DEF QueueOK
    <3>3. Backlog' = scan_queue' /\ Backlog = scan_queue
      BY <1>0, <2>1, <2>3, <3>1, <3>2 DEF Backlog
    <3> QED
      BY <1>7, <3>1, <3>3
  <2> QED
    BY <2>2, <2>3
<1>8. CASE AddImuData
  <2>1. Nobody /\ UNCHANGED <<pc, scan>> /\ pc[Main] = "idle"
    BY <1>2, <1>8 DEF AddImuData
  <2>2. CASE scan_queue = None
    <3>1. UNCHANGED scan_queue
      BY <1>8, <2>2 DEF AddImuData
    <3> QED
      BY <1>3, <1>5, <1>6, <2>1, <3>1
  <2>3. CASE scan_queue # None
    <3>1. scan_queue' = Append(scan_queue, ImuItem)
      BY <1>8, <2>3 DEF AddImuData
    <3>2. scan_queue' # None
      BY <2>3, <3>1, QueueIsThere DEF QueueOK
    <3>3. Backlog' = scan_queue' /\ Backlog = scan_queue
      BY <2>1, <2>3, <3>2 DEF Backlog
    <3> QED
      BY <1>8, <3>1, <3>3
  <2> QED
    BY <2>2, <2>3
<1>9. ASSUME NEW th \in Threads, BeginScan(th) PROVE Backlog' = Tail(Backlog)
  <2>1. /\ pc[th] = "begin" /\ pc' = [pc EXCEPT ![th] = "issue"] /\ UNCHANGED scan_queue
    BY <1>9, BeginScanIs
  <2>2. \A a \in Threads : a # th => pc[a] \notin Locked
    BY <1>1, <2>1 DEF Locked, Inside
  <2>3. Nobody
    BY <1>0, <2>1, <2>2 DEF Locked, Inside
  <2>4. CASE th = Main
    <3>1. scan_queue = None
      BY <2>1, <2>4 DEF QueueOK, Inside
    <3>2. Backlog = <<scan.item>> /\ Backlog' = <<>>
      BY <1>0, <2>1, <2>4, <3>1 DEF Backlog
    <3> QED
      BY <3>2
  <2>5. CASE th \in Workers
    <3>1. scan_queue # None
      BY <2>1, <2>5 DEF QueueOK, Inside
    <3>2. Backlog = scan_queue /\ Backlog' = Tail(scan_queue)
      BY <1>0, <2>1, <2>3, <2>5, <3>1 DEF Backlog
    <3> QED
      BY <3>2
  <2> QED
    BY <1>0, <2>4, <2>5
\* The end of a scan: what it pops is no longer in the backlog.
<1>10. ASSUME NEW th \in Threads, ItemDone(th), pc[th] \in {"issue", "close"}
       PROVE  Backlog' = Backlog
  <2>1. PICK l \in {"idle", "drain"} : pc' = [pc EXCEPT ![th] = l]
    BY <1>10 DEF ItemDone
  <2>2. \A a \in Threads : a # th => pc[a] \notin Locked
    BY <1>1, <1>10 DEF Locked, Inside
  <2>3. CASE th = Main
    <3>1. scan_queue = None /\ UNCHANGED scan_queue
      BY <1>10, <2>3 DEF ItemDone, QueueOK, Inside
    <3>2. Backlog = <<>> /\ Backlog' = <<>>
      BY <1>0, <1>10, <2>1, <2>3, <3>1 DEF Backlog
    <3> QED
      BY <3>2
  <2>4. CASE th \in Workers
    <3>1. /\ scan_queue \in Queues /\ scan_queue # None /\ scan_queue # <<>>
          /\ scan_queue' = Tail(scan_queue)
      BY <1>0, <1>10, <2>4 DEF ItemDone, QueueOK, Inside
    <3>2. scan_queue' # None
      BY <3>1, QueueIsThere
    <3>3. Backlog = Tail(scan_queue)
      BY <1>10, <2>4, <3>1 DEF Backlog
    <3>4. \A w \in Workers : pc'[w] \notin {"issue", "close"}
      BY <1>0, <2>1, <2>2 DEF Locked, Inside
    <3>5. Backlog' = scan_queue'
      BY <3>2, <3>4 DEF Backlog
    <3> QED
      BY <3>1, <3>3, <3>5
  <2> QED
    BY <1>0, <2>3, <2>4
<1>11. ASSUME NEW th \in Threads, EndScan(th) PROVE Backlog' = Backlog
  <2>1. pc[th] = "issue"
    BY <1>11 DEF EndScan
  <2>2. CASE ItemDone(th)
    BY <1>10, <2>1, <2>2
  <2>3. CASE pc' = [pc EXCEPT ![th] = "close"] /\ UNCHANGED <<scan, scan_queue>>
    <3>1. \A w \in Workers : pc'[w] \in {"issue", "close"} <=> pc[w] \in {"issue", "close"}
      BY <1>0, <2>1, <2>3
    <3>2. pc'[Main] = "begin" <=> pc[Main] = "begin"
      BY <1>0, <2>1, <2>3
    <3> QED
      BY <2>3, <3>1, <3>2 DEF Backlog
  <2> QED
    BY <1>11, <2>2, <2>3 DEF EndScan
<1>12. ASSUME NEW th \in Threads, RequestLoopClosure(th) PROVE Backlog' = Backlog
  <2>1. pc[th] = "close"
    BY <1>12 DEF RequestLoopClosure
  <2>2. CASE scan_queue # None
    BY <1>10, <1>12, <2>1, <2>2 DEF RequestLoopClosure
  <2>3. CASE scan_queue = None
    <3>1. scan_queue' = <<>> /\ pc' = [pc EXCEPT ![th] = "register"]
      BY <1>12, <2>3 DEF RequestLoopClosure
    <3>2. \A a \in Threads : a # th => pc[a] \notin Locked
      BY <1>1, <2>1 DEF Locked, Inside
    <3>3. \A w \in Workers : pc'[w] \notin {"issue", "close"}
      BY <1>0, <3>1, <3>2 DEF Locked, Inside
    <3>4. pc[Main] # "begin"
      BY <1>0, <2>1, <3>2 DEF Locked, Inside
    <3> QED
      BY <2>3, <3>1, <3>3, <3>4, QueueIsThere DEF Backlog
  <2> QED
    BY <2>2, <2>3
<1>13. ASSUME NEW th \in Threads, EndScan(th) \/ RequestLoopClosure(th)
       PROVE  /\ ~AppendScan /\ \A a \in Threads : ~BeginScan(a)
              /\ Backlog' = Backlog
  <2>1. pc[th] \in {"issue", "close"}
    BY <1>13 DEF EndScan, RequestLoopClosure
  <2>2. \A a \in Threads : pc[a] # "begin"
    BY <1>1, <2>1 DEF Locked, Inside
  <2>3. mutex # Free
    BY <2>1, OneInside DEF Locked, Inside
  <2> QED
    BY <1>5, <1>11, <1>12, <1>13, <2>2, <2>3 DEF AppendScan
<1>14. ASSUME NEW th \in Threads, NEW l, pc' = [pc EXCEPT ![th] = l], pc[th] # "append",
              {l, pc[th]} \cap {"begin", "issue", "close"} = {}
       PROVE  ~AppendScan /\ \A a \in Threads : ~BeginScan(a)
  <2>1. \A a \in Threads : pc[a] = "begin" => pc'[a] = "begin"
    BY <1>0, <1>14
  <2>2. pc[Main] = "append" => pc'[Main] = "append"
    BY <1>0, <1>14
  <2>3. AppendScan => pc'[Main] # "append"
    BY <1>0 DEF AppendScan
  <2> QED
    BY <1>5, <1>6, <2>1, <2>2, <2>3
<1>15. ASSUME NEW t \in Trajectories, AddScan(t)
       PROVE  ~AppendScan /\ (\A a \in Threads : ~BeginScan(a)) /\ Backlog' = Backlog
  <2>1. /\ pc[Main] = "idle" /\ pc' = [pc EXCEPT ![Main] = "append"]
        /\ UNCHANGED <<scan_queue, scan>>
    BY <1>15 DEF AddScan, queue
  <2> QED
    BY <1>0, <1>4, <1>14, <2>1
<1>16. CASE RunFinalOptimization \/ Destroy
  <2>1. UNCHANGED <<scan_queue, scan>> /\ pc[Main] \in {"idle", "destroy"}
    BY <1>16 DEF RunFinalOptimization, Destroy, queue
  <2>2. PICK l \in {"wait_final", "destroyed"} : pc' = [pc EXCEPT ![Main] = l]
    BY <1>16 DEF RunFinalOptimization, Destroy
  <2> QED
    BY <1>0, <1>4, <1>14, <2>1, <2>2
<1>17. ASSUME NEW here \in {"wait_final", "wait_destroy", "await_final", "await_destroy"},
              NEW next \in {"await_final", "await_destroy", "optimize", "destroy"},
              WaitForAllComputations(here, next) \/ AwaitNotification(here, next)
       PROVE  ~AppendScan /\ (\A a \in Threads : ~BeginScan(a)) /\ Backlog' = Backlog
  <2>1. /\ UNCHANGED <<scan_queue, scan>> /\ pc[Main] = here
        /\ pc' = [pc EXCEPT ![Main] = next]
    BY <1>17 DEF WaitForAllComputations, AwaitNotification, queue
  <2> QED
    BY <1>0, <1>4, <1>14, <2>1
<1>18. ASSUME NEW th \in Threads, IssueConstraint(th)
       PROVE  ~AppendScan /\ (\A a \in Threads : ~BeginScan(a)) /\ Backlog' = Backlog
  <2>1. UNCHANGED <<pc, scan_queue>> /\ pc[th] = "issue"
    BY <1>18 DEF IssueConstraint, ComputeConstraint, queue
  <2>2. \A a \in Threads : pc[a] # "begin"
    BY <1>1, <2>1 DEF Locked, Inside
  <2>3. mutex # Free
    BY <2>1, OneInside DEF Locked, Inside
  <2> QED
    BY <1>0, <1>3, <1>5, <2>1, <2>2, <2>3 DEF AppendScan
<1>19. ASSUME NEW th \in Threads,
              HandleScanQueue(th) \/ RunOptimization(th) \/ PublishOptimization(th)
       PROVE  ~AppendScan /\ (\A a \in Threads : ~BeginScan(a)) /\ Backlog' = Backlog
  <2>1. UNCHANGED scan_queue /\ pc[th] \in {"register", "optimize", "solve"}
    BY <1>19 DEF HandleScanQueue, RunOptimization, PublishOptimization, queue
  <2>2. PICK l \in {"idle", "return", "solve", "wait_destroy", "resume"} :
           pc' = [pc EXCEPT ![th] = l]
    BY <1>19 DEF HandleScanQueue, RunOptimization, PublishOptimization, AfterOptimization
  <2>3. ~AppendScan /\ \A a \in Threads : ~BeginScan(a)
    BY <1>14, <2>1, <2>2
  <2>4. CASE UNCHANGED scan
    BY <1>4, <2>1, <2>2, <2>3, <2>4
  <2>5. CASE HandleScanQueue(th)
    <3>1. pc[th] = "register"
      BY <2>5 DEF HandleScanQueue
    <3>2. \A a \in Threads : pc[a] # "begin"
      BY <1>1, <3>1 DEF Locked, Inside
    <3>3. \A a \in Threads : pc'[a] # "begin"
      BY <1>0, <2>2, <3>2
    <3>4. \A w \in Workers : pc'[w] \in {"issue", "close"} <=> pc[w] \in {"issue", "close"}
      BY <1>0, <2>1, <2>2
    <3> QED
      BY <1>0, <1>3, <2>1, <2>3, <3>2, <3>3, <3>4
  <2> QED
    BY <1>19, <2>4, <2>5 DEF RunOptimization, PublishOptimization
<1>20. ASSUME NEW w \in Workers,
              \/ BuilderStep(w) \/ (\E match \in BOOLEAN : Match(w, match)) \/ UNCHANGED vars
       PROVE  Backlog' = Backlog /\ UNCHANGED <<pc, scan_queue, scan>>
  <2>1. UNCHANGED <<pc, scan_queue, scan>>
    BY <1>20 DEF BuilderStep, Match, queue, vars
  <2> QED
    BY <2>1 DEF Backlog
<1>21. UNCHANGED pc => ~AppendScan /\ \A a \in Threads : ~BeginScan(a)
  <2>1. AppendScan => pc'[Main] # "append"
    BY <1>0 DEF AppendScan
  <2> QED
    BY <1>5, <1>6, <2>1
<1>22. ASSUME NEW w \in Workers, EnterCallback(w) \/ Resume(w) \/ ReturnFromCallback(w)
       PROVE  ~AppendScan /\ (\A a \in Threads : ~BeginScan(a)) /\ Backlog' = Backlog
  <2>1. UNCHANGED <<scan_queue, scan>> /\ pc[w] \in {"pool", "resume", "return"}
    BY <1>22 DEF EnterCallback, Resume, ReturnFromCallback, queue
  <2>2. PICK l \in {"return", "optimize", "drain", "pool"} : pc' = [pc EXCEPT ![w] = l]
    BY <1>22 DEF EnterCallback, Resume, ReturnFromCallback
  <2> QED
    BY <1>0, <1>4, <1>14, <2>1, <2>2
<1>23. ASSUME NEW w \in Workers, pc[w] = "drain"
       PROVE  scan_queue # None /\ Nobody /\ Backlog = scan_queue /\ pc[Main] # "begin"
  <2>1. scan_queue # None
    BY <1>0, <1>23 DEF CallsOK, OneOwner, Works
  <2>2. \A a \in Threads : a # w => pc[a] \notin Locked
    BY <1>0, <1>1, <1>23 DEF Locked, Inside
  <2>3. Nobody /\ pc[Main] # "begin"
    BY <1>0, <1>23, <2>2 DEF Locked, Inside
  <2> QED
    BY <2>1, <2>3 DEF Backlog
<1>24. ASSUME NEW w \in Workers, LeaveLoop(w)
       PROVE  ~AppendScan /\ (\A a \in Threads : ~BeginScan(a)) /\ Backlog' = Backlog
  <2>1. UNCHANGED scan /\ pc[w] = "drain"
    BY <1>24 DEF LeaveLoop
  <2>2. PICK l \in {"register", "return"} : pc' = [pc EXCEPT ![w] = l]
    BY <1>24 DEF LeaveLoop
  <2>3. ~AppendScan /\ \A a \in Threads : ~BeginScan(a)
    BY <1>0, <1>14, <2>1, <2>2
  <2>4. CASE UNCHANGED scan_queue
    BY <1>0, <1>4, <2>1, <2>2, <2>3, <2>4
  <2>5. CASE scan_queue = <<>> /\ scan_queue' = None
    <3>1. pc'[Main] # "begin" /\ Backlog = scan_queue
      BY <1>0, <1>23, <2>1, <2>2
    <3> QED
      BY <2>3, <2>5, <3>1 DEF Backlog
  <2> QED
    BY <1>24, <2>4, <2>5 DEF LeaveLoop
<1>25. ASSUME NEW w \in Workers, WorkOffQueue(w)
       PROVE  \/ Backlog # <<>> /\ Head(Backlog) = ImuItem /\ Backlog' = Tail(Backlog)
              \/ ~AppendScan /\ (\A a \in Threads : ~BeginScan(a)) /\ Backlog' = Backlog
  <2>1. pc[w] = "drain" /\ scan_queue # <<>>
    BY <1>25 DEF WorkOffQueue
  <2>2. scan_queue # None /\ Nobody /\ Backlog = scan_queue /\ pc[Main] # "begin"
    BY <1>23, <2>1
  <2>3. CASE Head(scan_queue) = ImuItem /\ scan_queue' = Tail(scan_queue) /\ UNCHANGED pc
    <3>1. scan_queue' # None
      BY <2>1, <2>2, <2>3, QueueIsThere DEF QueueOK
    <3>2. Backlog' = scan_queue'
      BY <2>2, <2>3, <3>1 DEF Backlog
    <3> QED
      BY <2>1, <2>2, <2>3, <3>2
  <2>4. CASE UNCHANGED scan_queue /\ pc' = [pc EXCEPT ![w] = "begin"]
    <3>1. Backlog' = scan_queue
      BY <1>0, <2>2, <2>4 DEF Backlog
    <3>2. \A a \in Threads : pc'[a] # "issue" \/ pc[a] # "begin"
      BY <1>0, <2>1, <2>4
    <3>3. AppendScan => mutex = Free
      BY DEF AppendScan
    <3>4. mutex # Free
      BY <1>0, <2>1, OneInside DEF Locked
    <3> QED
      BY <1>5, <2>2, <3>1, <3>2, <3>3, <3>4
  <2> QED
    BY <1>25, <2>3, <2>4 DEF WorkOffQueue
<1> QED
  <2>1. CASE UNCHANGED vars
    <3>1. UNCHANGED <<pc, scan_queue, scan>>
      BY <2>1 DEF vars, queue
    <3> QED
      BY <1>21, <3>1 DEF Backlog
  <2> QED
    BY <1>7, <1>8, <1>9, <1>13, <1>15, <1>16, <1>17, <1>18, <1>19, <1>20, <1>21, <1>22,
       <1>24, <1>25, <2>1, Steps

\* Scans are counted when they are appended and when they are begun.
LEMMA OtherCounts ==
    ASSUME CountsOK, [Next]_vars, ~AppendScan, \A th \in Threads : ~BeginScan(th)
    PROVE  /\ UNCHANGED node_data
           /\ \A t \in Trajectories : Len(trajectory_nodes'[t]) = Len(trajectory_nodes[t])
<1>1. \/ UNCHANGED <<node_data, trajectory_nodes>>
      \/ \E th \in Threads : PublishOptimization(th)
  <2>1. ASSUME NEW t \in Trajectories, AddScan(t)
        PROVE  UNCHANGED <<node_data, trajectory_nodes>>
    BY <2>1 DEF AddScan, problem, published
  <2>2. CASE AddImuData \/ RunFinalOptimization \/ Destroy \/ UNCHANGED vars
    BY <2>2 DEF AddImuData, RunFinalOptimization, Destroy, vars, problem, published
  <2>3. ASSUME NEW here, NEW next,
               WaitForAllComputations(here, next) \/ AwaitNotification(here, next)
        PROVE  UNCHANGED <<node_data, trajectory_nodes>>
    BY <2>3 DEF WaitForAllComputations, AwaitNotification, problem, published
  <2>4. ASSUME NEW th \in Threads,
               \/ IssueConstraint(th) \/ EndScan(th) \/ RequestLoopClosure(th)
               \/ HandleScanQueue(th) \/ RunOptimization(th)
        PROVE  UNCHANGED <<node_data, trajectory_nodes>>
    BY <2>4 DEF IssueConstraint, ComputeConstraint, EndScan, RequestLoopClosure,
       HandleScanQueue, RunOptimization, problem, published
  <2>5. ASSUME NEW w \in Workers,
               \/ BuilderStep(w) \/ (\E match \in BOOLEAN : Match(w, match)) \/ EnterCallback(w)
               \/ Resume(w) \/ LeaveLoop(w) \/ WorkOffQueue(w) \/ ReturnFromCallback(w)
        PROVE  UNCHANGED <<node_data, trajectory_nodes>>
    BY <2>5 DEF BuilderStep, Match, EnterCallback, Resume, LeaveLoop, WorkOffQueue,
       ReturnFromCallback, problem, published
  <2> QED
    BY <2>1, <2>2, <2>3, <2>4, <2>5, Steps
<1>2. ASSUME NEW th \in Threads, PublishOptimization(th)
      PROVE  /\ UNCHANGED node_data
             /\ \A t \in Trajectories : Len(trajectory_nodes'[t]) = Len(trajectory_nodes[t])
  BY <1>2, PublishedNodes DEF PublishOptimization, problem
<1> QED
  BY <1>1, <1>2

LEMMA AppendedCounts ==
    ASSUME ScanOK, CountsOK, AppendScan
    PROVE  /\ UNCHANGED <<node_data, submap_data, submaps>>
           /\ incoming # None /\ incoming' = None
           /\ NewItem \in ScanItems
           /\ NewItem.trajectory = incoming.trajectory
           /\ NewItem.index = Len(trajectory_nodes[incoming.trajectory])
           /\ \A t \in Trajectories :
                 Len(trajectory_nodes'[t]) = IF t = incoming.trajectory
                                             THEN Len(trajectory_nodes[t]) + 1
                                             ELSE Len(trajectory_nodes[t])
<1>1. PICK t \in Trajectories : t = incoming.trajectory
  BY NewItemType DEF AppendScan, At
<1>2. incoming.frame \in Nat
  BY NewItemType DEF AppendScan, Incoming, At
<1>3. trajectory_nodes' = [trajectory_nodes EXCEPT ![t] = Append(trajectory_nodes[t], incoming.frame)]
  BY <1>1 DEF AppendScan
<1>4. PICK new : new = Append(trajectory_nodes[t], incoming.frame)
  OBVIOUS
<1>5. Len(new) = Len(trajectory_nodes[t]) + 1
  <2>1. trajectory_nodes[t] \in Seq(Nat)
    BY DEF CountsOK
  <2> QED
    BY <1>2, <1>4, <2>1
<1>6. \A u \in Trajectories : Len(trajectory_nodes'[u]) = IF u = t THEN Len(new)
                                                         ELSE Len(trajectory_nodes[u])
  BY <1>3, <1>4 DEF CountsOK
<1>7. /\ UNCHANGED <<node_data, submap_data, submaps>> /\ incoming # None /\ incoming' = None
      /\ NewItem \in ScanItems
  BY NewItemType DEF AppendScan, problem, ScanOK, At
<1>8. /\ NewItem.trajectory = incoming.trajectory
      /\ NewItem.index = Len(trajectory_nodes[incoming.trajectory])
  BY DEF NewItem
<1>9. \A u \in Trajectories :
         Len(trajectory_nodes'[u]) = IF u = incoming.trajectory
                                     THEN Len(trajectory_nodes[u]) + 1
                                     ELSE Len(trajectory_nodes[u])
  BY <1>1, <1>5, <1>6
<1> QED
  BY <1>7, <1>8, <1>9

LEMMA BacklogKept ==
    ASSUME PlacesOK, CallsOK, ScanOK, QueueOK, OneOwner, CountsOK, BacklogOK, [Next]_vars
    PROVE  BacklogOK'
<1>0. \A t \in Trajectories : /\ node_data[t] \in Nat
                              /\ Len(trajectory_nodes[t]) \in Nat
                              /\ node_data[t] <= Len(trajectory_nodes[t])
  BY LenProperties DEF CountsOK
<1>1. Backlog \in Queues /\ ImuItem \in ScanItems \cup {ImuItem}
  BY BacklogType
<1>2. PICK q \in Queues : q = Backlog
  BY <1>1
<1>3. PICK after : after = Backlog'
  OBVIOUS
<1>4. \A t \in Trajectories : InLine(q, t, node_data[t], Len(trajectory_nodes[t]))
  BY <1>2 DEF BacklogOK
<1>5. SUFFICES ASSUME NEW t \in Trajectories
               PROVE  InLine(after, t, node_data'[t], Len(trajectory_nodes'[t]))
  BY <1>3 DEF BacklogOK
<1>6. PICK low \in Nat : low = node_data[t]
  BY <1>0
<1>7. PICK high \in Nat : high = Len(trajectory_nodes[t])
  BY <1>0
<1>8. InLine(q, t, low, high) /\ low <= high
  BY <1>0, <1>4, <1>6, <1>7
<1>9. CASE AppendScan /\ Backlog' = Append(Backlog, NewItem)
  <2>1. PICK item \in ScanItems : item = NewItem
    BY <1>9, AppendedCounts
  <2>2. /\ node_data'[t] = low
        /\ Len(trajectory_nodes'[t]) = IF t = incoming.trajectory THEN high + 1 ELSE high
        /\ item.trajectory = incoming.trajectory
        /\ item.index = Len(trajectory_nodes[incoming.trajectory])
    BY <1>6, <1>7, <1>9, <2>1, AppendedCounts
  <2>3. PICK next \in Nat : next = Len(trajectory_nodes'[t])
    BY <2>2
  <2>4. IsScan(item, t) <=> t = incoming.trajectory
    BY <2>1, <2>2, ItemKinds DEF IsScan
  <2>5. IF IsScan(item, t) THEN item.index = high /\ next = high + 1 ELSE next = high
    <3>1. CASE t = incoming.trajectory
      BY <1>7, <2>2, <2>3, <2>4, <3>1
    <3>2. CASE t # incoming.trajectory
      BY <2>2, <2>3, <2>4, <3>2
    <3> QED
      BY <3>1, <3>2
  <2>6. InLine(Append(q, item), t, low, next)
    BY <1>8, <2>5, LineGrows
  <2> QED
    BY <1>2, <1>3, <1>9, <2>1, <2>2, <2>3, <2>6
<1>10. CASE AddImuData /\ Backlog' = Append(Backlog, ImuItem)
  <2>1. UNCHANGED <<node_data, trajectory_nodes>>
    BY <1>10 DEF AddImuData, published
  <2>2. InLine(Append(q, ImuItem), t, low, high)
    BY <1>8, LineGrows, ItemKinds
  <2> QED
    BY <1>2, <1>3, <1>6, <1>7, <1>10, <2>1, <2>2
<1>11. CASE /\ \E w \in Workers : WorkOffQueue(w)
            /\ Backlog # <<>> /\ Head(Backlog) = ImuItem /\ Backlog' = Tail(Backlog)
  <2>1. UNCHANGED <<node_data, trajectory_nodes>>
    BY <1>11 DEF WorkOffQueue, published
  <2>2. InLine(Tail(q), t, low, high)
    BY <1>2, <1>8, <1>11, LineMoves, ItemKinds
  <2> QED
    BY <1>2, <1>3, <1>6, <1>7, <1>11, <2>1, <2>2
<1>12. ASSUME NEW th \in Threads, BeginScan(th), Backlog' = Tail(Backlog)
       PROVE  InLine(after, t, node_data'[t], Len(trajectory_nodes'[t]))
  <2>1. PICK u : u = scan.item.trajectory
    OBVIOUS
  <2>2. /\ node_data' = [node_data EXCEPT ![u] = @ + 1] /\ pc[th] = "begin"
        /\ UNCHANGED trajectory_nodes
    BY <1>12, <2>1, BeginScanIs
  <2>3. /\ q # <<>> /\ Head(q) = scan.item /\ scan.item.index = node_data[u]
        /\ scan.item \in ScanItems
    BY <1>2, <2>1, <2>2, NextItem, ScanFields
  <2>4. IsScan(Head(q), t) <=> t = u
    BY <2>1, <2>3, ItemKinds DEF IsScan
  <2>5. node_data \in [Trajectories -> Nat]
    BY DEF CountsOK
  <2>6. PICK next \in Nat : next = node_data'[t]
    BY <1>0, <2>2, <2>5
  <2>7. IF IsScan(Head(q), t) THEN Head(q).index = low /\ next = low + 1 ELSE next = low
    BY <1>6, <2>2, <2>3, <2>4, <2>5, <2>6
  <2>8. InLine(Tail(q), t, next, high)
    BY <1>8, <2>3, <2>7, LineMoves
  <2> QED
    BY <1>2, <1>3, <1>7, <1>12, <2>2, <2>6, <2>8
<1>13. CASE ~AppendScan /\ (\A th \in Threads : ~BeginScan(th)) /\ Backlog' = Backlog
  BY <1>2, <1>3, <1>6, <1>7, <1>8, <1>13, OtherCounts
<1> QED
  BY <1>9, <1>10, <1>11, <1>12, <1>13, BacklogSteps

\* Only the thread at "issue" could begin another scan of its trajectory.
LEMMA IssuedKept ==
    ASSUME PlacesOK, CallsOK, ScanOK, QueueOK, OneOwner, CountsOK, BacklogOK, IssuedIsLast,
           [Next]_vars
    PROVE  IssuedIsLast'
<1> USE DEF Goto, At
<1>0. /\ \A w \in Workers : w # Main /\ w \in Threads
      /\ Main \in Threads
      /\ pc \in [Threads -> MainPlaces \cup WorkerPlaces]
  BY ThreadsAssumption DEF ThreadsAssumption, PlacesOK, Threads
<1>1. ASSUME NEW th \in Threads, BeginScan(th) PROVE IssuedIsLast'
  <2>1. /\ pc[th] = "begin" /\ pc' = [pc EXCEPT ![th] = "issue"]
        /\ node_data' = [node_data EXCEPT ![scan.item.trajectory] = @ + 1]
        /\ scan' = [scan EXCEPT !.todo = BegunTodo]
    BY <1>1, BeginScanIs
  <2>2. /\ scan \in Scans
        /\ scan.item.index = node_data[scan.item.trajectory]
        /\ scan.item \in ScanItems
    BY <2>1, NextItem, ScanFields
  <2>3. scan'.item = scan.item
    BY <2>1, <2>2 DEF Scans
  <2>4. scan.item.trajectory \in Trajectories /\ node_data \in [Trajectories -> Nat]
    BY <2>2, ItemKinds DEF CountsOK
  <2> QED
    BY <2>1, <2>2, <2>3, <2>4 DEF IssuedIsLast
<1>2. ASSUME \A th \in Threads : ~BeginScan(th) PROVE IssuedIsLast'
  <2>1. SUFFICES ASSUME NEW th \in Threads, pc'[th] = "issue"
                 PROVE  (scan.item.index + 1 = node_data[scan.item.trajectory])'
    BY DEF IssuedIsLast
  <2>2. /\ pc[th] = "issue"
        /\ UNCHANGED node_data
        /\ scan'.item = scan.item
    <3>1. ASSUME NEW t \in Trajectories, AddScan(t)
          PROVE  pc[th] = "issue" /\ UNCHANGED <<node_data, scan>>
      BY <1>0, <2>1, <3>1 DEF AddScan, problem
    <3>2. CASE AppendScan
      <4>1. UNCHANGED node_data /\ pc[Main] = "append" /\ mutex = Free
        BY <3>2 DEF AppendScan, problem
      <4>2. pc[th] \notin Locked
        BY <4>1, OneInside
      <4>3. PICK l \in {"begin", "idle"} : pc' = [pc EXCEPT ![Main] = l]
        BY <3>2 DEF AppendScan
      <4> QED
        BY <1>0, <2>1, <4>2, <4>3 DEF Locked, Inside
    <3>3. CASE AddImuData \/ RunFinalOptimization \/ Destroy \/ UNCHANGED vars
      <4>1. UNCHANGED <<node_data, scan>>
        BY <3>3 DEF AddImuData, RunFinalOptimization, Destroy, vars, problem
      <4>2. \/ UNCHANGED pc
            \/ \E l \in {"wait_final", "destroyed"} : pc' = [pc EXCEPT ![Main] = l]
        BY <3>3 DEF AddImuData, RunFinalOptimization, Destroy, vars
      <4> QED
        BY <1>0, <2>1, <4>1, <4>2
    <3>4. ASSUME NEW here,
                 NEW next \in {"await_final", "await_destroy", "optimize", "destroy"},
                 WaitForAllComputations(here, next) \/ AwaitNotification(here, next)
          PROVE  pc[th] = "issue" /\ UNCHANGED <<node_data, scan>>
      BY <1>0, <2>1, <3>4 DEF WaitForAllComputations, AwaitNotification, problem
    <3>5. ASSUME NEW a \in Threads, IssueConstraint(a)
          PROVE  pc[th] = "issue" /\ UNCHANGED node_data /\ scan'.item = scan.item
      <4>1. PICK pair : /\ UNCHANGED <<pc, node_data>> /\ pc[a] = "issue"
                        /\ scan' = [scan EXCEPT !.todo = @ \ {pair}]
        BY <3>5 DEF IssueConstraint, ComputeConstraint, problem
      <4>2. scan \in Scans
        BY <4>1 DEF ScanOK, Inside
      <4> QED
        BY <2>1, <4>1, <4>2 DEF Scans
    <3>6. ASSUME NEW a \in Threads, EndScan(a) \/ RequestLoopClosure(a) \/ HandleScanQueue(a)
          PROVE  FALSE
      <4>1. pc[a] \in {"issue", "close", "register"}
        BY <3>6 DEF EndScan, RequestLoopClosure, HandleScanQueue
      <4>2. PICK l \in {"close", "register", "idle", "return", "drain"} :
               pc' = [pc EXCEPT ![a] = l]
        BY <3>6 DEF EndScan, RequestLoopClosure, HandleScanQueue, ItemDone
      <4>3. pc[th] = "issue" /\ th # a
        BY <1>0, <2>1, <4>2
      <4> QED
        BY <4>1, <4>3, OneInside DEF Locked, Inside
    <3>7. ASSUME NEW a \in Threads, RunOptimization(a) \/ PublishOptimization(a)
          PROVE  pc[th] = "issue" /\ UNCHANGED <<node_data, scan>>
      <4>1. UNCHANGED <<node_data, scan>>
        BY <3>7 DEF RunOptimization, PublishOptimization, problem
      <4>2. PICK l \in {"solve", "wait_destroy", "resume"} : pc' = [pc EXCEPT ![a] = l]
        BY <3>7 DEF RunOptimization, PublishOptimization, AfterOptimization
      <4> QED
        BY <1>0, <2>1, <4>1, <4>2
    <3>8. ASSUME NEW w \in Workers,
                 \/ BuilderStep(w) \/ (\E match \in BOOLEAN : Match(w, match))
                 \/ EnterCallback(w) \/ Resume(w) \/ LeaveLoop(w) \/ ReturnFromCallback(w)
          PROVE  pc[th] = "issue" /\ UNCHANGED <<node_data, scan>>
      <4>1. UNCHANGED <<node_data, scan>>
        BY <3>8 DEF BuilderStep, Match, EnterCallback, Resume, LeaveLoop, ReturnFromCallback,
           problem
      <4>2. \/ UNCHANGED pc
            \/ \E l \in {"return", "optimize", "drain", "register", "pool"} :
                  pc' = [pc EXCEPT ![w] = l]
        BY <3>8 DEF BuilderStep, Match, EnterCallback, Resume, LeaveLoop, ReturnFromCallback
      <4> QED
        BY <1>0, <2>1, <4>1, <4>2
    <3>9. ASSUME NEW w \in Workers, WorkOffQueue(w)
          PROVE  pc[th] = "issue" /\ UNCHANGED <<node_data, scan>>
      <4>1. UNCHANGED node_data /\ pc[w] = "drain"
        BY <3>9 DEF WorkOffQueue
      <4>2. UNCHANGED <<pc, scan>> \/ pc' = [pc EXCEPT ![w] = "begin"]
        BY <3>9 DEF WorkOffQueue
      <4>3. pc[th] = "issue"
        BY <1>0, <2>1, <4>2
      <4>4. FALSE
        BY <1>0, <4>1, <4>3, OneInside DEF Locked, Inside
      <4> QED
        BY <4>4
    <3> QED
      BY <1>2, <3>1, <3>2, <3>3, <3>4, <3>5, <3>6, <3>7, <3>8, <3>9, Steps
  <2> QED
    BY <2>1, <2>2 DEF IssuedIsLast
<1> QED
  BY <1>1, <1>2
-----------------------------------------------------------------------------
(* Work items and submaps.                                                  *)

LEMMA Draining ==
    ASSUME PlacesOK, CallsOK, OneOwner, NEW w \in Workers, pc[w] = "drain"
    PROVE  scan_queue # None /\ Backlog = scan_queue
<1>0. w \in Threads /\ w # Main
  BY ThreadsAssumption DEF ThreadsAssumption, Threads
<1>1. scan_queue # None
  BY <1>0 DEF CallsOK, OneOwner, Works
<1>2. \A a \in Threads : a # w => pc[a] \notin Locked
  BY <1>0, OneInside DEF Locked
<1>3. ~ \E a \in Workers : pc[a] \in {"issue", "close"}
  BY <1>2 DEF Locked, Inside, Threads
<1> QED
  BY <1>1, <1>3 DEF Backlog

\* The scan in progress is a new one, the first of the queue, or stays the same.
LEMMA ScanSteps ==
    ASSUME PlacesOK, CallsOK, ScanOK, QueueOK, OneOwner, [Next]_vars
    PROVE  \/ scan' = None
           \/ AppendScan /\ scan'.item = NewItem
           \/ Backlog # <<>> /\ scan'.item = Head(Backlog) /\ scan'.item # ImuItem
           \/ scan # None /\ scan'.item = scan.item
<1>0. scan # None => scan \in Scans /\ scan.item \in ScanItems
  BY ScanFields DEF ScanOK
<1>1. ASSUME UNCHANGED scan
      PROVE  scan' = None \/ (scan # None /\ scan'.item = scan.item)
  BY <1>1
<1>2. CASE AppendScan
  <2>1. UNCHANGED scan \/ scan' = [item |-> NewItem, todo |-> {}]
    BY <1>2 DEF AppendScan, NewItem
  <2> QED
    BY <1>1, <1>2, <2>1
<1>3. ASSUME NEW t \in Trajectories, AddScan(t) PROVE UNCHANGED scan
  BY <1>3 DEF AddScan
<1>4. CASE AddImuData \/ RunFinalOptimization \/ Destroy \/ UNCHANGED vars
  BY <1>1, <1>4 DEF AddImuData, RunFinalOptimization, Destroy, vars
<1>5. ASSUME NEW here, NEW next, WaitForAllComputations(here, next) \/ AwaitNotification(here, next)
      PROVE  UNCHANGED scan
  BY <1>5 DEF WaitForAllComputations, AwaitNotification
<1>6. ASSUME NEW th \in Threads, BeginScan(th) \/ IssueConstraint(th)
      PROVE  scan # None /\ scan'.item = scan.item
  <2>1. pc[th] \in {"begin", "issue"}
    BY <1>6 DEF BeginScan, IssueConstraint, At
  <2>2. scan # None
    BY <2>1 DEF ScanOK, Inside
  <2>3. PICK todo : scan' = [scan EXCEPT !.todo = todo]
    BY <1>6, BeginScanIs DEF IssueConstraint, ComputeConstraint
  <2> QED
    BY <1>0, <2>2, <2>3 DEF Scans
<1>7. ASSUME NEW th \in Threads, EndScan(th) \/ RequestLoopClosure(th) \/ HandleScanQueue(th)
      PROVE  UNCHANGED scan \/ scan' = None
  BY <1>7 DEF EndScan, RequestLoopClosure, HandleScanQueue, ItemDone
<1>8. ASSUME NEW th \in Threads, RunOptimization(th) \/ PublishOptimization(th)
      PROVE  UNCHANGED scan
  BY <1>8 DEF RunOptimization, PublishOptimization
<1>9. ASSUME NEW w \in Workers,
             \/ BuilderStep(w) \/ (\E match \in BOOLEAN : Match(w, match))
             \/ EnterCallback(w) \/ Resume(w) \/ LeaveLoop(w) \/ ReturnFromCallback(w)
      PROVE  UNCHANGED scan
  BY <1>9 DEF BuilderStep, Match, EnterCallback, Resume, LeaveLoop, ReturnFromCallback
<1>10. ASSUME NEW w \in Workers, WorkOffQueue(w)
       PROVE  \/ UNCHANGED scan
              \/ Backlog # <<>> /\ scan'.item = Head(Backlog) /\ scan'.item # ImuItem
  <2>1. pc[w] = "drain" /\ scan_queue # <<>>
    BY <1>10 DEF WorkOffQueue, At
  <2>2. Backlog = scan_queue
    BY <2>1, Draining
  <2> QED
    BY <1>10, <2>1, <2>2 DEF WorkOffQueue
<1> QED
  BY <1>1, <1>2, <1>3, <1>4, <1>5, <1>6, <1>7, <1>8, <1>9, <1>10, Steps

\* A call of AddScan is entered and left; else its arguments stay.
LEMMA IncomingSteps ==
    ASSUME [Next]_vars
    PROVE  \/ \E t \in Trajectories : AddScan(t)
           \/ AppendScan
           \/ UNCHANGED <<incoming, submaps>>
<1>1. CASE AddImuData \/ RunFinalOptimization \/ Destroy \/ UNCHANGED vars
  BY <1>1 DEF AddImuData, RunFinalOptimization, Destroy, vars, calls
<1>2. ASSUME NEW here, NEW next, WaitForAllComputations(here, next) \/ AwaitNotification(here, next)
      PROVE  UNCHANGED <<incoming, submaps>>
  BY <1>2 DEF WaitForAllComputations, AwaitNotification, calls
<1>3. ASSUME NEW th \in Threads,
             \/ BeginScan(th) \/ IssueConstraint(th) \/ EndScan(th) \/ RequestLoopClosure(th)
             \/ HandleScanQueue(th) \/ RunOptimization(th) \/ PublishOptimization(th)
      PROVE  UNCHANGED <<incoming, submaps>>
  BY <1>3, BeginScanIs DEF IssueConstraint, ComputeConstraint, EndScan, RequestLoopClosure,
     HandleScanQueue, RunOptimization, PublishOptimization, calls
<1>4. ASSUME NEW w \in Workers,
             \/ BuilderStep(w) \/ (\E match \in BOOLEAN : Match(w, match)) \/ EnterCallback(w)
             \/ Resume(w) \/ LeaveLoop(w) \/ WorkOffQueue(w) \/ ReturnFromCallback(w)
      PROVE  UNCHANGED <<incoming, submaps>>
  BY <1>4 DEF BuilderStep, Match, EnterCallback, Resume, LeaveLoop, WorkOffQueue,
     ReturnFromCallback, calls
<1> QED
  BY <1>1, <1>2, <1>3, <1>4, Steps

\* The numbers of poses grow by Main's scan only.
LEMMA PoseCounts ==
    ASSUME PlacesOK, ScanOK, CountsOK, [Next]_vars
    PROVE  \/ AppendScan
           \/ \A t \in Trajectories : Len(trajectory_nodes'[t]) = Len(trajectory_nodes[t])
<1>1. ASSUME NEW th \in Threads, BeginScan(th) PROVE UNCHANGED trajectory_nodes
  BY <1>1, BeginScanIs
<1> QED
  BY <1>1, OtherCounts

LEMMA ItemsKept ==
    ASSUME PlacesOK, CallsOK, ScanOK, QueueOK, OneOwner, CountsOK, BacklogOK, ItemsOK,
           SubmapsOK, [Next]_vars
    PROVE  ItemsOK'
<1>1. PICK q \in Queues : q = Backlog
  BY BacklogType
<1>2. /\ Len(q) \in Nat /\ DOMAIN q = 1..Len(q)
      /\ \A i \in DOMAIN q : q[i] \in ScanItems \cup {ImuItem}
      /\ \A i \in DOMAIN q : q[i] # ImuItem => ItemOK(q[i])
  BY <1>1, ElementsOfQueue DEF ItemsOK
<1>3. AppendScan => incoming # None /\ ItemOK(NewItem) /\ NewItem \in ScanItems
  <2>1. AppendScan => incoming # None /\ NewItem \in ScanItems
    BY AppendedCounts
  <2> QED
    BY <2>1 DEF ItemsOK, ItemOK, NewItem
<1>4. PICK after : after = Backlog'
  OBVIOUS
<1>5. \A i \in DOMAIN after : after[i] # ImuItem => ItemOK(after[i])
  <2>1. ASSUME NEW item \in ScanItems \cup {ImuItem}, after = Append(q, item),
               item # ImuItem => ItemOK(item)
        PROVE  \A i \in DOMAIN after : after[i] # ImuItem => ItemOK(after[i])
    <3>1. /\ DOMAIN after = 1..Len(q) + 1
          /\ \A i \in 1..Len(q) : after[i] = q[i]
          /\ after[Len(q) + 1] = item
      BY <1>2, <2>1 DEF Queues
    <3> QED
      BY <1>2, <2>1, <3>1
  <2>2. ASSUME q # <<>>, after = Tail(q)
        PROVE  \A i \in DOMAIN after : after[i] # ImuItem => ItemOK(after[i])
    <3>1. /\ DOMAIN after = 1..Len(q) - 1
          /\ \A i \in 1..Len(q) - 1 : after[i] = q[i + 1] /\ i + 1 \in DOMAIN q
      BY <1>2, <2>2 DEF Queues
    <3> QED
      BY <1>2, <3>1
  <2>3. CASE AppendScan /\ Backlog' = Append(Backlog, NewItem)
    <3>1. PICK item \in ScanItems : item = NewItem /\ ItemOK(item)
      BY <1>3, <2>3
    <3> QED
      BY <1>1, <1>4, <2>1, <2>3, <3>1
  <2>4. CASE Backlog' = Append(Backlog, ImuItem)
    BY <1>1, <1>4, <2>1, <2>4
  <2>5. CASE Backlog # <<>> /\ Backlog' = Tail(Backlog)
    BY <1>1, <1>4, <2>2, <2>5
  <2>6. CASE Backlog' = Backlog
    BY <1>1, <1>2, <1>4, <2>6
  <2>7. ASSUME NEW th \in Threads, BeginScan(th) PROVE Backlog # <<>>
    <3>1. pc[th] = "begin"
      BY <2>7, BeginScanIs
    <3> QED
      BY <3>1, NextItem
  <2> QED
    BY <2>3, <2>4, <2>5, <2>6, <2>7, BacklogSteps
<1>6. PICK next : next = scan'
  OBVIOUS
<1>7. next # None => ItemOK(next.item)
  <2>1. CASE scan' = None
    BY <1>6, <2>1
  <2>2. CASE AppendScan /\ scan'.item = NewItem
    <3>1. PICK item : item = NewItem /\ ItemOK(item)
      BY <1>3, <2>2
    <3> QED
      BY <1>6, <2>2, <3>1
  <2>3. CASE Backlog # <<>> /\ scan'.item = Head(Backlog) /\ scan'.item # ImuItem
    <3>1. 1 \in DOMAIN q /\ Head(q) = q[1]
      BY <1>1, <1>2, <2>3 DEF Queues
    <3> QED
      BY <1>1, <1>2, <1>6, <2>3, <3>1
  <2>4. CASE scan # None /\ scan'.item = scan.item
    <3>1. PICK item : item = scan.item /\ ItemOK(item)
      BY <2>4 DEF ItemsOK
    <3> QED
      BY <1>6, <2>4, <3>1
  <2> QED
    BY <2>1, <2>2, <2>3, <2>4, ScanSteps
<1>8. PICK call1 : call1 = incoming'
  OBVIOUS
<1>9. call1 # None =>
         InsertedAs(call1.trajectory, Len(trajectory_nodes'[call1.trajectory]),
                    call1.insertion, call1.finished)
  <2>1. ASSUME NEW t \in Trajectories, AddScan(t)
        PROVE  /\ call1.trajectory = t /\ UNCHANGED trajectory_nodes
               /\ InsertedAs(t, Len(trajectory_nodes[t]), call1.insertion, call1.finished)
    BY <1>8, <2>1, AddScanBrings DEF AddScan, published
  <2>2. CASE AppendScan
    BY <1>8, <2>2, AppendedCounts
  <2>3. CASE UNCHANGED incoming /\ ~AppendScan
    <3>1. incoming # None => incoming.trajectory \in Trajectories
      BY DEF ScanOK, Incoming
    <3>2. PICK k \in [Trajectories -> Int \cup {Len(trajectory_nodes[t]) : t \in Trajectories}] :
             \A t \in Trajectories : k[t] = Len(trajectory_nodes[t])
      <4>1. [t \in Trajectories |-> Len(trajectory_nodes[t])] \in
               [Trajectories -> Int \cup {Len(trajectory_nodes[t]) : t \in Trajectories}]
        OBVIOUS
      <4> QED
        BY <4>1
    <3>3. \A t \in Trajectories : k[t] = Len(trajectory_nodes'[t])
      BY <2>3, <3>2, PoseCounts
    <3>4. incoming # None =>
             InsertedAs(incoming.trajectory, k[incoming.trajectory], incoming.insertion,
                        incoming.finished)
      BY <3>1, <3>2 DEF ItemsOK
    <3> QED
      BY <1>8, <2>3, <3>1, <3>3, <3>4
  <2> QED
    BY <2>1, <2>2, <2>3, IncomingSteps
<1> QED
  BY <1>4, <1>5, <1>6, <1>7, <1>8, <1>9 DEF ItemsOK

\* Submaps have the range data of the scans, and of the one Main is adding.
LEMMA SubmapsKept ==
    ASSUME PlacesOK, ScanOK, CountsOK, SubmapsOK, [Next]_vars
    PROVE  SubmapsOK'
<1>0. \A t \in Trajectories : Len(trajectory_nodes[t]) \in Nat
  BY LenProperties DEF CountsOK
<1>1. PICK lists, counts : lists = submaps' /\ counts = [t \in Trajectories |-> Inserted(t)']
  OBVIOUS
<1>2. /\ submaps \in [Trajectories -> Seq(SM!Submap)]
      /\ \A t \in Trajectories : Holding(submaps[t], Inserted(t))
  BY DEF SubmapsOK
<1>3. ASSUME NEW u \in Trajectories, AddScan(u)
      PROVE  /\ lists \in [Trajectories -> Seq(SM!Submap)]
             /\ \A t \in Trajectories : Holding(lists[t], counts[t])
  <2>1. PICK k, new : k \in Nat /\ k = Len(trajectory_nodes[u]) /\ new = lists[u]
    BY <1>0
  <2>2. /\ lists = [submaps EXCEPT ![u] = new]
        /\ Holding(new, k + 1)
        /\ incoming = None /\ incoming'.trajectory = u /\ incoming' # None
    BY <1>1, <1>3, <2>1, AddScanBrings, NullAssumption DEF NullAssumption
  <2>3. UNCHANGED trajectory_nodes
    BY <1>3 DEF AddScan, published
  <2>4. \A t \in Trajectories : counts[t] = IF t = u THEN k + 1 ELSE Inserted(t)
    BY <1>0, <1>1, <2>1, <2>2, <2>3 DEF Inserted
  <2>5. new \in Seq(SM!Submap)
    BY <2>2 DEF Holding
  <2> QED
    BY <1>2, <2>2, <2>4, <2>5
<1>4. ASSUME UNCHANGED submaps, \A t \in Trajectories : Inserted(t)' = Inserted(t)
      PROVE  /\ lists \in [Trajectories -> Seq(SM!Submap)]
             /\ \A t \in Trajectories : Holding(lists[t], counts[t])
  <2>1. \A t \in Trajectories : counts[t] = Inserted(t)'
    BY <1>1
  <2>2. \A t \in Trajectories : counts[t] = Inserted(t)
    BY <1>4, <2>1, Zenon
  <2>3. lists = submaps
    BY <1>1, <1>4
  <2> QED
    BY <1>2, <2>2, <2>3
<1>5. ASSUME AppendScan
      PROVE  /\ lists \in [Trajectories -> Seq(SM!Submap)]
             /\ \A t \in Trajectories : Holding(lists[t], counts[t])
  <2>1. /\ UNCHANGED submaps /\ incoming # None /\ incoming' = None
        /\ \A t \in Trajectories :
              Len(trajectory_nodes'[t]) = IF t = incoming.trajectory
                                          THEN Len(trajectory_nodes[t]) + 1
                                          ELSE Len(trajectory_nodes[t])
    BY <1>5, AppendedCounts
  <2>2. ASSUME NEW t \in Trajectories PROVE Inserted(t)' = Inserted(t)
    <3>1. Inserted(t)' = Len(trajectory_nodes'[t])
      BY <2>1 DEF Inserted
    <3>2. Inserted(t) = Len(trajectory_nodes'[t])
      BY <2>1 DEF Inserted
    <3> QED
      BY <3>1, <3>2
  <2> QED
    BY <1>4, <2>1, <2>2
<1>6. ASSUME UNCHANGED <<incoming, submaps>>, ~AppendScan
      PROVE  /\ lists \in [Trajectories -> Seq(SM!Submap)]
             /\ \A t \in Trajectories : Holding(lists[t], counts[t])
  <2>1. \A t \in Trajectories : Inserted(t)' = Inserted(t)
    BY <1>6, PoseCounts DEF Inserted
  <2> QED
    BY <1>4, <1>6, <2>1
<1>7. /\ lists \in [Trajectories -> Seq(SM!Submap)]
      /\ \A t \in Trajectories : Holding(lists[t], counts[t])
  BY <1>3, <1>5, <1>6, IncomingSteps
<1>8. \A t \in Trajectories : Holding(lists[t], Inserted(t)')
  BY <1>1, <1>7
<1> QED
  BY <1>1, <1>7, <1>8 DEF SubmapsOK
-----------------------------------------------------------------------------
(* What the pose graph knows of the submaps.                                *)

\* Only the beginning and the end of a scan change whose pairs are matched.
\* Either somebody issues the same pairs as before, or nobody issues before and after.
IssueRests == \/ UNCHANGED scan /\ \A th \in Threads : pc'[th] = "issue" <=> pc[th] = "issue"
              \/ \A th \in Threads : pc[th] # "issue" /\ pc'[th] # "issue"

\* Who issues, and what, is changed by few steps.
LEMMA IssueSteps ==
    ASSUME PlacesOK, ScanOK, [Next]_vars
    PROVE  \/ \E th \in Threads : BeginScan(th) \/ IssueConstraint(th) \/ EndScan(th)
           \/ IssueRests
<1> USE DEF Goto, At
<1>0. /\ \A w \in Workers : w # Main /\ w \in Threads
      /\ Main \in Threads
      /\ pc \in [Threads -> MainPlaces \cup WorkerPlaces]
      /\ \A th \in Threads : pc[th] = "issue" => pc[th] \in Locked
  BY ThreadsAssumption DEF ThreadsAssumption, PlacesOK, Threads, Locked, Inside
<1>1. ASSUME UNCHANGED scan, NEW a \in Threads, NEW l,
             pc' = [pc EXCEPT ![a] = l], l # "issue", pc[a] # "issue"
      PROVE  IssueRests
  <2>1. \A th \in Threads : pc'[th] = "issue" <=> pc[th] = "issue"
    BY <1>0, <1>1
  <2> QED
    BY <1>1, <2>1 DEF IssueRests
<1>2. ASSUME \A th \in Threads : pc[th] # "issue", NEW a \in Threads, NEW l,
             pc' = [pc EXCEPT ![a] = l], l # "issue"
      PROVE  IssueRests
  <2>1. \A th \in Threads : pc'[th] # "issue"
    BY <1>0, <1>2
  <2> QED
    BY <1>2, <2>1 DEF IssueRests
<1>3. ASSUME UNCHANGED <<scan, pc>> PROVE IssueRests
  BY <1>3 DEF IssueRests
<1>4. mutex = Free => \A th \in Threads : pc[th] # "issue"
  BY <1>0, OneInside
<1>5. \A a \in Threads : pc[a] \in Locked \ {"issue"} => \A th \in Threads : pc[th] # "issue"
  BY <1>0, OneInside
<1>6. ASSUME NEW t \in Trajectories, AddScan(t)
      PROVE  IssueRests
  <2>1. UNCHANGED scan /\ pc[Main] = "idle" /\ pc' = [pc EXCEPT ![Main] = "append"]
    BY <1>6 DEF AddScan
  <2> QED
    BY <1>0, <1>1, <2>1
<1>7. ASSUME AppendScan PROVE IssueRests
  <2>1. PICK l \in {"begin", "idle"} : pc' = [pc EXCEPT ![Main] = l]
    BY <1>7 DEF AppendScan
  <2> QED
    BY <1>0, <1>2, <1>4, <1>7, <2>1 DEF AppendScan
<1>8. ASSUME AddImuData \/ UNCHANGED vars
      PROVE  IssueRests
  BY <1>3, <1>8 DEF AddImuData, vars
<1>9. ASSUME RunFinalOptimization \/ Destroy
      PROVE  IssueRests
  <2>1. UNCHANGED scan /\ pc[Main] \in {"idle", "destroy"}
    BY <1>9 DEF RunFinalOptimization, Destroy
  <2>2. PICK l \in {"wait_final", "destroyed"} : pc' = [pc EXCEPT ![Main] = l]
    BY <1>9 DEF RunFinalOptimization, Destroy
  <2> QED
    BY <1>0, <1>1, <2>1, <2>2
<1>10. ASSUME NEW here \in {"wait_final", "wait_destroy", "await_final", "await_destroy"},
              NEW next \in {"await_final", "await_destroy", "optimize", "destroy"},
              WaitForAllComputations(here, next) \/ AwaitNotification(here, next)
       PROVE  IssueRests
  <2>1. UNCHANGED scan /\ pc[Main] = here /\ pc' = [pc EXCEPT ![Main] = next]
    BY <1>10 DEF WaitForAllComputations, AwaitNotification
  <2> QED
    BY <1>0, <1>1, <2>1
<1>11. ASSUME NEW th \in Threads, RequestLoopClosure(th) \/ HandleScanQueue(th)
       PROVE  IssueRests
  <2>1. pc[th] \in Locked \ {"issue"}
    BY <1>11 DEF RequestLoopClosure, HandleScanQueue, Locked, Inside
  <2>2. PICK l \in {"register", "idle", "return", "drain"} : pc' = [pc EXCEPT ![th] = l]
    BY <1>11 DEF RequestLoopClosure, HandleScanQueue, ItemDone
  <2> QED
    BY <1>0, <1>2, <1>5, <2>1, <2>2
<1>12. ASSUME NEW th \in Threads, RunOptimization(th) \/ PublishOptimization(th)
       PROVE  IssueRests
  <2>1. UNCHANGED scan /\ pc[th] \in {"optimize", "solve"}
    BY <1>12 DEF RunOptimization, PublishOptimization
  <2>2. PICK l \in {"solve", "wait_destroy", "resume"} : pc' = [pc EXCEPT ![th] = l]
    BY <1>12 DEF RunOptimization, PublishOptimization, AfterOptimization
  <2> QED
    BY <1>1, <2>1, <2>2
<1>13. ASSUME NEW w \in Workers, BuilderStep(w) \/ \E match \in BOOLEAN : Match(w, match)
       PROVE  IssueRests
  BY <1>3, <1>13 DEF BuilderStep, Match
<1>14. ASSUME NEW w \in Workers, EnterCallback(w) \/ Resume(w) \/ LeaveLoop(w)
                                 \/ ReturnFromCallback(w)
       PROVE  IssueRests
  <2>1. UNCHANGED scan /\ pc[w] \in {"pool", "resume", "drain", "return"}
    BY <1>14 DEF EnterCallback, Resume, LeaveLoop, ReturnFromCallback
  <2>2. PICK l \in {"return", "optimize", "drain", "register", "pool"} :
           pc' = [pc EXCEPT ![w] = l]
    BY <1>14 DEF EnterCallback, Resume, LeaveLoop, ReturnFromCallback
  <2> QED
    BY <1>0, <1>1, <2>1, <2>2
<1>15. ASSUME NEW w \in Workers, WorkOffQueue(w)
       PROVE  IssueRests
  <2>1. pc[w] \in Locked \ {"issue"}
    BY <1>15 DEF WorkOffQueue, Locked
  <2>2. UNCHANGED <<pc, scan>> \/ pc' = [pc EXCEPT ![w] = "begin"]
    BY <1>15 DEF WorkOffQueue
  <2> QED
    BY <1>0, <1>2, <1>3, <1>5, <2>1, <2>2
<1> QED
  BY <1>6, <1>7, <1>8, <1>9, <1>10, <1>11, <1>12, <1>13, <1>14, <1>15, Steps

LEMMA IssuingSteps ==
    ASSUME PlacesOK, ScanOK, [Next]_vars
    PROVE  \/ \E th \in Threads : BeginScan(th) \/ EndScan(th)
           \/ \A t \in Trajectories : Issuing(t)' <=> Issuing(t)
<1>1. ASSUME NEW th \in Threads, IssueConstraint(th)
       PROVE  \A t \in Trajectories : Issuing(t)' <=> Issuing(t)
  <2>1. PICK pair : UNCHANGED pc /\ pc[th] = "issue"
                    /\ scan' = [scan EXCEPT !.todo = scan.todo \ {pair}]
    BY <1>1 DEF IssueConstraint, ComputeConstraint, At
  <2>2. scan \in Scans /\ scan # None
    BY <2>1 DEF ScanOK, Inside
  <2>3. PICK todo \in SUBSET (NodeIds \X SubmapIds) : todo = scan.todo \ {pair}
    BY <2>2, ScanFields
  <2>4. scan' \in Scans /\ scan'.item = scan.item
    BY <2>1, <2>2, <2>3, ScanFields
  <2>5. scan' # None
    BY <2>4, NullAssumption DEF NullAssumption
  <2> QED
    BY <2>1, <2>2, <2>4, <2>5 DEF Issuing
<1> QED
  BY <1>1, IssueSteps DEF IssueRests, Issuing

LEMMA StatesSteps ==
    ASSUME [Next]_vars
    PROVE  \/ AppendScan
           \/ \E th \in Threads : BeginScan(th) \/ EndScan(th)
           \/ UNCHANGED <<submap_states, submap_data, node_data>>
<1>1. ASSUME NEW t \in Trajectories, AddScan(t)
      PROVE  UNCHANGED <<submap_states, submap_data, node_data>>
  BY <1>1 DEF AddScan, problem
<1>2. CASE AddImuData \/ RunFinalOptimization \/ Destroy \/ UNCHANGED vars
  BY <1>2 DEF AddImuData, RunFinalOptimization, Destroy, vars, problem
<1>3. ASSUME NEW here, NEW next, WaitForAllComputations(here, next) \/ AwaitNotification(here, next)
      PROVE  UNCHANGED <<submap_states, submap_data, node_data>>
  BY <1>3 DEF WaitForAllComputations, AwaitNotification, problem
<1>4. ASSUME NEW th \in Threads,
             \/ IssueConstraint(th) \/ RequestLoopClosure(th)
             \/ HandleScanQueue(th) \/ RunOptimization(th) \/ PublishOptimization(th)
      PROVE  UNCHANGED <<submap_states, submap_data, node_data>>
  BY <1>4 DEF IssueConstraint, ComputeConstraint, RequestLoopClosure,
     HandleScanQueue, RunOptimization, PublishOptimization, problem
<1>5. ASSUME NEW w \in Workers,
             \/ BuilderStep(w) \/ (\E match \in BOOLEAN : Match(w, match)) \/ EnterCallback(w)
             \/ Resume(w) \/ LeaveLoop(w) \/ WorkOffQueue(w) \/ ReturnFromCallback(w)
      PROVE  UNCHANGED <<submap_states, submap_data, node_data>>
  BY <1>5 DEF BuilderStep, Match, EnterCallback, Resume, LeaveLoop, WorkOffQueue,
     ReturnFromCallback, problem
<1> QED
  BY <1>1, <1>2, <1>3, <1>4, <1>5, Steps

\* The optimization problem gets a submap with the first scan that is inserted into it.
LEMMA Growing ==
    ASSUME NEW b \in Nat, NEW k \in Nat, NEW n \in Nat, IsBack(b, k),
           IF k = 0 THEN n = 0
           ELSE (n - 1) * NumRangeData < k /\ k <= n * NumRangeData
    PROVE  n = b \/ n = b + 1
<1>0. NumRangeData \in Nat \ {0}
  BY BoundsAssumption DEF BoundsAssumption
<1>1. b <= n
  <2>1. SUFFICES ASSUME n < b PROVE FALSE
    OBVIOUS
  <2>2. /\ n * NumRangeData \in Int
        /\ (n + 1) * NumRangeData = n * NumRangeData + NumRangeData
        /\ (n + 1) * NumRangeData <= b * NumRangeData
        /\ b * NumRangeData \in Int
    <3>1. n \in Int /\ b \in Int
      OBVIOUS
    <3> QED
      BY <2>1, <3>1, Multiples, Zenon
  <2>3. b * NumRangeData <= k
    BY DEF IsBack
  <2>4. CASE k = 0
    <3>1. n * NumRangeData = 0
      BY <1>0, <2>4
    <3> QED
      BY <1>0, <2>2, <2>3, <2>4, <3>1
  <2>5. CASE k # 0
    BY <1>0, <2>2, <2>3, <2>5
  <2> QED
    BY <2>4, <2>5
<1>2. n <= b + 1
  <2>1. SUFFICES ASSUME b + 1 < n PROVE FALSE
    OBVIOUS
  <2>2. k # 0
    BY <2>1
  <2>3. PICK i \in Int, j \in Int : i = b + 1 /\ j = n - 1
    OBVIOUS
  <2>4. i <= j
    BY <2>1, <2>3
  <2>5. /\ i * NumRangeData \in Int /\ j * NumRangeData \in Int
        /\ i * NumRangeData <= j * NumRangeData
    BY <2>4, Multiples
  <2>6. j * NumRangeData < k /\ k < i * NumRangeData
    BY <2>2, <2>3 DEF IsBack
  <2> QED
    BY <2>5, <2>6
<1> QED
  BY <1>1, <1>2

\* Where a scan that is begun goes.
LEMMA BeginGeometry ==
    ASSUME PlacesOK, ScanOK, QueueOK, CountsOK, BacklogOK, ItemsOK, GraphOK,
           NEW th \in Threads, pc[th] = "begin"
    PROVE  \E t \in Trajectories, k \in Nat, b \in 0..MaxNodes :
              /\ scan \in Scans
              /\ t = scan.item.trajectory /\ k = node_data[t]
              /\ BegunNode = <<t, k>> /\ BegunNode \in NodeIds
              /\ k < Len(trajectory_nodes[t])
              /\ IsBack(b, k)
              /\ BackSubmap(scan.item) = <<t, b>>
              /\ submap_data[t] = b \/ submap_data[t] = b + 1
              /\ GrownSubmapData(scan.item) = b + 1
              /\ \A s \in SubmapIds : s \in scan.item.insertion <=> s[1] = t /\ Inserts(s[2], k)
              /\ \A u \in Trajectories : Ended(u) = node_data[u]
<1>0. MaxNodes \in Nat
  BY BoundsAssumption DEF BoundsAssumption
<1>1. /\ scan \in Scans /\ scan.item \in ScanItems
      /\ scan.item.index = node_data[scan.item.trajectory]
      /\ node_data[scan.item.trajectory] < Len(trajectory_nodes[scan.item.trajectory])
      /\ BegunNode \in NodeIds
  BY NextItem, ScanFields DEF BegunNode
<1>2. PICK t \in Trajectories : t = scan.item.trajectory
  BY <1>1, ItemKinds
<1>3. PICK k \in Nat : k = node_data[t]
  BY DEF CountsOK
<1>4. ItemOK(scan.item)
  BY BegunTodoType
<1>5. PICK b \in 0..MaxNodes :
         /\ IsBack(b, k)
         /\ BackSubmap(scan.item) = <<t, b>>
         /\ \A s \in SubmapIds : s \in scan.item.insertion <=> s[1] = t /\ Inserts(s[2], k)
         /\ Cardinality(scan.item.insertion) = 1 <=> b = 0
  BY <1>1, <1>2, <1>3, <1>4, ItemGeometry
<1>6. PICK n \in Nat : n = submap_data[t]
  BY DEF GraphOK
<1>7. n = b \/ n = b + 1
  <2>1. IF k = 0 THEN n = 0 ELSE (n - 1) * NumRangeData < k /\ k <= n * NumRangeData
    BY <1>3, <1>6 DEF GraphOK
  <2> QED
    BY <1>5, <2>1, Growing
<1>8. GrownSubmapData(scan.item) = b + 1
  BY <1>2, <1>5, <1>6, <1>7 DEF GrownSubmapData
<1>9. \A u \in Trajectories : Ended(u) = node_data[u]
  <2>1. \A a \in Threads : pc[a] # "issue"
    BY OneInside DEF Locked, Inside
  <2> QED
    BY <2>1 DEF Ended, Issuing
<1> QED
  BY <1>1, <1>2, <1>3, <1>5, <1>6, <1>7, <1>8, <1>9 DEF BegunNode

\* The CHECKs of a scan: its submaps are there, and not finished.
LEMMA BeginScanPasses ==
    ASSUME PlacesOK, ScanOK, QueueOK, CountsOK, BacklogOK, ItemsOK, GraphOK,
           NEW th \in Threads, BeginScan(th)
    PROVE  /\ failed' = FALSE
           /\ \A s \in scan.item.insertion :
                 s \in DOMAIN submap_states /\ submap_states[s].finished = FALSE
           /\ \A s \in BegunFinished : BegunNode \notin BegunStates[s].node_ids
<1>0. /\ NumRangeData \in Nat /\ MaxNodes \in Nat
      /\ pc[th] = "begin"
  BY BoundsAssumption, BeginScanIs DEF BoundsAssumption
<1>1. PICK t \in Trajectories, k \in Nat, b \in 0..MaxNodes :
              /\ scan \in Scans
              /\ t = scan.item.trajectory /\ k = node_data[t]
              /\ BegunNode = <<t, k>> /\ BegunNode \in NodeIds
              /\ k < Len(trajectory_nodes[t])
              /\ IsBack(b, k)
              /\ BackSubmap(scan.item) = <<t, b>>
              /\ submap_data[t] = b \/ submap_data[t] = b + 1
              /\ GrownSubmapData(scan.item) = b + 1
              /\ \A s \in SubmapIds : s \in scan.item.insertion <=> s[1] = t /\ Inserts(s[2], k)
              /\ \A u \in Trajectories : Ended(u) = node_data[u]
  BY <1>0, BeginGeometry
<1>2. failed' = \/ BackSubmap(scan.item)[2] > submap_data[t]
                \/ \E s \in scan.item.insertion : BegunStates[s].finished
                \/ \E s \in BegunFinished : BegunNode \in BegunStates[s].node_ids
  BY <1>1 DEF BeginScan, BegunStates, BegunNode, BegunFinished
<1>3. ~ (BackSubmap(scan.item)[2] > submap_data[t])
  BY <1>0, <1>1
<1>4. ASSUME NEW s \in scan.item.insertion
      PROVE  s \in DOMAIN submap_states /\ submap_states[s].finished = FALSE
  <2>1. s \in SubmapIds
    BY <1>1, ScanFields, ItemKinds
  <2>2. PICK j \in Int : j = s[2] /\ s[1] = t /\ Inserts(j, k)
    BY <1>0, <1>1, <2>1 DEF SubmapIds
  <2>3. j * NumRangeData \in Int /\ (j + 2) * NumRangeData \in Int
    BY <1>0
  <2>4. PICK len \in Nat : len = Len(trajectory_nodes[t])
    BY <1>1, LenProperties DEF CountsOK
  <2>5. j * NumRangeData < len
    BY <1>1, <2>2, <2>3, <2>4 DEF Inserts
  <2>6. s \in DOMAIN submap_states
    BY <2>1, <2>2, <2>4, <2>5 DEF GraphOK
  <2>7. ~ ((s[2] + 2) * NumRangeData <= k)
    BY <2>2, <2>3 DEF Inserts
  <2> QED
    BY <1>1, <2>2, <2>6, <2>7 DEF GraphOK
<1>5. ASSUME NEW s \in scan.item.insertion PROVE BegunStates[s].finished = FALSE
  BY <1>4, <1>5, BegunState
<1>6. ASSUME NEW s \in BegunFinished PROVE BegunNode \notin BegunStates[s].node_ids
  <2>1. s \in DOMAIN submap_states /\ BegunStates[s].finished /\ s \notin scan.item.insertion
    BY <1>5, <1>6 DEF BegunFinished, BegunStates
  <2>2. BegunNode \notin submap_states[s].node_ids
    BY <1>1, <2>1 DEF GraphOK
  <2> QED
    BY <2>1, <2>2, BegunState
<1> QED
  BY <1>2, <1>3, <1>4, <1>5, <1>6

\* A submap gets its entry with the first of its scans.
LEMMA AppendGraph ==
    ASSUME PlacesOK, ScanOK, CountsOK, ItemsOK, GraphOK, AppendScan
    PROVE  GraphOK'
<1>0. NumRangeData \in Nat \ {0} /\ MaxNodes \in Nat
  BY BoundsAssumption DEF BoundsAssumption
<1>1. /\ UNCHANGED <<node_data, submap_data>>
      /\ NewItem \in ScanItems
      /\ NewItem.trajectory = incoming.trajectory
      /\ NewItem.index = Len(trajectory_nodes[incoming.trajectory])
      /\ \A t \in Trajectories :
            Len(trajectory_nodes'[t]) = IF t = incoming.trajectory
                                        THEN Len(trajectory_nodes[t]) + 1
                                        ELSE Len(trajectory_nodes[t])
  BY AppendedCounts
<1>2. PICK t \in Trajectories : t = incoming.trajectory
  BY NewItemType DEF AppendScan, At
<1>3. PICK k \in Nat : k = Len(trajectory_nodes[t])
  BY <1>2, NewItemType DEF AppendScan, At
<1>4. ItemOK(NewItem)
  BY <1>1 DEF ItemsOK, ItemOK, NewItem, AppendScan, At, ScanOK
<1>5. PICK b \in 0..MaxNodes : IsBack(b, k) /\ BackSubmap(NewItem) = <<t, b>>
                               /\ BackSubmap(NewItem) \in SubmapIds
  BY <1>1, <1>2, <1>3, <1>4, ItemGeometry
<1>6. PICK known : known = DOMAIN submap_states
  OBVIOUS
<1>7. PICK states : states = [s \in known \cup {<<t, b>>} |->
                                IF s \in known THEN submap_states[s]
                                ELSE [finished |-> FALSE, node_ids |-> {}]]
  OBVIOUS
<1>8. submap_states' = states
  BY <1>2, <1>5, <1>6, <1>7 DEF AppendScan, NewItem
<1>9. \A u \in Trajectories : Ended(u)' = node_data[u] /\ Ended(u) = node_data[u]
  <2>1. \A a \in Threads : pc[a] # "issue"
    BY OneInside DEF AppendScan, Locked, Inside
  <2>2. PICK l \in {"begin", "idle"} : pc' = [pc EXCEPT ![Main] = l]
    BY DEF AppendScan, Goto
  <2>3. \A a \in Threads : pc'[a] # "issue"
    BY <2>1, <2>2 DEF PlacesOK
  <2> QED
    BY <1>1, <2>1, <2>3 DEF Ended, Issuing
\* s is known when its first scan is.
<1>10. \A s \in SubmapIds : s[1] \in Trajectories /\ s[2] \in Nat /\ s = <<s[1], s[2]>>
  BY <1>0 DEF SubmapIds
<1>11. \A s \in SubmapIds : s \in known <=> s[2] * NumRangeData < Len(trajectory_nodes[s[1]])
  BY <1>6 DEF GraphOK
<1>12. b \in Nat /\ <<t, b>> \in SubmapIds
  BY <1>0, <1>5
<1>13. ASSUME NEW s \in SubmapIds
       PROVE  s \in DOMAIN states <=> s[2] * NumRangeData < Len(trajectory_nodes'[s[1]])
  <2>1. s \in DOMAIN states <=> s \in known \/ s = <<t, b>>
    BY <1>7
  <2>2. CASE s[1] # t
    BY <1>1, <1>2, <1>10, <1>11, <2>1, <2>2
  <2>3. CASE s[1] = t
    <3>1. PICK j \in Nat : j = s[2]
      BY <1>10
    <3>2. j * NumRangeData \in Int /\ (j + 1) * NumRangeData = j * NumRangeData + NumRangeData
      BY <1>0
    <3>3. s \in DOMAIN states <=> j * NumRangeData < k \/ j = b
      BY <1>3, <1>10, <1>11, <2>1, <2>3, <3>1
    <3>4. IsBack(j, k) <=> j = b
      BY <1>5, <1>12, InsertedWhere
    <3>5. j * NumRangeData < k + 1 <=> j * NumRangeData < k \/ j * NumRangeData = k
      BY <3>2
    <3>6. j * NumRangeData = k => IsBack(j, k)
      BY <1>0, <3>2 DEF IsBack
    <3>7. IsBack(j, k) => j * NumRangeData < k + 1
      BY <3>2 DEF IsBack
    <3> QED
      BY <1>1, <1>2, <1>3, <2>3, <3>1, <3>3, <3>4, <3>5, <3>6, <3>7
  <2> QED
    BY <2>2, <2>3
<1>14. DOMAIN states \subseteq SubmapIds
  BY <1>6, <1>7, <1>12 DEF GraphOK
<1>15. ASSUME NEW s \in DOMAIN states
       PROVE  /\ states[s] \in [finished : BOOLEAN, node_ids : SUBSET NodeIds]
              /\ states[s].finished <=> (s[2] + 2) * NumRangeData <= node_data[s[1]]
              /\ \A n \in NodeIds :
                    n \in states[s].node_ids <=>
                       n[1] = s[1] /\ Inserts(s[2], n[2]) /\ n[2] < node_data[n[1]]
  <2>1. CASE s \in known
    <3>1. states[s] = submap_states[s] /\ s \in DOMAIN submap_states /\ s[1] \in Trajectories
      BY <1>6, <1>7, <1>10, <1>14, <2>1
    <3> QED
      BY <1>9, <3>1 DEF GraphOK
  <2>2. CASE s \notin known
    <3>1. s = <<t, b>> /\ states[s] = [finished |-> FALSE, node_ids |-> {}]
      BY <1>7, <2>2
    <3>2. b * NumRangeData = k /\ (b + 2) * NumRangeData = b * NumRangeData + 2 * NumRangeData
      <4>1. b * NumRangeData \in Int
        BY <1>0, <1>12
      <4>2. ~(b * NumRangeData < k)
        BY <1>3, <1>11, <1>12, <2>2, <3>1
      <4>3. b * NumRangeData <= k
        BY <1>5 DEF IsBack
      <4>4. (b + 2) * NumRangeData = b * NumRangeData + 2 * NumRangeData
        BY <1>0, <1>12
      <4> QED
        BY <4>1, <4>2, <4>3, <4>4
    <3>3. node_data[t] \in Nat /\ node_data[t] <= k
      BY <1>3 DEF CountsOK
    <3>4. ~((b + 2) * NumRangeData <= node_data[t])
      BY <1>0, <3>2, <3>3
    <3>5. ASSUME NEW n \in NodeIds, n[1] = t, Inserts(b, n[2]) PROVE ~(n[2] < node_data[t])
      <4>1. n[2] \in Int /\ b * NumRangeData <= n[2]
        BY <1>0, <3>5 DEF NodeIds, Inserts
      <4> QED
        BY <3>2, <3>3, <4>1
    <3> QED
      BY <3>1, <3>4, <3>5
  <2> QED
    BY <2>1, <2>2
<1>16. \A s \in DOMAIN states : Ended(s[1])' = node_data[s[1]]
  BY <1>9, <1>10, <1>14
<1>17. DOMAIN states = {s \in SubmapIds : s[2] * NumRangeData < Len(trajectory_nodes'[s[1]])}
  BY <1>13, <1>14
<1>18. /\ submap_data' \in [Trajectories -> Nat]
       /\ \A u \in Trajectories :
             IF node_data'[u] = 0 THEN submap_data'[u] = 0
             ELSE /\ (submap_data'[u] - 1) * NumRangeData < node_data'[u]
                  /\ node_data'[u] <= submap_data'[u] * NumRangeData
  BY <1>1 DEF GraphOK
<1> QED
  BY <1>1, <1>8, <1>15, <1>16, <1>17, <1>18 DEF GraphOK

LEMMA BeginGraph ==
    ASSUME PlacesOK, ScanOK, QueueOK, CountsOK, BacklogOK, ItemsOK, GraphOK,
           NEW th \in Threads, BeginScan(th), ScanOK'
    PROVE  GraphOK'
<1>0. NumRangeData \in Nat \ {0} /\ MaxNodes \in Nat
  BY BoundsAssumption DEF BoundsAssumption
<1>1. /\ pc[th] = "begin" /\ pc' = [pc EXCEPT ![th] = "issue"]
      /\ scan' = [scan EXCEPT !.todo = BegunTodo]
      /\ submap_states' = BegunStates
      /\ submap_data' = [submap_data EXCEPT ![scan.item.trajectory] =
                             GrownSubmapData(scan.item)]
      /\ node_data' = [node_data EXCEPT ![scan.item.trajectory] = @ + 1]
      /\ UNCHANGED trajectory_nodes
  BY BeginScanIs
<1>2. PICK t \in Trajectories, k \in Nat, b \in 0..MaxNodes :
              /\ scan \in Scans
              /\ t = scan.item.trajectory /\ k = node_data[t]
              /\ BegunNode = <<t, k>> /\ BegunNode \in NodeIds
              /\ k < Len(trajectory_nodes[t])
              /\ IsBack(b, k)
              /\ BackSubmap(scan.item) = <<t, b>>
              /\ submap_data[t] = b \/ submap_data[t] = b + 1
              /\ GrownSubmapData(scan.item) = b + 1
              /\ \A s \in SubmapIds : s \in scan.item.insertion <=> s[1] = t /\ Inserts(s[2], k)
              /\ \A u \in Trajectories : Ended(u) = node_data[u]
  BY <1>1, BeginGeometry
<1>3. PICK data, nodes, states :
         /\ data = submap_data' /\ data = [submap_data EXCEPT ![t] = b + 1]
         /\ nodes = node_data' /\ nodes = [node_data EXCEPT ![t] = k + 1]
         /\ states = submap_states' /\ states = BegunStates
  BY <1>1, <1>2
<1>4. submap_data \in [Trajectories -> Nat] /\ node_data \in [Trajectories -> Nat] /\ b \in Nat
  BY <1>0 DEF GraphOK, CountsOK
<1>5. /\ data \in [Trajectories -> Nat]
      /\ \A u \in Trajectories :
             IF nodes[u] = 0 THEN data[u] = 0
             ELSE (data[u] - 1) * NumRangeData < nodes[u] /\ nodes[u] <= data[u] * NumRangeData
  <2>1. data \in [Trajectories -> Nat]
    BY <1>3, <1>4
  <2>2. ASSUME NEW u \in Trajectories, u # t
        PROVE  IF nodes[u] = 0 THEN data[u] = 0
               ELSE (data[u] - 1) * NumRangeData < nodes[u] /\ nodes[u] <= data[u] * NumRangeData
    <3>1. nodes[u] = node_data[u] /\ data[u] = submap_data[u]
      BY <1>3, <1>4, <2>2
    <3> QED
      BY <3>1 DEF GraphOK
  <2>3. /\ nodes[t] = k + 1 /\ data[t] = b + 1 /\ b + 1 - 1 = b
    BY <1>3, <1>4
  <2>4. b * NumRangeData < k + 1 /\ k + 1 <= (b + 1) * NumRangeData
    <3>1. b * NumRangeData \in Int /\ (b + 1) * NumRangeData \in Int
      BY <1>0, <1>4
    <3> QED
      BY <1>2, <3>1 DEF IsBack
  <2>5. k + 1 # 0
    OBVIOUS
  <2> QED
    BY <2>1, <2>2, <2>3, <2>4, <2>5
<1>6. DOMAIN states = {s \in SubmapIds : s[2] * NumRangeData < Len(trajectory_nodes[s[1]])}
  BY <1>3 DEF GraphOK, BegunStates
<1>7. \A s \in SubmapIds : s[1] \in Trajectories
  BY DEF SubmapIds
<1>8. ASSUME NEW u \in Trajectories PROVE Ended(u)' = node_data[u]
  <2>1. pc'[th] = "issue"
    BY <1>1 DEF PlacesOK
  <2>2. scan' # None
    BY <2>1 DEF ScanOK, Inside
  <2>3. scan'.item = scan.item
    BY <1>1, <1>2 DEF Scans
  <2>4. CASE u = t
    <3>1. Issuing(u)'
      BY <1>2, <2>1, <2>2, <2>3, <2>4 DEF Issuing
    <3>2. Ended(u)' = nodes[u] - 1
      BY <1>3, <3>1 DEF Ended
    <3> QED
      BY <1>2, <1>3, <1>4, <2>4, <3>2
  <2>5. CASE u # t
    <3>1. ~Issuing(u)'
      BY <1>2, <2>3, <2>5 DEF Issuing
    <3>2. Ended(u)' = nodes[u]
      BY <1>3, <3>1 DEF Ended
    <3> QED
      BY <1>3, <1>4, <2>5, <3>2
  <2> QED
    BY <2>4, <2>5
<1>9. ASSUME NEW s \in DOMAIN states
      PROVE  /\ states[s] \in [finished : BOOLEAN, node_ids : SUBSET NodeIds]
             /\ states[s].finished <=> (s[2] + 2) * NumRangeData <= Ended(s[1])'
             /\ \A n \in NodeIds :
                   n \in states[s].node_ids <=>
                      n[1] = s[1] /\ Inserts(s[2], n[2]) /\ n[2] < nodes[n[1]]
  <2>1. s \in DOMAIN submap_states
    BY <1>3 DEF BegunStates
  <2>2. /\ s \in SubmapIds
        /\ states[s].finished = submap_states[s].finished
        /\ states[s] \in [finished : BOOLEAN, node_ids : SUBSET NodeIds]
        /\ \A n : n \in states[s].node_ids <=>
                        \/ n \in submap_states[s].node_ids
                        \/ n = <<t, k>> /\ s \in scan.item.insertion
    BY <1>2, <1>3, <2>1, BegunState
  <2>3. /\ submap_states[s].finished <=> (s[2] + 2) * NumRangeData <= node_data[s[1]]
        /\ \A n \in NodeIds :
              n \in submap_states[s].node_ids <=>
                 n[1] = s[1] /\ Inserts(s[2], n[2]) /\ n[2] < node_data[n[1]]
    BY <1>2, <1>7, <2>1, <2>2 DEF GraphOK
  <2>4. ASSUME NEW n \in NodeIds
        PROVE  n \in states[s].node_ids <=>
                  n[1] = s[1] /\ Inserts(s[2], n[2]) /\ n[2] < nodes[n[1]]
    <3>1. n[1] \in Trajectories /\ n[2] \in Nat /\ n = <<n[1], n[2]>>
      BY <1>0 DEF NodeIds
    <3>2. CASE n[1] # t
      <4>1. nodes[n[1]] = node_data[n[1]] /\ n # <<t, k>>
        BY <1>3, <1>4, <3>1, <3>2
      <4> QED
        BY <2>2, <2>3, <4>1
    <3>3. CASE n[1] = t
      <4>1. nodes[n[1]] = k + 1 /\ node_data[n[1]] = k
        BY <1>2, <1>3, <1>4, <3>3
      <4>2. n = <<t, k>> <=> n[2] = k
        BY <3>1, <3>3
      <4>3. n[2] < k + 1 <=> n[2] < k \/ n[2] = k
        BY <3>1
      <4>4. s \in scan.item.insertion <=> s[1] = t /\ Inserts(s[2], k)
        BY <1>2, <2>2
      <4> QED
        BY <2>2, <2>3, <3>3, <4>1, <4>2, <4>3, <4>4
    <3> QED
      BY <3>2, <3>3
  <2>5. Ended(s[1])' = node_data[s[1]]
    BY <1>7, <1>8, <2>2
  <2> QED
    BY <2>2, <2>3, <2>4, <2>5
<1> QED
  BY <1>1, <1>3, <1>5, <1>6, <1>9 DEF GraphOK

LEMMA EndGraph ==
    ASSUME PlacesOK, ScanOK, CountsOK, IssuedIsLast, ItemsOK, GraphOK,
           NEW th \in Threads, EndScan(th)
    PROVE  GraphOK'
<1>0. NumRangeData \in Nat \ {0} /\ MaxNodes \in Nat
  BY BoundsAssumption DEF BoundsAssumption
<1>1. /\ pc[th] = "issue"
      /\ UNCHANGED <<node_data, submap_data, trajectory_nodes>>
  BY DEF EndScan, At, problem, published
<1>2. scan # None /\ scan \in Scans /\ scan.item \in ScanItems /\ ItemOK(scan.item)
  BY <1>1, ScanFields DEF ScanOK, ItemsOK, Inside
<1>3. PICK t \in Trajectories : t = scan.item.trajectory
  BY <1>2, ItemKinds
<1>4. PICK k \in Nat : k = scan.item.index /\ k + 1 = node_data[t]
  BY <1>1, <1>2, <1>3, ItemKinds DEF IssuedIsLast
<1>5. PICK b \in 0..MaxNodes :
         /\ IsBack(b, k)
         /\ FrontSubmap(scan.item) = <<t, IF b = 0 THEN 0 ELSE b - 1>>
         /\ scan.item.finished <=> b > 0 /\ k + 1 = (b + 1) * NumRangeData
  BY <1>2, <1>3, <1>4, ItemGeometry
<1>6. PICK front : front = FrontSubmap(scan.item)
  OBVIOUS
<1>7. PICK states : states = IF scan.item.finished
                             THEN [submap_states EXCEPT ![front].finished = TRUE]
                             ELSE submap_states
  OBVIOUS
<1>8. submap_states' = states
  BY <1>6, <1>7 DEF EndScan
<1>9. \A u \in Trajectories : Ended(u)' = node_data[u]
  <2>1. \A a \in Threads : a # th => pc[a] # "issue"
    BY <1>1, OneInside DEF Locked, Inside
  <2>2. PICK l \in {"close", "idle", "drain"} : pc' = [pc EXCEPT ![th] = l]
    BY DEF EndScan, ItemDone, Goto
  <2>3. \A a \in Threads : pc'[a] # "issue"
    BY <2>1, <2>2 DEF PlacesOK
  <2> QED
    BY <1>1, <2>3 DEF Ended, Issuing
<1>10. \A u \in Trajectories : /\ node_data[u] \in Nat
                               /\ Ended(u) = IF u = t THEN k ELSE node_data[u]
  <2>1. \A u \in Trajectories : Issuing(u) <=> u = t
    BY <1>1, <1>2, <1>3 DEF Issuing
  <2>2. \A u \in Trajectories : node_data[u] \in Nat
    BY DEF CountsOK
  <2>3. node_data[t] - 1 = k
    BY <1>4
  <2> QED
    BY <2>1, <2>2, <2>3 DEF Ended
<1>11. \A s \in SubmapIds : s[1] \in Trajectories /\ s[2] \in Nat /\ s = <<s[1], s[2]>>
  BY <1>0 DEF SubmapIds
<1>12. DOMAIN states = DOMAIN submap_states
  BY <1>7
<1>13. ASSUME NEW s \in DOMAIN states
       PROVE  /\ states[s] \in [finished : BOOLEAN, node_ids : SUBSET NodeIds]
              /\ states[s].node_ids = submap_states[s].node_ids
              /\ states[s].finished <=> \/ submap_states[s].finished
                                        \/ scan.item.finished /\ s = front
  <2>1. s \in DOMAIN submap_states
    BY <1>12
  <2>2. submap_states[s] \in [finished : BOOLEAN, node_ids : SUBSET NodeIds]
    BY <2>1 DEF GraphOK
  <2>3. states[s] = IF scan.item.finished /\ s = front
                    THEN [submap_states[s] EXCEPT !.finished = TRUE] ELSE submap_states[s]
    BY <1>7, <2>1
  <2> QED
    BY <2>2, <2>3
<1>14. ASSUME NEW s \in DOMAIN states
       PROVE  states[s].finished <=> (s[2] + 2) * NumRangeData <= node_data[s[1]]
  <2>1. s \in DOMAIN submap_states /\ s \in SubmapIds
    BY <1>12 DEF GraphOK
  <2>2. submap_states[s].finished <=> (s[2] + 2) * NumRangeData <= Ended(s[1])
    BY <2>1 DEF GraphOK
  <2>3. CASE s[1] # t
    <3>1. Ended(s[1]) = node_data[s[1]]
      BY <1>10, <1>11, <2>1, <2>3
    <3>2. s # front
      BY <1>5, <1>6, <1>11, <2>1, <2>3
    <3> QED
      BY <1>13, <2>2, <3>1, <3>2
  <2>4. CASE s[1] = t
    <3>1. PICK j \in Nat : j = s[2]
      BY <1>11, <2>1
    <3>2. PICK i \in Nat : i = j + 2
      OBVIOUS
    <3>3. i * NumRangeData \in Int /\ b * NumRangeData \in Int /\ (b + 1) * NumRangeData \in Int
          /\ b \in Nat
      BY <1>0
    <3>4. i * NumRangeData = k + 1 <=> i = b + 1 /\ (b + 1) * NumRangeData = k + 1
      <4>1. IsBack(b, k) /\ b * NumRangeData < k + 1 /\ k + 1 <= (b + 1) * NumRangeData
        BY <1>5, <3>3 DEF IsBack
      <4>2. CASE i <= b
        <5>1. i * NumRangeData <= b * NumRangeData
          BY <3>3, <4>2, Multiples
        <5> QED
          BY <3>3, <4>1, <4>2, <5>1
      <4>3. CASE i > b + 1
        <5>1. PICK c \in Int : c = b + 1
          BY <3>3
        <5>2. c < i /\ c \in Int /\ i \in Int
          BY <4>3, <5>1
        <5>3. (c + 1) * NumRangeData <= i * NumRangeData
              /\ (c + 1) * NumRangeData = c * NumRangeData + NumRangeData
          BY <5>2, Multiples, Zenon
        <5>4. c * NumRangeData < i * NumRangeData
          BY <1>0, <3>3, <5>1, <5>3
        <5> QED
          BY <3>3, <4>1, <4>3, <5>1, <5>4
      <4>4. CASE i = b + 1
        BY <4>4
      <4> QED
        BY <3>3, <4>2, <4>3, <4>4
    <3>5. i * NumRangeData <= k + 1 <=> i * NumRangeData <= k \/ i * NumRangeData = k + 1
      BY <3>3
    <3>6. scan.item.finished /\ s = front <=> i = b + 1 /\ (b + 1) * NumRangeData = k + 1
      <4>1. s = <<t, j>>
        BY <1>11, <2>1, <2>4, <3>1
      <4>2. CASE b = 0
        <5>1. ~scan.item.finished
          BY <1>5, <4>2
        <5>2. i # b + 1
          BY <3>2, <4>2
        <5> QED
          BY <5>1, <5>2
      <4>3. CASE b # 0
        <5>1. scan.item.finished <=> k + 1 = (b + 1) * NumRangeData
          BY <1>5, <3>3, <4>3
        <5>2. s = front <=> j = b - 1
          BY <1>5, <1>6, <4>1, <4>3
        <5>3. j = b - 1 <=> i = b + 1
          BY <3>2, <3>3
        <5> QED
          BY <5>1, <5>2, <5>3
      <4> QED
        BY <4>2, <4>3
    <3>7. Ended(s[1]) = k /\ node_data[s[1]] = k + 1
      BY <1>4, <1>10, <2>4
    <3> QED
      BY <1>13, <2>2, <3>1, <3>2, <3>4, <3>5, <3>6, <3>7
  <2> QED
    BY <2>3, <2>4
<1>15. \A s \in DOMAIN states : Ended(s[1])' = node_data[s[1]]
  <2>1. DOMAIN states \subseteq SubmapIds
    BY <1>12 DEF GraphOK
  <2> QED
    BY <1>9, <1>11, <2>1
<1> QED
  <2>1. /\ submap_data' \in [Trajectories -> Nat]
        /\ \A u \in Trajectories :
              IF node_data'[u] = 0 THEN submap_data'[u] = 0
              ELSE /\ (submap_data'[u] - 1) * NumRangeData < node_data'[u]
                   /\ node_data'[u] <= submap_data'[u] * NumRangeData
    BY <1>1 DEF GraphOK
  <2>2. DOMAIN submap_states' =
           {s \in SubmapIds : s[2] * NumRangeData < Len(trajectory_nodes'[s[1]])}
    BY <1>1, <1>8, <1>12 DEF GraphOK
  <2>3. \A s \in DOMAIN states, n \in NodeIds :
           n \in states[s].node_ids <=>
              n[1] = s[1] /\ Inserts(s[2], n[2]) /\ n[2] < node_data'[n[1]]
    BY <1>1, <1>12, <1>13 DEF GraphOK
  <2> QED
    BY <1>1, <1>8, <1>13, <1>14, <1>15, <2>1, <2>2, <2>3 DEF GraphOK

LEMMA GraphKept ==
    ASSUME PlacesOK, CallsOK, ScanOK, QueueOK, OneOwner, CountsOK, BacklogOK, IssuedIsLast,
           ItemsOK, SubmapsOK, GraphOK, [Next]_vars
    PROVE  GraphOK'
<1>1. ASSUME NEW th \in Threads, BeginScan(th) PROVE GraphOK'
  BY <1>1, ScanKept, BeginGraph
<1>2. ASSUME NEW th \in Threads, EndScan(th) PROVE GraphOK'
  BY <1>2, EndGraph
<1>3. CASE AppendScan
  BY <1>3, AppendGraph
<1>4. CASE /\ ~AppendScan /\ ~ (\E th \in Threads : BeginScan(th) \/ EndScan(th))
  <2>1. UNCHANGED <<submap_states, submap_data, node_data>>
    BY <1>4, StatesSteps
  <2>2. \A t \in Trajectories : Len(trajectory_nodes'[t]) = Len(trajectory_nodes[t])
    BY <1>4, PoseCounts
  <2>3. \A t \in Trajectories : Issuing(t)' <=> Issuing(t)
    BY <1>4, IssuingSteps
  <2>4. \A t \in Trajectories : Ended(t)' = Ended(t)
    BY <2>1, <2>3 DEF Ended
  <2>5. \A s \in SubmapIds : s[1] \in Trajectories
    BY DEF SubmapIds
  <2>6. DOMAIN submap_states' =
           {s \in SubmapIds : s[2] * NumRangeData < Len(trajectory_nodes'[s[1]])}
    <3>1. \A s \in SubmapIds : Len(trajectory_nodes'[s[1]]) = Len(trajectory_nodes[s[1]])
      BY <2>2, <2>5
    <3>2. DOMAIN submap_states =
             {s \in SubmapIds : s[2] * NumRangeData < Len(trajectory_nodes[s[1]])}
      BY DEF GraphOK
    <3> QED
      BY <2>1, <3>1, <3>2
  <2>7. DOMAIN submap_states \subseteq SubmapIds
    BY DEF GraphOK
  <2>8. \A s \in DOMAIN submap_states : Ended(s[1])' = Ended(s[1])
    BY <2>4, <2>5, <2>7
  <2> QED
    BY <2>1, <2>6, <2>8 DEF GraphOK
<1> QED
  BY <1>1, <1>2, <1>3, <1>4
-----------------------------------------------------------------------------
(* The invariant.                                                           *)

GraphInv == /\ ThreadInv
            /\ CountsOK
            /\ BacklogOK
            /\ IssuedIsLast
            /\ ItemsOK
            /\ SubmapsOK
            /\ GraphOK

LEMMA InitialGraph ==
    ASSUME Init
    PROVE  GraphInv
<1>0. /\ NumRangeData \in Nat \ {0} /\ MaxNodes \in Nat \ {0}
      /\ \A w \in Workers : w # Main /\ w \in Threads
      /\ Main \in Threads /\ Free \notin Threads
      /\ None \notin Queues
      /\ CBP!ConstantsOK
  BY BoundsAssumption, ThreadsAssumption, QueueIsThere, BuilderAssumption, BuilderDefs
     DEF BoundsAssumption, ThreadsAssumption, Threads, BuilderAssumption
<1>1. CBP!BuilderInv
  BY <1>0, BuilderDefs, CBP!InitialInv DEF CBP!InitialInv, Init
<1>2. /\ pc = [th \in Threads |-> IF th = Main THEN "idle" ELSE "pool"]
      /\ mutex = Free /\ scan_queue = None /\ run_loop_closure = FALSE
      /\ incoming = None /\ scan = None
      /\ submaps = [t \in Trajectories |-> SM!InitialSubmaps]
      /\ submap_states = <<>>
      /\ trajectory_nodes = [t \in Trajectories |-> <<>>]
      /\ node_data = [t \in Trajectories |-> 0]
      /\ submap_data = [t \in Trajectories |-> 0]
      /\ frame = [t \in Trajectories |-> 0]
      /\ call = [w \in Workers |-> None]
      /\ when_done = None
  BY DEF Init, CB!Init
<1>3. \A th \in Threads : pc[th] = IF th = Main THEN "idle" ELSE "pool"
  BY <1>2
<1>4. PlacesOK
  BY <1>0, <1>2, <1>3 DEF PlacesOK, MainPlaces, WorkerPlaces, Places, Locked, Inside
<1>5. CallsOK /\ ScanOK /\ QueueOK
  BY <1>0, <1>2, <1>3 DEF CallsOK, ScanOK, QueueOK, Inside
<1>6. OneOwner
  <2>1. ~Registered
    <3>1. None \notin {"loop_closure", "final"}
      BY <1>0, CBP!Nulls DEF CBP!Nulls
    <3> QED
      BY <1>2, <3>1 DEF Registered
  <2>2. \A th \in Threads : ~Works(th)
    BY <1>0, <1>2, <1>3 DEF Works
  <2> QED
    BY <1>2, <2>1, <2>2 DEF OneOwner
<1>7. Len(<<>>) = 0 /\ <<>> \in Seq(Nat)
  OBVIOUS
<1>8. CountsOK
  BY <1>0, <1>2, <1>7 DEF CountsOK
<1>9. Backlog = <<>>
  BY <1>0, <1>2, <1>3 DEF Backlog
<1>10. BacklogOK /\ ItemsOK
  BY <1>2, <1>7, <1>9 DEF BacklogOK, ItemsOK, InLine
<1>11. IssuedIsLast
  BY <1>3 DEF IssuedIsLast
<1>12. Holding(SM!InitialSubmaps, 0)
  <2>1. SM!InitialSubmaps = <<SM!EmptySubmap>>
    BY DEF SM!InitialSubmaps, SM!AddSubmap
  <2>2. SM!EmptySubmap \in SM!Submap
    BY <1>0 DEF SM!EmptySubmap, SM!Submap
  <2>3. SM!InitialSubmaps \in Seq(SM!Submap) /\ Len(SM!InitialSubmaps) = 1
        /\ SM!InitialSubmaps[1] = SM!EmptySubmap
    BY <2>1, <2>2
  <2>4. IsBack(1 - 1, 0)
    BY <1>0 DEF IsBack
  <2>5. ~((1 + 1) * NumRangeData <= 0) /\ 0 - (1 - 1) * NumRangeData = 0
    BY <1>0
  <2>6. SM!EmptySubmap.finished = FALSE /\ SM!EmptySubmap.num_range_data = 0
    BY DEF SM!EmptySubmap
  <2>7. \A i \in 1..1 : i = 1
    OBVIOUS
  <2> QED
    BY <2>3, <2>4, <2>5, <2>6, <2>7 DEF Holding
<1>13. SubmapsOK
  <2>1. \A t \in Trajectories : Inserted(t) = 0 /\ submaps[t] = SM!InitialSubmaps
    BY <1>2, <1>7 DEF Inserted
  <2>2. SM!InitialSubmaps \in Seq(SM!Submap)
    BY <1>12 DEF Holding
  <2> QED
    BY <1>2, <1>12, <2>1, <2>2 DEF SubmapsOK
<1>14. GraphOK
  <2>1. \A s \in SubmapIds : ~(s[2] * NumRangeData < Len(trajectory_nodes[s[1]]))
    <3> SUFFICES ASSUME NEW s \in SubmapIds
                 PROVE  ~(s[2] * NumRangeData < Len(trajectory_nodes[s[1]]))
      OBVIOUS
    <3>1. s[1] \in Trajectories /\ s[2] \in Nat
      BY <1>0 DEF SubmapIds
    <3>2. PICK j \in Nat : j = s[2]
      BY <3>1
    <3>3. s[2] * NumRangeData >= 0
      BY <1>0, <3>2
    <3>4. Len(trajectory_nodes[s[1]]) = 0
      BY <1>2, <1>7, <3>1
    <3>5. PICK m \in Int : m = s[2] * NumRangeData
      BY <1>0, <3>2
    <3> QED
      BY <3>3, <3>4, <3>5
  <2>2. DOMAIN submap_states = {}
    BY <1>2
  <2>3. {s \in SubmapIds : s[2] * NumRangeData < Len(trajectory_nodes[s[1]])} = {}
    BY <2>1
  <2> QED
    BY <1>2, <2>2, <2>3 DEF GraphOK
<1> QED
  BY <1>1, <1>4, <1>5, <1>6, <1>8, <1>10, <1>11, <1>13, <1>14 DEF GraphInv, ThreadInv

\* As long as no CHECK fails.
LEMMA GraphInvKept ==
    ASSUME GraphInv, [Next]_vars, ~failed'
    PROVE  GraphInv'
<1> USE DEF GraphInv, ThreadInv
<1>0. CBP!TypeOK
  BY DEF CBP!BuilderInv
<1>1. PlacesOK'
  BY PlacesKept
<1>2. CallsOK'
  BY <1>0, CallsKept
<1>3. ScanOK'
  BY ScanKept
<1>4. QueueOK'
  BY QueueKept
<1>5. OneOwner'
  BY <1>0, OwnerKept
<1>6. CBP!BuilderInv'
  BY BuilderKept
<1>7. CountsOK' /\ BacklogOK'
  BY CountsKept, BacklogKept
<1>8. IssuedIsLast'
  BY IssuedKept
<1>9. ItemsOK' /\ SubmapsOK'
  BY ItemsKept, SubmapsKept
<1>10. GraphOK'
  BY GraphKept
<1> QED
  BY <1>1, <1>2, <1>3, <1>4, <1>5, <1>6, <1>7, <1>8, <1>9, <1>10

\* A failed CHECK ends the program.
LEMMA FailedIsFinal ==
    ASSUME failed, [Next]_vars
    PROVE  UNCHANGED vars
<1> USE DEF At
<1>1. ~MainCall
  BY DEF MainCall, AddScan, AddImuData, RunFinalOptimization
<1>2. \A th : ~Common(th)
  BY DEF Common, BeginScan, IssueConstraint, EndScan, RequestLoopClosure, HandleScanQueue,
     RunOptimization, PublishOptimization
<1>3. ~MainStep
  BY <1>2 DEF MainStep, AppendScan, WaitForAllComputations, AwaitNotification, Destroy
<1>4. \A w : ~CBP!Start(w) /\ ~CBP!ConstructSubmapScanMatcher(w) /\ ~CBP!FinishComputation(w)
             /\ ~CBP!ReturnFromCallback(w) /\ \A match : ~CBP!ComputeConstraint(w, match)
  BY DEF CBP!Start, CBP!ConstructSubmapScanMatcher, CBP!FinishComputation,
     CBP!ReturnFromCallback, CBP!ComputeConstraint
<1>5. \A w : ~BuilderStep(w) /\ ~ReturnFromCallback(w) /\ \A match : ~Match(w, match)
  BY <1>4, BuilderActions DEF BuilderStep, ReturnFromCallback, Match
<1>6. \A w : ~WorkerStep(w)
  BY <1>2, <1>5 DEF WorkerStep, EnterCallback, Resume, LeaveLoop, WorkOffQueue
<1> QED
  BY <1>1, <1>3, <1>6 DEF Next, Rest

LEMMA GraphInvariant == Spec => [](failed \/ GraphInv)
<1>1. Init => failed \/ GraphInv
  BY InitialGraph
<1>2. (failed \/ GraphInv) /\ [Next]_vars => (failed \/ GraphInv)'
  <2>1. failed /\ [Next]_vars => failed'
    BY FailedIsFinal DEF vars, builder
  <2> QED
    BY <2>1, GraphInvKept
<1> QED
  BY <1>1, <1>2, PTL DEF Spec
-----------------------------------------------------------------------------
(* The order of the work items.                                             *)

LEMMA Ordered ==
    ASSUME GraphInv
    PROVE  ItemsInOrder
<1> USE DEF GraphInv, ThreadInv
<1>1. NodeIdsMatch
  BY NextItem DEF NodeIdsMatch
<1>2. \A o : o \in Owners <=> \/ Registered /\ o = "when_done"
                              \/ o \in Threads /\ pc[o] = "register" /\ ~Registered
                              \/ /\ o \in Workers
                                 /\ call[o] # None /\ call[o].callback = "loop_closure"
                                 /\ pc[o] \notin {"register", "return"}
  BY DEF Owners, Registered
<1>3. \A w \in Workers : w \in Threads
  BY DEF Threads
<1>4. CASE scan_queue = None
  <2>1. \A o : o \notin Owners
    BY <1>2, <1>3, <1>4 DEF OneOwner, Works
  <2> QED
    BY <1>1, <1>4, <2>1 DEF ItemsInOrder, QueueHasOwner
<1>5. CASE scan_queue # None
  <2>1. CASE Registered
    <3>1. \A o : o \in Owners <=> o = "when_done"
      BY <1>2, <1>3, <2>1 DEF OneOwner, Works
    <3>2. Owners = {"when_done"}
      BY <3>1
    <3> QED
      BY <1>1, <1>5, <3>2, FS_Singleton DEF ItemsInOrder, QueueHasOwner
  <2>2. CASE ~Registered
    <3>1. PICK th \in Threads : Works(th)
      BY <1>5, <2>2 DEF OneOwner
    <3>2. \A a \in Threads : Works(a) => a = th
      BY <3>1 DEF OneOwner
    <3>3. \A o : o \in Owners <=> o = th
      BY <1>2, <1>3, <2>2, <3>1, <3>2 DEF Works
    <3>4. Owners = {th}
      BY <3>3
    <3> QED
      BY <1>1, <1>5, <3>4, FS_Singleton DEF ItemsInOrder, QueueHasOwner
  <2> QED
    BY <2>1, <2>2
<1> QED
  BY <1>4, <1>5
-----------------------------------------------------------------------------
(* The CHECKs.                                                              *)

\* Without RunFinalOptimization Main only adds data, and registers for nothing but the queue.
OnlyAdds == /\ pc[Main] \in Inside \cup {"idle", "append", "register"}
            /\ when_done # "final"
            /\ \A w \in Workers : call[w] # None => call[w].callback # "final"

LEMMA OnlyAddsKept ==
    ASSUME ~Finishes, PlacesOK, CallsOK, QueueOK, ScanOK, OnlyAdds, CBP!TypeOK, [Next]_vars
    PROVE  OnlyAdds'
<1> USE DEF Goto, At
<1>0. /\ Main \in Threads /\ pc \in [Threads -> MainPlaces \cup WorkerPlaces]
      /\ \A w \in Workers : w # Main
      /\ \A th \in Threads : th = Main \/ th \in Workers
      /\ None # "final"
  <2>1. None \notin {"loop_closure", "final"}
    BY BuilderAssumption, BuilderDefs, CBP!Nulls DEF BuilderAssumption, CBP!Nulls
  <2> QED
    BY <2>1, ThreadsAssumption DEF ThreadsAssumption, PlacesOK, Threads
<1>1. pc'[Main] \in Inside \cup {"idle", "append", "register"}
  <2>1. ASSUME NEW w \in Workers, NEW l, pc' = [pc EXCEPT ![w] = l] PROVE UNCHANGED pc[Main]
    BY <1>0, <2>1
  <2>2. ASSUME NEW l \in Inside \cup {"idle", "append", "register"}, pc' = [pc EXCEPT ![Main] = l]
        PROVE  pc'[Main] \in Inside \cup {"idle", "append", "register"}
    BY <1>0, <2>2
  <2>3. CASE UNCHANGED pc
    BY <2>3 DEF OnlyAdds
  <2>4. CASE AppendScan \/ \E t \in Trajectories : AddScan(t)
    <3>1. PICK l \in Inside \cup {"idle", "append"} : pc' = [pc EXCEPT ![Main] = l]
      BY <2>4 DEF AppendScan, AddScan, Inside
    <3> QED
      BY <2>2, <3>1
  <2>5. CASE AddImuData \/ UNCHANGED vars
    BY <2>3, <2>5 DEF AddImuData, vars
  <2>6. ~RunFinalOptimization /\ ~Destroy
    BY DEF RunFinalOptimization, Destroy, OnlyAdds, Inside
  <2>7. ASSUME NEW here \in {"wait_final", "wait_destroy", "await_final", "await_destroy"}, NEW next
        PROVE  ~WaitForAllComputations(here, next) /\ ~AwaitNotification(here, next)
    BY <2>7 DEF WaitForAllComputations, AwaitNotification, OnlyAdds, Inside
  <2>8. ~RunOptimization(Main) /\ ~PublishOptimization(Main)
    BY DEF RunOptimization, PublishOptimization, OnlyAdds, Inside
  <2>9. CASE \/ BeginScan(Main) \/ IssueConstraint(Main) \/ EndScan(Main)
             \/ RequestLoopClosure(Main) \/ HandleScanQueue(Main)
    <3>1. \/ UNCHANGED pc
          \/ \E l \in Inside \cup {"idle", "append", "register"} : pc' = [pc EXCEPT ![Main] = l]
      BY <2>9 DEF BeginScan, IssueConstraint, ComputeConstraint, EndScan, RequestLoopClosure,
         HandleScanQueue, ItemDone, Inside
    <3> QED
      BY <2>2, <2>3, <3>1
  <2>10. ASSUME NEW w \in Workers,
                \/ BeginScan(w) \/ IssueConstraint(w) \/ EndScan(w) \/ RequestLoopClosure(w)
                \/ HandleScanQueue(w) \/ RunOptimization(w) \/ PublishOptimization(w)
                \/ BuilderStep(w) \/ (\E match \in BOOLEAN : Match(w, match))
                \/ EnterCallback(w) \/ Resume(w) \/ LeaveLoop(w) \/ WorkOffQueue(w)
                \/ ReturnFromCallback(w)
         PROVE  UNCHANGED pc[Main]
    <3>1. UNCHANGED pc \/ \E l : pc' = [pc EXCEPT ![w] = l]
      BY <1>0, <2>10 DEF BeginScan, IssueConstraint, ComputeConstraint, EndScan,
         RequestLoopClosure, HandleScanQueue, ItemDone, RunOptimization, PublishOptimization,
         BuilderStep, Match, EnterCallback, Resume, LeaveLoop, WorkOffQueue, ReturnFromCallback
    <3> QED
      BY <2>1, <3>1
  <2> QED
    BY <1>0, <2>3, <2>4, <2>5, <2>6, <2>7, <2>8, <2>9, <2>10, Steps DEF OnlyAdds
<1>2. when_done' # "final"
  <2>1. CASE BuilderRests
    BY <2>1 DEF BuilderRests, builderButFailed, OnlyAdds
  <2>2. ASSUME NEW s \in SubmapIds, NEW n \in NodeIds, NEW g \in BOOLEAN,
               CBP!AddComputation(s, n, g)
        PROVE  UNCHANGED when_done
    BY <2>2 DEF CBP!AddComputation
  <2>3. CASE CBP!NotifyEndOfScan
    BY <2>3 DEF CBP!NotifyEndOfScan, OnlyAdds
  <2>4. ASSUME NEW w \in Workers,
               \/ CBP!Start(w) \/ CBP!ConstructSubmapScanMatcher(w)
               \/ (\E match \in BOOLEAN : CBP!ComputeConstraint(w, match))
               \/ CBP!FinishComputation(w) \/ CBP!ReturnFromCallback(w)
        PROVE  UNCHANGED when_done \/ when_done' = None
    BY <2>4 DEF CBP!Start, CBP!ConstructSubmapScanMatcher, CBP!ComputeConstraint,
       CBP!FinishComputation, CBP!ReturnFromCallback, CBP!clientvars
  <2>5. CASE CBP!WhenDone("loop_closure")
    BY <2>5 DEF CBP!WhenDone
  <2>6. pc[Main] \notin {"wait_final", "wait_destroy"}
    BY DEF OnlyAdds, Inside
  <2> QED
    BY <1>0, <2>1, <2>2, <2>3, <2>4, <2>5, <2>6, BuilderSteps DEF OnlyAdds
<1>3. \A w \in Workers : call'[w] # None => call'[w].callback # "final"
  <2>1. call \in [Workers -> CBP!Call \cup {None}]
    BY DEF CBP!TypeOK
  <2>2. CASE UNCHANGED call
    BY <2>2 DEF OnlyAdds
  <2>3. ASSUME NEW w \in Workers, BuilderStep(w)
        PROVE  \A v \in Workers : call'[v] # None => call'[v].callback # "final"
    <3>1. CASE /\ when_done \in {"loop_closure", "final"}
               /\ \E c \in CBP!Call : /\ c.callback = when_done
                                      /\ call' = [call EXCEPT ![w] = c]
      BY <2>1, <3>1 DEF OnlyAdds
    <3> QED
      BY <2>2, <2>3, <3>1, BuilderStepCalls
  <2>4. ASSUME NEW w \in Workers, ReturnFromCallback(w)
        PROVE  \A v \in Workers : call'[v] # None => call'[v].callback # "final"
    <3>1. call' = [call EXCEPT ![w] = None]
      BY <2>4, OtherCalls
    <3> QED
      BY <2>1, <3>1 DEF OnlyAdds
  <2> QED
    BY <2>2, <2>3, <2>4, OtherCalls, Steps
<1> QED
  BY <1>1, <1>2, <1>3 DEF OnlyAdds

\* Then no step fails a CHECK.
LEMMA NoFailure ==
    ASSUME ~Finishes, GraphInv, OnlyAdds, [Next]_vars
    PROVE  ~failed'
<1> USE DEF GraphInv, ThreadInv
<1>0. /\ ~failed /\ CBP!TypeOK /\ CBP!ConstantsOK
      /\ Main \in Threads
      /\ None # "loop_closure" /\ None # "final"
  <2>1. None \notin {"loop_closure", "final"}
    BY BuilderAssumption, BuilderDefs, CBP!Nulls DEF BuilderAssumption, CBP!Nulls
  <2> QED
    BY <2>1, BuilderAssumption, BuilderDefs
       DEF BuilderAssumption, CBP!BuilderInv, CBP!NoCheckFails, Threads
<1>1. CASE BuilderRests /\ UNCHANGED failed
  BY <1>0, <1>1
<1>2. ~Destroy
  BY DEF Destroy, At, OnlyAdds, Inside
<1>3. ASSUME NEW th \in Threads, BeginScan(th) PROVE ~failed'
  BY <1>3, BeginScanPasses
<1>4. ASSUME NEW th \in Threads, RequestLoopClosure(th) PROVE ~failed'
  BY <1>4 DEF RequestLoopClosure, At, QueueOK, Inside
<1>5. ASSUME NEW s \in SubmapIds, NEW n \in NodeIds, NEW g \in BOOLEAN,
             CBP!AddComputation(s, n, g)
      PROVE  ~failed'
  BY <1>5 DEF CBP!AddComputation
<1>6. CASE CBP!NotifyEndOfScan
  BY <1>6 DEF CBP!NotifyEndOfScan
<1>7. ASSUME NEW th \in Threads, HandleScanQueue(th), CBP!WhenDone("loop_closure")
      PROVE  ~failed'
  <2>1. Works(th)
    BY <1>7 DEF HandleScanQueue, At, Works
  <2>2. when_done = None
    BY <1>0, <2>1 DEF OneOwner, Registered, OnlyAdds, CBP!TypeOK
  <2> QED
    BY <1>7, <2>2 DEF CBP!WhenDone
<1>8. pc[Main] \notin {"wait_final", "wait_destroy"}
  BY DEF OnlyAdds, Inside
<1>9. ASSUME NEW w \in Workers, CBP!Start(w) \/ CBP!ConstructSubmapScanMatcher(w)
                                \/ CBP!ReturnFromCallback(w)
      PROVE  ~failed'
  BY <1>9 DEF CBP!Start, CBP!ConstructSubmapScanMatcher, CBP!ReturnFromCallback
<1>10. ASSUME NEW w \in Workers, NEW match \in BOOLEAN, CBP!ComputeConstraint(w, match)
       PROVE  ~failed'
  <2>1. CBP!BuilderInv'
    BY <1>0, <1>10, CBP!ComputeKeepsInv DEF CBP!ComputeKeepsInv
  <2> QED
    BY <2>1 DEF CBP!BuilderInv, CBP!NoCheckFails
<1>11. ASSUME NEW w \in Workers, CBP!FinishComputation(w) PROVE ~failed'
  <2>1. CBP!BuilderInv'
    BY <1>0, <1>11, CBP!FinishKeepsInv DEF CBP!FinishKeepsInv
  <2> QED
    BY <2>1 DEF CBP!BuilderInv, CBP!NoCheckFails
<1> QED
  BY <1>0, <1>1, <1>2, <1>3, <1>4, <1>5, <1>6, <1>7, <1>8, <1>9, <1>10, <1>11, BuilderSteps
     DEF Checks

LEMMA AddingInvariant ==
    ASSUME ~Finishes
    PROVE  Spec => [](GraphInv /\ OnlyAdds)
<1>1. Init => GraphInv /\ OnlyAdds
  <2>1. SUFFICES ASSUME Init PROVE OnlyAdds
    BY InitialGraph
  <2>2. None \notin {"loop_closure", "final"}
    BY BuilderAssumption, BuilderDefs, CBP!Nulls DEF BuilderAssumption, CBP!Nulls
  <2> QED
    BY <2>1, <2>2 DEF Init, CB!Init, OnlyAdds, Threads
<1>2. GraphInv /\ OnlyAdds /\ [Next]_vars => (GraphInv /\ OnlyAdds)'
  <2> SUFFICES ASSUME GraphInv, OnlyAdds, [Next]_vars PROVE GraphInv' /\ OnlyAdds'
    OBVIOUS
  <2>1. GraphInv'
    BY NoFailure, GraphInvKept
  <2>2. OnlyAdds'
    BY OnlyAddsKept DEF GraphInv, ThreadInv, CBP!BuilderInv
  <2> QED
    BY <2>1, <2>2
<1> QED
  BY <1>1, <1>2, PTL DEF Spec

\* sparse_pose_graph.cc:76, 233, 252, 261, 271; constraint_builder.cc:114, 157, 254: as long as
\* RunFinalOptimization is not called no CHECK fails: scans go into submaps that are not
\* finished, matches find their matcher, no loop closure is requested twice, and a callback
\* is registered only when there is none.
THEOREM ChecksPass == ~Finishes => (Spec => []NoCheckFails)
<1>1. ASSUME ~Finishes PROVE Spec => []NoCheckFails
  <2>1. GraphInv /\ OnlyAdds => NoCheckFails
    BY DEF GraphInv, ThreadInv, CBP!BuilderInv, CBP!NoCheckFails, NoCheckFails
  <2> QED
    BY <1>1, <2>1, AddingInvariant, PTL
<1> QED
  BY <1>1
\* sparse_pose_graph.cc:139-150, 256-279: as long as no CHECK fails, in particular as long as
\* RunFinalOptimization is not called, the queue has one thread that works it off, and a
\* scan gets the node id in the optimization problem that it got when it was added, whether
\* it is processed at once or from the queue.
THEOREM WorkedOffInOrder ==
    /\ Spec => [](NoCheckFails => ItemsInOrder)
    /\ ~Finishes => (Spec => []ItemsInOrder)
<1>1. failed \/ GraphInv => (NoCheckFails => ItemsInOrder)
  BY Ordered DEF NoCheckFails
<1>2. Spec => [](NoCheckFails => ItemsInOrder)
  BY <1>1, GraphInvariant, PTL
<1>3. ASSUME ~Finishes PROVE Spec => []ItemsInOrder
  BY <1>2, <1>3, ChecksPass, PTL
<1> QED
  BY <1>2, <1>3
-----------------------------------------------------------------------------
(* The optimization.                                                        *)

\* Only one thread optimizes, and while it does nobody else runs a callback or a scan.
LEMMA SolvingAlone ==
    ASSUME GraphInv, OnlyAdds, NEW th \in Threads, pc[th] = "solve"
    PROVE  /\ scan_queue # None
           /\ \A a \in Threads : Works(a) => a = th
           /\ \A a \in Threads : pc[a] \in Inside \cup {"drain", "solve"} => a = th
           /\ \A w \in Workers : call[w] # None /\ pc[w] = "pool" => w = th
<1> USE DEF GraphInv, ThreadInv
<1>0. /\ CBP!TypeOK /\ CBP!ConstantsOK
      /\ \A w \in Workers : w # Main /\ w \in Threads
      /\ \A a \in Threads : a = Main \/ a \in Workers
  BY BuilderAssumption, BuilderDefs, ThreadsAssumption
     DEF BuilderAssumption, ThreadsAssumption, Threads, CBP!BuilderInv
<1>1. th \in Workers
  BY <1>0 DEF OnlyAdds, Inside
<1>2. Works(th)
  BY <1>1 DEF Works, CallsOK
<1>3. scan_queue # None /\ \A a \in Threads : Works(a) => a = th
  BY <1>2 DEF OneOwner
<1>4. ASSUME NEW a \in Threads, pc[a] \in Inside \cup {"drain", "solve"} PROVE a = th
  <2>1. a \in Workers
    BY <1>0, <1>3, <1>4 DEF QueueOK, PlacesOK, MainPlaces, Places, Locked, Inside, OnlyAdds
  <2>2. Works(a)
    BY <1>4, <2>1 DEF Works, CallsOK, Inside
  <2> QED
    BY <1>3, <2>2
<1>5. ASSUME NEW w \in Workers, call[w] # None, pc[w] = "pool" PROVE w = th
  <2>1. call[w].callback = "loop_closure"
    BY <1>0, <1>5, CallFields DEF OnlyAdds
  <2>2. Works(w)
    BY <1>5, <2>1 DEF Works
  <2> QED
    BY <1>0, <1>3, <2>2
<1> QED
  BY <1>3, <1>4, <1>5

LEMMA SolvingUndisturbed ==
    ASSUME GraphInv, OnlyAdds, [Next]_vars,
           NEW th \in Threads, pc[th] = "solve", pc'[th] = "solve"
    PROVE  UNCHANGED <<problem, constraints>>
<1> USE SolvingAlone DEF Goto, At
<1>1. \A w \in Workers : w \in Threads
  BY DEF Threads
<1>2. CASE \/ \E t \in Trajectories : AddScan(t)
           \/ AppendScan \/ RunFinalOptimization \/ Destroy
           \/ UNCHANGED vars
  BY <1>2 DEF AddScan, AppendScan, RunFinalOptimization, Destroy, vars, problem
<1>3. CASE AddImuData
  BY <1>3 DEF AddImuData, problem
<1>4. ASSUME NEW here, NEW next,
             WaitForAllComputations(here, next) \/ AwaitNotification(here, next)
      PROVE  UNCHANGED <<problem, constraints>>
  BY <1>4 DEF WaitForAllComputations, AwaitNotification
<1>5. ASSUME NEW a \in Threads, BeginScan(a) PROVE FALSE
  BY <1>5 DEF BeginScan, Inside
<1>6. ASSUME NEW a \in Threads,
             \/ IssueConstraint(a) \/ EndScan(a) \/ RequestLoopClosure(a) \/ HandleScanQueue(a)
             \/ RunOptimization(a) \/ PublishOptimization(a)
      PROVE  UNCHANGED <<problem, constraints>>
  BY <1>6 DEF IssueConstraint, ComputeConstraint, EndScan, RequestLoopClosure, HandleScanQueue,
     RunOptimization, PublishOptimization
<1>7. ASSUME NEW w \in Workers,
             \/ BuilderStep(w) \/ (\E match \in BOOLEAN : Match(w, match)) \/ Resume(w)
             \/ LeaveLoop(w) \/ ReturnFromCallback(w)
      PROVE  UNCHANGED <<problem, constraints>>
  BY <1>7 DEF BuilderStep, Match, Resume, LeaveLoop, ReturnFromCallback
<1>8. ASSUME NEW w \in Workers, EnterCallback(w) PROVE FALSE
  BY <1>1, <1>8 DEF EnterCallback
<1>9. ASSUME NEW w \in Workers, WorkOffQueue(w) PROVE FALSE
  BY <1>1, <1>9 DEF WorkOffQueue
<1> QED
  BY <1>2, <1>3, <1>4, <1>5, <1>6, <1>7, <1>8, <1>9, Steps

\* sparse_pose_graph.h:145-146, sparse_pose_graph.cc:335-338: as long as RunFinalOptimization is
\* not called one optimization is run at a time, and while Solve runs without the lock
\* nobody changes what it reads, neither the threads that add data nor the matchers.
THEOREM SolvedUndisturbed ==
    /\ ~Finishes => (Spec => SolveUndisturbed)
    /\ ~Finishes => (Spec => []OneOptimization)
<1>1. ASSUME ~Finishes PROVE Spec => SolveUndisturbed
  <2>1. GraphInv /\ OnlyAdds /\ [Next]_vars =>
           [(\E th \in Threads : pc[th] = "solve" /\ pc'[th] = "solve")
               => UNCHANGED <<problem, constraints>>]_vars
    BY SolvingUndisturbed
  <2> QED
    BY <1>1, <2>1, AddingInvariant, PTL DEF Spec, SolveUndisturbed
<1>2. ASSUME ~Finishes PROVE Spec => []OneOptimization
  <2>1. GraphInv /\ OnlyAdds => OneOptimization
    <3> SUFFICES ASSUME GraphInv, OnlyAdds PROVE OneOptimization
      OBVIOUS
    <3>1. CASE \A th \in Threads : pc[th] # "solve"
      <4>1. {th \in Threads : pc[th] = "solve"} = {}
        BY <3>1
      <4> QED
        BY <4>1, FS_EmptySet DEF OneOptimization
    <3>2. ASSUME NEW th \in Threads, pc[th] = "solve" PROVE OneOptimization
      <4>1. {a \in Threads : pc[a] = "solve"} = {th}
        BY <3>2, SolvingAlone
      <4>2. Cardinality({th}) = 1
        BY FS_Singleton
      <4> QED
        BY <4>1, <4>2 DEF OneOptimization
    <3> QED
      BY <3>1, <3>2
  <2> QED
    BY <1>2, <2>1, AddingInvariant, PTL
<1> QED
  BY <1>1, <1>2
-----------------------------------------------------------------------------
(* The pairs to match.                                                      *)

Todo == IF scan = None THEN {} ELSE scan.todo

\* The submap is finished, or will be when the scan is done.
Due(s) == \/ submap_states[s].finished
          \/ /\ \E th \in Threads : pc[th] = "issue"
             /\ scan.item.finished
             /\ s = FrontSubmap(scan.item)

\* A node that was not inserted into a submap is matched with it, once the submap is due.
PairsOK ==
    /\ considered \subseteq NodeIds \X SubmapIds
    /\ Todo \cap considered = {}
    /\ \A n \in NodeIds, s \in SubmapIds :
          <<n, s>> \in considered \cup Todo <=> /\ n[2] < node_data[n[1]]
                                                /\ s \in DOMAIN submap_states
                                                /\ Due(s)
                                                /\ n \notin submap_states[s].node_ids

LEMMA TodoType ==
    ASSUME ScanOK
    PROVE  /\ Todo \subseteq NodeIds \X SubmapIds
           /\ (\A th \in Threads : pc[th] # "issue") => Todo = {}
           /\ \A th \in Threads : pc[th] = "issue" => scan # None /\ scan \in Scans /\ Todo = scan.todo
BY ScanFields DEF ScanOK, Todo, Inside

LEMMA TodoTypeAfter ==
    ASSUME ScanOK'
    PROVE  (\A th \in Threads : pc'[th] # "issue") => Todo' = {}
BY DEF ScanOK, Todo

LEMMA ConsideredSteps ==
    ASSUME [Next]_vars
    PROVE  (\E th \in Threads : IssueConstraint(th)) \/ UNCHANGED considered
<1>1. ASSUME NEW t \in Trajectories, AddScan(t) PROVE UNCHANGED considered
  BY <1>1 DEF AddScan, history
<1>2. CASE AppendScan \/ AddImuData \/ RunFinalOptimization \/ Destroy \/ UNCHANGED vars
  BY <1>2 DEF AppendScan, AddImuData, RunFinalOptimization, Destroy, vars, history
<1>3. ASSUME NEW here, NEW next, WaitForAllComputations(here, next) \/ AwaitNotification(here, next)
      PROVE  UNCHANGED considered
  BY <1>3 DEF WaitForAllComputations, AwaitNotification, history
<1>4. ASSUME NEW th \in Threads,
             \/ BeginScan(th) \/ EndScan(th) \/ RequestLoopClosure(th)
             \/ HandleScanQueue(th) \/ RunOptimization(th) \/ PublishOptimization(th)
      PROVE  UNCHANGED considered
  BY <1>4 DEF BeginScan, EndScan, RequestLoopClosure,
     HandleScanQueue, RunOptimization, PublishOptimization, history
<1>5. ASSUME NEW w \in Workers,
             \/ BuilderStep(w) \/ (\E match \in BOOLEAN : Match(w, match)) \/ EnterCallback(w)
             \/ Resume(w) \/ LeaveLoop(w) \/ WorkOffQueue(w) \/ ReturnFromCallback(w)
      PROVE  UNCHANGED considered
  BY <1>5 DEF BuilderStep, Match, EnterCallback, Resume, LeaveLoop, WorkOffQueue,
     ReturnFromCallback, history
<1> QED
  BY <1>1, <1>2, <1>3, <1>4, <1>5, Steps

\* Which thread issues after a step.
LEMMA IssuerAfter ==
    ASSUME PlacesOK
    PROVE  /\ AppendScan => /\ \A a \in Threads : pc[a] # "issue"
                            /\ \A a \in Threads : pc'[a] # "issue"
           /\ \A th \in Threads : EndScan(th) => \A a \in Threads : pc'[a] # "issue"
           /\ \A th \in Threads : BeginScan(th) =>
                 /\ \A a \in Threads : pc[a] # "issue"
                 /\ pc'[th] = "issue"
<1>1. ASSUME AppendScan
      PROVE  \A a \in Threads : pc[a] # "issue" /\ pc'[a] # "issue"
  <2>1. \A a \in Threads : pc[a] # "issue"
    BY <1>1, OneInside DEF AppendScan, Locked, Inside
  <2>2. PICK l \in {"begin", "idle"} : pc' = [pc EXCEPT ![Main] = l]
    BY <1>1 DEF AppendScan, Goto
  <2> QED
    BY <2>1, <2>2 DEF PlacesOK
<1>2. ASSUME NEW th \in Threads, EndScan(th) PROVE \A a \in Threads : pc'[a] # "issue"
  <2>1. \A a \in Threads : a # th => pc[a] # "issue"
    BY <1>2, OneInside DEF EndScan, At, Locked, Inside
  <2>2. PICK l \in {"close", "idle", "drain"} : pc' = [pc EXCEPT ![th] = l]
    BY <1>2 DEF EndScan, ItemDone, Goto
  <2> QED
    BY <2>1, <2>2 DEF PlacesOK
<1>3. ASSUME NEW th \in Threads, BeginScan(th)
      PROVE  (\A a \in Threads : pc[a] # "issue") /\ pc'[th] = "issue"
  <2>1. pc[th] = "begin" /\ pc' = [pc EXCEPT ![th] = "issue"]
    BY <1>3, BeginScanIs
  <2> QED
    BY <2>1, OneInside DEF PlacesOK, Locked, Inside
<1> QED
  BY <1>1, <1>2, <1>3

LEMMA AppendPairs ==
    ASSUME PlacesOK, ScanOK, ScanOK', GraphOK, PairsOK, AppendScan
    PROVE  PairsOK'
<1>1. /\ UNCHANGED <<considered, node_data>>
      /\ \A th \in Threads : pc[th] # "issue" /\ pc'[th] # "issue"
      /\ Todo = {} /\ Todo' = {}
  <2>1. UNCHANGED <<considered, node_data>>
    BY DEF AppendScan, history, problem
  <2> QED
    BY <2>1, IssuerAfter, TodoType, TodoTypeAfter
<1>2. PICK known, back :
         /\ known = DOMAIN submap_states
         /\ submap_states' = [s \in known \cup {back} |->
                                IF s \in known THEN submap_states[s]
                                ELSE [finished |-> FALSE, node_ids |-> {}]]
  BY DEF AppendScan
<1>3. ASSUME NEW n \in NodeIds, NEW s \in SubmapIds
      PROVE  /\ s \in DOMAIN submap_states /\ submap_states[s].finished
                   /\ n \notin submap_states[s].node_ids
                <=> s \in DOMAIN submap_states' /\ submap_states'[s].finished
                   /\ n \notin submap_states'[s].node_ids
  <2>1. CASE s \in known
    BY <1>2, <2>1
  <2>2. CASE s \notin known /\ s = back
    BY <1>2, <2>2
  <2>3. CASE s \notin known /\ s # back
    BY <1>2, <2>3
  <2> QED
    BY <2>1, <2>2, <2>3
<1>4. \A s : (Due(s) <=> submap_states[s].finished) /\ (Due(s)' <=> submap_states'[s].finished)
  BY <1>1 DEF Due
<1> QED
  BY <1>1, <1>3, <1>4 DEF PairsOK

\* A scan brings the pairs of its node with the finished submaps, and those of the submap
\* it finishes with all nodes that are not in it.
LEMMA BeginPairs ==
    ASSUME PlacesOK, ScanOK, QueueOK, CountsOK, BacklogOK, ItemsOK, GraphOK, PairsOK,
           NEW th \in Threads, BeginScan(th), ScanOK', CountsOK'
    PROVE  PairsOK'
<1>1. /\ pc[th] = "begin"
      /\ scan' = [scan EXCEPT !.todo = BegunTodo]
      /\ submap_states' = BegunStates
      /\ node_data' = [node_data EXCEPT ![scan.item.trajectory] = @ + 1]
      /\ UNCHANGED considered
  BY BeginScanIs
<1>2. PICK t \in Trajectories, k \in Nat :
         /\ t = scan.item.trajectory /\ k = node_data[t]
         /\ BegunNode = <<t, k>> /\ BegunNode \in NodeIds
  BY <1>1, BeginGeometry
<1>3. scan \in Scans /\ scan.item \in ScanItems /\ ItemOK(scan.item) /\ BegunTodo \subseteq NodeIds \X SubmapIds
  BY <1>1, BegunTodoType, ScanFields
<1>4. scan' # None /\ scan'.item = scan.item /\ Todo' = BegunTodo
  <2>1. scan' \in Scans /\ scan'.item = scan.item /\ scan'.todo = BegunTodo
    BY <1>1, <1>3, ScanFields
  <2> QED
    BY <2>1, NullAssumption DEF NullAssumption, Todo
<1>5. PICK front : front = FrontSubmap(scan.item)
  OBVIOUS
<1>6. front \in SubmapIds
  BY <1>3, <1>5, ItemGeometry
<1>7. scan.item.finished => front \in scan.item.insertion
  <2>1. PICK b \in 0..MaxNodes :
              /\ IsBack(b, scan.item.index)
              /\ FrontSubmap(scan.item) = <<scan.item.trajectory, IF b = 0 THEN 0 ELSE b - 1>>
              /\ \A s \in SubmapIds :
                    s \in scan.item.insertion <=>
                       s[1] = scan.item.trajectory /\ Inserts(s[2], scan.item.index)
              /\ scan.item.finished <=> b > 0 /\ scan.item.index + 1 = (b + 1) * NumRangeData
    BY <1>3, ItemGeometry
  <2>2. CASE b > 0
    <3>1. PICK j \in Nat, m \in Nat : j = b - 1 /\ m = scan.item.index
      BY <1>3, <2>2, BoundsAssumption, ItemKinds DEF BoundsAssumption
    <3>2. Inserts(j, m)
      <4>1. /\ j + 1 = b /\ j + 2 = b + 1
            /\ NumRangeData \in Nat
        BY <3>1, BoundsAssumption DEF BoundsAssumption
      <4>2. j * NumRangeData \in Int /\ (j + 1) * NumRangeData = j * NumRangeData + NumRangeData
        BY <3>1, <4>1
      <4>3. b * NumRangeData <= m /\ m < (b + 1) * NumRangeData
        BY <2>1, <3>1 DEF IsBack
      <4>4. b * NumRangeData = j * NumRangeData + NumRangeData
        BY <4>1, <4>2
      <4>5. PICK x \in Int : x = j * NumRangeData
        BY <4>2
      <4>6. x <= m
        BY <3>1, <4>1, <4>3, <4>4, <4>5
      <4>7. m < (j + 2) * NumRangeData
        BY <4>1, <4>3
      <4> QED
        BY <4>5, <4>6, <4>7 DEF Inserts
    <3>3. front = <<scan.item.trajectory, j>>
      BY <1>5, <2>1, <2>2, <3>1
    <3> QED
      BY <1>6, <2>1, <3>1, <3>2, <3>3
  <2> QED
    BY <2>1, <2>2
<1>8. /\ \A s \in scan.item.insertion :
            s \in DOMAIN submap_states /\ submap_states[s].finished = FALSE
      /\ \A s \in BegunFinished : BegunNode \notin BegunStates[s].node_ids
  BY BeginScanPasses
<1>9. \A a \in Threads : pc[a] # "issue"
  BY IssuerAfter
<1>10. Todo = {} /\ \A s : Due(s) <=> submap_states[s].finished
  BY <1>9, TodoType DEF Due
<1>11. \A s : Due(s)' <=> BegunStates[s].finished \/ (scan.item.finished /\ s = front)
  BY <1>1, <1>4, <1>5, IssuerAfter DEF Due
<1>12. ASSUME NEW n \in NodeIds
       PROVE  n[2] < node_data'[n[1]] <=> n = BegunNode \/ n[2] < node_data[n[1]]
  <2>1. n[1] \in Trajectories /\ n[2] \in Int /\ n = <<n[1], n[2]>>
    BY DEF NodeIds
  <2>2. node_data \in [Trajectories -> Nat]
    BY DEF CountsOK
  <2>3. CASE n[1] = t
    <3>1. node_data'[n[1]] = k + 1 /\ node_data[n[1]] = k
      BY <1>1, <1>2, <2>2, <2>3
    <3>2. n = BegunNode <=> n[2] = k
      BY <1>2, <2>1, <2>3
    <3> QED
      BY <2>1, <3>1, <3>2
  <2>4. CASE n[1] # t
    BY <1>1, <1>2, <2>1, <2>2, <2>4
  <2> QED
    BY <2>3, <2>4
<1>13. ~ (BegunNode[2] < node_data[BegunNode[1]])
  BY <1>2
<1>14. ASSUME NEW n \in NodeIds, NEW s \in SubmapIds
       PROVE  <<n, s>> \in considered <=> /\ n[2] < node_data[n[1]]
                                          /\ s \in DOMAIN submap_states
                                          /\ submap_states[s].finished
                                          /\ n \notin submap_states[s].node_ids
  BY <1>10 DEF PairsOK
<1>15. ASSUME NEW n \in NodeIds, NEW s \in SubmapIds
       PROVE  <<n, s>> \in BegunTodo <=>
                 \/ n = BegunNode /\ s \in BegunFinished
                 \/ /\ scan.item.finished /\ s = front
                    /\ n = BegunNode \/ n[2] < node_data[n[1]]
                    /\ n \notin BegunStates[front].node_ids
  <2>1. n \in BegunNodes <=> n = BegunNode \/ n[2] < node_data[n[1]]
    BY DEF BegunNodes
  <2>2. CASE scan.item.finished
    BY <1>5, <2>1, <2>2 DEF BegunTodo, OldScans
  <2>3. CASE ~scan.item.finished
    BY <2>3 DEF BegunTodo
  <2> QED
    BY <2>2, <2>3
<1>16. ASSUME NEW n \in NodeIds, NEW s \in SubmapIds
       PROVE  /\ ~ (<<n, s>> \in BegunTodo /\ <<n, s>> \in considered)
              /\ <<n, s>> \in considered \cup BegunTodo <=>
                    /\ n[2] < node_data'[n[1]]
                    /\ s \in DOMAIN BegunStates
                    /\ BegunStates[s].finished \/ (scan.item.finished /\ s = front)
                    /\ n \notin BegunStates[s].node_ids
  <2>1. DOMAIN BegunStates = DOMAIN submap_states
    BY DEF BegunStates
  <2>2. s \in DOMAIN submap_states =>
           /\ BegunStates[s].finished = submap_states[s].finished
           /\ BegunStates[s].finished \in BOOLEAN
           /\ n \in BegunStates[s].node_ids <=>
                 n \in submap_states[s].node_ids \/ (n = BegunNode /\ s \in scan.item.insertion)
    BY <1>2, BegunState
  <2>3. s \in BegunFinished <=> s \in DOMAIN submap_states /\ BegunStates[s].finished
    BY <2>1 DEF BegunFinished
  <2>4. CASE s \in BegunFinished
    <3>1. s \notin scan.item.insertion /\ BegunNode \notin BegunStates[s].node_ids
      BY <1>8, <2>2, <2>3, <2>4
    <3>2. ~ (scan.item.finished /\ s = front)
      BY <1>7, <3>1
    <3> QED
      BY <1>12, <1>13, <1>14, <1>15, <2>1, <2>2, <2>3, <2>4, <3>1, <3>2
  <2>5. CASE s \notin BegunFinished /\ scan.item.finished /\ s = front
    <3>1. s \in DOMAIN submap_states /\ ~submap_states[s].finished
      BY <1>7, <1>8, <2>5
    <3> QED
      BY <1>12, <1>13, <1>14, <1>15, <2>1, <2>2, <2>3, <2>5, <3>1
  <2>6. CASE s \notin BegunFinished /\ ~ (scan.item.finished /\ s = front)
    BY <1>12, <1>13, <1>14, <1>15, <2>1, <2>2, <2>3, <2>6
  <2> QED
    BY <2>4, <2>5, <2>6
<1>17. BegunTodo \cap considered = {}
  BY <1>3, <1>16
<1> QED
  BY <1>1, <1>4, <1>11, <1>16, <1>17 DEF PairsOK

LEMMA IssuePairs ==
    ASSUME PlacesOK, ScanOK, PairsOK, NEW th \in Threads, IssueConstraint(th)
    PROVE  PairsOK'
<1>1. PICK pair \in scan.todo :
         /\ pc[th] = "issue" /\ scan' = [scan EXCEPT !.todo = scan.todo \ {pair}]
         /\ considered' = considered \cup {pair}
         /\ UNCHANGED <<pc, submap_states, node_data>>
  BY DEF IssueConstraint, ComputeConstraint, At, problem
<1>2. scan \in Scans /\ scan # None /\ Todo = scan.todo /\ Todo \subseteq NodeIds \X SubmapIds
  BY <1>1, TodoType
<1>3. PICK todo \in SUBSET (NodeIds \X SubmapIds) : todo = scan.todo \ {pair}
  BY <1>2
<1>4. scan' \in Scans /\ scan'.item = scan.item /\ scan'.todo = todo
  BY <1>1, <1>2, <1>3, ScanFields
<1>5. scan' # None /\ Todo' = todo
  BY <1>4, NullAssumption DEF NullAssumption, Todo
<1>6. \A s : Due(s)' <=> Due(s)
  BY <1>1, <1>4 DEF Due
<1>7. considered' \cup todo = considered \cup Todo
  BY <1>1, <1>2, <1>3
<1>8. considered' \subseteq NodeIds \X SubmapIds /\ todo \cap considered' = {}
  BY <1>1, <1>2, <1>3 DEF PairsOK
<1> QED
  BY <1>1, <1>5, <1>6, <1>7, <1>8 DEF PairsOK

LEMMA EndPairs ==
    ASSUME PlacesOK, ScanOK, ScanOK', GraphOK, PairsOK, NEW th \in Threads, EndScan(th)
    PROVE  PairsOK'
<1>1. /\ pc[th] = "issue" /\ scan.todo = {}
      /\ UNCHANGED <<considered, node_data>>
  BY DEF EndScan, At, history, problem
<1>2. Todo = {} /\ Todo' = {} /\ \A a \in Threads : pc'[a] # "issue"
  BY <1>1, IssuerAfter, TodoType, TodoTypeAfter
<1>3. PICK front : front = FrontSubmap(scan.item)
  OBVIOUS
<1>4. submap_states' = IF scan.item.finished
                       THEN [submap_states EXCEPT ![front].finished = TRUE] ELSE submap_states
  BY <1>3 DEF EndScan
<1>5. DOMAIN submap_states' = DOMAIN submap_states
  BY <1>4
<1>6. ASSUME NEW s \in DOMAIN submap_states
      PROVE  /\ submap_states'[s].node_ids = submap_states[s].node_ids
             /\ Due(s)' <=> Due(s)
  <2>1. submap_states[s] \in [finished : BOOLEAN, node_ids : SUBSET NodeIds]
    BY DEF GraphOK
  <2>2. submap_states'[s] = IF scan.item.finished /\ s = front
                            THEN [submap_states[s] EXCEPT !.finished = TRUE]
                            ELSE submap_states[s]
    BY <1>4
  <2>3. /\ submap_states'[s].node_ids = submap_states[s].node_ids
        /\ submap_states'[s].finished <=> \/ submap_states[s].finished
                                          \/ scan.item.finished /\ s = front
    BY <2>1, <2>2
  <2>4. Due(s)' <=> submap_states'[s].finished
    BY <1>2 DEF Due
  <2>5. Due(s) <=> submap_states[s].finished \/ (scan.item.finished /\ s = front)
    BY <1>1, <1>3 DEF Due
  <2> QED
    BY <2>3, <2>4, <2>5
<1> QED
  BY <1>1, <1>2, <1>5, <1>6 DEF PairsOK

LEMMA PairsKept ==
    ASSUME GraphInv, GraphInv', PairsOK, [Next]_vars
    PROVE  PairsOK'
<1> USE DEF GraphInv, ThreadInv
<1>1. CASE AppendScan
  BY <1>1, AppendPairs
<1>2. ASSUME NEW th \in Threads, BeginScan(th) PROVE PairsOK'
  BY <1>2, BeginPairs
<1>3. ASSUME NEW th \in Threads, IssueConstraint(th) PROVE PairsOK'
  BY <1>3, IssuePairs
<1>4. ASSUME NEW th \in Threads, EndScan(th) PROVE PairsOK'
  BY <1>4, EndPairs
<1>5. CASE ~AppendScan /\ ~ \E th \in Threads : BeginScan(th) \/ IssueConstraint(th) \/ EndScan(th)
  <2>1. UNCHANGED <<considered, submap_states, node_data>> /\ IssueRests
    BY <1>5, ConsideredSteps, StatesSteps, IssueSteps
  <2>2. Todo' = Todo /\ \A s : Due(s)' <=> Due(s)
    <3>1. CASE UNCHANGED scan /\ \A th \in Threads : pc'[th] = "issue" <=> pc[th] = "issue"
      BY <2>1, <3>1 DEF Todo, Due
    <3>2. CASE \A th \in Threads : pc[th] # "issue" /\ pc'[th] # "issue"
      BY <2>1, <3>2, TodoType, TodoTypeAfter DEF Due
    <3> QED
      BY <2>1, <3>1, <3>2 DEF IssueRests
  <2> QED
    BY <2>1, <2>2 DEF PairsOK
<1> QED
  BY <1>1, <1>2, <1>3, <1>4, <1>5
-----------------------------------------------------------------------------
(* The matches.                                                             *)

ItemPair(u) == <<u.node, u.submap>>

\* The trajectories of a pair that is matched locally are one, or connected.
Joinable(u) == \/ u.global
               \/ u.node[1] = u.submap[1]
               \/ \E c \in connected_components : {u.node[1], u.submap[1]} \subseteq c

\* A pair is considered, and matched unless it is left out.
Issued(pair) ==
    /\ pair \in Todo
    /\ considered' = considered \cup {pair}
    /\ \/ UNCHANGED CBP!Unmatched
       \/ \E u \in CBP!ComputeTasks : /\ ItemPair(u) = pair
                                      /\ Joinable(u)
                                      /\ CBP!Unmatched' = CBP!Unmatched \cup {u}
    /\ UNCHANGED <<CBP!Found, call, matched, constraints, pc>>

\* A match is tried.
Tried(w, match) ==
    /\ executing[w] \in CBP!Unmatched /\ executing[w] \in CBP!ComputeTasks
    /\ CBP!Unmatched' = CBP!Unmatched \ {executing[w]}
    /\ CBP!Found' = IF match
                    THEN CBP!Found \cup {[submap |-> executing[w].submap,
                                          node |-> executing[w].node]}
                    ELSE CBP!Found
    /\ matched' = IF match THEN matched \cup {ItemPair(executing[w])} ELSE matched
    /\ UNCHANGED <<call, considered, constraints, pc>>

\* What was found is handed to the callback that worker w is about to run.
HandedOver(w) ==
    /\ pc[w] = "pool" /\ call[w] = None
    /\ CBP!Found' = {}
    /\ \E c \in CBP!Call : c.result = CBP!Found /\ call' = [call EXCEPT ![w] = c]
    /\ UNCHANGED <<CBP!Unmatched, considered, matched, constraints, pc>>

\* The callback appends it to the constraints.
Taken(w) ==
    /\ pc[w] = "pool" /\ call[w] # None
    /\ constraints' = constraints \cup {<<r.node, r.submap>> : r \in call[w].result}
    /\ \E l \in {"return", "optimize"} : pc' = [pc EXCEPT ![w] = l]
    /\ UNCHANGED <<CBP!Unmatched, CBP!Found, call, considered, matched>>

Returned(w) ==
    /\ pc[w] = "return"
    /\ call' = [call EXCEPT ![w] = None]
    /\ pc' = [pc EXCEPT ![w] = "pool"]
    /\ UNCHANGED <<CBP!Unmatched, CBP!Found, considered, matched, constraints>>

MatchesRest ==
    /\ UNCHANGED <<CBP!Unmatched, CBP!Found, call, considered, matched, constraints>>
    /\ \A w \in Workers : pc'[w] = "pool" <=> pc[w] = "pool"

LEMMA MatchIsTried ==
    ASSUME GraphInv, GraphInv', NEW w \in Workers, NEW match \in BOOLEAN, Match(w, match)
    PROVE  Tried(w, match)
<1>1. CBP!ConstantsOK /\ CBP!BuilderInv /\ CBP!BuilderInv'
  BY BuilderAssumption, BuilderDefs DEF BuilderAssumption, GraphInv, ThreadInv
<1>2. CBP!ComputeConstraint(w, match)
  BY BuilderActions DEF Match
<1>3. /\ executing[w] \in CBP!Unmatched /\ executing[w] \in CBP!ComputeTasks
      /\ CBP!Unmatched' = CBP!Unmatched \ {executing[w]}
      /\ CBP!Found' = IF match
                      THEN CBP!Found \cup {[submap |-> executing[w].submap,
                                            node |-> executing[w].node]}
                      ELSE CBP!Found
      /\ UNCHANGED call
  BY <1>1, <1>2, CBP!ComputeMatches DEF CBP!ComputeMatches
<1> QED
  BY <1>3 DEF Match, Tried, ItemPair

LEMMA MatchSteps ==
    ASSUME GraphInv, GraphInv', [Next]_vars
    PROVE  \/ \E th \in Threads, pair \in scan.todo : /\ At(th, "issue") /\ ComputeConstraint(pair)
                                                      /\ Issued(pair)
           \/ \E w \in Workers, match \in BOOLEAN : Match(w, match) /\ Tried(w, match)
           \/ \E w \in Workers : HandedOver(w) /\ BuilderStep(w)
           \/ \E w \in Workers : Taken(w) /\ EnterCallback(w)
           \/ \E w \in Workers : Returned(w) /\ ReturnFromCallback(w)
           \/ MatchesRest
<1> USE DEF GraphInv, ThreadInv, Goto, At
<1>0. /\ CBP!ConstantsOK /\ CBP!BuilderInv /\ CBP!BuilderInv'
      /\ failed = FALSE /\ failed' = FALSE
      /\ \A w \in Workers : w # Main /\ w \in Threads
      /\ Main \in Threads
      /\ pc \in [Threads -> MainPlaces \cup WorkerPlaces]
  BY BuilderAssumption, BuilderDefs, ThreadsAssumption
     DEF BuilderAssumption, ThreadsAssumption, PlacesOK, Threads, CBP!BuilderInv,
         CBP!NoCheckFails, CBP!TypeOK
<1>1. ASSUME UNCHANGED builderButFailed PROVE UNCHANGED <<CBP!Unmatched, CBP!Found, call>>
  <2>1. UNCHANGED CBP!vars
    BY <1>0, <1>1 DEF CBP!vars, CBP!clientvars, CBP!matchvars, CBP!poolvars, builderButFailed
  <2> QED
    BY <1>0, <2>1, CBP!ClientMatches DEF CBP!ClientMatches
<1>2. ASSUME NEW th \in Threads, NEW l, pc' = [pc EXCEPT ![th] = l],
             th = Main \/ (pc[th] # "pool" /\ l # "pool")
      PROVE  \A w \in Workers : pc'[w] = "pool" <=> pc[w] = "pool"
  BY <1>0, <1>2
<1>3. ASSUME UNCHANGED pc PROVE \A w \in Workers : pc'[w] = "pool" <=> pc[w] = "pool"
  BY <1>3
<1>4. CASE \/ \E t \in Trajectories : AddScan(t)
           \/ AppendScan \/ AddImuData \/ RunFinalOptimization \/ Destroy
           \/ UNCHANGED vars
  <2>1. UNCHANGED <<considered, matched, constraints>> /\ UNCHANGED builderButFailed
    BY <1>4 DEF AddScan, AppendScan, AddImuData, RunFinalOptimization, Destroy, vars, builder,
       builderButFailed, history
  <2>2. UNCHANGED pc \/ \E l : pc' = [pc EXCEPT ![Main] = l]
    BY <1>4 DEF AddScan, AppendScan, AddImuData, RunFinalOptimization, Destroy, vars
  <2> QED
    BY <1>0, <1>1, <1>2, <1>3, <2>1, <2>2 DEF MatchesRest
<1>5. ASSUME NEW here, NEW next, AwaitNotification(here, next) PROVE MatchesRest
  <2>1. UNCHANGED <<considered, matched, constraints>> /\ UNCHANGED builderButFailed
        /\ pc' = [pc EXCEPT ![Main] = next]
    BY <1>5 DEF AwaitNotification, builder, builderButFailed, history
  <2> QED
    BY <1>0, <1>1, <1>2, <2>1 DEF MatchesRest
<1>6. ASSUME NEW th \in Threads,
             \/ BeginScan(th) \/ RequestLoopClosure(th) \/ RunOptimization(th)
             \/ PublishOptimization(th)
      PROVE  MatchesRest
  <2>1. UNCHANGED <<considered, matched, constraints>> /\ UNCHANGED builderButFailed
        /\ pc[th] # "pool"
    BY <1>6 DEF BeginScan, RequestLoopClosure, RunOptimization, PublishOptimization, builder,
       builderButFailed, history
  <2>2. \E l : l # "pool" /\ pc' = [pc EXCEPT ![th] = l]
    BY <1>6 DEF BeginScan, RequestLoopClosure, RunOptimization, PublishOptimization, ItemDone,
       AfterOptimization
  <2> QED
    BY <1>1, <1>2, <2>1, <2>2 DEF MatchesRest
<1>7. ASSUME NEW w \in Workers, Resume(w) \/ LeaveLoop(w) \/ WorkOffQueue(w) PROVE MatchesRest
  <2>1. UNCHANGED <<considered, matched, constraints>> /\ UNCHANGED builderButFailed
        /\ pc[w] # "pool"
    BY <1>7 DEF Resume, LeaveLoop, WorkOffQueue, builder, builderButFailed, history
  <2>2. UNCHANGED pc \/ \E l : l # "pool" /\ pc' = [pc EXCEPT ![w] = l]
    BY <1>7 DEF Resume, LeaveLoop, WorkOffQueue
  <2> QED
    BY <1>0, <1>1, <1>2, <1>3, <2>1, <2>2 DEF MatchesRest
<1>8. ASSUME NEW th \in Threads, EndScan(th) \/ HandleScanQueue(th) PROVE MatchesRest
  <2>1. CBP!NotifyEndOfScan \/ \E c \in {"loop_closure", "final"} : CBP!WhenDone(c)
    BY <1>8, BuilderActions DEF EndScan, HandleScanQueue
  <2>2. UNCHANGED <<CBP!Unmatched, CBP!Found, call>>
    BY <1>0, <2>1, CBP!ClientMatches DEF CBP!ClientMatches
  <2>3. UNCHANGED <<considered, matched, constraints>> /\ pc[th] # "pool"
    BY <1>8 DEF EndScan, HandleScanQueue, history
  <2>4. \E l : l # "pool" /\ pc' = [pc EXCEPT ![th] = l]
    BY <1>8 DEF EndScan, HandleScanQueue, ItemDone
  <2> QED
    BY <1>2, <2>2, <2>3, <2>4 DEF MatchesRest
<1>9. ASSUME NEW here, NEW next, WaitForAllComputations(here, next) PROVE MatchesRest
  <2>1. \E c \in {"loop_closure", "final"} : CBP!WhenDone(c)
    BY <1>9, BuilderActions DEF WaitForAllComputations
  <2>2. UNCHANGED <<CBP!Unmatched, CBP!Found, call>>
    BY <1>0, <2>1, CBP!ClientMatches DEF CBP!ClientMatches
  <2>3. UNCHANGED <<considered, matched, constraints>> /\ pc' = [pc EXCEPT ![Main] = next]
    BY <1>9 DEF WaitForAllComputations, history
  <2> QED
    BY <1>0, <1>2, <2>2, <2>3 DEF MatchesRest
<1>10. ASSUME NEW th \in Threads, IssueConstraint(th)
       PROVE  \E pair \in scan.todo : At(th, "issue") /\ ComputeConstraint(pair) /\ Issued(pair)
  <2>1. PICK pair \in scan.todo : ComputeConstraint(pair)
    BY <1>10 DEF IssueConstraint
  <2>2. pc[th] = "issue" /\ scan # None /\ scan \in Scans /\ Todo = scan.todo
    BY <1>10, TodoType DEF IssueConstraint
  <2>3. pair[1] \in NodeIds /\ pair[2] \in SubmapIds /\ pair = <<pair[1], pair[2]>>
    BY <2>2 DEF Scans
  <2>4. UNCHANGED <<matched, constraints, pc>> /\ considered' = considered \cup {pair}
    BY <2>1 DEF ComputeConstraint
  <2>5. ASSUME NEW g \in BOOLEAN, CB!AddComputation(pair[2], pair[1], g),
               \/ g
               \/ pair[1][1] = pair[2][1]
               \/ \E c \in connected_components : {pair[1][1], pair[2][1]} \subseteq c
        PROVE  Issued(pair)
    <3>1. CBP!AddComputation(pair[2], pair[1], g)
      BY <2>5, BuilderActions
    <3>2. UNCHANGED <<CBP!Found, call>>
      BY <1>0, <2>3, <3>1, CBP!AddMatches DEF CBP!AddMatches
    <3>3. PICK u \in CBP!ComputeTasks : /\ u.submap = pair[2] /\ u.node = pair[1] /\ u.global = g
                                        /\ CBP!Unmatched' = CBP!Unmatched \cup {u}
      BY <1>0, <2>3, <3>1, CBP!AddMatches DEF CBP!AddMatches
    <3>4. ItemPair(u) = pair /\ Joinable(u)
      BY <2>3, <2>5, <3>3 DEF ItemPair, Joinable
    <3> QED
      BY <2>2, <2>4, <3>2, <3>3, <3>4 DEF Issued
  <2>6. ASSUME UNCHANGED builderButFailed PROVE Issued(pair)
    <3>1. UNCHANGED <<CBP!Unmatched, CBP!Found, call>>
      BY <1>1, <2>6
    <3>2. pair \in Todo
      BY <2>2
    <3> QED
      BY <2>4, <3>1, <3>2 DEF Issued
  <2>7. ASSUME CB!MaybeAddGlobalConstraint(pair[2], pair[1]) PROVE Issued(pair)
    <3>1. CB!AddComputation(pair[2], pair[1], TRUE)
      BY <2>7 DEF CB!MaybeAddGlobalConstraint
    <3> QED
      BY <2>5, <3>1
  <2>8. ASSUME \/ pair[1][1] = pair[2][1]
               \/ \E c \in connected_components : {pair[1][1], pair[2][1]} \subseteq c,
               CB!MaybeAddConstraint(pair[2], pair[1])
        PROVE  Issued(pair)
    <3>1. CASE UNCHANGED CB!vars
      BY <2>6, <3>1 DEF CB!vars, CB!clientvars, CB!matchvars, CB!poolvars, builderButFailed
    <3>2. CASE CB!AddComputation(pair[2], pair[1], FALSE)
      BY <2>5, <2>8, <3>2
    <3> QED
      BY <2>8, <3>1, <3>2 DEF CB!MaybeAddConstraint
  <2>9. ASSUME UNCHANGED builder PROVE Issued(pair)
    BY <2>6, <2>9 DEF builder, builderButFailed
  <2> QED
    BY <1>10, <2>1, <2>7, <2>8, <2>9 DEF ComputeConstraint, IssueConstraint
<1>11. ASSUME NEW w \in Workers, BuilderStep(w) PROVE HandedOver(w) \/ MatchesRest
  <2>1. pc[w] = "pool" /\ UNCHANGED <<considered, matched, constraints, pc>>
    BY <1>11 DEF BuilderStep, history
  <2>2. CASE CBP!Start(w) \/ CBP!ConstructSubmapScanMatcher(w)
    <3>1. UNCHANGED <<CBP!Unmatched, CBP!Found, call>>
      BY <1>0, <2>2, CBP!StartMatches, CBP!ConstructMatches
         DEF CBP!StartMatches, CBP!ConstructMatches
    <3> QED
      BY <1>3, <2>1, <3>1 DEF MatchesRest
  <2>3. CASE CBP!FinishComputation(w)
    <3>1. /\ UNCHANGED CBP!Unmatched
          /\ \/ UNCHANGED <<CBP!Found, call>>
             \/ /\ call[w] = None /\ CBP!Found' = {}
                /\ \E c \in CBP!Call : c.result = CBP!Found /\ call' = [call EXCEPT ![w] = c]
      BY <1>0, <2>3, CBP!FinishMatches DEF CBP!FinishMatches
    <3> QED
      BY <1>3, <2>1, <3>1 DEF MatchesRest, HandedOver
  <2> QED
    BY <1>11, <2>2, <2>3, BuilderActions DEF BuilderStep
<1>12. ASSUME NEW w \in Workers, NEW match \in BOOLEAN, Match(w, match) PROVE Tried(w, match)
  BY <1>12, MatchIsTried
<1>13. ASSUME NEW w \in Workers, EnterCallback(w) PROVE Taken(w)
  <2>1. UNCHANGED builderButFailed
    BY <1>13 DEF EnterCallback, builder, builderButFailed
  <2> QED
    BY <1>1, <1>13, <2>1 DEF EnterCallback, Taken, history
<1>14. ASSUME NEW w \in Workers, ReturnFromCallback(w) PROVE Returned(w)
  <2>1. CBP!ReturnFromCallback(w)
    BY <1>14, BuilderActions DEF ReturnFromCallback
  <2>2. UNCHANGED <<CBP!Unmatched, CBP!Found>> /\ call' = [call EXCEPT ![w] = None]
    BY <1>0, <2>1, CBP!ReturnMatches DEF CBP!ReturnMatches
  <2> QED
    BY <1>14, <2>2 DEF ReturnFromCallback, Returned, history
<1> QED
  BY <1>4, <1>5, <1>6, <1>7, <1>8, <1>9, <1>10, <1>11, <1>12, <1>13, <1>14, Steps

\* A pair is computed at most once.
ComputedOnce ==
    /\ \A u \in CBP!Unmatched : ItemPair(u) \in considered /\ ItemPair(u) \notin matched
    /\ \A u, v \in CBP!Unmatched : ItemPair(u) = ItemPair(v) => u = v
    /\ matched \subseteq considered

LEMMA ComputedOnceKept ==
    ASSUME GraphInv, GraphInv', PairsOK, ComputedOnce, [Next]_vars
    PROVE  ComputedOnce'
<1>1. ASSUME NEW pair \in scan.todo, Issued(pair) PROVE ComputedOnce'
  <2>1. pair \notin considered /\ pair \notin matched
    BY <1>1 DEF Issued, PairsOK, ComputedOnce
  <2>2. \A u : ItemPair(u)' = ItemPair(u)
    BY DEF ItemPair
  <2> QED
    BY <1>1, <2>1, <2>2 DEF Issued, ComputedOnce
<1>2. ASSUME NEW w \in Workers, NEW match, Tried(w, match) PROVE ComputedOnce'
  <2>1. \A u : ItemPair(u)' = ItemPair(u)
    BY DEF ItemPair
  <2> QED
    BY <1>2, <2>1 DEF Tried, ComputedOnce
<1>3. ASSUME UNCHANGED <<CBP!Unmatched, considered, matched>> PROVE ComputedOnce'
  BY <1>3 DEF ComputedOnce, ItemPair
<1> QED
  BY <1>1, <1>2, <1>3, MatchSteps DEF HandedOver, Taken, Returned, MatchesRest

\* The pairs that were found, in the slots and in the result that worker w is about to append.
FoundPairs == {<<r.node, r.submap>> : r \in CBP!Found}
Result(w) == IF call[w] # None /\ pc[w] = "pool" THEN call[w].result ELSE {}
ResultPairs(w) == {<<r.node, r.submap>> : r \in Result(w)}

\* A match is in one place.
MatchesHeld ==
    /\ matched = constraints \cup FoundPairs \cup UNION {ResultPairs(w) : w \in Workers}
    /\ FoundPairs \cap constraints = {}
    /\ \A w \in Workers : /\ ResultPairs(w) \cap constraints = {}
                          /\ ResultPairs(w) \cap FoundPairs = {}
                          /\ \A v \in Workers \ {w} : ResultPairs(v) \cap ResultPairs(w) = {}

LEMMA SameResults ==
    ASSUME UNCHANGED call, \A w \in Workers : pc'[w] = "pool" <=> pc[w] = "pool"
    PROVE  \A w \in Workers : UNCHANGED ResultPairs(w)
<1>1. ASSUME NEW w \in Workers PROVE Result(w)' = Result(w)
  BY DEF Result
<1> QED
  BY <1>1 DEF ResultPairs

LEMMA MatchesHeldKept ==
    ASSUME GraphInv, GraphInv', ComputedOnce, MatchesHeld, [Next]_vars
    PROVE  MatchesHeld'
<1>0. /\ pc \in [Threads -> MainPlaces \cup WorkerPlaces]
      /\ \A w \in Workers : w \in Threads
      /\ call \in [Workers -> CBP!Call \cup {None}]
  BY DEF GraphInv, ThreadInv, PlacesOK, Threads, CBP!BuilderInv, CBP!TypeOK
<1>1. ASSUME UNCHANGED <<matched, constraints, FoundPairs>>,
             \A w \in Workers : UNCHANGED ResultPairs(w)
      PROVE  MatchesHeld'
  BY <1>1 DEF MatchesHeld
<1>2. UNCHANGED CBP!Found => UNCHANGED FoundPairs
  BY DEF FoundPairs
<1>3. ASSUME NEW pair, Issued(pair) PROVE MatchesHeld'
  BY <1>1, <1>2, <1>3, SameResults DEF Issued
<1>4. ASSUME NEW w \in Workers, NEW match, Tried(w, match) PROVE MatchesHeld'
  <2>1. \A v \in Workers : UNCHANGED ResultPairs(v)
    BY <1>4, SameResults DEF Tried
  <2>2. CASE match
    <3>1. FoundPairs' = FoundPairs \cup {ItemPair(executing[w])}
      <4>1. PICK e : e = [submap |-> executing[w].submap, node |-> executing[w].node]
        OBVIOUS
      <4>2. CBP!Found' = CBP!Found \cup {e}
        BY <1>4, <2>2, <4>1 DEF Tried
      <4>3. <<e.node, e.submap>> = ItemPair(executing[w])
        BY <4>1 DEF ItemPair
      <4> QED
        BY <4>2, <4>3 DEF FoundPairs
    <3>2. ItemPair(executing[w]) \notin matched
      BY <1>4 DEF Tried, ComputedOnce
    <3>3. matched' = matched \cup {ItemPair(executing[w])} /\ UNCHANGED constraints
      BY <1>4, <2>2 DEF Tried
    <3>4. \A v \in Workers : ItemPair(executing[w]) \notin ResultPairs(v)
      BY <3>2 DEF MatchesHeld
    <3> QED
      BY <2>1, <3>1, <3>2, <3>3, <3>4 DEF MatchesHeld
  <2>3. CASE ~match
    BY <1>1, <1>2, <1>4, <2>1, <2>3 DEF Tried
  <2> QED
    BY <2>2, <2>3
<1>5. ASSUME NEW w \in Workers, HandedOver(w) PROVE MatchesHeld'
  <2>1. PICK c \in CBP!Call : c.result = CBP!Found /\ call' = [call EXCEPT ![w] = c]
    BY <1>5 DEF HandedOver
  <2>2. pc[w] = "pool" /\ call[w] = None /\ pc' = pc /\ UNCHANGED <<matched, constraints>>
        /\ CBP!Found' = {}
    BY <1>5 DEF HandedOver
  <2>3. c # None
    BY BuilderAssumption, BuilderDefs, CBP!Nulls DEF BuilderAssumption, CBP!Nulls
  <2>4. ResultPairs(w) = {} /\ ResultPairs(w)' = FoundPairs /\ FoundPairs' = {}
    BY <1>0, <2>1, <2>2, <2>3 DEF ResultPairs, Result, FoundPairs
  <2>5. \A v \in Workers \ {w} : UNCHANGED ResultPairs(v)
    <3>1. \A v \in Workers \ {w} : Result(v)' = Result(v)
      BY <1>0, <2>1, <2>2 DEF Result
    <3> QED
      BY <3>1 DEF ResultPairs
  <2> QED
    BY <2>2, <2>4, <2>5 DEF MatchesHeld
<1>6. ASSUME NEW w \in Workers, Taken(w) PROVE MatchesHeld'
  <2>1. /\ UNCHANGED <<matched, call, CBP!Found>>
        /\ constraints' = constraints \cup ResultPairs(w)
    BY <1>6 DEF Taken, ResultPairs, Result
  <2>2. PICK l \in {"return", "optimize"} : pc' = [pc EXCEPT ![w] = l]
    BY <1>6 DEF Taken
  <2>3. ResultPairs(w)' = {}
    BY <1>0, <2>2 DEF ResultPairs, Result
  <2>4. \A v \in Workers \ {w} : UNCHANGED ResultPairs(v)
    <3>1. \A v \in Workers \ {w} : Result(v)' = Result(v)
      BY <1>0, <2>1, <2>2 DEF Result
    <3> QED
      BY <3>1 DEF ResultPairs
  <2> QED
    BY <1>2, <2>1, <2>3, <2>4 DEF MatchesHeld
<1>7. ASSUME NEW w \in Workers, Returned(w) PROVE MatchesHeld'
  <2>1. \A v \in Workers : Result(v)' = Result(v)
    BY <1>0, <1>7 DEF Returned, Result
  <2> QED
    BY <1>1, <1>2, <1>7, <2>1 DEF Returned, ResultPairs
<1>8. CASE MatchesRest
  BY <1>1, <1>2, <1>8, SameResults DEF MatchesRest
<1> QED
  BY <1>3, <1>4, <1>5, <1>6, <1>7, <1>8, MatchSteps

LEMMA HeldOnce ==
    ASSUME GraphInv, MatchesHeld
    PROVE  NoMatchLost
<1>1. CB!Found = CBP!Found
  BY DEF CB!Found, CBP!Found
<1>2. {<<r.node, r.submap>> : r \in Waiting}
         = FoundPairs \cup UNION {ResultPairs(w) : w \in Workers}
  BY <1>1 DEF Waiting, FoundPairs, ResultPairs, Result
<1> QED
  BY <1>2 DEF NoMatchLost, MatchesHeld
-----------------------------------------------------------------------------
(* The connectivity.                                                        *)

\* C is a partition into the connected components of the links L.
Connects(C, L) ==
    /\ \A l \in L : \E c \in C : {l[1], l[2]} \subseteq c
    /\ \A c \in C : \A part \in (SUBSET c) \ {{}, c} :
          \E l \in L : {l[1], l[2]} \cap part # {} /\ ~ {l[1], l[2]} \subseteq part
    /\ \A c, d \in C : c # d => c \cap d = {}

LEMMA NewComponent ==
    ASSUME NEW C, NEW L, Connects(C, L), NEW t, t \notin UNION C
    PROVE  Connects(C \cup {{t}}, L)
<1>1. \A l \in L : \E c \in C \cup {{t}} : {l[1], l[2]} \subseteq c
  BY DEF Connects
<1>2. ASSUME NEW c \in C \cup {{t}}, NEW part \in (SUBSET c) \ {{}, c}
      PROVE  \E l \in L : {l[1], l[2]} \cap part # {} /\ ~ {l[1], l[2]} \subseteq part
  <2>1. c # {t}
    BY <1>2
  <2>2. c \in C
    BY <2>1
  <2> QED
    BY <2>2 DEF Connects
<1>3. ASSUME NEW c \in C \cup {{t}}, NEW d \in C \cup {{t}}, c # d PROVE c \cap d = {}
  <2>1. \A e \in C : e \cap {t} = {}
    OBVIOUS
  <2> QED
    BY <1>3, <2>1 DEF Connects
<1> QED
  BY <1>1, <1>2, <1>3 DEF Connects

LEMMA LinkInside ==
    ASSUME NEW C, NEW L, Connects(C, L), NEW a, NEW b, NEW c \in C, {a, b} \subseteq c
    PROVE  Connects(C, L \cup {<<a, b>>})
<1>1. \A l \in L \cup {<<a, b>>} : \E d \in C : {l[1], l[2]} \subseteq d
  BY DEF Connects
<1> QED
  BY <1>1 DEF Connects

Joined(C, a, b) == {c \in C : {a, b} \cap c # {}}

LEMMA Joining ==
    ASSUME NEW C, NEW L, Connects(C, L), NEW a \in UNION C, NEW b \in UNION C
    PROVE  LET D == (C \ Joined(C, a, b)) \cup {UNION Joined(C, a, b)}
           IN  /\ Connects(D, L \cup {<<a, b>>})
               /\ \A c \in C : \E d \in D : c \subseteq d
               /\ UNION D = UNION C
<1> DEFINE J == Joined(C, a, b)
           U == UNION J
           D == (C \ J) \cup {U}
           M == L \cup {<<a, b>>}
<1>1. PICK p \in C, q \in C : a \in p /\ b \in q
  OBVIOUS
<1>2. J = {p, q} /\ U = p \cup q
  BY <1>1 DEF Joined, Connects
<1>3. \A c \in C : \E d \in D : c \subseteq d
  BY <1>2
<1>4. UNION D = UNION C
  BY <1>2
<1>5. \A l \in M : \E d \in D : {l[1], l[2]} \subseteq d
  <2>1. \A l \in L : \E d \in D : {l[1], l[2]} \subseteq d
    BY <1>3 DEF Connects
  <2>2. \A l \in {<<a, b>>} : {l[1], l[2]} \subseteq U
    BY <1>1, <1>2
  <2> QED
    BY <2>1, <2>2
<1>6. ASSUME NEW c \in D, NEW d \in D, c # d PROVE c \cap d = {}
  <2>1. \A e \in C \ J : e \cap U = {}
    BY <1>2 DEF Connects
  <2>2. (c \in C \ J \/ c = U) /\ (d \in C \ J \/ d = U)
    OBVIOUS
  <2>3. CASE c \in C \ J /\ d \in C \ J
    BY <1>6, <2>3 DEF Connects
  <2> QED
    BY <1>6, <2>1, <2>2, <2>3
<1>7. ASSUME NEW c \in C, NEW part, part \cap c \notin {{}, c}
      PROVE  \E l \in M : {l[1], l[2]} \cap part # {} /\ ~ {l[1], l[2]} \subseteq part
  <2>1. PICK l \in L : {l[1], l[2]} \cap (part \cap c) # {} /\ ~ {l[1], l[2]} \subseteq part \cap c
    <3>1. PICK piece \in (SUBSET c) \ {{}, c} : piece = part \cap c
      BY <1>7
    <3>2. \E l \in L : {l[1], l[2]} \cap piece # {} /\ ~ {l[1], l[2]} \subseteq piece
      BY DEF Connects
    <3> QED
      BY <3>1, <3>2
  <2>2. PICK d \in C : {l[1], l[2]} \subseteq d
    BY DEF Connects
  <2>3. d = c
    BY <2>1, <2>2 DEF Connects
  <2> QED
    BY <2>1, <2>2, <2>3
<1>8. ASSUME NEW d \in D, NEW part \in (SUBSET d) \ {{}, d}
      PROVE  \E l \in M : {l[1], l[2]} \cap part # {} /\ ~ {l[1], l[2]} \subseteq part
  <2>1. CASE d \in C
    <3>1. part \cap d = part
      OBVIOUS
    <3> QED
      BY <1>7, <1>8, <2>1, <3>1
  <2>2. CASE d = U /\ part \cap p \in {{}, p} /\ part \cap q \in {{}, q}
    <3>1. p # q /\ p \cap q = {} /\ (part = p \/ part = q)
      BY <1>2, <1>8, <2>2 DEF Connects
    <3>2. <<a, b>> \in M /\ <<a, b>>[1] = a /\ <<a, b>>[2] = b
      OBVIOUS
    <3>3. {a, b} \cap part # {} /\ ~ {a, b} \subseteq part
      BY <1>1, <3>1
    <3> QED
      BY <3>2, <3>3
  <2>3. CASE part \cap p \notin {{}, p} \/ part \cap q \notin {{}, q}
    BY <1>1, <1>7, <2>3
  <2> QED
    BY <2>1, <2>2, <2>3
<1> QED
  BY <1>3, <1>4, <1>5, <1>6, <1>8 DEF Connects

Links == {<<m[1][1], m[2][1]>> : m \in matched}
Together(a, b) == \E c \in connectivity : {a, b} \subseteq c

\* Trajectories with nodes are known; components only grow; what is matched locally is
\* in one component.
LinksOK ==
    /\ \A t \in Trajectories : Len(trajectory_nodes[t]) > 0 => t \in UNION connectivity
    /\ \A c \in connected_components : \E d \in connectivity : c \subseteq d
    /\ \A u \in CBP!Unmatched : u.global \/ Together(u.node[1], u.submap[1])
    /\ Connects(connectivity, Links)

LEMMA Linked ==
    ASSUME LinksOK
    PROVE  ConnectedByMatches
BY DEF LinksOK, Connects, ConnectedByMatches, Links

LEMMA PublishedSteps ==
    ASSUME [Next]_vars
    PROVE  /\ connected_components' \in {connected_components, connectivity}
           /\ \/ AppendScan
              \/ \E w \in Workers, match \in BOOLEAN : Match(w, match)
              \/ UNCHANGED connectivity
<1> DEFINE Rests == UNCHANGED <<connected_components, connectivity>>
<1>1. ASSUME NEW t \in Trajectories, AddScan(t) PROVE Rests
  BY <1>1 DEF AddScan, published
<1>2. CASE AddImuData \/ RunFinalOptimization \/ Destroy \/ UNCHANGED vars
  BY <1>2 DEF AddImuData, RunFinalOptimization, Destroy, vars, published
<1>3. ASSUME NEW here, NEW next, WaitForAllComputations(here, next) \/ AwaitNotification(here, next)
      PROVE  Rests
  BY <1>3 DEF WaitForAllComputations, AwaitNotification, published
<1>4. ASSUME NEW th \in Threads,
             \/ BeginScan(th) \/ IssueConstraint(th) \/ EndScan(th) \/ RequestLoopClosure(th)
             \/ HandleScanQueue(th) \/ RunOptimization(th)
      PROVE  Rests
  BY <1>4 DEF BeginScan, IssueConstraint, ComputeConstraint, EndScan, RequestLoopClosure,
     HandleScanQueue, RunOptimization, published
<1>5. ASSUME NEW w \in Workers,
             \/ BuilderStep(w) \/ EnterCallback(w)
             \/ Resume(w) \/ LeaveLoop(w) \/ WorkOffQueue(w) \/ ReturnFromCallback(w)
      PROVE  Rests
  BY <1>5 DEF BuilderStep, EnterCallback, Resume, LeaveLoop, WorkOffQueue,
     ReturnFromCallback, published
<1>6. CASE AppendScan
  BY <1>6 DEF AppendScan
<1>7. ASSUME NEW w \in Workers, NEW match, Match(w, match) PROVE UNCHANGED connected_components
  BY <1>7 DEF Match, published
<1>8. ASSUME NEW th \in Threads, PublishOptimization(th)
      PROVE  connected_components' = connectivity /\ UNCHANGED connectivity
  BY <1>8 DEF PublishOptimization
<1> QED
  BY <1>1, <1>2, <1>3, <1>4, <1>5, <1>6, <1>7, <1>8, Steps

LEMMA LinksKept ==
    ASSUME GraphInv, GraphInv', PairsOK, ComputedOnce, LinksOK, [Next]_vars
    PROVE  LinksOK'
<1> DEFINE Grows == \A c \in connectivity : \E d \in connectivity' : c \subseteq d
           Known == \A t \in Trajectories :
                       Len(trajectory_nodes[t])' > 0 => t \in UNION connectivity'
<1>1. Grows => \A a, b : Together(a, b) => Together(a, b)'
  BY DEF Together
<1>2. Grows => \A c \in connected_components' : \E d \in connectivity' : c \subseteq d
  BY PublishedSteps DEF LinksOK
<1>3. ASSUME NEW a, NEW b, \E c \in connected_components : {a, b} \subseteq c
      PROVE  Together(a, b)
  BY <1>3 DEF LinksOK, Together
<1>4. ASSUME NEW pair \in considered \cup Todo
      PROVE  pair[1][1] \in UNION connectivity /\ pair[2][1] \in UNION connectivity
  <2>1. PICK n \in NodeIds, s \in SubmapIds : pair = <<n, s>>
    BY <1>4, TodoType DEF PairsOK, GraphInv, ThreadInv
  <2>2. n[2] < node_data[n[1]] /\ s \in DOMAIN submap_states
    BY <1>4, <2>1 DEF PairsOK
  <2>3. Len(trajectory_nodes[n[1]]) > 0
    <3>1. PICK k \in Nat, t \in Trajectories : n[1] = t /\ n[2] = k
      BY BoundsAssumption DEF NodeIds, BoundsAssumption
    <3>2. node_data[t] \in Nat /\ Len(trajectory_nodes[t]) \in Nat
          /\ node_data[t] <= Len(trajectory_nodes[t])
      BY LenProperties DEF GraphInv, CountsOK
    <3> QED
      BY <2>2, <3>1, <3>2
  <2>4. Len(trajectory_nodes[s[1]]) > 0
    <3>1. PICK k \in Nat, t \in Trajectories : s[1] = t /\ s[2] = k
      BY BoundsAssumption DEF SubmapIds, BoundsAssumption
    <3>2. s[2] * NumRangeData < Len(trajectory_nodes[s[1]])
      BY <2>2 DEF GraphInv, GraphOK
    <3>3. k * NumRangeData \in Nat /\ Len(trajectory_nodes[t]) \in Nat
      BY LenProperties, BoundsAssumption DEF GraphInv, CountsOK, BoundsAssumption
    <3> QED
      BY <3>1, <3>2, <3>3
  <2>5. n[1] \in Trajectories /\ s[1] \in Trajectories
    BY DEF NodeIds, SubmapIds
  <2> QED
    BY <2>1, <2>3, <2>4, <2>5 DEF LinksOK
<1>5. ASSUME NEW w \in Workers, NEW match \in BOOLEAN, Match(w, match) PROVE LinksOK'
  <2> DEFINE u == executing[w]
             a == u.node[1]
             b == u.submap[1]
  <2>1. Tried(w, match)
    BY <1>5, MatchIsTried
  <2>2. UNCHANGED <<trajectory_nodes, connected_components>>
    BY <1>5 DEF Match, published
  <2>3. a \in UNION connectivity /\ b \in UNION connectivity
    <3>1. PICK pair : pair = ItemPair(u)
      OBVIOUS
    <3>2. pair \in considered
      BY <2>1, <3>1 DEF Tried, ComputedOnce
    <3>3. pair[1][1] = a /\ pair[2][1] = b
      BY <3>1 DEF ItemPair
    <3> QED
      BY <1>4, <3>2, <3>3
  <2>4. /\ Grows /\ UNION connectivity' = UNION connectivity
        /\ Connects(connectivity, Links)'
    <3>1. CASE match
      <4>1. Links' = Links \cup {<<a, b>>}
        <5>1. matched' = matched \cup {<<u.node, u.submap>>}
          BY <2>1, <3>1 DEF Tried, ItemPair
        <5>2. PICK m : m = <<u.node, u.submap>>
          OBVIOUS
        <5>3. matched' = matched \cup {m} /\ m[1][1] = a /\ m[2][1] = b
          BY <5>1, <5>2
        <5> QED
          BY <5>3 DEF Links
      <4>2. CASE u.global
        <5>1. Joined(connectivity, a, b) = {c \in connectivity : {a, b} \cap c # {}}
          BY DEF Joined
        <5>2. connectivity' = (connectivity \ Joined(connectivity, a, b))
                              \cup {UNION Joined(connectivity, a, b)}
          BY <1>5, <3>1, <4>2, <5>1 DEF Match
        <5>3. Connects(connectivity, Links)
          BY DEF LinksOK
        <5>4. /\ Connects(connectivity', Links \cup {<<a, b>>})
              /\ Grows /\ UNION connectivity' = UNION connectivity
          <6>1. PICK x, y : x = a /\ y = b
            OBVIOUS
          <6>2. PICK L : L = Links
            OBVIOUS
          <6>3. PICK C : C = connectivity
            OBVIOUS
          <6>4. PICK D : D = (C \ Joined(C, x, y)) \cup {UNION Joined(C, x, y)}
            OBVIOUS
          <6>5. x \in UNION C /\ y \in UNION C /\ Connects(C, L)
            BY <2>3, <5>3, <6>1, <6>2, <6>3
          <6>6. /\ Connects(D, L \cup {<<x, y>>})
                /\ \A c \in C : \E d \in D : c \subseteq d
                /\ UNION D = UNION C
            BY <6>4, <6>5, Joining
          <6>7. D = connectivity'
            BY <5>2, <6>1, <6>3, <6>4
          <6> QED
            BY <6>1, <6>2, <6>3, <6>6, <6>7
        <5> QED
          BY <4>1, <5>4
      <4>3. CASE ~u.global
        <5>1. UNCHANGED connectivity
          BY <1>5, <4>3 DEF Match
        <5>2. PICK c \in connectivity : {a, b} \subseteq c
          BY <2>1, <4>3 DEF LinksOK, Tried, Together
        <5>3. Connects(connectivity, Links \cup {<<a, b>>})
          BY <5>2, LinkInside DEF LinksOK
        <5> QED
          BY <4>1, <5>1, <5>3
      <4> QED
        BY <4>2, <4>3
    <3>2. CASE ~match
      <4>1. UNCHANGED <<connectivity, matched>>
        BY <1>5, <2>1, <3>2 DEF Match, Tried
      <4> QED
        BY <4>1 DEF LinksOK, Connects, Links
    <3> QED
      BY <3>1, <3>2
  <2>5. CBP!Unmatched' \subseteq CBP!Unmatched
    BY <2>1 DEF Tried
  <2>6. Known
    BY <2>2, <2>4 DEF LinksOK
  <2>7. \A x \in CBP!Unmatched' : x.global \/ Together(x.node[1], x.submap[1])'
    BY <1>1, <2>4, <2>5 DEF LinksOK
  <2> QED
    BY <1>2, <2>4, <2>6, <2>7 DEF LinksOK
<1>6. ASSUME ~ \E w \in Workers, match \in BOOLEAN : Match(w, match) PROVE LinksOK'
  <2>1. UNCHANGED matched
    BY <1>6, MatchSteps DEF Issued, HandedOver, Taken, Returned, MatchesRest
  <2>2. UNCHANGED Links
    BY <2>1 DEF Links
  <2>3. Grows /\ Known /\ Connects(connectivity, Links)'
    <3>1. CASE AppendScan
      <4>1. PICK t \in Trajectories : t = incoming.trajectory
        BY <3>1, NewItemType DEF AppendScan, At, GraphInv, ThreadInv
      <4>2. /\ connectivity' = IF t \in UNION connectivity THEN connectivity
                                                           ELSE connectivity \cup {{t}}
            /\ trajectory_nodes' = [trajectory_nodes EXCEPT ![t] = Append(@, incoming.frame)]
        BY <3>1, <4>1 DEF AppendScan
      <4>3. \A s \in Trajectories \ {t} : trajectory_nodes'[s] = trajectory_nodes[s]
        BY <4>2 DEF GraphInv, CountsOK
      <4>4. t \in UNION connectivity' /\ Grows
        BY <4>2
      <4>5. Known
        BY <4>3, <4>4 DEF LinksOK
      <4>6. Connects(connectivity', Links)
        BY <4>2, NewComponent DEF LinksOK
      <4> QED
        BY <2>2, <4>4, <4>5, <4>6
    <3>2. CASE ~AppendScan
      <4>1. UNCHANGED connectivity
        BY <1>6, <3>2, PublishedSteps
      <4>2. \A t \in Trajectories : Len(trajectory_nodes'[t]) = Len(trajectory_nodes[t])
        BY <3>2, PoseCounts DEF GraphInv, ThreadInv
      <4> QED
        BY <2>2, <4>1, <4>2 DEF LinksOK
    <3> QED
      BY <3>1, <3>2
  <2>4. \A u \in CBP!Unmatched' : u.global \/ Together(u.node[1], u.submap[1])'
    <3>1. CASE CBP!Unmatched' = CBP!Unmatched
      BY <1>1, <2>3, <3>1 DEF LinksOK
    <3>2. ASSUME NEW pair \in Todo, NEW u, ItemPair(u) = pair, Joinable(u),
                 CBP!Unmatched' = CBP!Unmatched \cup {u}
          PROVE  \A v \in CBP!Unmatched' : v.global \/ Together(v.node[1], v.submap[1])'
      <4>1. u.node[1] \in UNION connectivity
        BY <1>4, <3>2 DEF ItemPair
      <4>2. u.global \/ Together(u.node[1], u.submap[1])
        BY <1>3, <3>2, <4>1 DEF Joinable, Together
      <4> QED
        BY <1>1, <2>3, <3>2, <4>2 DEF LinksOK
    <3> QED
      BY <1>6, <3>1, <3>2, MatchSteps DEF Issued, HandedOver, Taken, Returned, MatchesRest
  <2> QED
    BY <1>2, <2>3, <2>4 DEF LinksOK
<1> QED
  BY <1>5, <1>6

LEMMA InitialLinks ==
    ASSUME Init
    PROVE  LinksOK
<1>1. CBP!Unmatched = {}
  BY BuilderAssumption, BuilderDefs, CBP!InitialMatches DEF BuilderAssumption, CBP!InitialMatches,
     Init
<1>2. /\ connectivity = {} /\ connected_components = {} /\ matched = {}
      /\ trajectory_nodes = [t \in Trajectories |-> <<>>]
  BY DEF Init
<1>3. Links = {}
  BY <1>2 DEF Links
<1> QED
  BY <1>1, <1>2, <1>3 DEF LinksOK, Connects
-----------------------------------------------------------------------------
(* What the matchers are built from.                                        *)

\* All the scans that go into a submap are in the optimization problem.
Complete(s) == (s[2] + 2) * NumRangeData <= node_data[s[1]]

LEMMA DueIsComplete ==
    ASSUME GraphInv, NEW s \in DOMAIN submap_states, Due(s)
    PROVE  s \in SubmapIds /\ Complete(s)
<1> USE DEF GraphInv, ThreadInv
<1>0. NumRangeData \in Nat \ {0} /\ MaxNodes \in Nat
  BY BoundsAssumption DEF BoundsAssumption
<1>1. s \in SubmapIds /\ s[1] \in Trajectories /\ s[2] \in Nat
  BY <1>0 DEF GraphOK, SubmapIds
<1>2. CASE submap_states[s].finished
  <2>1. (s[2] + 2) * NumRangeData <= Ended(s[1])
    BY <1>2 DEF GraphOK
  <2>2. PICK j \in Nat, n \in Nat : j = s[2] /\ n = node_data[s[1]]
    BY <1>1 DEF CountsOK
  <2>3. Ended(s[1]) \in Int /\ Ended(s[1]) <= n
    BY <2>2 DEF Ended
  <2>4. (j + 2) * NumRangeData \in Int
    BY <1>0
  <2> QED
    BY <1>1, <2>1, <2>2, <2>3, <2>4 DEF Complete
<1>3. ASSUME NEW th \in Threads, pc[th] = "issue", scan.item.finished, s = FrontSubmap(scan.item)
      PROVE  Complete(s)
  <2>1. scan # None /\ scan \in Scans /\ scan.item \in ScanItems /\ ItemOK(scan.item)
    BY <1>3, ScanFields DEF ScanOK, ItemsOK, Inside
  <2>2. PICK t \in Trajectories : t = scan.item.trajectory
    BY <2>1, ItemKinds
  <2>3. PICK k \in Nat : k = scan.item.index /\ k + 1 = node_data[t]
    BY <1>3, <2>1, <2>2, ItemKinds DEF IssuedIsLast
  <2>4. PICK b \in 0..MaxNodes :
           /\ FrontSubmap(scan.item) = <<t, IF b = 0 THEN 0 ELSE b - 1>>
           /\ scan.item.finished <=> b > 0 /\ k + 1 = (b + 1) * NumRangeData
    BY <2>1, <2>2, <2>3, ItemGeometry
  <2>5. s[1] = t /\ s[2] + 2 = b + 1
    BY <1>0, <1>3, <2>4
  <2> QED
    BY <1>3, <2>3, <2>4, <2>5 DEF Complete
<1> QED
  BY <1>1, <1>2, <1>3 DEF Due

LEMMA TodoIsComplete ==
    ASSUME GraphInv, PairsOK, NEW pair \in Todo
    PROVE  /\ pair[2] \in SubmapIds /\ pair[2] \in DOMAIN submap_states
           /\ Complete(pair[2])
<1>1. PICK n \in NodeIds, s \in SubmapIds : pair = <<n, s>>
  BY TodoType DEF GraphInv, ThreadInv
<1>2. s \in DOMAIN submap_states /\ Due(s)
  BY <1>1 DEF PairsOK
<1> QED
  BY <1>1, <1>2, DueIsComplete

LEMMA CompleteStays ==
    ASSUME GraphInv, [Next]_vars, NEW s \in SubmapIds, Complete(s)
    PROVE  Complete(s)'
<1>0. NumRangeData \in Nat \ {0} /\ MaxNodes \in Nat
  BY BoundsAssumption DEF BoundsAssumption
<1>1. s[1] \in Trajectories /\ s[2] \in Nat
  BY <1>0 DEF SubmapIds
<1>2. PICK n \in Nat, j \in Nat : n = node_data[s[1]] /\ j = s[2]
  BY <1>1 DEF GraphInv, CountsOK
<1>3. node_data'[s[1]] \in {n, n + 1}
  <2>1. ASSUME NEW th \in Threads, BeginScan(th)
        PROVE  node_data' = [node_data EXCEPT ![scan.item.trajectory] = @ + 1]
    BY <2>1, BeginScanIs
  <2>2. ASSUME NEW th \in Threads, EndScan(th) PROVE UNCHANGED node_data
    BY <2>2 DEF EndScan, problem
  <2>3. AppendScan => UNCHANGED node_data
    BY DEF AppendScan, problem
  <2> QED
    BY <1>1, <1>2, <2>1, <2>2, <2>3, StatesSteps DEF GraphInv, CountsOK
<1>4. PICK m \in Nat : m = node_data'[s[1]] /\ n <= m
  BY <1>3
<1>5. (j + 2) * NumRangeData \in Int
  BY <1>0
<1> QED
  BY <1>2, <1>4, <1>5 DEF Complete

\* Main does not insert into a submap that is complete.
LEMMA CompleteIsFinal ==
    ASSUME GraphInv, NEW s \in SubmapIds, Complete(s)
    PROVE  submaps[s[1]][s[2] + 1].finished
<1>0. NumRangeData \in Nat \ {0} /\ MaxNodes \in Nat
  BY BoundsAssumption DEF BoundsAssumption
<1>1. PICK t \in Trajectories, j \in Nat : t = s[1] /\ j = s[2]
  BY <1>0 DEF SubmapIds
<1>2. PICK k \in Nat : k = Inserted(t) /\ node_data[t] <= k /\ node_data[t] \in Nat
  BY <1>1, LenProperties DEF GraphInv, CountsOK, Inserted
<1>3. PICK len \in Nat : /\ len = Len(submaps[t])
                         /\ IsBack(len - 1, k)
                         /\ \A i \in 1..len :
                               submaps[t][i].finished <=> (i + 1) * NumRangeData <= k
  BY <1>2, LenProperties DEF GraphInv, SubmapsOK, Holding
<1>4. PICK i \in Int : i = j + 2
  OBVIOUS
<1>5. i * NumRangeData <= k
  <2>1. i * NumRangeData \in Int
    BY <1>0
  <2> QED
    BY <1>1, <1>2, <1>4, <2>1 DEF Complete
<1>6. i < len
  <2>1. k < len * NumRangeData
    BY <1>3 DEF IsBack
  <2>2. len <= i => len * NumRangeData <= i * NumRangeData
    BY Multiples
  <2>3. len * NumRangeData \in Int /\ i * NumRangeData \in Int
    BY <1>0
  <2> QED
    BY <1>5, <2>1, <2>2, <2>3
<1>7. PICK l \in 1..len : l = j + 1 /\ l + 1 = i
  BY <1>4, <1>6
<1> QED
  BY <1>1, <1>3, <1>5, <1>7

LEMMA IssueBuilds ==
    ASSUME ScanOK, NEW th \in Threads, IssueConstraint(th), ~failed'
    PROVE  \E pair \in Todo :
              /\ pair[1] \in NodeIds /\ pair[2] \in SubmapIds
              /\ \/ UNCHANGED CBP!vars
                 \/ \E g \in BOOLEAN : CBP!AddComputation(pair[2], pair[1], g)
<1>1. PICK pair \in scan.todo : ComputeConstraint(pair)
  BY DEF IssueConstraint
<1>2. scan # None /\ scan \in Scans /\ Todo = scan.todo
  BY TodoType DEF IssueConstraint, At
<1>3. pair[1] \in NodeIds /\ pair[2] \in SubmapIds
  BY <1>2 DEF Scans
<1>4. ASSUME UNCHANGED builder PROVE UNCHANGED CBP!vars
  BY <1>4 DEF CBP!vars, CBP!clientvars, CBP!matchvars, CBP!poolvars, builder
<1>5. ASSUME CB!MaybeAddGlobalConstraint(pair[2], pair[1])
      PROVE  CBP!AddComputation(pair[2], pair[1], TRUE)
  BY <1>5, BuilderActions DEF CB!MaybeAddGlobalConstraint
<1>6. ASSUME CB!MaybeAddConstraint(pair[2], pair[1])
      PROVE  UNCHANGED CBP!vars \/ CBP!AddComputation(pair[2], pair[1], FALSE)
  <2>1. UNCHANGED CB!vars => UNCHANGED builder
    BY DEF CB!vars, CB!clientvars, CB!matchvars, CB!poolvars, builder
  <2> QED
    BY <1>4, <1>6, <2>1, BuilderActions DEF CB!MaybeAddConstraint
<1> QED
  BY <1>1, <1>2, <1>3, <1>4, <1>5, <1>6 DEF ComputeConstraint

\* Submaps that are or will be matched, or for which a matcher is or will be built.
MatchesComplete ==
    \A t \in CBP!Unfinished : t.kind # "finish" => t.submap \in SubmapIds /\ Complete(t.submap)

LEMMA MatchesCompleteKept ==
    ASSUME GraphInv, GraphInv', PairsOK, MatchesComplete, [Next]_vars
    PROVE  MatchesComplete'
<1>0. /\ CBP!ConstantsOK /\ CBP!BuilderInv /\ failed' = FALSE /\ failed = FALSE
      /\ ScanOK /\ QueueOK /\ CBP!TypeOK
  BY BuilderAssumption, BuilderDefs
     DEF BuilderAssumption, GraphInv, ThreadInv, CBP!BuilderInv, CBP!NoCheckFails, CBP!TypeOK
<1>1. ASSUME \A t \in CBP!Unfinished' : t \in CBP!Unfinished \/ t.kind = "finish"
      PROVE  MatchesComplete'
  BY <1>1, CompleteStays DEF MatchesComplete
<1>2. ASSUME NEW th \in Threads, IssueConstraint(th) PROVE MatchesComplete'
  <2>1. PICK pair \in Todo :
              /\ pair[1] \in NodeIds /\ pair[2] \in SubmapIds
              /\ \/ UNCHANGED CBP!vars
                 \/ \E g \in BOOLEAN : CBP!AddComputation(pair[2], pair[1], g)
    BY <1>0, <1>2, IssueBuilds
  <2>2. CASE UNCHANGED CBP!vars
    BY <1>0, <1>1, <2>2, CBP!ClientBringsNoMatch DEF CBP!ClientBringsNoMatch
  <2>3. ASSUME NEW g \in BOOLEAN, CBP!AddComputation(pair[2], pair[1], g) PROVE MatchesComplete'
    <3>1. \A t \in CBP!Unfinished' : t \in CBP!Unfinished \/ t.submap = pair[2]
      BY <1>0, <2>1, <2>3, CBP!AddBringsMatch DEF CBP!AddBringsMatch
    <3>2. Complete(pair[2])'
      BY <2>1, TodoIsComplete, CompleteStays
    <3> QED
      BY <2>1, <3>1, <3>2, CompleteStays DEF MatchesComplete
  <2> QED
    BY <2>1, <2>2, <2>3
<1>3. CASE BuilderRests
  <2>1. UNCHANGED CBP!vars
    BY <1>0, <1>3
       DEF CBP!vars, CBP!clientvars, CBP!matchvars, CBP!poolvars, BuilderRests, builderButFailed
  <2> QED
    BY <1>0, <1>1, <2>1, CBP!ClientBringsNoMatch DEF CBP!ClientBringsNoMatch
<1>4. ASSUME CBP!NotifyEndOfScan \/ \E c \in {"loop_closure", "final"} : CBP!WhenDone(c)
      PROVE  MatchesComplete'
  BY <1>0, <1>1, <1>4, CBP!ClientBringsNoMatch DEF CBP!ClientBringsNoMatch
<1>5. ASSUME NEW w \in Workers, CBP!ConstructSubmapScanMatcher(w) PROVE MatchesComplete'
  BY <1>0, <1>1, <1>5, CBP!ConstructionBringsNoItem DEF CBP!ConstructionBringsNoItem
<1>6. ASSUME NEW w \in Workers,
             \/ CBP!Start(w) \/ (\E match \in BOOLEAN : CBP!ComputeConstraint(w, match))
             \/ CBP!FinishComputation(w) \/ CBP!ReturnFromCallback(w)
      PROVE  MatchesComplete'
  BY <1>0, <1>1, <1>6, CBP!WorkersBringNoItem DEF CBP!WorkersBringNoItem
<1> QED
  BY <1>0, <1>2, <1>3, <1>4, <1>5, <1>6, BuilderSteps

LEMMA MatchedAreFinal ==
    ASSUME GraphInv, MatchesComplete
    PROVE  MatchedSubmapsFinal
BY CompleteIsFinal, BuilderDefs DEF MatchesComplete, MatchedSubmapsFinal
-----------------------------------------------------------------------------
(* The matches, all in all.                                                  *)

\* What is matched, with what, and where the matches are.
MatchingInv == PairsOK /\ ComputedOnce /\ MatchesHeld /\ LinksOK /\ MatchesComplete

LEMMA InitialMatching ==
    ASSUME Init
    PROVE  MatchingInv
<1>1. CBP!Unmatched = {} /\ CBP!Found = {} /\ \A w \in Workers : call[w] = None
  BY BuilderAssumption, BuilderDefs, CBP!InitialMatches DEF BuilderAssumption, CBP!InitialMatches,
     Init
<1>2. /\ scan = None /\ considered = {} /\ matched = {} /\ constraints = {}
      /\ node_data = [t \in Trajectories |-> 0]
  BY DEF Init
<1>3. Todo = {}
  BY <1>2 DEF Todo
<1>4. PairsOK
  <2>1. \A n \in NodeIds : ~(n[2] < node_data[n[1]])
    BY <1>2, BoundsAssumption DEF NodeIds, BoundsAssumption
  <2> QED
    BY <1>2, <1>3, <2>1 DEF PairsOK
<1>5. ComputedOnce
  BY <1>1, <1>2 DEF ComputedOnce
<1>6. FoundPairs = {} /\ \A w \in Workers : ResultPairs(w) = {}
  BY <1>1 DEF FoundPairs, ResultPairs, Result
<1>7. MatchesHeld
  BY <1>2, <1>6 DEF MatchesHeld
<1>8. MatchesComplete
  <2>1. CBP!Unfinished = {}
    BY BuilderAssumption, BuilderDefs, CBP!InitialMatches DEF BuilderAssumption,
       CBP!InitialMatches, Init
  <2> QED
    BY <2>1 DEF MatchesComplete
<1> QED
  BY <1>4, <1>5, <1>7, <1>8, InitialLinks DEF MatchingInv

LEMMA MatchingInvariant == Spec => [](failed \/ (GraphInv /\ MatchingInv))
<1>1. Init => failed \/ (GraphInv /\ MatchingInv)
  BY InitialGraph, InitialMatching
<1>2. (failed \/ (GraphInv /\ MatchingInv)) /\ [Next]_vars => (failed \/ (GraphInv /\ MatchingInv))'
  <2>1. failed /\ [Next]_vars => failed'
    BY FailedIsFinal DEF vars, builder
  <2>2. ASSUME GraphInv, MatchingInv, [Next]_vars PROVE failed' \/ (GraphInv /\ MatchingInv)'
    <3>1. failed' \/ GraphInv'
      BY <2>2, GraphInvKept
    <3>2. GraphInv' => /\ PairsOK' /\ ComputedOnce' /\ MatchesHeld'
                       /\ LinksOK' /\ MatchesComplete'
      BY <2>2, PairsKept, ComputedOnceKept, MatchesHeldKept, LinksKept, MatchesCompleteKept
         DEF MatchingInv
    <3> QED
      BY <3>1, <3>2 DEF MatchingInv
  <2> QED
    BY <2>1, <2>2
<1> QED
  BY <1>1, <1>2, PTL DEF Spec

LEMMA OnceMatched ==
    ASSUME GraphInv, PairsOK
    PROVE  MatchedOnce
<1> USE DEF GraphInv, ThreadInv
<1>1. CASE scan = None
  <2>1. \A th \in Threads : pc[th] # "issue"
    BY <1>1 DEF ScanOK, Inside
  <2>2. Todo = {}
    BY <1>1 DEF Todo
  <2>3. DOMAIN submap_states \subseteq SubmapIds
    BY DEF GraphOK
  <2> QED
    BY <1>1, <2>1, <2>2, <2>3
       DEF MatchedOnce, PairsOK, OptimizedNodes, FinishedSubmaps, Due
<1>2. CASE scan # None
  BY <1>2 DEF MatchedOnce, PairsOK, Todo
<1> QED
  BY <1>1, <1>2

\* sparse_pose_graph.cc:189-229: as long as no CHECK fails, in particular as long as
\* RunFinalOptimization is not called, a node that is in the optimization problem was inserted
\* into a finished submap or tried against it, never both and never twice, for any number of
\* trajectories, of range data in a submap, and of workers that work off a queue meanwhile.
THEOREM EveryPairMatchedOnce ==
    /\ Spec => [](NoCheckFails => MatchedOnce)
    /\ ~Finishes => (Spec => []MatchedOnce)
<1>1. failed \/ (GraphInv /\ MatchingInv) => (NoCheckFails => MatchedOnce)
  BY OnceMatched DEF NoCheckFails, MatchingInv
<1>2. Spec => [](NoCheckFails => MatchedOnce)
  BY <1>1, MatchingInvariant, PTL
<1>3. ASSUME ~Finishes PROVE Spec => []MatchedOnce
  BY <1>2, <1>3, ChecksPass, PTL
<1> QED
  BY <1>2, <1>3

LEMMA ScansCounted == Spec => [](num_scans_since \in Nat)
<1>1. Init => num_scans_since \in Nat
  BY DEF Init
<1>2. num_scans_since \in Nat /\ [Next]_vars => (num_scans_since \in Nat)'
  <2> SUFFICES ASSUME num_scans_since \in Nat, [Next]_vars PROVE num_scans_since' \in Nat
    OBVIOUS
  <2>1. ASSUME NEW t \in Trajectories, AddScan(t) PROVE num_scans_since' \in Nat
    BY <2>1 DEF AddScan, queue
  <2>2. CASE AppendScan \/ AddImuData \/ RunFinalOptimization \/ Destroy \/ UNCHANGED vars
    BY <2>2 DEF AppendScan, AddImuData, RunFinalOptimization, Destroy, vars, queue
  <2>3. ASSUME NEW here, NEW next,
               WaitForAllComputations(here, next) \/ AwaitNotification(here, next)
        PROVE  num_scans_since' \in Nat
    BY <2>3 DEF WaitForAllComputations, AwaitNotification, queue
  <2>4. ASSUME NEW th \in Threads,
               \/ BeginScan(th) \/ IssueConstraint(th) \/ RequestLoopClosure(th)
               \/ HandleScanQueue(th) \/ RunOptimization(th) \/ PublishOptimization(th)
        PROVE  num_scans_since' \in Nat
    BY <2>4 DEF BeginScan, IssueConstraint, ComputeConstraint, RequestLoopClosure,
       HandleScanQueue, RunOptimization, PublishOptimization, queue
  <2>5. ASSUME NEW w \in Workers,
               \/ BuilderStep(w) \/ (\E match \in BOOLEAN : Match(w, match)) \/ EnterCallback(w)
               \/ Resume(w) \/ LeaveLoop(w) \/ WorkOffQueue(w) \/ ReturnFromCallback(w)
        PROVE  num_scans_since' \in Nat
    BY <2>5 DEF BuilderStep, Match, EnterCallback, Resume, LeaveLoop, WorkOffQueue,
       ReturnFromCallback, queue
  <2>6. ASSUME NEW th \in Threads, EndScan(th) PROVE num_scans_since' \in Nat
    BY <2>6 DEF EndScan
  <2> QED
    BY <2>1, <2>2, <2>3, <2>4, <2>5, <2>6, Steps
<1> QED
  BY <1>1, <1>2, PTL DEF Spec

LEMMA WellTyped ==
    ASSUME GraphInv, MatchingInv, num_scans_since \in Nat
    PROVE  TypeOK
<1> USE DEF GraphInv, ThreadInv, MatchingInv
<1>1. CB!TypeOK
  BY BuilderDefs DEF CBP!BuilderInv
<1>2. /\ submaps \in [Trajectories -> Seq(SM!Submap)]
      /\ mutex \in Threads \cup {Free}
      /\ run_loop_closure \in BOOLEAN
  BY DEF SubmapsOK, PlacesOK, QueueOK
<1>3. scan_queue = None \/ scan_queue \in Seq(ScanItems \cup {ImuItem})
  BY DEF QueueOK, Queues
<1>4. /\ DOMAIN submap_states \subseteq SubmapIds
      /\ \A s \in DOMAIN submap_states : submap_states[s].node_ids \subseteq NodeIds
  BY DEF GraphOK
<1>5. \A t \in Trajectories : node_data[t] <= Len(trajectory_nodes[t])
  BY DEF CountsOK
<1> QED
  BY <1>1, <1>2, <1>3, <1>4, <1>5 DEF TypeOK, ComputedOnce

\* The members keep their types; the optimization problem never runs ahead of the
\* trajectory nodes, and what is matched was considered.
THEOREM TypesKept ==
    /\ Spec => [](NoCheckFails => TypeOK)
    /\ ~Finishes => (Spec => []TypeOK)
<1>1. (failed \/ (GraphInv /\ MatchingInv)) /\ num_scans_since \in Nat => (NoCheckFails => TypeOK)
  BY WellTyped DEF NoCheckFails
<1>2. Spec => [](NoCheckFails => TypeOK)
  BY <1>1, MatchingInvariant, ScansCounted, PTL
<1>3. ASSUME ~Finishes PROVE Spec => []TypeOK
  BY <1>2, <1>3, ChecksPass, PTL
<1> QED
  BY <1>2, <1>3

\* constraint_builder.cc:191-223, 254-275; sparse_pose_graph.cc:256-265: as long as no CHECK
\* fails, in particular as long as RunFinalOptimization is not called, a match that was found
\* is in a slot of the builder, in the result a callback is about to append or in constraints_,
\* in one of them; and the components of the trajectories are those of the matches found.
THEOREM MatchesAreKept ==
    /\ Spec => [](NoCheckFails => MatchesKept)
    /\ ~Finishes => (Spec => []MatchesKept)
<1>1. failed \/ (GraphInv /\ MatchingInv) => (NoCheckFails => MatchesKept)
  BY HeldOnce, Linked DEF NoCheckFails, MatchingInv, MatchesKept
<1>2. Spec => [](NoCheckFails => MatchesKept)
  BY <1>1, MatchingInvariant, PTL
<1>3. ASSUME ~Finishes PROVE Spec => []MatchesKept
  BY <1>2, <1>3, ChecksPass, PTL
<1> QED
  BY <1>2, <1>3
-----------------------------------------------------------------------------
(* WaitForAllComputations, when loop closures are never requested.          *)

Awaiting == pc[Main] \in {"await_final", "await_destroy"}

\* Main has added its last scan, and waited once.
Added == Awaiting \/ pc[Main] \in {"optimize", "solve", "wait_destroy", "destroy", "destroyed"}

\* Worker w is about to run a callback.
Pending(w) == call[w] # None /\ pc[w] = "pool"
NonePending == \A w \in Workers : ~Pending(w)

\* The builder has nothing to do and has given away what it found.
NothingLeft == CBP!Unfinished = {} /\ slots = <<>> /\ when_done = None

\* There is never a queue, and a callback only while Main awaits it; when it is run, and
\* from then on, nothing is left in the builder.
WaitInv ==
    /\ scan_queue = None
    /\ \A th \in Threads : pc[th] # "close"
    /\ ~Awaiting => when_done = None /\ NonePending
    /\ Added /\ (Awaiting => notification) => NothingLeft /\ NonePending
    /\ \A w \in Workers : Pending(w) => NothingLeft /\ \A v \in Workers : Pending(v) => v = w

\* Without a queue the workers only match, and run the callback Main awaits.
LEMMA WorkersOnlyMatch ==
    ASSUME GraphInv, scan_queue = None
    PROVE  /\ pc[Main] # "register"
           /\ \A w \in Workers : /\ pc[w] \in {"pool", "return"}
                                 /\ Pending(w) => call[w].callback = "final"
<1> USE DEF GraphInv, ThreadInv
<1>1. \A th \in Threads : ~Works(th)
  BY DEF OneOwner
<1>2. Main \in Threads /\ \A w \in Workers : w \in Threads
  BY DEF Threads
<1>3. ASSUME NEW w \in Workers PROVE pc[w] \in {"pool", "return"}
  BY <1>1, <1>2 DEF CallsOK, Works
<1>4. ASSUME NEW w \in Workers, Pending(w) PROVE call[w].callback = "final"
  <2>1. CBP!TypeOK /\ CBP!ConstantsOK
    BY BuilderAssumption, BuilderDefs DEF BuilderAssumption, CBP!BuilderInv
  <2>2. call[w].callback \in {"loop_closure", "final"}
    BY <1>4, <2>1, CallFields DEF Pending
  <2> QED
    BY <1>1, <1>2, <1>4, <2>2 DEF Works, Pending
<1> QED
  BY <1>1, <1>2, <1>3, <1>4 DEF Works

\* Which steps that leaves.
LEMMA WaitingSteps ==
    ASSUME GraphInv, WaitInv, [Next]_vars
    PROVE  \/ \E t \in Trajectories : AddScan(t)
           \/ AppendScan \/ AddImuData \/ RunFinalOptimization
           \/ BeginScan(Main) \/ IssueConstraint(Main) \/ EndScan(Main)
           \/ \E here \in {"wait_final", "wait_destroy"}, next \in {"await_final", "await_destroy"} :
                 WaitForAllComputations(here, next)
           \/ \E here \in {"await_final", "await_destroy"}, next \in {"optimize", "destroy"} :
                 AwaitNotification(here, next)
           \/ Destroy \/ RunOptimization(Main) \/ PublishOptimization(Main)
           \/ \E w \in Workers : \/ BuilderStep(w) \/ \E match \in BOOLEAN : Match(w, match)
                                 \/ EnterCallback(w) \/ ReturnFromCallback(w)
           \/ UNCHANGED vars
<1> USE DEF At
<1>1. /\ \A w \in Workers : pc[w] \in {"pool", "return"}
      /\ pc[Main] \notin {"close", "register"}
  BY WorkersOnlyMatch DEF WaitInv, Threads
<1>2. ASSUME NEW w \in Workers
      PROVE  /\ ~BeginScan(w) /\ ~IssueConstraint(w) /\ ~EndScan(w) /\ ~RequestLoopClosure(w)
             /\ ~HandleScanQueue(w) /\ ~RunOptimization(w) /\ ~PublishOptimization(w)
             /\ ~Resume(w) /\ ~LeaveLoop(w) /\ ~WorkOffQueue(w)
  <2>1. pc[w] \in {"pool", "return"}
    BY <1>1
  <2> QED
    BY <2>1 DEF BeginScan, IssueConstraint, EndScan, RequestLoopClosure, HandleScanQueue,
       RunOptimization, PublishOptimization, Resume, LeaveLoop, WorkOffQueue
<1>3. ~RequestLoopClosure(Main) /\ ~HandleScanQueue(Main)
  BY <1>1 DEF RequestLoopClosure, HandleScanQueue
<1>4. \A th \in Threads : th = Main \/ th \in Workers
  BY DEF Threads
<1> QED
  BY <1>2, <1>3, <1>4, Steps

LEMMA NoFailureWaiting ==
    ASSUME GraphInv, WaitInv, [Next]_vars
    PROVE  ~failed'
<1> USE DEF GraphInv, ThreadInv
<1>0. /\ ~failed /\ CBP!TypeOK /\ CBP!ConstantsOK
      /\ Main \in Threads
  BY BuilderAssumption, BuilderDefs
     DEF BuilderAssumption, CBP!BuilderInv, CBP!NoCheckFails, Threads
<1>1. CASE BuilderRests /\ UNCHANGED failed
  BY <1>0, <1>1
<1>2. CASE Destroy
  <2>1. Added /\ ~Awaiting
    BY <1>2 DEF Destroy, At, Added, Awaiting
  <2>2. NothingLeft /\ scan_queue = None
    BY <2>1 DEF WaitInv
  <2>3. /\ \A c \in CB!Computations : pending_computations[c] = 0
        /\ \A s \in SubmapIds : queued_work_items[s] = {}
    BY <1>0, <2>2, CBP!NothingLeftToDo
       DEF CBP!NothingLeftToDo, NothingLeft, CB!Computations, CBP!Computations
  <2> QED
    BY <1>2, <2>2, <2>3 DEF Destroy, NothingLeft
<1>3. ASSUME NEW th \in Threads, BeginScan(th) PROVE ~failed'
  BY <1>3, BeginScanPasses
<1>4. ASSUME NEW th \in Threads, RequestLoopClosure(th) PROVE ~failed'
  BY <1>4 DEF RequestLoopClosure, At, WaitInv
<1>5. ASSUME NEW s \in SubmapIds, NEW n \in NodeIds, NEW g \in BOOLEAN,
             CBP!AddComputation(s, n, g)
      PROVE  ~failed'
  BY <1>5 DEF CBP!AddComputation
<1>6. CASE CBP!NotifyEndOfScan
  BY <1>6 DEF CBP!NotifyEndOfScan
<1>7. ASSUME NEW th \in Threads PROVE ~HandleScanQueue(th)
  BY WorkersOnlyMatch DEF HandleScanQueue, At, Threads, WaitInv
<1>8. CASE pc[Main] \in {"wait_final", "wait_destroy"} /\ CBP!WhenDone("final")
  <2>1. when_done = None
    BY <1>8 DEF WaitInv, Awaiting
  <2> QED
    BY <1>8, <2>1 DEF CBP!WhenDone
<1>9. ASSUME NEW w \in Workers, CBP!Start(w) \/ CBP!ConstructSubmapScanMatcher(w)
                                \/ CBP!ReturnFromCallback(w)
      PROVE  ~failed'
  BY <1>9 DEF CBP!Start, CBP!ConstructSubmapScanMatcher, CBP!ReturnFromCallback
<1>10. ASSUME NEW w \in Workers, NEW match \in BOOLEAN, CBP!ComputeConstraint(w, match)
       PROVE  ~failed'
  <2>1. CBP!BuilderInv'
    BY <1>0, <1>10, CBP!ComputeKeepsInv DEF CBP!ComputeKeepsInv
  <2> QED
    BY <2>1 DEF CBP!BuilderInv, CBP!NoCheckFails
<1>11. ASSUME NEW w \in Workers, CBP!FinishComputation(w) PROVE ~failed'
  <2>1. CBP!BuilderInv'
    BY <1>0, <1>11, CBP!FinishKeepsInv DEF CBP!FinishKeepsInv
  <2> QED
    BY <2>1 DEF CBP!BuilderInv, CBP!NoCheckFails
<1> QED
  BY <1>0, <1>1, <1>2, <1>3, <1>4, <1>5, <1>6, <1>7, <1>8, <1>9, <1>10, <1>11, BuilderSteps
     DEF Checks

\* What the workers do to the builder while they match.
LEMMA MatchingLeaves ==
    ASSUME GraphInv, NEW w \in Workers,
           BuilderStep(w) \/ \E match \in BOOLEAN : Match(w, match)
    PROVE  /\ ~NothingLeft
           /\ \/ UNCHANGED <<call, when_done>>
              \/ /\ when_done # None
                 /\ NothingLeft'
                 /\ \A v \in Workers \ {w} : call'[v] = call[v]
<1> USE DEF GraphInv, ThreadInv
<1>0. CBP!ConstantsOK /\ CBP!BuilderInv
  BY BuilderAssumption, BuilderDefs DEF BuilderAssumption
<1>1. \/ CBP!Start(w) \/ CBP!ConstructSubmapScanMatcher(w)
      \/ CBP!FinishComputation(w)
      \/ \E match : CBP!ComputeConstraint(w, match)
  BY BuilderActions DEF BuilderStep, Match
<1>2. ~NothingLeft
  BY <1>0, <1>1, CBP!NothingLeftToDo DEF CBP!NothingLeftToDo, NothingLeft
<1>3. CASE CBP!Start(w) \/ CBP!ConstructSubmapScanMatcher(w)
           \/ \E match : CBP!ComputeConstraint(w, match)
  <2>1. UNCHANGED <<call, when_done>>
    BY <1>3 DEF CBP!Start, CBP!ConstructSubmapScanMatcher, CBP!ComputeConstraint, CBP!clientvars
  <2> QED
    BY <1>2, <2>1
<1>4. CASE CBP!FinishComputation(w)
  <2>1. \/ UNCHANGED <<call, when_done>>
        \/ /\ when_done # None /\ when_done' = None
           /\ \A v \in Workers \ {w} : call'[v] = call[v]
           /\ CBP!Unfinished' = {} /\ slots' = <<>>
    BY <1>0, <1>4, CBP!CallbackLeavesNothing DEF CBP!CallbackLeavesNothing
  <2> QED
    BY <1>2, <2>1 DEF NothingLeft
<1> QED
  BY <1>1, <1>3, <1>4

LEMMA WaitInvKept ==
    ASSUME OptimizeEvery = 0, GraphInv, WaitInv, [Next]_vars
    PROVE  WaitInv'
<1> USE DEF Goto, At
<1>0. /\ Main \in Threads /\ pc \in [Threads -> MainPlaces \cup WorkerPlaces]
      /\ \A w \in Workers : w # Main /\ w \in Threads
      /\ call \in [Workers -> CBP!Call \cup {None}]
      /\ \A w \in Workers : pc[w] \in {"pool", "return"}
  BY ThreadsAssumption, WorkersOnlyMatch
     DEF ThreadsAssumption, GraphInv, ThreadInv, PlacesOK, Threads, CBP!BuilderInv, CBP!TypeOK,
         WaitInv
<1>1. scan_queue = None /\ (\A th \in Threads : pc[th] # "close")
  BY DEF WaitInv
\* Main goes on while nothing happens to the callbacks.
<1>2. ASSUME NEW l, pc' = [pc EXCEPT ![Main] = l], l # "close", scan_queue' = None,
             UNCHANGED call
      PROVE  /\ scan_queue' = None
             /\ \A th \in Threads : pc'[th] # "close"
             /\ pc'[Main] = l
             /\ \A w \in Workers : Pending(w)' <=> Pending(w)
  <2>1. pc'[Main] = l /\ \A th \in Threads \ {Main} : pc'[th] = pc[th]
    BY <1>0, <1>2
  <2> QED
    BY <1>0, <1>1, <1>2, <2>1 DEF Pending
<1>3. ASSUME NEW l \in {"idle", "append", "begin", "issue", "wait_final"},
             pc' = [pc EXCEPT ![Main] = l], scan_queue' = None,
             ~Awaiting, UNCHANGED <<call, when_done>>
      PROVE  WaitInv'
  <2>1. pc'[Main] = l /\ (\A th \in Threads : pc'[th] # "close")
        /\ \A w \in Workers : Pending(w)' <=> Pending(w)
    BY <1>2, <1>3
  <2>2. when_done' = None /\ \A w \in Workers : ~Pending(w)'
    BY <1>3, <2>1 DEF WaitInv, NonePending
  <2>3. ~Added'
    BY <2>1 DEF Added, Awaiting
  <2> QED
    BY <1>3, <2>1, <2>2, <2>3 DEF WaitInv, NonePending
<1>4. CASE \/ \E t \in Trajectories : AddScan(t)
           \/ AppendScan \/ AddImuData \/ RunFinalOptimization
           \/ BeginScan(Main) \/ IssueConstraint(Main) \/ EndScan(Main)
  <2>1. UNCHANGED <<call, when_done>>
    BY <1>4, OtherCalls
  <2>2. /\ pc[Main] \in {"idle", "append", "begin", "issue"}
        /\ scan_queue' = scan_queue
        /\ \/ UNCHANGED pc
           \/ \E l \in {"idle", "append", "begin", "issue", "wait_final"} :
                 pc' = [pc EXCEPT ![Main] = l]
    <3>1. CASE \E t \in Trajectories : AddScan(t)
      BY <3>1 DEF AddScan, queue
    <3>2. CASE AppendScan \/ AddImuData \/ RunFinalOptimization
      BY <1>1, <3>2 DEF AppendScan, AddImuData, RunFinalOptimization, queue
    <3>3. CASE BeginScan(Main) \/ IssueConstraint(Main)
      BY <3>3 DEF BeginScan, IssueConstraint, ComputeConstraint, queue
    <3>4. CASE EndScan(Main)
      <4>1. ItemDone(Main)
        BY <3>4 DEF EndScan
      <4> QED
        BY <3>4, <4>1 DEF EndScan, ItemDone
    <3> QED
      BY <1>4, <3>1, <3>2, <3>3, <3>4
  <2>3. ~Awaiting
    BY <2>2 DEF Awaiting
  <2>4. UNCHANGED pc => pc' = [pc EXCEPT ![Main] = pc[Main]]
    BY <1>0
  <2> QED
    BY <1>1, <1>3, <2>1, <2>2, <2>3, <2>4
<1>5. ASSUME NEW here \in {"wait_final", "wait_destroy"},
             NEW next \in {"await_final", "await_destroy"}, WaitForAllComputations(here, next)
      PROVE  WaitInv'
  <2>1. /\ pc[Main] = here /\ pc' = [pc EXCEPT ![Main] = next]
        /\ UNCHANGED <<call, scan_queue>> /\ notification' = FALSE
    BY <1>5, OtherCalls DEF WaitForAllComputations, queue
  <2>2. pc'[Main] = next /\ (\A th \in Threads : pc'[th] # "close")
        /\ \A w \in Workers : Pending(w)' <=> Pending(w)
    BY <1>1, <1>2, <2>1
  <2>3. \A w \in Workers : ~Pending(w)'
    BY <2>1, <2>2 DEF WaitInv, NonePending, Awaiting
  <2>4. Awaiting'
    BY <2>2 DEF Awaiting
  <2> QED
    BY <1>1, <2>1, <2>2, <2>3, <2>4 DEF WaitInv, NonePending
\* Main goes on when nothing is left.
<1>6. ASSUME NEW l \in {"optimize", "solve", "wait_destroy", "destroy", "destroyed"},
             pc' = [pc EXCEPT ![Main] = l], Added, Awaiting => notification,
             UNCHANGED <<scan_queue, CBP!Unfinished, slots, when_done, call>>
      PROVE  WaitInv'
  <2>1. NothingLeft /\ NonePending
    BY <1>6 DEF WaitInv
  <2>2. pc'[Main] = l /\ (\A th \in Threads : pc'[th] # "close")
        /\ \A w \in Workers : Pending(w)' <=> Pending(w)
    BY <1>1, <1>2, <1>6
  <2>3. NothingLeft' /\ \A w \in Workers : ~Pending(w)'
    BY <1>6, <2>1, <2>2 DEF NothingLeft, NonePending
  <2> QED
    BY <1>1, <1>6, <2>2, <2>3 DEF WaitInv, NonePending, NothingLeft
<1>7. CASE \/ \E here \in {"await_final", "await_destroy"}, next \in {"optimize", "destroy"} :
                 AwaitNotification(here, next)
           \/ Destroy \/ RunOptimization(Main) \/ PublishOptimization(Main)
  <2>1. /\ Added /\ (Awaiting => notification)
        /\ UNCHANGED <<scan_queue, builderButFailed>>
        /\ \E l \in {"optimize", "solve", "wait_destroy", "destroy", "destroyed"} :
              pc' = [pc EXCEPT ![Main] = l]
    <3>1. ASSUME NEW here \in {"await_final", "await_destroy"}, NEW next \in {"optimize", "destroy"},
                 AwaitNotification(here, next)
          PROVE  /\ Added /\ (Awaiting => notification)
                 /\ UNCHANGED <<scan_queue, builderButFailed>>
                 /\ pc' = [pc EXCEPT ![Main] = next]
      BY <3>1 DEF AwaitNotification, Added, Awaiting, builder, builderButFailed, queue
    <3>2. CASE Destroy
      BY <3>2 DEF Destroy, Added, Awaiting, builderButFailed, queue
    <3>3. CASE RunOptimization(Main) \/ PublishOptimization(Main)
      BY <3>3 DEF RunOptimization, PublishOptimization, AfterOptimization, Added, Awaiting,
         builder, builderButFailed, queue
    <3> QED
      BY <1>7, <3>1, <3>2, <3>3
  <2>2. UNCHANGED CBP!Unfinished
    BY <2>1 DEF builderButFailed, CBP!Unfinished
  <2> QED
    BY <1>6, <2>1, <2>2 DEF builderButFailed
<1>8. ASSUME NEW w \in Workers, BuilderStep(w) \/ \E match \in BOOLEAN : Match(w, match)
      PROVE  WaitInv'
  <2>1. UNCHANGED <<pc, scan_queue, notification>>
    BY <1>8 DEF BuilderStep, Match, queue, calls
  <2>2. /\ ~NothingLeft
        /\ \/ UNCHANGED <<call, when_done>>
           \/ /\ when_done # None
              /\ NothingLeft'
              /\ \A v \in Workers \ {w} : call'[v] = call[v]
    BY <1>8, MatchingLeaves
  <2>3. NonePending /\ ~(Added /\ (Awaiting => notification))
    BY <2>2 DEF WaitInv, NonePending
  <2>4. ~(Added' /\ (Awaiting' => notification'))
    BY <2>1, <2>3 DEF Added, Awaiting
  <2>5. CASE UNCHANGED <<call, when_done>>
    <3>1. \A v \in Workers : ~Pending(v)'
      BY <2>1, <2>3, <2>5 DEF NonePending, Pending
    <3>2. ~Awaiting' => when_done' = None
      BY <2>1, <2>5 DEF WaitInv, Awaiting
    <3> QED
      BY <1>1, <2>1, <2>4, <3>1, <3>2 DEF WaitInv, NonePending
  <2>6. CASE when_done # None /\ NothingLeft' /\ \A v \in Workers \ {w} : call'[v] = call[v]
    <3>1. Awaiting'
      BY <2>1, <2>6 DEF WaitInv, Awaiting
    <3>2. \A v \in Workers \ {w} : ~Pending(v)'
      BY <2>1, <2>3, <2>6 DEF NonePending, Pending
    <3> QED
      BY <1>1, <2>1, <2>4, <2>6, <3>1, <3>2 DEF WaitInv
  <2> QED
    BY <2>2, <2>5, <2>6
<1>9. ASSUME NEW w \in Workers, EnterCallback(w) PROVE WaitInv'
  <2>1. Pending(w) /\ UNCHANGED <<call, when_done, slots, CBP!Unfinished, scan_queue>>
    BY <1>9 DEF EnterCallback, Pending, builder, CBP!Unfinished, queue
  <2>2. call[w].callback = "final" /\ NothingLeft /\ \A v \in Workers : Pending(v) => v = w
    BY <1>1, <2>1, WorkersOnlyMatch DEF WaitInv
  <2>3. pc' = [pc EXCEPT ![w] = "return"]
    BY <1>9, <2>2 DEF EnterCallback
  <2>4. pc'[w] = "return" /\ \A th \in Threads \ {w} : pc'[th] = pc[th]
    BY <1>0, <2>3
  <2>5. \A v \in Workers : ~Pending(v)'
    BY <1>0, <2>1, <2>2, <2>4 DEF Pending
  <2>6. NothingLeft'
    BY <2>1, <2>2 DEF NothingLeft
  <2> QED
    BY <1>1, <2>1, <2>4, <2>5, <2>6 DEF WaitInv, NonePending, NothingLeft
<1>10. ASSUME NEW w \in Workers, ReturnFromCallback(w) PROVE WaitInv'
  <2>1. /\ UNCHANGED <<when_done, slots, scan_queue, notification>>
        /\ call' = [call EXCEPT ![w] = None]
        /\ pc' = [pc EXCEPT ![w] = "pool"]
    BY <1>10 DEF ReturnFromCallback, CB!ReturnFromCallback, CB!clientvars, CB!matchvars, queue,
       calls
  <2>2. CBP!Unfinished = {} => CBP!Unfinished' = {}
    <3>1. CBP!ReturnFromCallback(w)
      BY <1>10, BuilderActions DEF ReturnFromCallback
    <3>2. CBP!ConstantsOK /\ CBP!BuilderInv
      BY BuilderAssumption, BuilderDefs DEF BuilderAssumption, GraphInv, ThreadInv
    <3> QED
      BY <3>1, <3>2, CBP!NothingLeftToDo DEF CBP!NothingLeftToDo
  <2>3. NothingLeft => NothingLeft'
    BY <2>1, <2>2 DEF NothingLeft
  <2>4. pc'[w] = "pool" /\ \A th \in Threads \ {w} : pc'[th] = pc[th]
    BY <1>0, <2>1
  <2>5. \A v \in Workers : Pending(v)' => Pending(v)
    BY <1>0, <2>1, <2>4 DEF Pending
  <2>6. (Awaiting' <=> Awaiting) /\ (Added' <=> Added)
    BY <1>0, <2>4 DEF Awaiting, Added
  <2> QED
    BY <1>1, <2>1, <2>3, <2>4, <2>5, <2>6 DEF WaitInv, NonePending
<1>11. CASE UNCHANGED vars
  <2>1. /\ UNCHANGED <<pc, scan_queue, notification, when_done, slots, call>>
        /\ UNCHANGED CBP!Unfinished
    BY <1>11 DEF vars, builder, calls, queue, CBP!Unfinished
  <2>2. /\ Awaiting' <=> Awaiting
        /\ Added' <=> Added
        /\ NothingLeft' <=> NothingLeft
        /\ \A w \in Workers : Pending(w)' <=> Pending(w)
    BY <2>1 DEF Awaiting, Added, NothingLeft, Pending
  <2> QED
    BY <1>1, <2>1, <2>2 DEF WaitInv, NonePending
<1> QED
  BY <1>4, <1>5, <1>7, <1>8, <1>9, <1>10, <1>11, WaitingSteps

LEMMA WaitedInvariant ==
    ASSUME OptimizeEvery = 0
    PROVE  Spec => [](GraphInv /\ MatchingInv /\ WaitInv)
<1>1. Init => GraphInv /\ MatchingInv /\ WaitInv
  <2>1. SUFFICES ASSUME Init PROVE WaitInv
    BY InitialGraph, InitialMatching
  <2>2. /\ scan_queue = None /\ when_done = None /\ \A w \in Workers : call[w] = None
        /\ pc = [th \in Threads |-> IF th = Main THEN "idle" ELSE "pool"]
    BY <2>1 DEF Init, CB!Init
  <2> QED
    BY <2>2 DEF WaitInv, Awaiting, Added, NonePending, Pending, Threads
<1>2. GraphInv /\ MatchingInv /\ WaitInv /\ [Next]_vars => (GraphInv /\ MatchingInv /\ WaitInv)'
  <2> SUFFICES ASSUME GraphInv, MatchingInv, WaitInv, [Next]_vars
               PROVE  GraphInv' /\ MatchingInv' /\ WaitInv'
    OBVIOUS
  <2>1. GraphInv'
    BY NoFailureWaiting, GraphInvKept
  <2>2. PairsOK' /\ ComputedOnce' /\ MatchesHeld' /\ LinksOK' /\ MatchesComplete'
    BY <2>1, PairsKept, ComputedOnceKept, MatchesHeldKept, LinksKept, MatchesCompleteKept
       DEF MatchingInv
  <2>3. WaitInv'
    BY WaitInvKept
  <2> QED
    BY <2>1, <2>2, <2>3 DEF MatchingInv
<1> QED
  BY <1>1, <1>2, PTL DEF Spec

LEMMA Collected ==
    ASSUME GraphInv, MatchingInv, WaitInv
    PROVE  CaughtUp
<1> SUFFICES ASSUME pc[Main] \in {"optimize", "destroy"}
             PROVE  /\ scan_queue = None
                    /\ CB!Unfinished = {}
                    /\ matched = constraints
                    /\ \A t \in Trajectories : node_data[t] = Len(trajectory_nodes[t])
  BY DEF CaughtUp
<1>1. NothingLeft /\ NonePending /\ scan_queue = None
  BY DEF WaitInv, Added, Awaiting
<1>2. CB!Unfinished = {}
  BY <1>1, BuilderDefs DEF NothingLeft
<1>3. matched = constraints
  <2>1. CBP!Found = {}
    BY <1>1 DEF NothingLeft, CBP!Found
  <2>2. FoundPairs = {}
    BY <2>1 DEF FoundPairs
  <2>3. \A w \in Workers : Result(w) = {}
    BY <1>1 DEF NonePending, Pending, Result
  <2>4. \A w \in Workers : ResultPairs(w) = {}
    BY <2>3 DEF ResultPairs
  <2> QED
    BY <2>2, <2>4 DEF MatchingInv, MatchesHeld
<1>4. ASSUME NEW t \in Trajectories PROVE node_data[t] = Len(trajectory_nodes[t])
  <2>1. Backlog = <<>>
    BY <1>1 DEF Backlog
  <2>2. InLine(Backlog, t, node_data[t], Len(trajectory_nodes[t]))
    BY DEF GraphInv, BacklogOK
  <2>3. \A k \in Nat : ~(node_data[t] <= k /\ k < Len(trajectory_nodes[t]))
    BY <2>1, <2>2 DEF InLine
  <2>4. /\ node_data[t] \in Nat /\ Len(trajectory_nodes[t]) \in Nat
        /\ node_data[t] <= Len(trajectory_nodes[t])
    BY DEF GraphInv, CountsOK
  <2> QED
    BY <2>3, <2>4
<1> QED
  BY <1>1, <1>2, <1>3, <1>4

\* sparse_pose_graph.h:141-142, sparse_pose_graph.cc:307-336: when loop closures are switched
\* off, WaitForAllComputations keeps its promise: when it returns, every scan is in the
\* optimization problem, every computation has ended and every match is in constraints_; and
\* no CHECK fails, up to those of the destructors.  With loop closures it does not.
THEOREM WaitedForAll ==
    OptimizeEvery = 0 => (Spec => []NoCheckFails) /\ (Spec => []CaughtUp)
<1>1. ASSUME OptimizeEvery = 0 PROVE (Spec => []NoCheckFails) /\ (Spec => []CaughtUp)
  <2>1. GraphInv /\ MatchingInv /\ WaitInv => NoCheckFails /\ CaughtUp
    BY Collected DEF GraphInv, ThreadInv, CBP!BuilderInv, CBP!NoCheckFails, NoCheckFails
  <2>2. Spec => [](GraphInv /\ MatchingInv /\ WaitInv)
    BY <1>1, WaitedInvariant
  <2> QED
    BY <2>1, <2>2, PTL
<1> QED
  BY <1>1
=============================================================================
