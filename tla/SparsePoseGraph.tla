--------------------------- MODULE SparsePoseGraph ---------------------------
(***************************************************************************)
(* mapping_2d::SparsePoseGraph over its ConstraintBuilder and the thread   *)
(* pool: the main thread adds scans and IMU data, the workers match scans  *)
(* and run the loop closure callback that optimizes and then works off     *)
(* what was queued meanwhile.                                              *)
(*                                                                         *)
(* Poses are abstracted to what the ordering can spoil: the number of the  *)
(* optimization a pose is expressed in.  The constraints of a scan with    *)
(* the submaps it was inserted into are exactly the node_ids of the        *)
(* submap states; constraints holds the others, INTER_SUBMAP.              *)
(***************************************************************************)
EXTENDS Integers, Sequences, FiniteSets

CONSTANTS Workers,        \* the threads of the pool
          Main,           \* the thread that calls the pose graph
          Trajectories,   \* trajectory ids, natural numbers
          MaxNodes,       \* bound: scans of one trajectory
          MaxImu,         \* bound: calls of AddImuData
          NumRangeData,   \* range data per submap
          OptimizeEvery,  \* optimize_every_n_scans
          Finishes,       \* whether Main ends with RunFinalOptimization
          Free,           \* owner of a mutex nobody holds
          None, Idle

ASSUME TrajectoriesAssumption == Trajectories \subseteq Nat /\ IsFiniteSet(Trajectories)
ASSUME BoundsAssumption == /\ MaxNodes \in Nat \ {0}
                           /\ MaxImu \in Nat
                           /\ OptimizeEvery \in Nat
                           /\ NumRangeData \in Nat \ {0}
ASSUME ThreadsAssumption == Main \notin Workers /\ Free \notin Workers \cup {Main}

Threads == Workers \cup {Main}

\* Ids are pairs <<trajectory, index>>.
NodeIds == Trajectories \X (0..MaxNodes - 1)
SubmapIds == Trajectories \X (0..MaxNodes)
IdLess(a, b) == a[1] < b[1] \/ (a[1] = b[1] /\ a[2] < b[2])

SM == INSTANCE Submaps

VARIABLES
    \* ConstraintBuilder
    when_done, current_computation, pending_computations, slots,
    scan_matchers, queued_work_items, work_queue, executing, computed, call,
    failed,
    \* the trajectory builders
    submaps,             \* what each trajectory's Submaps holds
    \* SparsePoseGraph
    mutex,               \* owner of mutex_
    scan_queue,          \* scan_queue_, None when there is none
    num_scans_since,     \* num_scans_since_last_loop_closure_
    run_loop_closure,    \* run_loop_closure_
    submap_states,       \* submap_states_: known ids to finished and node_ids
    trajectory_nodes,    \* trajectory_nodes_: the frame of each node's pose
    node_data,           \* nodes in optimization_problem_, per trajectory
    submap_data,         \* submaps in optimization_problem_, per trajectory
    imu_data,            \* IMU data in optimization_problem_
    constraints,         \* INTER_SUBMAP constraints in constraints_
    connectivity,        \* trajectory_connectivity_, as a partition
    connected_components,\* connected_components_, as last published
    frame,               \* optimizations published, per trajectory
    \* the threads
    pc,                  \* where each thread is
    incoming,            \* arguments of Main's AddScan call
    scan,                \* the ComputeConstraintsForScan being executed
    imu_calls,           \* calls of AddImuData
    notification,        \* set by the callback of WaitForAllComputations
    \* history
    considered,          \* pairs ComputeConstraint was called for
    matched              \* pairs for which a match was found

builder == <<when_done, current_computation, pending_computations, slots,
             scan_matchers, queued_work_items, work_queue, executing, computed,
             call, failed>>
problem == <<node_data, submap_data, imu_data>>
published == <<trajectory_nodes, connected_components, frame>>
queue == <<scan_queue, num_scans_since, run_loop_closure>>
history == <<considered, matched>>
calls == <<incoming, imu_calls, notification>>
vars == <<builder, submaps, mutex, queue, submap_states, problem, published,
          constraints, connectivity, pc, calls, scan, history>>

CB == INSTANCE ConstraintBuilder
        WITH Submaps <- SubmapIds, Nodes <- NodeIds, constraints <- slots,
             Callbacks <- {"loop_closure", "final"}, MaxSlots <- 0,
             MaxScans <- MaxNodes * Cardinality(Trajectories)

\* num_trajectory_nodes_
NumTrajectoryNodes ==
    Cardinality({n \in NodeIds : n[2] < Len(trajectory_nodes[n[1]])})

\* Work items of scan_queue_.
ScanItems == [kind : {"scan"}, trajectory : Trajectories,
              index : 0..MaxNodes - 1, insertion : SUBSET SubmapIds,
              finished : BOOLEAN]
ImuItem == [kind |-> "imu"]
Queues == Seq(ScanItems \cup {ImuItem})
Scans == [item : ScanItems, todo : SUBSET (NodeIds \X SubmapIds)]
Incoming == [kind : {"scan"}, trajectory : Trajectories, insertion : SUBSET SubmapIds,
             finished : BOOLEAN, frame : Nat]

\* A null pointer is none of the values it stands beside.
ASSUME NullAssumption == None \notin Queues \cup Scans \cup Incoming
ASSUME BuilderAssumption == CB!ConstantsOK

\* Mutant: the submap that was just started is taken for the finished one.
FrontSubmapIsLast(item) == CHOOSE s \in item.insertion : \A r \in item.insertion : ~IdLess(s, r)

\* The first and the last of a scan's insertion submaps.
FrontSubmap(item) == CHOOSE s \in item.insertion : \A r \in item.insertion : ~IdLess(r, s)
BackSubmap(item) == CHOOSE s \in item.insertion : \A r \in item.insertion : ~IdLess(s, r)

Init == /\ CB!Init
        /\ submaps = [t \in Trajectories |-> SM!InitialSubmaps]
        /\ mutex = Free
        /\ scan_queue = None
        /\ num_scans_since = 0
        /\ run_loop_closure = FALSE
        /\ submap_states = <<>>
        /\ trajectory_nodes = [t \in Trajectories |-> <<>>]
        /\ node_data = [t \in Trajectories |-> 0]
        /\ submap_data = [t \in Trajectories |-> 0]
        /\ imu_data = 0
        /\ constraints = {}
        /\ connectivity = {}
        /\ connected_components = {}
        /\ frame = [t \in Trajectories |-> 0]
        /\ pc = [th \in Threads |-> IF th = Main THEN "idle" ELSE "pool"]
        /\ incoming = None
        /\ scan = None
        /\ imu_calls = 0
        /\ notification = FALSE
        /\ considered = {}
        /\ matched = {}

\* Thread th goes on at label l.
Goto(th, l) == pc' = [pc EXCEPT ![th] = l]
At(th, l) == ~failed /\ pc[th] = l
-----------------------------------------------------------------------------
(* Main: scans and IMU data. *)

\* The trajectory builder inserts the range data and calls AddScan, which
\* reads GetLocalToGlobalTransform in a critical section of its own.
AddScan(t) ==
    LET old == submaps[t]
        new == SM!InsertRangeData(old)
        front == SM!MatchingIndex(old)
    IN  /\ At(Main, "idle")
        /\ mutex = Free
        /\ Len(trajectory_nodes[t]) < MaxNodes
        /\ submaps' = [submaps EXCEPT ![t] = new]
        /\ incoming' = [kind |-> "scan", trajectory |-> t,
                        insertion |-> {<<t, i>> : i \in SM!InsertionIndices(old)},
                        finished |-> new[front + 1].finished,
                        frame |-> frame[t]]
        /\ Goto(Main, "append")
        /\ UNCHANGED <<builder, mutex, queue, submap_states, problem, published,
                       constraints, connectivity, imu_calls, notification, scan,
                       history>>

\* Mutant: the scan is processed at once although there is a queue.
AppendIgnoringQueue ==
    LET t == incoming.trajectory
        item == [kind |-> "scan", trajectory |-> t,
                 index |-> Len(trajectory_nodes[t]),
                 insertion |-> incoming.insertion,
                 finished |-> incoming.finished]
        known == DOMAIN submap_states
    IN  /\ At(Main, "append")
        /\ mutex = Free
        /\ trajectory_nodes' =
              [trajectory_nodes EXCEPT ![t] = Append(@, incoming.frame)]
        /\ connectivity' = IF t \in UNION connectivity THEN connectivity
                           ELSE connectivity \cup {{t}}
        /\ submap_states' =
              [s \in known \cup {BackSubmap(item)} |->
                 IF s \in known THEN submap_states[s]
                 ELSE [finished |-> FALSE, node_ids |-> {}]]
        /\ incoming' = None
        /\ mutex' = Main
        /\ scan' = [item |-> item, todo |-> {}]
        /\ Goto(Main, "begin")
        /\ UNCHANGED <<builder, submaps, queue, problem, constraints,
                       connected_components, frame, imu_calls, notification,
                       history>>

\* The rest of AddScan: the node and its submap get their ids, and the work
\* item is executed at once unless there is a queue.
AppendScan ==
    LET t == incoming.trajectory
        item == [kind |-> "scan", trajectory |-> t,
                 index |-> Len(trajectory_nodes[t]),
                 insertion |-> incoming.insertion,
                 finished |-> incoming.finished]
        known == DOMAIN submap_states
    IN  /\ At(Main, "append")
        /\ mutex = Free
        /\ trajectory_nodes' =
              [trajectory_nodes EXCEPT ![t] = Append(@, incoming.frame)]
        /\ connectivity' = IF t \in UNION connectivity THEN connectivity
                           ELSE connectivity \cup {{t}}
        /\ submap_states' =
              [s \in known \cup {BackSubmap(item)} |->
                 IF s \in known THEN submap_states[s]
                 ELSE [finished |-> FALSE, node_ids |-> {}]]
        /\ incoming' = None
        /\ IF scan_queue = None
           THEN /\ mutex' = Main
                /\ scan' = [item |-> item, todo |-> {}]
                /\ Goto(Main, "begin")
                /\ UNCHANGED scan_queue
           ELSE /\ scan_queue' = Append(scan_queue, item)
                /\ Goto(Main, "idle")
                /\ UNCHANGED <<mutex, scan>>
        /\ UNCHANGED <<builder, submaps, num_scans_since, run_loop_closure,
                       problem, constraints, connected_components, frame,
                       imu_calls, notification, history>>

AddImuData ==
    /\ At(Main, "idle")
    /\ mutex = Free
    /\ imu_calls < MaxImu
    /\ imu_calls' = imu_calls + 1
    /\ IF scan_queue = None
       THEN imu_data' = imu_data + 1 /\ UNCHANGED scan_queue
       ELSE scan_queue' = Append(scan_queue, ImuItem) /\ UNCHANGED imu_data
    /\ UNCHANGED <<builder, submaps, mutex, num_scans_since, run_loop_closure,
                   submap_states, node_data, submap_data, published,
                   constraints, connectivity, pc, incoming, notification, scan,
                   history>>
-----------------------------------------------------------------------------
(* ComputeConstraintsForScan, executed by Main or by the worker that works  *)
(* off the queue; the thread holds mutex_ throughout.                       *)

\* GrowSubmapTransformsAsNeeded: submap entries of the trajectory afterwards.
GrownSubmapData(item) ==
    LET n == submap_data[item.trajectory]
    IN  IF Cardinality(item.insertion) = 1
        THEN IF n = 0 THEN 1 ELSE n
        ELSE IF BackSubmap(item)[2] = n THEN n + 1 ELSE n

\* Mutant: nodes that were inserted into the submap are not left out.
AllScans(submap, nodes, states) == nodes

\* ComputeConstraintsForOldScans: the nodes to match with a submap that is
\* being finished.
OldScans(submap, nodes, states) == nodes \ states[submap].node_ids

\* The node id is the next one of the optimization problem.  The pairs to
\* match are the new node with all finished submaps and, when this scan
\* finishes a submap, all older nodes with that one.
BeginScan(th) ==
    LET item == scan.item
        t == item.trajectory
        node == <<t, node_data[t]>>
        states == [s \in DOMAIN submap_states |->
                      IF s \in item.insertion
                      THEN [submap_states[s] EXCEPT !.node_ids = @ \cup {node}]
                      ELSE submap_states[s]]
        finished == {s \in DOMAIN states : states[s].finished}
        nodes == {n \in NodeIds : n[2] < node_data[n[1]]} \cup {node}
        old == IF item.finished
               THEN OldScans(FrontSubmap(item), nodes, states) ELSE {}
    IN  /\ At(th, "begin")
        /\ submap_data' = [submap_data EXCEPT ![t] = GrownSubmapData(item)]
        /\ node_data' = [node_data EXCEPT ![t] = @ + 1]
        /\ submap_states' = states
        /\ scan' = [scan EXCEPT !.todo =
                      {<<node, s>> : s \in finished}
                      \cup {<<n, FrontSubmap(item)>> : n \in old}]
        /\ failed' = \/ BackSubmap(item)[2] > submap_data[t]
                     \/ \E s \in item.insertion : states[s].finished
                     \/ \E s \in finished : node \in states[s].node_ids
        /\ Goto(th, "issue")
        /\ UNCHANGED <<when_done, current_computation, pending_computations,
                       slots, scan_matchers, queued_work_items, work_queue,
                       executing, computed, call, submaps, mutex, queue,
                       imu_data, published, constraints, connectivity, calls,
                       history>>

\* The order of the pairs: the new node with the finished submaps by their ids, then the
\* older nodes by theirs with the submap that is being finished.
Before(pair, other) ==
    LET front == FrontSubmap(scan.item)
    IN  IF pair[2] = other[2]
        THEN IdLess(pair[1], other[1])
        ELSE other[2] = front \/ (pair[2] # front /\ IdLess(pair[2], other[2]))

\* ComputeConstraint for the next pair.  Trajectories are compared as of the
\* last optimization; the sampler of the node's trajectory decides whether a
\* pair of two trajectories is matched globally.
ComputeConstraint(pair) ==
    LET node == pair[1]
        submap == pair[2]
        same == node[1] = submap[1]
        connected == \E c \in connected_components : {node[1], submap[1]} \subseteq c
    IN  /\ \A other \in scan.todo \ {pair} : Before(pair, other)
        /\ \/ ~same /\ CB!MaybeAddGlobalConstraint(submap, node)
           \/ (same \/ connected) /\ CB!MaybeAddConstraint(submap, node)
           \/ ~same /\ ~connected /\ UNCHANGED builder
        /\ scan' = [scan EXCEPT !.todo = @ \ {pair}]
        /\ considered' = considered \cup {pair}
        /\ UNCHANGED <<submaps, mutex, queue, submap_states, problem, published,
                       constraints, connectivity, pc, calls, matched>>

IssueConstraint(th) == At(th, "issue") /\ \E pair \in scan.todo : ComputeConstraint(pair)

\* Mutant: the front of the queue is not popped.
ItemDoneWithoutPop(th) ==
    /\ scan' = None
    /\ UNCHANGED scan_queue
    /\ IF th = Main
       THEN mutex' = Free /\ Goto(Main, "idle")
       ELSE UNCHANGED mutex /\ Goto(th, "drain")

\* The work item returns: Main unlocks, a worker goes on with its loop.
ItemDone(th) ==
    /\ scan' = None
    /\ IF th = Main
       THEN mutex' = Free /\ Goto(Main, "idle") /\ UNCHANGED scan_queue
       ELSE scan_queue' = Tail(scan_queue) /\ Goto(th, "drain") /\ UNCHANGED mutex

EndScan(th) ==
    /\ At(th, "issue")
    /\ scan.todo = {}
    /\ CB!NotifyEndOfScan
    /\ submap_states' = IF scan.item.finished
                        THEN [submap_states EXCEPT ![FrontSubmap(scan.item)].finished = TRUE]
                        ELSE submap_states
    /\ num_scans_since' = num_scans_since + 1
    /\ IF OptimizeEvery > 0 /\ num_scans_since' > OptimizeEvery
       THEN Goto(th, "close") /\ UNCHANGED <<mutex, scan, scan_queue>>
       ELSE ItemDone(th)
    /\ UNCHANGED <<submaps, run_loop_closure, problem, published, constraints,
                   connectivity, calls, history>>

\* The end of ComputeConstraintsForScan when it is time for a loop closure.
\* With a queue, the thread that owns it will take care.
RequestLoopClosure(th) ==
    /\ At(th, "close")
    /\ failed' = run_loop_closure
    /\ run_loop_closure' = TRUE
    /\ IF scan_queue = None
       THEN scan_queue' = <<>> /\ Goto(th, "register") /\ UNCHANGED <<mutex, scan>>
       ELSE ItemDone(th)
    /\ UNCHANGED <<when_done, current_computation, pending_computations, slots,
                   scan_matchers, queued_work_items, work_queue, executing,
                   computed, call, submaps, num_scans_since, submap_states,
                   problem, published, constraints, connectivity, calls,
                   history>>

\* HandleScanQueue, then the caller unlocks.
HandleScanQueue(th) ==
    /\ At(th, "register")
    /\ CB!WhenDone("loop_closure")
    /\ mutex' = Free
    /\ scan' = None
    /\ Goto(th, IF th = Main THEN "idle" ELSE "return")
    /\ UNCHANGED <<submaps, queue, submap_states, problem, published,
                   constraints, connectivity, calls, history>>
-----------------------------------------------------------------------------
(* Workers: matching. *)

\* Steps of the constraint builder that touch nothing else.
BuilderStep(w) ==
    /\ pc[w] = "pool"
    /\ CB!Start(w) \/ CB!ConstructSubmapScanMatcher(w) \/ CB!FinishComputation(w)
    /\ UNCHANGED <<submaps, mutex, queue, submap_states, problem, published,
                   constraints, connectivity, pc, calls, scan, history>>

\* Mutant: a global match does not connect the trajectories.
MatchUnconnected(w, match) ==
    LET t == executing[w]
    IN  /\ CB!ComputeConstraint(w, match)
        /\ matched' = IF match THEN matched \cup {<<t.node, t.submap>>} ELSE matched
        /\ UNCHANGED <<submaps, mutex, queue, submap_states, problem, published,
                       constraints, connectivity, pc, calls, scan, considered>>

\* A match; a global one connects the two trajectories.
Match(w, match) ==
    LET t == executing[w]
        joined == {c \in connectivity : {t.node[1], t.submap[1]} \cap c # {}}
    IN  /\ CB!ComputeConstraint(w, match)
        /\ connectivity' = IF match /\ t.global
                           THEN (connectivity \ joined) \cup {UNION joined}
                           ELSE connectivity
        /\ matched' = IF match THEN matched \cup {<<t.node, t.submap>>} ELSE matched
        /\ UNCHANGED <<submaps, mutex, queue, submap_states, problem, published,
                       constraints, pc, calls, scan, considered>>
-----------------------------------------------------------------------------
(* The callbacks of WhenDone, and RunOptimization. *)

\* Mutant: nobody is notified.
EnterCallbackSilently(w) ==
    /\ At(w, "pool")
    /\ call[w] # None
    /\ mutex = Free
    /\ constraints' = constraints \cup {<<r.node, r.submap>> : r \in call[w].result}
    /\ Goto(w, IF call[w].callback = "final" THEN "return" ELSE "optimize")
    /\ UNCHANGED <<builder, submaps, mutex, queue, submap_states, problem,
                   published, connectivity, calls, scan, history>>

\* Both callbacks start by appending the result to constraints_.
EnterCallback(w) ==
    LET final == call[w].callback = "final"
    IN  /\ At(w, "pool")
        /\ call[w] # None
        /\ mutex = Free
        /\ constraints' = constraints \cup {<<r.node, r.submap>> : r \in call[w].result}
        /\ notification' = (notification \/ final)
        /\ Goto(w, IF final THEN "return" ELSE "optimize")
        /\ UNCHANGED <<builder, submaps, mutex, queue, submap_states, problem,
                       published, connectivity, incoming, imu_calls, scan,
                       history>>

AfterOptimization(th) == IF th = Main THEN "wait_destroy" ELSE "resume"

\* RunOptimization up to the call of Solve; no lock is held.
RunOptimization(th) ==
    /\ At(th, "optimize")
    /\ Goto(th, IF \A t \in Trajectories : submap_data[t] = 0
                THEN AfterOptimization(th) ELSE "solve")
    /\ UNCHANGED <<builder, submaps, mutex, queue, submap_states, problem,
                   published, constraints, connectivity, calls, scan, history>>

\* Solve has returned: its result is published under the lock.  Nodes of the
\* problem get their optimized pose; for later ones the change of the last
\* submap's transform is applied, which is right for poses in the old frame.
PublishOptimization(th) ==
    LET new == [t \in Trajectories |->
                   IF submap_data[t] > 0 THEN frame[t] + 1 ELSE frame[t]]
    IN  /\ At(th, "solve")
        /\ mutex = Free
        /\ frame' = new
        /\ trajectory_nodes' =
              [t \in Trajectories |->
                 [k \in DOMAIN trajectory_nodes[t] |->
                    IF k <= node_data[t] \/ trajectory_nodes[t][k] = frame[t]
                    THEN new[t] ELSE trajectory_nodes[t][k]]]
        /\ connected_components' = connectivity
        /\ Goto(th, AfterOptimization(th))
        /\ UNCHANGED <<builder, submaps, mutex, queue, submap_states, problem,
                       constraints, connectivity, calls, scan, history>>

\* The callback locks again and starts to work off the queue.
Resume(w) ==
    /\ At(w, "resume")
    /\ mutex = Free
    /\ mutex' = w
    /\ num_scans_since' = 0
    /\ run_loop_closure' = FALSE
    /\ Goto(w, "drain")
    /\ UNCHANGED <<builder, submaps, scan_queue, submap_states, problem,
                   published, constraints, connectivity, calls, scan, history>>

\* Mutant: "we caught up", but the queue is not reset.
LeaveQueueBehind(w) ==
    /\ At(w, "drain")
    /\ \/ /\ run_loop_closure
          /\ Goto(w, "register")
          /\ UNCHANGED mutex
       \/ /\ ~run_loop_closure
          /\ scan_queue = <<>>
          /\ mutex' = Free
          /\ Goto(w, "return")
    /\ UNCHANGED <<builder, submaps, queue, submap_states, problem, published,
                   constraints, connectivity, calls, scan, history>>

\* Mutant: the queue is reset although scans are left in it.
LeaveTooEarly(w) ==
    /\ At(w, "drain")
    /\ \/ /\ run_loop_closure
          /\ Goto(w, "register")
          /\ UNCHANGED <<mutex, scan_queue>>
       \/ /\ ~run_loop_closure
          /\ scan_queue' = None
          /\ mutex' = Free
          /\ Goto(w, "return")
    /\ UNCHANGED <<builder, submaps, num_scans_since, run_loop_closure,
                   submap_states, problem, published, constraints,
                   connectivity, calls, scan, history>>

\* The loop is left to optimize again, or with nothing left to do.
LeaveLoop(w) ==
    /\ At(w, "drain")
    /\ \/ /\ run_loop_closure
          /\ Goto(w, "register")
          /\ UNCHANGED <<mutex, scan_queue>>
       \/ /\ ~run_loop_closure
          /\ scan_queue = <<>>
          /\ scan_queue' = None
          /\ mutex' = Free
          /\ Goto(w, "return")
    /\ UNCHANGED <<builder, submaps, num_scans_since, run_loop_closure,
                   submap_states, problem, published, constraints,
                   connectivity, calls, scan, history>>

\* The front of the queue is executed, and popped when it has returned.
WorkOffQueue(w) ==
    /\ At(w, "drain")
    /\ ~run_loop_closure
    /\ scan_queue # <<>>
    /\ IF Head(scan_queue) = ImuItem
       THEN /\ imu_data' = imu_data + 1
            /\ scan_queue' = Tail(scan_queue)
            /\ UNCHANGED <<pc, scan>>
       ELSE /\ scan' = [item |-> Head(scan_queue), todo |-> {}]
            /\ Goto(w, "begin")
            /\ UNCHANGED <<imu_data, scan_queue>>
    /\ UNCHANGED <<builder, submaps, mutex, num_scans_since, run_loop_closure,
                   submap_states, node_data, submap_data, published,
                   constraints, connectivity, calls, history>>

ReturnFromCallback(w) ==
    /\ At(w, "return")
    /\ CB!ReturnFromCallback(w)
    /\ Goto(w, "pool")
    /\ UNCHANGED <<submaps, mutex, queue, submap_states, problem, published,
                   constraints, connectivity, calls, scan, history>>
-----------------------------------------------------------------------------
(* Main: RunFinalOptimization and the destructor. *)

RunFinalOptimization ==
    /\ At(Main, "idle")
    /\ Finishes
    /\ Goto(Main, "wait_final")
    /\ UNCHANGED <<builder, submaps, mutex, queue, submap_states, problem,
                   published, constraints, connectivity, calls, scan, history>>

\* WaitForAllComputations: the predicate is evaluated again at least every
\* second.  When it holds a callback is registered ...
WaitForAllComputations(here, next) ==
    /\ At(Main, here)
    /\ mutex = Free
    /\ CB!GetNumFinishedScans = NumTrajectoryNodes
    /\ CB!WhenDone("final")
    /\ notification' = FALSE
    /\ Goto(Main, next)
    /\ UNCHANGED <<submaps, mutex, queue, submap_states, problem, published,
                   constraints, connectivity, incoming, imu_calls, scan,
                   history>>

\* Mutant: the notification is not awaited.
AwaitNothing(here, next) ==
    /\ At(Main, here)
    /\ mutex = Free
    /\ Goto(Main, next)
    /\ UNCHANGED <<builder, submaps, mutex, queue, submap_states, problem,
                   published, constraints, connectivity, calls, scan, history>>

\* ... and awaited.
AwaitNotification(here, next) ==
    /\ At(Main, here)
    /\ mutex = Free
    /\ notification
    /\ Goto(Main, next)
    /\ UNCHANGED <<builder, submaps, mutex, queue, submap_states, problem,
                   published, constraints, connectivity, calls, scan, history>>

\* ~SparsePoseGraph after the wait, and ~ConstraintBuilder.
Destroy ==
    /\ At(Main, "destroy")
    /\ mutex = Free
    /\ failed' = \/ scan_queue # None
                 \/ when_done # None
                 \/ slots # <<>>
                 \/ \E c \in CB!Computations : pending_computations[c] # 0
                 \/ \E s \in SubmapIds : queued_work_items[s] # {}
    /\ Goto(Main, "destroyed")
    /\ UNCHANGED <<when_done, current_computation, pending_computations, slots,
                   scan_matchers, queued_work_items, work_queue, executing,
                   computed, call, submaps, mutex, queue, submap_states,
                   problem, published, constraints, connectivity, calls, scan,
                   history>>
-----------------------------------------------------------------------------
\* Steps of a thread that holds or awaits the lock, at the same place in Main
\* and in the workers.
Common(th) == \/ BeginScan(th)
              \/ IssueConstraint(th)
              \/ EndScan(th)
              \/ RequestLoopClosure(th)
              \/ HandleScanQueue(th)
              \/ RunOptimization(th)
              \/ PublishOptimization(th)

WorkerStep(w) == \/ Common(w)
                 \/ BuilderStep(w)
                 \/ \E match \in BOOLEAN : Match(w, match)
                 \/ EnterCallback(w)
                 \/ Resume(w)
                 \/ LeaveLoop(w)
                 \/ WorkOffQueue(w)
                 \/ ReturnFromCallback(w)

\* What Main goes on with once it has entered a call.
MainStep == \/ Common(Main)
            \/ AppendScan
            \/ WaitForAllComputations("wait_final", "await_final")
            \/ AwaitNotification("await_final", "optimize")
            \/ WaitForAllComputations("wait_destroy", "await_destroy")
            \/ AwaitNotification("await_destroy", "destroy")
            \/ Destroy

\* Calls Main may make or not.
MainCall == \/ \E t \in Trajectories : AddScan(t)
            \/ AddImuData
            \/ RunFinalOptimization

\* Nothing is left to do; any other state without a step is a deadlock.
Rest == /\ pc[Main] \in {"idle", "destroyed"}
        /\ \A w \in Workers : executing[w] = Idle
        /\ work_queue = {}
        /\ scan_queue = None
        /\ UNCHANGED vars

Next == MainCall \/ MainStep \/ Rest \/ \E w \in Workers : WorkerStep(w)

\* A thread inside a call goes on; Main need not make another call.
Fairness == WF_vars(MainStep) /\ \A w \in Workers : WF_vars(WorkerStep(w))

Spec == Init /\ [][Next]_vars /\ Fairness
-----------------------------------------------------------------------------
\* The state has the types of the members; the optimization problem never runs
\* ahead of the trajectory nodes, and only considered pairs are matched.
TypeOK ==
    /\ CB!TypeOK
    /\ submaps \in [Trajectories -> Seq(SM!Submap)]
    /\ mutex \in Threads \cup {Free}
    /\ scan_queue = None \/ scan_queue \in Seq(ScanItems \cup {ImuItem})
    /\ run_loop_closure \in BOOLEAN
    /\ num_scans_since \in Nat
    /\ DOMAIN submap_states \subseteq SubmapIds
    /\ \A s \in DOMAIN submap_states : submap_states[s].node_ids \subseteq NodeIds
    /\ \A t \in Trajectories : node_data[t] <= Len(trajectory_nodes[t])
    /\ matched \subseteq considered

\* No CHECK of the pose graph or its constraint builder fails: the builder's
\* cycle is started once at a time, no loop closure is requested twice, no
\* scan goes into a finished submap, and the destructors find nothing left.
NoCheckFails == ~failed

\* A queue always has one owner that will work it off: the callback registered
\* for it, or the thread that registers or runs that callback.
Owners == (IF when_done = "loop_closure" THEN {"when_done"} ELSE {})
          \cup {th \in Threads : pc[th] = "register" /\ when_done # "loop_closure"}
          \cup {w \in Workers : /\ call[w] # None
                                /\ call[w].callback = "loop_closure"
                                /\ pc[w] \notin {"register", "return"}}
QueueHasOwner == IF scan_queue = None THEN Owners = {}
                 ELSE Cardinality(Owners) = 1

\* Nodes in the optimization problem, and finished submaps.
OptimizedNodes == {n \in NodeIds : n[2] < node_data[n[1]]}
FinishedSubmaps == {s \in DOMAIN submap_states : submap_states[s].finished}

\* sparse_pose_graph.h:94-102: between scans, every node was inserted into a
\* finished submap or tried against it, never both, whichever of the two came
\* first and whether the scan was processed at once or from the queue.
MatchedOnce ==
    /\ scan = None =>
          \A n \in OptimizedNodes, s \in FinishedSubmaps :
             (n \in submap_states[s].node_ids) # (<<n, s>> \in considered)
    /\ scan # None => scan.todo \cap considered = {}

\* constraint_builder.h:157-159: a submap that is or will be matched in the
\* background does not change anymore, although its trajectory goes on: workers
\* read its grid without a lock while Main inserts into the newer ones.
MatchedSubmapsFinal ==
    \A t \in CB!Unfinished : t.kind # "finish" =>
       submaps[t.submap[1]][t.submap[2] + 1].finished

\* The node id taken from the optimization problem is the one AddScan gave the
\* scan: work items are executed in the order of the calls, across the change
\* from direct execution to the queue and back.
NodeIdsMatch ==
    \A th \in Threads : pc[th] = "begin" =>
       scan.item.index = node_data[scan.item.trajectory]

\* Work items are run one at a time, in the order in which they were added.
ItemsInOrder == QueueHasOwner /\ NodeIdsMatch

\* sparse_pose_graph.h:145-146: one optimization is run at a time.
OneOptimization == Cardinality({th \in Threads : pc[th] = "solve"}) <= 1

\* Solve reads the optimization problem and the constraints without the lock:
\* nobody changes them until its result has been published.
SolveUndisturbed ==
    [][(\E th \in Threads : pc[th] = "solve" /\ pc'[th] = "solve")
       => UNCHANGED <<problem, constraints>>]_vars

\* sparse_pose_graph.cc:367: "Extrapolate all point cloud poses that were added later."  The
\* poses that GetTrajectoryNodes returns are all in the frame of the last optimization.
PosesInFrame ==
    \A t \in Trajectories : \A k \in DOMAIN trajectory_nodes[t] :
       trajectory_nodes[t][k] = frame[t]

\* Every match ends up in constraints_ once: it is there, or in the slots of
\* the builder, or in a result that is about to be appended.
Waiting == CB!Found \cup UNION {call[w].result :
             w \in {v \in Workers : call[v] # None /\ pc[v] = "pool"}}
NoMatchLost ==
    /\ matched = constraints \cup {<<r.node, r.submap>> : r \in Waiting}
    /\ \A r \in Waiting : <<r.node, r.submap>> \notin constraints

\* Trajectories are connected by what was matched between them: both sides of
\* a match are in one component, and no component is larger than its matches
\* make it.  Workers connect while Main adds trajectories and scans.
ConnectedByMatches ==
    LET links == {<<m[1][1], m[2][1]>> : m \in matched}
    IN  /\ \A l \in links : \E c \in connectivity : {l[1], l[2]} \subseteq c
        /\ \A c \in connectivity : \A part \in (SUBSET c) \ {{}, c} :
              \E l \in links : {l[1], l[2]} \cap part # {}
                               /\ ~ {l[1], l[2]} \subseteq part
        /\ \A c, d \in connectivity : c # d => c \cap d = {}

\* What the workers match is kept, in the constraints and in the connectivity.
MatchesKept == NoMatchLost /\ ConnectedByMatches

\* sparse_pose_graph.h:141-142: when WaitForAllComputations has returned,
\* nothing is queued and every computation has finished and been collected.
CaughtUp ==
    pc[Main] \in {"optimize", "destroy"} =>
       /\ scan_queue = None
       /\ CB!Unfinished = {}
       /\ matched = constraints
       /\ \A t \in Trajectories : node_data[t] = Len(trajectory_nodes[t])

\* The queue is worked off: scans are only deferred, also when the optimization
\* has to be run again and again.
QueueWorkedOff == (scan_queue # None) ~> (scan_queue = None)

\* Every scan Main has added reaches the optimization problem.
ScansProcessed ==
    \A n \in NodeIds : (n[2] < Len(trajectory_nodes[n[1]]))
                       ~> (n[2] < node_data[n[1]])

\* RunFinalOptimization and the destructor end.
WaitEnds == (pc[Main] = "wait_final") ~> (pc[Main] = "destroyed")
=============================================================================
