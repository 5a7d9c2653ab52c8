------------------------ MODULE OptimizationProblem ------------------------
(***************************************************************************)
(* mapping_3d::sparse_pose_graph::OptimizationProblem: for each trajectory,*)
(* what Solve makes of the IMU data between its nodes.  One iterator goes  *)
(* through the data as the nodes are visited, and a copy of it runs ahead  *)
(* to the points in time half way between nodes.  Poses and the            *)
(* constraints of the pose graph are in SparsePoseGraph.                   *)
(***************************************************************************)
EXTENDS ImuIntegration

CONSTANTS
    Trajectories,  \* trajectory ids, from 0 on
    MaxTime,       \* bound: times of IMU data and nodes
    MaxData        \* bound: IMU data and nodes

VARIABLES
    imu_data_,   \* the times of the IMU data, by trajectory id
    node_data_,  \* the times of the nodes, by trajectory id
    residuals,   \* what the last Solve gave to the solver, until something is added
    failed       \* a CHECK has failed, or at() has thrown

problemVars == <<imu_data_, node_data_, residuals, failed>>

Init == /\ imu_data_ = [t \in {} |-> <<>>]
        /\ node_data_ = [t \in {} |-> <<>>]
        /\ residuals = {}
        /\ failed = FALSE
-----------------------------------------------------------------------------
\* The vector is resized to have trajectory t, and the datum is pushed back.
Added(data, t, time) ==
    [u \in DOMAIN data \cup 0..t |->
        (IF u \in DOMAIN data THEN data[u] ELSE <<>>) \o (IF u = t THEN <<time>> ELSE <<>>)]

AddImuData(t, time) ==
    /\ imu_data_' = Added(imu_data_, t, time)
    /\ residuals' = {}
    /\ UNCHANGED <<node_data_, failed>>

AddTrajectoryNode(t, time) ==
    /\ node_data_' = Added(node_data_, t, time)
    /\ residuals' = {}
    /\ UNCHANGED <<imu_data_, failed>>

\* Mutant: a datum of the time of the first node is left for later.
SkippedBefore(imu, time) ==
    CHOOSE k \in DOMAIN imu : /\ \A j \in 2..k : imu[j] < time
                              /\ k < Len(imu) => imu[k + 1] >= time

\* Skip IMU data before the first node of this trajectory.
Skipped(imu, time) ==
    CHOOSE k \in DOMAIN imu : /\ \A j \in 2..k : imu[j] <= time
                              /\ k < Len(imu) => imu[k + 1] > time

\* Where the iterator is when the step to node i + 1 begins.
Iterators(imu, nodes) ==
    LET its[i \in DOMAIN nodes] ==
            IF i = 1 THEN Skipped(imu, nodes[1])
            ELSE Advanced(imu, its[i - 1], nodes[i - 1], nodes[i])
    IN  its

\* Half way between two nodes.
Center(nodes, i) == nodes[i] + (nodes[i + 1] - nodes[i]) \div 2

\* The calls of IntegrateImu in the step from node i, each with its iterator.
Rotation(imu, nodes, i) == [it |-> Iterators(imu, nodes)[i], start |-> nodes[i],
                            end |-> nodes[i + 1]]
ToFirstCenter(imu, nodes, i) == [Rotation(imu, nodes, i) EXCEPT !.end = Center(nodes, i)]

\* Mutant: the copy of the iterator does not move between the two calls.
CenterToCenterFromNode(imu, nodes, i) ==
    [it |-> Iterators(imu, nodes)[i],
     start |-> Center(nodes, i), end |-> Center(nodes, i + 1)]

CenterToCenter(imu, nodes, i) ==
    LET first == ToFirstCenter(imu, nodes, i)
    IN  [it |-> Advanced(imu, first.it, first.start, first.end),
         start |-> first.end, end |-> Center(nodes, i + 1)]

Integrations(imu, nodes, i) ==
    {Rotation(imu, nodes, i)} \cup
    (IF i + 1 < Len(nodes) THEN {ToFirstCenter(imu, nodes, i), CenterToCenter(imu, nodes, i)}
                           ELSE {})

\* IntegrateImu stops the program when one of its CHECKs fails.
IntegrationFails(imu, call) == ~CanIntegrate(imu, call.it, call.start, call.end)
Integrated(imu, call) == Integral(imu, call.it, call.start, call.end)

\* The cost functions of trajectory t; acceleration is that at the node in the middle.
Residuals(t) ==
    LET imu == imu_data_[t]
        nodes == node_data_[t]
        Of(call) == Integrated(imu, call)
    IN  {[trajectory |-> t, kind |-> "rotation", node |-> i + 1,
          integrals |-> <<Of(Rotation(imu, nodes, i))>>] : i \in 1..Len(nodes) - 1}
        \cup
        {[trajectory |-> t, kind |-> "acceleration", node |-> i + 1,
          integrals |-> <<Of(Rotation(imu, nodes, i)), Of(ToFirstCenter(imu, nodes, i)),
                          Of(CenterToCenter(imu, nodes, i))>>] : i \in 1..Len(nodes) - 2}

Fails(t) ==
    \/ t \notin DOMAIN imu_data_
    \/ imu_data_[t] = <<>>
    \/ node_data_[t] = <<>>
    \/ \E i \in 1..Len(node_data_[t]) - 1 :
         \E call \in Integrations(imu_data_[t], node_data_[t], i) :
            IntegrationFails(imu_data_[t], call)

Solve == /\ failed' = \E t \in DOMAIN node_data_ : Fails(t)
         /\ residuals' = IF failed' THEN {} ELSE UNION {Residuals(t) : t \in DOMAIN node_data_}
         /\ UNCHANGED <<imu_data_, node_data_>>
-----------------------------------------------------------------------------
Last(data, t) == data[t][Len(data[t])]
HasData(data, t) == t \in DOMAIN data /\ data[t] # <<>>

NumData(data) == LET count[t \in Trajectories] ==
                         (IF HasData(data, t) THEN Len(data[t]) ELSE 0)
                         + (IF t = 0 THEN 0 ELSE count[t - 1])
                 IN  count[CHOOSE t \in Trajectories : \A u \in Trajectories : u <= t]

\* The local trajectory builder has no node before it has IMU data, and the optimization
\* has no trajectories without nodes (optimization_problem.cc:198).
Next ==
    /\ ~failed
    /\ \/ /\ NumData(imu_data_) + NumData(node_data_) < MaxData
          /\ \E t \in Trajectories, time \in 0..MaxTime :
               \/ /\ HasData(imu_data_, t) => Last(imu_data_, t) < time
                  /\ AddImuData(t, time)
               \/ /\ HasData(imu_data_, t) /\ imu_data_[t][1] <= time
                  /\ HasData(node_data_, t) => Last(node_data_, t) <= time
                  /\ AddTrajectoryNode(t, time)
       \/ (\A t \in DOMAIN node_data_ : node_data_[t] # <<>>) /\ Solve

Spec == Init /\ [][Next]_problemVars
-----------------------------------------------------------------------------
\* At each instant from start to end one datum is integrated, the newest there was.
Covers(pieces, imu, start, end) ==
    /\ \A piece \in pieces : start <= piece.from /\ piece.from < piece.to /\ piece.to <= end
    /\ \A instant \in start..end - 1 :
         LET at == {piece \in pieces : piece.from <= instant /\ instant < piece.to}
         IN  /\ \E piece \in at : at = {piece}
             /\ \A piece \in at, k \in DOMAIN imu : imu[k] <= instant => imu[k] <= piece.imu
             /\ \A piece \in at : piece.imu <= instant

\* optimization_problem.cc:194-253: no CHECK of IntegrateImu fails, and every node but the
\* first of its trajectory is tied to the one before by all of the IMU data between them,
\* and to both its neighbours by the data from half way before it to half way behind it,
\* however the data and the nodes of the trajectories lie in time.
ResidualsExact ==
    /\ ~failed
    /\ \A r \in residuals :
         LET imu == imu_data_[r.trajectory]
             nodes == node_data_[r.trajectory]
             Is(k, start, end) == Covers(r.integrals[k], imu, start, end)
         IN  /\ Is(1, nodes[r.node - 1], nodes[r.node])
             /\ r.kind = "acceleration" =>
                  /\ Is(2, nodes[r.node - 1], Center(nodes, r.node - 1))
                  /\ Is(3, Center(nodes, r.node - 1), Center(nodes, r.node))
    /\ residuals # {} =>
         \A t \in DOMAIN node_data_ :
            /\ {r.node : r \in {s \in residuals : s.trajectory = t /\ s.kind = "rotation"}}
                 = 2..Len(node_data_[t])
            /\ {r.node : r \in {s \in residuals : s.trajectory = t /\ s.kind = "acceleration"}}
                 = 2..Len(node_data_[t]) - 1
=============================================================================
